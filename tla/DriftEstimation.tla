---------------------------- MODULE DriftEstimation ----------------------------
(* How the receiver follows its crystal: the synchronizer measures the        *)
(* carrier's offset inside a search range, the scheduler averages it, narrows *)
(* the range and sends corrections to a thread that sets the dongle, which     *)
(* changes what is measured next.  (A file, whose samples are resampled        *)
(* instead and whose clock is taken from the null symbol, is left out.)        *)
(* Frequencies are in Hz, the sampling error in Ppm-ths of a ppm, so that at   *)
(* Ppm MHz a dongle's carrier moves as much as its clock.                      *)
EXTENDS Integers, Sequences, FiniteSets, FiniteSetsExt

CONSTANTS
  Ppm,               \* Hz of carrier per ppm of crystal: carrier_frequency_ in MHz
  Errors,            \* errors of the crystal, in Hz of carrier (ppm times Ppm)
  MaxFaults,         \* frames that are missed, or measured wrongly, or thrown back to SYNC
  Outlier,           \* how wrong a wrong measurement is
  Lag                \* frames the resampling thread may take

ASSUME ConstantsAssumption ==
  /\ Ppm \in Nat \ {0} /\ Lag \in Nat \ {0} /\ MaxFaults \in Nat
  /\ Errors \subseteq Int /\ Outlier \in Int

VARIABLES
  state_,            \* SYNC, CONF or PLAY
  fc,                \* fc_drift_table_, fc_counter_, fc_drift_table_full_, fc_converged_, recalc_fc_drift_, estimated_fc_drift_
  fs,                \* fs_drift_, fs_drift_queue_, number_of_frames_for_estimate_fsdrift_
  range,             \* the synchronizer's first and second, positive and negative values, halved
  resample,          \* the resampling thread: resumed or not, since when, resample_data_.fs_drift
  offset,            \* the feeder's current_fs_offset, in 1/Scale of a unit
  error,             \* external: how far off the dongle's crystal is
  faults

vars == <<state_, fc, fs, range, resample, offset, error, faults>>

TableLength == 10
Slots == 0..(TableLength - 1)
Scale == 420                     \* 30 frames times 7, and 10 times 2, divide it

Abs(n) == IF n < 0 THEN -n ELSE n
\* A quotient rounded toward zero, as a float becomes an int.
Truncated(a, b) == IF a < 0 THEN -((-a) \div b) ELSE a \div b
Nearest(n) == (n + 500) \div 1000

-----------------------------------------------------------------------------
(* The samples and the synchronizer. *)

ppm == Truncated(offset, Scale * Ppm)
\* What is left of the error, which is where the carrier shows.
Residual == ppm * Ppm - error

\* The whole numbers of kHz among which the peak of the phase reference is looked for.
Searched == {0} \cup (range.first_pos..(range.second_pos - 1)) \cup (range.first_neg..(range.second_neg - 1))
\* Outside the range the highest value is that of some noise.
Measurements ==
  IF Nearest(Residual) \in Searched THEN {Residual}
  ELSE {1000 * peak + Residual - 1000 * Nearest(Residual) : peak \in Searched}

\* Mutated: the range is a kHz on either side.
NarrowRange(khz) ==
  LET search_range == 1 IN
  IF khz < 0
  THEN [first_neg |-> khz - search_range,
        second_neg |-> IF khz + search_range > 0 THEN 0 ELSE khz + search_range,
        first_pos |-> 0,
        second_pos |-> IF khz + search_range > 0 THEN khz + search_range ELSE 0]
  ELSE [first_neg |-> IF khz - search_range < 0 THEN khz - search_range ELSE 0,
        second_neg |-> 0,
        first_pos |-> IF khz - search_range < 0 THEN 0 ELSE khz - search_range,
        second_pos |-> khz + search_range]

SetSearchRange(khz) ==
  LET search_range == 4 IN
  IF khz < 0
  THEN [first_neg |-> khz - search_range,
        second_neg |-> IF khz + search_range > 0 THEN 0 ELSE khz + search_range,
        first_pos |-> 0,
        second_pos |-> IF khz + search_range > 0 THEN khz + search_range ELSE 0]
  ELSE [first_neg |-> IF khz - search_range < 0 THEN khz - search_range ELSE 0,
        second_neg |-> 0,
        first_pos |-> IF khz - search_range < 0 THEN 0 ELSE khz - search_range,
        second_pos |-> khz + search_range]

-----------------------------------------------------------------------------
(* The carrier's offset: a table of ten, the middle four of which count. *)

\* The sum of the four measurements in the middle, and whether they agree: their
\* deviation is less than 0.05 kHz.
Middle(table) ==
  LET rank(i) == Cardinality({j \in Slots : table[j] < table[i] \/ (table[j] = table[i] /\ j < i)})
  IN {i \in Slots : rank(i) \in 3..6}
MeanOfFour(table) == MapThenSumSet(LAMBDA i : table[i], Middle(table))
\* Mutated: the comparison is the other way round.
Disagree(table, mean) ==
  LET deviation == [i \in Middle(table) |-> 4 * table[i] - mean]
  IN /\ \A i \in DOMAIN deviation : Abs(deviation[i]) < 400
     /\ MapThenSumSet(LAMBDA i : deviation[i] * deviation[i], DOMAIN deviation) > 160000
Agree(table, mean) ==
  LET deviation == [i \in Middle(table) |-> 4 * table[i] - mean]
  IN /\ \A i \in DOMAIN deviation : Abs(deviation[i]) < 400
     /\ MapThenSumSet(LAMBDA i : deviation[i] * deviation[i], DOMAIN deviation) < 160000

StartFcHandle(c) == [c EXCEPT !.full = FALSE, !.counter = 0, !.estimated = 0]
NearMean(mean, measured) == Abs(4 * measured - mean) < 200
ConvergedFcHandle(c, mean, measured) ==
  IF NearMean(mean, measured)
  THEN [c EXCEPT !.estimated = measured, !.table[c.counter] = measured]
  ELSE [c EXCEPT !.estimated = Truncated(mean, 4)]
FsChangedFcHandle(c, measured) ==
  LET threshold == IF state_ = "SYNC" THEN 100 * 1000 ELSE 1000
      new == [c EXCEPT !.recalc = @ - 1]
  IN IF Abs(c.estimated - measured) < threshold
     THEN [new EXCEPT !.estimated = measured, !.table = [i \in Slots |-> measured]] ELSE new
FillTable(c, measured) == [c EXCEPT !.estimated = measured, !.table[c.counter] = measured]

\* The counter has gone round.
Wrapped(c) == IF c.counter > TableLength - 1 THEN [c EXCEPT !.full = TRUE, !.counter = 0] ELSE c

\* One measurement: the new table and estimate, and whether the search range follows
\* (ConvergedFcHandle does that once a round).
CalculateFcDrift(measured) ==
  LET wrapped == Wrapped(fc)
      mean == MeanOfFour(wrapped.table)
      c == IF wrapped.full THEN [wrapped EXCEPT !.converged = Agree(wrapped.table, mean)] ELSE wrapped
      handled == IF ~c.full THEN FillTable(c, measured)
                 ELSE IF ~c.converged THEN StartFcHandle(c)
                 ELSE IF c.recalc > 0 THEN FsChangedFcHandle(c, measured)
                 ELSE ConvergedFcHandle(c, mean, measured)
  IN [fc |-> [handled EXCEPT !.counter = @ + 1],
      narrows |-> c.full /\ c.converged /\ c.recalc = 0 /\ c.counter = 0 /\ NearMean(mean, measured)]

-----------------------------------------------------------------------------
(* The sampling frequency. *)

Later == [resample EXCEPT !.since = IF resample.resumed THEN @ + 1 ELSE 0]
SumOf(queue) == LET sum[k \in 0..Len(queue)] == IF k = 0 THEN 0 ELSE sum[k - 1] + queue[k] IN sum[Len(queue)]
\* What one frame says of the clock: the crystal is that of the carrier.
FsDriftOfFrame(estimated) == -estimated
\* A quarter of the queue goes once it is long enough.
TailErased(queue) == SubSeq(queue, (Len(queue) \div 4) + 1, Len(queue))
ResetFsDrift(f) == [f EXCEPT !.drift = 0, !.queue = << >>]

\* One frame whose null symbol was found; frames long is the queue of the estimates.
CalculateAndSetDrifts(measured, frames) ==
  LET calculated == CalculateFcDrift(measured)
      c == calculated.fc
      one == FsDriftOfFrame(c.estimated)
      queue == Append(fs.queue, one)
      long == Len(queue) >= frames
      sum == SumOf(queue)
      correct == long /\ Abs(sum) > Ppm * Len(queue) /\ c.converged
  IN [fc |-> IF correct THEN [c EXCEPT !.recalc = 5] ELSE c,
      fs |-> [drift |-> IF long THEN Truncated(sum, Len(queue)) ELSE one,
              queue |-> IF long THEN TailErased(queue) ELSE queue, frames |-> frames],
      resample |-> IF correct
                   THEN [resumed |-> TRUE, since |-> 0,
                         fs_drift |-> Truncated(sum * (Scale \div (frames \div 4)), Len(queue))]
                   ELSE Later,
      range |-> IF calculated.narrows THEN SetSearchRange(Truncated(c.estimated, 1000)) ELSE range]

-----------------------------------------------------------------------------
(* The frames in each state, and the thread. *)

Start ==
  /\ state_ = "SYNC"
  /\ fc = [table |-> [i \in Slots |-> 0], counter |-> 0, full |-> FALSE, converged |-> FALSE,
           recalc |-> 0, estimated |-> 0]
  /\ fs = [drift |-> 0, queue |-> << >>, frames |-> 10]
  /\ range = [first_pos |-> 1, second_pos |-> 201, first_neg |-> -200, second_neg |-> 0]
  /\ resample = [resumed |-> FALSE, since |-> 0, fs_drift |-> 0]
  /\ offset = 0
  /\ faults = 0
Init == Start /\ error \in Errors

\* The next frame is there before the thread is more than Lag frames late.
InTime == resample.resumed => resample.since < Lag
Fault == faults < MaxFaults /\ faults' = faults + 1

\* A measurement that is right, or (a fault) wrong; the wrong ones come when the clock
\* was not just corrected, for then FsChangedFcHandle may believe them.
Measured(m) == \/ m \in Measurements /\ UNCHANGED faults
               \/ m = Residual + Outlier /\ fc.recalc = 0 /\ Fault

\* A frame whose null symbol was found: newfs and newstate are the queue and the state after it.
NullOk(m, frames, newfs(_), newstate(_)) ==
  /\ InTime
  /\ \E d \in {CalculateAndSetDrifts(m, frames)} :
        /\ fc' = d.fc /\ fs' = newfs(d.fs) /\ resample' = d.resample /\ range' = d.range
        /\ state_' = newstate(d)
  /\ UNCHANGED <<offset, error>>

Candidates == Measurements \cup {Residual + Outlier}
Same(f) == f
SyncFrame ==
  /\ state_ = "SYNC"
  /\ \E m \in Candidates :
        /\ Measured(m)
        /\ NullOk(m, fs.frames, Same,
                  LAMBDA d : IF d.fc.converged /\ Abs(d.fs.drift) < 2 * Ppm THEN "CONF" ELSE "SYNC")

\* Stations were found: CONFSTATION follows at once, which resets the drift, and PLAY.
ConfFrame ==
  /\ state_ = "CONF"
  /\ \E m \in Candidates : Measured(m) /\ NullOk(m, 30, ResetFsDrift, LAMBDA d : "PLAY")

\* No station in this frame: back to SYNC.
ConfNoStation ==
  /\ state_ = "CONF"
  /\ Fault
  /\ \E m \in Measurements : NullOk(m, 30, ResetFsDrift, LAMBDA d : "SYNC")

PlayFrame ==
  /\ state_ = "PLAY"
  /\ \E m \in Candidates : Measured(m) /\ NullOk(m, fs.frames, Same, LAMBDA d : "PLAY")

\* NULL_SHIFT or NULL_NOT_DETECTED: the estimate of the clock starts again.
NullMissed ==
  /\ Fault
  /\ InTime
  /\ fs' = ResetFsDrift(fs)
  /\ state_' = IF state_ = "CONF" THEN "SYNC" ELSE state_
  /\ resample' = Later
  /\ UNCHANGED <<fc, range, offset, error>>

\* The thread: HandleDrifts of the feeder.
HandleDrifts ==
  /\ resample.resumed
  /\ offset' = offset + resample.fs_drift
  /\ resample' = [resample EXCEPT !.resumed = FALSE]
  /\ UNCHANGED <<state_, fc, fs, range, error, faults>>

Next == SyncFrame \/ ConfFrame \/ ConfNoStation \/ PlayFrame \/ NullMissed \/ HandleDrifts
Spec == Init /\ [][Next]_vars

\* Frames keep coming, and the thread gets its turn: some step is always possible, so
\* this is weak fairness of Next.
FairSpec == Spec /\ []<><<TRUE>>_vars

-----------------------------------------------------------------------------
(* Properties. *)

\* What is to be measured lies where the synchronizer looks for it: the correction
\* of the clock never moves the carrier out of the range that was narrowed before
\* (SetSearchRange, CalculateAndSetDrifts).
CarrierInRange == Nearest(Residual) \in Searched

\* Corrections go the right way and not too far, though each is an average of
\* frames most of which were received before the one before it (HandleDrifts,
\* number_of_frames_for_estimate_fsdrift_).
NoOvershoot == faults = 0 => Abs(Residual) <= Abs(error) + Ppm

\* Together: a correction neither goes too far nor loses the carrier, whatever the
\* order of frames, corrections and faults.
CarrierFollowed == CarrierInRange /\ NoOvershoot

\* The receiver ends in PLAY with its clock corrected (Sync, Conf and Play).
Settles == <>[](state_ = "PLAY" /\ Abs(Residual) < 2 * Ppm)

=============================================================================
