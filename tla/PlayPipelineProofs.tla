-------------------------- MODULE PlayPipelineProofs --------------------------
(***************************************************************************)
(* The PLAY state keeps its two buffers in order for every size of the     *)
(* buffers, blocks and frames and for every order of the threads' steps,   *)
(* until the user asks for something: a worker is resumed only when it is  *)
(* at rest and on data that are there, the data decoder's window follows   *)
(* the demodulator's without a gap, and of the asserts only the one that   *)
(* compares the feeder's last report with what is moved can fail.          *)
(*                                                                         *)
(* The methods of the scheduler are operators on its state.  Good is what  *)
(* each of them keeps; it holds of the state between two handlers.         *)
(***************************************************************************)
EXTENDS PlayPipeline, SequenceTheorems, TLAPS

Busy == {"asked", "running", "msc", "reporting"}
Stages == Busy \cup {"idle", "again"}

State ==
  [data_stored : BOOLEAN, write_ready : BOOLEAN,
   data_write_pos_ : Int, last_data_feeder_write_ : Int,
   sync_read_pos_ : Int, demod_read_pos_ : Int, demod_read_pos_queue_ : Seq(Int),
   demod_read_here : Int, demod_write_pos_ : Int, decod_read_pos_ : Int,
   last_demodulator_write_ : Int, demodulator_data_waiting_ : BOOLEAN,
   demodulator_write_blocked_ : BOOLEAN,
   handled : [Workers -> BOOLEAN], stage : [Workers -> Stages],
   demodulated : BOOLEAN, ahead : Int, ok : BOOLEAN]

\* DataEnd, of any state of the scheduler.
EndOf(st) == st.data_write_pos_ + (IF st.data_stored THEN block_size ELSE 0)

AtRest(st) == \A w \in Workers : st.handled[w] => st.stage[w] = "idle"

\* The samples: the next block fits, what is known to be stored is, and the
\* synchronizer's window is known to be stored until its report is handled.
SamplesThere(st) ==
  /\ st.data_write_pos_ + block_size <= sync_feeder_buffer_size_
  /\ st.last_data_feeder_write_ <= EndOf(st)
  /\ ~st.handled[SYNCHRONIZER] =>
       st.sync_read_pos_ + sync_read_size_ <= st.last_data_feeder_write_

\* A frame at pos that waits for the demodulator is stored, and lies before the
\* next one the synchronizer may find.
FrameThere(st, pos) ==
  /\ pos <= st.last_data_feeder_write_
  /\ pos < st.sync_read_pos_ + null_size
  /\ pos + DemodulatorReads <= EndOf(st)

FramesThere(st) ==
  \A i \in DOMAIN st.demod_read_pos_queue_ : FrameThere(st, st.demod_read_pos_queue_[i])

StartGap == (units_for_read - 1) * deqpsk_unit_size_

\* The demodulated units: a unit that waits for room lies behind the place of
\* the next one, and no other is being made.
UnitsThere(st) ==
  /\ st.demod_write_pos_ + deqpsk_unit_size_ <= demod_decod_buffer_size_
  /\ st.ahead >= 0 /\ (~st.handled[DATADECODER] => st.ahead > 0)
  /\ st.demodulator_data_waiting_ => st.handled[DEMODULATOR] /\ st.demodulated
  /\ st.demodulated =>
       /\ st.last_demodulator_write_ =
            st.demod_write_pos_ + (IF st.demodulator_data_waiting_ THEN deqpsk_unit_size_ ELSE 0)
       /\ st.last_demodulator_write_ = st.decod_read_pos_ + StartGap + st.ahead * deqpsk_unit_size_
  /\ ~st.demodulated =>
       /\ st.demod_write_pos_ = StartGap
       /\ st.decod_read_pos_ = 0 /\ st.last_demodulator_write_ = 0 /\ st.ahead = 0

\* Of the asserts only that of the copy to the front may have failed.
Sound(st) == st.ok \/ st.last_data_feeder_write_ < 0

Good(st) ==
  st \in State /\ AtRest(st) /\ SamplesThere(st) /\ FramesThere(st) /\ UnitsThere(st) /\ Sound(st)

\* A unit that waits for room keeps the demodulator from being resumed, and the
\* data decoder has not come to the end of the buffer.
Held(st) ==
  st.demodulator_data_waiting_ =>
    /\ st.demodulator_write_blocked_
    /\ st.decod_read_pos_ + deqpsk_block_size_ < demod_decod_buffer_size_

\* What a method does to the workers: it may resume some that are at rest.
Resumes(st, then) ==
  \A w \in Workers :
    \/ then.handled[w] = st.handled[w] /\ then.stage[w] = st.stage[w]
    \/ st.handled[w] /\ ~then.handled[w] /\ then.stage[w] = "asked"

\* What a method may leave alone.
SameSamples(st, then) ==
  /\ then.data_stored = st.data_stored
  /\ then.data_write_pos_ = st.data_write_pos_
  /\ then.last_data_feeder_write_ = st.last_data_feeder_write_
  /\ then.sync_read_pos_ = st.sync_read_pos_

SameFrames(st, then) == then.demod_read_pos_queue_ = st.demod_read_pos_queue_

SameUnits(st, then) ==
  /\ then.demod_write_pos_ = st.demod_write_pos_
  /\ then.decod_read_pos_ = st.decod_read_pos_
  /\ then.last_demodulator_write_ = st.last_demodulator_write_
  /\ then.demodulator_data_waiting_ = st.demodulator_data_waiting_
  /\ then.demodulator_write_blocked_ = st.demodulator_write_blocked_
  /\ then.demodulated = st.demodulated
  /\ then.ahead = st.ahead

SameWorkers(st, then) == then.handled = st.handled /\ then.stage = st.stage

-----------------------------------------------------------------------------
(* Sizes *)

LEMMA Sizes ==
  /\ block_size \in Nat /\ block_size > 0
  /\ sync_feeder_buffer_size_ \in Nat
  /\ frame_size \in Nat /\ null_size \in Nat /\ null_size > 0
  /\ 5 * null_size < 4 * frame_size
  /\ sync_read_size_ = 2 * frame_size + 2 * null_size
  /\ sync_pointer_shift_size_ = 2 * frame_size
  /\ DemodulatorReads = 2 * frame_size - 2 * null_size
<1>1. \A n \in {block_size, sync_feeder_buffer_size_, frame_size, null_size} : n \in Nat /\ n > 0
  BY SizeAssumption
<1> QED
  BY <1>1, SizeAssumption DEF sync_read_size_, sync_pointer_shift_size_, DemodulatorReads

LEMMA UnitSizes ==
  /\ deqpsk_unit_size_ \in Nat /\ deqpsk_unit_size_ > 0
  /\ StartGap \in Nat
  /\ deqpsk_block_size_ = StartGap + deqpsk_unit_size_
  /\ demod_decod_buffer_size_ \in Nat
  /\ demod_decod_buffer_size_ >= 3 * deqpsk_block_size_
<1>1. \A n \in {deqpsk_unit_size_, units_for_read, demod_decod_buffer_mul_} : n \in Nat /\ n > 0
  BY SizeAssumption
<1>2. demod_decod_buffer_mul_ >= 3
  BY <1>1, SizeAssumption
<1>3. \A m, n \in Nat : m * n \in Nat
  OBVIOUS
<1>4. \A k, n, m \in Nat : k >= m => k * n >= m * n
  OBVIOUS
<1>5. StartGap \in Nat
  BY <1>1, <1>3 DEF StartGap
<1>6. deqpsk_block_size_ = StartGap + deqpsk_unit_size_
  BY <1>1 DEF StartGap, deqpsk_block_size_
<1>7. demod_decod_buffer_size_ \in Nat
  BY <1>1, <1>3, <1>5, <1>6 DEF demod_decod_buffer_size_
<1>8. demod_decod_buffer_size_ >= 3 * deqpsk_block_size_
  BY <1>1, <1>2, <1>4, <1>5, <1>6 DEF demod_decod_buffer_size_
<1> QED
  BY <1>1, <1>5, <1>6, <1>7, <1>8

LEMMA UnitsAhead ==
  ASSUME NEW n \in Int
  PROVE  /\ n * deqpsk_unit_size_ \in Int
         /\ (n + 1) * deqpsk_unit_size_ = n * deqpsk_unit_size_ + deqpsk_unit_size_
         /\ (n - 1) * deqpsk_unit_size_ = n * deqpsk_unit_size_ - deqpsk_unit_size_
         /\ n >= 0 => n * deqpsk_unit_size_ >= 0
         /\ n <= 0 => n * deqpsk_unit_size_ <= 0
<1>1. \A k, m \in Int : k * m \in Int /\ (k + 1) * m = k * m + m /\ (k - 1) * m = k * m - m
  OBVIOUS
<1>2. \A k, m \in Int : m > 0 /\ k >= 0 => k * m >= 0
  OBVIOUS
<1>3. \A k, m \in Int : m > 0 /\ k <= 0 => k * m <= 0
  OBVIOUS
<1> QED
  BY <1>1, <1>2, <1>3, UnitSizes

-----------------------------------------------------------------------------
(* Resuming a worker *)

LEMMA Resumed ==
  ASSUME NEW st \in State, NEW w \in Workers, AtRest(st), st.handled[w]
  PROVE  LET then == resume_thread([st EXCEPT !.handled[w] = FALSE], w)
         IN /\ then \in State /\ AtRest(then) /\ Resumes(st, then) /\ then.ok = st.ok
            /\ SameSamples(st, then) /\ SameFrames(st, then) /\ SameUnits(st, then)
            /\ then.handled = [st.handled EXCEPT ![w] = FALSE]
<1> DEFINE told == [st EXCEPT !.handled[w] = FALSE]
           then == resume_thread(told, w)
<1>1. "asked" \in Stages /\ st.stage[w] = "idle"
  BY DEF Stages, Busy, AtRest
<1>2. /\ told \in State /\ told.stage = st.stage /\ told.ok = st.ok
      /\ told.handled = [st.handled EXCEPT ![w] = FALSE]
  BY DEF State
<1>3. SameSamples(st, told) /\ SameFrames(st, told) /\ SameUnits(st, told)
  BY DEF State, SameSamples, SameFrames, SameUnits
<1>4. then = [told EXCEPT !.stage = [told.stage EXCEPT ![w] = "asked"]]
  BY <1>1, <1>2 DEF resume_thread
<1> HIDE DEF told
<1>5. [told.stage EXCEPT ![w] = "asked"] \in [Workers -> Stages]
  BY <1>1, <1>2 DEF State
<1> HIDE DEF then
<1>6. /\ then \in State /\ then.handled = told.handled /\ then.ok = told.ok
      /\ then.stage = [told.stage EXCEPT ![w] = "asked"]
  BY <1>2, <1>4, <1>5 DEF State
<1>7. SameSamples(told, then) /\ SameFrames(told, then) /\ SameUnits(told, then)
  BY <1>2, <1>4 DEF State, SameSamples, SameFrames, SameUnits
<1>8. SameSamples(st, then) /\ SameFrames(st, then) /\ SameUnits(st, then)
  BY <1>3, <1>7 DEF SameSamples, SameFrames, SameUnits
<1>9. ~then.handled[w] /\ then.stage[w] = "asked"
  BY <1>2, <1>6 DEF State
<1>10. \A v \in Workers : v # w => then.handled[v] = st.handled[v] /\ then.stage[v] = st.stage[v]
  BY <1>2, <1>6 DEF State
<1>11. AtRest(then) /\ Resumes(st, then)
  BY <1>9, <1>10 DEF AtRest, Resumes
<1> QED
  BY <1>2, <1>6, <1>8, <1>11 DEF then, told

LEMMA Names ==
  /\ {SYNCHRONIZER, DEMODULATOR, DATADECODER} = Workers
  /\ SYNCHRONIZER # DEMODULATOR /\ SYNCHRONIZER # DATADECODER /\ DEMODULATOR # DATADECODER
BY DEF Workers, SYNCHRONIZER, DEMODULATOR, DATADECODER

LEMMA ResumeSynchronizer ==
  ASSUME NEW st, Good(st)
  PROVE  LET then == ResumeSynchronizerIfReady(st)
         IN Good(then) /\ Resumes(st, then) /\ (Held(st) => Held(then))
<1> DEFINE ready == /\ st.last_data_feeder_write_ >= st.sync_read_pos_ + sync_read_size_
                    /\ st.handled[SYNCHRONIZER]
           then == ResumeSynchronizerIfReady(st)
<1>1. CASE ~ready
  BY <1>1 DEF ResumeSynchronizerIfReady, Resumes
<1>2. CASE ready
  <2>1. /\ then \in State /\ AtRest(then) /\ Resumes(st, then) /\ then.ok = st.ok
        /\ SameSamples(st, then) /\ SameFrames(st, then) /\ SameUnits(st, then)
        /\ then.handled = [st.handled EXCEPT ![SYNCHRONIZER] = FALSE]
    BY <1>2, Resumed, Names DEF ResumeSynchronizerIfReady, Good
  <2> HIDE DEF then
  <2>2. /\ ~then.handled[SYNCHRONIZER]
        /\ then.handled[DEMODULATOR] = st.handled[DEMODULATOR]
        /\ then.handled[DATADECODER] = st.handled[DATADECODER]
    BY <2>1, Names DEF Good, State
  <2>3. SamplesThere(then) /\ FramesThere(then) /\ Sound(then)
    BY <1>2, <2>1, <2>2, Sizes DEF SamplesThere, FramesThere, FrameThere, Sound, Good, SameSamples,
       SameFrames, EndOf, State
  <2>4. UnitsThere(then) /\ (Held(st) => Held(then))
    BY <2>1, <2>2 DEF UnitsThere, Held, Good, SameUnits
  <2> QED
    BY <2>1, <2>3, <2>4 DEF Good, then
<1> QED
  BY <1>1, <1>2

LEMMA ResumeDemodulator ==
  ASSUME NEW st, Good(st), Held(st)
  PROVE  LET then == ResumeDemodulatorIfReady(st)
         IN Good(then) /\ Resumes(st, then) /\ Held(then)
<1> DEFINE pos == Head(st.demod_read_pos_queue_)
           ready == /\ st.demod_read_pos_queue_ # << >>
                    /\ st.handled[DEMODULATOR]
                    /\ ~st.demodulator_write_blocked_
                    /\ pos + deqpsk_block_size_ < st.last_data_feeder_write_
           taken == [st EXCEPT !.demod_read_pos_ = pos,
                               !.demod_read_pos_queue_ = Tail(@),
                               !.demod_read_here = pos]
           then == ResumeDemodulatorIfReady(st)
<1>1. CASE ~ready
  BY <1>1 DEF ResumeDemodulatorIfReady, Resumes
<1>2. CASE ready
  <2>1. st \in State /\ ~st.demodulator_data_waiting_
    BY <1>2 DEF Good, Held
  <2>2. pos \in Int /\ Tail(st.demod_read_pos_queue_) \in Seq(Int)
    BY <1>2, <2>1 DEF State
  <2>3. /\ taken \in State /\ taken.demod_read_pos_queue_ = Tail(st.demod_read_pos_queue_)
        /\ SameWorkers(st, taken) /\ taken.ok = st.ok
    BY <2>1, <2>2 DEF State, SameWorkers
  <2>4. SameSamples(st, taken) /\ SameUnits(st, taken)
    BY <2>1 DEF State, SameSamples, SameUnits
  <2>5. then = resume_thread([taken EXCEPT !.handled[DEMODULATOR] = FALSE], DEMODULATOR)
    BY <1>2, <2>1 DEF ResumeDemodulatorIfReady
  <2> HIDE DEF taken
  <2>6. AtRest(taken) /\ taken.handled[DEMODULATOR]
    BY <1>2, <2>3 DEF AtRest, Good, SameWorkers
  <2>7. /\ then \in State /\ AtRest(then) /\ Resumes(taken, then) /\ then.ok = taken.ok
        /\ SameSamples(taken, then) /\ SameFrames(taken, then) /\ SameUnits(taken, then)
        /\ then.handled = [taken.handled EXCEPT ![DEMODULATOR] = FALSE]
    BY <2>3, <2>5, <2>6, Resumed, Names
  <2> HIDE DEF then
  <2>8. SameSamples(st, then) /\ SameUnits(st, then) /\ Resumes(st, then)
    BY <2>3, <2>4, <2>7 DEF SameSamples, SameUnits, SameWorkers, Resumes
  <2>9. /\ ~then.handled[DEMODULATOR]
        /\ then.handled[SYNCHRONIZER] = st.handled[SYNCHRONIZER]
        /\ then.handled[DATADECODER] = st.handled[DATADECODER]
    BY <2>1, <2>3, <2>7, Names DEF State, SameWorkers
  <2>10. SamplesThere(then) /\ Sound(then)
    BY <2>3, <2>7, <2>8, <2>9 DEF SamplesThere, Sound, Good, SameSamples, EndOf
  <2>11. FramesThere(then)
    <3>1. \A i \in DOMAIN Tail(st.demod_read_pos_queue_) :
            /\ i + 1 \in DOMAIN st.demod_read_pos_queue_
            /\ Tail(st.demod_read_pos_queue_)[i] = st.demod_read_pos_queue_[i + 1]
      BY <1>2, <2>1 DEF State
    <3>2. \A i \in DOMAIN then.demod_read_pos_queue_ :
            FrameThere(st, then.demod_read_pos_queue_[i])
      BY <2>3, <2>7, <3>1 DEF FramesThere, Good, SameFrames
    <3> QED
      BY <2>8, <3>2 DEF FramesThere, FrameThere, SameSamples, EndOf
  <2>12. UnitsThere(then) /\ Held(then)
    BY <2>1, <2>8, <2>9 DEF UnitsThere, Held, Good, SameUnits
  <2> QED
    BY <2>7, <2>8, <2>10, <2>11, <2>12 DEF Good, then
<1> QED
  BY <1>1, <1>2

LEMMA ResumeDatadecoder ==
  ASSUME NEW st, Good(st), Held(st)
  PROVE  LET then == ResumeDatadecoderIfReady(st)
         IN Good(then) /\ Resumes(st, then) /\ Held(then)
<1> DEFINE ready == /\ st.decod_read_pos_ + deqpsk_block_size_ <= st.last_demodulator_write_
                    /\ st.handled[DATADECODER]
           fits == st.decod_read_pos_ + deqpsk_block_size_ < demod_decod_buffer_size_
           told == [st EXCEPT !.ok = @ /\ fits]
           then == ResumeDatadecoderIfReady(st)
<1>1. CASE ~ready
  BY <1>1 DEF ResumeDatadecoderIfReady, Resumes
<1>2. CASE ready
  <2>1. st \in State /\ st.demodulated /\ st.ahead > 0 /\ fits
    <3>1. st \in State
      BY DEF Good
    <3>2. st.demodulated
      BY <1>2, <3>1, UnitSizes DEF Good, UnitsThere
    <3> DEFINE read == st.decod_read_pos_
               write == st.demod_write_pos_
               last == st.last_demodulator_write_
               ahead == st.ahead
               waits == st.demodulator_data_waiting_
    <3>3. /\ read \in Int /\ write \in Int /\ last \in Int /\ ahead \in Int
          /\ read + deqpsk_block_size_ <= last
      BY <1>2, <3>1 DEF State
    <3>4. /\ write + deqpsk_unit_size_ <= demod_decod_buffer_size_
          /\ last = read + StartGap + ahead * deqpsk_unit_size_
          /\ waits => read + deqpsk_block_size_ < demod_decod_buffer_size_
          /\ ~waits => last = write + 0
      BY <3>2 DEF Good, UnitsThere, Held
    <3> HIDE DEF read, write, last, ahead, waits
    <3>5. ahead > 0
      BY <3>3, <3>4, UnitSizes, UnitsAhead
    <3>6. read + deqpsk_block_size_ < demod_decod_buffer_size_
      BY <3>3, <3>4, UnitSizes
    <3> QED
      BY <3>1, <3>2, <3>5, <3>6 DEF read, ahead
  <2>2. told = st
    BY <2>1 DEF State
  <2>3. then = resume_thread([told EXCEPT !.handled[DATADECODER] = FALSE], DATADECODER)
    BY <1>2, <2>1 DEF ResumeDatadecoderIfReady, State
  <2> HIDE DEF then, told
  <2>4. then = resume_thread([st EXCEPT !.handled[DATADECODER] = FALSE], DATADECODER)
    BY <2>2, <2>3
  <2>5. /\ then \in State /\ AtRest(then) /\ Resumes(st, then) /\ then.ok = st.ok
        /\ SameSamples(st, then) /\ SameFrames(st, then) /\ SameUnits(st, then)
        /\ then.handled = [st.handled EXCEPT ![DATADECODER] = FALSE]
    BY <1>2, <2>1, <2>4, Resumed, Names DEF Good
  <2>6. /\ ~then.handled[DATADECODER]
        /\ then.handled[SYNCHRONIZER] = st.handled[SYNCHRONIZER]
        /\ then.handled[DEMODULATOR] = st.handled[DEMODULATOR]
    BY <2>1, <2>5, Names DEF State
  <2>7. SamplesThere(then) /\ FramesThere(then) /\ Sound(then)
    BY <2>5, <2>6 DEF SamplesThere, FramesThere, FrameThere, Sound, Good, SameSamples, SameFrames,
       EndOf
  <2>8. UnitsThere(then) /\ Held(then)
    BY <2>1, <2>5, <2>6 DEF UnitsThere, Held, Good, SameUnits
  <2> QED
    BY <2>5, <2>7, <2>8 DEF Good, then
<1> QED
  BY <1>1, <1>2

-----------------------------------------------------------------------------
(* Moving what is needed to the front of a buffer *)

LEMMA FirstNeededIsInt ==
  ASSUME NEW st \in State
  PROVE  FirstNeeded(st) \in Int
<1> DEFINE read == {st.sync_read_pos_, st.demod_read_pos_} \cup
                   {st.demod_read_pos_queue_[i] : i \in DOMAIN st.demod_read_pos_queue_ \cap {1}}
<1>1. /\ st.sync_read_pos_ \in Int /\ st.demod_read_pos_ \in Int
      /\ 1 \in DOMAIN st.demod_read_pos_queue_ => st.demod_read_pos_queue_[1] \in Int
  BY DEF State
<1>2. \E p \in read : \A q \in read : p <= q
  BY <1>1
<1>3. FirstNeeded(st) \in read
  BY <1>2 DEF FirstNeeded
<1> QED
  BY <1>1, <1>3

LEMMA Positions ==
  ASSUME NEW st \in State
  PROVE  /\ EndOf(st) \in Int /\ st.data_write_pos_ \in Int
         /\ st.last_data_feeder_write_ \in Int /\ st.sync_read_pos_ \in Int
         /\ \A i \in DOMAIN st.demod_read_pos_queue_ : st.demod_read_pos_queue_[i] \in Int
<1>1. /\ st.data_write_pos_ \in Int /\ st.last_data_feeder_write_ \in Int
      /\ st.sync_read_pos_ \in Int /\ st.demod_read_pos_queue_ \in Seq(Int)
  BY DEF State
<1> QED
  BY <1>1, Sizes DEF EndOf

LEMMA NearerToTheFront ==
  ASSUME NEW queue \in Seq(Int), NEW n \in Int
  PROVE  [i \in DOMAIN queue |-> queue[i] - n] \in Seq(Int)
<1>1. DOMAIN queue = 1 .. Len(queue) /\ Len(queue) \in Nat
  OBVIOUS
<1>2. \A i \in 1 .. Len(queue) : queue[i] - n \in Int
  OBVIOUS
<1>3. [i \in 1 .. Len(queue) |-> queue[i] - n] \in [1 .. Len(queue) -> Int]
  BY <1>2
<1> QED
  BY <1>1, <1>3

\* The same frames, all of them `needed' nearer to the front.
LEMMA FramesMoved ==
  ASSUME NEW st \in State, NEW then \in State, NEW needed \in Int, FramesThere(st),
         then.demod_read_pos_queue_ =
           [i \in DOMAIN st.demod_read_pos_queue_ |-> st.demod_read_pos_queue_[i] - needed],
         then.last_data_feeder_write_ = st.last_data_feeder_write_ - needed,
         then.sync_read_pos_ = st.sync_read_pos_ - needed,
         EndOf(then) = EndOf(st) - needed
  PROVE  FramesThere(then)
<1> SUFFICES ASSUME NEW i \in DOMAIN then.demod_read_pos_queue_
             PROVE  FrameThere(then, then.demod_read_pos_queue_[i])
  BY DEF FramesThere
<1> DEFINE pos == st.demod_read_pos_queue_[i]
<1>1. FrameThere(st, pos) /\ pos \in Int /\ then.demod_read_pos_queue_[i] = pos - needed
  BY Positions DEF FramesThere
<1>2. /\ EndOf(st) \in Int /\ EndOf(then) = EndOf(st) - needed
      /\ st.last_data_feeder_write_ \in Int
      /\ then.last_data_feeder_write_ = st.last_data_feeder_write_ - needed
      /\ st.sync_read_pos_ \in Int /\ then.sync_read_pos_ = st.sync_read_pos_ - needed
  BY Positions
<1> HIDE DEF pos
<1> QED
  BY <1>1, <1>2, Sizes DEF FrameThere

LEMMA FramesInBounds ==
  ASSUME NEW st \in State, NEW then \in State, FramesThere(then), SameFrames(st, then),
         then.sync_read_pos_ = st.sync_read_pos_,
         then.last_data_feeder_write_ = st.last_data_feeder_write_,
         st.last_data_feeder_write_ <= sync_feeder_buffer_size_
  PROVE  QueueInBounds(st)
<1> SUFFICES ASSUME NEW i \in DOMAIN st.demod_read_pos_queue_
             PROVE  LET pos == st.demod_read_pos_queue_[i]
                    IN /\ pos <= sync_feeder_buffer_size_
                       /\ pos <= st.sync_read_pos_ + sync_read_size_
                       /\ pos <= st.last_data_feeder_write_
  BY DEF QueueInBounds
<1>1. /\ FrameThere(then, st.demod_read_pos_queue_[i]) /\ st.demod_read_pos_queue_[i] \in Int
      /\ st.sync_read_pos_ \in Int /\ st.last_data_feeder_write_ \in Int
  BY Positions DEF FramesThere, SameFrames
<1> QED
  BY <1>1, Sizes DEF FrameThere

LEMMA ShiftSyncFeeder ==
  ASSUME NEW st, Good(st)
  PROVE  LET then == ShiftSyncFeederPointersIfPossible(st)
         IN /\ Good(then) /\ SameWorkers(st, then) /\ SameUnits(st, then)
            /\ then.sync_read_pos_ \in Int
<1> DEFINE new_pos == st.data_write_pos_ + block_size
           missing == new_pos + block_size - sync_feeder_buffer_size_
           needed  == FirstNeeded(st)
           forward == [st EXCEPT !.data_write_pos_ = new_pos]
           moved   == IF missing > 0 THEN MoveToFront(st, needed, new_pos) ELSE forward
           stays   == ~st.data_stored \/ (missing > 0 /\ ~Room(needed, new_pos, missing))
           fits    == /\ moved.data_write_pos_ + block_size <= sync_feeder_buffer_size_
                      /\ QueueInBounds(moved)
           then    == ShiftSyncFeederPointersIfPossible(st)
<1>1. st \in State
  BY DEF Good
<1>2. new_pos \in Int /\ missing \in Int /\ needed \in Int
  BY <1>1, Positions, FirstNeededIsInt, Sizes
<1>3. CASE stays
  <2>1. then = st
    BY <1>3 DEF ShiftSyncFeederPointersIfPossible
  <2> HIDE DEF then
  <2> QED
    BY <1>1, <2>1, Positions DEF SameWorkers, SameUnits, then
<1>4. CASE ~stays
  <2>1. /\ moved \in State
        /\ SameWorkers(st, moved) /\ SameUnits(st, moved)
        /\ moved.data_write_pos_ + block_size <= sync_feeder_buffer_size_
        /\ moved.ok \/ moved.last_data_feeder_write_ < 0
        /\ \E n \in Int :
             /\ moved.data_write_pos_ = new_pos - n
             /\ moved.last_data_feeder_write_ = st.last_data_feeder_write_ - n
             /\ moved.sync_read_pos_ = st.sync_read_pos_ - n
             /\ moved.demod_read_pos_queue_ =
                  [i \in DOMAIN st.demod_read_pos_queue_ |-> st.demod_read_pos_queue_[i] - n]
    <3>1. CASE missing > 0
      <4> DEFINE queue == [i \in DOMAIN st.demod_read_pos_queue_ |->
                             st.demod_read_pos_queue_[i] - needed]
                 enough == st.last_data_feeder_write_ >= needed
      <4>1. moved = [st EXCEPT !.data_write_pos_ = new_pos - needed,
                               !.last_data_feeder_write_ = @ - needed,
                               !.sync_read_pos_ = @ - needed,
                               !.demod_read_pos_ = @ - needed,
                               !.demod_read_pos_queue_ = queue,
                               !.ok = @ /\ enough]
        BY <3>1 DEF MoveToFront
      <4>2. queue \in Seq(Int)
        <5> HIDE DEF needed
        <5>1. st.demod_read_pos_queue_ \in Seq(Int)
          BY <1>1 DEF State
        <5> QED
          BY <1>2, <5>1, NearerToTheFront
      <4>3. needed > missing /\ needed > 0 /\ st.data_stored
        BY <1>4, <1>2, <3>1 DEF Room
      <4> HIDE DEF moved, queue, needed, new_pos, missing, enough
      <4>4. /\ st.data_write_pos_ \in Int /\ st.last_data_feeder_write_ \in Int
             /\ st.sync_read_pos_ \in Int /\ st.demod_read_pos_ \in Int /\ st.ok \in BOOLEAN
        BY <1>1 DEF State
      <4>5. /\ new_pos - needed \in Int /\ st.last_data_feeder_write_ - needed \in Int
             /\ st.sync_read_pos_ - needed \in Int /\ st.demod_read_pos_ - needed \in Int
             /\ (st.ok /\ enough) \in BOOLEAN
        BY <1>2, <4>4
      <4>6. moved \in State
        BY <1>1, <4>1, <4>2, <4>5 DEF State
      <4>7. /\ SameWorkers(st, moved) /\ SameUnits(st, moved)
            /\ moved.data_stored = st.data_stored
            /\ moved.data_write_pos_ = new_pos - needed
            /\ moved.last_data_feeder_write_ = st.last_data_feeder_write_ - needed
            /\ moved.sync_read_pos_ = st.sync_read_pos_ - needed
            /\ moved.demod_read_pos_queue_ = queue
            /\ moved.ok = (st.ok /\ enough)
        BY <1>1, <4>1 DEF State, SameWorkers, SameUnits
      <4>8. moved.data_write_pos_ + block_size <= sync_feeder_buffer_size_
        BY <1>2, <4>3, <4>7, Sizes DEF missing
      <4>9. moved.ok \/ moved.last_data_feeder_write_ < 0
        BY <4>3, <4>4, <4>7, <1>2 DEF Good, Sound, enough
      <4> QED
        BY <1>2, <4>6, <4>7, <4>8, <4>9 DEF queue
    <3>2. CASE ~(missing > 0)
      <4>1. moved = [st EXCEPT !.data_write_pos_ = new_pos]
        BY <3>2
      <4>2. new_pos + block_size <= sync_feeder_buffer_size_
        BY <1>2, <3>2, Sizes
      <4> HIDE DEF moved, new_pos
      <4>3. /\ moved \in State
            /\ SameWorkers(st, moved) /\ SameUnits(st, moved) /\ SameFrames(st, moved)
            /\ moved.data_write_pos_ = new_pos
            /\ moved.last_data_feeder_write_ = st.last_data_feeder_write_
            /\ moved.sync_read_pos_ = st.sync_read_pos_
            /\ moved.ok = st.ok
        BY <1>1, <1>2, <4>1 DEF State, SameWorkers, SameUnits, SameFrames
      <4>4. st.demod_read_pos_queue_ =
              [i \in DOMAIN st.demod_read_pos_queue_ |-> st.demod_read_pos_queue_[i] - 0]
        BY <1>1 DEF State
      <4>5. /\ new_pos = new_pos - 0
            /\ st.last_data_feeder_write_ = st.last_data_feeder_write_ - 0
            /\ st.sync_read_pos_ = st.sync_read_pos_ - 0
        BY <1>1, <1>2, Positions
      <4>6. \E n \in Int :
             /\ moved.data_write_pos_ = new_pos - n
             /\ moved.last_data_feeder_write_ = st.last_data_feeder_write_ - n
             /\ moved.sync_read_pos_ = st.sync_read_pos_ - n
             /\ moved.demod_read_pos_queue_ =
                  [i \in DOMAIN st.demod_read_pos_queue_ |-> st.demod_read_pos_queue_[i] - n]
        <5> WITNESS 0 \in Int
        <5> QED
          BY <4>3, <4>4, <4>5 DEF SameFrames
      <4>7. moved.ok \/ moved.last_data_feeder_write_ < 0
        BY <4>3 DEF Good, Sound
      <4> QED
        BY <4>2, <4>3, <4>6, <4>7
    <3> QED
      BY <3>1, <3>2
  <2>2. then = [moved EXCEPT !.ok = @ /\ fits, !.data_stored = FALSE, !.write_ready = TRUE]
    BY <1>4 DEF ShiftSyncFeederPointersIfPossible
  <2>3. fits \in BOOLEAN /\ st.data_stored
    BY <1>4
  <2> HIDE DEF moved, fits, new_pos, then
  <2>4. /\ then \in State /\ ~then.data_stored
        /\ SameWorkers(moved, then) /\ SameUnits(moved, then) /\ SameFrames(moved, then)
        /\ then.data_write_pos_ = moved.data_write_pos_
        /\ then.last_data_feeder_write_ = moved.last_data_feeder_write_
        /\ then.sync_read_pos_ = moved.sync_read_pos_
        /\ then.ok = (moved.ok /\ fits)
    <3>1. then.ok = (moved.ok /\ fits) /\ ~then.data_stored /\ then \in State
      BY <2>1, <2>2, <2>3 DEF State
    <3>2. SameWorkers(moved, then) /\ SameUnits(moved, then) /\ SameFrames(moved, then)
      BY <2>1, <2>2 DEF State, SameWorkers, SameUnits, SameFrames
    <3>3. /\ then.data_write_pos_ = moved.data_write_pos_
          /\ then.last_data_feeder_write_ = moved.last_data_feeder_write_
          /\ then.sync_read_pos_ = moved.sync_read_pos_
      BY <2>1, <2>2 DEF State
    <3> QED
      BY <3>1, <3>2, <3>3
  <2>5. SameWorkers(st, then) /\ SameUnits(st, then)
    BY <2>1, <2>4 DEF SameWorkers, SameUnits
  <2>6. PICK n \in Int :
          /\ then.data_write_pos_ = new_pos - n
          /\ then.last_data_feeder_write_ = st.last_data_feeder_write_ - n
          /\ then.sync_read_pos_ = st.sync_read_pos_ - n
          /\ then.demod_read_pos_queue_ =
               [i \in DOMAIN st.demod_read_pos_queue_ |-> st.demod_read_pos_queue_[i] - n]
    BY <2>1, <2>4 DEF SameFrames
  <2>7. EndOf(st) = new_pos /\ EndOf(then) = then.data_write_pos_
        /\ EndOf(then) = EndOf(st) - n
    BY <1>1, <1>2, <2>3, <2>4, <2>6, Positions, Sizes DEF EndOf, new_pos
  <2>8. FramesThere(then)
    BY <1>1, <2>4, <2>6, <2>7, FramesMoved DEF Good
  <2>9. then.last_data_feeder_write_ <= EndOf(then)
    BY <1>1, <2>6, <2>7, Positions DEF Good, SamplesThere
  <2>10. SamplesThere(then)
    <3>1. then.data_write_pos_ + block_size <= sync_feeder_buffer_size_
      BY <2>1, <2>4
    <3>2. ~then.handled[SYNCHRONIZER] =>
            then.sync_read_pos_ + sync_read_size_ <= then.last_data_feeder_write_
      BY <1>1, <2>5, <2>6, Positions, Sizes DEF Good, SamplesThere, SameWorkers
    <3> QED
      BY <2>9, <3>1, <3>2 DEF SamplesThere
  <2>11. Sound(then)
    <3>1. moved.last_data_feeder_write_ <= sync_feeder_buffer_size_
      BY <2>1, <2>4, <2>7, <2>9, Positions, Sizes
    <3>2. fits
      BY <2>1, <2>4, <2>8, <3>1, FramesInBounds DEF fits, SameFrames
    <3> QED
      BY <2>1, <2>4, <3>2 DEF Sound
  <2>12. AtRest(then) /\ UnitsThere(then)
    BY <2>5 DEF Good, AtRest, UnitsThere, SameWorkers, SameUnits
  <2> QED
    BY <2>4, <2>5, <2>8, <2>10, <2>11, <2>12, Positions DEF Good, then
<1> QED
  BY <1>3, <1>4

LEMMA Units ==
  ASSUME NEW st \in State
  PROVE  /\ st.demod_write_pos_ \in Int /\ st.decod_read_pos_ \in Int
         /\ st.last_demodulator_write_ \in Int /\ st.ahead \in Int
         /\ st.ahead * deqpsk_unit_size_ \in Int
         /\ st.ahead >= 0 => st.ahead * deqpsk_unit_size_ >= 0
         /\ st.demodulator_data_waiting_ \in BOOLEAN /\ st.demodulated \in BOOLEAN
         /\ st.ok \in BOOLEAN
<1>1. /\ st.demod_write_pos_ \in Int /\ st.decod_read_pos_ \in Int
      /\ st.last_demodulator_write_ \in Int /\ st.ahead \in Int
      /\ st.demodulator_data_waiting_ \in BOOLEAN /\ st.demodulated \in BOOLEAN
      /\ st.ok \in BOOLEAN
  BY DEF State
<1> QED
  BY <1>1, UnitsAhead

LEMMA ShiftDemodDecod ==
  ASSUME NEW st, Good(st)
  PROVE  LET then == ShiftDemodDecodPointersIfPossible(st)
         IN /\ Good(then) /\ Held(then) /\ SameWorkers(st, then)
            /\ SameSamples(st, then) /\ SameFrames(st, then)
<1> DEFINE new_pos == st.demod_write_pos_ + deqpsk_unit_size_
           missing == new_pos + deqpsk_unit_size_ - demod_decod_buffer_size_
           needed  == st.decod_read_pos_
           enough  == st.last_demodulator_write_ >= needed
           moved   == IF missing > 0
                      THEN [st EXCEPT !.demod_write_pos_ = new_pos - needed,
                                      !.decod_read_pos_ = 0,
                                      !.last_demodulator_write_ = @ - needed,
                                      !.ok = @ /\ enough]
                      ELSE [st EXCEPT !.demod_write_pos_ = new_pos]
           fits    == /\ moved.decod_read_pos_ + deqpsk_block_size_ <= demod_decod_buffer_size_
                      /\ moved.demod_write_pos_ + deqpsk_unit_size_ <= demod_decod_buffer_size_
           blocks  == missing > 0 /\ ~Room(needed, new_pos, missing)
           then    == ShiftDemodDecodPointersIfPossible(st)
<1>1. /\ st \in State /\ new_pos \in Int /\ missing \in Int /\ needed \in Int
      /\ st.last_demodulator_write_ - needed \in Int
  <2>1. st \in State
    BY DEF Good
  <2> QED
    BY <2>1, Units, UnitSizes
<1>2. CASE ~st.demodulator_data_waiting_
  <2>1. then = st
    BY <1>2 DEF ShiftDemodDecodPointersIfPossible
  <2> HIDE DEF then
  <2> QED
    BY <1>2, <2>1 DEF SameWorkers, SameSamples, SameFrames, Held, then
<1>3. ASSUME st.demodulator_data_waiting_
      PROVE  /\ st.handled[DEMODULATOR] /\ st.demodulated /\ st.ahead >= 0
             /\ new_pos <= demod_decod_buffer_size_
             /\ st.last_demodulator_write_ = new_pos
             /\ new_pos = needed + StartGap + st.ahead * deqpsk_unit_size_
             /\ ~st.handled[DATADECODER] => st.ahead > 0
  BY <1>3 DEF Good, UnitsThere
<1>4. CASE st.demodulator_data_waiting_ /\ blocks
  <2>1. then = [st EXCEPT !.demodulator_write_blocked_ = TRUE]
    BY <1>4 DEF ShiftDemodDecodPointersIfPossible
  <2>2. needed + deqpsk_block_size_ < demod_decod_buffer_size_
    <3>1. CASE needed <= missing
      BY <1>1, <1>3, <1>4, <3>1, UnitSizes
    <3>2. CASE needed > missing
      <4>1. new_pos >= needed
        BY <1>1, <1>3, <1>4, Units, UnitSizes
      <4>2. new_pos - needed > needed
        BY <1>1, <1>4, <3>2, <4>1 DEF Room
      <4> QED
        BY <1>1, <1>3, <1>4, <4>2, UnitSizes
    <3> QED
      BY <1>1, <3>1, <3>2
  <2> HIDE DEF then
  <2>3. then \in State /\ then.ok = st.ok /\ then.demodulator_write_blocked_
    BY <1>1, <2>1 DEF State
  <2>4. SameWorkers(st, then) /\ SameSamples(st, then) /\ SameFrames(st, then)
    BY <1>1, <2>1 DEF State, SameWorkers, SameSamples, SameFrames
  <2>5. /\ then.demod_write_pos_ = st.demod_write_pos_
        /\ then.decod_read_pos_ = st.decod_read_pos_
        /\ then.last_demodulator_write_ = st.last_demodulator_write_
        /\ then.demodulator_data_waiting_ = st.demodulator_data_waiting_
        /\ then.demodulated = st.demodulated
        /\ then.ahead = st.ahead
    BY <1>1, <2>1 DEF State
  <2>6. UnitsThere(then) /\ Held(then)
    BY <2>2, <2>3, <2>4, <2>5 DEF Good, UnitsThere, Held, SameWorkers
  <2>7. AtRest(then) /\ SamplesThere(then) /\ FramesThere(then) /\ Sound(then)
    BY <2>3, <2>4 DEF Good, AtRest, SamplesThere, FramesThere, FrameThere, Sound, EndOf, SameWorkers,
       SameSamples, SameFrames
  <2> QED
    BY <2>3, <2>4, <2>6, <2>7 DEF Good, then
<1>5. CASE st.demodulator_data_waiting_ /\ ~blocks
  <2>1. /\ moved \in State
        /\ SameWorkers(st, moved) /\ SameSamples(st, moved) /\ SameFrames(st, moved)
        /\ moved.demodulated = st.demodulated /\ moved.ahead = st.ahead /\ moved.ok = st.ok
        /\ moved.last_demodulator_write_ = moved.demod_write_pos_
        /\ moved.last_demodulator_write_ =
             moved.decod_read_pos_ + StartGap + st.ahead * deqpsk_unit_size_
        /\ fits
    <3>1. CASE missing > 0
      <4>1. moved = [st EXCEPT !.demod_write_pos_ = new_pos - needed,
                               !.decod_read_pos_ = 0,
                               !.last_demodulator_write_ = @ - needed,
                               !.ok = @ /\ enough]
        BY <3>1
      <4>2. needed > missing /\ enough
        BY <1>1, <1>3, <1>5, <3>1, Units, UnitSizes DEF Room
      <4>3. new_pos - needed \in Int /\ (st.ok /\ enough) = st.ok /\ st.ok \in BOOLEAN
        BY <1>1, <4>2, Units
      <4> HIDE DEF moved, new_pos, needed, missing, enough
      <4> DEFINE still == st.ok /\ enough
                 place == new_pos - needed
                 last  == st.last_demodulator_write_ - needed
      <4>4. /\ moved = [st EXCEPT !.demod_write_pos_ = place,
                                   !.decod_read_pos_ = 0,
                                   !.last_demodulator_write_ = last,
                                   !.ok = still]
             /\ still \in BOOLEAN /\ place \in Int /\ last \in Int /\ 0 \in Int
        BY <1>1, <4>1, <4>3
      <4>5. st \in State
        BY <1>1
      <4> HIDE DEF still, place, last
      <4>6. moved \in State
        BY <4>4, <4>5 DEF State
      <4>7. moved.ok = st.ok
        <5>1. moved.ok = still
          BY <4>4, <4>5 DEF State
        <5> QED
          BY <4>3, <5>1 DEF still
      <4>8. /\ moved \in State /\ moved.ok = st.ok
            /\ moved.demod_write_pos_ = new_pos - needed /\ moved.decod_read_pos_ = 0
            /\ moved.last_demodulator_write_ = st.last_demodulator_write_ - needed
            /\ moved.demodulated = st.demodulated /\ moved.ahead = st.ahead
        BY <4>4, <4>5, <4>6, <4>7 DEF State, place, last
      <4>9. SameWorkers(st, moved) /\ SameSamples(st, moved) /\ SameFrames(st, moved)
        BY <1>1, <4>1 DEF State, SameWorkers, SameSamples, SameFrames
      <4>10. moved.demod_write_pos_ + deqpsk_unit_size_ <= demod_decod_buffer_size_
        BY <1>1, <4>2, <4>8, UnitSizes DEF missing
      <4>11. moved.decod_read_pos_ + deqpsk_block_size_ <= demod_decod_buffer_size_
        BY <4>8, UnitSizes
      <4>12. st.ahead * deqpsk_unit_size_ \in Int
        BY <1>1, Units
      <4>13. /\ st.last_demodulator_write_ = new_pos
            /\ new_pos = needed + StartGap + st.ahead * deqpsk_unit_size_
        BY <1>3, <1>5
      <4>14. new_pos - needed = 0 + StartGap + st.ahead * deqpsk_unit_size_
        BY <1>1, <4>12, <4>13, UnitSizes
      <4> QED
        BY <4>8, <4>9, <4>10, <4>11, <4>13, <4>14
    <3>2. CASE ~(missing > 0)
      <4>1. moved = [st EXCEPT !.demod_write_pos_ = new_pos]
        BY <3>2
      <4>2. new_pos + deqpsk_unit_size_ <= demod_decod_buffer_size_
        BY <1>1, <3>2, UnitSizes
      <4>3. st.ahead * deqpsk_unit_size_ >= 0 /\ st.ahead * deqpsk_unit_size_ \in Int
        BY <1>1, <1>3, <1>5, Units
      <4>4. needed + deqpsk_block_size_ <= demod_decod_buffer_size_
        BY <1>1, <1>3, <1>5, <4>2, <4>3, UnitSizes
      <4> HIDE DEF moved, new_pos
      <4>5. /\ moved \in State /\ moved.ok = st.ok
            /\ moved.demod_write_pos_ = new_pos /\ moved.decod_read_pos_ = st.decod_read_pos_
            /\ moved.last_demodulator_write_ = st.last_demodulator_write_
            /\ moved.demodulated = st.demodulated /\ moved.ahead = st.ahead
        BY <1>1, <4>1 DEF State
      <4>6. SameWorkers(st, moved) /\ SameSamples(st, moved) /\ SameFrames(st, moved)
        BY <1>1, <4>1 DEF State, SameWorkers, SameSamples, SameFrames
      <4> QED
        BY <1>3, <1>5, <4>2, <4>4, <4>5, <4>6
    <3> QED
      BY <3>1, <3>2
  <2>2. then = [moved EXCEPT !.demodulator_write_blocked_ = FALSE,
                             !.demodulator_data_waiting_ = FALSE,
                             !.ok = @ /\ fits]
    BY <1>5 DEF ShiftDemodDecodPointersIfPossible
  <2>3. moved.ok = (moved.ok /\ fits)
    BY <2>1, Units
  <2> HIDE DEF moved, fits, then, new_pos, missing
  <2>4. /\ then \in State /\ then.ok = moved.ok /\ ~then.demodulator_data_waiting_
        /\ then.demod_write_pos_ = moved.demod_write_pos_
        /\ then.decod_read_pos_ = moved.decod_read_pos_
        /\ then.last_demodulator_write_ = moved.last_demodulator_write_
        /\ then.demodulated = moved.demodulated /\ then.ahead = moved.ahead
    BY <2>1, <2>2, <2>3 DEF State
  <2>5. SameWorkers(moved, then) /\ SameSamples(moved, then) /\ SameFrames(moved, then)
    BY <2>1, <2>2 DEF State, SameWorkers, SameSamples, SameFrames
  <2>6. SameWorkers(st, then) /\ SameSamples(st, then) /\ SameFrames(st, then)
    BY <2>1, <2>5 DEF SameWorkers, SameSamples, SameFrames
  <2>7. UnitsThere(then) /\ Held(then)
    <3>1. then.demod_write_pos_ \in Int
      BY <2>4, Units
    <3>2. then.demodulated /\ then.ahead >= 0 /\ (~then.handled[DATADECODER] => then.ahead > 0)
      BY <1>3, <1>5, <2>1, <2>4, <2>6 DEF SameWorkers
    <3>3. then.demod_write_pos_ =
            then.demod_write_pos_ + (IF then.demodulator_data_waiting_ THEN deqpsk_unit_size_ ELSE 0)
      BY <2>4, <3>1
    <3>4. /\ then.demod_write_pos_ + deqpsk_unit_size_ <= demod_decod_buffer_size_
          /\ then.last_demodulator_write_ = then.demod_write_pos_
          /\ then.last_demodulator_write_ =
               then.decod_read_pos_ + StartGap + then.ahead * deqpsk_unit_size_
      BY <2>1, <2>4 DEF fits
    <3> QED
      BY <2>4, <3>2, <3>3, <3>4 DEF UnitsThere, Held
  <2>8. AtRest(then) /\ SamplesThere(then) /\ FramesThere(then) /\ Sound(then)
    BY <2>1, <2>4, <2>6 DEF Good, AtRest, SamplesThere, FramesThere, FrameThere, Sound, EndOf,
       SameWorkers, SameSamples, SameFrames
  <2> QED
    BY <2>4, <2>6, <2>7, <2>8 DEF Good, then
<1> QED
  BY <1>2, <1>4, <1>5

-----------------------------------------------------------------------------
(* What Play does with an event *)

LEMMA StoringTheEnd ==
  ASSUME NEW st, Good(st), st.ok
  PROVE  LET then == StoreFeederEnd(st)
         IN Good(then) /\ SameWorkers(st, then) /\ SameUnits(st, then)
<1> DEFINE then == StoreFeederEnd(st)
<1>1. st \in State
  BY DEF Good
<1>2. CASE ~st.data_stored
  BY <1>2 DEF StoreFeederEnd, SameWorkers, SameUnits
<1>3. CASE st.data_stored
  <2> DEFINE end == st.data_write_pos_ + block_size
  <2>1. then = [st EXCEPT !.last_data_feeder_write_ = end]
    BY <1>3 DEF StoreFeederEnd
  <2>2. end \in Int /\ EndOf(st) = end
    BY <1>1, <1>3, Positions, Sizes DEF EndOf
  <2> HIDE DEF then, end
  <2>3. /\ then \in State /\ then.last_data_feeder_write_ = end /\ then.ok = st.ok
        /\ then.data_stored = st.data_stored /\ then.data_write_pos_ = st.data_write_pos_
        /\ then.sync_read_pos_ = st.sync_read_pos_ /\ SameFrames(st, then)
    BY <1>1, <2>1, <2>2 DEF State, SameFrames
  <2>4. SameWorkers(st, then) /\ SameUnits(st, then)
    BY <1>1, <2>1 DEF State, SameWorkers, SameUnits
  <2>5. st.last_data_feeder_write_ <= end /\ EndOf(then) = end
    BY <1>1, <1>3, <2>2, <2>3 DEF Good, SamplesThere, EndOf
  <2>6. SamplesThere(then)
    BY <1>1, <2>2, <2>3, <2>4, <2>5, Positions, Sizes DEF Good, SamplesThere, SameWorkers
  <2>7. FramesThere(then)
    BY <1>1, <2>2, <2>3, <2>5, Positions DEF Good, FramesThere, FrameThere, SameFrames
  <2>8. AtRest(then) /\ UnitsThere(then) /\ Sound(then)
    BY <2>3, <2>4 DEF Good, AtRest, UnitsThere, Sound, SameWorkers, SameUnits
  <2> QED
    BY <2>3, <2>4, <2>6, <2>7, <2>8 DEF Good, then
<1> QED
  BY <1>2, <1>3

\* The synchronizer found the null symbol near where it was expected, or says
\* that it did not. In mode I its search allows 50 samples and the impulse
\* response some 200 more, of the 664 that a quarter of null_size has; the
\* impulse response may move the position of a null symbol that was not found
\* below 0.
Tolerable(feedback) ==
  /\ feedback.null_position \in Int
  /\ feedback.null_quality # "SHIFT" => 4 * feedback.null_position <= 3 * null_size
  /\ feedback.null_quality = "OK" => feedback.null_position >= 0
  /\ 2 * feedback.null_position + null_size >= 0

LEMMA OffsetBounds ==
  ASSUME NEW feedback, Tolerable(feedback)
  PROVE  /\ Offset(feedback) \in Int
         /\ Offset(feedback) = 2 * feedback.null_position - null_size
         /\ Offset(feedback) + 2 * null_size >= 0
BY Sizes DEF Offset, Tolerable

LEMMA FollowingFeedback ==
  ASSUME NEW st, Good(st), NEW feedback, Tolerable(feedback), st.handled[SYNCHRONIZER],
         st.sync_read_pos_ + sync_read_size_ <= st.last_data_feeder_write_
  PROVE  LET then == FollowFeedback(st, feedback)
         IN Good(then) /\ SameWorkers(st, then) /\ SameUnits(st, then)
<1> DEFINE then == FollowFeedback(st, feedback)
           found == feedback.null_position
<1>1. /\ st \in State /\ found \in Int
      /\ st.sync_read_pos_ \in Int /\ st.last_data_feeder_write_ \in Int /\ EndOf(st) \in Int
      /\ st.last_data_feeder_write_ <= EndOf(st)
  BY Positions DEF Good, Tolerable, SamplesThere
<1>2. CASE feedback.null_quality = "SHIFT"
  <2> DEFINE place == st.sync_read_pos_ + Offset(feedback) + sync_pointer_shift_size_
  <2>1. then = [st EXCEPT !.sync_read_pos_ = place]
    BY <1>2 DEF FollowFeedback
  <2>2. place \in Int /\ place >= st.sync_read_pos_
    BY <1>1, OffsetBounds, Sizes
  <2> HIDE DEF then, place
  <2>3. /\ then \in State /\ then.sync_read_pos_ = place /\ then.ok = st.ok
        /\ then.data_stored = st.data_stored /\ then.data_write_pos_ = st.data_write_pos_
        /\ then.last_data_feeder_write_ = st.last_data_feeder_write_ /\ SameFrames(st, then)
    BY <1>1, <2>1, <2>2 DEF State, SameFrames
  <2>4. SameWorkers(st, then) /\ SameUnits(st, then)
    BY <1>1, <2>1 DEF State, SameWorkers, SameUnits
  <2>5. SamplesThere(then) /\ EndOf(then) = EndOf(st)
    BY <2>3, <2>4 DEF Good, SamplesThere, EndOf, SameWorkers
  <2>6. FramesThere(then)
    BY <1>1, <2>2, <2>3, <2>5, Positions, Sizes DEF Good, FramesThere, FrameThere, SameFrames
  <2>7. AtRest(then) /\ UnitsThere(then) /\ Sound(then)
    BY <2>3, <2>4 DEF Good, AtRest, UnitsThere, Sound, SameWorkers, SameUnits
  <2> QED
    BY <2>3, <2>4, <2>5, <2>6, <2>7 DEF Good, then
<1>3. CASE feedback.null_quality # "SHIFT"
  <2> DEFINE sync == CorrectPosition(st, feedback)
             at == sync.sync_read_pos_
             synced_pos == at + 2 * found + 2 * null_size
             queue == st.demod_read_pos_queue_
             sound == /\ queue = << >> \/ synced_pos > Last(queue)
                      /\ synced_pos <= st.last_data_feeder_write_
  <2>1. /\ sync = [st EXCEPT !.sync_read_pos_ = at] /\ at \in Int
        /\ \/ at = st.sync_read_pos_
           \/ at = st.sync_read_pos_ + Offset(feedback) /\ feedback.null_quality = "OK"
    <3> DEFINE corrects == feedback.null_quality = "OK" /\ st.sync_read_pos_ + Offset(feedback) > 0
               corrected == st.sync_read_pos_ + Offset(feedback)
    <3>1. corrected \in Int
      BY <1>1, OffsetBounds
    <3>2. CASE corrects
      <4>1. sync = [st EXCEPT !.sync_read_pos_ = corrected]
        BY <3>2 DEF CorrectPosition
      <4> HIDE DEF sync, corrected
      <4>2. sync.sync_read_pos_ = corrected
        BY <1>1, <4>1 DEF State
      <4> QED
        BY <3>1, <3>2, <4>1, <4>2 DEF corrected
    <3>3. CASE ~corrects
      <4>1. sync = st /\ st = [st EXCEPT !.sync_read_pos_ = st.sync_read_pos_]
        BY <1>1, <3>3 DEF CorrectPosition, State
      <4> QED
        BY <1>1, <4>1
    <3> QED
      BY <3>2, <3>3
  <2> HIDE DEF sync, at
  <2>2. /\ at \in Int
         /\ \/ at = st.sync_read_pos_
            \/ at = st.sync_read_pos_ + Offset(feedback) /\ feedback.null_quality = "OK"
    BY <2>1
  <2>3. /\ synced_pos \in Int /\ at + sync_pointer_shift_size_ \in Int
        /\ at + sync_pointer_shift_size_ >= st.sync_read_pos_
        /\ synced_pos >= st.sync_read_pos_ + null_size
        /\ synced_pos < at + sync_pointer_shift_size_ + null_size
        /\ synced_pos + DemodulatorReads <= st.last_data_feeder_write_
        /\ synced_pos <= st.last_data_feeder_write_
    <3>1. /\ 4 * found <= 3 * null_size /\ 2 * found + null_size >= 0
          /\ feedback.null_quality = "OK" => found >= 0
      BY <1>3 DEF Tolerable
    <3>2. Offset(feedback) = 2 * found - null_size /\ at \in Int
      BY <2>2, OffsetBounds
    <3> DEFINE read == st.sync_read_pos_
               last == st.last_data_feeder_write_
    <3>3. /\ read \in Int /\ last \in Int /\ at \in Int /\ found \in Int
          /\ read + sync_read_size_ <= last /\ 4 * found <= 3 * null_size
          /\ 2 * found + null_size >= 0
      BY <1>1, <3>1, <3>2
    <3>4. at = read \/ (at = read + (2 * found - null_size) /\ found >= 0)
      BY <2>2, <3>1, <3>2
    <3> HIDE DEF found, read, last
    <3>5. /\ synced_pos \in Int /\ at + sync_pointer_shift_size_ \in Int
          /\ at + sync_pointer_shift_size_ >= read
          /\ synced_pos >= read + null_size
          /\ synced_pos < at + sync_pointer_shift_size_ + null_size
          /\ synced_pos + DemodulatorReads <= last
          /\ synced_pos <= last
      BY <3>3, <3>4, Sizes
    <3> QED
      BY <3>5 DEF read, last
  <2>4. sync.demod_read_pos_queue_ = queue /\ sync.ok = st.ok
        /\ sync.last_data_feeder_write_ = st.last_data_feeder_write_
    BY <1>1, <2>1 DEF State
  <2> DEFINE still == st.ok /\ sound
             next == at + sync_pointer_shift_size_
             longer == Append(queue, synced_pos)
  <2>5. then = [st EXCEPT !.demod_read_pos_queue_ = longer,
                          !.sync_read_pos_ = next,
                          !.ok = still]
    <3>1. then = [sync EXCEPT !.demod_read_pos_queue_ = Append(@, synced_pos),
                              !.sync_read_pos_ = @ + sync_pointer_shift_size_,
                              !.ok = /\ @
                                     /\ (sync.demod_read_pos_queue_ = << >>
                                         \/ synced_pos > Last(sync.demod_read_pos_queue_))
                                     /\ synced_pos <= sync.last_data_feeder_write_]
      BY <1>3 DEF FollowFeedback, QueueFrame, at, sync
    <3>2. sync.sync_read_pos_ = at
      BY DEF at
    <3> HIDE DEF then
    <3>3. then = [sync EXCEPT !.demod_read_pos_queue_ = longer,
                              !.sync_read_pos_ = next,
                              !.ok = still]
      BY <2>4, <3>1, <3>2
    <3> HIDE DEF longer, next, still
    <3> QED
      BY <1>1, <2>1, <3>3 DEF State
  <2>6. /\ longer \in Seq(Int) /\ next \in Int /\ still \in BOOLEAN
        /\ \A i \in DOMAIN longer : \/ i \in DOMAIN queue /\ longer[i] = queue[i]
                                   \/ longer[i] = synced_pos
    <3>1. queue \in Seq(Int)
      BY <1>1 DEF State
    <3> HIDE DEF queue
    <3> QED
      BY <2>3, <3>1
  <2>7. \A i \in DOMAIN queue : queue[i] \in Int /\ FrameThere(st, queue[i])
    BY <1>1, Positions DEF Good, FramesThere
  <2>8. sound
    <3>1. queue \in Seq(Int)
      BY <1>1 DEF State
    <3>2. queue # << >> => Len(queue) \in DOMAIN queue /\ Last(queue) = queue[Len(queue)]
      BY <3>1 DEF Last
    <3>3. queue # << >> => synced_pos > Last(queue)
      <4>1. CASE queue # << >>
        <5>1. /\ Last(queue) \in Int /\ st.sync_read_pos_ \in Int
              /\ Last(queue) < st.sync_read_pos_ + null_size
          BY <1>1, <2>7, <3>2, <4>1, Positions DEF FrameThere
        <5>2. synced_pos \in Int /\ synced_pos >= st.sync_read_pos_ + null_size
          BY <2>3
        <5> QED
          BY <5>1, <5>2, Sizes
      <4> QED
        BY <4>1
    <3> QED
      BY <2>3, <3>3
  <2> HIDE DEF then, longer, next, still
  <2>9. /\ then \in State /\ then.sync_read_pos_ = next /\ then.ok = still
        /\ then.data_stored = st.data_stored /\ then.data_write_pos_ = st.data_write_pos_
        /\ then.last_data_feeder_write_ = st.last_data_feeder_write_
        /\ then.demod_read_pos_queue_ = longer
    BY <1>1, <2>5, <2>6 DEF State
  <2>10. SameWorkers(st, then) /\ SameUnits(st, then)
    BY <1>1, <2>5 DEF State, SameWorkers, SameUnits
  <2>11. SamplesThere(then) /\ EndOf(then) = EndOf(st)
    BY <2>9, <2>10 DEF Good, SamplesThere, EndOf, SameWorkers
  <2>12. \A pos \in Int : FrameThere(st, pos) => FrameThere(then, pos)
    BY <1>1, <2>3, <2>9, <2>11, Sizes DEF FrameThere, next
  <2>13. FrameThere(then, synced_pos)
    BY <1>1, <2>3, <2>9, <2>11, Sizes DEF FrameThere, next
  <2>14. FramesThere(then)
    BY <2>6, <2>7, <2>9, <2>12, <2>13 DEF FramesThere
  <2>15. Sound(then)
    BY <2>8, <2>9 DEF Good, Sound, still
  <2>16. AtRest(then) /\ UnitsThere(then)
    BY <2>10 DEF Good, AtRest, UnitsThere, SameWorkers, SameUnits
  <2> QED
    BY <2>9, <2>10, <2>11, <2>14, <2>15, <2>16 DEF Good, then
<1> QED
  BY <1>2, <1>3

\* A report of w is handled: w may be resumed at once, and others with it.
Handles(st, then, w) ==
  /\ \/ then.handled[w] /\ then.stage[w] = st.stage[w]
     \/ ~then.handled[w] /\ then.stage[w] = "asked"
  /\ \A v \in Workers \ {w} :
       \/ then.handled[v] = st.handled[v] /\ then.stage[v] = st.stage[v]
       \/ st.handled[v] /\ ~then.handled[v] /\ then.stage[v] = "asked"

LEMMA SameWorkersResumes ==
  ASSUME NEW st, NEW then, SameWorkers(st, then)
  PROVE  Resumes(st, then)
BY DEF SameWorkers, Resumes

LEMMA ResumesTwice ==
  ASSUME NEW st, NEW mid, NEW then, Resumes(st, mid), Resumes(mid, then)
  PROVE  Resumes(st, then)
BY DEF Resumes

LEMMA Handling ==
  ASSUME NEW st \in State, NEW w \in Workers, NEW told \in State, NEW then,
         told.handled = [st.handled EXCEPT ![w] = TRUE], told.stage = st.stage,
         Resumes(told, then)
  PROVE  Handles(st, then, w)
<1>1. told.handled[w] /\ told.stage[w] = st.stage[w]
  BY DEF State
<1>2. \A v \in Workers \ {w} : told.handled[v] = st.handled[v] /\ told.stage[v] = st.stage[v]
  BY DEF State
<1> QED
  BY <1>1, <1>2 DEF Handles, Resumes

LEMMA ToldAtRest ==
  ASSUME NEW st \in State, AtRest(st), NEW w \in Workers, st.stage[w] = "idle", NEW told \in State,
         told.handled = [st.handled EXCEPT ![w] = TRUE], told.stage = st.stage
  PROVE  AtRest(told)
<1>1. \A v \in Workers \ {w} : told.handled[v] = st.handled[v] /\ told.stage[v] = st.stage[v]
  BY DEF State
<1> QED
  BY <1>1 DEF AtRest

LEMMA OnSynchronizerEvent ==
  ASSUME NEW st, Good(st), Held(st), NEW feedback, Tolerable(feedback),
         ~st.handled[SYNCHRONIZER], st.stage[SYNCHRONIZER] = "idle"
  PROVE  LET then == SynchronizerEvent(st, feedback)
         IN Good(then) /\ Held(then) /\ Handles(st, then, SYNCHRONIZER)
<1> DEFINE known == st.sync_read_pos_ + sync_read_size_ <= st.last_data_feeder_write_
           told == [st EXCEPT !.handled[SYNCHRONIZER] = TRUE, !.ok = @ /\ known]
           handled == [st.handled EXCEPT ![SYNCHRONIZER] = TRUE]
<1>1. st \in State /\ known
  BY DEF Good, SamplesThere
<1>2. told = [st EXCEPT !.handled = handled, !.ok = @ /\ known]
  BY <1>1 DEF State
<1> DEFINE still == st.ok /\ known
<1>3. /\ handled \in [Workers -> BOOLEAN] /\ still \in BOOLEAN
      /\ handled[SYNCHRONIZER] /\ handled[DEMODULATOR] = st.handled[DEMODULATOR]
      /\ handled[DATADECODER] = st.handled[DATADECODER]
  BY <1>1, Names DEF State
<1> DEFINE followed == FollowFeedback(told, feedback)
           shifted == ShiftSyncFeederPointersIfPossible(followed)
           resumed == ResumeSynchronizerIfReady(shifted)
           then == ResumeDemodulatorIfReady(resumed)
<1>4. then = SynchronizerEvent(st, feedback)
  BY DEF SynchronizerEvent
<1> HIDE DEF told, handled, still, then
<1>5. told = [st EXCEPT !.handled = handled, !.ok = still]
  BY <1>2 DEF still
<1>6. /\ told \in State /\ told.handled = handled /\ told.stage = st.stage /\ told.ok = still
      /\ SameSamples(st, told) /\ SameFrames(st, told) /\ SameUnits(st, told)
  <2>1. told \in State /\ told.handled = handled /\ told.stage = st.stage /\ told.ok = still
    BY <1>1, <1>3, <1>5 DEF State
  <2>2. SameSamples(st, told) /\ SameFrames(st, told) /\ SameUnits(st, told)
    BY <1>1, <1>5 DEF State, SameSamples, SameFrames, SameUnits
  <2> QED
    BY <2>1, <2>2
<1>7. Good(told) /\ Held(told)
  <2>1. AtRest(told)
    BY <1>1, <1>6, Names, ToldAtRest DEF Good, handled
  <2>2. SamplesThere(told) /\ FramesThere(told)
    BY <1>3, <1>6 DEF Good, SamplesThere, FramesThere, FrameThere, EndOf, SameSamples, SameFrames
  <2>3. UnitsThere(told) /\ Held(told)
    BY <1>3, <1>6 DEF Good, UnitsThere, Held, SameUnits
  <2>4. Sound(told)
    BY <1>1, <1>6 DEF Good, Sound, SameSamples, still
  <2> QED
    BY <1>6, <2>1, <2>2, <2>3, <2>4 DEF Good
<1> HIDE DEF followed, shifted, resumed
<1>8. Good(followed) /\ Held(followed) /\ Resumes(told, followed)
  <2>1. Good(followed) /\ SameWorkers(told, followed) /\ SameUnits(told, followed)
    BY <1>1, <1>3, <1>6, <1>7, FollowingFeedback DEF followed, SameSamples
  <2> QED
    BY <1>7, <2>1, SameWorkersResumes DEF Held, SameUnits
<1>9. Good(shifted) /\ Held(shifted) /\ Resumes(told, shifted)
  <2>1. Good(shifted) /\ SameWorkers(followed, shifted) /\ SameUnits(followed, shifted)
    BY <1>8, ShiftSyncFeeder DEF shifted
  <2>2. Held(shifted)
    BY <1>8, <2>1 DEF Held, SameUnits
  <2> QED
    BY <1>8, <2>1, <2>2, SameWorkersResumes, ResumesTwice
<1>10. Good(resumed) /\ Held(resumed) /\ Resumes(told, resumed)
  BY <1>9, ResumeSynchronizer, ResumesTwice DEF resumed
<1>11. Good(then) /\ Held(then) /\ Resumes(told, then)
  BY <1>10, ResumeDemodulator, ResumesTwice DEF then
<1> QED
  BY <1>1, <1>4, <1>6, <1>11, Names, Handling DEF handled

LEMMA OnDemodulatorEvent ==
  ASSUME NEW st, Good(st), Held(st), ~st.handled[DEMODULATOR], st.stage[DEMODULATOR] = "idle"
  PROVE  LET then == DemodulatorEvent(st)
         IN Good(then) /\ Held(then) /\ Handles(st, then, DEMODULATOR)
<1> DEFINE handled == [st.handled EXCEPT ![DEMODULATOR] = TRUE]
           end == st.demod_write_pos_ + deqpsk_unit_size_
           more == st.ahead + 1
           told == [st EXCEPT !.handled[DEMODULATOR] = TRUE,
                              !.demodulator_data_waiting_ = TRUE,
                              !.last_demodulator_write_ = st.demod_write_pos_ + deqpsk_unit_size_,
                              !.demod_read_pos_ = sync_feeder_buffer_size_,
                              !.demodulated = TRUE,
                              !.ahead = @ + 1]
           shifted == ShiftSyncFeederPointersIfPossible(told)
           made == ShiftDemodDecodPointersIfPossible(shifted)
           resumed == ResumeDemodulatorIfReady(made)
           then == ResumeDatadecoderIfReady(resumed)
<1>1. st \in State
  BY DEF Good
<1>2. told = [st EXCEPT !.handled = handled,
                        !.demodulator_data_waiting_ = TRUE,
                        !.last_demodulator_write_ = end,
                        !.demod_read_pos_ = sync_feeder_buffer_size_,
                        !.demodulated = TRUE,
                        !.ahead = more]
  BY <1>1 DEF State
<1>3. /\ handled \in [Workers -> BOOLEAN] /\ end \in Int /\ more \in Int
      /\ sync_feeder_buffer_size_ \in Int
      /\ handled[DEMODULATOR] /\ handled[SYNCHRONIZER] = st.handled[SYNCHRONIZER]
      /\ handled[DATADECODER] = st.handled[DATADECODER]
  <2>1. st.demod_write_pos_ \in Int /\ st.ahead \in Int
    BY <1>1, Units
  <2>2. end \in Int /\ more \in Int /\ sync_feeder_buffer_size_ \in Int
    BY <2>1, UnitSizes, Sizes
  <2> QED
    BY <1>1, <2>2, Names DEF State
<1>4. then = DemodulatorEvent(st)
  BY DEF DemodulatorEvent
<1> HIDE DEF told, handled, end, more, then
<1>5. /\ told \in State /\ told.handled = handled /\ told.stage = st.stage /\ told.ok = st.ok
      /\ SameSamples(st, told) /\ SameFrames(st, told)
  BY <1>1, <1>2, <1>3 DEF State, SameSamples, SameFrames
<1>6. /\ told.demod_write_pos_ = st.demod_write_pos_
      /\ told.decod_read_pos_ = st.decod_read_pos_
      /\ told.last_demodulator_write_ = end /\ told.ahead = more
      /\ told.demodulator_data_waiting_ /\ told.demodulated
  BY <1>1, <1>2 DEF State
<1>7. Good(told)
  <2>1. AtRest(told)
    BY <1>1, <1>5, Names, ToldAtRest DEF Good, handled
  <2>2. SamplesThere(told) /\ FramesThere(told) /\ Sound(told)
    BY <1>3, <1>5 DEF Good, SamplesThere, FramesThere, FrameThere, Sound, EndOf, SameSamples, SameFrames
  <2>3. UnitsThere(told)
    <3>1. /\ st.demod_write_pos_ \in Int /\ st.decod_read_pos_ \in Int /\ st.ahead \in Int
          /\ st.ahead * deqpsk_unit_size_ \in Int /\ st.ahead >= 0
      BY <1>1, Units DEF Good, UnitsThere
    <3>2. more * deqpsk_unit_size_ = st.ahead * deqpsk_unit_size_ + deqpsk_unit_size_
          /\ more > 0
      BY <3>1, UnitsAhead DEF more
    <3>3. st.demod_write_pos_ = st.decod_read_pos_ + StartGap + st.ahead * deqpsk_unit_size_
      <4>1. CASE st.demodulated
        BY <1>1, <3>1, <4>1 DEF Good, UnitsThere
      <4>2. CASE ~st.demodulated
        BY <1>1, <3>1, <4>2, UnitSizes DEF Good, UnitsThere
      <4> QED
        BY <4>1, <4>2
    <3>4. end = st.decod_read_pos_ + StartGap + more * deqpsk_unit_size_
      BY <3>1, <3>2, <3>3, UnitSizes DEF end
    <3>5. st.demod_write_pos_ + deqpsk_unit_size_ <= demod_decod_buffer_size_
      BY DEF Good, UnitsThere
    <3> QED
      BY <1>3, <1>5, <1>6, <3>2, <3>4, <3>5 DEF UnitsThere, end
  <2> QED
    BY <1>5, <2>1, <2>2, <2>3 DEF Good
<1> HIDE DEF shifted, made, resumed
<1>8. Good(shifted) /\ Resumes(told, shifted)
  BY <1>7, ShiftSyncFeeder, SameWorkersResumes DEF shifted
<1>9. Good(made) /\ Held(made) /\ Resumes(told, made)
  BY <1>8, ShiftDemodDecod, SameWorkersResumes, ResumesTwice DEF made
<1>10. Good(resumed) /\ Held(resumed) /\ Resumes(told, resumed)
  BY <1>9, ResumeDemodulator, ResumesTwice DEF resumed
<1>11. Good(then) /\ Held(then) /\ Resumes(told, then)
  BY <1>10, ResumeDatadecoder, ResumesTwice DEF then
<1> QED
  BY <1>1, <1>4, <1>5, <1>11, Names, Handling DEF handled

LEMMA OnDatadecoderEvent ==
  ASSUME NEW st, Good(st), Held(st), ~st.handled[DATADECODER], st.stage[DATADECODER] = "idle"
  PROVE  LET then == DatadecoderEvent(st)
         IN Good(then) /\ Held(then) /\ Handles(st, then, DATADECODER)
<1> DEFINE handled == [st.handled EXCEPT ![DATADECODER] = TRUE]
           start == st.decod_read_pos_ + deqpsk_unit_size_
           less == st.ahead - 1
           told == [st EXCEPT !.handled[DATADECODER] = TRUE,
                              !.decod_read_pos_ = @ + deqpsk_unit_size_,
                              !.ahead = @ - 1]
           made == ShiftDemodDecodPointersIfPossible(told)
           resumed == ResumeDemodulatorIfReady(made)
           then == ResumeDatadecoderIfReady(resumed)
<1>1. st \in State
  BY DEF Good
<1>2. told = [st EXCEPT !.handled = handled, !.decod_read_pos_ = start, !.ahead = less]
  BY <1>1 DEF State
<1>3. /\ handled \in [Workers -> BOOLEAN] /\ start \in Int /\ less \in Int
      /\ handled[DATADECODER] /\ handled[SYNCHRONIZER] = st.handled[SYNCHRONIZER]
      /\ handled[DEMODULATOR] = st.handled[DEMODULATOR]
  <2>1. st.decod_read_pos_ \in Int /\ st.ahead \in Int
    BY <1>1, Units
  <2>2. start \in Int /\ less \in Int
    BY <2>1, UnitSizes
  <2> QED
    BY <1>1, <2>2, Names DEF State
<1>4. then = DatadecoderEvent(st)
  BY DEF DatadecoderEvent
<1> HIDE DEF told, handled, start, less, then
<1>5. /\ told \in State /\ told.handled = handled /\ told.stage = st.stage /\ told.ok = st.ok
      /\ SameSamples(st, told) /\ SameFrames(st, told)
  BY <1>1, <1>2, <1>3 DEF State, SameSamples, SameFrames
<1>6. /\ told.demod_write_pos_ = st.demod_write_pos_
      /\ told.decod_read_pos_ = start /\ told.ahead = less
      /\ told.last_demodulator_write_ = st.last_demodulator_write_
      /\ told.demodulator_data_waiting_ = st.demodulator_data_waiting_
      /\ told.demodulated = st.demodulated
  BY <1>1, <1>2 DEF State
<1>7. Good(told)
  <2>1. AtRest(told)
    BY <1>1, <1>5, Names, ToldAtRest DEF Good, handled
  <2>2. SamplesThere(told) /\ FramesThere(told) /\ Sound(told)
    BY <1>3, <1>5 DEF Good, SamplesThere, FramesThere, FrameThere, Sound, EndOf, SameSamples, SameFrames
  <2>3. UnitsThere(told)
    <3>1. /\ st.decod_read_pos_ \in Int /\ st.ahead \in Int
          /\ st.ahead * deqpsk_unit_size_ \in Int /\ st.ahead > 0
      BY <1>1, Units DEF Good, UnitsThere
    <3>2. less * deqpsk_unit_size_ = st.ahead * deqpsk_unit_size_ - deqpsk_unit_size_
          /\ less >= 0
      BY <3>1, UnitsAhead DEF less
    <3>3. st.demodulated
      BY <3>1 DEF Good, UnitsThere
    <3>4. start + StartGap + less * deqpsk_unit_size_
            = st.decod_read_pos_ + StartGap + st.ahead * deqpsk_unit_size_
      BY <3>1, <3>2, UnitSizes DEF start
    <3> QED
      BY <1>3, <1>5, <1>6, <3>2, <3>3, <3>4 DEF Good, UnitsThere
  <2> QED
    BY <1>5, <2>1, <2>2, <2>3 DEF Good
<1> HIDE DEF made, resumed
<1>8. Good(made) /\ Held(made) /\ Resumes(told, made)
  BY <1>7, ShiftDemodDecod, SameWorkersResumes DEF made
<1>9. Good(resumed) /\ Held(resumed) /\ Resumes(told, resumed)
  BY <1>8, ResumeDemodulator, ResumesTwice DEF resumed
<1>10. Good(then) /\ Held(then) /\ Resumes(told, then)
  BY <1>9, ResumeDatadecoder, ResumesTwice DEF then
<1> QED
  BY <1>1, <1>4, <1>5, <1>10, Names, Handling DEF handled

-----------------------------------------------------------------------------
(* The invariant *)

Events == {DATAFEEDER} \cup Workers

InQueue(w) == \E i \in DOMAIN threads_event_queue_ : threads_event_queue_[i] = w
OnceInQueue(w) ==
  \A i, j \in DOMAIN threads_event_queue_ :
    threads_event_queue_[i] = w /\ threads_event_queue_[j] = w => i = j

\* A worker is at rest, or asked for and not yet heard of, or its report is
\* under way.
Round(w) ==
  /\ OnceInQueue(w)
  /\ InQueue(w) => ~s.handled[w] /\ s.stage[w] = "idle"
  /\ ~InQueue(w) => \/ s.handled[w] /\ s.stage[w] = "idle"
                    \/ ~s.handled[w] /\ s.stage[w] \in Busy

Undisturbed ==
  /\ Good(s) /\ Held(s)
  /\ threads_event_queue_ \in Seq(Events)
  /\ pc \in {"play", "pull", "shift"}
  /\ Tolerable(sync_feedback_)
  /\ \A w \in Workers : Round(w)

User == [commands : Nat, new_station : BOOLEAN, conv_alg_change : BOOLEAN,
         requested_stop_ : BOOLEAN, program_end_delay_ : Nat]

IInv == user \in User /\ (user.commands = 0 => Undisturbed)

\* What the synchronizer returns is within the tolerance.
Tolerance == \A feedback \in Feedbacks : Tolerable(feedback)

\* push(): the new event is there, and is the only one of its kind if there was none.
LEMMA Appended ==
  ASSUME threads_event_queue_ \in Seq(Events), NEW e \in Events,
         threads_event_queue_' = Append(threads_event_queue_, e), NEW w
  PROVE  /\ threads_event_queue_' \in Seq(Events)
         /\ InQueue(w)' <=> InQueue(w) \/ w = e
         /\ OnceInQueue(w) /\ (w # e \/ ~InQueue(w)) => OnceInQueue(w)'
<1> DEFINE q == threads_event_queue_
<1>1. /\ q' \in Seq(Events) /\ Len(q) \in Nat /\ DOMAIN q = 1 .. Len(q)
      /\ DOMAIN q' = 1 .. Len(q) + 1
      /\ \A i \in 1 .. Len(q) : q'[i] = q[i]
      /\ q'[Len(q) + 1] = e
  BY AppendProperties, LenProperties
<1>2. InQueue(w)' <=> InQueue(w) \/ w = e
  BY <1>1 DEF InQueue
<1>3. ASSUME OnceInQueue(w), w # e \/ ~InQueue(w) PROVE OnceInQueue(w)'
  BY <1>1, <1>3 DEF OnceInQueue, InQueue
<1> QED
  BY <1>1, <1>2, <1>3

\* pull(): the event that is taken was there, and no other of its kind if it was once.
LEMMA Taken ==
  ASSUME threads_event_queue_ \in Seq(Events), NEW e, Pulled(e), NEW w
  PROVE  /\ threads_event_queue_' \in Seq(Events) /\ e \in Events
         /\ w # e => (InQueue(w)' <=> InQueue(w))
         /\ w = e => InQueue(w) /\ (OnceInQueue(w) => ~InQueue(w)')
         /\ OnceInQueue(w) => OnceInQueue(w)'
<1> DEFINE q == threads_event_queue_
<1>1. /\ q' \in Seq(Events) /\ Len(q) \in Nat \ {0} /\ DOMAIN q = 1 .. Len(q)
      /\ DOMAIN q' = 1 .. Len(q) - 1
      /\ \A i \in 1 .. Len(q) - 1 : q'[i] = q[i + 1]
      /\ q[1] = e /\ e \in Events
  BY HeadTailProperties, LenProperties, EmptySeq DEF Pulled
<1>2. w # e => (InQueue(w)' <=> InQueue(w))
  <2>1. ASSUME w # e, InQueue(w) PROVE InQueue(w)'
    <3>1. PICK i \in 1 .. Len(q) : q[i] = w
      BY <1>1, <2>1 DEF InQueue
    <3>2. i - 1 \in 1 .. Len(q) - 1 /\ q'[i - 1] = q[(i - 1) + 1] /\ (i - 1) + 1 = i
      BY <1>1, <2>1, <3>1
    <3> QED
      BY <1>1, <3>1, <3>2 DEF InQueue
  <2>2. ASSUME InQueue(w)' PROVE InQueue(w)
    <3>1. PICK i \in 1 .. Len(q) - 1 : q'[i] = w
      BY <1>1, <2>2 DEF InQueue
    <3>2. i + 1 \in DOMAIN q /\ q[i + 1] = w
      BY <1>1, <3>1
    <3> QED
      BY <3>2 DEF InQueue
  <2> QED
    BY <2>1, <2>2
<1>3. ASSUME w = e PROVE InQueue(w) /\ (OnceInQueue(w) => ~InQueue(w)')
  <2>1. 1 \in DOMAIN q /\ q[1] = w
    BY <1>1, <1>3
  <2>2. ASSUME OnceInQueue(w), InQueue(w)' PROVE FALSE
    <3>1. PICK i \in 1 .. Len(q) - 1 : q'[i] = w
      BY <1>1, <2>2 DEF InQueue
    <3>2. i + 1 \in DOMAIN q /\ q[i + 1] = w /\ i + 1 # 1
      BY <1>1, <3>1
    <3> QED
      BY <2>1, <2>2, <3>2 DEF OnceInQueue
  <2> QED
    BY <2>1, <2>2 DEF InQueue
<1>4. ASSUME OnceInQueue(w) PROVE OnceInQueue(w)'
  <2> SUFFICES ASSUME NEW i \in 1 .. Len(q) - 1, NEW j \in 1 .. Len(q) - 1, q'[i] = w, q'[j] = w
               PROVE  i = j
    BY <1>1 DEF OnceInQueue
  <2>1. i + 1 \in DOMAIN q /\ j + 1 \in DOMAIN q /\ q[i + 1] = w /\ q[j + 1] = w
    BY <1>1
  <2>2. i + 1 = j + 1
    BY <1>4, <2>1 DEF OnceInQueue
  <2> QED
    BY <2>2
<1> QED
  BY <1>1, <1>2, <1>3, <1>4

LEMMA SameEvents ==
  ASSUME NEW w, UNCHANGED threads_event_queue_
  PROVE  (InQueue(w)' <=> InQueue(w)) /\ (OnceInQueue(w)' <=> OnceInQueue(w))
BY DEF InQueue, OnceInQueue

\* A handler that does not handle a worker's report.
LEMMA ResumesKeepsRound ==
  ASSUME NEW w \in Workers, Round(w), Resumes(s, s'),
         InQueue(w)' <=> InQueue(w), OnceInQueue(w)'
  PROVE  Round(w)'
BY DEF Round, Resumes, Busy

LEMMA HandlesKeepsRounds ==
  ASSUME threads_event_queue_ \in Seq(Events), NEW e \in Workers, Pulled(e),
         \A w \in Workers : Round(w), Handles(s, s', e)
  PROVE  \A w \in Workers : Round(w)'
<1> SUFFICES ASSUME NEW w \in Workers PROVE Round(w)'
  OBVIOUS
<1>1. CASE w = e
  BY <1>1, Taken DEF Round, Handles, Busy
<1>2. CASE w # e
  BY <1>2, Taken DEF Round, Handles, Busy
<1> QED
  BY <1>1, <1>2

\* A report of a worker that has been pulled finds it at rest.
LEMMA ReportedAtRest ==
  ASSUME Undisturbed, NEW w \in Workers, Pulled(w)
  PROVE  ~s.handled[w] /\ s.stage[w] = "idle"
BY Taken DEF Undisturbed, Round

-----------------------------------------------------------------------------
(* What the other threads do to the scheduler's state *)

\* The next stage of a worker that has been asked to run.
LEMMA Staged ==
  ASSUME NEW st, Good(st), NEW w \in Workers, NEW to \in Stages, ~st.handled[w]
  PROVE  LET then == [st EXCEPT !.stage[w] = to]
         IN /\ Good(then) /\ (Held(st) => Held(then))
            /\ then.handled = st.handled /\ then.stage[w] = to
            /\ \A v \in Workers : v # w => then.stage[v] = st.stage[v]
<1> DEFINE stages == [st.stage EXCEPT ![w] = to]
           then == [st EXCEPT !.stage[w] = to]
<1>1. st \in State
  BY DEF Good
<1>2. /\ stages \in [Workers -> Stages] /\ stages[w] = to
      /\ \A v \in Workers : v # w => stages[v] = st.stage[v]
  BY <1>1 DEF State
<1>3. then = [st EXCEPT !.stage = stages]
  OBVIOUS
<1> HIDE DEF then, stages
<1>4. /\ then \in State /\ then.stage = stages /\ then.handled = st.handled /\ then.ok = st.ok
      /\ SameSamples(st, then) /\ SameFrames(st, then) /\ SameUnits(st, then)
  BY <1>1, <1>2, <1>3 DEF State, SameSamples, SameFrames, SameUnits
<1>5. AtRest(then)
  BY <1>2, <1>4 DEF Good, AtRest
<1>6. SamplesThere(then) /\ FramesThere(then) /\ Sound(then)
  BY <1>4 DEF Good, SamplesThere, FramesThere, FrameThere, Sound, EndOf, SameSamples, SameFrames
<1>7. UnitsThere(then) /\ (Held(st) => Held(then))
  BY <1>4 DEF Good, UnitsThere, Held, SameUnits
<1> QED
  BY <1>2, <1>4, <1>5, <1>6, <1>7 DEF Good, then

\* The feeder stores a block behind what is there.
LEMMA Stored ==
  ASSUME NEW st, Good(st)
  PROVE  LET then == [st EXCEPT !.data_stored = TRUE, !.write_ready = FALSE]
         IN Good(then) /\ (Held(st) => Held(then)) /\ SameWorkers(st, then)
<1> DEFINE then == [st EXCEPT !.data_stored = TRUE, !.write_ready = FALSE]
<1>1. st \in State
  BY DEF Good
<1> HIDE DEF then
<1>2. /\ then \in State /\ then.data_stored /\ then.ok = st.ok /\ SameWorkers(st, then)
      /\ then.data_write_pos_ = st.data_write_pos_ /\ then.sync_read_pos_ = st.sync_read_pos_
      /\ then.last_data_feeder_write_ = st.last_data_feeder_write_
      /\ SameFrames(st, then) /\ SameUnits(st, then)
  BY <1>1 DEF State, SameFrames, SameUnits, SameWorkers, then
<1>3. EndOf(then) \in Int /\ EndOf(st) <= EndOf(then)
  BY <1>1, <1>2, Positions, Sizes DEF EndOf
<1>4. SamplesThere(then)
  BY <1>1, <1>2, <1>3, Positions DEF Good, SamplesThere, SameWorkers
<1>5. FramesThere(then)
  BY <1>1, <1>2, <1>3, Positions, Sizes DEF Good, FramesThere, FrameThere, SameFrames
<1>6. AtRest(then) /\ UnitsThere(then) /\ Sound(then) /\ (Held(st) => Held(then))
  BY <1>2 DEF Good, AtRest, UnitsThere, Sound, Held, SameWorkers, SameUnits
<1> QED
  BY <1>2, <1>4, <1>5, <1>6 DEF Good, then

\* A worker goes on with what it was asked for.
LEMMA Working ==
  ASSUME Undisturbed, NEW w \in Workers, NEW from \in Busy, NEW to \in Busy,
         At(w, from, to), UNCHANGED <<threads_event_queue_, pc>>
  PROVE  Good(s') /\ Held(s') /\ \A v \in Workers : Round(v)'
<1>1. Round(w) /\ Good(s) /\ Held(s) /\ s.stage[w] = from /\ s' = [s EXCEPT !.stage[w] = to]
  BY DEF Undisturbed, At
<1>2. ~s.handled[w] /\ ~InQueue(w) /\ to \in Stages
  BY <1>1 DEF Round, Busy, Stages
<1>3. /\ Good(s') /\ Held(s') /\ s'.handled = s.handled /\ s'.stage[w] = to
      /\ \A v \in Workers : v # w => s'.stage[v] = s.stage[v]
  BY <1>1, <1>2, Staged
<1>4. ASSUME NEW v \in Workers PROVE Round(v)'
  <2>1. Round(v) /\ (InQueue(v)' <=> InQueue(v)) /\ (OnceInQueue(v)' <=> OnceInQueue(v))
    BY SameEvents DEF Undisturbed
  <2> QED
    BY <1>2, <1>3, <2>1 DEF Round
<1> QED
  BY <1>3, <1>4

LEMMA Reporting ==
  ASSUME Undisturbed, NEW w \in Workers, Report(w)
  PROVE  Undisturbed'
<1>1. /\ Round(w) /\ Good(s) /\ Held(s) /\ s.stage[w] # "again"
      /\ threads_event_queue_ \in Seq(Events)
  BY DEF Undisturbed, Round, Busy
<1>2. /\ s.stage[w] = "reporting" /\ s' = [s EXCEPT !.stage[w] = "idle"]
      /\ threads_event_queue_' = Append(threads_event_queue_, w)
      /\ UNCHANGED <<pc, sync_feedback_>>
  BY <1>1 DEF Report, At, Rest
<1>3. ~s.handled[w] /\ ~InQueue(w) /\ "idle" \in Stages /\ w \in Events
  BY <1>1, <1>2 DEF Round, Stages, Events
<1>4. /\ Good(s') /\ Held(s') /\ s'.handled = s.handled /\ s'.stage[w] = "idle"
      /\ \A v \in Workers : v # w => s'.stage[v] = s.stage[v]
  BY <1>1, <1>2, <1>3, Staged
<1>5. ASSUME NEW v \in Workers PROVE Round(v)'
  <2>1. /\ Round(v)
        /\ InQueue(v)' <=> InQueue(v) \/ v = w
        /\ OnceInQueue(v)'
    BY <1>1, <1>2, <1>3, Appended DEF Undisturbed, Round
  <2> QED
    BY <1>3, <1>4, <2>1 DEF Round
<1>6. threads_event_queue_' \in Seq(Events)
  BY <1>1, <1>2, <1>3, Appended
<1> QED
  BY <1>2, <1>4, <1>5, <1>6 DEF Undisturbed

LEMMA Storing ==
  ASSUME Undisturbed, FeederStore \/ FeederEnd
  PROVE  Undisturbed'
<1>1. /\ s' = [s EXCEPT !.data_stored = TRUE, !.write_ready = FALSE]
      /\ threads_event_queue_' = Append(threads_event_queue_, DATAFEEDER)
      /\ UNCHANGED <<pc, sync_feedback_>>
  BY DEF FeederStore, FeederEnd
<1>2. Good(s') /\ Held(s') /\ SameWorkers(s, s')
  BY <1>1, Stored DEF Undisturbed
<1>3. DATAFEEDER \in Events /\ DATAFEEDER \notin Workers
  BY DEF Events, Workers, DATAFEEDER, SYNCHRONIZER, DEMODULATOR, DATADECODER
<1>4. threads_event_queue_' \in Seq(Events)
  BY <1>1, <1>3, Appended DEF Undisturbed
<1>5. ASSUME NEW w \in Workers PROVE Round(w)'
  <2>1. Round(w) /\ (InQueue(w)' <=> InQueue(w)) /\ OnceInQueue(w)'
    BY <1>1, <1>3, Appended DEF Undisturbed, Round
  <2> QED
    BY <1>2, <2>1, SameWorkersResumes, ResumesKeepsRound
<1> QED
  BY <1>1, <1>2, <1>4, <1>5 DEF Undisturbed

-----------------------------------------------------------------------------
(* The handlers *)

LEMMA PlayBegins ==
  ASSUME Undisturbed, EnterPlay
  PROVE  Undisturbed'
<1> DEFINE first == ResumeSynchronizerIfReady(s)
           second == ResumeDemodulatorIfReady(first)
<1>1. s' = ResumeDatadecoderIfReady(second) /\ pc' = "pull"
      /\ UNCHANGED <<threads_event_queue_, sync_feedback_>>
  BY DEF EnterPlay, Rest
<1>2. Good(first) /\ Held(first) /\ Resumes(s, first)
  BY ResumeSynchronizer DEF Undisturbed
<1> HIDE DEF first
<1>3. Good(second) /\ Held(second) /\ Resumes(s, second)
  BY <1>2, ResumeDemodulator, ResumesTwice
<1> HIDE DEF second
<1>4. Good(s') /\ Held(s') /\ Resumes(s, s')
  BY <1>1, <1>3, ResumeDatadecoder, ResumesTwice
<1>5. \A w \in Workers : Round(w)'
  BY <1>1, <1>4, SameEvents, ResumesKeepsRound DEF Undisturbed, Round
<1> QED
  BY <1>1, <1>4, <1>5 DEF Undisturbed

LEMMA FeedersEvent ==
  ASSUME Undisturbed, s.ok, OnDatafeeder
  PROVE  Undisturbed'
<1>1. /\ Pulled(DATAFEEDER) /\ s' = StoreFeederEnd(s) /\ pc' = "shift"
      /\ UNCHANGED sync_feedback_
  BY DEF OnDatafeeder, Rest
<1>2. Good(s') /\ Held(s') /\ Resumes(s, s')
  BY <1>1, StoringTheEnd, SameWorkersResumes DEF Undisturbed, Held, SameUnits
<1>3. DATAFEEDER \notin Workers
  BY DEF Workers, DATAFEEDER, SYNCHRONIZER, DEMODULATOR, DATADECODER
<1>4. threads_event_queue_' \in Seq(Events)
  BY <1>1, Taken DEF Undisturbed
<1>5. ASSUME NEW w \in Workers PROVE Round(w)'
  <2>1. Round(w) /\ (InQueue(w)' <=> InQueue(w)) /\ OnceInQueue(w)'
    BY <1>1, <1>3, Taken DEF Undisturbed, Round
  <2> QED
    BY <1>2, <2>1, ResumesKeepsRound
<1> QED
  BY <1>1, <1>2, <1>4, <1>5 DEF Undisturbed

LEMMA FeedersShift ==
  ASSUME Undisturbed, OnDatafeederShift
  PROVE  Undisturbed'
<1> DEFINE shifted == ShiftSyncFeederPointersIfPossible(s)
<1>1. /\ s' = ResumeSynchronizerIfReady(shifted) /\ pc' = "pull"
      /\ UNCHANGED <<threads_event_queue_, sync_feedback_>>
  BY DEF OnDatafeederShift, Rest
<1>2. Good(shifted) /\ SameWorkers(s, shifted) /\ SameUnits(s, shifted)
  BY ShiftSyncFeeder DEF Undisturbed
<1>3. Held(shifted) /\ Resumes(s, shifted)
  BY <1>2, SameWorkersResumes DEF Undisturbed, Held, SameUnits
<1> HIDE DEF shifted
<1>4. Good(s') /\ Held(s') /\ Resumes(s, s')
  BY <1>1, <1>2, <1>3, ResumeSynchronizer, ResumesTwice
<1>5. \A w \in Workers : Round(w)'
  BY <1>1, <1>4, SameEvents, ResumesKeepsRound DEF Undisturbed, Round
<1> QED
  BY <1>1, <1>4, <1>5 DEF Undisturbed

LEMMA WorkersEvent ==
  ASSUME Undisturbed, OnSynchronizer \/ OnDemodulator \/ OnDatadecoder
  PROVE  Undisturbed'
<1>1. PICK w \in Workers :
        /\ Pulled(w) /\ Good(s') /\ Held(s') /\ Handles(s, s', w)
        /\ UNCHANGED <<pc, sync_feedback_>>
  <2>1. CASE OnSynchronizer
    <3>1. Pulled(SYNCHRONIZER) /\ s' = SynchronizerEvent(s, sync_feedback_)
          /\ UNCHANGED <<pc, sync_feedback_>>
      BY <2>1 DEF OnSynchronizer, Rest
    <3>2. ~s.handled[SYNCHRONIZER] /\ s.stage[SYNCHRONIZER] = "idle"
      BY <3>1, ReportedAtRest, Names
    <3>3. Good(s') /\ Held(s') /\ Handles(s, s', SYNCHRONIZER)
      BY <3>1, <3>2, OnSynchronizerEvent DEF Undisturbed
    <3> QED
      BY <3>1, <3>3, Names
  <2>2. CASE OnDemodulator
    <3>1. Pulled(DEMODULATOR) /\ s' = DemodulatorEvent(s) /\ UNCHANGED <<pc, sync_feedback_>>
      BY <2>2 DEF OnDemodulator, Rest
    <3>2. ~s.handled[DEMODULATOR] /\ s.stage[DEMODULATOR] = "idle"
      BY <3>1, ReportedAtRest, Names
    <3>3. Good(s') /\ Held(s') /\ Handles(s, s', DEMODULATOR)
      BY <3>1, <3>2, OnDemodulatorEvent DEF Undisturbed
    <3> QED
      BY <3>1, <3>3, Names
  <2>3. CASE OnDatadecoder
    <3>1. Pulled(DATADECODER) /\ s' = DatadecoderEvent(s) /\ UNCHANGED <<pc, sync_feedback_>>
      BY <2>3 DEF OnDatadecoder, Rest
    <3>2. ~s.handled[DATADECODER] /\ s.stage[DATADECODER] = "idle"
      BY <3>1, ReportedAtRest, Names
    <3>3. Good(s') /\ Held(s') /\ Handles(s, s', DATADECODER)
      BY <3>1, <3>2, OnDatadecoderEvent DEF Undisturbed
    <3> QED
      BY <3>1, <3>3, Names
  <2> QED
    BY <2>1, <2>2, <2>3
<1>2. threads_event_queue_' \in Seq(Events)
  BY <1>1, Taken DEF Undisturbed
<1>3. \A v \in Workers : Round(v)'
  BY <1>1, HandlesKeepsRounds DEF Undisturbed
<1> QED
  BY <1>1, <1>2, <1>3 DEF Undisturbed

LEMMA WorkersStep ==
  ASSUME Undisturbed, Tolerance, SynchronizerThread \/ DemodulatorThread \/ DatadecoderThread
  PROVE  Undisturbed'
<1>1. CASE \E w \in Workers : Report(w)
  BY <1>1, Reporting
<1>2. CASE SynchronizerProcess
  <2>1. /\ At(SYNCHRONIZER, "running", "reporting") /\ UNCHANGED <<threads_event_queue_, pc>>
        /\ sync_feedback_' \in Feedbacks
    BY <1>2 DEF SynchronizerProcess
  <2>2. Good(s') /\ Held(s') /\ \A v \in Workers : Round(v)'
    BY <2>1, Working, Names DEF Busy
  <2> QED
    BY <2>1, <2>2 DEF Undisturbed, Tolerance, Tolerable
<1>3. CASE StartSynchronizer \/ DemodulatorProcess \/ DecodeFIC \/ DecodeMSC \/ DatadecoderProcess
  <2>1. PICK w \in Workers, from \in Busy, to \in Busy :
          At(w, from, to) /\ UNCHANGED <<threads_event_queue_, pc, sync_feedback_>>
    BY <1>3, Names DEF StartSynchronizer, DemodulatorProcess, DecodeFIC, DecodeMSC,
       DatadecoderProcess, Busy, Rest
  <2>2. Good(s') /\ Held(s') /\ \A v \in Workers : Round(v)'
    BY <2>1, Working
  <2> QED
    BY <2>1, <2>2 DEF Undisturbed
<1> QED
  BY <1>1, <1>2, <1>3, Names DEF SynchronizerThread, DemodulatorThread, DatadecoderThread

-----------------------------------------------------------------------------
(* The theorems *)

LEMMA Begins == Init => IInv
<1> SUFFICES ASSUME Init PROVE user \in User /\ Undisturbed
  BY DEF IInv
<1>1. PICK blocks \in StartBlocks, lag \in StartLags, stale \in 0 .. 2 :
        /\ s = [data_stored |-> FALSE,
                write_ready |-> TRUE,
                data_write_pos_ |-> blocks * block_size,
                last_data_feeder_write_ |-> 0,
                sync_read_pos_ |-> blocks * block_size - lag,
                demod_read_pos_ |-> blocks * block_size - lag
                                      - sync_pointer_shift_size_ + 3 * null_size,
                demod_read_pos_queue_ |-> << >>,
                demod_read_here |-> 0,
                demod_write_pos_ |-> (units_for_read - 1) * deqpsk_unit_size_,
                decod_read_pos_ |-> 0,
                last_demodulator_write_ |-> 0,
                demodulator_data_waiting_ |-> FALSE,
                demodulator_write_blocked_ |-> FALSE,
                handled |-> [w \in Workers |-> TRUE],
                stage |-> [w \in Workers |-> "idle"],
                demodulated |-> FALSE,
                ahead |-> 0,
                ok |-> TRUE]
        /\ threads_event_queue_ = [i \in 1 .. stale |-> DATAFEEDER]
  BY DEF Init
<1>2. user \in User /\ user.commands = 0 /\ pc = "play" /\ sync_feedback_ = Exact
  BY DEF Init, User
<1>3. blocks \in Nat /\ lag \in Nat /\ (blocks + 1) * block_size <= sync_feeder_buffer_size_
  BY SizeAssumption
<1> DEFINE place == blocks * block_size
           before == place - lag - sync_pointer_shift_size_ + 3 * null_size
<1>4. place \in Nat /\ before \in Int /\ place + block_size <= sync_feeder_buffer_size_
  <2>1. \A m, n \in Nat : m * n \in Nat /\ (m + 1) * n = m * n + n
    OBVIOUS
  <2>2. place \in Nat /\ (blocks + 1) * block_size = place + block_size
    BY <1>3, <2>1, Sizes
  <2> HIDE DEF place
  <2> QED
    BY <1>3, <2>2, Sizes
<1> HIDE DEF place, before
<1>5. s \in State
  <2>1. /\ s = [data_stored |-> FALSE,
                write_ready |-> TRUE,
                data_write_pos_ |-> place,
                last_data_feeder_write_ |-> 0,
                sync_read_pos_ |-> place - lag,
                demod_read_pos_ |-> before,
                demod_read_pos_queue_ |-> << >>,
                demod_read_here |-> 0,
                demod_write_pos_ |-> StartGap,
                decod_read_pos_ |-> 0,
                last_demodulator_write_ |-> 0,
                demodulator_data_waiting_ |-> FALSE,
                demodulator_write_blocked_ |-> FALSE,
                handled |-> [w \in Workers |-> TRUE],
                stage |-> [w \in Workers |-> "idle"],
                demodulated |-> FALSE,
                ahead |-> 0,
                ok |-> TRUE]
    BY <1>1 DEF place, before, StartGap
  <2>2. /\ << >> \in Seq(Int) /\ place - lag \in Int /\ StartGap \in Int /\ 0 \in Int
        /\ "idle" \in Stages
    BY <1>3, <1>4, UnitSizes DEF Stages
  <2> QED
    BY <1>4, <2>1, <2>2 DEF State
<1>6. /\ ~s.data_stored /\ s.data_write_pos_ = place /\ s.last_data_feeder_write_ = 0
      /\ s.demod_read_pos_queue_ = << >> /\ s.demod_write_pos_ = StartGap
      /\ s.decod_read_pos_ = 0 /\ s.last_demodulator_write_ = 0
      /\ ~s.demodulator_data_waiting_ /\ ~s.demodulated /\ s.ahead = 0 /\ s.ok
      /\ \A w \in Workers : s.handled[w] /\ s.stage[w] = "idle"
  BY <1>1 DEF place, StartGap
<1>7. AtRest(s) /\ Sound(s) /\ Held(s)
  BY <1>6 DEF AtRest, Sound, Held
<1>8. SamplesThere(s) /\ FramesThere(s)
  BY <1>4, <1>6, Names, Sizes DEF SamplesThere, FramesThere, EndOf
<1>9. UnitsThere(s)
  BY <1>6, Names, UnitSizes DEF UnitsThere
<1>10. Good(s)
  BY <1>5, <1>7, <1>8, <1>9 DEF Good
<1>11. Tolerable(sync_feedback_)
  <2>1. sync_feedback_.null_quality = "OK" /\ sync_feedback_.null_position = null_size \div 2
    BY <1>2 DEF Exact
  <2>2. /\ null_size \div 2 \in Nat /\ 2 * (null_size \div 2) <= null_size
    BY Sizes
  <2> QED
    BY <2>1, <2>2, Sizes DEF Tolerable
<1>12. threads_event_queue_ \in Seq(Events) /\ \A w \in Workers : ~InQueue(w)
  <2>1. DATAFEEDER \in Events /\ DATAFEEDER \notin Workers
    BY DEF Events, Workers, DATAFEEDER, SYNCHRONIZER, DEMODULATOR, DATADECODER
  <2>2. threads_event_queue_ \in [1 .. stale -> Events] /\ stale \in Nat
    BY <1>1, <2>1
  <2> QED
    BY <1>1, <2>1, <2>2 DEF InQueue
<1>13. \A w \in Workers : Round(w)
  BY <1>6, <1>12 DEF Round, InQueue, OnceInQueue
<1> QED
  BY <1>2, <1>7, <1>10, <1>11, <1>12, <1>13 DEF Undisturbed

LEMMA Inductive == IInv /\ Tolerance /\ [Next]_vars => IInv'
<1> SUFFICES ASSUME IInv, Tolerance, [Next]_vars PROVE IInv'
  OBVIOUS
<1> USE DEF IInv
<1>1. CASE UNCHANGED vars
  <2>1. UNCHANGED <<s, threads_event_queue_, pc, sync_feedback_, user>>
    BY <1>1 DEF vars
  <2>2. Undisturbed => Undisturbed'
    BY <2>1, SameEvents DEF Undisturbed, Round
  <2> QED
    BY <2>1, <2>2
<1>2. CASE AskStation \/ AskConvAlg \/ AskStop
  <2>1. user' \in User /\ user'.commands = user.commands + 1
    <3> DEFINE next == user.commands + 1
    <3>1. next \in Nat
      BY DEF User
    <3>2. /\ user'.commands = next
          /\ \E new \in BOOLEAN :
               \/ user' = [user EXCEPT !.commands = next, !.new_station = new]
               \/ user' = [user EXCEPT !.commands = next, !.conv_alg_change = new]
               \/ user' = [user EXCEPT !.commands = next, !.requested_stop_ = new]
      BY <1>2 DEF AskStation, AskConvAlg, AskStop, User
    <3> HIDE DEF next
    <3>3. user' \in User
      BY <3>1, <3>2 DEF User
    <3> QED
      BY <3>2, <3>3 DEF next
  <2> QED
    BY <2>1 DEF User
<1>3. CASE Process
  <2>1. pc = "process"
    BY <1>3 DEF Process
  <2>2. user' \in User /\ user'.commands = user.commands
    <3> DEFINE delay == user.program_end_delay_ + (IF feeder = "ended" THEN 1 ELSE 0)
    <3>1. delay \in Nat
      BY DEF User
    <3>2. \/ user' = user
          \/ user' = [user EXCEPT !.new_station = FALSE, !.conv_alg_change = FALSE,
                                  !.program_end_delay_ = delay]
          \/ user' = [user EXCEPT !.program_end_delay_ = delay]
      BY <1>3 DEF Process, Reconfigure
    <3> HIDE DEF delay
    <3> QED
      BY <3>1, <3>2 DEF User
  <2> QED
    BY <2>1, <2>2 DEF Undisturbed
<1>4. CASE OnStopPulling \/ Drain \/ Drained
  <2>1. user' = user
    BY <1>4 DEF OnStopPulling, Drain, Drained
  <2>2. ~Undisturbed
    <3>1. STOP_PULLING \notin Events
      BY DEF STOP_PULLING, Events, Workers, DATAFEEDER, SYNCHRONIZER, DEMODULATOR, DATADECODER
    <3> QED
      BY <1>4, <3>1, Taken DEF Undisturbed, OnStopPulling, Drain, Drained
  <2> QED
    BY <2>1, <2>2
<1>5. CASE /\ s.ok
           /\ \/ EnterPlay \/ OnDatafeeder \/ OnDatafeederShift
              \/ OnSynchronizer \/ OnDemodulator \/ OnDatadecoder
              \/ SynchronizerThread \/ DemodulatorThread \/ DatadecoderThread
              \/ FeederStore \/ FeederEnd
  <2>1. user' = user
    BY <1>5 DEF EnterPlay, OnDatafeeder, OnDatafeederShift, OnSynchronizer, OnDemodulator,
       OnDatadecoder, SynchronizerThread, DemodulatorThread, DatadecoderThread, StartSynchronizer,
       SynchronizerProcess, DemodulatorProcess, DecodeFIC, DecodeMSC, DatadecoderProcess, Report,
       FeederStore, FeederEnd
  <2>2. Undisturbed => Undisturbed'
    BY <1>5, PlayBegins, FeedersEvent, FeedersShift, WorkersEvent, WorkersStep, Storing
  <2> QED
    BY <2>1, <2>2
<1> QED
  BY <1>1, <1>2, <1>3, <1>4, <1>5 DEF Next, Running, Scheduler

\* Until the user asks for something, a worker is resumed only when it is at
\* rest, its report out of the queue, and on samples that are stored
\* (scheduler.cc:664-719, 1163-1225, scheduler.h:154-161).
THEOREM ResumedOnDataUndisturbed ==
  ASSUME Tolerance
  PROVE  Spec => [](user.commands = 0 => ResumedOnData)
<1>1. IInv => (user.commands = 0 => ResumedOnData)
  <2> SUFFICES ASSUME Undisturbed PROVE ResumedOnData
    BY DEF IInv
  <2>1. s.stage[SYNCHRONIZER] = "asked" => s.sync_read_pos_ + sync_read_size_ <= DataEnd
    <3> SUFFICES ASSUME s.stage[SYNCHRONIZER] = "asked"
                 PROVE  s.sync_read_pos_ + sync_read_size_ <= DataEnd
      OBVIOUS
    <3>1. ~s.handled[SYNCHRONIZER] /\ s \in State
      BY Names DEF Undisturbed, Good, AtRest
    <3>2. /\ s.sync_read_pos_ + sync_read_size_ <= s.last_data_feeder_write_
          /\ s.last_data_feeder_write_ <= EndOf(s)
      BY <3>1 DEF Undisturbed, Good, SamplesThere
    <3>3. EndOf(s) = DataEnd /\ EndOf(s) \in Int
      BY <3>1, Positions DEF EndOf, DataEnd
    <3> QED
      BY <3>1, <3>2, <3>3, Positions, Sizes
  <2>2. \A i \in DOMAIN s.demod_read_pos_queue_ :
          s.demod_read_pos_queue_[i] + DemodulatorReads <= DataEnd
    BY DEF Undisturbed, Good, FramesThere, FrameThere, EndOf, DataEnd
  <2>3. HandledMeansSuspended
    BY DEF Undisturbed, Round, InQueue, HandledMeansSuspended
  <2> QED
    BY <2>1, <2>2, <2>3 DEF ResumedOnData, FrameDataPresent
<1> QED
  BY <1>1, Begins, Inductive, PTL DEF Spec

\* Until then the data decoder reads every demodulated unit once, in order and
\* after it is written, whatever the copies to the front of the buffer do
\* (scheduler.cc:721-757, 839-932).
THEOREM DecodeWindowUndisturbed ==
  ASSUME Tolerance
  PROVE  Spec => [](user.commands = 0 => DecodeWindow)
<1>1. IInv => (user.commands = 0 => DecodeWindow)
  <2> SUFFICES ASSUME Undisturbed PROVE DecodeWindow
    BY DEF IInv
  <2>1. s \in State /\ UnitsThere(s) /\ AtRest(s)
    BY DEF Undisturbed, Good
  <2>2. CASE s.demodulated
    <3>1. /\ s.last_demodulator_write_ = s.decod_read_pos_ + StartGap + s.ahead * deqpsk_unit_size_
          /\ s.decod_read_pos_ \in Int /\ s.ahead \in Int
      BY <2>1, <2>2, Units DEF UnitsThere
    <3>2. \A k, n \in Int : \A m \in Nat : (n - 1 + k) * m = (n - 1) * m + k * m
      OBVIOUS
    <3>3. (units_for_read - 1 + s.ahead) * deqpsk_unit_size_ = StartGap + s.ahead * deqpsk_unit_size_
      BY <3>1, <3>2, SizeAssumption DEF StartGap
    <3>4. StartGap \in Int /\ s.ahead * deqpsk_unit_size_ \in Int
      BY <2>1, Units, UnitSizes
    <3> QED
      BY <2>2, <3>1, <3>3, <3>4 DEF DecodeWindow
  <2>3. CASE ~s.demodulated
    <3>1. s.handled[DATADECODER]
      BY <2>1, <2>3 DEF UnitsThere
    <3> QED
      BY <2>1, <2>3, <3>1, Names DEF AtRest, DecodeWindow
  <2> QED
    BY <2>2, <2>3
<1> QED
  BY <1>1, Begins, Inductive, PTL DEF Spec

\* Until then the only assert that can fail is that of the copy to the front of
\* sync_feeder_buffer_ (scheduler.cc:1187), and it fails only when the place it
\* compares has fallen behind what is moved.
THEOREM NoAssertFailsUndisturbed ==
  ASSUME Tolerance
  PROVE  Spec => [](user.commands = 0 => NoAssertFails \/ s.last_data_feeder_write_ < 0)
<1>1. IInv => (user.commands = 0 => NoAssertFails \/ s.last_data_feeder_write_ < 0)
  BY DEF IInv, Undisturbed, Good, Sound, NoAssertFails
<1> QED
  BY <1>1, Begins, Inductive, PTL DEF Spec

=============================================================================
