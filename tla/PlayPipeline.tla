---------------------------- MODULE PlayPipeline ----------------------------
(***************************************************************************)
(* The PLAY state of the scheduler (scheduler.cc: Play, Reconfigure and    *)
(* the part of Process that leads from one to the other), with the threads *)
(* it coordinates:                                                         *)
(*                                                                         *)
(*   data feeder  --sync_feeder_buffer_-->  synchronizer, demodulator      *)
(*   demodulator  --demod_decod_buffer_-->  data decoder                   *)
(*                                                                         *)
(* Positions are offsets in floats, as in the code; the contents of the    *)
(* buffers are left out.  The worker threads follow JobService: "asked"    *)
(* after resume_thread, "running" in the worker function, "reporting"      *)
(* between suspend_thread and push.                                        *)
(*                                                                         *)
(* `s' is the scheduler's state, one field per member variable; a method   *)
(* of the scheduler is an operator from s to s, so that a handler is the   *)
(* composition of the methods it calls.  s.ok is FALSE once an assert has  *)
(* failed.                                                                 *)
(***************************************************************************)
EXTENDS Integers, Sequences, SequencesExt

CONSTANTS
  block_size,                \* floats the feeder writes at a time
  sync_feeder_buffer_size_,
  frame_size, null_size,     \* of the transmission mode, in complex samples
  deqpsk_unit_size_,         \* floats the demodulator writes per frame
  units_for_read,            \* units the data decoder reads at a time
  demod_decod_buffer_mul_,
  StartBlocks, StartLags,    \* where CONF may leave the two positions
  Feedbacks,                 \* results of the synchronizer
  MaxIrregular,              \* bound: results other than Exact
  Commands, MaxCommands,     \* what the user may ask for, and how often
  EndlessCommands,           \* bound: when the input never ends, one of these
  Endless, InputBlocks       \* how many blocks the input may still have

DATAFEEDER   == "DATAFEEDER"
SYNCHRONIZER == "SYNCHRONIZER"
DEMODULATOR  == "DEMODULATOR"
DATADECODER  == "DATADECODER"
STOP_PULLING == "-1"

Workers == {SYNCHRONIZER, DEMODULATOR, DATADECODER}

sync_read_size_          == 2 * (frame_size + null_size)
sync_pointer_shift_size_ == 2 * frame_size
deqpsk_block_size_       == units_for_read * deqpsk_unit_size_
demod_decod_buffer_size_ == demod_decod_buffer_mul_ * deqpsk_block_size_

\* What Demodulator::Process touches: the symbols from the phase reference on.
DemodulatorReads == 2 * (frame_size - null_size)

\* The synchronizer found the null symbol exactly where it was expected.
Exact == [null_quality |-> "OK", null_position |-> null_size \div 2]

\* The sizes of every mode, scheduler.cc:60, and where CONF's own asserts leave
\* the next block.
ASSUME SizeAssumption ==
  /\ {block_size, sync_feeder_buffer_size_, frame_size, null_size, deqpsk_unit_size_,
      units_for_read, demod_decod_buffer_mul_} \subseteq Nat \ {0}
  /\ 5 * null_size < 4 * frame_size
  /\ demod_decod_buffer_mul_ > 2
  /\ StartBlocks \cup StartLags \subseteq Nat
  /\ \A blocks \in StartBlocks : (blocks + 1) * block_size <= sync_feeder_buffer_size_
ASSUME FeedbackAssumption ==
  Feedbacks \subseteq [null_quality : {"OK", "SHIFT", "NOT_DETECTED"}, null_position : Int]
ASSUME InputAssumption == Endless \notin Nat /\ InputBlocks \subseteq Nat \cup {Endless}
ASSUME CommandAssumption ==
  Commands \cup EndlessCommands \subseteq {"station", "conv_alg", "stop"}

VARIABLES
  s,                    \* the scheduler's member variables
  threads_event_queue_,
  pc,                   \* where the scheduler thread is
  sync_feedback_,       \* what the synchronizer returned last
  sync_at, decod_at,    \* the addresses two running workers took from the scheduler
  feeder,               \* "running" or "ended"
  blocks_left,          \* of the input
  user,                 \* what the user's thread has asked for
  irregular             \* results other than Exact so far (history)

vars == <<s, threads_event_queue_, pc, sync_feedback_, sync_at, decod_at,
          feeder, blocks_left, user, irregular>>

-----------------------------------------------------------------------------
(* The scheduler's methods *)

\* Threading: a thread that has been suspended, even if it has not reported
\* yet, will run once more; a request to a busy thread is lost.
resume_thread(st, w) ==
  [st EXCEPT !.stage[w] = IF @ = "idle" THEN "asked"
                          ELSE IF @ = "reporting" THEN "again" ELSE @]

is_suspended(w) == s.stage[w] \in {"idle", "reporting"}

\* Faulty variant: any sample is taken for enough.
ResumeSynchronizerOnAny(st) ==
  IF st.last_data_feeder_write_ > st.sync_read_pos_
     /\ st.handled[SYNCHRONIZER]
  THEN resume_thread([st EXCEPT !.handled[SYNCHRONIZER] = FALSE], SYNCHRONIZER)
  ELSE st

ResumeSynchronizerIfReady(st) ==
  IF st.last_data_feeder_write_ >= st.sync_read_pos_ + sync_read_size_
     /\ st.handled[SYNCHRONIZER]
  THEN resume_thread([st EXCEPT !.handled[SYNCHRONIZER] = FALSE], SYNCHRONIZER)
  ELSE st

ResumeDemodulatorIfReady(st) ==
  LET pos == Head(st.demod_read_pos_queue_)
  IN IF /\ st.demod_read_pos_queue_ # << >>
        /\ st.handled[DEMODULATOR]
        /\ ~st.demodulator_write_blocked_
        /\ pos + deqpsk_block_size_ < st.last_data_feeder_write_
     THEN resume_thread([st EXCEPT !.demod_read_pos_ = pos,
                                   !.demod_read_pos_queue_ = Tail(@),
                                   !.demod_read_here = pos,
                                   !.handled[DEMODULATOR] = FALSE], DEMODULATOR)
     ELSE st

ResumeDatadecoderIfReady(st) ==
  IF st.decod_read_pos_ + deqpsk_block_size_ <= st.last_demodulator_write_
     /\ st.handled[DATADECODER]
  THEN resume_thread(
         [st EXCEPT !.ok = @ /\ st.decod_read_pos_ + deqpsk_block_size_
                                  < demod_decod_buffer_size_,
                    !.handled[DATADECODER] = FALSE], DATADECODER)
  ELSE st

\* The oldest position of sync_feeder_buffer_ somebody may still need.
FirstNeeded(st) ==
  LET read == {st.sync_read_pos_, st.demod_read_pos_} \cup
              {st.demod_read_pos_queue_[i] : i \in DOMAIN st.demod_read_pos_queue_ \cap {1}}
  IN CHOOSE p \in read : \A q \in read : p <= q

\* memcpy moves what is needed to the front; the sizes are unsigned, so
\* new_pos < needed is a copy too large for any space.
Room(needed, new_pos, missing) ==
  needed > missing /\ new_pos >= needed /\ new_pos - needed <= needed

\* Faulty variant: the frames waiting for the demodulator stay where they were.
MoveWithoutFrames(st, needed, new_pos) ==
  [st EXCEPT !.data_write_pos_ = new_pos - needed,
             !.last_data_feeder_write_ = @ - needed,
             !.sync_read_pos_ = @ - needed,
             !.demod_read_pos_ = @ - needed,
             !.ok = @ /\ st.last_data_feeder_write_ >= needed]

MoveToFront(st, needed, new_pos) ==
  [st EXCEPT !.data_write_pos_ = new_pos - needed,
             !.last_data_feeder_write_ = @ - needed,
             !.sync_read_pos_ = @ - needed,
             !.demod_read_pos_ = @ - needed,
             !.demod_read_pos_queue_ = [i \in DOMAIN @ |-> @[i] - needed],
             !.ok = @ /\ st.last_data_feeder_write_ >= needed]

QueueInBounds(st) ==
  \A i \in DOMAIN st.demod_read_pos_queue_ :
    LET pos == st.demod_read_pos_queue_[i]
    IN /\ pos <= sync_feeder_buffer_size_
       /\ pos <= st.sync_read_pos_ + sync_read_size_
       /\ pos <= st.last_data_feeder_write_

ShiftSyncFeederPointersIfPossible(st) ==
  LET new_pos == st.data_write_pos_ + block_size
      missing == new_pos + block_size - sync_feeder_buffer_size_
      needed  == FirstNeeded(st)
      moved   == IF missing > 0 THEN MoveToFront(st, needed, new_pos)
                 ELSE [st EXCEPT !.data_write_pos_ = new_pos]
  IN IF ~st.data_stored \/ (missing > 0 /\ ~Room(needed, new_pos, missing))
     THEN st
     ELSE [moved EXCEPT
             !.ok = /\ @
                    /\ moved.data_write_pos_ + block_size <= sync_feeder_buffer_size_
                    /\ QueueInBounds(moved),
             !.data_stored = FALSE,
             !.write_ready = TRUE]

\* Faulty variant: the end of the written units is not moved with them.
ShiftDemodDecodHalfway(st) ==
  LET new_pos == st.demod_write_pos_ + deqpsk_unit_size_
      missing == new_pos + deqpsk_unit_size_ - demod_decod_buffer_size_
      needed  == st.decod_read_pos_
      moved   == IF missing > 0
                 THEN [st EXCEPT !.demod_write_pos_ = new_pos - needed,
                                 !.decod_read_pos_ = 0]
                 ELSE [st EXCEPT !.demod_write_pos_ = new_pos]
  IN IF ~st.demodulator_data_waiting_ THEN st
     ELSE IF missing > 0 /\ ~Room(needed, new_pos, missing)
     THEN [st EXCEPT !.demodulator_write_blocked_ = TRUE]
     ELSE [moved EXCEPT !.demodulator_write_blocked_ = FALSE,
                        !.demodulator_data_waiting_ = FALSE]

ShiftDemodDecodPointersIfPossible(st) ==
  LET new_pos == st.demod_write_pos_ + deqpsk_unit_size_
      missing == new_pos + deqpsk_unit_size_ - demod_decod_buffer_size_
      needed  == st.decod_read_pos_
      moved   == IF missing > 0
                 THEN [st EXCEPT !.demod_write_pos_ = new_pos - needed,
                                 !.decod_read_pos_ = 0,
                                 !.last_demodulator_write_ = @ - needed,
                                 !.ok = @ /\ st.last_demodulator_write_ >= needed]
                 ELSE [st EXCEPT !.demod_write_pos_ = new_pos]
  IN IF ~st.demodulator_data_waiting_ THEN st
     ELSE IF missing > 0 /\ ~Room(needed, new_pos, missing)
     THEN [st EXCEPT !.demodulator_write_blocked_ = TRUE]
     ELSE [moved EXCEPT
             !.demodulator_write_blocked_ = FALSE,
             !.demodulator_data_waiting_ = FALSE,
             !.ok = /\ @
                    /\ moved.decod_read_pos_ + deqpsk_block_size_ <= demod_decod_buffer_size_
                    /\ moved.demod_write_pos_ + deqpsk_unit_size_ <= demod_decod_buffer_size_]

-----------------------------------------------------------------------------
(* Play: what it does with one event *)

StoreFeederEnd(st) ==
  IF st.data_stored
  THEN [st EXCEPT !.last_data_feeder_write_ = st.data_write_pos_ + block_size]
  ELSE st

\* How far the null symbol lies from where the synchronizer expected it.
Offset(feedback) == 2 * feedback.null_position - null_size

CorrectPosition(st, feedback) ==
  IF feedback.null_quality = "OK" /\ st.sync_read_pos_ + Offset(feedback) > 0
  THEN [st EXCEPT !.sync_read_pos_ = @ + Offset(feedback)]
  ELSE st

QueueFrame(st, feedback) ==
  LET synced_pos == st.sync_read_pos_ + 2 * feedback.null_position + 2 * null_size
      queue      == st.demod_read_pos_queue_
  IN [st EXCEPT !.demod_read_pos_queue_ = Append(@, synced_pos),
                !.sync_read_pos_ = @ + sync_pointer_shift_size_,
                !.ok = /\ @
                       /\ (queue = << >> \/ synced_pos > Last(queue))
                       /\ synced_pos <= st.last_data_feeder_write_]

FollowFeedback(st, feedback) ==
  IF feedback.null_quality = "SHIFT"
  THEN [st EXCEPT !.sync_read_pos_ = @ + Offset(feedback) + sync_pointer_shift_size_]
  ELSE QueueFrame(CorrectPosition(st, feedback), feedback)

SynchronizerEvent(st, feedback) ==
  LET told == [st EXCEPT !.handled[SYNCHRONIZER] = TRUE,
                         !.ok = @ /\ st.sync_read_pos_ + sync_read_size_
                                       <= st.last_data_feeder_write_]
  IN ResumeDemodulatorIfReady(ResumeSynchronizerIfReady(
       ShiftSyncFeederPointersIfPossible(FollowFeedback(told, feedback))))

DemodulatorEvent(st) ==
  LET told == [st EXCEPT !.handled[DEMODULATOR] = TRUE,
                         !.demodulator_data_waiting_ = TRUE,
                         !.last_demodulator_write_ = st.demod_write_pos_ + deqpsk_unit_size_,
                         !.demod_read_pos_ = sync_feeder_buffer_size_,
                         !.demodulated = TRUE,
                         !.ahead = @ + 1]
  IN ResumeDatadecoderIfReady(ResumeDemodulatorIfReady(
       ShiftDemodDecodPointersIfPossible(ShiftSyncFeederPointersIfPossible(told))))

\* Faulty variant: a demodulator that waits for room is not told of it.
DatadecoderEventUntold(st) ==
  LET told == [st EXCEPT !.handled[DATADECODER] = TRUE,
                         !.decod_read_pos_ = @ + deqpsk_unit_size_,
                         !.ahead = @ - 1]
  IN ResumeDatadecoderIfReady(told)

DatadecoderEvent(st) ==
  LET told == [st EXCEPT !.handled[DATADECODER] = TRUE,
                         !.decod_read_pos_ = @ + deqpsk_unit_size_,
                         !.ahead = @ - 1]
  IN ResumeDatadecoderIfReady(ResumeDemodulatorIfReady(
       ShiftDemodDecodPointersIfPossible(told)))

-----------------------------------------------------------------------------
(* Initial states: CONF has found the stations and CONFSTATION has made the *)
(* buffers.  The feeder's reports of those states are still in the queue.   *)

Init ==
  \E blocks \in StartBlocks, lag \in StartLags, stale \in 0 .. 2 :
    /\ blocks * block_size >= lag + sync_pointer_shift_size_
    /\ s = [data_stored |-> FALSE,
            write_ready |-> TRUE,
            data_write_pos_ |-> blocks * block_size,
            last_data_feeder_write_ |-> 0,
            sync_read_pos_ |-> blocks * block_size - lag,
            demod_read_pos_ |-> blocks * block_size - lag
                                  - sync_pointer_shift_size_ + 3 * null_size,
            demod_read_pos_queue_ |-> << >>,
            demod_read_here |-> 0,
            demod_write_pos_ |-> (units_for_read - 1) * deqpsk_unit_size_,
            decod_read_pos_ |-> 0,
            last_demodulator_write_ |-> 0,
            demodulator_data_waiting_ |-> FALSE,
            demodulator_write_blocked_ |-> FALSE,
            handled |-> [w \in Workers |-> TRUE],
            stage |-> [w \in Workers |-> "idle"],
            demodulated |-> FALSE,  \* history: a frame since the buffers were made
            ahead |-> 0,            \* history: frames demodulated less frames decoded
            ok |-> TRUE]
    /\ threads_event_queue_ = [i \in 1 .. stale |-> DATAFEEDER]
    /\ pc = "play"
    /\ sync_feedback_ = Exact
    /\ sync_at = 0 /\ decod_at = 0
    /\ feeder = "running"
    /\ blocks_left \in InputBlocks
    /\ user = [commands |-> 0, new_station |-> FALSE, conv_alg_change |-> FALSE,
               requested_stop_ |-> FALSE, program_end_delay_ |-> 0]
    /\ irregular = 0

-----------------------------------------------------------------------------
(* The scheduler thread *)

Pulled(event) == /\ pc = "pull"
                 /\ threads_event_queue_ # << >>
                 /\ Head(threads_event_queue_) = event
                 /\ threads_event_queue_' = Tail(threads_event_queue_)

Rest == <<sync_feedback_, sync_at, decod_at, feeder, blocks_left, irregular>>

EnterPlay == /\ pc = "play"
             /\ s' = ResumeDatadecoderIfReady(ResumeDemodulatorIfReady(
                       ResumeSynchronizerIfReady(s)))
             /\ pc' = "pull"
             /\ UNCHANGED <<threads_event_queue_, user, Rest>>

\* data_stored is read here without the mutex, and again when the pointers are
\* shifted: the feeder may store a block in between.
OnDatafeeder == /\ Pulled(DATAFEEDER)
                /\ s' = StoreFeederEnd(s)
                /\ pc' = "shift"
                /\ UNCHANGED <<user, Rest>>

OnDatafeederShift == /\ pc = "shift"
                     /\ s' = ResumeSynchronizerIfReady(ShiftSyncFeederPointersIfPossible(s))
                     /\ pc' = "pull"
                     /\ UNCHANGED <<threads_event_queue_, user, Rest>>

OnSynchronizer == /\ Pulled(SYNCHRONIZER)
                  /\ s' = SynchronizerEvent(s, sync_feedback_)
                  /\ UNCHANGED <<pc, user, Rest>>

OnDemodulator == /\ Pulled(DEMODULATOR)
                 /\ s' = DemodulatorEvent(s)
                 /\ UNCHANGED <<pc, user, Rest>>

OnDatadecoder == /\ Pulled(DATADECODER)
                 /\ s' = DatadecoderEvent(s)
                 /\ UNCHANGED <<pc, user, Rest>>

OnStopPulling == /\ Pulled(STOP_PULLING)
                 /\ pc' = "drain"
                 /\ UNCHANGED <<s, user, Rest>>

\* Waiting for the workers throws away whatever else is in the queue.
Drain == /\ pc = "drain"
         /\ \E w \in Workers : ~is_suspended(w)
         /\ threads_event_queue_ # << >>
         /\ threads_event_queue_' = Tail(threads_event_queue_)
         /\ UNCHANGED <<s, pc, user, Rest>>

Drained == /\ pc = "drain"
           /\ \A w \in Workers : is_suspended(w)
           /\ threads_event_queue_' =
                IF s.handled[SYNCHRONIZER] THEN threads_event_queue_
                ELSE Append(threads_event_queue_, SYNCHRONIZER)
           /\ s' = [s EXCEPT !.handled[DEMODULATOR] = TRUE,
                             !.handled[DATADECODER] = TRUE,
                             !.demodulator_write_blocked_ = FALSE]
           /\ pc' = "process"
           /\ UNCHANGED <<user, Rest>>

\* New data decoder and new demod_decod_buffer_, for a station of the same size.
Reconfigure(delay) ==
  /\ s' = [s EXCEPT !.demod_write_pos_ = (units_for_read - 1) * deqpsk_unit_size_,
                    !.decod_read_pos_ = 0,
                    !.demodulated = FALSE,
                    !.ahead = 0]
  /\ user' = [user EXCEPT !.new_station = FALSE, !.conv_alg_change = FALSE,
                          !.program_end_delay_ = delay]
  /\ pc' = "process"

\* One turn of the loop of Process in the states after PLAY.
Process ==
  LET delay == user.program_end_delay_ + (IF feeder = "ended" THEN 1 ELSE 0)
  IN /\ pc = "process"
     /\ UNCHANGED <<threads_event_queue_, Rest>>
     /\ IF delay >= 2 THEN pc' = "stopped" /\ UNCHANGED <<s, user>>
        ELSE IF user.conv_alg_change \/ (user.new_station /\ ~user.requested_stop_)
        THEN Reconfigure(delay)
        ELSE /\ pc' = IF user.requested_stop_ THEN "stopped" ELSE "play"
             /\ user' = [user EXCEPT !.program_end_delay_ = delay]
             /\ UNCHANGED s

Scheduler == \/ EnterPlay \/ OnDatafeeder \/ OnDatafeederShift \/ OnSynchronizer
             \/ OnDemodulator \/ OnDatadecoder \/ OnStopPulling
             \/ Drain \/ Drained \/ Process

-----------------------------------------------------------------------------
(* The workers *)

At(w, from, to) == s.stage[w] = from /\ s' = [s EXCEPT !.stage[w] = to]

StartSynchronizer == /\ At(SYNCHRONIZER, "asked", "running")
                     /\ sync_at' = s.sync_read_pos_
                     /\ UNCHANGED <<threads_event_queue_, pc, sync_feedback_,
                                    decod_at, feeder, blocks_left, user, irregular>>

SynchronizerProcess ==
  /\ At(SYNCHRONIZER, "running", "reporting")
  /\ \E feedback \in Feedbacks :
       /\ feedback = Exact \/ irregular < MaxIrregular
       /\ sync_feedback_' = feedback
       /\ irregular' = IF feedback = Exact THEN irregular ELSE irregular + 1
  /\ UNCHANGED <<threads_event_queue_, pc, sync_at, decod_at, feeder, blocks_left, user>>

DemodulatorProcess == /\ At(DEMODULATOR, "asked", "reporting")
                      /\ UNCHANGED <<threads_event_queue_, pc, user, Rest>>

\* DataDecoder::Process reads read_here twice, for the FIC and for the MSC.
DecodeFIC == /\ At(DATADECODER, "asked", "running")
             /\ decod_at' = s.decod_read_pos_
             /\ UNCHANGED <<threads_event_queue_, pc, sync_feedback_,
                            sync_at, feeder, blocks_left, user, irregular>>

DecodeMSC == /\ At(DATADECODER, "running", "msc")
             /\ decod_at' = s.decod_read_pos_
             /\ UNCHANGED <<threads_event_queue_, pc, sync_feedback_,
                            sync_at, feeder, blocks_left, user, irregular>>

DatadecoderProcess == /\ At(DATADECODER, "msc", "reporting")
                      /\ UNCHANGED <<threads_event_queue_, pc, user, Rest>>

Report(w) == /\ \/ At(w, "reporting", "idle")
                \/ At(w, "again", "asked")
             /\ threads_event_queue_' = Append(threads_event_queue_, w)
             /\ UNCHANGED <<pc, user, Rest>>

SynchronizerThread == StartSynchronizer \/ SynchronizerProcess \/ Report(SYNCHRONIZER)
DemodulatorThread == DemodulatorProcess \/ Report(DEMODULATOR)
DatadecoderThread == DecodeFIC \/ DecodeMSC \/ DatadecoderProcess \/ Report(DATADECODER)

-----------------------------------------------------------------------------
(* The data feeder: a turn of FileDataFeeder::ReadAsync under the mutex.   *)
(* A turn in which resampling leaves less than a block only delays the     *)
(* store: it is part of the next turn.                                     *)

MayWrite == feeder = "running" /\ (s.data_stored => s.write_ready)

FeederStore == /\ MayWrite /\ blocks_left # 0
               /\ blocks_left' = IF blocks_left = Endless THEN Endless ELSE blocks_left - 1
               /\ s' = [s EXCEPT !.data_stored = TRUE, !.write_ready = FALSE]
               /\ threads_event_queue_' = Append(threads_event_queue_, DATAFEEDER)
               /\ UNCHANGED <<pc, sync_feedback_, sync_at, decod_at, feeder, user, irregular>>

\* End of file: a block is announced although none was written.
FeederEnd == /\ MayWrite /\ blocks_left = 0
             /\ s' = [s EXCEPT !.data_stored = TRUE, !.write_ready = FALSE]
             /\ threads_event_queue_' = Append(threads_event_queue_, DATAFEEDER)
             /\ feeder' = "ended"
             /\ UNCHANGED <<pc, sync_feedback_, sync_at, decod_at, blocks_left, user, irregular>>

-----------------------------------------------------------------------------
(* The user's thread: ParametersToSDR and Stop *)

Ask(command) == /\ \/ blocks_left # Endless /\ command \in Commands
                   \/ user.commands = 0 /\ command \in EndlessCommands
                /\ user.commands < MaxCommands
                /\ UNCHANGED <<s, pc, Rest>>

Push(event) == threads_event_queue_' = Append(threads_event_queue_, event)

\* The number asked for may be the one that is playing.
AskStation == /\ Ask("station")
              /\ \E new \in BOOLEAN :
                   user' = [user EXCEPT !.commands = @ + 1, !.new_station = new]
              /\ Push(STOP_PULLING)

AskConvAlg == /\ Ask("conv_alg")
              /\ user' = [user EXCEPT !.commands = @ + 1, !.conv_alg_change = TRUE]
              /\ UNCHANGED threads_event_queue_

\* Faulty variant: the Play loop is not woken.
AskStopSilently == /\ Ask("stop")
                   /\ user' = [user EXCEPT !.commands = @ + 1, !.requested_stop_ = TRUE]
                   /\ UNCHANGED threads_event_queue_

AskStop == /\ Ask("stop")
           /\ user' = [user EXCEPT !.commands = @ + 1, !.requested_stop_ = TRUE]
           /\ Push(STOP_PULLING)

Running == \/ Scheduler
           \/ SynchronizerThread \/ DemodulatorThread \/ DatadecoderThread
           \/ FeederStore \/ FeederEnd
           \/ AskStation \/ AskConvAlg \/ AskStop

\* A failed assert ends the program.
Next == s.ok /\ Running

Spec == Init /\ [][Next]_vars

\* Every thread runs; the user need not ask for anything.
FairSpec == /\ Spec
            /\ WF_vars(s.ok /\ Scheduler)
            /\ WF_vars(s.ok /\ SynchronizerThread)
            /\ WF_vars(s.ok /\ DemodulatorThread)
            /\ WF_vars(s.ok /\ DatadecoderThread)
            /\ WF_vars(s.ok /\ (FeederStore \/ FeederEnd))

-----------------------------------------------------------------------------
(* Properties *)

\* The asserts of Play and of the methods it calls hold (scheduler.cc:717,
\* 777, 800-801, 907-929, 1187-1225).
NoAssertFails == s.ok

\* The end of what the feeder has really stored.
DataEnd == s.data_write_pos_ + (IF s.data_stored THEN block_size ELSE 0)

\* A worker is never set on data that has not arrived: what the synchronizer
\* reads and every frame waiting for the demodulator lie below the end of the
\* stored data. Answers the FIXMEs of scheduler.cc:690 and 1219.
FrameDataPresent ==
  /\ s.stage[SYNCHRONIZER] = "asked" => s.sync_read_pos_ + sync_read_size_ <= DataEnd
  /\ \A i \in DOMAIN s.demod_read_pos_queue_ :
       s.demod_read_pos_queue_[i] + DemodulatorReads <= DataEnd

\* report_handled tells the truth (scheduler.h:154-161): when it is set, the
\* worker is at rest and its report is out of the queue, so that resume_thread
\* never meets a busy thread.
HandledMeansSuspended ==
  pc \in {"pull", "shift"} =>
    \A w \in Workers : s.handled[w] => s.stage[w] = "idle"
                                       /\ \A i \in DOMAIN threads_event_queue_ :
                                            threads_event_queue_[i] # w

\* A worker is resumed only when it is at rest, and on data that are there.
ResumedOnData == FrameDataPresent /\ HandledMeansSuspended

\* What is ahead of the data decoder in demod_decod_buffer_ is the start-up
\* gap of units_for_read - 1 units and one unit for each frame demodulated and
\* not decoded: no unit is skipped, decoded twice or decoded before it is
\* written, whatever the copies to the front of the buffer do.
DecodeWindow ==
  IF s.demodulated
  THEN s.last_demodulator_write_ - s.decod_read_pos_
         = (units_for_read - 1 + s.ahead) * deqpsk_unit_size_
  ELSE s.stage[DATADECODER] \in {"idle", "reporting"}

\* The feeder waits for room, and nobody is left who could make it
\* (scheduler.cc:1182 expects the demodulator to catch up).
NeverStuck ==
  ~ /\ pc = "pull" /\ threads_event_queue_ = << >>
    /\ \A w \in Workers : s.stage[w] = "idle"
    /\ feeder = "running" /\ ~MayWrite

Disjoint(a, a_size, b, b_size) == a + a_size <= b \/ b + b_size <= a

\* What a worker is reading is left alone: the block the feeder may write next
\* overlaps neither the frame the demodulator reads nor the samples the
\* synchronizer reads (scheduler.cc:1163-1171), and the unit the demodulator
\* writes not the block the data decoder reads (scheduler.cc:893), although the
\* buffers' contents have been moved to the front since the worker began.
WorkersUndisturbed ==
  /\ ~s.data_stored /\ s.stage[DEMODULATOR] = "asked" =>
       Disjoint(s.data_write_pos_, block_size, s.demod_read_here, DemodulatorReads)
  /\ ~s.data_stored /\ s.stage[SYNCHRONIZER] = "running" =>
       Disjoint(s.data_write_pos_, block_size, sync_at, sync_read_size_)
  /\ s.stage[DEMODULATOR] = "asked" /\ s.stage[DATADECODER] \in {"running", "msc"} =>
       Disjoint(s.demod_write_pos_, deqpsk_unit_size_, decod_at, deqpsk_block_size_)

\* As long as the input goes on and the null symbol is found, audio is decoded
\* again and again until the user wants something else: the two buffers never hold
\* each other up for good (scheduler.cc:755-862).
AudioUntilStop ==
  []<><<DatadecoderProcess>>_vars \/ <>(user.commands > 0 \/ feeder = "ended")

\* Stop ends the program's main loop, whatever it and the workers are doing and
\* whatever else the user has asked for (scheduler.cc:864-880, 1608-1612).
StopHonoured == user.requested_stop_ ~> (pc = "stopped" \/ ~s.ok)

\* When the file ends the main loop ends (scheduler.cc:1484).
FileEndNoticed == feeder = "ended" ~> pc = "stopped"

\* A request for the other convolutional decoder is taken up (scheduler.h:104).
ConvAlgApplied == user.conv_alg_change ~> ~user.conv_alg_change
=============================================================================
