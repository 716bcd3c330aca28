---------------------------- MODULE Acquisition ----------------------------
(***************************************************************************)
(* Acquisition of the signal: the scheduler in the states SYNC and CONF    *)
(* (scheduler.cc: Start, Process, Sync, Conf, SetNewWritePointer,          *)
(* CalculateNewBufferPosition, Stop) and the data feeder that fills        *)
(* sync_feeder_buffer_, from a file or from the radio.                     *)
(*                                                                         *)
(* Both sides share data_write_ under one mutex, which the scheduler holds *)
(* while it synchronizes.  The file feeder waits for write_ready; the      *)
(* radio cannot wait and counts the blocks it had to skip.  Flags that the *)
(* code reads or writes without the mutex have steps of their own.         *)
(*                                                                         *)
(* Positions are offsets in floats.  write_here and read_here move with    *)
(* data_write_pos_ and sync_read_pos_ and are left out.  `held' is         *)
(* history of a file: the cells from .. to-1 hold consecutive samples of   *)
(* the input, and `ahead' samples lie between the reader and the last one  *)
(* stored.  previous_write_here is read for the radio only.                *)
(***************************************************************************)
EXTENDS Integers

CONSTANTS
  block_size,                \* floats the feeder stores at a time
  sync_feeder_buffer_size_,
  first_read_size_,          \* floats read while the mode is not known
  frame_size, null_size,     \* of the transmission mode, in complex samples
  Sources,                   \* "file", "radio"
  DetectedNulls,             \* positions at which DetectMode finds a null symbol
  Feedbacks,                 \* results of the synchronizer
  MaxIrregular,              \* bound: results other than Exact
  MaxSkipped,                \* bound: blocks skipped one after the other
  UserStops                  \* the sources that the user may stop

Exact == [null_quality |-> "OK", null_position |-> null_size \div 2]

ASSUME FeedbackAssumption ==
  Feedbacks \subseteq [null_quality : {"OK", "SHIFT", "NOT_DETECTED"}, null_position : Nat]
ASSUME SourceAssumption == UserStops \subseteq Sources /\ Sources \subseteq {"file", "radio"}
\* The buffer holds the first read and a block, but not two such reads; and two
\* reads of the known mode and a block.
ASSUME SizeAssumption ==
  /\ {block_size, sync_feeder_buffer_size_, first_read_size_, frame_size, null_size}
       \subseteq Nat \ {0}
  /\ null_size < 2 * frame_size
  /\ first_read_size_ + block_size <= sync_feeder_buffer_size_
  /\ sync_feeder_buffer_size_ <= 2 * first_read_size_
  /\ 4 * (frame_size + null_size) + block_size <= sync_feeder_buffer_size_
  /\ DetectedNulls \subseteq Nat

VARIABLES
  data_write_,     \* data_stored, write_ready, blocks_skipped, finish_rtl_process
  lock_buffer,     \* who holds the mutex: "nobody", "scheduler", "feeder"
  pos,             \* data_write_pos_, sync_read_pos_, sync_read_size_
  scheduler,       \* its place; state_; the method that runs and its is_locked;
                   \* program_end_delay_
  feeder,          \* source; its place; running; previous_write_here;
                   \* the blocks_skipped it has seen
  requested_stop_,
  held             \* history: from, to, ahead; irregular: results not Exact

vars == <<data_write_, lock_buffer, pos, scheduler, feeder, requested_stop_, held>>

Nowhere == -1

Init ==
  /\ data_write_ = [data_stored |-> FALSE, write_ready |-> TRUE, blocks_skipped |-> 0,
                    finish_rtl_process |-> FALSE]
  /\ lock_buffer = "nobody"
  /\ pos = [data_write_pos_ |-> 0, sync_read_pos_ |-> 0, sync_read_size_ |-> first_read_size_]
  /\ scheduler = [at |-> "start", state_ |-> "SYNC", method |-> "SYNC",
                  is_locked |-> FALSE, program_end_delay_ |-> 0]
  /\ \E source \in Sources :
       feeder = [source |-> source, at |-> "new", running |-> FALSE,
                 previous_write_here |-> Nowhere, seen |-> 0]
  /\ requested_stop_ = FALSE
  /\ held = [from |-> 0, to |-> 0, ahead |-> 0, irregular |-> 0]

-----------------------------------------------------------------------------
(* The scheduler *)

GoTo(place) == scheduler' = [scheduler EXCEPT !.at = place]

\* Start: while (!datafeeder_->IsRunning());
Start == /\ scheduler.at = "start"
         /\ feeder.running
         /\ GoTo("loop")
         /\ UNCHANGED <<data_write_, lock_buffer, pos, feeder, requested_stop_, held>>

\* Faulty variant: a feeder that has ended is not noticed.
ProcessUntilStopped ==
  /\ scheduler.at = "loop"
  /\ scheduler' = [scheduler EXCEPT
       !.method = scheduler.state_,
       !.at = IF requested_stop_ THEN "stop"
              ELSE IF scheduler.state_ = "CONFSTATION" THEN "reconfigure" ELSE "test"]
  /\ UNCHANGED <<data_write_, lock_buffer, pos, feeder, requested_stop_, held>>

\* The head of the main loop: is there still a feeder, does the user want to
\* stop, and which method is in turn.
Process ==
  /\ scheduler.at = "loop"
  /\ LET delay == scheduler.program_end_delay_ + (IF feeder.running THEN 0 ELSE 1)
     IN scheduler' = [scheduler EXCEPT
          !.program_end_delay_ = delay,
          !.method = scheduler.state_,
          !.at = IF delay >= 2 \/ requested_stop_ THEN "stop"
                 ELSE IF scheduler.state_ = "CONFSTATION" THEN "reconfigure" ELSE "test"]
  /\ UNCHANGED <<data_write_, lock_buffer, pos, feeder, requested_stop_, held>>

\* Sync and Conf look without the mutex whether a block is there ...
TestStored == /\ scheduler.at = "test"
              /\ GoTo(IF data_write_.data_stored THEN "lock" ELSE "process")
              /\ UNCHANGED <<data_write_, lock_buffer, pos, feeder, requested_stop_, held>>

\* Of the skipped blocks at most one is made up for.  (The loop that should
\* fill the gap writes one float again and again.)
Skipped == data_write_.blocks_skipped % 2

\* ... take the mutex and move the end of the data behind it.
SetNewWritePointer ==
  /\ scheduler.at = "lock"
  /\ lock_buffer = "nobody"
  /\ lock_buffer' = "scheduler"
  /\ IF data_write_.data_stored
     THEN /\ pos' = [pos EXCEPT !.data_write_pos_ = @ + (Skipped + 1) * block_size]
          /\ data_write_' = [data_write_ EXCEPT !.blocks_skipped = 0]
     ELSE UNCHANGED <<pos, data_write_>>
  /\ scheduler' = [scheduler EXCEPT !.at = "process", !.is_locked = TRUE]
  /\ UNCHANGED <<feeder, requested_stop_, held>>

EnoughData == pos.data_write_pos_ > pos.sync_read_pos_ + pos.sync_read_size_

\* The reader moves on.
Advance(floats, size, regular) ==
  /\ regular \/ held.irregular < MaxIrregular
  /\ pos' = [pos EXCEPT !.sync_read_pos_ = @ + floats, !.sync_read_size_ = size]
  /\ held' = [held EXCEPT !.ahead = IF feeder.source = "file" THEN @ - floats ELSE @,
                          !.irregular = @ + (IF regular THEN 0 ELSE 1)]

ModeKnown == pos.sync_read_size_ # first_read_size_

sync_pointer_shift_size_ == 2 * frame_size

\* From the first sample read to where the null symbol was expected.
Offset(null_position) == 2 * null_position - null_size

\* Sync while the transmission mode is not known.
DetectMode ==
  /\ ~ModeKnown
  /\ \/ Advance(first_read_size_, first_read_size_, FALSE)
     \/ \E null_position \in DetectedNulls :
          Advance(Offset(null_position) + sync_pointer_shift_size_,
                  2 * (frame_size + null_size), TRUE)
  /\ UNCHANGED scheduler

\* The state after a read.  Sync goes to CONF when a null symbol was found and
\* the drift has converged, Conf to CONFSTATION when the FIC told of a station.
NextStates(null_quality) ==
  CASE scheduler.method = "SYNC" /\ null_quality = "OK" -> {scheduler.state_, "CONF"}
    [] scheduler.method = "SYNC" /\ null_quality # "OK" -> {scheduler.state_}
    [] scheduler.method = "CONF" /\ null_quality = "OK" -> {"CONFSTATION", "SYNC"}
    [] OTHER -> {"SYNC"}

\* A read that is followed by a shift, in Sync and in Conf.
Follow(feedback) ==
  /\ ModeKnown
  /\ LET correction == Offset(feedback.null_position)
         shift == IF \/ feedback.null_quality = "NOT_DETECTED"
                     \/ feedback.null_quality = "OK" /\ pos.sync_read_pos_ + correction <= 0
                  THEN 0 ELSE correction
     IN Advance(shift + sync_pointer_shift_size_, pos.sync_read_size_, feedback = Exact)
  /\ \E state \in NextStates(feedback.null_quality) :
       scheduler' = [scheduler EXCEPT !.state_ = state]

Synchronize ==
  /\ scheduler.at = "process"
  /\ EnoughData
  /\ DetectMode \/ \E feedback \in Feedbacks : Follow(feedback)
  /\ UNCHANGED <<data_write_, lock_buffer, feeder, requested_stop_>>

\* CalculateNewBufferPosition: what is left is copied to the front when it, or
\* the next block, would not fit behind it.  (A branch for readers with more
\* than sync_read_size_ to read is never taken: Sync and Conf read it first.)
Fits == pos.data_write_pos_ + (data_write_.blocks_skipped + 1) * block_size
          <= sync_feeder_buffer_size_

ReadEnd == pos.sync_read_pos_ + pos.sync_read_size_

CopiesToFront ==
  \/ /\ Fits
     /\ ReadEnd > sync_feeder_buffer_size_ /\ pos.data_write_pos_ > pos.sync_read_pos_
  \/ /\ ~Fits /\ pos.data_write_pos_ <= sync_feeder_buffer_size_
     /\ ReadEnd # pos.data_write_pos_ /\ pos.data_write_pos_ > pos.sync_read_pos_
  \/ ~Fits /\ pos.data_write_pos_ > sync_feeder_buffer_size_

\* Nothing is left: the feeder begins at the front, the reader as far from it.
StartsAtFront ==
  /\ ~Fits /\ pos.data_write_pos_ <= sync_feeder_buffer_size_
  /\ ReadEnd > sync_feeder_buffer_size_ /\ pos.sync_read_pos_ >= pos.data_write_pos_

CopySize == (IF pos.data_write_pos_ > sync_feeder_buffer_size_
             THEN sync_feeder_buffer_size_ ELSE pos.data_write_pos_) - pos.sync_read_pos_

\* The positions move by n, and of the samples behind n as many as are copied.
MovedBy(n, copied) ==
  /\ pos' = [pos EXCEPT !.data_write_pos_ = @ - n, !.sync_read_pos_ = @ - n]
  /\ held' = [held EXCEPT !.from = IF @ > n THEN @ - n ELSE 0,
                          !.to = IF @ > n + copied THEN copied ELSE IF @ > n THEN @ - n ELSE 0]

\* Faulty variant: the feeder is not woken.
NotSignalled == feeder

\* pthread_cond_signal(&data_write_pointer_cond_)
Signalled == [feeder EXCEPT !.at = IF @ = "waiting" THEN "relock" ELSE @]

CalculateNewBufferPosition ==
  /\ scheduler.at = "process"
  /\ ~EnoughData /\ scheduler.is_locked
  /\ IF CopiesToFront /\ CopySize < 0
     THEN GoTo("crashed") /\ UNCHANGED <<pos, held>>
     ELSE /\ scheduler' = [scheduler EXCEPT !.at = "loop", !.is_locked = FALSE]
          /\ IF CopiesToFront THEN MovedBy(pos.sync_read_pos_, CopySize)
             ELSE IF StartsAtFront THEN MovedBy(pos.data_write_pos_, 0)
             ELSE UNCHANGED <<pos, held>>
  /\ data_write_' = [data_write_ EXCEPT !.write_ready = TRUE, !.data_stored = FALSE]
  /\ feeder' = Signalled
  /\ lock_buffer' = "nobody"
  /\ UNCHANGED requested_stop_

NothingStored ==
  /\ scheduler.at = "process"
  /\ ~EnoughData /\ ~scheduler.is_locked
  /\ GoTo("loop")
  /\ UNCHANGED <<data_write_, lock_buffer, pos, feeder, requested_stop_, held>>

\* Stop, without the mutex: the flag, the signal, the end of the thread.
Stop == /\ scheduler.at = "stop"
        /\ data_write_' = [data_write_ EXCEPT !.finish_rtl_process = TRUE]
        /\ GoTo("signal")
        /\ UNCHANGED <<lock_buffer, pos, feeder, requested_stop_, held>>

StopSignal == /\ scheduler.at = "signal"
              /\ feeder' = Signalled
              /\ GoTo("join")
              /\ UNCHANGED <<data_write_, lock_buffer, pos, requested_stop_, held>>

Join == /\ scheduler.at = "join"
        /\ feeder.at = "exited"
        /\ GoTo("stopped")
        /\ UNCHANGED <<data_write_, lock_buffer, pos, feeder, requested_stop_, held>>

Scheduler == \/ Start \/ Process \/ TestStored \/ SetNewWritePointer \/ Synchronize
             \/ CalculateNewBufferPosition \/ NothingStored
             \/ Stop \/ StopSignal \/ Join

-----------------------------------------------------------------------------
(* The data feeder's thread *)

FeederGoTo(place) == feeder' = [feeder EXCEPT !.at = place]

StartProcessing ==
  /\ feeder.at = "new"
  /\ feeder' = [feeder EXCEPT !.running = TRUE,
                              !.at = IF @ = "new" /\ feeder.source = "file" THEN "lock" ELSE "idle"]
  /\ UNCHANGED <<data_write_, lock_buffer, pos, scheduler, requested_stop_, held>>

\* After ReadAsync: whoever holds the mutex, it is unlocked.
EndProcessing ==
  /\ feeder.at = "exit"
  /\ lock_buffer' = "nobody"
  /\ feeder' = [feeder EXCEPT !.running = FALSE, !.at = "exited"]
  /\ UNCHANGED <<data_write_, pos, scheduler, requested_stop_, held>>

\* A block is written where the scheduler wants it and the scheduler is told.
StoreBlock(at) ==
  LET here == pos.data_write_pos_
  IN IF feeder.source = "file"
     THEN /\ held' = [held EXCEPT !.from = IF held.to = here THEN @ ELSE here,
                                  !.to = here + block_size, !.ahead = @ + block_size]
          /\ FeederGoTo(at)
     ELSE /\ feeder' = [feeder EXCEPT !.at = at, !.previous_write_here = here]
          /\ UNCHANGED held

(* From a file *)

LockBuffer == /\ feeder.at \in {"lock", "relock"}
              /\ lock_buffer = "nobody"
              /\ lock_buffer' = "feeder"
              /\ FeederGoTo(IF feeder.at = "lock" THEN "test" ELSE "retest")
              /\ UNCHANGED <<data_write_, pos, scheduler, requested_stop_, held>>

\* Faulty variant: the feeder does not wait for write_ready.
TestFinishOnly ==
  /\ feeder.at \in {"test", "retest"}
  /\ FeederGoTo("go")
  /\ UNCHANGED <<data_write_, lock_buffer, pos, scheduler, requested_stop_, held>>

TestWriteReady ==
  /\ feeder.at \in {"test", "retest"}
  /\ FeederGoTo(IF /\ feeder.at = "retest" \/ data_write_.data_stored
                   /\ ~data_write_.write_ready /\ ~data_write_.finish_rtl_process
                THEN "wait" ELSE "go")
  /\ UNCHANGED <<data_write_, lock_buffer, pos, scheduler, requested_stop_, held>>

Wait == /\ feeder.at = "wait"
        /\ lock_buffer' = "nobody"
        /\ FeederGoTo("waiting")
        /\ UNCHANGED <<data_write_, pos, scheduler, requested_stop_, held>>

SpuriousWakeup ==
  /\ feeder.at = "waiting"
  /\ FeederGoTo("relock")
  /\ UNCHANGED <<data_write_, lock_buffer, pos, scheduler, requested_stop_, held>>

\* The feeder leaves with the mutex held.
FileFinish == /\ feeder.at = "go" /\ data_write_.finish_rtl_process
              /\ data_write_' = [data_write_ EXCEPT !.write_ready = FALSE]
              /\ FeederGoTo("exit")
              /\ UNCHANGED <<lock_buffer, pos, scheduler, requested_stop_, held>>

WriteResampledOut ==
  /\ feeder.at = "go" /\ ~data_write_.finish_rtl_process
  /\ data_write_' = [data_write_ EXCEPT !.write_ready = FALSE, !.data_stored = TRUE]
  /\ StoreBlock("lock")
  /\ lock_buffer' = "nobody"
  /\ UNCHANGED <<pos, scheduler, requested_stop_>>

\* Resampling has left less than a block.
NotEnoughResampled ==
  /\ feeder.at = "go" /\ ~data_write_.finish_rtl_process
  /\ held.irregular < MaxIrregular
  /\ held' = [held EXCEPT !.irregular = @ + 1]
  /\ data_write_' = [data_write_ EXCEPT !.write_ready = FALSE, !.data_stored = FALSE]
  /\ FeederGoTo("lock")
  /\ lock_buffer' = "nobody"
  /\ UNCHANGED <<pos, scheduler, requested_stop_>>

FileEnds ==
  /\ feeder.at = "go" /\ ~data_write_.finish_rtl_process
  /\ data_write_' = [data_write_ EXCEPT !.write_ready = FALSE, !.data_stored = TRUE]
  /\ feeder' = [feeder EXCEPT !.running = FALSE, !.at = "exit"]
  /\ lock_buffer' = "nobody"
  /\ UNCHANGED <<pos, scheduler, requested_stop_, held>>

FileFeeder == LockBuffer \/ TestWriteReady \/ Wait \/ FileFinish \/ WriteResampledOut

(* From the radio *)

AsyncCallback ==
  /\ feeder.at = "idle"
  /\ FeederGoTo(IF data_write_.finish_rtl_process THEN "exit" ELSE "timedlock")
  /\ UNCHANGED <<data_write_, lock_buffer, pos, scheduler, requested_stop_, held>>

\* The mutex is there: the block is stored, or skipped if it would overwrite
\* the one before.
RadioLocked ==
  /\ feeder.at = "timedlock"
  /\ lock_buffer = "nobody"
  /\ IF data_write_.finish_rtl_process
     THEN /\ lock_buffer' = "feeder" /\ FeederGoTo("exit")
          /\ UNCHANGED <<data_write_, held>>
     ELSE /\ UNCHANGED lock_buffer
          /\ IF feeder.previous_write_here # pos.data_write_pos_
             THEN /\ StoreBlock("idle")
                  /\ data_write_' = [data_write_ EXCEPT !.data_stored = TRUE]
             ELSE /\ data_write_.blocks_skipped < MaxSkipped
                  /\ data_write_' = [data_write_ EXCEPT !.blocks_skipped = @ + 1]
                  /\ FeederGoTo("idle") /\ UNCHANGED held
  /\ UNCHANGED <<pos, scheduler, requested_stop_>>

\* The mutex is not there in time: the block is skipped, and counted without it.
RadioTimeout == /\ feeder.at = "timedlock"
                /\ lock_buffer # "nobody"
                /\ data_write_.blocks_skipped < MaxSkipped
                /\ feeder' = [feeder EXCEPT !.at = "skip", !.seen = data_write_.blocks_skipped]
                /\ UNCHANGED <<data_write_, lock_buffer, pos, scheduler, requested_stop_, held>>

RadioSkip == /\ feeder.at = "skip"
             /\ data_write_' = [data_write_ EXCEPT !.blocks_skipped = feeder.seen + 1]
             /\ feeder' = [feeder EXCEPT !.at = "idle", !.seen = 0]
             /\ UNCHANGED <<lock_buffer, pos, scheduler, requested_stop_, held>>

\* rtlsdr_read_async returns when the device is gone.
Unplugged == /\ feeder.at = "idle"
             /\ FeederGoTo("exit")
             /\ UNCHANGED <<data_write_, lock_buffer, pos, scheduler, requested_stop_, held>>

Radio == AsyncCallback \/ RadioLocked \/ RadioTimeout \/ RadioSkip

Feeder == \/ StartProcessing \/ EndProcessing
          \/ FileFeeder \/ NotEnoughResampled \/ FileEnds
          \/ Radio \/ Unplugged

\* Scheduler::Stop(void), in another thread.
AskStop == /\ feeder.source \in UserStops /\ ~requested_stop_
           /\ requested_stop_' = TRUE
           /\ UNCHANGED <<data_write_, lock_buffer, pos, scheduler, feeder, held>>

Next == Scheduler \/ Feeder \/ SpuriousWakeup \/ AskStop

Spec == Init /\ [][Next]_vars

\* The threads run, the radio delivers, and a thread that finds the mutex free
\* again and again gets it; the file need not end.
FairSpec == /\ Spec
            /\ WF_vars(Scheduler) /\ SF_vars(SetNewWritePointer)
            /\ WF_vars(StartProcessing \/ EndProcessing \/ FileFeeder)
            /\ WF_vars(Radio)

-----------------------------------------------------------------------------
(* Properties *)

\* From a file, the synchronizer reads the input without a gap: all it reads
\* is stored, in one piece, and begins where the last shift has put it, over
\* all the copies to the front and restarts there (scheduler.cc:293-606,
\* 1277-1376) -- until the file has ended.
ReadsStream ==
  feeder.source = "file" /\ feeder.at \notin {"exit", "exited"}
  /\ scheduler.at = "process" /\ EnoughData =>
    /\ held.from <= pos.sync_read_pos_ /\ ReadEnd <= held.to
    /\ held.to - pos.sync_read_pos_ = held.ahead

\* From a file, what is copied to the front lies inside the buffer and does not
\* overlap its copy, as memcpy requires (scheduler.cc:1286, 1313, 1354).
CopiesAreSafe ==
  feeder.source = "file" /\ scheduler.at = "process" /\ scheduler.is_locked /\ ~EnoughData
  /\ CopiesToFront =>
    /\ CopySize \in 0 .. pos.sync_read_pos_
    /\ pos.sync_read_pos_ + CopySize <= sync_feeder_buffer_size_

\* Both: no shift, copy or restart loses samples or reads any that are not there.
StreamInOnePiece == ReadsStream /\ CopiesAreSafe

\* The block that the file feeder is about to store fits into the buffer
\* (scheduler.cc:1363 "probably forgot about some case").
BlockFits ==
  feeder.at = "go" /\ ~data_write_.finish_rtl_process
    => pos.data_write_pos_ + block_size <= sync_feeder_buffer_size_

Left == scheduler.at \in {"reconfigure", "stop", "signal", "join", "stopped", "crashed"}

\* The feeder and the scheduler never wait for each other for good, nor does
\* the radio see the same place for ever: the synchronizer runs again and again
\* until the states SYNC and CONF are left (rtl_data_feeder.cc:66,
\* file_data_feeder.cc:92-96).  Only a feeder that ends before Start has seen
\* it running leaves the scheduler where it is.
KeepsSynchronizing == []<><<Synchronize>>_vars \/ <>Left \/ <>[](scheduler.at = "start")

\* A feeder that ends, because of its file or its device, ends the program
\* too, whoever holds the mutex at that moment (scheduler.cc:1484-1487,
\* abstract_data_feeder.cc:51-53).
EndNoticed ==
  feeder.at = "exited" /\ scheduler.at # "start"
    ~> scheduler.at \in {"reconfigure", "stopped", "crashed"}

\* Stop comes back (scheduler.cc:1614-1631).
StopReturns == scheduler.at = "stop" ~> scheduler.at = "stopped"
=============================================================================
