------------------------- MODULE AcquisitionProofs -------------------------
(* What is proved about the acquisition of the signal from a file, for every  *)
(* size of the blocks, the buffer and the frames, and whatever the            *)
(* synchronizer finds.                                                        *)
EXTENDS Acquisition, TLAPS

-----------------------------------------------------------------------------
(* The types *)

FilePlaces == {"new", "lock", "relock", "test", "retest", "wait", "waiting", "go",
               "exit", "exited"}
FeederPlaces == FilePlaces \cup {"idle", "timedlock", "skip"}
SchedulerPlaces == {"start", "loop", "reconfigure", "test", "lock", "process", "stop",
                    "signal", "join", "stopped", "crashed"}
States == {"SYNC", "CONF", "CONFSTATION"}

Flags == [data_stored : BOOLEAN, write_ready : BOOLEAN, blocks_skipped : Nat,
          finish_rtl_process : BOOLEAN]
Moves == [data_write_pos_ : Int, sync_read_pos_ : Int, sync_read_size_ : Int]
Schedulers == [at : SchedulerPlaces, state_ : States, method : States,
               is_locked : BOOLEAN, program_end_delay_ : Nat]
Feeders == [source : {"file", "radio"}, at : FeederPlaces, running : BOOLEAN,
            previous_write_here : Int, seen : Nat]
History == [from : Int, to : Int, ahead : Int, irregular : Nat]

TypeOK ==
  /\ data_write_ \in Flags
  /\ lock_buffer \in {"nobody", "scheduler", "feeder"}
  /\ pos \in Moves
  /\ scheduler \in Schedulers
  /\ feeder \in Feeders
  /\ requested_stop_ \in BOOLEAN
  /\ held \in History

\* The constants' types.
LEMMA SizesTyped ==
  /\ block_size \in Nat /\ block_size > 0
  /\ sync_feeder_buffer_size_ \in Nat /\ sync_feeder_buffer_size_ > 0
  /\ first_read_size_ \in Nat /\ first_read_size_ > 0
  /\ frame_size \in Nat /\ frame_size > 0
  /\ null_size \in Nat /\ null_size > 0
  BY SizeAssumption DEF SizeAssumption

\* A product of integers is one.
LEMMA ProductTyped == \A a, b \in Int : a * b \in Int
  OBVIOUS

\* The scheduler's next state is one of the three.
LEMMA NextStatesTyped ==
  ASSUME TypeOK, NEW quality PROVE NextStates(quality) \subseteq States
<1>1. scheduler.state_ \in States
  BY DEF TypeOK, Schedulers
<1>2. {scheduler.state_, "CONF"} \subseteq States /\ {scheduler.state_} \subseteq States
      /\ {"CONFSTATION", "SYNC"} \subseteq States /\ {"SYNC"} \subseteq States
  BY <1>1 DEF States
<1> QED
  BY <1>2, Zenon DEF NextStates

\* The types hold at the start.
LEMMA TypesBegin == Init => TypeOK
<1> SUFFICES ASSUME Init PROVE TypeOK
  OBVIOUS
<1>1. PICK source \in Sources :
        feeder = [source |-> source, at |-> "new", running |-> FALSE,
                  previous_write_here |-> Nowhere, seen |-> 0]
  BY DEF Init
<1>2. source \in {"file", "radio"}
  BY <1>1, SourceAssumption DEF SourceAssumption
<1>3. feeder \in Feeders
  BY <1>1, <1>2 DEF Feeders, FeederPlaces, FilePlaces, Nowhere
<1>4. data_write_ \in Flags
  BY DEF Init, Flags
<1>5. pos \in Moves /\ held \in History
  BY SizesTyped DEF Init, Moves, History
<1>6. scheduler \in Schedulers
  BY DEF Init, Schedulers, SchedulerPlaces, States
<1>7. lock_buffer \in {"nobody", "scheduler", "feeder"} /\ requested_stop_ \in BOOLEAN
  BY DEF Init
<1> QED
  BY <1>3, <1>4, <1>5, <1>6, <1>7 DEF TypeOK

\* The reader's moves.
LEMMA Advanced ==
  ASSUME TypeOK, NEW floats \in Int, NEW size \in Int, NEW regular \in BOOLEAN,
         Advance(floats, size, regular)
  PROVE  /\ pos' \in Moves /\ held' \in History
         /\ pos'.data_write_pos_ = pos.data_write_pos_
         /\ pos'.sync_read_pos_ = pos.sync_read_pos_ + floats
         /\ pos'.sync_read_size_ = size
         /\ held'.from = held.from /\ held'.to = held.to
         /\ feeder.source = "file" => held'.ahead = held.ahead - floats
<1> DEFINE ahead == IF feeder.source = "file" THEN held.ahead - floats ELSE held.ahead
           irregular == held.irregular + (IF regular THEN 0 ELSE 1)
<1>1. pos \in Moves /\ held \in History
  BY DEF TypeOK
<1>2. pos.sync_read_pos_ + floats \in Int /\ ahead \in Int /\ irregular \in Nat
  BY <1>1 DEF Moves, History
<1>3. /\ pos' = [pos EXCEPT !.sync_read_pos_ = pos.sync_read_pos_ + floats,
                            !.sync_read_size_ = size]
      /\ held' = [held EXCEPT !.ahead = ahead, !.irregular = irregular]
  BY DEF Advance
<1>4. feeder.source = "file" => ahead = held.ahead - floats
  OBVIOUS
<1> HIDE DEF ahead, irregular
<1>5. /\ pos' \in Moves /\ pos'.data_write_pos_ = pos.data_write_pos_
      /\ pos'.sync_read_pos_ = pos.sync_read_pos_ + floats /\ pos'.sync_read_size_ = size
  BY <1>1, <1>2, <1>3 DEF Moves
<1>6. /\ held' \in History /\ held'.from = held.from /\ held'.to = held.to
      /\ held'.ahead = ahead
  BY <1>1, <1>2, <1>3 DEF History
<1> QED
  BY <1>4, <1>5, <1>6

\* The moves of both positions.
LEMMA Moved ==
  ASSUME TypeOK, NEW n \in Int, NEW copied \in Int, MovedBy(n, copied)
  PROVE  /\ pos' \in Moves /\ held' \in History
         /\ pos'.data_write_pos_ = pos.data_write_pos_ - n
         /\ pos'.sync_read_pos_ = pos.sync_read_pos_ - n
         /\ pos'.sync_read_size_ = pos.sync_read_size_
         /\ held'.from = (IF held.from > n THEN held.from - n ELSE 0)
         /\ held'.to = (IF held.to > n + copied THEN copied
                        ELSE IF held.to > n THEN held.to - n ELSE 0)
         /\ held'.ahead = held.ahead
<1> DEFINE from == IF held.from > n THEN held.from - n ELSE 0
           to == IF held.to > n + copied THEN copied ELSE IF held.to > n THEN held.to - n ELSE 0
<1>1. pos \in Moves /\ held \in History
  BY DEF TypeOK
<1>2. /\ pos.data_write_pos_ - n \in Int /\ pos.sync_read_pos_ - n \in Int
      /\ from \in Int /\ to \in Int
  BY <1>1 DEF Moves, History
<1>3. /\ pos' = [pos EXCEPT !.data_write_pos_ = pos.data_write_pos_ - n,
                            !.sync_read_pos_ = pos.sync_read_pos_ - n]
      /\ held' = [held EXCEPT !.from = from, !.to = to]
  BY DEF MovedBy
<1> HIDE DEF from, to
<1>4. /\ pos' \in Moves /\ pos'.data_write_pos_ = pos.data_write_pos_ - n
      /\ pos'.sync_read_pos_ = pos.sync_read_pos_ - n
      /\ pos'.sync_read_size_ = pos.sync_read_size_
  BY <1>1, <1>2, <1>3 DEF Moves
<1>5. /\ held' \in History
      /\ held'.from = from /\ held'.to = to /\ held'.ahead = held.ahead
  BY <1>1, <1>2, <1>3 DEF History
<1> QED
  BY <1>4, <1>5 DEF from, to

\* Every read moves forward: to the next sample that follows the last null symbol.
LEMMA ReaderForward ==
  ASSUME TypeOK, Synchronize
  PROVE  \E floats \in Nat :
           /\ pos' \in Moves /\ held' \in History
           /\ pos'.data_write_pos_ = pos.data_write_pos_
           /\ pos'.sync_read_pos_ = pos.sync_read_pos_ + floats
           /\ \/ pos'.sync_read_size_ = 2 * (frame_size + null_size)
              \/ ~ModeKnown /\ pos'.sync_read_size_ = first_read_size_ /\ floats = first_read_size_
              \/ ModeKnown /\ pos'.sync_read_size_ = pos.sync_read_size_
           /\ held'.from = held.from /\ held'.to = held.to
           /\ feeder.source = "file" => held'.ahead = held.ahead - floats
           /\ scheduler' \in Schedulers /\ scheduler'.at = scheduler.at
           /\ (scheduler'.is_locked <=> scheduler.is_locked)
<1>1. null_size < 2 * frame_size
  BY SizeAssumption DEF SizeAssumption
<1>2. scheduler \in Schedulers /\ pos.sync_read_size_ \in Int
  BY DEF TypeOK, Moves
<1>3. CASE ~ModeKnown /\ UNCHANGED scheduler /\ Advance(first_read_size_, first_read_size_, FALSE)
  <2> DEFINE regular == FALSE
  <2>1. Advance(first_read_size_, first_read_size_, regular) /\ regular \in BOOLEAN
    BY <1>3
  <2> HIDE DEF regular
  <2> QED
    BY <1>2, <1>3, <2>1, SizesTyped, Advanced
<1>4. ASSUME NEW null_position \in DetectedNulls, UNCHANGED scheduler,
             Advance(Offset(null_position) + sync_pointer_shift_size_,
                     2 * (frame_size + null_size), TRUE)
      PROVE  \E floats \in Nat :
           /\ pos' \in Moves /\ held' \in History
           /\ pos'.data_write_pos_ = pos.data_write_pos_
           /\ pos'.sync_read_pos_ = pos.sync_read_pos_ + floats
           /\ pos'.sync_read_size_ = 2 * (frame_size + null_size)
           /\ held'.from = held.from /\ held'.to = held.to
           /\ feeder.source = "file" => held'.ahead = held.ahead - floats
  <2>1. null_position \in Nat
    BY SizeAssumption DEF SizeAssumption
  <2> DEFINE floats == Offset(null_position) + sync_pointer_shift_size_
  <2>2. floats \in Nat /\ 2 * (frame_size + null_size) \in Int
    BY <2>1, <1>1, SizesTyped DEF Offset, sync_pointer_shift_size_
  <2> DEFINE regular == TRUE
  <2>3. Advance(floats, 2 * (frame_size + null_size), regular) /\ regular \in BOOLEAN
    BY <1>4
  <2> HIDE DEF floats, regular
  <2> QED
    BY <2>2, <2>3, Advanced
<1>5. ASSUME NEW feedback \in Feedbacks, Follow(feedback)
      PROVE  \E floats \in Nat :
           /\ pos' \in Moves /\ held' \in History
           /\ pos'.data_write_pos_ = pos.data_write_pos_
           /\ pos'.sync_read_pos_ = pos.sync_read_pos_ + floats
           /\ ModeKnown /\ pos'.sync_read_size_ = pos.sync_read_size_
           /\ held'.from = held.from /\ held'.to = held.to
           /\ feeder.source = "file" => held'.ahead = held.ahead - floats
           /\ scheduler' \in Schedulers /\ scheduler'.at = scheduler.at
           /\ (scheduler'.is_locked <=> scheduler.is_locked)
  <2>1. feedback.null_position \in Nat
    BY FeedbackAssumption DEF FeedbackAssumption
  <2> DEFINE correction == Offset(feedback.null_position)
             shift == IF \/ feedback.null_quality = "NOT_DETECTED"
                         \/ feedback.null_quality = "OK" /\ pos.sync_read_pos_ + correction <= 0
                      THEN 0 ELSE correction
             floats == shift + sync_pointer_shift_size_
             regular == feedback = Exact
  <2>2. correction \in Int /\ correction >= -null_size
    BY <2>1, SizesTyped DEF Offset
  <2>3. floats \in Nat
    <3> HIDE DEF correction
    <3> QED
      BY <2>2, <1>1, SizesTyped DEF sync_pointer_shift_size_
  <2>4. Advance(floats, pos.sync_read_size_, regular) /\ ModeKnown
    BY <1>5 DEF Follow
  <2>5. regular \in BOOLEAN
    OBVIOUS
  <2>6. PICK state \in NextStates(feedback.null_quality) :
          scheduler' = [scheduler EXCEPT !.state_ = state]
    BY <1>5 DEF Follow
  <2>7. state \in States
    BY <2>6, NextStatesTyped
  <2> HIDE DEF floats, regular
  <2>8. /\ scheduler' \in Schedulers /\ scheduler'.at = scheduler.at
        /\ (scheduler'.is_locked <=> scheduler.is_locked)
    BY <2>6, <2>7, <1>2 DEF Schedulers
  <2> QED
    BY <2>3, <2>4, <2>5, <2>8, <1>2, Advanced
<1>6. CASE DetectMode
  BY <1>6, <1>2, <1>3, <1>4 DEF DetectMode
<1> QED
  BY <1>5, <1>6 DEF Synchronize

\* The places, and the numbers that the assignments need.
LEMMA Parts ==
  ASSUME TypeOK
  PROVE  /\ data_write_ \in Flags /\ pos \in Moves /\ scheduler \in Schedulers
         /\ feeder \in Feeders /\ held \in History
         /\ data_write_.blocks_skipped \in Nat
         /\ pos.data_write_pos_ \in Int /\ pos.sync_read_pos_ \in Int
         /\ pos.sync_read_size_ \in Int
         /\ scheduler.at \in SchedulerPlaces /\ scheduler.state_ \in States
         /\ scheduler.program_end_delay_ \in Nat
         /\ feeder.at \in FeederPlaces /\ feeder.seen \in Nat
         /\ held.from \in Int /\ held.to \in Int /\ held.ahead \in Int
         /\ held.irregular \in Nat
  BY DEF TypeOK, Flags, Moves, Schedulers, Feeders, History

\* One side goes on, the other stays where it is.
LEMMA SchedulerGone ==
  ASSUME TypeOK, NEW place, GoTo(place), place \in SchedulerPlaces
  PROVE  /\ scheduler' \in Schedulers /\ scheduler'.at = place
         /\ (scheduler'.is_locked <=> scheduler.is_locked)
  BY DEF TypeOK, Schedulers, GoTo

LEMMA FeederGone ==
  ASSUME TypeOK, NEW place, FeederGoTo(place), place \in FeederPlaces
  PROVE  feeder' \in Feeders /\ feeder'.at = place /\ feeder'.source = feeder.source
  BY DEF TypeOK, Feeders, FeederGoTo

\* A feeder that waits is woken.
LEMMA FeederSignalled ==
  ASSUME TypeOK, feeder' = Signalled
  PROVE  /\ feeder' \in Feeders /\ feeder'.source = feeder.source
         /\ feeder'.at = (IF feeder.at = "waiting" THEN "relock" ELSE feeder.at)
<1> DEFINE place == IF feeder.at = "waiting" THEN "relock" ELSE feeder.at
<1>1. place \in FeederPlaces
  BY Parts DEF FeederPlaces, FilePlaces
<1>2. FeederGoTo(place)
  BY DEF FeederGoTo, Signalled
<1> HIDE DEF place
<1>3. feeder' \in Feeders /\ feeder'.at = place /\ feeder'.source = feeder.source
  BY <1>1, <1>2, FeederGone
<1> QED
  BY <1>3 DEF place

\* Every step of the scheduler keeps the types.
LEMMA SchedulerTyped ==
  ASSUME TypeOK, Scheduler PROVE TypeOK'
<1> USE Parts
<1>1. CASE Start \/ Join
  <2>1. scheduler' \in Schedulers
    BY <1>1, SchedulerGone DEF Start, Join, SchedulerPlaces
  <2> QED
    BY <1>1, <2>1 DEF Start, Join, TypeOK
<1>2. CASE Process
  <2> DEFINE delay == scheduler.program_end_delay_ + (IF feeder.running THEN 0 ELSE 1)
             place == IF delay >= 2 \/ requested_stop_ THEN "stop"
                      ELSE IF scheduler.state_ = "CONFSTATION" THEN "reconfigure" ELSE "test"
  <2>1. (IF feeder.running THEN 0 ELSE 1) \in {0, 1}
    OBVIOUS
  <2>2. delay \in Nat
    BY <2>1
  <2>3. place \in SchedulerPlaces
    BY DEF SchedulerPlaces
  <2>4. scheduler' = [scheduler EXCEPT !.program_end_delay_ = delay,
                        !.method = scheduler.state_, !.at = place]
    BY <1>2 DEF Process
  <2> HIDE DEF delay, place
  <2>5. scheduler' \in Schedulers
    BY <2>2, <2>3, <2>4 DEF Schedulers
  <2> QED
    BY <1>2, <2>5 DEF Process, TypeOK
<1>3. CASE TestStored \/ NothingStored
  <2>1. scheduler' \in Schedulers
    BY <1>3, SchedulerGone DEF TestStored, NothingStored, SchedulerPlaces
  <2> QED
    BY <1>3, <2>1 DEF TestStored, NothingStored, TypeOK
<1>4. CASE SetNewWritePointer
  <2>1. Skipped \in Int
    BY DEF Skipped
  <2> DEFINE a == pos.data_write_pos_ + (Skipped + 1) * block_size
  <2>2. a \in Int
    BY <2>1, ProductTyped, SizesTyped
  <2>3. pos' = [pos EXCEPT !.data_write_pos_ = a] \/ pos' = pos
    BY <1>4 DEF SetNewWritePointer
  <2>4. data_write_' = [data_write_ EXCEPT !.blocks_skipped = 0] \/ data_write_' = data_write_
    BY <1>4 DEF SetNewWritePointer
  <2> HIDE DEF a
  <2>5. pos' \in Moves
    BY <2>2, <2>3 DEF Moves
  <2>6. data_write_' \in Flags
    BY <2>4 DEF Flags
  <2>7. scheduler' \in Schedulers
    BY <1>4 DEF SetNewWritePointer, Schedulers, SchedulerPlaces
  <2> QED
    BY <1>4, <2>5, <2>6, <2>7 DEF SetNewWritePointer, TypeOK
<1>5. CASE Synchronize
  BY <1>5, ReaderForward DEF Synchronize, TypeOK
<1>6. CASE CalculateNewBufferPosition
  <2>1. CopySize \in Int
    BY SizesTyped DEF CopySize
  <2>2. pos' \in Moves /\ held' \in History
    <3>1. CASE MovedBy(pos.sync_read_pos_, CopySize) \/ MovedBy(pos.data_write_pos_, 0)
      BY <3>1, <2>1, Moved
    <3>2. CASE UNCHANGED <<pos, held>>
      BY <3>2
    <3> QED
      BY <1>6, <3>1, <3>2 DEF CalculateNewBufferPosition
  <2>3. \/ GoTo("crashed")
        \/ scheduler' = [scheduler EXCEPT !.at = "loop", !.is_locked = FALSE]
    BY <1>6 DEF CalculateNewBufferPosition
  <2>4. scheduler' \in Schedulers
    BY <2>3, SchedulerGone DEF Schedulers, SchedulerPlaces
  <2>5. feeder' \in Feeders
    BY <1>6, FeederSignalled DEF CalculateNewBufferPosition
  <2>6. data_write_' \in Flags
    BY <1>6 DEF CalculateNewBufferPosition, Flags
  <2> QED
    BY <1>6, <2>2, <2>4, <2>5, <2>6 DEF CalculateNewBufferPosition, TypeOK
<1>7. CASE Stop \/ StopSignal
  <2>1. scheduler' \in Schedulers
    BY <1>7, SchedulerGone DEF Stop, StopSignal, SchedulerPlaces
  <2>2. data_write_' \in Flags
    BY <1>7 DEF Stop, StopSignal, Flags
  <2>3. feeder' \in Feeders
    BY <1>7, FeederSignalled DEF Stop, StopSignal
  <2> QED
    BY <1>7, <2>1, <2>2, <2>3 DEF Stop, StopSignal, TypeOK
<1> QED
  BY <1>1, <1>2, <1>3, <1>4, <1>5, <1>6, <1>7 DEF Scheduler

\* A block is stored.
LEMMA BlockStored ==
  ASSUME TypeOK, NEW place \in FeederPlaces, StoreBlock(place)
  PROVE  /\ feeder' \in Feeders /\ feeder'.at = place /\ feeder'.source = feeder.source
         /\ held' \in History
         /\ feeder.source = "file" =>
              /\ held'.from = (IF held.to = pos.data_write_pos_ THEN held.from
                               ELSE pos.data_write_pos_)
              /\ held'.to = pos.data_write_pos_ + block_size
              /\ held'.ahead = held.ahead + block_size
<1> DEFINE from == IF held.to = pos.data_write_pos_ THEN held.from ELSE pos.data_write_pos_
<1>1. /\ from \in Int /\ pos.data_write_pos_ + block_size \in Int
      /\ held.ahead + block_size \in Int
  BY Parts, SizesTyped
<1>2. CASE feeder.source = "file"
  <2>1. held' = [held EXCEPT !.from = from, !.to = pos.data_write_pos_ + block_size,
                             !.ahead = held.ahead + block_size]
        /\ feeder' = [feeder EXCEPT !.at = place]
    BY <1>2 DEF StoreBlock, FeederGoTo
  <2> HIDE DEF from
  <2>2. feeder' \in Feeders /\ feeder'.at = place /\ feeder'.source = feeder.source
    BY <2>1, Parts DEF Feeders
  <2>3. held \in History
    BY Parts
  <2>4. /\ held' \in History /\ held'.from = from
        /\ held'.to = pos.data_write_pos_ + block_size
        /\ held'.ahead = held.ahead + block_size
    BY <1>1, <2>1, <2>3 DEF History
  <2> QED
    BY <2>2, <2>4 DEF from
<1>3. CASE feeder.source # "file"
  BY <1>3, Parts DEF StoreBlock, Feeders
<1> QED
  BY <1>2, <1>3

\* Every step of the feeder keeps the types.
LEMMA FeederTyped ==
  ASSUME TypeOK, Feeder \/ SpuriousWakeup \/ AskStop PROVE TypeOK'
<1> USE Parts
<1>1. CASE StartProcessing \/ EndProcessing \/ SpuriousWakeup \/ AskStop
  <2>1. feeder' \in Feeders
    <3>1. CASE StartProcessing
      BY <3>1 DEF StartProcessing, Feeders, FeederPlaces, FilePlaces
    <3>2. CASE EndProcessing
      BY <3>2 DEF EndProcessing, Feeders, FeederPlaces, FilePlaces
    <3>3. CASE SpuriousWakeup
      BY <3>3, FeederGone DEF SpuriousWakeup, FeederPlaces, FilePlaces
    <3> QED
      BY <1>1, <3>1, <3>2, <3>3 DEF AskStop
  <2> QED
    BY <1>1, <2>1 DEF StartProcessing, EndProcessing, SpuriousWakeup, AskStop, TypeOK
<1>2. CASE LockBuffer \/ TestWriteReady \/ Wait
  <2>1. \E place \in FeederPlaces : FeederGoTo(place)
    BY <1>2 DEF LockBuffer, TestWriteReady, Wait, FeederPlaces, FilePlaces
  <2>2. feeder' \in Feeders
    BY <2>1, FeederGone
  <2> QED
    BY <1>2, <2>2 DEF LockBuffer, TestWriteReady, Wait, TypeOK
<1>3. CASE FileFinish \/ NotEnoughResampled
  <2>1. \E place \in FeederPlaces : FeederGoTo(place)
    BY <1>3 DEF FileFinish, NotEnoughResampled, FeederPlaces, FilePlaces
  <2>2. feeder' \in Feeders
    BY <2>1, FeederGone
  <2>3. data_write_' \in Flags
    BY <1>3 DEF FileFinish, NotEnoughResampled, Flags
  <2>4. held' \in History
    BY <1>3 DEF FileFinish, NotEnoughResampled, History
  <2> QED
    BY <1>3, <2>2, <2>3, <2>4 DEF FileFinish, NotEnoughResampled, TypeOK
<1>4. CASE WriteResampledOut
  <2>1. data_write_' \in Flags
    BY <1>4 DEF WriteResampledOut, Flags
  <2>2. feeder' \in Feeders /\ held' \in History
    BY <1>4, BlockStored DEF WriteResampledOut, FeederPlaces, FilePlaces
  <2> QED
    BY <1>4, <2>1, <2>2 DEF WriteResampledOut, TypeOK
<1>5. CASE FileEnds
  <2>1. data_write_' \in Flags
    BY <1>5 DEF FileEnds, Flags
  <2>2. feeder' \in Feeders
    BY <1>5 DEF FileEnds, Feeders, FeederPlaces, FilePlaces
  <2> QED
    BY <1>5, <2>1, <2>2 DEF FileEnds, TypeOK
<1>6. CASE AsyncCallback \/ Unplugged
  <2>1. \E place \in FeederPlaces : FeederGoTo(place)
    BY <1>6 DEF AsyncCallback, Unplugged, FeederPlaces, FilePlaces
  <2>2. feeder' \in Feeders
    BY <2>1, FeederGone
  <2> QED
    BY <1>6, <2>2 DEF AsyncCallback, Unplugged, TypeOK
<1>7. CASE RadioLocked
  <2>1. \/ data_write_' = data_write_
        \/ data_write_' = [data_write_ EXCEPT !.data_stored = TRUE]
        \/ data_write_' = [data_write_ EXCEPT !.blocks_skipped = @ + 1]
    BY <1>7 DEF RadioLocked
  <2>2. data_write_' \in Flags
    <3>1. CASE data_write_' = [data_write_ EXCEPT !.data_stored = TRUE]
      BY <3>1 DEF Flags
    <3>2. CASE data_write_' = [data_write_ EXCEPT !.blocks_skipped = @ + 1]
      BY <3>2 DEF Flags
    <3> QED
      BY <2>1, <3>1, <3>2
  <2>3. \/ StoreBlock("idle")
        \/ UNCHANGED held /\ FeederGoTo("exit")
        \/ UNCHANGED held /\ FeederGoTo("idle")
    <3>1. CASE data_write_.finish_rtl_process
      BY <1>7, <3>1 DEF RadioLocked
    <3>2. CASE ~data_write_.finish_rtl_process
      BY <1>7, <3>2 DEF RadioLocked
    <3> QED
      BY <3>1, <3>2
  <2>4. {"idle", "exit"} \subseteq FeederPlaces
    BY DEF FeederPlaces, FilePlaces
  <2>5. feeder' \in Feeders /\ held' \in History
    BY <2>3, <2>4, BlockStored, FeederGone
  <2> QED
    BY <1>7, <2>2, <2>5 DEF RadioLocked, TypeOK
<1>8. CASE RadioTimeout \/ RadioSkip
  <2>1. \/ data_write_' = data_write_
        \/ data_write_' = [data_write_ EXCEPT !.blocks_skipped = feeder.seen + 1]
    BY <1>8 DEF RadioTimeout, RadioSkip
  <2>2. data_write_' \in Flags
    BY <2>1 DEF Flags
  <2>3. \/ feeder' = [feeder EXCEPT !.at = "skip", !.seen = data_write_.blocks_skipped]
        \/ feeder' = [feeder EXCEPT !.at = "idle", !.seen = 0]
    BY <1>8 DEF RadioTimeout, RadioSkip
  <2>4. feeder' \in Feeders
    <3>1. CASE feeder' = [feeder EXCEPT !.at = "skip", !.seen = data_write_.blocks_skipped]
      BY <3>1 DEF Feeders, FeederPlaces, FilePlaces
    <3>2. CASE feeder' = [feeder EXCEPT !.at = "idle", !.seen = 0]
      BY <3>2 DEF Feeders, FeederPlaces, FilePlaces
    <3> QED
      BY <2>3, <3>1, <3>2
  <2> QED
    BY <1>8, <2>2, <2>4 DEF RadioTimeout, RadioSkip, TypeOK
<1> QED
  BY <1>1, <1>2, <1>3, <1>4, <1>5, <1>6, <1>7, <1>8 DEF Feeder, FileFeeder, Radio

\* The flags, positions and places of both sides have their types, with either
\* source.
THEOREM TypeCorrect == Spec => []TypeOK
<1>1. TypeOK /\ [Next]_vars => TypeOK'
  <2>1. ASSUME TypeOK, UNCHANGED vars PROVE TypeOK'
    BY <2>1 DEF vars, TypeOK
  <2> QED
    BY <2>1, SchedulerTyped, FeederTyped DEF Next
<1> QED
  BY <1>1, TypesBegin, PTL DEF Spec

-----------------------------------------------------------------------------
(* The stream from a file *)

Ended == feeder.at \in {"exit", "exited"}

\* A block is stored, and the scheduler has not moved the end of the data behind it.
Uncounted == data_write_.data_stored /\ ~scheduler.is_locked

\* The end of what is stored.
Stored == IF Uncounted THEN pos.data_write_pos_ + block_size ELSE pos.data_write_pos_

Places == feeder.at \in FilePlaces /\ scheduler.at # "crashed"

\* The mutex keeps the two sides apart, until the feeder has ended.
Mutex ==
  /\ feeder.at \in {"test", "retest", "wait", "go"} => lock_buffer = "feeder"
  /\ scheduler.is_locked =>
       scheduler.at = "process" /\ (Ended \/ lock_buffer = "scheduler")

\* The scheduler takes the mutex for a block that is there, and the feeder makes one
\* only when the one before has been taken.
Handshake ==
  /\ data_write_.blocks_skipped = 0
  /\ scheduler.is_locked \/ scheduler.at = "lock" => data_write_.data_stored
  /\ data_write_.write_ready => ~data_write_.data_stored
  /\ data_write_.finish_rtl_process => scheduler.at \in {"signal", "join", "stopped"}
  /\ feeder.at = "go" /\ ~data_write_.finish_rtl_process => ~data_write_.data_stored

\* What is stored is inside the buffer; while the mode is not known the reader makes
\* one step at most.
Positions ==
  /\ pos.data_write_pos_ >= 0
  /\ Stored <= sync_feeder_buffer_size_
  /\ \/ /\ pos.sync_read_size_ = first_read_size_
        /\ pos.sync_read_pos_ \in {0, first_read_size_}
     \/ /\ pos.sync_read_size_ = 2 * (frame_size + null_size)
        /\ pos.sync_read_pos_ >= 0

\* The front of the buffer up to the end of what is stored is one piece of the
\* input, and the reader is where its moves have put it.
Piece ==
  /\ held.from = 0
  /\ ~Ended => held.to = Stored /\ held.to - pos.sync_read_pos_ = held.ahead

FileInv == Places /\ Mutex /\ Handshake /\ Positions /\ Piece

IInv == TypeOK /\ (feeder.source = "file" => FileInv)

\* What the bounds of the sizes say of the two reads.
LEMMA Reads ==
  /\ first_read_size_ + block_size <= sync_feeder_buffer_size_
  /\ sync_feeder_buffer_size_ <= 2 * first_read_size_
  /\ 4 * (frame_size + null_size) + block_size <= sync_feeder_buffer_size_
  BY SizeAssumption DEF SizeAssumption

\* What is in the buffer stays there, when no block is stored or counted.
LEMMA PieceStays ==
  ASSUME Positions, Piece, UNCHANGED <<pos, held>>, Uncounted' <=> Uncounted, Ended => Ended'
  PROVE  Positions' /\ Piece'
<1>1. Stored' = Stored
  BY DEF Stored
<1> QED
  BY <1>1 DEF Positions, Piece

\* The parts of IInv hold at the start.
LEMMA IInvBegins == Init => IInv
<1> SUFFICES ASSUME Init PROVE IInv
  OBVIOUS
<1>1. feeder.at = "new"
  BY DEF Init
<1>2. /\ ~data_write_.data_stored /\ ~data_write_.finish_rtl_process
      /\ data_write_.blocks_skipped = 0
  BY DEF Init
<1>3. scheduler.at = "start" /\ ~scheduler.is_locked
  BY DEF Init
<1>4. /\ pos.data_write_pos_ = 0 /\ pos.sync_read_pos_ = 0
      /\ pos.sync_read_size_ = first_read_size_
      /\ held.from = 0 /\ held.to = 0 /\ held.ahead = 0
  BY DEF Init
<1>5. Places /\ Mutex /\ Handshake
  BY <1>1, <1>2, <1>3 DEF Places, FilePlaces, Mutex, Handshake
<1>6. Stored = 0
  BY <1>2, <1>4 DEF Stored, Uncounted
<1>7. Positions /\ Piece
  BY <1>4, <1>6, SizesTyped DEF Positions, Piece
<1> QED
  BY <1>5, <1>7, TypesBegin DEF IInv, FileInv

\* A step of the scheduler without the mutex, that may wake the feeder.
LEMMA Walk ==
  ASSUME FileInv, UNCHANGED <<pos, held, lock_buffer>>,
         ~scheduler.is_locked, ~scheduler'.is_locked,
         scheduler'.at # "crashed",
         scheduler'.at = "lock" => data_write_.data_stored,
         feeder'.at = feeder.at \/ (feeder'.at = "relock" /\ feeder.at = "waiting"),
         data_write_'.data_stored <=> data_write_.data_stored,
         data_write_'.write_ready <=> data_write_.write_ready,
         data_write_'.blocks_skipped = data_write_.blocks_skipped,
         data_write_.finish_rtl_process => data_write_'.finish_rtl_process,
         data_write_'.finish_rtl_process => scheduler'.at \in {"signal", "join", "stopped"}
  PROVE  FileInv'
<1>1. Places' /\ Mutex'
  BY DEF FileInv, Places, FilePlaces, Mutex
<1>2. Handshake'
  BY DEF FileInv, Handshake
<1>3. /\ Positions /\ Piece
      /\ Uncounted' <=> Uncounted
      /\ Ended => Ended'
  BY DEF FileInv, Uncounted, Ended
<1>4. Positions' /\ Piece'
  BY <1>3, PieceStays
<1> QED
  BY <1>1, <1>2, <1>4 DEF FileInv

\* The scheduler's steps without the mutex keep the invariant.
LEMMA WalkingKeeps ==
  ASSUME TypeOK, FileInv,
         Start \/ Process \/ TestStored \/ NothingStored \/ Stop \/ StopSignal \/ Join
  PROVE  FileInv'
<1>1. /\ scheduler.is_locked => scheduler.at = "process"
      /\ data_write_.finish_rtl_process => scheduler.at \in {"signal", "join", "stopped"}
  BY DEF FileInv, Mutex, Handshake
<1>2. CASE Start
  <2>1. /\ scheduler.at = "start" /\ scheduler'.at = "loop"
        /\ (scheduler'.is_locked <=> scheduler.is_locked)
    BY <1>2, SchedulerGone DEF Start, SchedulerPlaces
  <2> QED
    BY <1>1, <1>2, <2>1, Walk DEF Start
<1>3. CASE Process
  <2>1. scheduler \in Schedulers
    BY Parts
  <2>2. /\ scheduler.at = "loop" /\ scheduler'.at \in {"stop", "reconfigure", "test"}
        /\ (scheduler'.is_locked <=> scheduler.is_locked)
    BY <1>3, <2>1 DEF Process, Schedulers
  <2> QED
    BY <1>1, <1>3, <2>2, Walk DEF Process
<1>4. CASE TestStored
  <2>1. (GoTo("lock") /\ data_write_.data_stored) \/ GoTo("process")
    BY <1>4 DEF TestStored
  <2>2. {"lock", "process"} \subseteq SchedulerPlaces
    BY DEF SchedulerPlaces
  <2>3. /\ scheduler.at = "test" /\ scheduler'.at \in {"lock", "process"}
        /\ scheduler'.at = "lock" => data_write_.data_stored
        /\ (scheduler'.is_locked <=> scheduler.is_locked)
    BY <1>4, <2>1, <2>2, SchedulerGone DEF TestStored
  <2> QED
    BY <1>1, <1>4, <2>3, Walk DEF TestStored
<1>5. CASE NothingStored
  <2>1. /\ scheduler.at = "process" /\ scheduler'.at = "loop"
        /\ (scheduler'.is_locked <=> scheduler.is_locked)
    BY <1>5, SchedulerGone DEF NothingStored, SchedulerPlaces
  <2> QED
    BY <1>1, <1>5, <2>1, Walk DEF NothingStored
<1>6. CASE Stop
  <2>1. /\ scheduler.at = "stop" /\ scheduler'.at = "signal"
        /\ (scheduler'.is_locked <=> scheduler.is_locked)
    BY <1>6, SchedulerGone DEF Stop, SchedulerPlaces
  <2>2. data_write_ \in Flags
    BY Parts
  <2>3. /\ data_write_'.data_stored <=> data_write_.data_stored
        /\ data_write_'.write_ready <=> data_write_.write_ready
        /\ data_write_'.blocks_skipped = data_write_.blocks_skipped
        /\ data_write_'.finish_rtl_process
    BY <1>6, <2>2 DEF Stop, Flags
  <2> QED
    BY <1>1, <1>6, <2>1, <2>3, Walk DEF Stop
<1>7. CASE StopSignal
  <2>1. /\ scheduler.at = "signal" /\ scheduler'.at = "join"
        /\ (scheduler'.is_locked <=> scheduler.is_locked)
    BY <1>7, SchedulerGone DEF StopSignal, SchedulerPlaces
  <2>2. feeder'.at = feeder.at \/ (feeder'.at = "relock" /\ feeder.at = "waiting")
    BY <1>7, FeederSignalled DEF StopSignal
  <2> QED
    BY <1>1, <1>7, <2>1, <2>2, Walk DEF StopSignal
<1>8. CASE Join
  <2>1. /\ scheduler.at = "join" /\ scheduler'.at = "stopped"
        /\ (scheduler'.is_locked <=> scheduler.is_locked)
    BY <1>8, SchedulerGone DEF Join, SchedulerPlaces
  <2> QED
    BY <1>1, <1>8, <2>1, Walk DEF Join
<1> QED
  BY <1>2, <1>3, <1>4, <1>5, <1>6, <1>7, <1>8

\* The scheduler takes the mutex and counts the block.
LEMMA SetNewWritePointerKeeps ==
  ASSUME TypeOK, FileInv, SetNewWritePointer
  PROVE  FileInv'
<1>1. /\ scheduler.at = "lock" /\ ~scheduler.is_locked /\ lock_buffer = "nobody"
      /\ data_write_.data_stored /\ data_write_.blocks_skipped = 0
  BY DEF FileInv, Mutex, Handshake, SetNewWritePointer
<1>2. Skipped = 0
  BY <1>1 DEF Skipped
<1>3. (Skipped + 1) * block_size = block_size
  <2>1. 1 * block_size = block_size
    BY SizesTyped
  <2> QED
    BY <1>2, <2>1
<1>4. /\ pos' = [pos EXCEPT !.data_write_pos_ = @ + block_size]
      /\ data_write_' = [data_write_ EXCEPT !.blocks_skipped = 0]
  BY <1>1, <1>3 DEF SetNewWritePointer
<1>5. /\ pos'.data_write_pos_ = pos.data_write_pos_ + block_size
      /\ pos'.sync_read_pos_ = pos.sync_read_pos_
      /\ pos'.sync_read_size_ = pos.sync_read_size_
  BY <1>4, Parts DEF Moves
<1>6. /\ data_write_'.data_stored /\ data_write_'.blocks_skipped = 0
      /\ data_write_'.write_ready <=> data_write_.write_ready
      /\ data_write_'.finish_rtl_process <=> data_write_.finish_rtl_process
  BY <1>1, <1>4, Parts DEF Flags
<1>7. scheduler'.at = "process" /\ scheduler'.is_locked
  BY Parts DEF SetNewWritePointer, Schedulers
<1>8. lock_buffer' = "scheduler" /\ UNCHANGED <<feeder, held>>
  BY DEF SetNewWritePointer
<1>9. Places' /\ Mutex'
  BY <1>1, <1>7, <1>8 DEF FileInv, Places, Mutex
<1>10. Handshake'
  BY <1>1, <1>6, <1>7, <1>8 DEF FileInv, Handshake
<1>11. Stored' = Stored
  <2>1. Uncounted /\ ~Uncounted'
    BY <1>1, <1>7 DEF Uncounted
  <2> QED
    BY <2>1, <1>5 DEF Stored
<1>12. Positions' /\ Piece'
  BY <1>5, <1>8, <1>11, Parts, SizesTyped DEF FileInv, Positions, Piece, Ended
<1> QED
  BY <1>9, <1>10, <1>12 DEF FileInv

\* A read.
LEMMA SynchronizeKeeps ==
  ASSUME TypeOK, FileInv, feeder.source = "file", Synchronize
  PROVE  FileInv'
<1>1. PICK floats \in Nat :
        /\ pos'.data_write_pos_ = pos.data_write_pos_
        /\ pos'.sync_read_pos_ = pos.sync_read_pos_ + floats
        /\ \/ pos'.sync_read_size_ = 2 * (frame_size + null_size)
           \/ ~ModeKnown /\ pos'.sync_read_size_ = first_read_size_ /\ floats = first_read_size_
           \/ ModeKnown /\ pos'.sync_read_size_ = pos.sync_read_size_
        /\ held'.from = held.from /\ held'.to = held.to
        /\ held'.ahead = held.ahead - floats
        /\ scheduler'.at = scheduler.at
        /\ (scheduler'.is_locked <=> scheduler.is_locked)
  BY ReaderForward
<1>2. EnoughData /\ UNCHANGED <<data_write_, lock_buffer, feeder>>
  BY DEF Synchronize
<1>3. Places' /\ Mutex' /\ Handshake'
  BY <1>1, <1>2 DEF FileInv, Places, Mutex, Handshake, Ended
<1>4. Stored' = Stored /\ (Ended' <=> Ended)
  BY <1>1, <1>2 DEF Stored, Uncounted, Ended
<1>5. pos.data_write_pos_ <= Stored /\ Stored \in Int
  BY Parts, SizesTyped DEF Stored
<1>6. Positions'
  <2>1. pos.sync_read_pos_ >= 0
    BY SizesTyped DEF FileInv, Positions
  <2>2. CASE pos'.sync_read_size_ = 2 * (frame_size + null_size)
    BY <2>1, <2>2, <1>1, <1>4, Parts DEF FileInv, Positions
  <2>3. CASE /\ ~ModeKnown /\ pos'.sync_read_size_ = first_read_size_
             /\ floats = first_read_size_
    <3>1. pos.sync_read_size_ = first_read_size_
      BY <2>3 DEF ModeKnown
    <3>2. pos.data_write_pos_ > pos.sync_read_pos_ + first_read_size_
      BY <1>2, <3>1 DEF EnoughData
    <3>3. pos.sync_read_pos_ \in {0, first_read_size_}
      <4>1. first_read_size_ # 2 * (frame_size + null_size)
        BY Reads, SizesTyped
      <4> QED
        BY <3>1, <4>1 DEF FileInv, Positions
    <3>4. pos.sync_read_pos_ = 0
      BY <3>2, <3>3, <1>5, Reads, SizesTyped, Parts DEF FileInv, Positions
    <3> QED
      BY <2>3, <3>4, <1>1, <1>4, SizesTyped, Parts DEF FileInv, Positions
  <2>4. CASE ModeKnown /\ pos'.sync_read_size_ = pos.sync_read_size_
    <3>1. pos.sync_read_size_ = 2 * (frame_size + null_size)
      BY <2>4 DEF FileInv, Positions, ModeKnown
    <3> QED
      BY <2>1, <2>4, <3>1, <1>1, <1>4, Parts DEF FileInv, Positions
  <2> QED
    BY <2>2, <2>3, <2>4, <1>1
<1>7. Piece'
  BY <1>1, <1>4, <1>5, Parts DEF FileInv, Piece
<1> QED
  BY <1>3, <1>6, <1>7 DEF FileInv

\* Without skipped blocks, one block has to fit.
LEMMA OneBlockFits ==
  ASSUME TypeOK, data_write_.blocks_skipped = 0
  PROVE  Fits <=> pos.data_write_pos_ + block_size <= sync_feeder_buffer_size_
<1>1. (data_write_.blocks_skipped + 1) * block_size = block_size
  <2>1. 1 * block_size = block_size
    BY SizesTyped
  <2> QED
    BY <2>1
<1> QED
  BY <1>1 DEF Fits

\* What is copied is what the reader has not read, from behind where it is copied to.
LEMMA CopyInside ==
  ASSUME TypeOK, FileInv, scheduler.at = "process", scheduler.is_locked, ~EnoughData,
         CopiesToFront
  PROVE  /\ pos.data_write_pos_ <= sync_feeder_buffer_size_
         /\ pos.data_write_pos_ > pos.sync_read_pos_
         /\ pos.sync_read_pos_ >= 0
         /\ pos.data_write_pos_ - pos.sync_read_pos_ <= pos.sync_read_pos_
         /\ CopySize = pos.data_write_pos_ - pos.sync_read_pos_
<1> DEFINE data == pos.data_write_pos_
           read == pos.sync_read_pos_
           size == pos.sync_read_size_
           S == 2 * (frame_size + null_size)
<1>1. data \in Int /\ read \in Int /\ size \in Int /\ S \in Nat
  BY Parts, SizesTyped
<1>2. Stored = data
  BY DEF Stored, Uncounted
<1>3. /\ data >= 0 /\ data <= sync_feeder_buffer_size_
      /\ \/ size = first_read_size_ /\ read \in {0, first_read_size_}
         \/ size = S /\ read >= 0
  BY <1>2 DEF FileInv, Positions
<1>4. Fits <=> data + block_size <= sync_feeder_buffer_size_
  BY OneBlockFits DEF FileInv, Handshake
<1>5. data <= read + size
  BY <1>1 DEF EnoughData
<1>6. \/ /\ data + block_size <= sync_feeder_buffer_size_
         /\ read + size > sync_feeder_buffer_size_ /\ data > read
      \/ /\ data + block_size > sync_feeder_buffer_size_
         /\ read + size # data /\ data > read
  BY <1>1, <1>3, <1>4, SizesTyped DEF CopiesToFront, ReadEnd
<1>7. read >= 0 /\ data > read
  BY <1>3, <1>6, SizesTyped
<1>8. data <= 2 * read
  <2> HIDE DEF data, read, size, S
  <2>1. CASE size = first_read_size_ /\ read \in {0, first_read_size_}
    BY <1>1, <1>3, <1>5, <1>6, <2>1, Reads, SizesTyped
  <2>2. CASE size = S /\ read >= 0
    <3>1. 2 * S + block_size <= sync_feeder_buffer_size_
      BY Reads, SizesTyped DEF S
    <3> QED
      BY <1>1, <1>3, <1>5, <1>6, <2>2, <3>1, SizesTyped
  <2> QED
    BY <1>3, <2>1, <2>2
<1>9. CopySize = data - read
  BY <1>1, <1>3, SizesTyped DEF CopySize
<1> QED
  BY <1>1, <1>3, <1>7, <1>8, <1>9

\* The scheduler sets the positions for the next block.
LEMMA CalculateKeeps ==
  ASSUME TypeOK, FileInv, feeder.source = "file", CalculateNewBufferPosition
  PROVE  FileInv'
<1>1. scheduler.at = "process" /\ scheduler.is_locked /\ ~EnoughData
  BY DEF CalculateNewBufferPosition
<1>2. CASE CopiesToFront /\ CopySize < 0
  <2>1. pos.data_write_pos_ > pos.sync_read_pos_
        /\ CopySize = pos.data_write_pos_ - pos.sync_read_pos_
    BY <1>1, <1>2, CopyInside
  <2> QED
    BY <1>2, <2>1, Parts
<1>3. CASE ~(CopiesToFront /\ CopySize < 0)
  <2>1. /\ scheduler' = [scheduler EXCEPT !.at = "loop", !.is_locked = FALSE]
        /\ data_write_' = [data_write_ EXCEPT !.write_ready = TRUE, !.data_stored = FALSE]
        /\ feeder' = Signalled /\ lock_buffer' = "nobody"
    BY <1>3 DEF CalculateNewBufferPosition
  <2>2. scheduler'.at = "loop" /\ ~scheduler'.is_locked
    BY <2>1, Parts DEF Schedulers
  <2>3. /\ data_write_'.write_ready /\ ~data_write_'.data_stored
        /\ data_write_'.blocks_skipped = data_write_.blocks_skipped
        /\ data_write_'.finish_rtl_process <=> data_write_.finish_rtl_process
    BY <2>1, Parts DEF Flags
  <2>4. feeder'.at = feeder.at \/ (feeder'.at = "relock" /\ feeder.at = "waiting")
    BY <2>1, FeederSignalled
  <2>5. feeder.at \notin {"test", "retest", "wait", "go"}
    BY <1>1 DEF FileInv, Mutex, Ended
  <2>6. Places' /\ Mutex'
    BY <2>2, <2>4, <2>5 DEF FileInv, Places, FilePlaces, Mutex
  <2>7. Handshake'
    BY <1>1, <2>2, <2>3, <2>4 DEF FileInv, Handshake
  <2>8. Stored = pos.data_write_pos_ /\ Stored' = pos'.data_write_pos_
    BY <1>1, <2>3 DEF Stored, Uncounted
  <2>9. Ended' <=> Ended
    BY <2>4 DEF Ended
  <2>10. Positions' /\ Piece'
    <3>1. CASE CopiesToFront
      <4>1. /\ pos.data_write_pos_ <= sync_feeder_buffer_size_
            /\ pos.data_write_pos_ > pos.sync_read_pos_ /\ pos.sync_read_pos_ >= 0
            /\ CopySize = pos.data_write_pos_ - pos.sync_read_pos_
        BY <1>1, <3>1, CopyInside
      <4>2. MovedBy(pos.sync_read_pos_, CopySize)
        BY <1>3, <3>1 DEF CalculateNewBufferPosition
      <4>3. pos.sync_read_pos_ \in Int /\ CopySize \in Int /\ pos.data_write_pos_ \in Int
            /\ held.to \in Int /\ held.ahead \in Int
        BY <4>1, Parts
      <4>4. /\ pos'.data_write_pos_ = pos.data_write_pos_ - pos.sync_read_pos_
            /\ pos'.sync_read_pos_ = 0
            /\ pos'.sync_read_size_ = pos.sync_read_size_
            /\ held'.from = (IF held.from > pos.sync_read_pos_
                             THEN held.from - pos.sync_read_pos_ ELSE 0)
            /\ held'.to = (IF held.to > pos.sync_read_pos_ + CopySize THEN CopySize
                           ELSE IF held.to > pos.sync_read_pos_
                                THEN held.to - pos.sync_read_pos_ ELSE 0)
            /\ held'.ahead = held.ahead
        BY <4>2, <4>3, Moved
      <4>5. Positions'
        BY <2>8, <4>1, <4>3, <4>4, SizesTyped DEF FileInv, Positions
      <4>6. held'.from = 0
        BY <4>1, <4>3, <4>4 DEF FileInv, Piece
      <4>7. ~Ended' => held'.to = Stored' /\ held'.to - pos'.sync_read_pos_ = held'.ahead
        BY <2>8, <2>9, <4>1, <4>3, <4>4 DEF FileInv, Piece
      <4> QED
        BY <4>5, <4>6, <4>7 DEF Piece
    <3>2. CASE ~CopiesToFront /\ StartsAtFront
      <4>1. MovedBy(pos.data_write_pos_, 0)
        BY <1>3, <3>2 DEF CalculateNewBufferPosition
      <4>2. /\ pos.data_write_pos_ \in Int /\ pos.sync_read_pos_ \in Int
            /\ held.to \in Int /\ held.ahead \in Int /\ 0 \in Int
        BY Parts
      <4>3. /\ pos'.data_write_pos_ = 0
            /\ pos'.sync_read_pos_ = pos.sync_read_pos_ - pos.data_write_pos_
            /\ pos'.sync_read_size_ = pos.sync_read_size_
            /\ held'.from = (IF held.from > pos.data_write_pos_
                             THEN held.from - pos.data_write_pos_ ELSE 0)
            /\ held'.to = (IF held.to > pos.data_write_pos_ + 0 THEN 0
                           ELSE IF held.to > pos.data_write_pos_
                                THEN held.to - pos.data_write_pos_ ELSE 0)
            /\ held'.ahead = held.ahead
        BY <4>1, <4>2, Moved
      <4>4. /\ pos.sync_read_pos_ >= pos.data_write_pos_
            /\ pos.data_write_pos_ + block_size > sync_feeder_buffer_size_
        BY <3>2, OneBlockFits, <4>2, SizesTyped DEF StartsAtFront, FileInv, Handshake
      <4>5. pos.data_write_pos_ >= 0
        BY DEF FileInv, Positions
      <4>6. pos.sync_read_size_ = 2 * (frame_size + null_size)
        <5>1. CASE pos.sync_read_size_ = first_read_size_
                   /\ pos.sync_read_pos_ \in {0, first_read_size_}
          BY <5>1, <4>2, <4>4, Reads, SizesTyped, <1>1 DEF StartsAtFront
        <5> QED
          BY <5>1 DEF FileInv, Positions
      <4>7. Positions'
        BY <2>8, <4>2, <4>3, <4>4, <4>6, SizesTyped DEF Positions
      <4>8. held'.from = 0
        BY <4>2, <4>3, <4>5 DEF FileInv, Piece
      <4>9. ~Ended' => held'.to = Stored' /\ held'.to - pos'.sync_read_pos_ = held'.ahead
        BY <2>8, <2>9, <4>2, <4>3, <4>5 DEF FileInv, Piece
      <4> QED
        BY <4>7, <4>8, <4>9 DEF Piece
    <3>3. CASE ~CopiesToFront /\ ~StartsAtFront
      <4>1. UNCHANGED <<pos, held>>
        BY <1>3, <3>3 DEF CalculateNewBufferPosition
      <4> QED
        BY <4>1, <2>8, <2>9 DEF FileInv, Positions, Piece
    <3> QED
      BY <3>1, <3>2, <3>3
  <2> QED
    BY <2>6, <2>7, <2>10 DEF FileInv
<1> QED
  BY <1>2, <1>3

\* The scheduler does not hold the mutex while the feeder is at work with it.
LEMMA FeederAlone ==
  ASSUME FileInv, feeder.at \in {"test", "retest", "wait", "go"}
  PROVE  lock_buffer = "feeder" /\ ~scheduler.is_locked
  BY DEF FileInv, Mutex, Ended

\* A step of the feeder that leaves the buffer and the flags alone.
LEMMA FeederWalk ==
  ASSUME FileInv, UNCHANGED <<data_write_, pos, scheduler, held>>,
         feeder'.at \in FilePlaces, Ended => Ended',
         lock_buffer' = lock_buffer \/ (lock_buffer = "nobody" /\ lock_buffer' = "feeder")
           \/ (~scheduler.is_locked /\ lock_buffer' = "nobody") \/ Ended',
         feeder'.at \in {"test", "retest", "wait", "go"} => lock_buffer' = "feeder",
         feeder'.at = "go" /\ ~data_write_.finish_rtl_process => ~data_write_.data_stored
  PROVE  FileInv'
<1>1. Places' /\ Mutex'
  BY DEF FileInv, Places, Mutex, Ended
<1>2. Handshake'
  BY DEF FileInv, Handshake
<1>3. Uncounted' <=> Uncounted
  BY DEF Uncounted
<1>4. Positions' /\ Piece'
  BY <1>3, PieceStays DEF FileInv
<1> QED
  BY <1>1, <1>2, <1>4 DEF FileInv

\* The feeder's steps that neither store nor end keep the invariant.
LEMMA FeederWalkKeeps ==
  ASSUME TypeOK, FileInv, feeder.source = "file",
         \/ StartProcessing \/ EndProcessing \/ LockBuffer \/ TestWriteReady \/ Wait
         \/ SpuriousWakeup \/ AskStop
  PROVE  FileInv'
<1>1. feeder \in Feeders /\ feeder.at \in FilePlaces
  BY Parts DEF FileInv, Places
<1>2. CASE StartProcessing
  <2>1. feeder.at = "new" /\ feeder'.at = "lock"
    BY <1>1, <1>2 DEF StartProcessing, Feeders
  <2> QED
    BY <1>2, <2>1, FeederWalk DEF StartProcessing, FilePlaces, Ended
<1>3. CASE EndProcessing
  <2>1. feeder.at = "exit" /\ feeder'.at = "exited"
    BY <1>1, <1>3 DEF EndProcessing, Feeders
  <2> QED
    BY <1>3, <2>1, FeederWalk DEF EndProcessing, FilePlaces, Ended
<1>4. CASE LockBuffer
  <2>1. feeder.at \in {"lock", "relock"} /\ feeder'.at \in {"test", "retest"}
    BY <1>1, <1>4 DEF LockBuffer, FeederGoTo, Feeders
  <2> QED
    BY <1>4, <2>1, FeederWalk DEF LockBuffer, FilePlaces, Ended
<1>5. CASE TestWriteReady
  <2> DEFINE waits == /\ feeder.at = "retest" \/ data_write_.data_stored
                      /\ ~data_write_.write_ready /\ ~data_write_.finish_rtl_process
  <2>1. /\ feeder.at \in {"test", "retest"}
        /\ feeder'.at = (IF waits THEN "wait" ELSE "go")
    BY <1>1, <1>5 DEF TestWriteReady, FeederGoTo, Feeders
  <2>2. ~waits /\ ~data_write_.finish_rtl_process => ~data_write_.data_stored
    BY DEF FileInv, Handshake
  <2>3. lock_buffer = "feeder"
    BY <2>1, FeederAlone
  <2>4. feeder'.at \in {"wait", "go"} /\ (feeder'.at = "go" => ~waits)
    BY <2>1
  <2> HIDE DEF waits
  <2> QED
    BY <1>5, <2>1, <2>2, <2>3, <2>4, FeederWalk DEF TestWriteReady, FilePlaces, Ended
<1>6. CASE Wait
  <2>1. feeder.at = "wait" /\ feeder'.at = "waiting" /\ ~scheduler.is_locked
    BY <1>1, <1>6, FeederAlone DEF Wait, FeederGoTo, Feeders
  <2> QED
    BY <1>6, <2>1, FeederWalk DEF Wait, FilePlaces, Ended
<1>7. CASE SpuriousWakeup
  <2>1. feeder.at = "waiting" /\ feeder'.at = "relock"
    BY <1>1, <1>7 DEF SpuriousWakeup, FeederGoTo, Feeders
  <2> QED
    BY <1>7, <2>1, FeederWalk DEF SpuriousWakeup, FilePlaces, Ended
<1>8. CASE AskStop
  <2>1. /\ feeder'.at = "go" /\ ~data_write_.finish_rtl_process => ~data_write_.data_stored
        /\ feeder'.at \in {"test", "retest", "wait", "go"} => lock_buffer = "feeder"
    BY <1>8 DEF AskStop, FileInv, Mutex, Handshake
  <2> QED
    BY <1>1, <1>8, <2>1, FeederWalk DEF AskStop, Ended
<1> QED
  BY <1>2, <1>3, <1>4, <1>5, <1>6, <1>7, <1>8

\* The feeder's steps with the mutex keep the invariant, if the block fits.
LEMMA FeederStoreKeeps ==
  ASSUME TypeOK, FileInv, feeder.source = "file", BlockFits,
         FileFinish \/ WriteResampledOut \/ NotEnoughResampled \/ FileEnds
  PROVE  FileInv'
<1>1. feeder.at = "go"
  BY DEF FileFinish, WriteResampledOut, NotEnoughResampled, FileEnds
<1>2. feeder \in Feeders /\ data_write_ \in Flags /\ held \in History
      /\ pos.data_write_pos_ \in Int
  BY Parts
<1>3. lock_buffer = "feeder" /\ ~scheduler.is_locked
  BY <1>1, FeederAlone
<1>4. UNCHANGED <<pos, scheduler>>
  BY DEF FileFinish, WriteResampledOut, NotEnoughResampled, FileEnds
<1>5. CASE FileFinish
  <2>1. feeder'.at = "exit"
    BY <1>2, <1>5 DEF FileFinish, FeederGoTo, Feeders
  <2>2. /\ ~data_write_'.write_ready
        /\ data_write_'.data_stored <=> data_write_.data_stored
        /\ data_write_'.blocks_skipped = data_write_.blocks_skipped
        /\ data_write_'.finish_rtl_process <=> data_write_.finish_rtl_process
    BY <1>2, <1>5 DEF FileFinish, Flags
  <2>3. Places' /\ Mutex'
    BY <1>3, <1>4, <2>1 DEF FileInv, Places, FilePlaces, Mutex
  <2>4. Handshake'
    BY <1>4, <2>1, <2>2 DEF FileInv, Handshake
  <2>5. Positions' /\ Piece'
    <3>1. UNCHANGED <<pos, held>>
      BY <1>5 DEF FileFinish
    <3>2. /\ Uncounted' <=> Uncounted
          /\ Ended => Ended'
      BY <1>4, <2>1, <2>2 DEF Uncounted, Ended
    <3> QED
      BY <3>1, <3>2, PieceStays DEF FileInv
  <2> QED
    BY <2>3, <2>4, <2>5 DEF FileInv
<1>6. CASE WriteResampledOut \/ FileEnds
  <2>1. /\ ~data_write_.finish_rtl_process /\ ~data_write_.data_stored
        /\ pos.data_write_pos_ + block_size <= sync_feeder_buffer_size_
    BY <1>1, <1>6 DEF WriteResampledOut, FileEnds, FileInv, Handshake, BlockFits
  <2>2. data_write_' = [data_write_ EXCEPT !.write_ready = FALSE, !.data_stored = TRUE]
    BY <1>6 DEF WriteResampledOut, FileEnds
  <2>3. /\ ~data_write_'.write_ready /\ data_write_'.data_stored
        /\ data_write_'.blocks_skipped = data_write_.blocks_skipped
        /\ data_write_'.finish_rtl_process <=> data_write_.finish_rtl_process
    BY <1>2, <2>2 DEF Flags
  <2>4. /\ feeder'.at \in {"lock", "exit"} /\ lock_buffer' = "nobody"
        /\ feeder'.at = "lock" => /\ held'.from = (IF held.to = pos.data_write_pos_
                                                   THEN held.from ELSE pos.data_write_pos_)
                                  /\ held'.to = pos.data_write_pos_ + block_size
                                  /\ held'.ahead = held.ahead + block_size
        /\ feeder'.at = "exit" => held' = held
    <3>1. CASE WriteResampledOut
      BY <3>1, BlockStored DEF WriteResampledOut, FeederPlaces, FilePlaces
    <3>2. CASE FileEnds
      BY <1>2, <3>2 DEF FileEnds, Feeders
    <3> QED
      BY <1>6, <3>1, <3>2
  <2>5. Places' /\ Mutex'
    BY <1>3, <1>4, <2>4 DEF FileInv, Places, FilePlaces, Mutex
  <2>6. Handshake'
    BY <1>4, <2>3, <2>4 DEF FileInv, Handshake
  <2>7. Stored = pos.data_write_pos_ /\ Stored' = pos.data_write_pos_ + block_size
    BY <1>3, <1>4, <2>1, <2>3 DEF Stored, Uncounted
  <2>8. Positions'
    BY <1>4, <2>1, <2>7 DEF FileInv, Positions
  <2>9. Piece'
    <3>1. /\ held.from = 0 /\ held.to = pos.data_write_pos_
          /\ held.to - pos.sync_read_pos_ = held.ahead
      BY <1>1, <2>7 DEF FileInv, Piece, Ended
    <3>2. pos.sync_read_pos_ \in Int /\ held.ahead \in Int
      BY Parts
    <3> QED
      BY <1>2, <1>4, <2>4, <2>7, <3>1, <3>2, SizesTyped DEF Piece, Ended
  <2> QED
    BY <2>5, <2>6, <2>8, <2>9 DEF FileInv
<1>7. CASE NotEnoughResampled
  <2>1. ~data_write_.finish_rtl_process /\ ~data_write_.data_stored
    BY <1>1, <1>7 DEF NotEnoughResampled, FileInv, Handshake
  <2>2. data_write_' = [data_write_ EXCEPT !.write_ready = FALSE, !.data_stored = FALSE]
    BY <1>7 DEF NotEnoughResampled
  <2>3. /\ ~data_write_'.write_ready /\ ~data_write_'.data_stored
        /\ data_write_'.blocks_skipped = data_write_.blocks_skipped
        /\ data_write_'.finish_rtl_process <=> data_write_.finish_rtl_process
    BY <1>2, <2>2 DEF Flags
  <2>4. feeder'.at = "lock" /\ lock_buffer' = "nobody"
    BY <1>2, <1>7 DEF NotEnoughResampled, FeederGoTo, Feeders
  <2>5. held'.from = held.from /\ held'.to = held.to /\ held'.ahead = held.ahead
    BY <1>2, <1>7 DEF NotEnoughResampled, History
  <2>6. Places' /\ Mutex'
    BY <1>3, <1>4, <2>4 DEF FileInv, Places, FilePlaces, Mutex
  <2>7. Handshake'
    BY <1>3, <1>4, <2>1, <2>3, <2>4 DEF FileInv, Handshake
  <2>8. Stored' = Stored
    BY <1>4, <2>1, <2>3 DEF Stored, Uncounted
  <2>9. Positions' /\ Piece'
    BY <1>1, <1>4, <2>5, <2>8 DEF FileInv, Positions, Piece, Ended
  <2> QED
    BY <2>6, <2>7, <2>9 DEF FileInv
<1> QED
  BY <1>5, <1>6, <1>7

\* The source stays what it is, and only from the radio is its part of the feeder run.
LEMMA SourceStays == ASSUME TypeOK, [Next]_vars PROVE feeder'.source = feeder.source
<1> USE Parts
<1>1. CASE UNCHANGED feeder
  BY <1>1
<1>2. CASE feeder' = Signalled
  BY <1>2, FeederSignalled
<1>3. ASSUME NEW place \in FeederPlaces, FeederGoTo(place) \/ StoreBlock(place)
      PROVE  feeder'.source = feeder.source
  BY <1>3, FeederGone, BlockStored
<1>4. CASE Scheduler \/ AskStop \/ UNCHANGED vars
  <2>1. feeder' = Signalled \/ UNCHANGED feeder
    BY <1>4 DEF Scheduler, Start, Process, TestStored, SetNewWritePointer, Synchronize,
                CalculateNewBufferPosition, NothingStored, Stop, StopSignal, Join, AskStop, vars
  <2> QED
    BY <2>1, <1>1, <1>2
<1>5. CASE StartProcessing \/ EndProcessing \/ FileEnds \/ RadioTimeout \/ RadioSkip
  BY <1>5 DEF StartProcessing, EndProcessing, FileEnds, RadioTimeout, RadioSkip, Feeders
<1>6. CASE LockBuffer \/ TestWriteReady \/ Wait \/ FileFinish \/ WriteResampledOut
           \/ NotEnoughResampled \/ AsyncCallback \/ Unplugged \/ SpuriousWakeup
  <2>1. \E place \in FeederPlaces : FeederGoTo(place) \/ StoreBlock(place)
    BY <1>6 DEF LockBuffer, TestWriteReady, Wait, FileFinish, WriteResampledOut,
                NotEnoughResampled, AsyncCallback, Unplugged, SpuriousWakeup,
                FeederPlaces, FilePlaces
  <2> QED
    BY <2>1, <1>3
<1>7. CASE RadioLocked
  <2>1. FeederGoTo("exit") \/ FeederGoTo("idle") \/ StoreBlock("idle")
    <3>1. CASE data_write_.finish_rtl_process
      BY <1>7, <3>1 DEF RadioLocked
    <3>2. CASE ~data_write_.finish_rtl_process
      BY <1>7, <3>2 DEF RadioLocked
    <3> QED
      BY <3>1, <3>2
  <2>2. {"exit", "idle"} \subseteq FeederPlaces
    BY DEF FeederPlaces, FilePlaces
  <2> QED
    BY <2>1, <2>2, <1>3
<1> QED
  BY <1>4, <1>5, <1>6, <1>7 DEF Next, Feeder, FileFeeder, Radio

\* Every step keeps IInv, if the block that is about to be stored fits.
LEMMA IInvKept == ASSUME IInv, BlockFits, [Next]_vars PROVE IInv'
<1>1. TypeOK /\ TypeOK'
  <2>1. CASE UNCHANGED vars
    BY <2>1 DEF IInv, vars, TypeOK
  <2> QED
    BY <2>1, SchedulerTyped, FeederTyped DEF IInv, Next
<1>2. SUFFICES ASSUME feeder.source = "file" PROVE FileInv'
  BY <1>1, SourceStays DEF IInv
<1>3. FileInv
  BY <1>2 DEF IInv
<1>4. CASE Scheduler
  BY <1>1, <1>2, <1>3, <1>4, WalkingKeeps, SetNewWritePointerKeeps, SynchronizeKeeps,
     CalculateKeeps DEF Scheduler
<1>5. CASE UNCHANGED vars
  <2>1. /\ Uncounted' <=> Uncounted
        /\ Ended => Ended'
    BY <1>5 DEF vars, Uncounted, Ended
  <2>2. Positions' /\ Piece'
    BY <1>3, <1>5, <2>1, PieceStays DEF vars, FileInv
  <2>3. Places' /\ Mutex' /\ Handshake'
    BY <1>3, <1>5 DEF vars, FileInv, Places, Mutex, Handshake, Ended
  <2> QED
    BY <2>2, <2>3 DEF FileInv
<1>6. feeder.at \notin {"idle", "timedlock", "skip"}
  BY <1>3 DEF FileInv, Places, FilePlaces
<1>7. ~Radio /\ ~Unplugged
  BY <1>6 DEF Radio, AsyncCallback, RadioLocked, RadioTimeout, RadioSkip, Unplugged
<1> QED
  BY <1>1, <1>2, <1>3, <1>4, <1>5, <1>7, FeederWalkKeeps, FeederStoreKeeps
  DEF Next, Feeder, FileFeeder

\* The invariant says what the reader reads and what is copied.
LEMMA IInvSuffices == IInv => StreamInOnePiece
<1> SUFFICES ASSUME IInv PROVE StreamInOnePiece
  OBVIOUS
<1>1. ReadsStream
  <2> SUFFICES ASSUME feeder.source = "file", ~Ended, scheduler.at = "process", EnoughData
               PROVE  /\ held.from <= pos.sync_read_pos_ /\ ReadEnd <= held.to
                      /\ held.to - pos.sync_read_pos_ = held.ahead
    BY DEF ReadsStream, Ended
  <2>1. TypeOK /\ Positions /\ Piece
    BY DEF IInv, FileInv
  <2>2. held.from = 0 /\ held.to = Stored /\ held.to - pos.sync_read_pos_ = held.ahead
    BY <2>1 DEF Piece
  <2>3. pos.sync_read_pos_ >= 0
    BY <2>1, SizesTyped DEF Positions
  <2>4. Stored >= pos.data_write_pos_ /\ Stored \in Int
    BY <2>1, Parts, SizesTyped DEF Stored
  <2> QED
    BY <2>1, <2>2, <2>3, <2>4, Parts DEF EnoughData, ReadEnd
<1>2. CopiesAreSafe
  <2> SUFFICES ASSUME feeder.source = "file", scheduler.at = "process", scheduler.is_locked,
                      ~EnoughData, CopiesToFront
               PROVE  /\ CopySize \in 0 .. pos.sync_read_pos_
                      /\ pos.sync_read_pos_ + CopySize <= sync_feeder_buffer_size_
    BY DEF CopiesAreSafe
  <2>1. TypeOK /\ FileInv
    BY DEF IInv
  <2>2. pos.data_write_pos_ \in Int /\ pos.sync_read_pos_ \in Int
    BY <2>1, Parts
  <2> QED
    BY <2>1, <2>2, CopyInside, SizesTyped
<1> QED
  BY <1>1, <1>2 DEF StreamInOnePiece

\* From a file, as long as every block fits where it is stored, the synchronizer
\* reads the input without a gap, and what is copied to the front is inside the
\* buffer and apart from its copy: whatever the sizes, and whatever the synchronizer
\* finds (scheduler.cc:293-606, 1277-1376).
THEOREM StreamKept == Spec /\ []BlockFits => []StreamInOnePiece
<1>1. IInv /\ BlockFits /\ [Next]_vars => IInv'
  BY IInvKept
<1> QED
  BY <1>1, IInvBegins, IInvSuffices, PTL DEF Spec

-----------------------------------------------------------------------------
(* When does every block fit? *)

\* No block fits any more, and all that is stored is what the reader waits for: then
\* no branch of CalculateNewBufferPosition moves anything (scheduler.cc:1300, 1322).
AllIsNeeded ==
  /\ feeder.source = "file"
  /\ scheduler.at = "process" /\ scheduler.is_locked /\ ~EnoughData
  /\ ~Fits /\ ReadEnd = pos.data_write_pos_

\* Between two turns of the scheduler there is room for a block.
Room == ~scheduler.is_locked => pos.data_write_pos_ + block_size <= sync_feeder_buffer_size_

FileRoom == feeder.source = "file" => Room

\* The feeder finds that room.
LEMMA RoomSuffices == IInv /\ FileRoom => (feeder.source = "file" => BlockFits)
  BY FeederAlone DEF IInv, FileRoom, Room, BlockFits

\* The scheduler's steps without the mutex change neither the end of the data nor
\* who holds it.
LEMMA WalksApart ==
  ASSUME TypeOK,
         Start \/ Process \/ TestStored \/ NothingStored \/ Stop \/ StopSignal \/ Join
  PROVE  pos' = pos /\ (scheduler'.is_locked <=> scheduler.is_locked)
<1>1. pos' = pos
  BY DEF Start, Process, TestStored, NothingStored, Stop, StopSignal, Join
<1>2. CASE Process
  BY <1>2, Parts DEF Process, Schedulers
<1>3. CASE Start \/ TestStored \/ NothingStored \/ Stop \/ StopSignal \/ Join
  <2>1. \E place \in SchedulerPlaces : GoTo(place)
    BY <1>3 DEF Start, TestStored, NothingStored, Stop, StopSignal, Join, SchedulerPlaces
  <2> QED
    BY <1>1, <2>1, SchedulerGone
<1> QED
  BY <1>1, <1>2, <1>3

\* After its turn there is room again, unless all is needed.
LEMMA RoomMade ==
  ASSUME block_size <= 2 * (frame_size + null_size),
         TypeOK, FileInv, feeder.source = "file", ~AllIsNeeded, CalculateNewBufferPosition
  PROVE  pos'.data_write_pos_ + block_size <= sync_feeder_buffer_size_
<1> DEFINE data == pos.data_write_pos_
           read == pos.sync_read_pos_
           size == pos.sync_read_size_
           S == 2 * (frame_size + null_size)
<1>1. scheduler.at = "process" /\ scheduler.is_locked /\ ~EnoughData
  BY DEF CalculateNewBufferPosition
<1>2. data \in Int /\ read \in Int /\ size \in Int /\ S \in Nat
  BY Parts, SizesTyped
<1>3. Stored = data
  BY <1>1 DEF Stored, Uncounted
<1>4. /\ data >= 0 /\ data <= sync_feeder_buffer_size_
      /\ \/ size = first_read_size_ /\ read \in {0, first_read_size_}
         \/ size = S /\ read >= 0
  BY <1>3 DEF FileInv, Positions
<1>5. Fits <=> data + block_size <= sync_feeder_buffer_size_
  BY OneBlockFits DEF FileInv, Handshake
<1>6. data <= read + size
  BY <1>1, <1>2 DEF EnoughData
<1>7. read >= 0 /\ size + block_size <= sync_feeder_buffer_size_
  BY <1>4, Reads, SizesTyped
<1>8. CASE CopiesToFront
  <2>1. /\ data <= sync_feeder_buffer_size_ /\ data > read
        /\ CopySize = data - read
    BY <1>1, <1>8, CopyInside
  <2>2. MovedBy(read, CopySize)
    BY <1>2, <1>8, <2>1 DEF CalculateNewBufferPosition
  <2>3. pos'.data_write_pos_ = data - read
    BY <1>2, <2>1, <2>2, Moved
  <2> HIDE DEF data, read, size
  <2> QED
    BY <1>2, <1>6, <1>7, <2>3, SizesTyped
<1>9. CASE ~CopiesToFront /\ StartsAtFront
  <2>1. MovedBy(data, 0)
    BY <1>9 DEF CalculateNewBufferPosition
  <2>2. pos'.data_write_pos_ = 0
    BY <1>2, <2>1, Moved
  <2> QED
    BY <2>2, Reads, SizesTyped
<1>10. CASE ~CopiesToFront /\ ~StartsAtFront
  <2>1. pos'.data_write_pos_ = data
    BY <1>10 DEF CalculateNewBufferPosition
  <2>2. CASE Fits
    BY <2>1, <2>2, <1>5
  <2>3. CASE ~Fits
    <3>1. read + size # data
      BY <1>1, <2>3 DEF AllIsNeeded, ReadEnd
    <3>2. read >= data
      BY <1>2, <1>4, <1>10, <2>3, <3>1, SizesTyped DEF CopiesToFront, ReadEnd
    <3>3. read + size <= sync_feeder_buffer_size_
      BY <1>2, <1>4, <1>10, <2>3, <3>2, SizesTyped DEF StartsAtFront, ReadEnd
    <3>4. data + block_size > sync_feeder_buffer_size_
      BY <1>2, <1>5, <2>3, SizesTyped
    <3> HIDE DEF data, read, size, S
    <3>5. CASE size = first_read_size_ /\ read \in {0, first_read_size_}
      BY <1>2, <3>2, <3>3, <3>4, <3>5, Reads, SizesTyped
    <3>6. CASE size = S /\ read >= 0
      <4>1. block_size <= S
        BY DEF S
      <4> QED
        BY <1>2, <3>2, <3>3, <3>4, <3>6, <4>1, SizesTyped
    <3> QED
      BY <1>4, <3>5, <3>6
  <2> QED
    BY <2>2, <2>3
<1> QED
  BY <1>8, <1>9, <1>10

\* Every step keeps the room.
LEMMA RoomKept ==
  ASSUME block_size <= 2 * (frame_size + null_size),
         IInv, FileRoom, ~AllIsNeeded, [Next]_vars
  PROVE  FileRoom'
<1>1. TypeOK /\ feeder'.source = feeder.source
  BY SourceStays DEF IInv
<1>2. SUFFICES ASSUME feeder.source = "file" PROVE Room'
  BY <1>1 DEF FileRoom
<1>3. FileInv /\ Room
  BY <1>2 DEF IInv, FileRoom
<1>4. CASE CalculateNewBufferPosition
  BY <1>1, <1>2, <1>3, <1>4, RoomMade DEF Room
<1>5. CASE SetNewWritePointer
  <2>1. scheduler'.is_locked
    BY <1>1, <1>5, Parts DEF SetNewWritePointer, Schedulers
  <2> QED
    BY <2>1 DEF Room
<1>6. CASE Synchronize
  <2>1. /\ pos'.data_write_pos_ = pos.data_write_pos_
        /\ scheduler'.is_locked <=> scheduler.is_locked
    BY <1>1, <1>6, ReaderForward
  <2> QED
    BY <1>3, <2>1 DEF Room
<1>7. CASE \/ Start \/ Process \/ TestStored \/ NothingStored \/ Stop \/ StopSignal \/ Join
  <2>1. pos' = pos /\ (scheduler'.is_locked <=> scheduler.is_locked)
    BY <1>1, <1>7, WalksApart
  <2> QED
    BY <1>3, <2>1 DEF Room
<1>8. CASE Feeder \/ SpuriousWakeup \/ AskStop \/ UNCHANGED vars
  <2>1. pos' = pos /\ scheduler' = scheduler
    BY <1>8 DEF Feeder, StartProcessing, EndProcessing, FileFeeder, LockBuffer, TestWriteReady,
       Wait, FileFinish, WriteResampledOut, NotEnoughResampled, FileEnds, Radio, AsyncCallback,
       RadioLocked, RadioTimeout, RadioSkip, Unplugged, SpuriousWakeup, AskStop, vars
  <2> QED
    BY <1>3, <2>1 DEF Room
<1> QED
  BY <1>4, <1>5, <1>6, <1>7, <1>8 DEF Next, Scheduler

\* The invariant is kept with the room, too.
LEMMA IInvKeptInRoom == ASSUME IInv, FileRoom, [Next]_vars PROVE IInv'
<1>1. CASE feeder.source = "file"
  BY <1>1, RoomSuffices, IInvKept
<1>2. CASE feeder.source # "file"
  <2>2. TypeOK /\ TypeOK'
    <3>1. UNCHANGED vars => TypeOK'
      BY DEF IInv, vars, TypeOK
    <3> QED
      BY <3>1, SchedulerTyped, FeederTyped DEF IInv, Next
  <2> QED
    BY <1>2, <2>2, SourceStays DEF IInv
<1> QED
  BY <1>1, <1>2

\* In the modes whose frames are as long as a block (I and IV), a block from a file
\* fits wherever the synchronizer has put the read position, and the input is read in
\* one piece, as long as one thing does not happen: that no block fits any more at a
\* moment at which the reader waits for exactly what is stored (scheduler.cc:1277-1376).
THEOREM BlocksFit ==
  ASSUME block_size <= 2 * (frame_size + null_size)
  PROVE  Spec /\ []~AllIsNeeded => [](StreamInOnePiece /\ (feeder.source = "file" => BlockFits))
<1>1. Init => FileRoom
  BY Reads, SizesTyped DEF Init, FileRoom, Room
<1>2. IInv /\ FileRoom /\ ~AllIsNeeded /\ [Next]_vars => IInv' /\ FileRoom'
  BY RoomKept, IInvKeptInRoom
<1>3. IInv /\ FileRoom => StreamInOnePiece /\ (feeder.source = "file" => BlockFits)
  BY IInvSuffices, RoomSuffices
<1> QED
  BY <1>1, <1>2, <1>3, IInvBegins, PTL DEF Spec
=============================================================================
