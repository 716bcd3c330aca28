----------------------------- MODULE AudioPath -----------------------------
(***************************************************************************)
(* The audio path: the scheduler thread writes decoded sound into the      *)
(* BlockingRingBuffer, the audio thread (AudioProcess, Player::Process)    *)
(* feeds it to GStreamer until the scheduler stops it.                     *)
(*                                                                         *)
(* A sample is its number, 1, 2, ... in the order they were written;       *)
(* Silence is a cell that Reset has wiped.  The ring buffer is a           *)
(* SampleQueue (see RingBuffer), except where Reset, which does not take   *)
(* the mutex, meets a WriteInto: then the indices of the one and the cells *)
(* of the other get mixed.  The flags are read and written without the     *)
(* mutex, one step each.                                                   *)
(*                                                                         *)
(* GStreamer is external: appsrc has a queue of buffers, asks for data and *)
(* tells when it has enough, and posts the end of the stream once the      *)
(* queue is played; an element may post an error.                          *)
(***************************************************************************)
EXTENDS Integers, Sequences, FiniteSets

CONSTANTS
  length,              \* of the ring buffer
  buff_chunk_size_,    \* samples of one ReadData, and the threshold to block at
  WriteSizes,          \* samples of one Write
  MaxQueued,           \* buffers after which appsrc has enough
  MaxWritten,          \* bound: samples written
  MaxFlushes,          \* bound: changes of the station
  MaxErrors            \* bound: errors GStreamer posts

ASSUME SizeAssumption == /\ length \in Nat
                         /\ buff_chunk_size_ \in 1 .. length
                         /\ WriteSizes \subseteq 1 .. length

VARIABLES
  ring,    \* cells: what the ring buffer stores; force_read_, last_frame_;
           \* flush_ (of RingSrc)
  gst,     \* sources: the idle sources attached; source_id: the one StopFeed
           \* removes; adding: the one StartFeed has added and not noted yet;
           \* queued: buffers in appsrc; eos: end_of_stream has been called
  audio,   \* the audio thread: its place; the source whose ReadData runs, and
           \* what that has read
  sched,   \* the scheduler thread: its place; the size of the WriteInto in
           \* progress, and whether Reset has met it; finish_work; how it stops
  past     \* history, see Init

vars == <<ring, gst, audio, sched, past>>

Silence == 0
None == 0

Init ==
  /\ ring = [cells |-> << >>, force_read_ |-> FALSE, last_frame_ |-> FALSE, flush_ |-> FALSE]
  /\ gst = [sources |-> {}, source_id |-> None, adding |-> None, queued |-> 0, eos |-> FALSE]
  /\ audio = [at |-> "test", by |-> None, data |-> << >>]
  /\ sched = [at |-> "free", size |-> 0, met |-> FALSE, finish_work |-> FALSE, stop |-> "no"]
  /\ past = [written |-> 0,      \* samples written
             last |-> 0,         \* the last sample GStreamer was given
             given |-> 0,        \* how many it was given
             base |-> 0,         \* samples written when the sound was last known whole
             spoilt |-> FALSE,   \* sound was dropped since, for any reason
             old |-> 0,          \* samples up to this one belong to a station given up
             stale |-> 0,        \* chunks of it given to GStreamer afterwards
             flushes |-> 0, errors |-> 0]

-----------------------------------------------------------------------------
(* The scheduler thread.  The mutex of the ring buffer is held while       *)
(* sched.size > 0.                                                         *)

Free == sched.at = "free" /\ ~sched.finish_work

\* AudioDecoder::Write, with the mutex taken ...
Write(n) == /\ Free
            /\ past.written + n <= MaxWritten
            /\ sched' = [sched EXCEPT !.at = "write", !.size = n]
            /\ UNCHANGED <<ring, gst, audio, past>>

NewCells == [i \in 1 .. sched.size |-> past.written + i]

Zeros(n) == [i \in 1 .. n |-> Silence]

Surrounded(new, k, m) == Zeros(k) \o new \o Zeros(m)

\* What is left of a WriteInto that a Reset has met: wiped cells around the
\* new ones, in their midst, or instead of them.
Spared(kept) == [i \in 1 .. sched.size |-> IF i \in kept THEN NewCells[i] ELSE Silence]
Torn == {q \in {Surrounded(new, k, m) :
                 new \in {<< >>} \cup {Spared(kept) : kept \in SUBSET (1 .. sched.size)},
                 k \in 0 .. length, m \in 0 .. length} :
         Len(q) <= length}

\* The oldest samples are given up for the new ones.
Newest(seq) == IF Len(seq) > length
               THEN SubSeq(seq, Len(seq) - length + 1, Len(seq)) ELSE seq

\* Faulty variant: data is there, nobody is told.
NotWoken == audio

\* pthread_cond_signal: the audio thread, if it waits, tests its condition again.
Woken == [audio EXCEPT !.at = IF @ = "waiting" THEN "read" ELSE @]

\* ... the samples copied, the reader signalled and the mutex given back.
WriteInto ==
  /\ sched.at = "write"
  /\ \E q \in IF sched.met THEN Torn ELSE {Newest(ring.cells \o NewCells)} :
       ring' = [ring EXCEPT !.cells = q]
  /\ audio' = Woken
  /\ past' = [past EXCEPT !.written = @ + sched.size,
                          !.spoilt = @ \/ sched.met
                                       \/ Len(ring.cells) + sched.size > length]
  /\ sched' = [sched EXCEPT !.at = "free", !.size = 0, !.met = FALSE]
  /\ UNCHANGED gst

\* The user has changed the station (Process) ...
ChangeStation == /\ Free
                 /\ past.flushes < MaxFlushes
                 /\ past' = [past EXCEPT !.flushes = @ + 1]
                 /\ sched' = [sched EXCEPT !.at = "set_flush"]
                 /\ UNCHANGED <<ring, gst, audio>>

\* Between set_state(PLAYING) and set_state(READY).
Playing == audio.at \in {"loop", "read", "waiting", "got", "push", "ready"}

\* ... or the scheduler stops.
StopAudio(how) ==
  /\ Free
  /\ sched' = [sched EXCEPT !.finish_work = TRUE, !.stop = how,
                            !.at = IF how = "LastFrame" THEN "set_last" ELSE "set_flush"]
  /\ past' = [past EXCEPT !.spoilt = @ \/ ~Playing]
  /\ UNCHANGED <<ring, gst, audio>>

\* The audio thread has wiped the buffer and is about to undo an earlier Flush.
Resetting == audio.at \in {"clear_force", "clear_last", "clear_flush"}

\* RingSrc::set_flush(true) sets its own flag, then the one of the ring buffer.
set_flush ==
  /\ sched.at = "set_flush"
  /\ ring' = [ring EXCEPT !.flush_ = TRUE]
  /\ past' = [past EXCEPT !.spoilt = TRUE,
                          !.old = IF Resetting THEN @ ELSE past.written,
                          !.stale = IF Resetting THEN @ ELSE 0]
  /\ sched' = [sched EXCEPT !.at = "set_force"]
  /\ UNCHANGED <<gst, audio>>

set_force_read == /\ sched.at = "set_force"
                  /\ ring' = [ring EXCEPT !.force_read_ = TRUE]
                  /\ sched' = [sched EXCEPT !.at = "signal"]
                  /\ UNCHANGED <<gst, audio, past>>

set_last_frame == /\ sched.at = "set_last"
                  /\ ring' = [ring EXCEPT !.last_frame_ = TRUE]
                  /\ sched' = [sched EXCEPT !.at = "signal"]
                  /\ UNCHANGED <<gst, audio, past>>

\* The mutex makes sure that the reader is not between its test and its wait.
ForceSignal == /\ sched.at = "signal"
               /\ audio' = Woken
               /\ sched' = [sched EXCEPT !.at = IF sched.finish_work THEN "join" ELSE "free"]
               /\ UNCHANGED <<ring, gst, past>>

\* threads_[AUDIO_PROCESS_THREAD_ID].finish() returns.
Join == /\ sched.at = "join"
        /\ audio.at = "done"
        /\ sched' = [sched EXCEPT !.at = "joined"]
        /\ UNCHANGED <<ring, gst, audio, past>>

Scheduler == \/ \E n \in WriteSizes : Write(n)
             \/ WriteInto
             \/ ChangeStation
             \/ \E how \in {"LastFrame", "Flush"} : StopAudio(how)
             \/ set_flush \/ set_force_read \/ set_last_frame \/ ForceSignal
             \/ Join

-----------------------------------------------------------------------------
(* The audio thread *)

Goto(place) == audio' = [audio EXCEPT !.at = place]

\* AudioProcess asks for finish_work; Player::Process sets the pipeline to
\* playing and runs the main loop.
Process == /\ audio.at = "test"
           /\ Goto(IF sched.finish_work THEN "done" ELSE "loop")
           /\ past' = IF /\ ~sched.finish_work /\ sched.at # "set_force"
                         /\ ring.cells = << >> /\ ~ring.force_read_ /\ ~ring.flush_
                      THEN [past EXCEPT !.spoilt = FALSE, !.base = past.written, !.given = 0]
                      ELSE past
           /\ UNCHANGED <<ring, gst, sched>>

\* The main loop runs an idle source.
ReadData(i) == /\ audio.at = "loop"
               /\ audio' = [audio EXCEPT !.at = "read", !.by = i]
               /\ UNCHANGED <<ring, gst, sched, past>>

MayRead == Len(ring.cells) >= buff_chunk_size_ \/ ring.last_frame_ \/ ring.force_read_

\* Faulty variant: a short read leaves what it has read.
ReadFromKeeping ==
  /\ audio.at = "read"
  /\ sched.size = 0
  /\ LET n == IF Len(ring.cells) < buff_chunk_size_ THEN Len(ring.cells) ELSE buff_chunk_size_
     IN IF MayRead
        THEN /\ audio' = [audio EXCEPT !.at = "got", !.data = SubSeq(ring.cells, 1, n)]
             /\ ring' = [ring EXCEPT !.cells = IF n < buff_chunk_size_ THEN @
                                              ELSE SubSeq(@, n + 1, Len(@))]
        ELSE Goto("waiting") /\ UNCHANGED ring
  /\ UNCHANGED <<gst, sched, past>>

\* BlockingRingBuffer::ReadFrom, under the mutex: wait or read.
ReadFrom ==
  /\ audio.at = "read"
  /\ sched.size = 0
  /\ LET n == IF Len(ring.cells) < buff_chunk_size_ THEN Len(ring.cells) ELSE buff_chunk_size_
     IN IF MayRead
        THEN /\ audio' = [audio EXCEPT !.at = "got", !.data = SubSeq(ring.cells, 1, n)]
             /\ ring' = [ring EXCEPT !.cells = SubSeq(@, n + 1, Len(@))]
        ELSE Goto("waiting") /\ UNCHANGED ring
  /\ UNCHANGED <<gst, sched, past>>

SpuriousWakeup == /\ audio.at = "waiting"
                  /\ Goto("read")
                  /\ UNCHANGED <<ring, gst, sched, past>>

Back == audio' = [at |-> "loop", by |-> None, data |-> << >>]

\* Nothing read, or flushed: the stream ends and this source is removed.
EndOfStream == /\ audio.at = "got"
               /\ audio.data = << >> \/ ring.flush_
               /\ gst' = [gst EXCEPT !.eos = TRUE, !.sources = @ \ {audio.by}]
               /\ Back
               /\ UNCHANGED <<ring, sched, past>>

GoOn == /\ audio.at = "got"
        /\ audio.data # << >> /\ ~ring.flush_
        /\ Goto("push")
        /\ UNCHANGED <<ring, gst, sched, past>>

\* StopFeed, when appsrc has enough.
StopFeed(g) == IF g.queued >= MaxQueued /\ g.source_id # None
               THEN [g EXCEPT !.sources = @ \ {g.source_id}, !.source_id = None] ELSE g

LastOf(seq, otherwise) ==
  LET sound == {seq[i] : i \in DOMAIN seq} \ {Silence}
  IN IF sound = {} THEN otherwise ELSE CHOOSE m \in sound : \A k \in sound : k <= m

IsStale(seq) == \E i \in DOMAIN seq : seq[i] # Silence /\ seq[i] <= past.old

\* The chunk is pushed; a stream that has ended does not take it.
PushBuffer ==
  /\ audio.at = "push"
  /\ IF gst.eos
     THEN /\ gst' = [gst EXCEPT !.sources = @ \ {audio.by}]
          /\ past' = [past EXCEPT !.spoilt = TRUE]
     ELSE /\ gst' = [StopFeed(gst) EXCEPT !.queued = @ + 1]
          /\ past' = [past EXCEPT !.last = LastOf(audio.data, @),
                                  !.given = @ + Len(audio.data),
                                  !.stale = IF IsStale(audio.data) THEN @ + 1 ELSE @]
  /\ Back
  /\ UNCHANGED <<ring, sched>>

\* BusCall: the end of the stream has come through, or an element has failed.
BusCall == /\ audio.at = "loop"
           /\ \/ gst.eos /\ gst.queued = 0 /\ UNCHANGED past
              \/ /\ past.errors < MaxErrors
                 /\ past' = [past EXCEPT !.errors = @ + 1, !.spoilt = TRUE]
           /\ Goto("ready")
           /\ UNCHANGED <<ring, gst, sched>>

\* gst_element_set_state(READY) waits for the streaming thread and drops the queue.
Ready == /\ audio.at = "ready"
         /\ gst.adding = None
         /\ gst' = [gst EXCEPT !.queued = 0, !.eos = FALSE]
         /\ Goto("reset")
         /\ UNCHANGED <<ring, sched, past>>

\* ResetSrc, one shared variable after the other.
ResetBuffer == /\ audio.at = "reset"
               /\ ring' = [ring EXCEPT !.cells = << >>]
               /\ sched' = [sched EXCEPT !.met = sched.size > 0]
               /\ Goto("clear_force")
               /\ UNCHANGED <<gst, past>>

ClearForceRead == /\ audio.at = "clear_force"
                  /\ ring' = [ring EXCEPT !.force_read_ = FALSE]
                  /\ Goto("clear_last")
                  /\ UNCHANGED <<gst, sched, past>>

ClearLastFrame == /\ audio.at = "clear_last"
                  /\ ring' = [ring EXCEPT !.last_frame_ = FALSE]
                  /\ gst' = [gst EXCEPT !.source_id = None]
                  /\ Goto("clear_flush")
                  /\ UNCHANGED <<sched, past>>

ClearFlush == /\ audio.at = "clear_flush"
              /\ ring' = [ring EXCEPT !.flush_ = FALSE]
              /\ Goto("test")
              /\ UNCHANGED <<gst, sched, past>>

Audio == \/ Process
         \/ \E i \in gst.sources : ReadData(i)
         \/ ReadFrom \/ EndOfStream \/ GoOn \/ PushBuffer
         \/ BusCall \/ Ready
         \/ ResetBuffer \/ ClearForceRead \/ ClearLastFrame \/ ClearFlush

-----------------------------------------------------------------------------
(* GStreamer's streaming thread *)

\* appsrc asks for data while it is not full.  StartFeed adds an idle source ...
NeedData == /\ Playing
            /\ ~gst.eos /\ gst.queued <= MaxQueued
            /\ gst.source_id = None /\ gst.adding = None
            /\ LET free == (1 .. Cardinality(gst.sources) + 1) \ gst.sources
                   id == CHOOSE i \in free : \A j \in free : i <= j
               IN gst' = [gst EXCEPT !.sources = @ \cup {id}, !.adding = id]
            /\ UNCHANGED <<ring, audio, sched, past>>

\* ... and notes it; the main loop may have run it meanwhile.
StartFeed == /\ gst.adding # None
             /\ gst' = [gst EXCEPT !.source_id = gst.adding, !.adding = None]
             /\ UNCHANGED <<ring, audio, sched, past>>

Play == /\ Playing
        /\ gst.queued > 0
        /\ gst' = [gst EXCEPT !.queued = @ - 1]
        /\ UNCHANGED <<ring, audio, sched, past>>

Next == Scheduler \/ Audio \/ SpuriousWakeup \/ NeedData \/ StartFeed \/ Play

Spec == Init /\ [][Next]_vars

\* The threads run; the decoder need not write, the user need not act.
SchedulerGoesOn == WriteInto \/ set_flush \/ set_force_read \/ set_last_frame
                   \/ ForceSignal \/ Join

FairSpec == /\ Spec
            /\ WF_vars(SchedulerGoesOn)
            /\ WF_vars(Audio)
            /\ WF_vars(NeedData \/ StartFeed)
            /\ WF_vars(Play)

-----------------------------------------------------------------------------
(* Properties *)

\* Whatever overwriting, resetting and stopping has gone on, the sound that is
\* read and stored comes in the order it was written, after what GStreamer has
\* already been given, and no sample comes twice (blocking_ring_buffer.cc:43-65).
SoundInOrder ==
  LET coming == audio.data \o ring.cells
      sound == {i \in DOMAIN coming : coming[i] # Silence}
  IN /\ \A i \in sound : past.last < coming[i] /\ coming[i] <= past.written
     /\ \A i, j \in sound : i < j => coming[i] < coming[j]

\* After Flush at most one chunk of the station before is still fed, the one
\* that ReadData had already tested (ring_src.cc:79) -- unless the Flush came
\* while ResetSrc was undoing an earlier one.
FlushDropsOldSound == past.stale <= 1

\* When the file ends, all the sound written since the player last started
\* afresh has been given to GStreamer and played before the audio thread is
\* gone, unless something was dropped on purpose: by Flush, by a full buffer,
\* by an error, or because the player was between two rounds when it was told
\* to stop (scheduler.cc:1625, blocking_ring_buffer.cc:46).
LastFramePlayed ==
  audio.at = "done" /\ sched.stop = "LastFrame" /\ ~past.spoilt
    => past.given = past.written - past.base

\* What is heard, all in all: in order, of this station, and to the end.
SoundRight == SoundInOrder /\ FlushDropsOldSound /\ LastFramePlayed

\* Stop waits for the audio thread, and the audio thread always comes to an
\* end: it neither misses the signal nor loses the flag to ResetSrc while
\* finish_work is unseen (scheduler.cc:1621-1631).
AudioEnds == sched.at = "join" ~> sched.at = "joined"

\* Sound does not get stuck: as long as the audio thread lives, a chunk that
\* is stored is read some day, whatever StartFeed and StopFeed have done to
\* each other (ring_src.cc:102-137).
SoundGetsOut == <>[](audio.at = "done" \/ Len(ring.cells) < buff_chunk_size_)

\* Neither the sound nor the thread that feeds it gets stuck.
AudioGoesOn == AudioEnds /\ SoundGetsOut

\* "Feeding should be stopped" (ring_src.h:61): after StopFeed has removed the
\* source it knows, none is left that goes on feeding.
FeedStops == [][audio.at = "push" /\ audio'.at = "loop" /\ ~gst.eos
                /\ gst.queued >= MaxQueued /\ gst.source_id # None
                  => gst'.sources = {}]_vars
=============================================================================
