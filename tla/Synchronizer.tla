---------------------------- MODULE Synchronizer ----------------------------
(* How the receiver finds the frames: DetectMode measures the distance of two *)
(* null symbols in raw samples, then DetectAndDecodeNULL finds the null symbol *)
(* of each frame, in a short window if it is where it should be and in the     *)
(* whole frame if not, and the scheduler moves its read position accordingly.  *)
(* The mode is found with the code's own numbers, in a signal that is as loud  *)
(* everywhere but in its null symbols; the null symbol of a frame in frames of *)
(* a few samples, whose sums are computed as the code does.                    *)
EXTENDS Integers, Sequences

CONSTANTS
  Begins,            \* [mode, first]: where the first null symbol of a recording is
  null_size,         \* samples of the small frames' null symbols
  frame_size,        \* of the small frames
  null_err,          \* how far off the middle the null symbol may be
  Clock,             \* samples a frame may be longer or shorter by
  Loud, Quiet,       \* patterns of amplitudes: of the symbols, and of null symbols
  MaxUpsets          \* bound: frames without a null symbol, or samples lost

ASSUME SynchronizerAssumption ==
  /\ null_size \in Nat /\ null_size % 2 = 0 /\ null_size > 0
  /\ frame_size \in Nat /\ frame_size >= 3 * null_size
  /\ null_err \in Nat /\ 2 * null_err < null_size /\ MaxUpsets \in Nat

VARIABLES
  begin,             \* the recording whose mode is to be found, then NoBegin
  detected,          \* sync_detect_
  next_null,         \* small frames: the next null symbol, counted from the read position
  null_quality,      \* sync_feedback_.null_quality; "none" after samples were lost
  upsets

synchronizer_vars == <<begin, detected, next_null, null_quality, upsets>>

NoBegin == [mode |-> "none", first |-> 0]
Least(a, b) == IF a < b THEN a ELSE b

-----------------------------------------------------------------------------
(* DetectMode *)

FrameSize(mode) == [I |-> 196608, II |-> 49152, III |-> 49152, IV |-> 98304][mode]
NullSize(mode) == [I |-> 2656, II |-> 664, III |-> 345, IV |-> 1328][mode]

delay == 100
skip == 20000
read_size == 600000
\* The sum that loses an eighth with each sample has fallen from eight amplitudes
\* below one after so many silent samples: 7^16 < 8^15.
Decay == 16
offset_ == 1000

NullStarts(b) ==
  {b.first + k * FrameSize(b.mode) : k \in 0..((read_size - b.first) \div FrameSize(b.mode))}
\* From sample i on, the first at which the sum is below the amplitude of the sample
\* delay before: both sides of a null symbol's beginning.
FiresFrom(b, i) ==
  LET at(null) == IF i > null + Decay THEN i ELSE null + Decay
      fires == {null \in NullStarts(b) : at(null) < Least(null + NullSize(b.mode), null + delay)
                                         /\ null > 0 /\ at(null) < read_size - 1}
  IN IF fires = {} THEN read_size ELSE at(CHOOSE null \in fires : \A other \in fires : null <= other)

\* Mutated: there is no skipping, one null symbol is taken for three.
FiresAgain(b, i) == FiresFrom(b, i + 1)
FiresNext(b, i) == FiresFrom(b, i + skip + 1)

Silent(b, i) == \E null \in NullStarts(b) : i \in null..(null + NullSize(b.mode) - 1)
\* Whether the second of the two, seen from its end, is that of mode II or III: in mode III
\* it is over after 345 samples.
LooksLikeIII(b, end) ==
  LET loud(from, upto) == (IF Silent(b, from) THEN 0 ELSE 1) + (IF Silent(b, upto - 1) THEN 0 ELSE 1)
  IN loud(end + 365, end + 644) > 3 * loud(end + 20, end + 325)

Near(samples, size) == samples > size - offset_ /\ samples < size + offset_

\* The first null symbol is passed over: it may have begun before the recording.
DetectedMode(b) ==
  LET first == FiresFrom(b, delay)
      start == FiresNext(b, first)
      end == FiresNext(b, start)
      samples == end - start
  IN [null_position |-> start,
      mode |-> IF end >= read_size THEN "unknown"
               ELSE IF Near(samples, FrameSize("I")) THEN "I"
               ELSE IF Near(samples, FrameSize("IV")) THEN "IV"
               ELSE IF ~Near(samples, FrameSize("II")) THEN "unknown"
               ELSE IF LooksLikeIII(b, end) THEN "III" ELSE "II"]

-----------------------------------------------------------------------------
(* DetectAndDecodeNULL *)

\* abs_data_: the sum of the window of null_size samples from each position on.
AbsSum(abs_data, upto) ==
  LET sum[i \in 0..(upto - 1)] ==
        IF i = 0 THEN LET first[k \in 0..null_size] == IF k = 0 THEN 0 ELSE first[k - 1] + abs_data[k - 1]
                      IN first[null_size]
        ELSE sum[i - 1] - abs_data[i - 1] + abs_data[null_size + i - 1]
  IN <<sum[0]>> \o [i \in 1..(upto - 1) |-> sum[i]]
MinPos(abs_sum) ==
  (CHOOSE i \in DOMAIN abs_sum :
     /\ \A j \in DOMAIN abs_sum : abs_sum[i] <= abs_sum[j]
     /\ \A j \in 1..(i - 1) : abs_sum[i] < abs_sum[j]) - 1
Twice(max, min) == max >= 2 * min

\* Where the loud energy is taken: a null symbol's length away, inside the frame.
Beyond(min_pos) == IF min_pos < frame_size - null_size THEN min_pos + null_size ELSE min_pos - null_size

DetectAndDecodeNULL(abs_data) ==
  LET short == AbsSum(abs_data, null_size)
      min_pos == MinPos(short)
      max_energy == short[1] + short[null_size] - short[min_pos + 1]
      abs(n) == IF n < 0 THEN -n ELSE n
      long == AbsSum(abs_data, frame_size)
      long_pos == MinPos(long)
  IN IF ~(abs(null_size - 2 * min_pos) > 2 * null_err) /\ Twice(max_energy, short[min_pos + 1])
     THEN [null_quality |-> "OK", null_position |-> min_pos]
     ELSE IF Twice(long[Beyond(long_pos) + 1], long[long_pos + 1])
     THEN [null_quality |-> "SHIFT", null_position |-> long_pos]
     ELSE [null_quality |-> "NOT_DETECTED", null_position |-> 0]

-----------------------------------------------------------------------------
(* The scheduler's frames. *)

SynchronizerInit ==
  /\ begin \in Begins
  /\ detected = [mode |-> "unknown", null_position |-> 0]
  /\ next_null = 0
  /\ null_quality = "none"
  /\ upsets = 0

\* The mode is found, and the read position moves on by one frame and to half a null
\* symbol before the null symbol that is expected there.
DetectMode ==
  /\ detected.mode = "unknown"
  /\ detected' = DetectedMode(begin)
  /\ UNCHANGED <<begin, next_null, null_quality, upsets>>

\* From here on in small frames: the null symbol is anywhere within the tolerance.
FirstFrame ==
  /\ detected.mode # "unknown" /\ begin # NoBegin
  /\ begin' = NoBegin
  /\ detected' = [mode |-> detected.mode, null_position |-> 0]
  /\ next_null' \in (null_size \div 2 - null_err)..(null_size \div 2 + null_err)
  /\ UNCHANGED <<null_quality, upsets>>

\* Mutated: half a null symbol is not taken off.
MovedToNull(position) == position
\* The read position is set half a null symbol before the null symbol, unless none was found.
Moved(position) == position - (null_size \div 2)

\* One frame with its null symbol at next_null, or (muted is FALSE) without one.
Signal(loud, quiet, muted) ==
  [i \in 0..(frame_size + null_size - 2) |->
     IF muted /\ ((i - next_null) % frame_size) < null_size THEN quiet[(i % Len(quiet)) + 1]
     ELSE loud[(i % Len(loud)) + 1]]
Frame(muted) ==
  /\ begin = NoBegin
  /\ \E loud \in Loud, quiet \in Quiet, clock \in -Clock..Clock :
       \E found \in {DetectAndDecodeNULL(Signal(loud, quiet, muted))} :
         /\ null_quality' = found.null_quality
         /\ next_null' = (next_null + clock
                          - (IF found.null_quality = "NOT_DETECTED" THEN 0
                             ELSE Moved(found.null_position))) % frame_size
  /\ UNCHANGED <<begin, detected>>

Process == Frame(TRUE) /\ UNCHANGED upsets
Upset == upsets < MaxUpsets /\ upsets' = upsets + 1
ProcessWithoutNull == Upset /\ Frame(FALSE)
SamplesLost ==
  /\ Upset
  /\ begin = NoBegin
  /\ next_null' \in 0..(frame_size - 1)
  /\ null_quality' = "none"
  /\ UNCHANGED <<begin, detected>>

SynchronizerNext == DetectMode \/ FirstFrame \/ Process \/ ProcessWithoutNull \/ SamplesLost

-----------------------------------------------------------------------------
(* Properties. *)

\* Wherever in a frame the recording begins, its mode is found, and the frame after
\* is looked for where its null symbol is in the short search's tolerance of 50
\* samples (DetectMode, and the move in Scheduler::Sync).
ModeFound ==
  \/ begin = NoBegin
  \/ detected.null_position = 0
  \/ /\ detected.mode = begin.mode
     /\ \E null \in NullStarts(begin) : detected.null_position - null \in 0..50

\* A null symbol is never missed, and one that is where it should be is found without
\* the long search; wherever it was, the next one is then in the middle of the short
\* window but for the clock. A frame without one is never taken for one that has it
\* (DetectAndDecodeNULL, and the moves for NULL_OK and NULL_SHIFT).
NullFollowed ==
  [][begin = NoBegin /\ null_quality' # "none" =>
       IF upsets' # upsets THEN null_quality' = "NOT_DETECTED"
       ELSE /\ null_quality' # "NOT_DETECTED"
            /\ next_null - (null_size \div 2) \in -null_err..null_err => null_quality' = "OK"
            /\ next_null' - (null_size \div 2) \in -Clock..Clock
    ]_synchronizer_vars
=============================================================================
