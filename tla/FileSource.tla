----------------------------- MODULE FileSource -----------------------------
(* The feeder of a recording reads it block by block, brings each to the      *)
(* sampling frequency that the receiver has estimated, and keeps what comes   *)
(* out in a ring buffer of four blocks, from which the scheduler is given     *)
(* whole blocks (file_data_feeder.cc, resampling_ring_buffer.cc).  A cell is  *)
(* a pair of I and Q.                                                         *)
EXTENDS RingBuffer

CONSTANT
  AtTheEnd   \* the ratio may also change while head rests behind the last cell

VARIABLES
  ratio,     \* of the frequencies: a block becomes as long, shorter or longer
  taken      \* samples given to the scheduler (history)

filevars == <<ratio, taken>>

inner_buff_size == length \div 4
Resampled == [equal |-> {inner_buff_size},
              shorter |-> {inner_buff_size - 1, inner_buff_size},
              longer |-> {inner_buff_size, inner_buff_size + 1}][ratio]

HeadToRightEnd == length - head

\* n samples come out of the resampler, as many at a time as there is room up to the
\* right end; it is not asked again once there is none.
WriteResampledInto(n) ==
  LET stored == IF FreeSpace = 0 \/ HeadToRightEnd = 0 THEN 0
                ELSE IF n > FreeSpace THEN FreeSpace ELSE n
  IN /\ last_op_write' = TRUE
     /\ head' = IF stored = 0 THEN head ELSE (head + stored) % length
     /\ buffer' = Filled(stored)
     /\ written' = written + stored
     /\ UNCHANGED tail

EnoughDataInBuffer == DataStored >= inner_buff_size

ReadFromFile ==
  /\ ~EnoughDataInBuffer
  /\ written + inner_buff_size < MaxWritten
  /\ \/ ratio = "equal" /\ sWriteInto(inner_buff_size)
     \/ ratio # "equal" /\ \E n \in Resampled : WriteResampledInto(n)
  /\ UNCHANGED filevars

WriteResampledOut ==
  /\ EnoughDataInBuffer
  /\ sReadFrom(inner_buff_size)
  /\ taken' = taken + inner_buff_size
  /\ UNCHANGED ratio

\* The scheduler has a new estimate, by which ReadAsync picks its ratio.
HandleDrifts ==
  /\ ratio' \in {"equal", "shorter", "longer"} \ {ratio}
  /\ AtTheEnd \/ head < length \/ ratio' = "equal"
  /\ UNCHANGED <<vars, taken>>

FileInit == Init /\ ratio = "equal" /\ taken = 0
FileNext == ReadFromFile \/ WriteResampledOut \/ HandleDrifts

-----------------------------------------------------------------------------
(* Properties *)

\* What is counted as stored is what was written and not yet taken: nothing of the
\* recording is given to the receiver twice or before it was read, whenever its
\* sampling frequency is corrected (DataStored, ring_buffer.h:67).
StoredAsCounted == DataStored = written - taken
==============================================================================
