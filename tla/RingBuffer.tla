----------------------------- MODULE RingBuffer -----------------------------
(***************************************************************************)
(* RingBuffer<T> (RingBuffer/ring_buffer.h): `length' cells, two indices   *)
(* and a flag that tells full from empty when the indices meet.            *)
(*                                                                         *)
(* The value of the k-th sample ever written is its number k, so that a    *)
(* cell says which sample it holds.  `buffer' has one cell more than the   *)
(* allocation: cell `length' is the memory behind it.  The bulk operations *)
(* leave an index on `length' ("past the end") instead of wrapping it,     *)
(* the element operations wrap it with %.                                  *)
(***************************************************************************)
EXTENDS Integers

CONSTANTS
  length,      \* number of cells
  MaxWritten,  \* bound: samples written in one behaviour
  Garbage      \* what an unwritten cell holds

ASSUME LengthAssumption == length \in Nat \ {0}
ASSUME BoundAssumption == MaxWritten \in Nat
ASSUME GarbageAssumption == Garbage \notin Int

VARIABLES
  head,           \* index of the next write, 0 .. length
  tail,           \* index of the next read, 0 .. length
  last_op_write,  \* TRUE iff the last operation was a write
  buffer,         \* cell -> number of the sample it holds
  written         \* samples written so far (history)

vars == <<head, tail, last_op_write, buffer, written>>

Cells == 0 .. length

DataStored ==
  IF head > tail THEN head - tail
  ELSE IF head < tail THEN length - tail + head
  ELSE IF last_op_write THEN length ELSE 0

FreeSpace == length - DataStored

\* An index after n <= length cells: the while loops of ReadFrom and WriteInto.
Advance(i, n) == IF n > length - i THEN n - (length - i) ELSE i + n

\* How far behind index i the cell c is, going right and wrapping.
Offset(i, c) == IF c >= i THEN c - i ELSE c - i + length

\* Faulty variant of Filled: behind the wrap the source is read from its beginning again.
FilledFromStart(n) == [c \in Cells |-> IF c < length /\ Offset(head, c) < n
                                       THEN written + (IF c >= head THEN c - head ELSE c)
                                       ELSE buffer[c]]

\* The cells after n samples are copied in at head.
Filled(n) == [c \in Cells |-> IF c < length /\ Offset(head, c) < n
                              THEN written + Offset(head, c)
                              ELSE buffer[c]]

Init == /\ head = 0
        /\ tail = 0
        /\ last_op_write = FALSE
        /\ buffer = [c \in Cells |-> Garbage]
        /\ written = 0

-----------------------------------------------------------------------------
(* Bulk operations: the clients are the sample file reader (sReadFrom,     *)
(* sWriteInto) and the audio buffer (sReadFrom, WriteInto, Reset).         *)

ReadFrom(n) == /\ last_op_write' = FALSE
               /\ tail' = Advance(tail, n)
               /\ UNCHANGED <<head, buffer, written>>

WriteInto(n) == /\ written + n <= MaxWritten
                /\ last_op_write' = TRUE
                /\ head' = Advance(head, n)
                /\ tail' = IF n > FreeSpace THEN Advance(head, n) ELSE tail
                /\ buffer' = Filled(n)
                /\ written' = written + n

\* Faulty variant of sReadFrom: the request is not cut to what is stored.
ReadRegardless(n) == ReadFrom(n)

sReadFrom(n) == ReadFrom(IF n > DataStored THEN DataStored ELSE n)

sWriteInto(n) == WriteInto(IF n > FreeSpace THEN FreeSpace ELSE n)

Reset == /\ head' = 0
         /\ tail' = 0
         /\ last_op_write' = FALSE
         /\ buffer' = [c \in Cells |-> IF c < length THEN Garbage ELSE buffer[c]]
         /\ UNCHANGED written

Initialize == /\ written + length <= MaxWritten
              /\ head' = 0
              /\ tail' = 0
              /\ last_op_write' = TRUE
              /\ buffer' = [c \in Cells |-> IF c < length THEN written + c
                                                          ELSE buffer[c]]
              /\ written' = written + length

\* ReadFrom "shouldn't really be used unless you know if there is enough data".
Bulk(n) == \/ n <= DataStored /\ ReadFrom(n)
           \/ WriteInto(n)
           \/ sReadFrom(n)
           \/ sWriteInto(n)

Next == \/ \E n \in 1 .. length : Bulk(n)
        \/ Reset
        \/ Initialize

Spec == Init /\ [][Next]_vars

-----------------------------------------------------------------------------
(* Element operations: the client is the running DC estimate.              *)

ReadNext == /\ tail' = (tail + 1) % length
            /\ last_op_write' = FALSE
            /\ UNCHANGED <<head, buffer, written>>

WriteNext == /\ written < MaxWritten
             /\ buffer' = [buffer EXCEPT ![head] = written]
             /\ tail' = IF head = tail /\ last_op_write
                        THEN (tail + 1) % length ELSE tail
             /\ head' = (head + 1) % length
             /\ last_op_write' = TRUE
             /\ written' = written + 1

sReadNext == IF DataStored > 0 THEN ReadNext ELSE UNCHANGED vars

sWriteNext == FreeSpace > 0 /\ WriteNext

Element == \/ DataStored > 0 /\ ReadNext
           \/ WriteNext
           \/ sReadNext
           \/ sWriteNext

ElementNext == Element \/ Reset \/ Initialize

ElementSpec == Init /\ [][ElementNext]_vars

\* The cells Sum adds up: it starts at tail and stops on meeting head.
SumVisits(k) == /\ (tail + k) % length = head
                /\ \A j \in 1 .. k - 1 : (tail + j) % length # head

-----------------------------------------------------------------------------
(* Every client the class's interface admits: requests of no samples, and  *)
(* both families of operations on one buffer.                              *)

ZeroSpec == Init /\ [][Next \/ Bulk(0)]_vars

MixedSpec == Init /\ [][Next \/ Element]_vars

-----------------------------------------------------------------------------
(* Properties *)

TypeOK == /\ head \in Cells
          /\ tail \in Cells
          /\ last_op_write \in BOOLEAN
          /\ buffer \in [Cells -> Nat \cup {Garbage}]
          /\ written \in Nat

\* The samples counted as stored are the last ones written, in order: no read
\* skips, repeats or invents a sample, whatever wrapping and overwriting the
\* reads and writes have done (ReadFrom and WriteInto, ring_buffer.h:144-190).
Coherent ==
  \A c \in Cells :
    c < length /\ Offset(tail, c) < DataStored
      => buffer[c] = written - DataStored + Offset(tail, c)

\* A bulk write never touches the memory behind the allocation, although head
\* may rest on index `length' (ring_buffer.h:176-185).
NoWritePastEnd == buffer[length] = Garbage

\* Sum walks from tail until it meets head; it must visit each stored sample
\* once and stop (ring_buffer.h:229-242).
SumVisitsStored == DataStored > 0 => SumVisits(DataStored)

\* The buffer is a FIFO queue that forgets the oldest samples when it is full
\* (ring_buffer.h:50-70).
Q == INSTANCE SampleQueue WITH oldest <- written - DataStored
IsSampleQueue == Q!Spec
=============================================================================
