------------------------ MODULE BuildingBlocksProofs ------------------------
(* What the receiver's parts are built from is right for every length of a     *)
(* buffer and every number of samples, threads and requests.  The ring buffer: *)
(* its operations keep the stored samples in order and inside the allocation,  *)
(* and implement SampleQueue.  Those of the file reader keep them in order     *)
(* too, and give none twice but in one step, which is named.  Worker threads   *)
(* and event queue: nothing is lost, nothing is slept on, and they             *)
(* implement JobService, as long as the scheduler waits for a thread's report  *)
(* before it resumes that thread again.                                        *)
EXTENDS FileSource, WorkerThread, FiniteSetTheorems, SequenceTheorems, TLAPS

-----------------------------------------------------------------------------
(* The ring buffer. *)


\* A buffer whose indices have wrapped to the same place is full or empty,
\* and never stores more than was written.
IInv == /\ TypeOK
        /\ written >= DataStored
        /\ Coherent
        /\ NoWritePastEnd

USE LengthAssumption, BoundAssumption, GarbageAssumption

\* The number of stored samples lies between 0 and length.
LEMMA StoredBounds ==
  ASSUME TypeOK
  PROVE  DataStored \in 0 .. length
BY DEF TypeOK, DataStored, Cells

\* Walking at most `length' cells to the right stays on an index.
LEMMA AdvanceInCells ==
  ASSUME NEW i \in Cells, NEW n \in 0 .. length
  PROVE  Advance(i, n) \in Cells
BY DEF Advance, Cells

\* A read of no more than what is stored takes exactly that many samples.  A
\* read of no samples is harmless only to an empty buffer.
LEMMA ReadStored ==
  ASSUME TypeOK, NEW n \in 0 .. DataStored, n > 0 \/ DataStored = 0, ReadFrom(n)
  PROVE  DataStored' = DataStored - n
BY StoredBounds DEF ReadFrom, DataStored, Advance, TypeOK, Cells

\* A write adds its samples, up to a full buffer.  A write of no samples is
\* harmless only to a full buffer.
LEMMA WriteStored ==
  ASSUME TypeOK, NEW n \in 0 .. length, n > 0 \/ FreeSpace = 0, WriteInto(n)
  PROVE  DataStored' = IF n > FreeSpace THEN length ELSE DataStored + n
BY StoredBounds DEF WriteInto, DataStored, FreeSpace, Advance, TypeOK, Cells

\* Taking n <= DataStored samples from the front (ReadFrom) keeps the rest in
\* order.
LEMMA ReadKeepsIInv ==
  ASSUME IInv, NEW n \in 0 .. DataStored, n > 0 \/ DataStored = 0, ReadFrom(n)
  PROVE  IInv'
<1>1. DataStored \in 0 .. length
  BY StoredBounds DEF IInv
<1>2. n \in 0 .. length
  BY <1>1
<1>3. TypeOK'
  BY <1>2, AdvanceInCells DEF IInv, TypeOK, ReadFrom
<1>4. DataStored' = DataStored - n
  BY ReadStored DEF IInv
<1>5. (written >= DataStored)'
  BY <1>1, <1>4 DEF IInv, TypeOK, ReadFrom
<1>6. Coherent'
  <2> SUFFICES ASSUME NEW c \in Cells, c < length,
                      Offset(tail', c) < DataStored'
               PROVE  buffer'[c] = written' - DataStored' + Offset(tail', c)
    BY DEF Coherent, Offset
  <2>1. /\ tail \in 0 .. length
        /\ c \in 0 .. length - 1
        /\ tail' = Advance(tail, n)
        /\ written \in Nat
    BY DEF IInv, TypeOK, ReadFrom, Cells
  <2>2. Offset(tail, c) = Offset(tail', c) + n
    BY <1>1, <1>4, <2>1 DEF Offset, Advance
  <2>3. Offset(tail', c) \in Int
    BY <1>2, <2>1 DEF Offset, Advance
  <2>4. Offset(tail, c) < DataStored
    BY <1>1, <1>4, <2>2, <2>3
  <2>5. buffer[c] = written - DataStored + Offset(tail, c)
    BY <2>4 DEF IInv, Coherent
  <2> QED BY <1>1, <1>4, <2>1, <2>2, <2>3, <2>5 DEF ReadFrom
<1>7. NoWritePastEnd'
  BY DEF IInv, NoWritePastEnd, ReadFrom
<1> QED BY <1>3, <1>5, <1>6, <1>7 DEF IInv

\* Adding n <= length samples at the back (WriteInto) keeps what is left of the
\* old ones in order, across the wrap and when the oldest are overwritten.
LEMMA WriteKeepsIInv ==
  ASSUME IInv, NEW n \in 0 .. length, n > 0 \/ FreeSpace = 0, WriteInto(n)
  PROVE  IInv'
<1>1. DataStored \in 0 .. length
  BY StoredBounds DEF IInv
<1>2. /\ head \in 0 .. length
      /\ tail \in 0 .. length
      /\ written \in Nat
      /\ last_op_write \in BOOLEAN
      /\ buffer \in [Cells -> Nat \cup {Garbage}]
  BY DEF IInv, TypeOK, Cells
<1>3. /\ head' = Advance(head, n)
      /\ tail' = IF n > FreeSpace THEN Advance(head, n) ELSE tail
      /\ last_op_write' = TRUE
      /\ written' = written + n
      /\ buffer' = Filled(n)
  BY DEF WriteInto
<1>4. \A c \in Cells : Offset(head, c) \in Nat
  BY <1>2 DEF Offset, Cells
<1>5. TypeOK'
  <2>1. Advance(head, n) \in Cells
    BY <1>2, AdvanceInCells DEF Cells
  <2>2. Filled(n) \in [Cells -> Nat \cup {Garbage}]
    BY <1>2, <1>4 DEF Filled
  <2> QED BY <1>2, <1>3, <2>1, <2>2 DEF TypeOK, Cells
<1>6. DataStored' = IF n > FreeSpace THEN length ELSE DataStored + n
  BY WriteStored DEF IInv
<1>7. (written >= DataStored)'
  BY <1>1, <1>2, <1>3, <1>6 DEF IInv, FreeSpace
<1>8. Coherent'
  <2> SUFFICES ASSUME NEW c \in Cells, c < length,
                      Offset(tail', c) < DataStored'
               PROVE  buffer'[c] = written' - DataStored' + Offset(tail', c)
    BY DEF Coherent, Offset
  <2>1. c \in 0 .. length - 1
    BY DEF Cells
  <2>2. CASE Offset(head, c) < n
    <3>1. buffer'[c] = written + Offset(head, c)
      BY <1>3, <2>2 DEF Filled
    <3>2. Offset(tail', c) = DataStored' - n + Offset(head, c)
      BY <1>1, <1>2, <1>3, <1>6, <2>1, <2>2
         DEF Offset, Advance, FreeSpace, DataStored
    <3> QED BY <1>1, <1>2, <1>3, <1>4, <1>6, <3>1, <3>2
  <2>3. CASE ~(Offset(head, c) < n)
    <3>1. buffer'[c] = buffer[c]
      BY <1>3, <2>3 DEF Filled
    <3>2. /\ Offset(tail, c) < DataStored
          /\ DataStored - Offset(tail, c) = DataStored' - n - Offset(tail', c)
      BY <1>1, <1>2, <1>3, <1>6, <2>1, <2>3
         DEF Offset, Advance, FreeSpace, DataStored
    <3>3. buffer[c] = written - DataStored + Offset(tail, c)
      BY <3>2 DEF IInv, Coherent
    <3> QED BY <1>1, <1>2, <1>3, <1>6, <2>1, <3>1, <3>2, <3>3
            DEF Offset, Advance
  <2> QED BY <2>2, <2>3
<1>9. NoWritePastEnd'
  BY <1>3 DEF IInv, NoWritePastEnd, Filled, Cells
<1> QED BY <1>5, <1>7, <1>8, <1>9 DEF IInv

\* An emptied buffer (Reset) is in order.
LEMMA ResetKeepsIInv ==
  ASSUME IInv, Reset
  PROVE  IInv'
<1>1. DataStored' = 0
  BY DEF Reset, DataStored
<1>2. TypeOK' /\ NoWritePastEnd'
  <2>1. length \in Cells /\ 0 \in Cells
    BY DEF Cells
  <2>2. /\ buffer \in [Cells -> Nat \cup {Garbage}]
        /\ buffer[length] = Garbage
        /\ written \in Nat
    BY DEF IInv, TypeOK, NoWritePastEnd
  <2>3. buffer' \in [Cells -> Nat \cup {Garbage}]
    BY <2>2, Zenon DEF Reset
  <2>4. buffer'[length] = buffer[length]
    BY <2>1 DEF Reset
  <2> QED BY <2>1, <2>2, <2>3, <2>4 DEF Reset, TypeOK, NoWritePastEnd
<1>3. Coherent'
  <2> SUFFICES ASSUME NEW c \in Cells, c < length, Offset(tail', c) < 0
               PROVE  FALSE
    BY <1>1 DEF Coherent, Offset
  <2> QED BY DEF Reset, Offset, Cells
<1> QED BY <1>1, <1>2, <1>3 DEF IInv, TypeOK

\* A buffer filled in one go (Initialize) is in order.
LEMMA InitializeKeepsIInv ==
  ASSUME IInv, Initialize
  PROVE  IInv'
<1>1. DataStored' = length
  BY DEF Initialize, DataStored
<1>2. TypeOK' /\ NoWritePastEnd'
  BY DEF IInv, TypeOK, NoWritePastEnd, Initialize, Cells
<1>3. \A c \in Cells : Offset(tail', c) = c
  BY DEF Initialize, Offset, Cells
<1>4. \A c \in Cells : c < length => buffer'[c] = written + c
  BY DEF Initialize
<1>5. written \in Nat /\ written' = written + length
  BY DEF Initialize, IInv, TypeOK
<1>6. Coherent'
  <2> SUFFICES ASSUME NEW c \in Cells, c < length
               PROVE  buffer'[c] = written' - length + c
    BY <1>1, <1>3 DEF Coherent, Offset
  <2> QED BY <1>4, <1>5 DEF Cells
<1> QED BY <1>1, <1>2, <1>5, <1>6 DEF IInv

\* The clamped operations and the guarded ones meet the side conditions above.
LEMMA BulkCases ==
  ASSUME TypeOK, NEW n \in 1 .. length, Bulk(n)
  PROVE  \/ \E m \in 0 .. DataStored : (m > 0 \/ DataStored = 0) /\ ReadFrom(m)
         \/ \E m \in 0 .. length : (m > 0 \/ FreeSpace = 0) /\ WriteInto(m)
<1>1. DataStored \in 0 .. length /\ FreeSpace \in 0 .. length
  BY StoredBounds DEF FreeSpace
<1>2. CASE n <= DataStored /\ ReadFrom(n)
  BY <1>1, <1>2
<1>3. CASE WriteInto(n)
  BY <1>3
<1>4. CASE sReadFrom(n)
  <2> DEFINE m == IF n > DataStored THEN DataStored ELSE n
  <2>1. m \in 0 .. DataStored /\ (m > 0 \/ DataStored = 0)
    BY <1>1
  <2>2. ReadFrom(m)
    BY <1>4 DEF sReadFrom
  <2> QED BY <2>1, <2>2
<1>5. CASE sWriteInto(n)
  <2> DEFINE m == IF n > FreeSpace THEN FreeSpace ELSE n
  <2>1. m \in 0 .. length /\ (m > 0 \/ FreeSpace = 0)
    BY <1>1
  <2>2. WriteInto(m)
    BY <1>5 DEF sWriteInto
  <2> QED BY <2>1, <2>2
<1> QED BY <1>2, <1>3, <1>4, <1>5 DEF Bulk

\* An empty buffer is in order.
LEMMA Begins == Init => IInv
<1> SUFFICES ASSUME Init PROVE IInv
  OBVIOUS
<1>1. DataStored = 0
  BY DEF Init, DataStored
<1>2. TypeOK /\ NoWritePastEnd
  <2>1. length \in Cells /\ 0 \in Cells
    BY DEF Cells
  <2>2. buffer \in [Cells -> Nat \cup {Garbage}]
    BY Zenon DEF Init
  <2>3. buffer[length] = Garbage
    BY <2>1, Zenon DEF Init
  <2> QED BY <2>1, <2>2, <2>3 DEF Init, TypeOK, NoWritePastEnd
<1>3. Coherent
  BY <1>1 DEF Init, Coherent, Offset, Cells
<1> QED BY <1>1, <1>2, <1>3 DEF IInv, TypeOK

\* The bulk operations keep the buffer in order: IInv is inductive.
THEOREM Invariance == Spec => []IInv
<1>1. Init => IInv
  BY Begins
<1>2. IInv /\ [Next]_vars => IInv'
  <2> SUFFICES ASSUME IInv, [Next]_vars PROVE IInv'
    OBVIOUS
  <2>1. CASE \E n \in 1 .. length : Bulk(n)
    <3>1. TypeOK
      BY DEF IInv
    <3> QED BY <2>1, <3>1, BulkCases, ReadKeepsIInv, WriteKeepsIInv
  <2>2. CASE Reset
    BY <2>2, ResetKeepsIInv
  <2>3. CASE Initialize
    BY <2>3, InitializeKeepsIInv
  <2>4. CASE UNCHANGED vars
    BY <2>4 DEF vars, IInv, TypeOK, Coherent, NoWritePastEnd, DataStored, Offset
  <2> QED BY <2>1, <2>2, <2>3, <2>4 DEF Next
<1> QED BY <1>1, <1>2, PTL DEF Spec

\* Every index, flag and cell keeps its type.
THEOREM TypeCorrect == Spec => []TypeOK
<1>1. IInv => TypeOK
  BY DEF IInv
<1> QED BY <1>1, Invariance, PTL

\* Every sample counted as stored is the right one, at the right place.
THEOREM FifoContents == Spec => []Coherent
<1>1. IInv => Coherent
  BY DEF IInv
<1> QED BY <1>1, Invariance, PTL

\* No bulk write leaves the allocation.
THEOREM MemorySafe == Spec => []NoWritePastEnd
<1>1. IInv => NoWritePastEnd
  BY DEF IInv
<1> QED BY <1>1, Invariance, PTL

\* The queue begins empty.
LEMMA QueueBegins == Init => Q!Init
<1>1. ASSUME Init PROVE DataStored = 0 /\ written = 0
  BY <1>1 DEF Init, DataStored
<1> QED BY <1>1 DEF Q!Init

\* Reset empties it.
LEMMA ResetClears ==
  ASSUME written \in Nat, Reset
  PROVE  Q!Next
<1>1. DataStored' = 0 /\ written' = written
  BY DEF Reset, DataStored
<1>2. Q!Clear
  BY <1>1 DEF Q!Clear
<1> QED BY <1>2 DEF Q!Next

\* Initialize writes as many samples as the queue holds.
LEMMA InitializeWrites ==
  ASSUME DataStored \in 0 .. length, written \in Nat, Initialize
  PROVE  Q!Next
<1>1. DataStored' = length /\ written' = written + length
  BY DEF Initialize, DataStored
<1>2. Q!Write(length)
  BY <1>1 DEF Q!Write, Q!Newest
<1> QED BY <1>2 DEF Q!Next

\* The ring buffer implements a bounded queue that forgets its oldest samples.
THEOREM Refinement == Spec => IsSampleQueue
<1>1. Init => Q!Init
  BY QueueBegins
<1>2. IInv /\ [Next]_vars => [Q!Next]_(Q!vars)
  <2> SUFFICES ASSUME IInv, [Next]_vars PROVE [Q!Next]_(Q!vars)
    OBVIOUS
  <2>1. TypeOK /\ DataStored \in 0 .. length /\ written \in Nat
    BY StoredBounds DEF IInv, TypeOK
  <2>2. ASSUME NEW m \in 0 .. DataStored, m > 0 \/ DataStored = 0, ReadFrom(m)
        PROVE  Q!Next
    <3>1. DataStored' = DataStored - m /\ written' = written
      BY <2>1, <2>2, ReadStored DEF ReadFrom
    <3>2. Q!Read(m)
      BY <2>1, <3>1 DEF Q!Read
    <3> QED BY <2>1, <3>2 DEF Q!Next
  <2>3. ASSUME NEW m \in 0 .. length, m > 0 \/ FreeSpace = 0, WriteInto(m)
        PROVE  Q!Next
    <3>1. /\ DataStored' = IF m > FreeSpace THEN length ELSE DataStored + m
          /\ written' = written + m
      BY <2>1, <2>3, WriteStored DEF WriteInto
    <3>2. Q!Write(m)
      BY <2>1, <3>1 DEF Q!Write, Q!Newest, FreeSpace
    <3> QED BY <3>2 DEF Q!Next
  <2>4. CASE \E n \in 1 .. length : Bulk(n)
    BY <2>1, <2>2, <2>3, <2>4, BulkCases
  <2>5. CASE Reset
    BY <2>1, <2>5, ResetClears
  <2>6. CASE Initialize
    BY <2>1, <2>6, InitializeWrites
  <2>7. CASE UNCHANGED vars
    BY <2>7 DEF vars, DataStored, Q!vars
  <2> QED BY <2>4, <2>5, <2>6, <2>7 DEF Next
<1> QED BY <1>1, <1>2, Invariance, PTL DEF Spec, IsSampleQueue, Q!Spec
-----------------------------------------------------------------------------
(* The element operations wrap an index with %, and never leave it behind the  *)
(* last cell: with them alone an index is that of a cell.                      *)

EInv == IInv /\ head < length /\ tail < length

\* The index after i (% length in ReadNext and WriteNext).
After(i) == IF i + 1 = length THEN 0 ELSE i + 1

\* % length wraps an index from the last cell to the first one.
LEMMA WrapsToFirst ==
  ASSUME NEW i \in 0 .. length - 1
  PROVE  (i + 1) % length = After(i) /\ After(i) \in 0 .. length - 1
<1>1. CASE i + 1 = length
  <2>1. length % length = 0
    OBVIOUS
  <2> QED BY <1>1, <2>1 DEF After
<1>2. CASE i + 1 # length
  <2>1. i + 1 \in 0 .. length - 1
    BY <1>2
  <2>2. (i + 1) % length = i + 1
    BY <2>1
  <2> QED BY <1>2, <2>1, <2>2 DEF After
<1> QED BY <1>1, <1>2

\* What the element operations are about, with the indices between 0 and length - 1.
LEMMA EInvFacts ==
  ASSUME EInv
  PROVE  /\ TypeOK /\ Coherent /\ NoWritePastEnd
         /\ head \in 0 .. length - 1 /\ tail \in 0 .. length - 1
         /\ (head + 1) % length = After(head) /\ (tail + 1) % length = After(tail)
         /\ After(head) \in 0 .. length - 1 /\ After(tail) \in 0 .. length - 1
         /\ DataStored \in 0 .. length /\ DataStored <= written
         /\ last_op_write \in BOOLEAN /\ written \in Nat
         /\ buffer \in [Cells -> Nat \cup {Garbage}]
<1>1. TypeOK /\ DataStored \in 0 .. length
  BY StoredBounds DEF EInv, IInv
<1>2. head \in 0 .. length - 1 /\ tail \in 0 .. length - 1
  BY <1>1 DEF EInv, TypeOK, Cells
<1> QED BY <1>1, <1>2, WrapsToFirst DEF EInv, IInv, TypeOK

\* A read of an element takes one sample.
LEMMA ReadNextStored ==
  ASSUME EInv, DataStored > 0, ReadNext
  PROVE  DataStored' = DataStored - 1
BY EInvFacts DEF ReadNext, DataStored, After

\* A write of an element adds one, or replaces the oldest one of a full buffer.
LEMMA WriteNextStored ==
  ASSUME EInv, WriteNext
  PROVE  DataStored' = IF FreeSpace = 0 THEN length ELSE DataStored + 1
<1>1. head' = After(head) /\ last_op_write' = TRUE
  BY EInvFacts DEF WriteNext
<1>2. tail' = IF head = tail /\ last_op_write THEN After(tail) ELSE tail
  BY EInvFacts DEF WriteNext
<1>3. head \in 0 .. length - 1 /\ tail \in 0 .. length - 1 /\ last_op_write \in BOOLEAN
  BY EInvFacts
<1> QED BY <1>1, <1>2, <1>3 DEF DataStored, FreeSpace, After

\* Taking an element (ReadNext) keeps the rest in order.
LEMMA ReadNextKeepsEInv ==
  ASSUME EInv, DataStored > 0, ReadNext
  PROVE  EInv'
<1>1. /\ tail' = After(tail) /\ last_op_write' = FALSE
      /\ head' = head /\ buffer' = buffer /\ written' = written
  BY EInvFacts DEF ReadNext
<1>2. DataStored' = DataStored - 1
  BY ReadNextStored
<1>3. TypeOK'
  <2>1. tail' \in 0 .. length - 1 /\ TypeOK
    BY <1>1, EInvFacts
  <2>2. tail' \in Cells
    BY <2>1 DEF Cells
  <2> QED BY <1>1, <2>1, <2>2 DEF TypeOK
<1>4. Coherent'
  <2> SUFFICES ASSUME NEW c \in Cells, c < length,
                      Offset(tail', c) < DataStored'
               PROVE  buffer'[c] = written' - DataStored' + Offset(tail', c)
    BY DEF Coherent, Offset
  <2>1. c \in 0 .. length - 1
    BY DEF Cells
  <2>2. Offset(tail, c) = Offset(tail', c) + 1 /\ Offset(tail', c) \in Nat
    BY <1>1, <1>2, <2>1, EInvFacts DEF Offset, After
  <2>3. Offset(tail, c) < DataStored
    BY <1>2, <2>2, EInvFacts
  <2>4. buffer[c] = written - DataStored + Offset(tail, c)
    BY <2>3, EInvFacts DEF Coherent
  <2> QED BY <1>1, <1>2, <2>2, <2>4, EInvFacts
<1>5. NoWritePastEnd'
  BY <1>1, EInvFacts DEF NoWritePastEnd
<1>6. (written >= DataStored)'
  BY <1>1, <1>2, EInvFacts
<1> QED BY <1>1, <1>3, <1>4, <1>5, <1>6, EInvFacts DEF EInv, IInv

\* Adding an element (WriteNext) keeps in order what is left of the others.
LEMMA WriteNextKeepsEInv ==
  ASSUME EInv, WriteNext
  PROVE  EInv'
<1>1. /\ head' = After(head) /\ last_op_write' = TRUE /\ written' = written + 1
      /\ tail' = IF head = tail /\ last_op_write THEN After(tail) ELSE tail
      /\ buffer' = [buffer EXCEPT ![head] = written]
  BY EInvFacts DEF WriteNext
<1>2. DataStored' = IF FreeSpace = 0 THEN length ELSE DataStored + 1
  BY WriteNextStored
<1>0. /\ head \in 0 .. length - 1 /\ tail \in 0 .. length - 1 /\ last_op_write \in BOOLEAN
       /\ DataStored \in 0 .. length
  BY EInvFacts
<1>3. \A c \in Cells : buffer'[c] = IF c = head THEN written ELSE buffer[c]
  BY <1>1, EInvFacts
<1>4. TypeOK'
  <2>1. buffer' \in [Cells -> Nat \cup {Garbage}]
    BY <1>1, EInvFacts
  <2> QED BY <1>1, <2>1, EInvFacts DEF TypeOK, Cells
<1>5. (written >= DataStored)'
  BY <1>1, <1>2, EInvFacts DEF FreeSpace
<1>6. Coherent'
  <2> SUFFICES ASSUME NEW c \in Cells, c < length,
                      Offset(tail', c) < DataStored'
               PROVE  buffer'[c] = written' - DataStored' + Offset(tail', c)
    BY DEF Coherent, Offset
  <2>1. c \in 0 .. length - 1
    BY DEF Cells
  <2>2. CASE c = head
    <3>1. Offset(tail', c) = DataStored' - 1
      BY <1>1, <1>2, <1>0, <2>1, <2>2 DEF Offset, After, FreeSpace, DataStored
    <3>2. buffer'[c] = written
      BY <1>3, <2>2
    <3> QED BY <1>1, <1>2, <3>1, <3>2, EInvFacts DEF FreeSpace
  <2>3. CASE c # head
    <3>1. /\ Offset(tail, c) < DataStored
          /\ DataStored - Offset(tail, c) = DataStored' - 1 - Offset(tail', c)
      BY <1>1, <1>2, <1>0, <2>1, <2>3 DEF Offset, After, FreeSpace, DataStored
    <3>2. buffer'[c] = written - DataStored + Offset(tail, c)
      BY <1>3, <2>3, <3>1, EInvFacts DEF Coherent
    <3>3. Offset(tail, c) \in Int /\ Offset(tail', c) \in Int
      BY <1>1, <2>1, EInvFacts DEF Offset, After
    <3> QED BY <1>1, <1>2, <3>1, <3>2, <3>3, EInvFacts DEF FreeSpace
  <2> QED BY <2>2, <2>3
<1>7. NoWritePastEnd'
  <2>1. length \in Cells /\ length # head
    BY EInvFacts DEF Cells
  <2> QED BY <1>3, <2>1, EInvFacts DEF NoWritePastEnd
<1>8. (head < length /\ tail < length)'
  BY <1>1, EInvFacts
<1> QED BY <1>4, <1>5, <1>6, <1>7, <1>8 DEF EInv, IInv

\* The safe operations are the others where they may be called, or do nothing.
LEMMA ElementCases ==
  ASSUME Element
  PROVE  \/ DataStored > 0 /\ ReadNext
         \/ WriteNext
         \/ UNCHANGED vars
BY Zenon DEF Element, sReadNext, sWriteNext

\* The element operations keep the buffer in order, and its indices on cells.
THEOREM ElementInvariance == ElementSpec => []EInv
<1>1. Init => EInv
  BY Begins DEF Init, EInv
<1>2. EInv /\ [ElementNext]_vars => EInv'
  <2> SUFFICES ASSUME EInv, [ElementNext]_vars PROVE EInv'
    OBVIOUS
  <2>1. CASE DataStored > 0 /\ ReadNext
    BY <2>1, ReadNextKeepsEInv
  <2>2. CASE WriteNext
    BY <2>2, WriteNextKeepsEInv
  <2>3. CASE Reset
    <3>1. IInv' /\ head' = 0 /\ tail' = 0
      BY <2>3, ResetKeepsIInv DEF EInv, Reset
    <3> QED BY <3>1 DEF EInv
  <2>4. CASE Initialize
    <3>1. IInv' /\ head' = 0 /\ tail' = 0
      BY <2>4, InitializeKeepsIInv DEF EInv, Initialize
    <3> QED BY <3>1 DEF EInv
  <2>5. CASE UNCHANGED vars
    BY <2>5 DEF vars, EInv, IInv, TypeOK, Coherent, NoWritePastEnd, DataStored, Offset
  <2> QED BY <2>1, <2>2, <2>3, <2>4, <2>5, ElementCases DEF ElementNext
<1> QED BY <1>1, <1>2, PTL DEF ElementSpec

\* For every length, one element at a time (the running DC estimate): every
\* sample counted as stored is the right one, at the right place.
THEOREM ElementsInOrder == ElementSpec => []Coherent
<1>1. EInv => Coherent
  BY DEF EInv, IInv
<1> QED BY <1>1, ElementInvariance, PTL

\* Used one element at a time the ring buffer implements the same queue.
THEOREM ElementRefinement == ElementSpec => IsSampleQueue
<1>1. Init => Q!Init
  BY QueueBegins
<1>2. EInv /\ [ElementNext]_vars => [Q!Next]_(Q!vars)
  <2> SUFFICES ASSUME EInv, [ElementNext]_vars PROVE [Q!Next]_(Q!vars)
    OBVIOUS
  <2>1. TypeOK /\ DataStored \in 0 .. length /\ written \in Nat
    BY EInvFacts
  <2>2. CASE DataStored > 0 /\ ReadNext
    <3>1. DataStored' = DataStored - 1 /\ written' = written
      BY <2>2, ReadNextStored DEF ReadNext
    <3>2. Q!Read(1)
      BY <2>1, <2>2, <3>1 DEF Q!Read
    <3>3. 1 \in 0 .. length
      OBVIOUS
    <3> QED BY <3>2, <3>3 DEF Q!Next
  <2>3. CASE WriteNext
    <3>1. /\ DataStored' = IF FreeSpace = 0 THEN length ELSE DataStored + 1
          /\ written' = written + 1
      BY <2>3, WriteNextStored DEF WriteNext
    <3>2. Q!Write(1)
      BY <2>1, <3>1 DEF Q!Write, Q!Newest, FreeSpace
    <3>3. 1 \in 0 .. length
      OBVIOUS
    <3> QED BY <3>2, <3>3 DEF Q!Next
  <2>4. CASE Reset
    BY <2>1, <2>4, ResetClears
  <2>5. CASE Initialize
    BY <2>1, <2>5, InitializeWrites
  <2>6. CASE UNCHANGED vars
    BY <2>6 DEF vars, DataStored, Q!vars
  <2> QED BY <2>2, <2>3, <2>4, <2>5, <2>6, ElementCases DEF ElementNext
<1> QED BY <1>1, <1>2, ElementInvariance, PTL DEF ElementSpec, IsSampleQueue, Q!Spec

-----------------------------------------------------------------------------
(* The file reader, which writes with % what it has resampled.                 *)

\* Where there is room for a block it is read when less than one is stored; but a block
\* that is resampled while head rests behind the last cell is dropped.
Dropped == ReadFromFile /\ ratio # "equal" /\ head = length

\* How many samples were given, or are stored, more than once.
GivenTwice == taken + DataStored - written

\* All cells, not only those counted as stored, hold the last samples written.
LastWritten ==
  \A c \in Cells : c < length /\ written - length + Offset(head, c) >= 0
                   => buffer[c] = written - length + Offset(head, c)

FileInv ==
  /\ IInv
  /\ LastWritten /\ written >= head
  /\ taken \in Nat
  /\ ratio \in {"equal", "shorter", "longer"}

\* Room for four blocks of at least two cells.
FourBlocks == \E block \in Nat : block >= 2 /\ length = 4 * block

\* Less than two blocks and a cell stored, n more cells behind head are n more samples.
LEMMA ResampledStored ==
  ASSUME TypeOK, head < length, NEW n \in Nat \ {0}, DataStored + n < length,
         head' = (head + n) % length, tail' = tail, last_op_write' = TRUE
  PROVE  DataStored' = DataStored + n /\ head' \in 0..(length - 1)
<1>1. head \in 0..(length - 1) /\ tail \in 0..length /\ n \in 1..(length - 1) /\ length \in Nat \ {0}
  BY StoredBounds DEF TypeOK, Cells
<1>2. head' = IF head + n < length THEN head + n ELSE head + n - length
  BY <1>1
<1> QED
  BY <1>1, <1>2 DEF DataStored

\* So they are kept in order (WriteResampledInto).
LEMMA ResampledKeepsIInv ==
  ASSUME IInv, head < length, NEW n \in Nat \ {0}, DataStored + n < length,
         head' = (head + n) % length, tail' = tail, last_op_write' = TRUE,
         buffer' = Filled(n), written' = written + n
  PROVE  IInv' /\ DataStored' = DataStored + n /\ head' < length
<1>1. DataStored \in 0 .. length
  BY StoredBounds DEF IInv
<1>2. /\ head \in 0 .. length - 1
      /\ tail \in 0 .. length
      /\ written \in Nat
      /\ buffer \in [Cells -> Nat \cup {Garbage}]
      /\ n \in 1 .. length
  BY <1>1 DEF IInv, TypeOK, Cells
<1>3. \A c \in Cells : Offset(head, c) \in Nat
  BY <1>2 DEF Offset, Cells
<1>4. DataStored' = DataStored + n /\ head' \in 0 .. length - 1
  BY ResampledStored DEF IInv
<1>5. TypeOK'
  <2>1. Filled(n) \in [Cells -> Nat \cup {Garbage}]
    BY <1>2, <1>3 DEF Filled
  <2> QED BY <1>2, <1>4, <2>1 DEF TypeOK, Cells
<1>6. (written >= DataStored)'
  BY <1>1, <1>2, <1>4 DEF IInv
<1>7. Coherent'
  <2> SUFFICES ASSUME NEW c \in Cells, c < length,
                      Offset(tail', c) < DataStored'
               PROVE  buffer'[c] = written' - DataStored' + Offset(tail', c)
    BY DEF Coherent, Offset
  <2>1. c \in 0 .. length - 1
    BY DEF Cells
  <2>2. CASE Offset(head, c) < n
    <3>1. buffer'[c] = written + Offset(head, c)
      BY <2>2 DEF Filled
    <3>2. Offset(tail, c) = DataStored + Offset(head, c)
      BY <1>1, <1>2, <1>4, <2>1, <2>2 DEF Offset, DataStored
    <3> QED BY <1>1, <1>2, <1>3, <1>4, <3>1, <3>2
  <2>3. CASE ~(Offset(head, c) < n)
    <3>1. buffer'[c] = buffer[c]
      BY <2>3 DEF Filled
    <3>2. Offset(tail, c) < DataStored
      BY <1>1, <1>2, <1>4, <2>1, <2>3 DEF Offset, DataStored
    <3>3. buffer[c] = written - DataStored + Offset(tail, c)
      BY <3>2 DEF IInv, Coherent
    <3>4. Offset(tail, c) \in Int
      BY <1>2, <2>1 DEF Offset
    <3> QED BY <1>1, <1>2, <1>4, <3>1, <3>3, <3>4
  <2> QED BY <2>2, <2>3
<1>8. NoWritePastEnd'
  BY DEF IInv, NoWritePastEnd, Filled, Cells
<1> QED BY <1>4, <1>5, <1>6, <1>7, <1>8 DEF IInv

\* The cells behind the new head are those behind the old one, less the new samples.
LEMMA WritingKeepsLast ==
  ASSUME TypeOK, LastWritten, NEW n \in 1 .. length, written' = written + n, buffer' = Filled(n),
         \/ head' = Advance(head, n)
         \/ head < length /\ head' = (head + n) % length
  PROVE  LastWritten'
<1>1. /\ head \in 0 .. length /\ written \in Nat /\ length \in Nat \ {0}
      /\ buffer \in [Cells -> Nat \cup {Garbage}]
  BY DEF TypeOK, Cells
<1>2. \/ head' = IF head + n > length THEN head + n - length ELSE head + n
      \/ head < length /\ head' = IF head + n >= length THEN head + n - length ELSE head + n
  <2>1. CASE head' = Advance(head, n)
    BY <1>1, <2>1 DEF Advance
  <2>2. CASE head < length /\ head' = (head + n) % length
    BY <1>1, <2>2
  <2> QED BY <2>1, <2>2
<1> SUFFICES ASSUME NEW c \in Cells, c < length, written' - length + Offset(head', c) >= 0
             PROVE  buffer'[c] = written' - length + Offset(head', c)
  BY DEF LastWritten, Offset
<1>3. c \in 0 .. length - 1
  BY DEF Cells
<1>4. Offset(head, c) \in Nat
  BY <1>1, <1>3 DEF Offset
<1>5. Offset(head', c) = IF Offset(head, c) < n THEN Offset(head, c) + length - n
                         ELSE Offset(head, c) - n
  BY <1>1, <1>2, <1>3 DEF Offset
<1>6. buffer'[c] = IF Offset(head, c) < n THEN written + Offset(head, c) ELSE buffer[c]
  BY DEF Filled
<1>7. CASE Offset(head, c) < n
  BY <1>1, <1>4, <1>5, <1>6, <1>7
<1>8. CASE ~(Offset(head, c) < n)
  <2>1. written - length + Offset(head, c) >= 0
    BY <1>1, <1>4, <1>5, <1>8
  <2>2. buffer[c] = written - length + Offset(head, c)
    BY <2>1 DEF LastWritten
  <2> QED BY <1>1, <1>4, <1>5, <1>6, <1>8, <2>2
<1> QED BY <1>7, <1>8

\* Nothing is copied, but last_op_write is set: if the buffer is empty, it is now full
\* of the last samples that were written.
LEMMA DroppedKeeps ==
  ASSUME FileInv, head = length, DataStored < length, UNCHANGED <<head, tail, written>>,
         last_op_write' = TRUE, buffer' = Filled(0)
  PROVE  /\ IInv' /\ LastWritten'
         /\ DataStored' = IF head = tail THEN length ELSE DataStored
<1>1. /\ head = length /\ tail \in 0 .. length /\ written \in Nat /\ length \in Nat \ {0}
      /\ DataStored \in 0 .. length /\ buffer \in [Cells -> Nat \cup {Garbage}]
  BY StoredBounds DEF FileInv, IInv, TypeOK, Cells
<1>2. buffer' = buffer
  <2>1. \A c \in Cells : c < length => ~(Offset(head, c) < 0)
    BY <1>1 DEF Offset, Cells
  <2>2. Filled(0) = [c \in Cells |-> buffer[c]]
    BY <2>1 DEF Filled
  <2> QED BY <1>1, <2>2
<1>3. DataStored' = IF head = tail THEN length ELSE DataStored
  BY <1>1 DEF DataStored
<1>4. LastWritten'
  BY <1>2 DEF FileInv, LastWritten, Offset
<1>5. Coherent'
  <2>1. CASE head = tail
    <3> SUFFICES ASSUME NEW c \in Cells, c < length
                 PROVE  buffer'[c] = written' - DataStored' + Offset(tail', c)
      BY DEF Coherent, Offset
    <3>1. Offset(head, c) = c /\ c \in Nat
      BY <1>1 DEF Offset, Cells
    <3>2. written >= length
      BY DEF FileInv
    <3>3. buffer[c] = written - length + Offset(head, c)
      BY <1>1, <3>1, <3>2 DEF FileInv, LastWritten
    <3> QED BY <1>2, <1>3, <2>1, <3>3
  <2>2. CASE head # tail
    BY <1>2, <1>3, <2>2 DEF FileInv, IInv, Coherent, Offset
  <2> QED BY <2>1, <2>2
<1>6. TypeOK' /\ NoWritePastEnd'
  BY <1>2 DEF FileInv, IInv, TypeOK, NoWritePastEnd
<1>7. (written >= DataStored)'
  BY <1>1, <1>3 DEF FileInv, IInv
<1> QED BY <1>3, <1>4, <1>5, <1>6, <1>7 DEF IInv

\* What a step does to the count of samples that are given twice.
Counted ==
  /\ ReadFromFile => (written' = written <=> Dropped)
  /\ GivenTwice' = GivenTwice + (IF Dropped /\ head = tail THEN length ELSE 0)

\* A block that is read and resampled.
LEMMA ReadFromFileKeeps ==
  ASSUME FileInv, FourBlocks, ReadFromFile
  PROVE  FileInv' /\ Counted
<1>1. PICK block \in Nat : block >= 2 /\ length = 4 * block
  BY DEF FourBlocks
<1>2. inner_buff_size = block
  BY <1>1 DEF inner_buff_size
<1>3. /\ DataStored \in 0 .. block - 1 /\ DataStored + block < length
      /\ FreeSpace = length - DataStored
      /\ head \in 0 .. length /\ written \in Nat /\ taken \in Nat
  BY <1>1, <1>2, StoredBounds DEF FileInv, IInv, ReadFromFile, EnoughDataInBuffer, FreeSpace, TypeOK,
                                  Cells
<1>4. ratio' = ratio /\ taken' = taken
  BY DEF ReadFromFile, filevars
<1>5. CASE ratio = "equal"
  <2>1. WriteInto(block)
    BY <1>1, <1>2, <1>3, <1>5 DEF ReadFromFile, sWriteInto
  <2>2. IInv'
    BY <1>1, <2>1, WriteKeepsIInv DEF FileInv
  <2>3. DataStored' = DataStored + block
    BY <1>1, <1>3, <2>1, WriteStored DEF FileInv, IInv
  <2>4. written' = written + block /\ head' = Advance(head, block) /\ buffer' = Filled(block)
    BY <2>1 DEF WriteInto
  <2>5. LastWritten' /\ head' <= head + block
    BY <1>1, <1>3, <2>4, WritingKeepsLast DEF FileInv, IInv, Advance
  <2>6. (written >= head)' /\ written' # written
    BY <1>1, <1>3, <2>2, <2>4, <2>5 DEF FileInv, IInv, TypeOK, Cells
  <2>7. Counted
    BY <1>1, <1>3, <1>4, <1>5, <2>3, <2>4, <2>6 DEF Counted, Dropped, GivenTwice
  <2> QED
    BY <1>4, <2>2, <2>5, <2>6, <2>7 DEF FileInv
<1>6. CASE ratio # "equal" /\ head < length
  <2>1. PICK n \in Resampled : WriteResampledInto(n)
    BY <1>6 DEF ReadFromFile
  <2>2. n \in block - 1 .. block + 1
    BY <1>1, <1>2, <1>6 DEF Resampled, FileInv
  <2>4. n \in 1 .. length /\ n <= FreeSpace /\ FreeSpace # 0 /\ DataStored + n < length
    BY <1>1, <1>3, <2>2
  <2>5. HeadToRightEnd # 0
    BY <1>3, <1>6 DEF HeadToRightEnd
  <2>6. /\ head' = (head + n) % length /\ tail' = tail /\ last_op_write' = TRUE
        /\ buffer' = Filled(n) /\ written' = written + n
    BY <1>3, <2>1, <2>4, <2>5 DEF WriteResampledInto
  <2>7. IInv' /\ DataStored' = DataStored + n
    BY <1>6, <2>4, <2>6, ResampledKeepsIInv DEF FileInv
  <2>8. LastWritten' /\ head' \in 0 .. head + n
    BY <1>3, <1>6, <2>4, <2>6, WritingKeepsLast DEF FileInv, IInv
  <2>9. (written >= head)' /\ written' # written
    BY <1>3, <2>4, <2>6, <2>8 DEF FileInv
  <2>10. Counted
    BY <1>3, <1>4, <1>6, <2>4, <2>6, <2>7, <2>9 DEF Counted, Dropped, GivenTwice
  <2> QED
    BY <1>4, <2>7, <2>8, <2>9, <2>10 DEF FileInv
<1>7. CASE ratio # "equal" /\ head = length
  <2>1. PICK n \in Resampled : WriteResampledInto(n)
    BY <1>7 DEF ReadFromFile
  <2>2. /\ UNCHANGED <<head, tail>> /\ written' = written + 0 /\ last_op_write' = TRUE
        /\ buffer' = Filled(0)
    BY <1>7, <2>1 DEF WriteResampledInto, HeadToRightEnd
  <2>3. written' = written
    BY <1>3, <2>2
  <2>4. IInv' /\ LastWritten' /\ DataStored' = IF head = tail THEN length ELSE DataStored
    BY <1>1, <1>3, <1>7, <2>2, <2>3, DroppedKeeps
  <2>5. head = tail => DataStored = 0
    BY <1>1, <1>3 DEF DataStored
  <2>6. Counted
    BY <1>1, <1>3, <1>4, <1>7, <2>3, <2>4, <2>5 DEF Counted, Dropped, GivenTwice
  <2> QED
    BY <1>4, <2>2, <2>3, <2>4, <2>6 DEF FileInv
<1> QED
  BY <1>3, <1>5, <1>6, <1>7

\* A block that the scheduler is given.
LEMMA WriteResampledOutKeeps ==
  ASSUME FileInv, FourBlocks, WriteResampledOut
  PROVE  FileInv' /\ GivenTwice' = GivenTwice
<1>1. PICK block \in Nat : block >= 2 /\ length = 4 * block
  BY DEF FourBlocks
<1>2. inner_buff_size = block
  BY <1>1 DEF inner_buff_size
<1>3. DataStored \in block .. length
  BY <1>1, <1>2, StoredBounds DEF FileInv, IInv, WriteResampledOut, EnoughDataInBuffer
<1>4. ReadFrom(block) /\ taken' = taken + block /\ ratio' = ratio
  BY <1>1, <1>2, <1>3 DEF WriteResampledOut, sReadFrom
<1>5. IInv'
  BY <1>1, <1>3, <1>4, ReadKeepsIInv DEF FileInv
<1>6. DataStored' = DataStored - block
  BY <1>1, <1>3, <1>4, ReadStored DEF FileInv, IInv
<1>7. head' = head /\ written' = written /\ buffer' = buffer
  BY <1>4 DEF ReadFrom
<1>8. GivenTwice' = GivenTwice /\ taken' \in Nat
  BY <1>1, <1>3, <1>4, <1>6, <1>7 DEF FileInv, GivenTwice, IInv, TypeOK
<1>9. LastWritten'
  BY <1>7 DEF FileInv, LastWritten, Offset
<1> QED
  BY <1>4, <1>5, <1>7, <1>8, <1>9 DEF FileInv

LEMMA FileBegins == FileInit => FileInv
<1> SUFFICES ASSUME FileInit PROVE FileInv
  OBVIOUS
<1>1. IInv /\ head = 0 /\ written = 0
  BY Begins DEF FileInit, Init
<1>2. LastWritten
  BY <1>1 DEF LastWritten, Offset, Cells
<1> QED BY <1>1, <1>2 DEF FileInit, FileInv

LEMMA FileSteps ==
  ASSUME FourBlocks
  PROVE  FileInv /\ [FileNext]_<<vars, filevars>> => FileInv' /\ [Counted]_<<vars, filevars>>
<1> SUFFICES ASSUME FileInv, [FileNext]_<<vars, filevars>>
             PROVE  FileInv' /\ [Counted]_<<vars, filevars>>
  OBVIOUS
<1>1. ASSUME UNCHANGED <<vars, taken>>, ratio' \in {"equal", "shorter", "longer"}
      PROVE  FileInv' /\ DataStored' = DataStored /\ written' = written
  BY <1>1 DEF FileInv, IInv, TypeOK, Coherent, NoWritePastEnd, LastWritten, DataStored, Offset, vars
<1>2. CASE UNCHANGED <<vars, filevars>>
  BY <1>1, <1>2 DEF FileInv, filevars
<1>3. CASE HandleDrifts
  <2>1. UNCHANGED <<vars, taken>> /\ ratio' \in {"equal", "shorter", "longer"} /\ ratio' # ratio
    BY <1>3 DEF HandleDrifts
  <2>2. ~ReadFromFile
    BY <2>1 DEF ReadFromFile, filevars
  <2>3. GivenTwice' = GivenTwice /\ GivenTwice \in Int
    BY <1>1, <2>1, StoredBounds DEF GivenTwice, FileInv, IInv, TypeOK
  <2> QED
    BY <1>1, <2>1, <2>2, <2>3 DEF Counted, Dropped
<1>4. CASE WriteResampledOut
  <2>1. FileInv' /\ GivenTwice' = GivenTwice
    BY <1>4, WriteResampledOutKeeps
  <2>2. ~ReadFromFile
    BY <1>4 DEF ReadFromFile, WriteResampledOut
  <2>3. GivenTwice \in Int
    BY StoredBounds DEF GivenTwice, FileInv, IInv, TypeOK
  <2> QED
    BY <2>1, <2>2, <2>3 DEF Counted, Dropped
<1> QED
  BY <1>2, <1>3, <1>4, ReadFromFileKeeps DEF FileNext

\* For every length of a recording and every change of the ratio, at whatever moment, what
\* is stored for the scheduler are the last samples written, in order, also when a block was
\* dropped and the buffer takes itself for full (sWriteInto, WriteResampledInto).
THEOREM FileReadInOrder ==
  ASSUME FourBlocks
  PROVE  FileInit /\ [][FileNext]_<<vars, filevars>> => []Coherent
<1>1. FileInv => Coherent
  BY DEF FileInv, IInv
<1> QED
  BY <1>1, FileBegins, FileSteps, PTL

\* A block is lost, and samples are given to the scheduler twice, in one step only: when a
\* block is resampled while head rests behind the last cell (HeadToRightEnd = 0 in
\* WriteResampledInto).  If the buffer is empty, those of the last four blocks are then to
\* be given again.  With no such step the samples stored are those written and not yet taken.
THEOREM OnlyThereGivenTwice ==
  ASSUME FourBlocks
  PROVE  FileInit /\ [][FileNext]_<<vars, filevars>>
           => GivenTwice = 0 /\ [][Counted]_<<vars, filevars>>
<1>1. FileInit => GivenTwice = 0
  BY DEF FileInit, Init, GivenTwice, DataStored
<1> QED
  BY <1>1, FileBegins, FileSteps, PTL

-----------------------------------------------------------------------------
(* Worker threads.  The argument follows one thread round its loop.  At each   *)
(* place of the loop the suspended flag, the scheduler's flag, the queue and   *)
(* the counts of requests and runs are determined by one another (Phase).      *)


ThreadClients == {<<"free">>, <<"pull">>, <<"pull_blocked">>} \cup {<<"join", t>> : t \in Threads}

ThreadsTyped ==
  /\ is_suspended_flag_ \in [Threads -> BOOLEAN]
  /\ finished_flag_ \in [Threads -> BOOLEAN]
  /\ queue_ \in Seq(Threads)
  /\ pc \in [Threads -> Places]
  /\ client \in ThreadClients
  /\ report_handled \in [Threads -> BOOLEAN]
  /\ requests \in [Threads -> Nat]
  /\ runs \in [Threads -> Nat]

InQueue(t) == \E i \in DOMAIN queue_ : queue_[i] = t
OnceInQueue(t) == \A i, j \in DOMAIN queue_ : queue_[i] = t /\ queue_[j] = t => i = j

\* A request is under way: it has not been run, or has just been.
Pending(t, left) == /\ requests[t] = runs[t] + left
                    /\ ~report_handled[t]
                    /\ ~InQueue(t)

\* The round of a thread that has not been told to finish.
Phase(t) ==
  /\ pc[t] \in {"test", "worker"} => ~is_suspended_flag_[t] /\ Pending(t, 1)
  /\ pc[t] = "suspend" => ~is_suspended_flag_[t] /\ Pending(t, 0)
  /\ pc[t] = "push" => is_suspended_flag_[t] /\ Pending(t, 0)
  /\ pc[t] = "blocked" => is_suspended_flag_[t]
  /\ pc[t] \in {"check", "blocked"} /\ ~is_suspended_flag_[t] => Pending(t, 1)
  /\ pc[t] \in {"check", "blocked"} /\ is_suspended_flag_[t] =>
       /\ requests[t] = runs[t]
       /\ InQueue(t) <=> ~report_handled[t]
  /\ pc[t] # "exited"
  /\ OnceInQueue(t)

\* A thread on its way out never sleeps again, and never runs more than it was asked to.
Leaving(t) ==
  /\ pc[t] # "blocked"
  /\ runs[t] <= requests[t]
  /\ pc[t] = "worker" => runs[t] < requests[t]

Round(t) == (~finished_flag_[t] => Phase(t)) /\ (finished_flag_[t] => Leaving(t))

ThreadsInv == /\ ThreadsTyped
        /\ NoSleepOnReports
        /\ \A t \in Threads \ Unchecked : Round(t)

-----------------------------------------------------------------------------
(* The queue *)

\* push(): the new report is there, and is the only one of its thread if there
\* was none.
LEMMA Pushed ==
  ASSUME ThreadsTyped, NEW u \in Threads, queue_' = Append(queue_, u), NEW t \in Threads
  PROVE  /\ InQueue(t)' <=> InQueue(t) \/ t = u
         /\ OnceInQueue(t) /\ (t # u \/ ~InQueue(t)) => OnceInQueue(t)'
<1>1. /\ Len(queue_) \in Nat /\ DOMAIN queue_ = 1 .. Len(queue_)
      /\ DOMAIN queue_' = 1 .. Len(queue_) + 1
      /\ \A i \in 1 .. Len(queue_) : queue_'[i] = queue_[i]
      /\ queue_'[Len(queue_) + 1] = u
  BY AppendProperties, LenProperties DEF ThreadsTyped
<1>2. InQueue(t)' <=> InQueue(t) \/ t = u
  BY <1>1 DEF InQueue
<1>3. ASSUME OnceInQueue(t), t # u \/ ~InQueue(t) PROVE OnceInQueue(t)'
  BY <1>1, <1>3 DEF OnceInQueue, InQueue
<1> QED BY <1>2, <1>3

\* pull(): the report that is taken was the only one of its thread, if there
\* was one at most; the others stay.
LEMMA Pulled ==
  ASSUME ThreadsTyped, queue_ # << >>, queue_' = Tail(queue_), NEW t \in Threads
  PROVE  /\ Head(queue_) \in Threads
         /\ t # Head(queue_) => (InQueue(t)' <=> InQueue(t))
         /\ t = Head(queue_) => InQueue(t) /\ (OnceInQueue(t) => ~InQueue(t)')
         /\ OnceInQueue(t) => OnceInQueue(t)'
<1>1. /\ Len(queue_) \in Nat \ {0} /\ DOMAIN queue_ = 1 .. Len(queue_)
      /\ DOMAIN queue_' = 1 .. Len(queue_) - 1
      /\ \A i \in 1 .. Len(queue_) - 1 : queue_'[i] = queue_[i + 1]
      /\ Head(queue_) = queue_[1] /\ Head(queue_) \in Threads
  BY HeadTailProperties, LenProperties, EmptySeq DEF ThreadsTyped
<1>2. t # Head(queue_) => (InQueue(t)' <=> InQueue(t))
  <2>1. ASSUME t # Head(queue_), InQueue(t) PROVE InQueue(t)'
    <3>1. PICK i \in 1 .. Len(queue_) : queue_[i] = t
      BY <1>1, <2>1 DEF InQueue
    <3>2. i - 1 \in 1 .. Len(queue_) - 1 /\ queue_'[i - 1] = queue_[(i - 1) + 1] /\ (i - 1) + 1 = i
      BY <1>1, <2>1, <3>1
    <3> QED BY <1>1, <3>1, <3>2 DEF InQueue
  <2>2. ASSUME InQueue(t)' PROVE InQueue(t)
    <3>1. PICK i \in 1 .. Len(queue_) - 1 : queue_'[i] = t
      BY <1>1, <2>2 DEF InQueue
    <3>2. i + 1 \in DOMAIN queue_ /\ queue_[i + 1] = t
      BY <1>1, <3>1
    <3> QED BY <3>2 DEF InQueue
  <2> QED BY <2>1, <2>2
<1>3. ASSUME t = Head(queue_) PROVE InQueue(t) /\ (OnceInQueue(t) => ~InQueue(t)')
  <2>1. 1 \in DOMAIN queue_ /\ queue_[1] = t
    BY <1>1, <1>3
  <2>2. ASSUME OnceInQueue(t), InQueue(t)' PROVE FALSE
    <3>1. PICK i \in 1 .. Len(queue_) - 1 : queue_'[i] = t
      BY <1>1, <2>2 DEF InQueue
    <3>2. i + 1 \in DOMAIN queue_ /\ queue_[i + 1] = t /\ i + 1 # 1
      BY <1>1, <3>1
    <3> QED BY <2>1, <2>2, <3>2 DEF OnceInQueue
  <2> QED BY <2>1, <2>2 DEF InQueue
<1>4. ASSUME OnceInQueue(t) PROVE OnceInQueue(t)'
  <2> SUFFICES ASSUME NEW i \in 1 .. Len(queue_) - 1, NEW j \in 1 .. Len(queue_) - 1,
                      queue_'[i] = t, queue_'[j] = t
               PROVE  i = j
    BY <1>1 DEF OnceInQueue
  <2>1. /\ i + 1 \in DOMAIN queue_ /\ j + 1 \in DOMAIN queue_
        /\ queue_[i + 1] = t /\ queue_[j + 1] = t
    BY <1>1
  <2>2. i + 1 = j + 1
    BY <1>4, <2>1 DEF OnceInQueue
  <2> QED BY <2>2
<1> QED BY <1>1, <1>2, <1>3, <1>4

\* Counting reports is asking whether there is one.
LEMMA CountOfReports ==
  ASSUME NEW t, OnceInQueue(t)
  PROVE  Reports(t) = IF InQueue(t) THEN 1 ELSE 0
<1> DEFINE places == {i \in DOMAIN queue_ : queue_[i] = t}
<1>1. CASE InQueue(t)
  <2>1. PICK i \in DOMAIN queue_ : queue_[i] = t
    BY <1>1 DEF InQueue
  <2>2. places = {i}
    BY <2>1 DEF OnceInQueue
  <2> QED BY <1>1, <2>2, FS_Singleton DEF Reports
<1>2. CASE ~InQueue(t)
  <2>1. places = {}
    BY <1>2 DEF InQueue
  <2> QED BY <1>2, <2>1, FS_EmptySet DEF Reports
<1> QED BY <1>1, <1>2

-----------------------------------------------------------------------------
(* A step *)

LEMMA TypePreserved == ThreadsTyped /\ [ThreadNext]_threadvars => ThreadsTyped'
<1> SUFFICES ASSUME ThreadsTyped, [ThreadNext]_threadvars PROVE ThreadsTyped'
  OBVIOUS
<1> USE DEF ThreadsTyped, Goto, Signalled, Places, ThreadClients
<1>1. ASSUME NEW t \in Threads, Thread(t) \/ SpuriousWakeup(t) PROVE ThreadsTyped'
  <2>1. CASE wait_for_resume(t)  BY <2>1 DEF wait_for_resume
  <2>2. CASE LoopTest(t)         BY <2>2 DEF LoopTest
  <2>3. CASE Worker(t)           BY <2>3 DEF Worker
  <2>4. CASE suspend_thread(t)   BY <2>4 DEF suspend_thread
  <2>5. CASE push(t)
    <3>1. queue_' \in Seq(Threads)
      BY <2>5, AppendProperties DEF push
    <3> QED BY <2>5, <3>1 DEF push
  <2>6. CASE SpuriousWakeup(t)   BY <2>6 DEF SpuriousWakeup
  <2> QED BY <1>1, <2>1, <2>2, <2>3, <2>4, <2>5, <2>6 DEF Thread
<1>2. ASSUME NEW t \in Threads, resume_thread(t) PROVE ThreadsTyped'
  BY <1>2 DEF resume_thread
<1>3. ASSUME NEW t \in Threads, finish(t) PROVE ThreadsTyped'
  BY <1>3 DEF finish
<1>4. CASE CallPull  BY <1>4 DEF CallPull
<1>5. CASE Join      BY <1>5 DEF Join
<1>6. CASE pull
  <2>1. queue_ # << >> => Tail(queue_) \in Seq(Threads) /\ Head(queue_) \in Threads
    BY HeadTailProperties
  <2> QED BY <1>6, <2>1 DEF pull
<1>7. CASE UNCHANGED threadvars  BY <1>7 DEF threadvars
<1> QED BY <1>1, <1>2, <1>3, <1>4, <1>5, <1>6, <1>7 DEF ThreadNext, Scheduler

\* What a step does not touch stays right.
Untouched(t) ==
  /\ pc'[t] = pc[t]
  /\ is_suspended_flag_'[t] = is_suspended_flag_[t]
  /\ finished_flag_'[t] = finished_flag_[t]
  /\ report_handled'[t] = report_handled[t]
  /\ requests'[t] = requests[t]
  /\ runs'[t] = runs[t]
  /\ InQueue(t)' <=> InQueue(t)
  /\ OnceInQueue(t) => OnceInQueue(t)'

LEMMA UntouchedRound ==
  ASSUME NEW t, Round(t), Untouched(t)
  PROVE  Round(t)'
BY DEF Untouched, Round, Phase, Leaving, Pending

LEMMA SameQueue ==
  ASSUME NEW t, queue_' = queue_
  PROVE  (InQueue(t)' <=> InQueue(t)) /\ (OnceInQueue(t) => OnceInQueue(t)')
BY DEF InQueue, OnceInQueue

\* A step of a worker thread keeps its own round.
LEMMA ThreadKeepsRound ==
  ASSUME ThreadsTyped, NEW t \in Threads, Round(t), Thread(t) \/ SpuriousWakeup(t)
  PROVE  Round(t)'
<1> USE DEF Round, Phase, Leaving, Pending, Goto
<1>1. CASE wait_for_resume(t)
  BY <1>1, SameQueue DEF wait_for_resume, ThreadsTyped
<1>2. CASE LoopTest(t)
  BY <1>2, SameQueue DEF LoopTest, ThreadsTyped
<1>3. CASE Worker(t)
  BY <1>3, SameQueue DEF Worker, ThreadsTyped
<1>4. CASE suspend_thread(t)
  BY <1>4, SameQueue DEF suspend_thread, ThreadsTyped
<1>5. CASE push(t)
  BY <1>5, Pushed DEF push, ThreadsTyped
<1>6. CASE SpuriousWakeup(t)
  BY <1>6, SameQueue DEF SpuriousWakeup, ThreadsTyped
<1> QED BY <1>1, <1>2, <1>3, <1>4, <1>5, <1>6 DEF Thread

\* A step of another thread does not touch it.
LEMMA ThreadKeepsOthers ==
  ASSUME ThreadsTyped, NEW u \in Threads, Thread(u) \/ SpuriousWakeup(u),
         NEW t \in Threads, t # u
  PROVE  Untouched(t)
<1> USE DEF Untouched, Goto
<1>1. CASE wait_for_resume(u)  BY <1>1, SameQueue DEF wait_for_resume, ThreadsTyped
<1>2. CASE LoopTest(u)         BY <1>2, SameQueue DEF LoopTest, ThreadsTyped
<1>3. CASE Worker(u)           BY <1>3, SameQueue DEF Worker, ThreadsTyped
<1>4. CASE suspend_thread(u)   BY <1>4, SameQueue DEF suspend_thread, ThreadsTyped
<1>5. CASE push(u)             BY <1>5, Pushed DEF push, ThreadsTyped
<1>6. CASE SpuriousWakeup(u)   BY <1>6, SameQueue DEF SpuriousWakeup, ThreadsTyped
<1> QED BY <1>1, <1>2, <1>3, <1>4, <1>5, <1>6 DEF Thread

\* The scheduler resumes a thread only when its last report has been taken.
LEMMA ResumeKeepsRound ==
  ASSUME ThreadsTyped, NEW u \in Threads, resume_thread(u),
         NEW t \in Threads \ Unchecked, Round(t)
  PROVE  Round(t)'
<1>1. CASE t = u
  BY <1>1, SameQueue DEF resume_thread, Signalled, ThreadsTyped, Round, Phase, Leaving, Pending
<1>2. CASE t # u
  <2>1. Untouched(t)
    BY <1>2, SameQueue DEF resume_thread, Signalled, ThreadsTyped, Untouched
  <2> QED BY <2>1, UntouchedRound
<1> QED BY <1>1, <1>2

LEMMA FinishKeepsRound ==
  ASSUME ThreadsTyped, NEW u \in Threads, finish(u), NEW t \in Threads, Round(t)
  PROVE  Round(t)'
<1>1. CASE t = u
  BY <1>1, SameQueue DEF finish, Signalled, ThreadsTyped, Places, Round, Phase, Leaving, Pending
<1>2. CASE t # u
  <2>1. Untouched(t)
    BY <1>2, SameQueue DEF finish, Signalled, ThreadsTyped, Untouched
  <2> QED BY <2>1, UntouchedRound
<1> QED BY <1>1, <1>2

\* Taking a report answers exactly the request it stands for.
LEMMA PullKeepsRound ==
  ASSUME ThreadsTyped, pull, NEW t \in Threads, Round(t)
  PROVE  Round(t)'
<1>1. CASE queue_ = << >>
  <2>1. Untouched(t)
    BY <1>1, SameQueue DEF pull, Untouched
  <2> QED BY <2>1, UntouchedRound
<1>2. CASE queue_ # << >>
  <2>1. /\ queue_' = Tail(queue_) /\ Head(queue_) \in Threads
        /\ report_handled' = [report_handled EXCEPT ![Head(queue_)] = TRUE]
        /\ UNCHANGED <<is_suspended_flag_, finished_flag_, pc, requests, runs>>
    BY <1>2, Pulled DEF pull
  <2>2. CASE t # Head(queue_)
    <3>1. Untouched(t)
      BY <1>2, <2>1, <2>2, Pulled DEF Untouched, ThreadsTyped
    <3> QED BY <3>1, UntouchedRound
  <2>3. CASE t = Head(queue_)
    <3>1. InQueue(t) /\ (OnceInQueue(t) => ~InQueue(t)' /\ OnceInQueue(t)')
      BY <1>2, <2>1, <2>3, Pulled
    <3>2. report_handled'[t]
      BY <2>1, <2>3 DEF ThreadsTyped
    <3> QED BY <2>1, <3>1, <3>2 DEF Round, Phase, Leaving, Pending, ThreadsTyped, Places
  <2> QED BY <2>2, <2>3
<1> QED BY <1>1, <1>2

\* push() wakes the scheduler when it sleeps, and nothing else fills the queue.
LEMMA SleepPreserved ==
  ASSUME ThreadsTyped, NoSleepOnReports, [ThreadNext]_threadvars
  PROVE  NoSleepOnReports'
<1> USE DEF NoSleepOnReports
<1>1. ASSUME NEW t \in Threads, Thread(t) \/ SpuriousWakeup(t) PROVE NoSleepOnReports'
  BY <1>1 DEF Thread, SpuriousWakeup, wait_for_resume, LoopTest, Worker, suspend_thread, push
<1>2. ASSUME NEW t \in Threads, resume_thread(t) PROVE NoSleepOnReports'
  BY <1>2 DEF resume_thread
<1>3. ASSUME NEW t \in Threads, finish(t) PROVE NoSleepOnReports'
  BY <1>3 DEF finish
<1>4. CASE CallPull  BY <1>4 DEF CallPull
<1>5. CASE Join      BY <1>5 DEF Join
<1>6. CASE pull      BY <1>6 DEF pull
<1>7. CASE UNCHANGED threadvars  BY <1>7 DEF threadvars
<1> QED BY <1>1, <1>2, <1>3, <1>4, <1>5, <1>6, <1>7 DEF ThreadNext, Scheduler

LEMMA Inductive == ThreadsInv /\ [ThreadNext]_threadvars => ThreadsInv'
<1> SUFFICES ASSUME ThreadsInv, [ThreadNext]_threadvars PROVE ThreadsInv'
  OBVIOUS
<1>1. ThreadsTyped /\ ThreadsTyped' /\ NoSleepOnReports'
  BY TypePreserved, SleepPreserved DEF ThreadsInv
<1>2. ASSUME NEW t \in Threads \ Unchecked PROVE Round(t)'
  <2>1. Round(t)
    BY <1>2 DEF ThreadsInv
  <2>2. ASSUME NEW u \in Threads, Thread(u) \/ SpuriousWakeup(u) PROVE Round(t)'
    BY <1>1, <2>1, <2>2, ThreadKeepsRound, ThreadKeepsOthers, UntouchedRound
  <2>3. ASSUME NEW u \in Threads, resume_thread(u) PROVE Round(t)'
    BY <1>1, <2>1, <2>3, ResumeKeepsRound
  <2>4. ASSUME NEW u \in Threads, finish(u) PROVE Round(t)'
    BY <1>1, <2>1, <2>4, FinishKeepsRound
  <2>5. CASE pull
    BY <1>1, <2>1, <2>5, PullKeepsRound
  <2>6. CASE CallPull \/ Join \/ UNCHANGED threadvars
    <3>1. Untouched(t)
      BY <2>6, SameQueue DEF CallPull, Join, threadvars, Untouched
    <3> QED BY <2>1, <3>1, UntouchedRound
  <2> QED BY <2>2, <2>3, <2>4, <2>5, <2>6 DEF ThreadNext, Scheduler
<1> QED BY <1>1, <1>2 DEF ThreadsInv

LEMMA ThreadsInvariance == ThreadSpec => []ThreadsInv
<1>1. ThreadInit => ThreadsInv
  <2> SUFFICES ASSUME ThreadInit PROVE ThreadsInv
    OBVIOUS
  <2>1. ThreadsTyped
    BY EmptySeq DEF ThreadInit, ThreadsTyped, Places, ThreadClients
  <2>2. NoSleepOnReports
    BY DEF ThreadInit, NoSleepOnReports
  <2>3. DOMAIN queue_ = {}
    BY LenProperties, EmptySeq DEF ThreadInit
  <2>4. \A t \in Threads : Round(t)
    BY <2>3 DEF ThreadInit, Round, Phase, Leaving, Pending, InQueue, OnceInQueue
  <2> QED BY <2>1, <2>2, <2>4 DEF ThreadsInv
<1> QED BY <1>1, Inductive, PTL DEF ThreadSpec
-----------------------------------------------------------------------------
(* Results *)

\* Each request is run once and answered by one report, nothing is left asleep
\* with work to do, and the scheduler never sleeps on a report, when it waits for
\* the report of every thread before it resumes it (its *_report_handled_ flags).
THEOREM RequestsAreKept ==
  ASSUME Unchecked = {}
  PROVE  ThreadSpec => []RequestsKept
<1>1. ThreadsInv => RequestsKept
  <2> SUFFICES ASSUME ThreadsInv, NEW t \in Threads
               PROVE  /\ pc[t] = "blocked" => runs[t] = requests[t] /\ is_suspended_flag_[t]
                      /\ runs[t] <= requests[t]
                      /\ ~finished_flag_[t] =>
                           /\ Reports(t) <= 1
                           /\ Reports(t) = 1 => /\ ~report_handled[t]
                                                /\ is_suspended_flag_[t]
                                                /\ pc[t] \in {"check", "blocked"}
                           /\ report_handled[t] => pc[t] \in {"check", "blocked"}
    BY DEF RequestsKept, NoRequestLost, OneReportPerRequest, ThreadsInv
  <2>1. ThreadsTyped /\ Round(t)
    BY DEF ThreadsInv
  <2>2. CASE finished_flag_[t]
    BY <2>1, <2>2 DEF Round, Leaving
  <2>3. CASE ~finished_flag_[t]
    <3>1. Phase(t) /\ Reports(t) = IF InQueue(t) THEN 1 ELSE 0
      BY <2>1, <2>3, CountOfReports DEF Round, Phase
    <3>2. requests[t] \in Nat /\ runs[t] \in Nat /\ pc[t] \in Places
      BY <2>1 DEF ThreadsTyped
    <3> QED BY <2>3, <3>1, <3>2 DEF Phase, Pending, Places
  <2> QED BY <2>2, <2>3
<1> QED BY <1>1, ThreadsInvariance, PTL

\* A thread whose report is waited for has at most one report in the queue, and is
\* suspended by then, whatever the scheduler does to the other threads.
THEOREM OneReportEach == ThreadSpec => []OneReportPerRequest
<1>1. ThreadsInv => OneReportPerRequest
  <2> SUFFICES ASSUME ThreadsInv, NEW t \in Threads \ Unchecked, ~finished_flag_[t]
               PROVE  /\ Reports(t) <= 1
                      /\ Reports(t) = 1 => /\ ~report_handled[t]
                                           /\ is_suspended_flag_[t]
                                           /\ pc[t] \in {"check", "blocked"}
                      /\ report_handled[t] => pc[t] \in {"check", "blocked"}
    BY DEF OneReportPerRequest
  <2>1. Phase(t) /\ Reports(t) = IF InQueue(t) THEN 1 ELSE 0
    BY CountOfReports DEF ThreadsInv, Round, Phase
  <2>2. pc[t] \in Places
    BY DEF ThreadsInv, ThreadsTyped
  <2> QED BY <2>1, <2>2 DEF Phase, Pending, Places
<1> QED BY <1>1, ThreadsInvariance, PTL

\* No report is slept on: pull() is woken by push(), for threads of both kinds.
THEOREM NoReportIsSleptOn == ThreadSpec => []NoSleepOnReports
<1>1. ThreadsInv => NoSleepOnReports
  BY DEF ThreadsInv
<1> QED BY <1>1, ThreadsInvariance, PTL

-----------------------------------------------------------------------------
(* Implementation of JobService. *)

jobs == [t \in Threads |-> Job(t)]

\* Only the job of the thread that steps, or is stepped, changes.
LEMMA OneJob ==
  ASSUME ThreadsTyped, NEW u \in Threads, NEW value, Job(u)' = value,
         \A t \in Threads : t # u => Job(t)' = Job(t)
  PROVE  jobs' = [jobs EXCEPT ![u] = value]
BY DEF jobs

LEMMA SameJobs ==
  ASSUME \A t \in Threads : Job(t)' = Job(t)
  PROVE  jobs' = jobs
BY DEF jobs

LEMMA ThreadStepsService ==
  ASSUME ThreadsInv, Unchecked = {}, NEW u \in Threads, Thread(u) \/ SpuriousWakeup(u)
  PROVE  [Service!Next]_(Service!vars)
<1>1. ThreadsTyped /\ Round(u) /\ pc[u] \in Places
  BY DEF ThreadsInv, ThreadsTyped
<1>2. \A t \in Threads : t # u => Job(t)' = Job(t)
  BY <1>1, ThreadKeepsOthers DEF Untouched, Job
<1>3. CASE wait_for_resume(u) \/ SpuriousWakeup(u) \/ LoopTest(u) \/ Worker(u)
  <2>1. Job(u)' = Job(u) /\ queue_' = queue_
    BY <1>1, <1>3 DEF wait_for_resume, SpuriousWakeup, LoopTest, Worker, Goto, ThreadsTyped, Job,
                      Round, Phase
  <2>2. jobs' = jobs
    BY <1>2, <2>1, SameJobs
  <2> QED BY <2>1, <2>2 DEF Service!vars, jobs
<1>4. CASE suspend_thread(u)
  <2>1. queue_' = queue_
    BY <1>4 DEF suspend_thread
  <2>2. CASE finished_flag_[u]
    <3>1. Job(u)' = Job(u)
      BY <1>1, <1>4, <2>2 DEF suspend_thread, Job
    <3>2. jobs' = jobs
      BY <1>2, <3>1, SameJobs
    <3> QED BY <2>1, <3>2 DEF Service!vars, jobs
  <2>3. CASE ~finished_flag_[u]
    <3>1. Job(u) = "asked" /\ Job(u)' = "done"
      BY <1>1, <1>4, <2>3 DEF suspend_thread, Goto, ThreadsTyped, Job
    <3>2. jobs' = [jobs EXCEPT ![u] = "done"] /\ jobs[u] = "asked"
      BY <1>1, <1>2, <3>1, OneJob DEF jobs
    <3> QED BY <2>1, <3>2 DEF Service!Next, Service!Work, jobs
  <2> QED BY <2>2, <2>3
<1>5. CASE push(u)
  <2>1. queue_' = Append(queue_, u)
    BY <1>5 DEF push
  <2>2. CASE finished_flag_[u]
    <3>1. Job(u)' = "retired"
      BY <1>1, <1>5, <2>2 DEF push, Job
    <3>2. jobs' = [jobs EXCEPT ![u] = "retired"]
      BY <1>1, <1>2, <3>1, OneJob
    <3> QED BY <2>1, <3>2 DEF Service!Next, Service!Retire, jobs
  <2>3. CASE ~finished_flag_[u]
    <3>1. Job(u) = "done" /\ Job(u)' = "idle"
      BY <1>1, <1>5, <2>3 DEF push, Goto, ThreadsTyped, Job, Round, Phase
    <3>2. jobs' = [jobs EXCEPT ![u] = "idle"] /\ jobs[u] = "done"
      BY <1>1, <1>2, <3>1, OneJob DEF jobs
    <3> QED BY <2>1, <3>2 DEF Service!Next, Service!Report, jobs
  <2> QED BY <2>2, <2>3
<1> QED BY <1>3, <1>4, <1>5 DEF Thread

LEMMA SchedulerStepsService ==
  ASSUME ThreadsInv, Unchecked = {}, Scheduler
  PROVE  [Service!Next]_(Service!vars)
<1>1. ThreadsTyped /\ \A t \in Threads : Round(t) /\ pc[t] \in Places
  BY DEF ThreadsInv, ThreadsTyped
<1>2. ASSUME NEW u \in Threads, resume_thread(u) PROVE Service!Next
  <2>1. Job(u) = "idle" /\ Job(u)' = "asked" /\ queue_' = queue_
    BY <1>1, <1>2 DEF resume_thread, Signalled, ThreadsTyped, Job, Round, Phase, Pending, Places
  <2>2. \A t \in Threads : t # u => Job(t)' = Job(t)
    BY <1>1, <1>2 DEF resume_thread, Signalled, ThreadsTyped, Job
  <2>3. jobs' = [jobs EXCEPT ![u] = "asked"] /\ jobs[u] = "idle"
    BY <1>1, <2>1, <2>2, OneJob DEF jobs
  <2> QED BY <2>1, <2>3 DEF Service!Next, Service!Ask, jobs
<1>3. ASSUME NEW u \in Threads, finish(u) PROVE Service!Next
  <2>1. Job(u)' = "retired" /\ queue_' = queue_
    BY <1>1, <1>3 DEF finish, ThreadsTyped, Job
  <2>2. \A t \in Threads : t # u => Job(t)' = Job(t)
    BY <1>1, <1>3 DEF finish, Signalled, ThreadsTyped, Job
  <2>3. jobs' = [jobs EXCEPT ![u] = "retired"]
    BY <1>1, <2>1, <2>2, OneJob
  <2> QED BY <2>1, <2>3 DEF Service!Next, Service!Retire, jobs
<1>4. CASE CallPull \/ Join \/ pull
  <2>1. \A t \in Threads : Job(t)' = Job(t)
    BY <1>4 DEF CallPull, Join, pull, Job
  <2>2. jobs' = jobs
    BY <2>1, SameJobs
  <2>3. queue_' = queue_ \/ (queue_ # << >> /\ queue_' = Tail(queue_))
    BY <1>4 DEF CallPull, Join, pull
  <2> QED BY <2>2, <2>3 DEF Service!Next, Service!Take, Service!vars, jobs
<1> QED BY <1>2, <1>3, <1>4 DEF Scheduler

\* The threads, their flags, condition variables and the queue together are a
\* service that does each job once and reports it once (what the scheduler's
\* *_report_handled_ flags count on).
THEOREM JobRefinement ==
  ASSUME Unchecked = {}
  PROVE  ThreadSpec => ImplementsJobService
<1>1. ThreadInit => Service!Init
  <2>1. ThreadInit => \A t \in Threads : Job(t) = "idle"
    BY DEF ThreadInit, Job
  <2> QED BY <2>1 DEF ThreadInit, Service!Init
<1>2. ThreadsInv /\ [ThreadNext]_threadvars => [Service!Next]_(Service!vars)
  <2> SUFFICES ASSUME ThreadsInv, [ThreadNext]_threadvars PROVE [Service!Next]_(Service!vars)
    OBVIOUS
  <2>1. CASE \E u \in Threads : Thread(u) \/ SpuriousWakeup(u)
    BY <2>1, ThreadStepsService
  <2>2. CASE Scheduler
    BY <2>2, SchedulerStepsService
  <2>3. CASE UNCHANGED threadvars
    BY <2>3 DEF threadvars, Service!vars, Job
  <2> QED BY <2>1, <2>2, <2>3 DEF ThreadNext
<1> QED BY <1>1, <1>2, ThreadsInvariance, PTL DEF ThreadSpec, ImplementsJobService, Service!Spec
=============================================================================
