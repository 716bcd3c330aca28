--------------------------- MODULE AudioPathProofs ---------------------------
(***************************************************************************)
(* What is heard is right for every length of the ring buffer, every size  *)
(* of a chunk and of what is written, and any number of samples, station   *)
(* changes and errors: the sound comes in the order it was written, at     *)
(* most one chunk of a station that was given up is still fed, and at the  *)
(* end of a file nothing is left out.                                      *)
(*                                                                         *)
(* Three invariants, one for each.  InOrder: the samples in the chunk that *)
(* is being handed on, and behind it those in the buffer, rise.  Flushing: *)
(* while flush_ is FALSE nothing that is read or stored is older than the  *)
(* last change of the station.  Ending: unless sound was dropped, what was *)
(* given, read and stored adds up to what was written, and the stream is   *)
(* only ended on an empty buffer, behind the last frame.                   *)
(***************************************************************************)
EXTENDS AudioPath, SequenceTheorems, FiniteSetTheorems, WellFoundedInduction, TLAPS

AudioPlaces == {"test", "loop", "read", "waiting", "got", "push", "ready", "reset",
                "clear_force", "clear_last", "clear_flush", "done"}
SchedPlaces == {"free", "write", "set_flush", "set_force", "set_last", "signal", "join", "joined"}

Rings == [cells : Seq(Nat), force_read_ : BOOLEAN, last_frame_ : BOOLEAN, flush_ : BOOLEAN]
Gst == [sources : SUBSET Nat, source_id : Nat, adding : Nat, queued : Nat, eos : BOOLEAN]
Readers == [at : AudioPlaces, by : Nat, data : Seq(Nat)]
Writers == [at : SchedPlaces, size : Nat, met : BOOLEAN, finish_work : BOOLEAN,
            stop : {"no", "LastFrame", "Flush"}]
Histories == [written : Nat, last : Nat, given : Nat, base : Nat, spoilt : BOOLEAN, old : Nat,
              stale : Nat, flushes : Nat, errors : Nat]

TypeOK ==
  /\ ring \in Rings
  /\ gst \in Gst
  /\ IsFiniteSet(gst.sources)
  /\ audio \in Readers
  /\ sched \in Writers
  /\ past \in Histories

USE DEF Rings, Readers, Writers, Histories

\* A chunk is held only between the read and its end, and the ring buffer's
\* mutex only while a write is going on; who stops writes no more.
Places ==
  /\ audio.at \notin {"got", "push"} => audio.data = << >>
  /\ sched.at = "write" <=> sched.size > 0
  /\ sched.finish_work => sched.at \notin {"free", "write"}
  /\ sched.at \in {"set_last", "join", "joined"} => sched.finish_work

Sounds(seq) == {seq[i] : i \in DOMAIN seq} \ {Silence}

Rising(seq) ==
  \A i, j \in DOMAIN seq :
    i < j /\ seq[i] # Silence /\ seq[j] # Silence => seq[i] < seq[j]

Between(seq, low, high) == \A n \in Sounds(seq) : low < n /\ n <= high

InOrder ==
  /\ Rising(audio.data) /\ Rising(ring.cells)
  /\ Between(audio.data, past.last, past.written)
  /\ Between(ring.cells, past.last, past.written)
  /\ \A n \in Sounds(audio.data), m \in Sounds(ring.cells) : n < m
  /\ past.last <= past.written

Flushing ==
  /\ past.old <= past.written
  /\ ~ring.flush_ => ~IsStale(audio.data)
  /\ ~ring.flush_ \/ Resetting => ~IsStale(ring.cells)
  /\ past.stale \in 0 .. 1
  /\ past.stale = 1 /\ audio.at = "push" => ~IsStale(audio.data)

\* The scheduler has told of the last frame, and only waits from now on.
Told == sched.finish_work /\ sched.at \in {"signal", "join", "joined"}

Drained == ring.cells = << >> /\ audio.data = << >> /\ Told

Whole ==
  /\ past.given + Len(audio.data) + Len(ring.cells) = past.written - past.base
  /\ ~ring.flush_ /\ ~ring.force_read_ /\ sched.at # "set_force"
  /\ gst.eos \/ Resetting \/ audio.at \in {"ready", "reset"} => Drained
  /\ audio.at = "got" /\ audio.data = << >> => Drained
  /\ audio.at \in {"test", "done"} /\ sched.finish_work => ring.cells = << >>

Ending ==
  /\ gst.eos => Playing
  /\ ring.last_frame_ => Told
  /\ audio.at = "done" => sched.finish_work
  /\ ~past.spoilt => Whole

IInv == TypeOK /\ Places /\ InOrder /\ Flushing /\ Ending

-----------------------------------------------------------------------------
(* Numbers and sequences *)

LEMMA NatOrder == IsWellFoundedOn({pair \in Nat \X Nat : pair[1] < pair[2]}, Nat)
BY NatLessThanWellFounded DEF OpToRel

LEMMA LeastNumber ==
  ASSUME NEW S \in SUBSET Nat, S # {}
  PROVE  \E m \in S : \A k \in S : m <= k
<1> DEFINE less == {pair \in Nat \X Nat : pair[1] < pair[2]}
<1>1. PICK m \in S : \A k \in S : ~ (<<k, m>> \in less)
  <2> HIDE DEF less
  <2> QED BY NatOrder, WFMin DEF less
<1>2. ASSUME NEW k \in S PROVE m <= k
  <2>1. k \in Nat /\ m \in Nat /\ <<k, m>> \in Nat \X Nat
    OBVIOUS
  <2>2. ~ (k < m)
    BY <1>1, <2>1
  <2> QED BY <2>1, <2>2
<1> QED BY <1>2

\* A set of numbers that has a bound has a greatest one.
LEMMA GreatestNumber ==
  ASSUME NEW S \in SUBSET Nat, S # {}, NEW bound \in Nat, \A k \in S : k <= bound
  PROVE  \E m \in S : \A k \in S : k <= m
<1> DEFINE below == {bound - k : k \in S}
<1>1. below \in SUBSET Nat /\ below # {}
  <2>1. ASSUME NEW k \in S PROVE bound - k \in Nat
    <3>1. k \in Nat /\ k <= bound
      OBVIOUS
    <3> QED BY <3>1
  <2> QED BY <2>1
<1>2. PICK d \in below : \A e \in below : d <= e
  <2> HIDE DEF below
  <2> QED BY <1>1, LeastNumber
<1>3. PICK m \in S : d = bound - m
  OBVIOUS
<1>4. ASSUME NEW k \in S PROVE k <= m
  <2>1. bound - m <= bound - k
    BY <1>2, <1>3
  <2>2. k \in Nat /\ m \in Nat
    OBVIOUS
  <2> QED BY <2>1, <2>2
<1> QED BY <1>4

\* q is a piece of seq.
PieceOf(q, seq) == \E k \in Nat : /\ k + Len(q) <= Len(seq)
                                  /\ \A i \in 1 .. Len(q) : q[i] = seq[k + i]

LEMMA Pieces ==
  ASSUME NEW seq \in Seq(Nat), NEW q \in Seq(Nat), PieceOf(q, seq)
  PROVE  /\ Rising(seq) => Rising(q)
         /\ Sounds(q) \subseteq Sounds(seq)
<1>1. PICK k \in Nat : /\ k + Len(q) <= Len(seq)
                       /\ \A i \in 1 .. Len(q) : q[i] = seq[k + i]
  BY DEF PieceOf
<1>2. /\ Len(q) \in Nat /\ DOMAIN q = 1 .. Len(q)
      /\ Len(seq) \in Nat /\ DOMAIN seq = 1 .. Len(seq)
  BY LenProperties
<1>3. ASSUME NEW i \in DOMAIN q PROVE k + i \in DOMAIN seq /\ q[i] = seq[k + i]
  BY <1>1, <1>2
<1>4. Rising(seq) => Rising(q)
  BY <1>2, <1>3 DEF Rising
<1>5. Sounds(q) \subseteq Sounds(seq)
  BY <1>3 DEF Sounds
<1> QED BY <1>4, <1>5

LEMMA EmptyPiece == Rising(<< >>) /\ Sounds(<< >>) = {}
<1>1. DOMAIN << >> = {}
  BY EmptySeq, LenProperties
<1> QED BY <1>1 DEF Rising, Sounds

LEMMA StaleSounds ==
  ASSUME NEW seq
  PROVE  IsStale(seq) <=> \E n \in Sounds(seq) : n <= past.old
BY DEF IsStale, Sounds

\* The first n cells, and those behind them.
LEMMA CutInTwo ==
  ASSUME NEW seq \in Seq(Nat), NEW n \in 0 .. Len(seq)
  PROVE  LET front == SubSeq(seq, 1, n)
             rest == SubSeq(seq, n + 1, Len(seq))
         IN /\ front \in Seq(Nat) /\ rest \in Seq(Nat)
            /\ Len(front) = n /\ Len(rest) = Len(seq) - n
            /\ PieceOf(front, seq) /\ PieceOf(rest, seq)
            /\ Rising(seq) => \A a \in Sounds(front), b \in Sounds(rest) : a < b
<1> DEFINE front == SubSeq(seq, 1, n)
           rest == SubSeq(seq, n + 1, Len(seq))
<1>1. /\ Len(seq) \in Nat /\ DOMAIN seq = 1 .. Len(seq) /\ \A i \in 1 .. Len(seq) : seq[i] \in Nat
  BY LenProperties, ElementOfSeq
<1>2. /\ front \in Seq(Nat) /\ Len(front) = n
      /\ \A i \in 1 .. n : front[i] = seq[i]
  <2>1. \A i \in 1 .. n : seq[i] \in Nat
    BY <1>1
  <2> QED BY <1>1, <2>1, SubSeqProperties
<1>3. /\ rest \in Seq(Nat) /\ Len(rest) = Len(seq) - n
      /\ \A i \in 1 .. Len(seq) - n : rest[i] = seq[n + i]
  <2>1. \A i \in n + 1 .. Len(seq) : seq[i] \in Nat
    BY <1>1
  <2>2. n + 1 \in Int /\ Len(seq) \in Int /\ Len(seq) - (n + 1) + 1 = Len(seq) - n
    BY <1>1
  <2>3. /\ rest \in Seq(Nat) /\ Len(rest) = IF n + 1 <= Len(seq) THEN Len(seq) - n ELSE 0
        /\ \A i \in 1 .. Len(seq) - n : rest[i] = seq[n + 1 + i - 1]
    BY <2>1, <2>2, SubSeqProperties
  <2> HIDE DEF rest
  <2>4. \A i \in 1 .. Len(seq) - n : n + 1 + i - 1 = n + i
    BY <1>1
  <2>5. (IF n + 1 <= Len(seq) THEN Len(seq) - n ELSE 0) = Len(seq) - n
    <3> DEFINE all == Len(seq)
    <3>1. all \in Nat /\ n \in Nat /\ n <= all
      BY <1>1
    <3> HIDE DEF all
    <3>2. (IF n + 1 <= all THEN all - n ELSE 0) = all - n
      BY <3>1
    <3> QED BY <3>2 DEF all
  <2> QED BY <2>3, <2>4, <2>5
<1> HIDE DEF front, rest
<1>4. /\ DOMAIN front = 1 .. n
      /\ DOMAIN rest = 1 .. Len(seq) - n
  BY <1>2, <1>3, LenProperties
<1>5. PieceOf(front, seq) /\ PieceOf(rest, seq)
  <2>1. 0 + Len(front) <= Len(seq) /\ \A i \in 1 .. Len(front) : front[i] = seq[0 + i]
    BY <1>1, <1>2
  <2>2. n + Len(rest) <= Len(seq) /\ \A i \in 1 .. Len(rest) : rest[i] = seq[n + i]
    BY <1>1, <1>3
  <2>3. PieceOf(front, seq)
    BY <2>1, Zenon DEF PieceOf
  <2>4. PieceOf(rest, seq)
    <3>1. n \in Nat
      OBVIOUS
    <3> QED BY <2>2, <3>1, Zenon DEF PieceOf
  <2> QED BY <2>3, <2>4
<1>6. ASSUME Rising(seq), NEW a \in Sounds(front), NEW b \in Sounds(rest) PROVE a < b
  <2>1. PICK i \in 1 .. n : a = seq[i] /\ a # Silence
    BY <1>2, <1>4 DEF Sounds
  <2>2. PICK j \in 1 .. Len(seq) - n : b = seq[n + j] /\ b # Silence
    BY <1>3, <1>4 DEF Sounds
  <2>3. i \in DOMAIN seq /\ n + j \in DOMAIN seq /\ i < n + j
    BY <1>1
  <2> QED BY <1>6, <2>1, <2>2, <2>3 DEF Rising
<1> QED BY <1>2, <1>3, <1>5, <1>6 DEF front, rest

LEMMA FunctionIsSeq ==
  ASSUME NEW n \in Nat, NEW f \in [1 .. n -> Nat]
  PROVE  f \in Seq(Nat) /\ Len(f) = n
<1>1. f \in Seq(Nat)
  BY SeqDef
<1>2. Len(f) \in Nat /\ DOMAIN f = 1 .. Len(f) /\ DOMAIN f = 1 .. n
  BY <1>1, LenProperties
<1>3. Len(f) = n
  <2> DEFINE m == Len(f)
  <2>1. m \in Nat /\ 1 .. m = 1 .. n
    BY <1>2
  <2> HIDE DEF m
  <2>2. m \in 1 .. m \/ m = 0
    BY <2>1
  <2>3. n \in 1 .. n \/ n = 0
    OBVIOUS
  <2>4. m = n
    BY <2>1, <2>2, <2>3
  <2> QED BY <2>4 DEF m
<1> QED BY <1>1, <1>3

\* What overwriting leaves is the end of what was stored and written.
LEMMA NewestCells ==
  ASSUME NEW seq \in Seq(Nat)
  PROVE  /\ Newest(seq) \in Seq(Nat)
         /\ PieceOf(Newest(seq), seq)
         /\ Len(seq) <= length => Newest(seq) = seq
<1>1. Len(seq) \in Nat /\ length \in Nat
  BY LenProperties, SizeAssumption
<1>2. CASE Len(seq) > length
  <2> DEFINE n == Len(seq) - length
  <2>1. n \in 0 .. Len(seq) /\ n + 1 = Len(seq) - length + 1
    BY <1>1, <1>2
  <2>2. Newest(seq) = SubSeq(seq, n + 1, Len(seq))
    BY <1>1, <1>2, <2>1 DEF Newest
  <2> HIDE DEF n
  <2> QED BY <1>1, <1>2, <2>1, <2>2, CutInTwo
<1>3. CASE ~ (Len(seq) > length)
  <2>1. Newest(seq) = seq
    BY <1>3 DEF Newest
  <2>2. 0 \in Nat /\ 0 + Len(seq) <= Len(seq) /\ \A i \in 1 .. Len(seq) : seq[i] = seq[0 + i]
    BY <1>1
  <2>3. PieceOf(seq, seq)
    BY <2>2, Zenon DEF PieceOf
  <2> QED BY <2>1, <2>3
<1> QED BY <1>2, <1>3

LEMMA SilentCells ==
  ASSUME NEW n \in Nat
  PROVE  Zeros(n) \in Seq(Nat) /\ Len(Zeros(n)) = n /\ \A i \in 1 .. n : Zeros(n)[i] = Silence
BY FunctionIsSeq DEF Zeros, Silence

LEMMA WrittenCells ==
  ASSUME TypeOK
  PROVE  /\ NewCells \in Seq(Nat) /\ Len(NewCells) = sched.size
         /\ \A i \in 1 .. sched.size : NewCells[i] = past.written + i
<1>1. past.written \in Nat /\ sched.size \in Nat
  BY DEF TypeOK
<1>2. NewCells \in [1 .. sched.size -> Nat]
  BY <1>1 DEF NewCells
<1> QED BY <1>1, <1>2, FunctionIsSeq DEF NewCells

LEMMA SparedCells ==
  ASSUME TypeOK, NEW kept
  PROVE  /\ Spared(kept) \in Seq(Nat) /\ Len(Spared(kept)) = sched.size
         /\ \A i \in 1 .. sched.size : Spared(kept)[i] \in {Silence, past.written + i}
<1>1. past.written \in Nat /\ sched.size \in Nat
  BY DEF TypeOK
<1>2. \A i \in 1 .. sched.size : NewCells[i] = past.written + i
  BY WrittenCells
<1> HIDE DEF NewCells
<1>3. Spared(kept) \in [1 .. sched.size -> Nat]
  BY <1>1, <1>2 DEF Spared, Silence
<1> QED BY <1>1, <1>2, <1>3, FunctionIsSeq DEF Spared

\* New sound rises, and comes after all that was written.
NewSound(seq) == /\ seq \in Seq(Nat)
                 /\ Rising(seq)
                 /\ Between(seq, past.written, past.written + sched.size)

LEMMA NewCellsAreNew == TypeOK => NewSound(NewCells)
<1> SUFFICES ASSUME TypeOK PROVE NewSound(NewCells)
  OBVIOUS
<1>1. past.written \in Nat /\ sched.size \in Nat
  BY DEF TypeOK
<1>2. DOMAIN NewCells = 1 .. sched.size
  BY DEF NewCells
<1> QED BY <1>1, <1>2, WrittenCells DEF NewSound, Rising, Between, Sounds

\* Silence, then new sound or none.
LEMMA SilenceBefore ==
  ASSUME NEW k \in Nat, NEW new \in Seq(Nat)
  PROVE  /\ Zeros(k) \o new \in Seq(Nat)
         /\ Len(Zeros(k) \o new) = k + Len(new)
         /\ \A i \in 1 .. k + Len(new) :
              (Zeros(k) \o new)[i] = IF i <= k THEN Silence ELSE new[i - k]
<1> DEFINE zeros == Zeros(k)
<1>1. zeros \in Seq(Nat) /\ Len(zeros) = k /\ \A i \in 1 .. k : zeros[i] = Silence
  BY SilentCells
<1>2. Len(new) \in Nat
  BY LenProperties
<1> HIDE DEF zeros
<1>3. /\ zeros \o new \in Seq(Nat)
      /\ Len(zeros \o new) = k + Len(new)
      /\ \A i \in 1 .. k + Len(new) : (zeros \o new)[i] = IF i <= k THEN zeros[i] ELSE new[i - k]
  BY <1>1, ConcatProperties
<1>4. \A i \in 1 .. k + Len(new) : i <= k => zeros[i] = Silence
  BY <1>1, <1>2
<1> QED BY <1>3, <1>4 DEF zeros

LEMMA SilenceBehind ==
  ASSUME NEW front \in Seq(Nat), NEW m \in Nat
  PROVE  /\ front \o Zeros(m) \in Seq(Nat)
         /\ Len(front \o Zeros(m)) = Len(front) + m
         /\ \A i \in 1 .. Len(front) + m :
              (front \o Zeros(m))[i] = IF i <= Len(front) THEN front[i] ELSE Silence
<1> DEFINE zeros == Zeros(m)
           n == Len(front)
<1>1. zeros \in Seq(Nat) /\ Len(zeros) = m /\ \A i \in 1 .. m : zeros[i] = Silence
  BY SilentCells
<1>2. n \in Nat
  BY LenProperties
<1> HIDE DEF zeros
<1>3. /\ front \o zeros \in Seq(Nat)
      /\ Len(front \o zeros) = n + m
      /\ \A i \in 1 .. n + m : (front \o zeros)[i] = IF i <= n THEN front[i] ELSE zeros[i - n]
  BY <1>1, ConcatProperties
<1> HIDE DEF n
<1>4. \A i \in 1 .. n + m : i > n => i - n \in 1 .. m
  BY <1>2
<1>5. \A i \in 1 .. n + m : ~(i <= n) => zeros[i - n] = Silence
  BY <1>1, <1>2, <1>4
<1> QED BY <1>3, <1>5 DEF zeros, n

LEMMA TornCells ==
  ASSUME TypeOK, NEW q \in Torn
  PROVE  NewSound(q)
<1>1. PICK new \in {<< >>} \cup {Spared(kept) : kept \in SUBSET (1 .. sched.size)},
           k \in 0 .. length, m \in 0 .. length :
         q = Zeros(k) \o new \o Zeros(m)
  <2> DEFINE before == {<< >>} \cup {Spared(kept) : kept \in SUBSET (1 .. sched.size)}
  <2>1. Torn = {r \in {Surrounded(new, k, m) : new \in before,
                       k \in 0 .. length, m \in 0 .. length} : Len(r) <= length}
    BY DEF Torn
  <2> HIDE DEF before
  <2>2. q \in {Surrounded(new, k, m) : new \in before, k \in 0 .. length, m \in 0 .. length}
    BY <2>1
  <2>3. \E new \in before, k \in 0 .. length, m \in 0 .. length : q = Surrounded(new, k, m)
    BY <2>2
  <2> QED BY <2>3 DEF before, Surrounded
<1>2. /\ past.written \in Nat /\ sched.size \in Nat /\ k \in Nat /\ m \in Nat
  BY SizeAssumption DEF TypeOK
<1>3. /\ new \in Seq(Nat) /\ Len(new) \in 0 .. sched.size
      /\ \A i \in 1 .. Len(new) : new[i] \in {Silence, past.written + i}
  <2>1. CASE new = << >>
    BY <1>2, <2>1, EmptySeq
  <2>2. ASSUME NEW kept, new = Spared(kept)
        PROVE  /\ new \in Seq(Nat) /\ Len(new) \in 0 .. sched.size
               /\ \A i \in 1 .. Len(new) : new[i] \in {Silence, past.written + i}
    <3> HIDE DEF Spared
    <3> QED BY <1>2, <2>2, SparedCells
  <2> QED BY <2>1, <2>2
<1> DEFINE n == Len(new)
           front == Zeros(k) \o new
<1>4. /\ front \in Seq(Nat) /\ Len(front) = k + n
      /\ \A i \in 1 .. k + n : front[i] = IF i <= k THEN Silence ELSE new[i - k]
  BY <1>2, <1>3, SilenceBefore
<1>5. /\ q \in Seq(Nat) /\ Len(q) = k + n + m
      /\ \A i \in 1 .. k + n + m : q[i] = IF i <= k + n THEN front[i] ELSE Silence
  <2>1. q = front \o Zeros(m)
    BY <1>1
  <2> HIDE DEF front, n
  <2> DEFINE all == front \o Zeros(m)
  <2>2. /\ all \in Seq(Nat) /\ Len(all) = Len(front) + m
        /\ \A i \in 1 .. Len(front) + m : all[i] = IF i <= Len(front) THEN front[i] ELSE Silence
    BY <1>2, <1>4, SilenceBehind
  <2>3. q = all /\ Len(front) = k + n
    BY <1>4, <2>1
  <2> HIDE DEF all
  <2> QED BY <2>2, <2>3
<1>6. n \in 0 .. sched.size
  BY <1>3
<1>7. ASSUME NEW i \in DOMAIN q, q[i] # Silence
      PROVE  i \in Int /\ i - k \in 1 .. n /\ q[i] = past.written + (i - k)
  <2> HIDE DEF front, n
  <2>1. i \in 1 .. k + n + m
    BY <1>5, LenProperties
  <2>2. i <= k + n
    BY <1>2, <1>5, <1>6, <1>7, <2>1
  <2>3. q[i] = front[i] /\ i \in 1 .. k + n
    BY <1>2, <1>5, <1>6, <2>1, <2>2
  <2>4. i > k /\ q[i] = new[i - k]
    BY <1>2, <1>4, <1>6, <1>7, <2>3
  <2>5. i - k \in 1 .. n
    BY <1>2, <1>6, <2>1, <2>2, <2>4
  <2>6. new[i - k] \in {Silence, past.written + (i - k)}
    BY <1>3, <2>5 DEF n
  <2> QED BY <1>7, <2>1, <2>4, <2>5, <2>6
<1> HIDE DEF n, front
<1>8. Rising(q)
  BY <1>2, <1>6, <1>7 DEF Rising
<1>9. Between(q, past.written, past.written + sched.size)
  BY <1>2, <1>6, <1>7 DEF Between, Sounds
<1> QED BY <1>5, <1>8, <1>9 DEF NewSound

\* The last sound that GStreamer is given with a chunk of rising samples.
LEMMA LastSound ==
  ASSUME NEW seq \in Seq(Nat), NEW low \in Nat, NEW high \in Nat, Between(seq, low, high),
         low <= high
  PROVE  /\ LastOf(seq, low) \in Nat
         /\ low <= LastOf(seq, low) /\ LastOf(seq, low) <= high
         /\ LastOf(seq, low) = low \/ LastOf(seq, low) \in Sounds(seq)
<1> DEFINE last == CHOOSE m \in Sounds(seq) : \A k \in Sounds(seq) : k <= m
<1>1. Sounds(seq) \in SUBSET Nat
  BY LenProperties, ElementOfSeq DEF Sounds
<1>2. LastOf(seq, low) = IF Sounds(seq) = {} THEN low ELSE last
  BY DEF LastOf, Sounds
<1>3. ASSUME Sounds(seq) # {} PROVE last \in Sounds(seq)
  <2>1. \A k \in Sounds(seq) : k <= high
    BY DEF Between
  <2>2. \E m \in Sounds(seq) : \A k \in Sounds(seq) : k <= m
    BY <1>1, <1>3, <2>1, GreatestNumber
  <2> QED BY <2>2
<1> HIDE DEF last
<1> QED BY <1>1, <1>2, <1>3 DEF Between
-----------------------------------------------------------------------------
(* Types *)

\* StartFeed finds a number for its source.
LEMMA FreeSource ==
  ASSUME NEW sources \in SUBSET Nat, IsFiniteSet(sources)
  PROVE  LET free == (1 .. Cardinality(sources) + 1) \ sources
         IN (CHOOSE i \in free : \A j \in free : i <= j) \in Nat
<1> DEFINE n == Cardinality(sources)
           free == (1 .. n + 1) \ sources
<1>1. n \in Nat
  BY FS_CardinalityType
<1>2. free # {}
  <2> SUFFICES ASSUME 1 .. n + 1 \subseteq sources PROVE FALSE
    OBVIOUS
  <2>1. Cardinality(1 .. n + 1) = n + 1
    BY <1>1, FS_Interval
  <2>2. Cardinality(1 .. n + 1) <= n
    BY FS_Subset
  <2> QED BY <1>1, <2>1, <2>2
<1>3. free \in SUBSET Nat
  BY <1>1
<1> HIDE DEF free
<1>4. \E i \in free : \A j \in free : i <= j
  BY <1>2, <1>3, LeastNumber
<1>5. (CHOOSE i \in free : \A j \in free : i <= j) \in free
  BY <1>4
<1> QED BY <1>3, <1>5 DEF free, n

LEMMA Begins == Init => IInv
<1> SUFFICES ASSUME Init PROVE IInv
  OBVIOUS
<1>1. << >> \in Seq(Nat) /\ Len(<< >>) = 0 /\ IsFiniteSet({})
  BY EmptySeq, FS_EmptySet
<1>2. TypeOK
  BY <1>1 DEF Init, TypeOK, Gst, AudioPlaces, SchedPlaces, None
<1>3. Places /\ InOrder
  BY EmptyPiece DEF Init, Places, InOrder, Between
<1>4. Flushing /\ Ending
  BY <1>1, EmptyPiece, StaleSounds DEF Init, Flushing, Ending, Whole, Drained, Resetting, Told
<1> QED BY <1>2, <1>3, <1>4 DEF IInv

LEMMA ReadIsTyped ==
  ASSUME TypeOK, ReadFrom
  PROVE  TypeOK'
<1> DEFINE n == IF Len(ring.cells) < buff_chunk_size_ THEN Len(ring.cells) ELSE buff_chunk_size_
<1>1. ring.cells \in Seq(Nat) /\ Len(ring.cells) \in Nat /\ n \in 0 .. Len(ring.cells)
  BY LenProperties, SizeAssumption DEF TypeOK
<1>2. SubSeq(ring.cells, 1, n) \in Seq(Nat) /\ SubSeq(ring.cells, n + 1, Len(ring.cells)) \in Seq(Nat)
  BY <1>1, CutInTwo
<1>3. \/ /\ audio' = [audio EXCEPT !.at = "got", !.data = SubSeq(ring.cells, 1, n)]
         /\ ring' = [ring EXCEPT !.cells = SubSeq(@, n + 1, Len(@))]
      \/ audio' = [audio EXCEPT !.at = "waiting"] /\ UNCHANGED ring
  BY DEF ReadFrom, Goto
<1> HIDE DEF n
<1>4. audio' \in Readers
  BY <1>2, <1>3 DEF TypeOK, AudioPlaces
<1>5. ring' \in Rings
  BY <1>2, <1>3 DEF TypeOK
<1> QED BY <1>4, <1>5 DEF ReadFrom, TypeOK

LEMMA WriteIsTyped ==
  ASSUME TypeOK, WriteInto
  PROVE  TypeOK'
<1>1. ring.cells \in Seq(Nat) /\ NewCells \in Seq(Nat) /\ ring.cells \o NewCells \in Seq(Nat)
  BY WrittenCells, ConcatProperties DEF TypeOK
<1>2. PICK q \in IF sched.met THEN Torn ELSE {Newest(ring.cells \o NewCells)} :
         ring' = [ring EXCEPT !.cells = q]
  BY DEF WriteInto
<1>3. q \in Seq(Nat)
  BY <1>1, <1>2, NewestCells, TornCells DEF NewSound
<1>4. past' \in Histories
  <2> DEFINE n == past.written + sched.size
             spoilt == past.spoilt \/ sched.met \/ Len(ring.cells) + sched.size > length
  <2>1. n \in Nat /\ spoilt \in BOOLEAN
    BY DEF TypeOK
  <2>2. past' = [past EXCEPT !.written = n, !.spoilt = spoilt]
    BY DEF WriteInto
  <2> HIDE DEF n, spoilt
  <2> QED BY <2>1, <2>2 DEF TypeOK
<1>5. /\ audio' \in Readers
      /\ ring' \in Rings
  BY <1>2, <1>3 DEF WriteInto, Woken, TypeOK, AudioPlaces
<1> QED BY <1>4, <1>5 DEF WriteInto, TypeOK, SchedPlaces

LEMMA PushIsTyped ==
  ASSUME TypeOK, InOrder, PushBuffer
  PROVE  TypeOK'
<1>1. CASE gst.eos
  <2>1. IsFiniteSet(gst.sources \ {audio.by})
    BY FS_RemoveElement DEF TypeOK
  <2>2. /\ gst' = [gst EXCEPT !.sources = gst.sources \ {audio.by}]
        /\ past' = [past EXCEPT !.spoilt = TRUE]
        /\ audio' = [at |-> "loop", by |-> 0, data |-> << >>]
    BY <1>1 DEF PushBuffer, Back, None
  <2>3. gst' \in Gst /\ gst'.sources = gst.sources \ {audio.by}
    BY <2>2 DEF TypeOK, Gst
  <2> QED BY <2>1, <2>2, <2>3, EmptySeq DEF PushBuffer, TypeOK, Gst, AudioPlaces
<1>2. CASE ~gst.eos
  <2> DEFINE last == LastOf(audio.data, past.last)
             given == past.given + Len(audio.data)
             stale == IF IsStale(audio.data) THEN past.stale + 1 ELSE past.stale
  <2>1. last \in Nat /\ given \in Nat /\ stale \in Nat
    BY LastSound, LenProperties DEF TypeOK, InOrder
  <2>2. /\ gst' = [StopFeed(gst) EXCEPT !.queued = @ + 1]
        /\ past' = [past EXCEPT !.last = last, !.given = given, !.stale = stale]
        /\ audio' = [at |-> "loop", by |-> 0, data |-> << >>]
    BY <1>2 DEF PushBuffer, Back, None
  <2> HIDE DEF last, given, stale
  <2>3. /\ StopFeed(gst) \in Gst
        /\ IsFiniteSet(StopFeed(gst).sources)
    <3>1. IsFiniteSet(gst.sources \ {gst.source_id})
      BY FS_RemoveElement DEF TypeOK
    <3>2. CASE gst.queued >= MaxQueued /\ gst.source_id # None
      <4> DEFINE g == [gst EXCEPT !.sources = gst.sources \ {gst.source_id}, !.source_id = 0]
      <4>1. StopFeed(gst) = g
        BY <3>2 DEF StopFeed, None
      <4>2. g \in Gst /\ g.sources = gst.sources \ {gst.source_id}
        BY DEF TypeOK, Gst
      <4> QED BY <3>1, <4>1, <4>2
    <3>3. CASE ~(gst.queued >= MaxQueued /\ gst.source_id # None)
      <4>1. StopFeed(gst) = gst
        BY <3>3 DEF StopFeed
      <4> QED BY <4>1 DEF TypeOK, Gst
    <3> QED BY <3>2, <3>3
  <2>4. gst' \in Gst /\ gst'.sources = StopFeed(gst).sources
    BY <2>2, <2>3 DEF Gst
  <2>5. past' \in Histories
    BY <2>1, <2>2 DEF TypeOK
  <2>6. audio' \in Readers
    BY <2>2, EmptySeq DEF AudioPlaces
  <2>7. UNCHANGED <<ring, sched>>
    BY DEF PushBuffer
  <2> QED BY <2>3, <2>4, <2>5, <2>6, <2>7 DEF TypeOK
<1> QED BY <1>1, <1>2

LEMMA NeedDataIsTyped ==
  ASSUME TypeOK, NeedData
  PROVE  TypeOK'
<1> DEFINE free == (1 .. Cardinality(gst.sources) + 1) \ gst.sources
           id == CHOOSE i \in free : \A j \in free : i <= j
<1>1. id \in Nat
  <2>1. gst.sources \in SUBSET Nat /\ IsFiniteSet(gst.sources)
    BY DEF TypeOK, Gst
  <2> QED BY <2>1, FreeSource
<1>2. IsFiniteSet(gst.sources \cup {id})
  BY FS_AddElement DEF TypeOK
<1>3. /\ gst' = [gst EXCEPT !.sources = gst.sources \cup {id}, !.adding = id]
      /\ UNCHANGED <<ring, audio, sched, past>>
  BY DEF NeedData
<1> HIDE DEF id
<1>4. gst' \in Gst /\ gst'.sources = gst.sources \cup {id}
  BY <1>1, <1>3 DEF TypeOK, Gst
<1> QED BY <1>2, <1>3, <1>4 DEF TypeOK, Gst

LEMMA TypePreserved == TypeOK /\ InOrder /\ [Next]_vars => TypeOK'
<1> SUFFICES ASSUME TypeOK, InOrder, [Next]_vars PROVE TypeOK'
  OBVIOUS
<1> HIDE DEF Rings, Readers, Writers, Histories
<1> USE DEF TypeOK, AudioPlaces, SchedPlaces, None
<1>1. ASSUME NEW n \in WriteSizes, Write(n) PROVE TypeOK'
  <2>1. n \in Nat
    BY SizeAssumption
  <2> QED BY <1>1, <2>1 DEF Write, Writers
<1>2. CASE WriteInto
  BY <1>2, WriteIsTyped
<1>3. CASE ChangeStation
  <2>1. past' \in Histories
    <3>1. past.flushes + 1 \in Nat
      BY DEF Histories
    <3> QED BY <1>3, <3>1 DEF ChangeStation, Histories
  <2> QED BY <1>3, <2>1 DEF ChangeStation, Writers
<1>4. ASSUME NEW how \in {"LastFrame", "Flush"}, StopAudio(how) PROVE TypeOK'
  <2>1. past' \in Histories
    BY <1>4 DEF StopAudio, Histories
  <2>2. sched' \in Writers
    BY <1>4 DEF StopAudio, Writers
  <2> QED BY <1>4, <2>1, <2>2 DEF StopAudio
<1>5. CASE set_flush
  <2>1. past' \in Histories
    BY <1>5 DEF set_flush, Histories
  <2>2. sched' \in Writers /\ ring' \in Rings
    BY <1>5 DEF set_flush, Writers, Rings
  <2> QED BY <1>5, <2>1, <2>2 DEF set_flush
<1>6. CASE set_force_read
  BY <1>6 DEF set_force_read, Writers, Rings
<1>7. CASE set_last_frame
  BY <1>7 DEF set_last_frame, Writers, Rings
<1>8. CASE ForceSignal
  BY <1>8 DEF ForceSignal, Woken, Writers, Readers
<1>9. CASE Join
  BY <1>9 DEF Join, Writers
<1>10. CASE Process
  <2>1. past' \in Histories
    BY <1>10 DEF Process, Histories
  <2> QED BY <1>10, <2>1 DEF Process, Goto, Readers
<1>11. ASSUME NEW i \in gst.sources, ReadData(i) PROVE TypeOK'
  <2>1. i \in Nat
    BY DEF Gst
  <2> QED BY <1>11, <2>1 DEF ReadData, Readers
<1>12. CASE ReadFrom
  BY <1>12, ReadIsTyped
<1>13. CASE SpuriousWakeup
  BY <1>13 DEF SpuriousWakeup, Goto, Readers
<1>14. CASE EndOfStream
  <2>1. IsFiniteSet(gst.sources \ {audio.by})
    BY FS_RemoveElement
  <2>2. gst' \in Gst /\ gst'.sources = gst.sources \ {audio.by}
    BY <1>14 DEF EndOfStream, Gst
  <2>3. audio' \in Readers
    BY <1>14, EmptySeq DEF EndOfStream, Back, Readers
  <2> QED BY <1>14, <2>1, <2>2, <2>3 DEF EndOfStream
<1>15. CASE GoOn
  BY <1>15 DEF GoOn, Goto, Readers
<1>16. CASE PushBuffer
  BY <1>16, PushIsTyped
<1>17. CASE BusCall
  <2>1. past' \in Histories
    <3>1. past.errors + 1 \in Nat
      BY DEF Histories
    <3>2. \/ UNCHANGED past
          \/ past' = [past EXCEPT !.errors = past.errors + 1, !.spoilt = TRUE]
      BY <1>17 DEF BusCall
    <3> QED BY <3>1, <3>2 DEF Histories
  <2>2. audio' \in Readers
    BY <1>17 DEF BusCall, Goto, Readers
  <2> QED BY <1>17, <2>1, <2>2 DEF BusCall
<1>18. CASE Ready
  <2>1. gst' \in Gst /\ gst'.sources = gst.sources
    BY <1>18 DEF Ready, Gst
  <2>2. audio' \in Readers
    BY <1>18 DEF Ready, Goto, Readers
  <2> QED BY <1>18, <2>1, <2>2 DEF Ready
<1>19. CASE ResetBuffer
  <2>1. ring' \in Rings
    BY <1>19, EmptySeq DEF ResetBuffer, Rings
  <2>2. sched' \in Writers
    <3>1. (sched.size > 0) \in BOOLEAN
      OBVIOUS
    <3> QED BY <1>19, <3>1 DEF ResetBuffer, Writers
  <2>3. audio' \in Readers
    BY <1>19 DEF ResetBuffer, Goto, Readers
  <2> QED BY <1>19, <2>1, <2>2, <2>3 DEF ResetBuffer
<1>20. CASE ClearForceRead
  BY <1>20 DEF ClearForceRead, Goto, Rings, Readers
<1>21. CASE ClearLastFrame
  <2>1. gst' \in Gst /\ gst'.sources = gst.sources
    BY <1>21 DEF ClearLastFrame, Gst
  <2> QED BY <1>21, <2>1 DEF ClearLastFrame, Goto, Rings, Readers
<1>22. CASE ClearFlush
  BY <1>22 DEF ClearFlush, Goto, Rings, Readers
<1>23. CASE NeedData
  BY <1>23, NeedDataIsTyped
<1>24. CASE StartFeed
  <2>1. gst' \in Gst /\ gst'.sources = gst.sources
    BY <1>24 DEF StartFeed, Gst
  <2> QED BY <1>24, <2>1 DEF StartFeed
<1>25. CASE Play
  <2>1. gst' \in Gst /\ gst'.sources = gst.sources
    <3>1. gst.queued - 1 \in Nat
      BY <1>25 DEF Play, Gst
    <3>2. gst' = [gst EXCEPT !.queued = gst.queued - 1]
      BY <1>25 DEF Play
    <3> QED BY <3>1, <3>2 DEF Gst
  <2> QED BY <1>25, <2>1 DEF Play
<1>26. CASE UNCHANGED vars
  BY <1>26 DEF vars
<1> QED
  BY <1>1, <1>2, <1>3, <1>4, <1>5, <1>6, <1>7, <1>8, <1>9, <1>10, <1>11, <1>12, <1>13,
     <1>14, <1>15, <1>16, <1>17, <1>18, <1>19, <1>20, <1>21, <1>22, <1>23, <1>24, <1>25,
     <1>26 DEF Next, Scheduler, Audio

-----------------------------------------------------------------------------
(* Places *)

LEMMA PlacesPreserved == TypeOK /\ Places /\ [Next]_vars => Places'
<1> SUFFICES ASSUME TypeOK, Places, [Next]_vars PROVE Places'
  OBVIOUS
<1> USE DEF TypeOK, Places
<1>1. ASSUME NEW n \in WriteSizes, Write(n) PROVE Places'
  <2>1. n > 0
    BY SizeAssumption
  <2> QED BY <1>1, <2>1 DEF Write, Free
<1>2. CASE WriteInto
  BY <1>2 DEF WriteInto, Woken
<1>3. CASE ChangeStation
  BY <1>3 DEF ChangeStation, Free
<1>4. ASSUME NEW how \in {"LastFrame", "Flush"}, StopAudio(how) PROVE Places'
  BY <1>4 DEF StopAudio, Free
<1>5. CASE set_flush
  BY <1>5 DEF set_flush
<1>6. CASE set_force_read
  BY <1>6 DEF set_force_read
<1>7. CASE set_last_frame
  BY <1>7 DEF set_last_frame
<1>8. CASE ForceSignal
  BY <1>8 DEF ForceSignal, Woken
<1>9. CASE Join
  BY <1>9 DEF Join
<1>10. CASE Process
  BY <1>10 DEF Process, Goto
<1>11. ASSUME NEW i \in gst.sources, ReadData(i) PROVE Places'
  BY <1>11 DEF ReadData
<1>12. CASE ReadFrom
  BY <1>12 DEF ReadFrom, Goto
<1>13. CASE SpuriousWakeup
  BY <1>13 DEF SpuriousWakeup, Goto
<1>14. CASE EndOfStream
  BY <1>14 DEF EndOfStream, Back
<1>15. CASE GoOn
  BY <1>15 DEF GoOn, Goto
<1>16. CASE PushBuffer
  BY <1>16 DEF PushBuffer, Back
<1>17. CASE BusCall
  BY <1>17 DEF BusCall, Goto
<1>18. CASE Ready
  BY <1>18 DEF Ready, Goto
<1>19. CASE ResetBuffer
  BY <1>19 DEF ResetBuffer, Goto
<1>20. CASE ClearForceRead
  BY <1>20 DEF ClearForceRead, Goto
<1>21. CASE ClearLastFrame
  BY <1>21 DEF ClearLastFrame, Goto
<1>22. CASE ClearFlush
  BY <1>22 DEF ClearFlush, Goto
<1>23. CASE NeedData \/ StartFeed \/ Play \/ UNCHANGED vars
  BY <1>23 DEF NeedData, StartFeed, Play, vars
<1> QED
  BY <1>1, <1>2, <1>3, <1>4, <1>5, <1>6, <1>7, <1>8, <1>9, <1>10, <1>11, <1>12, <1>13,
     <1>14, <1>15, <1>16, <1>17, <1>18, <1>19, <1>20, <1>21, <1>22, <1>23
  DEF Next, Scheduler, Audio

-----------------------------------------------------------------------------
(* Order *)

LEMMA Joined ==
  ASSUME NEW seq \in Seq(Nat), NEW new \in Seq(Nat)
  PROVE  /\ seq \o new \in Seq(Nat)
         /\ Len(seq \o new) = Len(seq) + Len(new)
         /\ Sounds(seq \o new) = Sounds(seq) \cup Sounds(new)
         /\ /\ Rising(seq) /\ Rising(new)
            /\ \A a \in Sounds(seq), b \in Sounds(new) : a < b
            => Rising(seq \o new)
<1> DEFINE both == seq \o new
           n == Len(seq)
           m == Len(new)
<1>1. /\ n \in Nat /\ DOMAIN seq = 1 .. n
      /\ m \in Nat /\ DOMAIN new = 1 .. m
  BY LenProperties
<1>2. /\ both \in Seq(Nat) /\ Len(both) = n + m
      /\ \A i \in 1 .. n + m : both[i] = IF i <= n THEN seq[i] ELSE new[i - n]
  BY ConcatProperties
<1>3. DOMAIN both = 1 .. n + m
  BY <1>2, LenProperties
<1> HIDE DEF both, n, m
<1>4. ASSUME NEW i \in 1 .. n PROVE i \in 1 .. n + m /\ both[i] = seq[i]
  BY <1>1, <1>2
<1>5. ASSUME NEW i \in 1 .. m PROVE n + i \in 1 .. n + m /\ both[n + i] = new[i]
  <2> DEFINE k == n + i
  <2>1. k \in 1 .. n + m /\ ~(k <= n) /\ k - n = i
    BY <1>1
  <2> HIDE DEF k
  <2>2. both[k] = new[k - n]
    BY <1>2, <2>1
  <2> QED BY <2>1, <2>2 DEF k
<1>6. ASSUME NEW i \in 1 .. n + m, ~(i <= n) PROVE i - n \in 1 .. m /\ both[i] = new[i - n]
  BY <1>1, <1>2, <1>6
<1>7. Sounds(both) = Sounds(seq) \cup Sounds(new)
  <2>1. ASSUME NEW s \in Sounds(both) PROVE s \in Sounds(seq) \cup Sounds(new)
    <3>1. PICK i \in 1 .. n + m : s = both[i] /\ s # Silence
      BY <1>3 DEF Sounds
    <3>2. CASE i <= n
      <4>1. i \in 1 .. n
        BY <1>1, <3>2
      <4> QED BY <1>1, <1>4, <3>1, <4>1 DEF Sounds
    <3>3. CASE ~(i <= n)
      BY <1>1, <1>6, <3>1, <3>3 DEF Sounds
    <3> QED BY <3>2, <3>3
  <2>2. ASSUME NEW s \in Sounds(seq) PROVE s \in Sounds(both)
    BY <1>1, <1>3, <1>4 DEF Sounds
  <2>3. ASSUME NEW s \in Sounds(new) PROVE s \in Sounds(both)
    BY <1>1, <1>3, <1>5 DEF Sounds
  <2> QED BY <2>1, <2>2, <2>3
<1>8. ASSUME Rising(seq), Rising(new), \A a \in Sounds(seq), b \in Sounds(new) : a < b
      PROVE  Rising(both)
  <2> SUFFICES ASSUME NEW i \in 1 .. n + m, NEW j \in 1 .. n + m, i < j,
                      both[i] # Silence, both[j] # Silence
               PROVE  both[i] < both[j]
    BY <1>3 DEF Rising
  <2>1. CASE j <= n
    <3>1. i \in 1 .. n /\ j \in 1 .. n
      BY <1>1, <2>1
    <3> QED BY <1>1, <1>4, <1>8, <3>1 DEF Rising
  <2>2. CASE i <= n /\ ~(j <= n)
    <3>1. i \in 1 .. n /\ both[i] = seq[i] /\ j - n \in 1 .. m /\ both[j] = new[j - n]
      BY <1>1, <1>4, <1>6, <2>2
    <3>2. both[i] \in Sounds(seq) /\ both[j] \in Sounds(new)
      BY <1>1, <3>1 DEF Sounds
    <3> QED BY <1>8, <3>2
  <2>3. CASE ~(i <= n)
    <3>1. ~(j <= n)
      BY <1>1, <2>3
    <3>2. /\ i - n \in 1 .. m /\ both[i] = new[i - n]
          /\ j - n \in 1 .. m /\ both[j] = new[j - n]
          /\ i - n < j - n
      BY <1>1, <1>6, <2>3, <3>1
    <3> QED BY <1>1, <1>8, <3>2 DEF Rising
  <2> QED BY <2>1, <2>2, <2>3
<1> QED BY <1>2, <1>7, <1>8 DEF both, n, m

\* A write leaves some of what was stored, and behind it new sound.
LEMMA WriteLeaves ==
  ASSUME TypeOK, InOrder, WriteInto
  PROVE  /\ ring'.cells \in Seq(Nat)
         /\ Rising(ring'.cells)
         /\ \A n \in Sounds(ring'.cells) :
              n \in Sounds(ring.cells) \/ (past.written < n /\ n <= past.written + sched.size)
         /\ ~sched.met /\ Len(ring.cells) + sched.size <= length
            => Len(ring'.cells) = Len(ring.cells) + sched.size
<1> DEFINE high == past.written + sched.size
           both == ring.cells \o NewCells
<1>1. /\ ring.cells \in Seq(Nat) /\ past.written \in Nat /\ sched.size \in Nat
      /\ \A n \in Sounds(ring.cells) : n <= past.written
  BY DEF TypeOK, InOrder, Between
<1>2. NewSound(NewCells) /\ Len(NewCells) = sched.size
  BY NewCellsAreNew, WrittenCells
<1>3. PICK q \in IF sched.met THEN Torn ELSE {Newest(both)} : ring' = [ring EXCEPT !.cells = q]
  BY DEF WriteInto
<1>4. ring'.cells = q
  BY <1>3 DEF TypeOK
<1>5. CASE sched.met
  <2>1. NewSound(q)
    BY <1>3, <1>5, TornCells
  <2> QED BY <1>4, <1>5, <2>1 DEF NewSound, Between
<1>6. CASE ~sched.met
  <2>1. q = Newest(both)
    BY <1>3, <1>6
  <2>2. \A a \in Sounds(ring.cells), b \in Sounds(NewCells) : a < b
    <3> SUFFICES ASSUME NEW a \in Sounds(ring.cells), NEW b \in Sounds(NewCells) PROVE a < b
      OBVIOUS
    <3>1. a \in Nat /\ b \in Nat
      BY <1>1, <1>2, LenProperties, ElementOfSeq DEF Sounds, NewSound
    <3>2. a <= past.written /\ past.written < b
      BY <1>1, <1>2 DEF NewSound, Between
    <3> QED BY <1>1, <3>1, <3>2
  <2>3. /\ both \in Seq(Nat) /\ Len(both) = Len(ring.cells) + sched.size
        /\ Rising(both)
        /\ Sounds(both) = Sounds(ring.cells) \cup Sounds(NewCells)
    BY <1>1, <1>2, <2>2, Joined DEF NewSound, InOrder
  <2> HIDE DEF both
  <2>4. /\ q \in Seq(Nat) /\ PieceOf(q, both)
        /\ Len(both) <= length => q = both
    BY <2>1, <2>3, NewestCells
  <2>5. Rising(q) /\ Sounds(q) \subseteq Sounds(both)
    BY <2>3, <2>4, Pieces
  <2> QED BY <1>2, <1>4, <2>3, <2>4, <2>5 DEF NewSound, Between
<1> QED BY <1>5, <1>6

\* A read takes the first cells, at most a chunk.
LEMMA ReadTakes ==
  ASSUME TypeOK, Places, InOrder, ReadFrom
  PROVE  \/ UNCHANGED <<audio.data, ring>>
            /\ audio'.at = "waiting"
         \/ /\ audio'.at = "got" /\ MayRead
            /\ audio'.data \in Seq(Nat) /\ ring'.cells \in Seq(Nat)
            /\ Rising(audio'.data) /\ Rising(ring'.cells)
            /\ Sounds(audio'.data) \subseteq Sounds(ring.cells)
            /\ Sounds(ring'.cells) \subseteq Sounds(ring.cells)
            /\ \A n \in Sounds(audio'.data), m \in Sounds(ring'.cells) : n < m
            /\ Len(audio'.data) + Len(ring'.cells) = Len(ring.cells)
            /\ Len(audio'.data) = 0 => Len(ring.cells) = 0
            /\ ring' = [ring EXCEPT !.cells = ring'.cells]
<1> DEFINE all == Len(ring.cells)
           n == IF all < buff_chunk_size_ THEN all ELSE buff_chunk_size_
           front == SubSeq(ring.cells, 1, n)
           rest == SubSeq(ring.cells, n + 1, all)
<1>1. /\ ring.cells \in Seq(Nat) /\ all \in Nat /\ n \in 0 .. all
      /\ n = 0 => all = 0
  BY LenProperties, SizeAssumption DEF TypeOK
<1>2. /\ front \in Seq(Nat) /\ rest \in Seq(Nat)
      /\ Len(front) = n /\ Len(rest) = all - n
      /\ PieceOf(front, ring.cells) /\ PieceOf(rest, ring.cells)
      /\ \A a \in Sounds(front), b \in Sounds(rest) : a < b
  <2> HIDE DEF n
  <2> QED BY <1>1, CutInTwo DEF InOrder
<1>3. \/ MayRead /\ audio' = [audio EXCEPT !.at = "got", !.data = front]
                 /\ ring' = [ring EXCEPT !.cells = rest]
      \/ audio' = [audio EXCEPT !.at = "waiting"] /\ UNCHANGED ring
  BY DEF ReadFrom, Goto
<1> HIDE DEF n, front, rest
<1>4. CASE audio' = [audio EXCEPT !.at = "waiting"] /\ UNCHANGED ring
  BY <1>4 DEF TypeOK
<1>5. CASE /\ MayRead /\ audio' = [audio EXCEPT !.at = "got", !.data = front]
           /\ ring' = [ring EXCEPT !.cells = rest]
  <2>1. audio'.at = "got" /\ audio'.data = front /\ ring'.cells = rest
    BY <1>5 DEF TypeOK
  <2>2. /\ Rising(front) /\ Rising(rest)
        /\ Sounds(front) \subseteq Sounds(ring.cells) /\ Sounds(rest) \subseteq Sounds(ring.cells)
    BY <1>1, <1>2, Pieces DEF InOrder
  <2>3. Len(front) + Len(rest) = all /\ (Len(front) = 0 => all = 0)
    BY <1>1, <1>2
  <2> HIDE DEF all
  <2> QED BY <1>2, <1>5, <2>1, <2>2, <2>3 DEF all
<1> QED BY <1>3, <1>4, <1>5

LEMMA InOrderPreserved == TypeOK /\ Places /\ InOrder /\ [Next]_vars => InOrder'
<1> SUFFICES ASSUME TypeOK, Places, InOrder, [Next]_vars PROVE InOrder'
  OBVIOUS
<1> DEFINE Same == UNCHANGED <<audio.data, ring.cells, past.last, past.written>>
<1>1. ASSUME Same PROVE InOrder'
  BY <1>1 DEF InOrder, Between, Rising, Sounds
<1>2. CASE WriteInto
  <2>1. /\ audio'.data = audio.data /\ past'.last = past.last
        /\ past'.written = past.written + sched.size
        /\ past.written \in Nat /\ past.last \in Nat /\ sched.size \in Nat
    BY <1>2 DEF WriteInto, Woken, TypeOK
  <2>2. /\ audio.data \in Seq(Nat) /\ ring.cells \in Seq(Nat) /\ ring'.cells \in Seq(Nat)
        /\ Rising(ring'.cells)
        /\ \A n \in Sounds(ring'.cells) :
             n \in Sounds(ring.cells) \/ (past.written < n /\ n <= past.written + sched.size)
    BY <1>2, WriteLeaves DEF TypeOK
  <2>3. /\ \A n \in Sounds(audio.data) : n \in Nat
        /\ \A n \in Sounds(ring.cells) : n \in Nat
        /\ \A n \in Sounds(ring'.cells) : n \in Nat
    BY <2>2, LenProperties, ElementOfSeq DEF Sounds
  <2>4. /\ Between(audio'.data, past'.last, past'.written)
        /\ Between(ring'.cells, past'.last, past'.written)
        /\ \A n \in Sounds(audio'.data), m \in Sounds(ring'.cells) : n < m
        /\ past'.last <= past'.written
    BY <2>1, <2>2, <2>3 DEF InOrder, Between
  <2>5. Rising(audio'.data) /\ Rising(ring'.cells)
    BY <2>1, <2>2 DEF InOrder
  <2> QED BY <2>4, <2>5 DEF InOrder, Between, Rising, Sounds
<1>3. CASE ReadFrom
  <2>1. UNCHANGED past
    BY <1>3 DEF ReadFrom
  <2>2. CASE UNCHANGED <<audio.data, ring>>
    BY <1>1, <2>1, <2>2
  <2>3. CASE ~UNCHANGED <<audio.data, ring>>
    <3>1. /\ Rising(audio'.data) /\ Rising(ring'.cells)
          /\ Sounds(audio'.data) \subseteq Sounds(ring.cells)
          /\ Sounds(ring'.cells) \subseteq Sounds(ring.cells)
          /\ \A n \in Sounds(audio'.data), m \in Sounds(ring'.cells) : n < m
      BY <1>3, <2>3, ReadTakes
    <3>2. /\ Between(audio'.data, past'.last, past'.written)
          /\ Between(ring'.cells, past'.last, past'.written)
          /\ past'.last <= past'.written
      BY <2>1, <3>1 DEF InOrder, Between
    <3> QED BY <3>1, <3>2 DEF InOrder, Between, Rising, Sounds
  <2> QED BY <2>2, <2>3
<1>4. CASE EndOfStream
  <2>1. audio'.data = << >> /\ UNCHANGED <<ring, past>>
    BY <1>4 DEF EndOfStream, Back
  <2>2. Rising(audio'.data) /\ Sounds(audio'.data) = {}
    BY <2>1, EmptyPiece
  <2> QED BY <2>1, <2>2 DEF InOrder, Between, Rising, Sounds
<1>5. CASE PushBuffer
  <2>1. audio'.data = << >> /\ UNCHANGED ring
    BY <1>5 DEF PushBuffer, Back
  <2>2. Rising(audio'.data) /\ Sounds(audio'.data) = {}
    BY <2>1, EmptyPiece
  <2> DEFINE last == past'.last
  <2>3. /\ past'.written = past.written
        /\ last = past.last \/ last = LastOf(audio.data, past.last)
    BY <1>5 DEF PushBuffer, TypeOK
  <2>4. /\ last \in Nat /\ past.written \in Nat /\ past.last <= last /\ last <= past.written
        /\ last = past.last \/ last \in Sounds(audio.data)
    <3>1. /\ audio.data \in Seq(Nat) /\ past.last \in Nat /\ past.written \in Nat
          /\ Between(audio.data, past.last, past.written) /\ past.last <= past.written
      BY DEF TypeOK, InOrder
    <3> HIDE DEF last
    <3> QED BY <2>3, <3>1, LastSound
  <2> HIDE DEF last
  <2>5. Between(ring.cells, last, past.written)
    BY <2>4 DEF InOrder, Between
  <2> QED BY <2>1, <2>2, <2>3, <2>4, <2>5 DEF InOrder, Between, Rising, Sounds, last
<1>6. CASE ResetBuffer
  <2>1. ring'.cells = << >> /\ UNCHANGED <<audio.data, past>>
    BY <1>6 DEF ResetBuffer, Goto, TypeOK
  <2>2. Rising(ring'.cells) /\ Sounds(ring'.cells) = {}
    BY <2>1, EmptyPiece
  <2> QED BY <2>1, <2>2 DEF InOrder, Between, Rising, Sounds
<1>7. ASSUME NEW n \in WriteSizes, Write(n) PROVE Same
  BY <1>7 DEF Write
<1>8. CASE ChangeStation
  BY <1>1, <1>8 DEF ChangeStation, TypeOK
<1>9. ASSUME NEW how \in {"LastFrame", "Flush"}, StopAudio(how) PROVE Same
  BY <1>9 DEF StopAudio, TypeOK
<1>10. CASE set_flush \/ set_force_read \/ set_last_frame
  BY <1>1, <1>10 DEF set_flush, set_force_read, set_last_frame, TypeOK
<1>11. CASE ForceSignal \/ Join
  BY <1>1, <1>11 DEF ForceSignal, Join, Woken, TypeOK
<1>12. CASE Process
  BY <1>1, <1>12 DEF Process, Goto, TypeOK
<1>13. ASSUME NEW i \in gst.sources, ReadData(i) PROVE Same
  BY <1>13 DEF ReadData, TypeOK
<1>14. CASE SpuriousWakeup \/ GoOn \/ Ready
  BY <1>1, <1>14 DEF SpuriousWakeup, GoOn, Ready, Goto, TypeOK
<1>15. CASE BusCall
  BY <1>1, <1>15 DEF BusCall, Goto, TypeOK
<1>16. CASE ClearForceRead \/ ClearLastFrame \/ ClearFlush
  BY <1>1, <1>16 DEF ClearForceRead, ClearLastFrame, ClearFlush, Goto, TypeOK
<1>17. CASE NeedData \/ StartFeed \/ Play \/ UNCHANGED vars
  BY <1>1, <1>17 DEF NeedData, StartFeed, Play, vars
<1> HIDE DEF Same
<1> QED
  BY <1>1, <1>2, <1>3, <1>4, <1>5, <1>6, <1>7, <1>8, <1>9, <1>10, <1>11, <1>12, <1>13,
     <1>14, <1>15, <1>16, <1>17
  DEF Next, Scheduler, Audio

-----------------------------------------------------------------------------
(* Flushing *)

Stale(sounds, old) == \E n \in sounds : n <= old

LEMMA StaleNow ==
  /\ IsStale(audio.data) <=> Stale(Sounds(audio.data), past.old)
  /\ IsStale(ring.cells) <=> Stale(Sounds(ring.cells), past.old)
BY DEF IsStale, Sounds, Stale

LEMMA StaleNext ==
  /\ IsStale(audio.data)' <=> Stale(Sounds(audio'.data), past'.old)
  /\ IsStale(ring.cells)' <=> Stale(Sounds(ring'.cells), past'.old)
BY DEF IsStale, Sounds, Stale

LEMMA FlushingPreserved ==
  TypeOK /\ Places /\ InOrder /\ Flushing /\ [Next]_vars => Flushing'
<1> SUFFICES ASSUME TypeOK, Places, InOrder, Flushing, [Next]_vars PROVE Flushing'
  OBVIOUS
<1> DEFINE StaleData == IsStale(audio.data)
           StaleCells == IsStale(ring.cells)
           Same == UNCHANGED <<audio.data, ring.cells, past.old>>
<1>1. ASSUME Same PROVE (StaleData' <=> StaleData) /\ (StaleCells' <=> StaleCells)
  BY <1>1, StaleNow, StaleNext
<1>2. /\ past.old <= past.written
      /\ ~ring.flush_ => ~StaleData
      /\ ~ring.flush_ \/ Resetting => ~StaleCells
      /\ past.stale \in 0 .. 1
      /\ past.stale = 1 /\ audio.at = "push" => ~StaleData
  BY DEF Flushing
<1>3. audio.data = << >> => ~StaleData
  BY EmptyPiece, StaleNow DEF Stale
<1>4. audio'.data = << >> => ~StaleData'
  BY EmptyPiece, StaleNext DEF Stale
<1>5. ring'.cells = << >> => ~StaleCells'
  BY EmptyPiece, StaleNext DEF Stale
<1>6. ASSUME /\ past'.old <= past'.written
             /\ ~ring'.flush_ => ~StaleData'
             /\ ~ring'.flush_ \/ Resetting' => ~StaleCells'
             /\ past'.stale \in 0 .. 1
             /\ past'.stale = 1 /\ audio'.at = "push" => ~StaleData'
      PROVE  Flushing'
  BY <1>6 DEF Flushing
<1> HIDE DEF StaleData, StaleCells
<1>7. CASE WriteInto
  <2>1. /\ UNCHANGED <<audio.data, past.old, past.stale, ring.flush_>>
        /\ past'.written = past.written + sched.size
        /\ past.written \in Nat /\ past.old \in Nat /\ sched.size \in Nat
    BY <1>7 DEF WriteInto, Woken, TypeOK
  <2>2. audio'.at = "push" => audio.at = "push"
    BY <1>7 DEF WriteInto, Woken, TypeOK
  <2>3. Resetting' => Resetting
    BY <1>7 DEF WriteInto, Woken, Resetting, TypeOK
  <2>4. StaleData' <=> StaleData
    BY <2>1, StaleNow, StaleNext DEF StaleData
  <2>5. StaleCells' => StaleCells
    <3>1. /\ ring'.cells \in Seq(Nat)
          /\ \A n \in Sounds(ring'.cells) :
               n \in Sounds(ring.cells) \/ (past.written < n /\ n <= past.written + sched.size)
      BY <1>7, WriteLeaves
    <3>2. \A n \in Sounds(ring'.cells) : n \in Nat
      BY <3>1, LenProperties, ElementOfSeq DEF Sounds
    <3>3. \A n \in Sounds(ring'.cells) : n <= past.old => n \in Sounds(ring.cells)
      BY <1>2, <2>1, <3>1, <3>2
    <3> QED BY <2>1, <3>3, StaleNow, StaleNext DEF StaleCells, Stale
  <2> QED BY <1>2, <1>6, <2>1, <2>2, <2>3, <2>4, <2>5
<1>8. CASE ReadFrom
  <2>1. UNCHANGED past /\ UNCHANGED ring.flush_ /\ ~Resetting' /\ audio'.at # "push"
        /\ audio.at = "read"
    BY <1>8 DEF ReadFrom, Goto, TypeOK, Resetting
  <2>2. CASE UNCHANGED <<audio.data, ring>>
    BY <1>1, <1>2, <1>6, <2>1, <2>2
  <2>3. CASE ~UNCHANGED <<audio.data, ring>>
    <3>1. /\ Sounds(audio'.data) \subseteq Sounds(ring.cells)
          /\ Sounds(ring'.cells) \subseteq Sounds(ring.cells)
      BY <1>8, <2>3, ReadTakes
    <3>2. (StaleData' => StaleCells) /\ (StaleCells' => StaleCells)
      BY <2>1, <3>1, StaleNow, StaleNext DEF StaleData, StaleCells, Stale
    <3> QED BY <1>2, <1>6, <2>1, <3>2
  <2> QED BY <2>2, <2>3
<1>9. CASE EndOfStream
  <2>1. /\ audio'.data = << >> /\ audio'.at = "loop" /\ ~Resetting'
        /\ UNCHANGED <<ring, past>>
    BY <1>9 DEF EndOfStream, Back, Resetting
  <2>2. StaleCells' <=> StaleCells
    BY <2>1, StaleNow, StaleNext DEF StaleCells
  <2> QED BY <1>2, <1>4, <1>6, <2>1, <2>2
<1>10. CASE PushBuffer
  <2>1. /\ audio'.data = << >> /\ audio'.at = "loop" /\ audio.at = "push" /\ ~Resetting'
        /\ UNCHANGED <<ring, past.old, past.written>>
    BY <1>10 DEF PushBuffer, Back, Resetting, TypeOK
  <2>2. past'.stale = past.stale \/ (StaleData /\ past'.stale = past.stale + 1)
    BY <1>10 DEF PushBuffer, TypeOK, StaleData
  <2>3. StaleCells' <=> StaleCells
    BY <2>1, StaleNow, StaleNext DEF StaleCells
  <2>4. past'.stale \in 0 .. 1
    BY <1>2, <2>1, <2>2
  <2> QED BY <1>2, <1>4, <1>6, <2>1, <2>3, <2>4
<1>11. CASE ResetBuffer
  <2>1. /\ ring'.cells = << >> /\ audio'.at = "clear_force"
        /\ UNCHANGED <<audio.data, past, ring.flush_>>
    BY <1>11 DEF ResetBuffer, Goto, TypeOK
  <2>2. StaleData' <=> StaleData
    BY <2>1, StaleNow, StaleNext DEF StaleData
  <2> QED BY <1>2, <1>5, <1>6, <2>1, <2>2
<1>12. CASE set_flush
  <2>1. /\ ring'.flush_ /\ UNCHANGED <<gst, audio>> /\ ring'.cells = ring.cells
        /\ past'.written = past.written
    BY <1>12 DEF set_flush, TypeOK
  <2>2. CASE Resetting
    <3>1. UNCHANGED <<past.old, past.stale>>
      BY <1>12, <2>2 DEF set_flush, TypeOK
    <3>2. (StaleData' <=> StaleData) /\ (StaleCells' <=> StaleCells)
      BY <2>1, <3>1, StaleNow, StaleNext DEF StaleData, StaleCells
    <3> QED BY <1>2, <1>6, <2>1, <2>2, <3>1, <3>2 DEF Resetting
  <2>3. CASE ~Resetting
    <3>1. past'.old = past.written /\ past'.stale = 0 /\ past.written \in Nat
      BY <1>12, <2>3 DEF set_flush, TypeOK
    <3>2. ~Resetting'
      BY <2>1, <2>3 DEF Resetting
    <3> QED BY <1>6, <2>1, <3>1, <3>2
  <2> QED BY <2>2, <2>3
<1>13. CASE GoOn
  <2>1. /\ ~ring.flush_ /\ audio'.at = "push"
        /\ UNCHANGED <<audio.data, ring, past>>
    BY <1>13 DEF GoOn, Goto, TypeOK
  <2> QED BY <1>1, <1>2, <1>6, <2>1
<1>14. CASE ClearFlush
  <2>1. /\ Resetting /\ audio.at = "clear_flush" /\ audio'.at = "test"
        /\ UNCHANGED <<audio.data, ring.cells, past>>
    BY <1>14 DEF ClearFlush, Goto, TypeOK, Resetting
  <2>2. audio.data = << >>
    BY <2>1 DEF Places
  <2> QED BY <1>1, <1>2, <1>3, <1>6, <2>1, <2>2
<1>15. ASSUME /\ UNCHANGED <<audio.data, ring.cells, ring.flush_, past.old, past.stale,
                            past.written>>
              /\ audio'.at = "push" => audio.at = "push"
              /\ Resetting' => Resetting
       PROVE  Flushing'
  BY <1>1, <1>2, <1>6, <1>15
<1>16. ASSUME NEW n \in WriteSizes, Write(n) PROVE Flushing'
  BY <1>15, <1>16 DEF Write, Resetting
<1>17. CASE ChangeStation
  BY <1>15, <1>17 DEF ChangeStation, TypeOK, Resetting
<1>18. ASSUME NEW how \in {"LastFrame", "Flush"}, StopAudio(how) PROVE Flushing'
  BY <1>15, <1>18 DEF StopAudio, TypeOK, Resetting
<1>19. CASE set_force_read \/ set_last_frame
  BY <1>15, <1>19 DEF set_force_read, set_last_frame, TypeOK, Resetting
<1>20. CASE ForceSignal \/ Join
  BY <1>15, <1>20 DEF ForceSignal, Join, Woken, TypeOK, Resetting
<1>21. CASE Process
  BY <1>15, <1>21 DEF Process, Goto, TypeOK, Resetting
<1>22. ASSUME NEW i \in gst.sources, ReadData(i) PROVE Flushing'
  BY <1>15, <1>22 DEF ReadData, TypeOK, Resetting
<1>23. CASE SpuriousWakeup \/ Ready
  BY <1>15, <1>23 DEF SpuriousWakeup, Ready, Goto, TypeOK, Resetting
<1>24. CASE BusCall
  BY <1>15, <1>24 DEF BusCall, Goto, TypeOK, Resetting
<1>25. CASE ClearForceRead
  BY <1>15, <1>25 DEF ClearForceRead, Goto, TypeOK, Resetting
<1>26. CASE ClearLastFrame
  BY <1>15, <1>26 DEF ClearLastFrame, Goto, TypeOK, Resetting
<1>27. CASE NeedData \/ StartFeed \/ Play \/ UNCHANGED vars
  BY <1>15, <1>27 DEF NeedData, StartFeed, Play, vars, Resetting
<1> QED
  BY <1>7, <1>8, <1>9, <1>10, <1>11, <1>12, <1>13, <1>14, <1>16, <1>17, <1>18, <1>19,
     <1>20, <1>21, <1>22, <1>23, <1>24, <1>25, <1>26, <1>27
  DEF Next, Scheduler, Audio

-----------------------------------------------------------------------------
(* The end of the sound *)

LEMMA EndingPreserved ==
  TypeOK /\ Places /\ InOrder /\ Ending /\ [Next]_vars => Ending'
<1> SUFFICES ASSUME TypeOK, Places, InOrder, Ending, [Next]_vars PROVE Ending'
  OBVIOUS
<1> USE DEF Resetting, Playing, Told, Drained
<1>1. ASSUME UNCHANGED <<audio.data, ring.cells>>
      PROVE  UNCHANGED <<Len(audio.data), Len(ring.cells)>>
  BY <1>1
<1>2. /\ Len(ring.cells) \in Nat /\ Len(audio.data) \in Nat /\ Len(<< >>) = 0
      /\ past.given \in Nat /\ past.written \in Nat /\ past.base \in Nat /\ sched.size \in Nat
  BY LenProperties, EmptySeq DEF TypeOK
<1>3. ASSUME NEW n \in WriteSizes, Write(n) PROVE Ending'
  BY <1>3 DEF Write, Free, TypeOK, Ending, Whole
<1>4. CASE WriteInto
  <2>1. /\ sched.at = "write" /\ ~sched.finish_work /\ sched'.finish_work = sched.finish_work
        /\ sched'.at = "free"
        /\ UNCHANGED <<gst, audio.data, ring.flush_, ring.force_read_, ring.last_frame_>>
        /\ UNCHANGED <<past.given, past.base>>
        /\ past'.written = past.written + sched.size
        /\ audio'.at = IF audio.at = "waiting" THEN "read" ELSE audio.at
    BY <1>4 DEF WriteInto, Woken, TypeOK, Places
  <2>2. past'.spoilt = (past.spoilt \/ sched.met \/ Len(ring.cells) + sched.size > length)
    BY <1>4 DEF WriteInto, TypeOK
  <2>3. ASSUME ~past'.spoilt
        PROVE  ~past.spoilt /\ Len(ring'.cells) = Len(ring.cells) + sched.size
    <3> DEFINE all == Len(ring.cells) + sched.size
    <3>1. all \in Nat /\ length \in Nat
      BY <1>2, SizeAssumption
    <3>2. past'.spoilt = (past.spoilt \/ sched.met \/ all > length)
      BY <2>2
    <3> HIDE DEF all
    <3>3. ~past.spoilt /\ ~sched.met /\ ~(all > length)
      BY <2>3, <3>2
    <3>4. all <= length
      BY <3>1, <3>3
    <3> QED BY <1>4, <3>3, <3>4, WriteLeaves DEF all
  <2>4. ASSUME ~past'.spoilt PROVE Whole'
    <3> DEFINE given == past.given + Len(audio.data)
               all == Len(ring.cells)
               some == sched.size
               written == past.written
               base == past.base
    <3>1. /\ given \in Nat /\ all \in Nat /\ some \in Nat /\ written \in Nat /\ base \in Nat
          /\ given + all = written - base
      BY <1>2, <2>3, <2>4 DEF Ending, Whole
    <3>2. /\ past'.given + Len(audio'.data) = given
          /\ Len(ring'.cells) = all + some
          /\ past'.written = written + some /\ past'.base = base
      BY <2>1, <2>3, <2>4
    <3> HIDE DEF given, all, some, written, base
    <3>3. past'.given + Len(audio'.data) + Len(ring'.cells) = past'.written - past'.base
      <4>1. given + (all + some) = (written + some) - base
        BY <3>1
      <4> QED BY <3>2, <4>1
    <3> QED BY <2>1, <2>3, <2>4, <3>3 DEF Ending, Whole
  <2> QED BY <2>1, <2>4 DEF Ending
<1>5. CASE ChangeStation
  BY <1>5 DEF ChangeStation, Free, TypeOK, Ending, Whole
<1>6. ASSUME NEW how \in {"LastFrame", "Flush"}, StopAudio(how) PROVE Ending'
  BY <1>6 DEF StopAudio, Free, TypeOK, Ending, Whole
<1>7. CASE set_flush
  BY <1>7 DEF set_flush, TypeOK, Ending, Whole
<1>8. CASE set_force_read
  BY <1>8 DEF set_force_read, TypeOK, Ending, Whole
<1>9. CASE set_last_frame
  BY <1>9 DEF set_last_frame, TypeOK, Ending, Whole, Places
<1>10. CASE ForceSignal
  BY <1>10 DEF ForceSignal, Woken, TypeOK, Ending, Whole
<1>11. CASE Join
  BY <1>11 DEF Join, TypeOK, Ending, Whole
<1>12. CASE Process
  <2> DEFINE afresh == /\ ~sched.finish_work /\ sched.at # "set_force"
                       /\ ring.cells = << >> /\ ~ring.force_read_ /\ ~ring.flush_
  <2>1. /\ audio.at = "test" /\ UNCHANGED <<ring, gst, sched, audio.data>>
        /\ audio'.at = IF sched.finish_work THEN "done" ELSE "loop"
        /\ audio.data = << >> /\ ~gst.eos
    BY <1>12 DEF Process, Goto, TypeOK, Places, Ending
  <2>2. CASE afresh
    <3>1. ~past'.spoilt /\ past'.given = 0 /\ UNCHANGED past.written /\ past'.base = past.written
      BY <1>12, <2>2 DEF Process, TypeOK
    <3>2. past'.given + Len(audio'.data) + Len(ring'.cells) = past'.written - past'.base
      BY <1>2, <2>1, <2>2, <3>1
    <3> QED BY <2>1, <2>2, <3>1, <3>2 DEF Ending, Whole
  <2>3. CASE ~afresh
    <3>1. UNCHANGED past
      BY <1>12, <2>3 DEF Process
    <3> QED BY <2>1, <3>1 DEF Ending, Whole
  <2> QED BY <2>2, <2>3
<1>13. ASSUME NEW i \in gst.sources, ReadData(i) PROVE Ending'
  BY <1>13 DEF ReadData, TypeOK, Ending, Whole
<1>14. CASE ReadFrom
  <2>1. /\ audio.at = "read" /\ audio.data = << >> /\ UNCHANGED <<gst, sched, past>>
        /\ UNCHANGED <<ring.last_frame_, ring.flush_, ring.force_read_>>
        /\ audio'.at \in {"waiting", "got"}
    <3>1. audio.at = "read" /\ UNCHANGED <<gst, sched, past>>
      BY <1>14 DEF ReadFrom
    <3>2. UNCHANGED <<ring.last_frame_, ring.flush_, ring.force_read_>>
      BY <1>14 DEF ReadFrom, TypeOK
    <3>3. audio'.at \in {"waiting", "got"}
      BY <1>14 DEF ReadFrom, Goto, TypeOK
    <3> QED BY <3>1, <3>2, <3>3 DEF Places
  <2>2. CASE UNCHANGED <<audio.data, ring>> /\ audio'.at = "waiting"
    BY <2>1, <2>2 DEF Ending, Whole
  <2>3. CASE ~(UNCHANGED <<audio.data, ring>> /\ audio'.at = "waiting")
    <3>1. /\ audio'.at = "got" /\ MayRead
          /\ audio'.data \in Seq(Nat) /\ ring'.cells \in Seq(Nat)
          /\ Len(audio'.data) + Len(ring'.cells) = Len(ring.cells)
          /\ Len(audio'.data) = 0 => Len(ring.cells) = 0
      BY <1>14, <2>3, ReadTakes
    <3>2. ASSUME Len(ring.cells) = 0 PROVE audio'.data = << >> /\ ring'.cells = << >>
      <4> DEFINE n == Len(audio'.data)
                 m == Len(ring'.cells)
      <4>1. n \in Nat /\ m \in Nat /\ n + m = 0
        BY <3>1, <3>2, LenProperties
      <4> HIDE DEF n, m
      <4>2. n = 0 /\ m = 0
        BY <4>1
      <4> QED BY <3>1, <4>2, EmptySeq DEF n, m
    <3>3. ASSUME ~past.spoilt PROVE Whole'
      <4>1. past'.given + Len(audio'.data) + Len(ring'.cells) = past'.written - past'.base
        <5> DEFINE n == Len(audio'.data)
                   m == Len(ring'.cells)
                   all == Len(ring.cells)
                   given == past.given
        <5>1. n \in Nat /\ m \in Nat /\ all \in Nat /\ given \in Nat /\ n + m = all
          BY <1>2, <3>1, LenProperties
        <5>2. given + 0 + all = past.written - past.base
          BY <1>2, <2>1, <3>3 DEF Ending, Whole
        <5>3. UNCHANGED <<past.given, past.written, past.base>>
          BY <2>1
        <5> HIDE DEF n, m, all, given
        <5>4. given + n + m = given + 0 + all
          BY <5>1
        <5> QED BY <5>2, <5>3, <5>4 DEF n, m, given
      <4>2. ASSUME gst'.eos PROVE Drained'
        <5>1. ring.cells = << >> /\ Told
          BY <2>1, <3>3, <4>2 DEF Ending, Whole
        <5> QED BY <1>2, <2>1, <3>2, <5>1
      <4>3. ASSUME audio'.data = << >> PROVE Drained'
        <5>1. Len(ring.cells) = 0
          BY <1>2, <3>1, <4>3
        <5>2. ring.last_frame_
          BY <3>1, <3>3, <5>1, SizeAssumption DEF MayRead, Ending, Whole
        <5>3. Told
          BY <5>2 DEF Ending
        <5> QED BY <2>1, <3>2, <5>1, <5>3
      <4> QED BY <2>1, <3>1, <3>3, <4>1, <4>2, <4>3 DEF Ending, Whole
    <3> QED BY <2>1, <3>1, <3>3 DEF Ending
  <2> QED BY <2>2, <2>3
<1>15. CASE SpuriousWakeup
  BY <1>15 DEF SpuriousWakeup, Goto, TypeOK, Ending, Whole
<1>16. CASE EndOfStream
  <2>1. /\ audio.at = "got" /\ (audio.data = << >> \/ ring.flush_)
        /\ gst'.eos /\ audio'.at = "loop" /\ audio'.data = << >>
        /\ UNCHANGED <<ring, sched, past>>
    BY <1>16 DEF EndOfStream, Back, TypeOK, Gst
  <2>2. ASSUME ~past.spoilt PROVE audio.data = << >> /\ Drained
    BY <2>1, <2>2 DEF Ending, Whole
  <2> QED BY <2>1, <2>2 DEF Ending, Whole
<1>17. CASE GoOn
  BY <1>17 DEF GoOn, Goto, TypeOK, Ending, Whole
<1>18. CASE PushBuffer
  <2>1. /\ audio.at = "push" /\ audio'.at = "loop" /\ audio'.data = << >>
        /\ UNCHANGED <<ring, sched>>
    BY <1>18 DEF PushBuffer, Back
  <2>2. CASE gst.eos
    <3>1. past'.spoilt
      BY <1>18, <2>2 DEF PushBuffer, TypeOK
    <3> QED BY <2>1, <3>1 DEF Ending
  <2>3. CASE ~gst.eos
    <3>1. gst'.eos = gst.eos
      <4>1. StopFeed(gst) \in Gst /\ StopFeed(gst).eos = gst.eos
        BY DEF StopFeed, TypeOK, Gst, None
      <4> DEFINE g == StopFeed(gst)
      <4>2. gst' = [g EXCEPT !.queued = @ + 1]
        BY <1>18, <2>3 DEF PushBuffer
      <4> HIDE DEF g
      <4> QED BY <4>1, <4>2 DEF Gst, g
    <3>2. /\ past'.given = past.given + Len(audio.data)
          /\ UNCHANGED <<past.written, past.base, past.spoilt>>
      BY <1>18, <2>3 DEF PushBuffer, TypeOK
    <3>3. ASSUME ~past.spoilt
          PROVE  past'.given + Len(audio'.data) + Len(ring'.cells) = past'.written - past'.base
      <4>1. Len(audio'.data) = 0 /\ Len(ring'.cells) = Len(ring.cells)
        BY <1>2, <2>1
      <4> QED BY <1>2, <3>2, <3>3, <4>1 DEF Ending, Whole
    <3> QED BY <2>1, <2>3, <3>1, <3>2, <3>3 DEF Ending, Whole
  <2> QED BY <2>2, <2>3
<1>19. CASE BusCall
  BY <1>19 DEF BusCall, Goto, TypeOK, Ending, Whole
<1>20. CASE Ready
  BY <1>20 DEF Ready, Goto, TypeOK, Gst, Ending, Whole
<1>21. CASE ResetBuffer
  <2>1. /\ audio.at = "reset" /\ audio'.at = "clear_force" /\ audio'.data = audio.data
        /\ ring'.cells = << >>
        /\ UNCHANGED <<ring.last_frame_, ring.flush_, ring.force_read_, gst, past>>
        /\ UNCHANGED <<sched.at, sched.finish_work>>
    BY <1>21 DEF ResetBuffer, Goto, TypeOK
  <2>2. ASSUME ~past.spoilt PROVE Drained
    BY <2>1, <2>2 DEF Ending, Whole
  <2> QED BY <2>1, <2>2 DEF Ending, Whole
<1>22. CASE ClearForceRead
  BY <1>22 DEF ClearForceRead, Goto, TypeOK, Ending, Whole
<1>23. CASE ClearLastFrame
  <2>1. gst'.eos = gst.eos
    BY <1>23 DEF ClearLastFrame, TypeOK, Gst
  <2> QED BY <1>23, <2>1 DEF ClearLastFrame, Goto, TypeOK, Ending, Whole
<1>24. CASE ClearFlush
  BY <1>24 DEF ClearFlush, Goto, TypeOK, Ending, Whole
<1>25. CASE NeedData \/ StartFeed \/ Play \/ UNCHANGED vars
  <2>1. UNCHANGED <<gst.eos, ring, audio, sched, past>>
    BY <1>25 DEF NeedData, StartFeed, Play, vars, TypeOK, Gst
  <2> QED BY <2>1 DEF Ending, Whole
<1> QED
  BY <1>3, <1>4, <1>5, <1>6, <1>7, <1>8, <1>9, <1>10, <1>11, <1>12, <1>13, <1>14, <1>15,
     <1>16, <1>17, <1>18, <1>19, <1>20, <1>21, <1>22, <1>23, <1>24, <1>25
  DEF Next, Scheduler, Audio

-----------------------------------------------------------------------------
(* The theorems *)

LEMMA Inductive == IInv /\ [Next]_vars => IInv'
BY TypePreserved, PlacesPreserved, InOrderPreserved, FlushingPreserved, EndingPreserved DEF IInv

LEMMA Invariance == Spec => []IInv
<1> QED BY Begins, Inductive, PTL DEF Spec

\* Every variable keeps to its type, for every length of the ring buffer.
THEOREM TypeCorrect == Spec => []TypeOK
<1>1. IInv => TypeOK
  BY DEF IInv
<1> QED BY <1>1, Invariance, PTL

LEMMA SoundInOrderHolds == IInv => SoundInOrder
<1> SUFFICES ASSUME IInv PROVE SoundInOrder
  OBVIOUS
<1> DEFINE coming == audio.data \o ring.cells
<1>1. /\ coming \in Seq(Nat)
      /\ Rising(coming)
      /\ Sounds(coming) = Sounds(audio.data) \cup Sounds(ring.cells)
  BY Joined DEF IInv, TypeOK, InOrder
<1>2. Between(coming, past.last, past.written)
  BY <1>1 DEF IInv, InOrder, Between
<1> HIDE DEF coming
<1>3. \A i \in DOMAIN coming : coming[i] # Silence => coming[i] \in Sounds(coming)
  BY DEF Sounds
<1> QED BY <1>1, <1>2, <1>3 DEF SoundInOrder, Rising, Between, coming

LEMMA LastFramePlayedHolds == IInv => LastFramePlayed
<1> SUFFICES ASSUME IInv, audio.at = "done", ~past.spoilt
             PROVE  past.given = past.written - past.base
  BY DEF LastFramePlayed
<1>1. audio.data = << >> /\ ring.cells = << >>
  BY DEF IInv, Places, Ending, Whole
<1>2. past.given + Len(audio.data) + Len(ring.cells) = past.written - past.base
  BY DEF IInv, Ending, Whole
<1>3. Len(audio.data) = 0 /\ Len(ring.cells) = 0 /\ past.given \in Nat
  BY <1>1, EmptySeq DEF IInv, TypeOK
<1> QED BY <1>2, <1>3

\* What GStreamer is given comes in the order it was written; after a change
\* of the station at most one chunk of the old sound is still fed; and when the
\* scheduler stops the player at the end of a file, the audio thread only ends
\* once all the sound has been given, unless some was dropped on purpose.
THEOREM SoundIsRight == Spec => []SoundRight
<1>1. IInv => FlushDropsOldSound
  BY DEF IInv, Flushing, FlushDropsOldSound
<1>2. IInv => SoundRight
  BY <1>1, SoundInOrderHolds, LastFramePlayedHolds DEF SoundRight
<1> QED BY <1>2, Invariance, PTL
=============================================================================
