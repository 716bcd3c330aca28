---------------------------- MODULE RtlSdrProofs ----------------------------
(***************************************************************************)
(* Proofs about the dongle: its transfers, then its settings.              *)
(*                                                                         *)
(* Asynchronous reading, for every number of transfers and calls.  The     *)
(* invariant says where each transfer is: libusb's, waiting in the list,   *)
(* in the reader's hands, or idle, and never in two places; that nothing   *)
(* is left when reading has ended; which thread may be where; and that the *)
(* blocks still to be handed over continue the last one handed over        *)
(* without a gap up to the next one to be received.                        *)
(***************************************************************************)
EXTENDS UsbAsync, RtlDevice, SequenceTheorems, WellFoundedInduction, TLAPS

Places == {"out", "submit", "lock", "loop", "events", "handle", "callback", "resubmit",
           "lost", "free"}
States == {"IDLE", "SUBMITTED", "CANCELING", "COMPLETED_OK", "COMPLETED_ERROR",
           "COMPLETED_DEV_LOST"}
Statuses == {"INACTIVE", "RUNNING", "CANCEL_REQUEST", "CANCELING", "CLOSING"}
ReaderType == [at : Places, x : Transfers, lost : BOOLEAN, calls : Nat]
FlightType == [order : Seq(Transfers), cancelled : SUBSET Transfers]
DeviceType == [plugged : BOOLEAN, dev_lost : BOOLEAN, allocated : BOOLEAN, freed : BOOLEAN]
StreamType == [next : Nat, block : [Transfers -> Nat], last : Nat]

TypeOK ==
  /\ xfer \in [Transfers -> States]
  /\ list \in Seq(Transfers)
  /\ flight \in FlightType
  /\ status \in Statuses
  /\ errors \in Nat
  /\ reader \in ReaderType
  /\ holder \in {"reader", "nobody"}
  /\ closer \in {"out", "wait", "deinit", "done", "never"}
  /\ device \in DeviceType
  /\ stream \in StreamType

\* What libusb has is what the states of the transfers say.
Held ==
  /\ \A x \in Transfers : x \in InFlight <=> xfer[x] \in {"SUBMITTED", "CANCELING"}
  /\ flight.cancelled \subseteq InFlight
  /\ \A i, j \in DOMAIN flight.order : flight.order[i] = flight.order[j] => i = j

\* Completed transfers the reader has yet to hand over, the first one perhaps
\* in the callback already.
Pending == IF reader.at = "callback" THEN <<reader.x>> \o list ELSE list

\* None of them is libusb's, and no transfer is in two places.
Apart ==
  /\ \A i, j \in DOMAIN Pending : Pending[i] = Pending[j] => i = j
  /\ \A i \in DOMAIN Pending : Pending[i] \notin InFlight

\* Nor is the one the reader works on.
Own ==
  /\ reader.at = "callback" => xfer[reader.x] = "COMPLETED_OK"
  /\ reader.at = "resubmit" =>
       reader.x \notin InFlight /\ \A i \in DOMAIN list : list[i] # reader.x
  /\ reader.at = "submit" =>
       \A x \in Transfers : x >= reader.x => x \notin InFlight /\ \A i \in DOMAIN list : list[i] # x

\* When reading has ended nothing is left, neither in flight nor in the list.
Ended ==
  /\ status \in {"INACTIVE", "CLOSING"} \/ reader.at = "out" => InFlight = {} /\ list = << >>
  /\ status = "CANCELING" => \A x \in Transfers : xfer[x] # "SUBMITTED"

\* Who is where.
Threads ==
  /\ reader.at # "free"
  /\ reader.at # "out" => device.allocated
  /\ holder = "reader" <=> reader.at \in {"loop", "handle", "resubmit"}
  /\ closer \in {"deinit", "done"} <=> status = "CLOSING"
  /\ status = "CLOSING" => reader.at = "out"
  /\ device.freed => closer = "done"
  /\ reader.at \in {"submit", "events", "handle", "callback", "resubmit"} => status # "INACTIVE"
  /\ reader.at = "submit" => status \in {"RUNNING", "CANCEL_REQUEST"}

\* The device is not lost while a thread may close it.
NeverLost ==
  closer # "never" =>
    /\ device.plugged /\ errors = 0 /\ ~reader.lost /\ reader.at # "lost"
    /\ reader.at = "lock" => status # "INACTIVE"
    /\ \A x \in Transfers : xfer[x] # "COMPLETED_DEV_LOST"

-----------------------------------------------------------------------------
(* Blocks in a row: the last one handed over, those pending, the next one.    *)

Succ(k) == (k + 1) % Blocks
Good == {x \in Transfers : xfer[x] = "COMPLETED_OK"}

\* Places 0 and Len(p) + 1 stand for the last block and the next one.
Marked(p, good, i) == i = 0 \/ i = Len(p) + 1 \/ p[i] \in good
Number(p, s, i) == IF i = 0 THEN s.last ELSE IF i = Len(p) + 1 THEN s.next ELSE s.block[p[i]]
InRow(p, good, s) ==
  \A i, j \in 0 .. Len(p) + 1 :
    /\ i < j /\ Marked(p, good, i) /\ Marked(p, good, j)
    /\ \A k \in i + 1 .. j - 1 : ~Marked(p, good, k)
    => Number(p, s, j) = Succ(Number(p, s, i))

Gapless == InRow(Pending, Good, stream)

IInv == TypeOK /\ Held /\ Apart /\ Own /\ Ended /\ Threads /\ NeverLost /\ Gapless

\* Only the states of those pending and their blocks matter.
LEMMA SameRow ==
  ASSUME NEW p \in Seq(Transfers), NEW good, NEW good2, NEW s, InRow(p, good, s),
         \A i \in DOMAIN p : p[i] \in good <=> p[i] \in good2
  PROVE  InRow(p, good2, s)
<1>1. \A i \in 0 .. Len(p) + 1 : Marked(p, good, i) <=> Marked(p, good2, i)
  BY DEF Marked
<1> SUFFICES ASSUME NEW i \in 0 .. Len(p) + 1, NEW j \in 0 .. Len(p) + 1,
                    i < j, Marked(p, good2, i), Marked(p, good2, j),
                    \A k \in i + 1 .. j - 1 : ~Marked(p, good2, k)
             PROVE  Number(p, s, j) = Succ(Number(p, s, i))
  BY DEF InRow
<1>2. \A k \in i + 1 .. j - 1 : ~Marked(p, good, k)
  <2> SUFFICES ASSUME NEW k \in i + 1 .. j - 1 PROVE ~Marked(p, good, k)
    OBVIOUS
  <2>1. k \in 0 .. Len(p) + 1
    OBVIOUS
  <2> QED BY <1>1, <2>1
<1> QED BY <1>1, <1>2 DEF InRow

\* A failed transfer at the end changes nothing.
LEMMA RowWithBad ==
  ASSUME NEW p \in Seq(Transfers), NEW good, NEW good2, NEW s, NEW x \in Transfers,
         InRow(p, good, s),
         \A i \in DOMAIN p : p[i] \in good <=> p[i] \in good2, x \notin good2
  PROVE  InRow(Append(p, x), good2, s)
<1> DEFINE q == Append(p, x)
           n == Len(p) + 1
<1>0. q \in Seq(Transfers) /\ Len(q) = n /\ n \in Nat /\ q[n] = x
      /\ \A i \in 1 .. Len(p) : q[i] = p[i]
  OBVIOUS
<1>1. \A i \in 0 .. Len(p) : /\ Marked(q, good2, i) <=> Marked(p, good, i)
                            /\ Number(q, s, i) = Number(p, s, i)
  BY <1>0 DEF Marked, Number
<1>2. ~Marked(q, good2, n)
  BY <1>0 DEF Marked
<1>3. Marked(p, good, n) /\ Number(p, s, n) = s.next /\ Number(q, s, n + 1) = s.next
  BY <1>0 DEF Marked, Number
<1> SUFFICES ASSUME NEW i \in 0 .. n + 1, NEW j \in 0 .. n + 1,
                    i < j, Marked(q, good2, i), Marked(q, good2, j),
                    \A k \in i + 1 .. j - 1 : ~Marked(q, good2, k)
             PROVE  Number(q, s, j) = Succ(Number(q, s, i))
  BY <1>0 DEF InRow
<1>4. i # n /\ j # n
  BY <1>2
<1> HIDE DEF q
<1>5. CASE j < n
  <2>1. i \in 0 .. Len(p) /\ j \in 0 .. Len(p) /\ i \in 0 .. Len(p) + 1 /\ j \in 0 .. Len(p) + 1
    BY <1>5
  <2>2. \A k \in i + 1 .. j - 1 : ~Marked(p, good, k)
    <3> SUFFICES ASSUME NEW k \in i + 1 .. j - 1 PROVE ~Marked(p, good, k)
      OBVIOUS
    <3>1. k \in 0 .. Len(p)
      BY <2>1
    <3> QED BY <1>1, <3>1
  <2>3. Number(p, s, j) = Succ(Number(p, s, i))
    BY <1>1, <2>1, <2>2 DEF InRow
  <2> QED BY <1>1, <2>1, <2>3
<1>6. CASE j = n + 1
  <2>1. i \in 0 .. Len(p) /\ i < n /\ i \in 0 .. Len(p) + 1 /\ n \in 0 .. Len(p) + 1
    BY <1>0, <1>4, <1>6
  <2>2. \A k \in i + 1 .. n - 1 : ~Marked(p, good, k)
    <3> SUFFICES ASSUME NEW k \in i + 1 .. n - 1 PROVE ~Marked(p, good, k)
      OBVIOUS
    <3>1. k \in 0 .. Len(p) /\ k \in i + 1 .. j - 1
      BY <1>6, <2>1
    <3> QED BY <1>1, <3>1
  <2>3. Number(p, s, n) = Succ(Number(p, s, i))
    BY <1>1, <1>3, <2>1, <2>2 DEF InRow
  <2> QED BY <1>1, <1>3, <1>6, <2>1, <2>3
<1> QED BY <1>0, <1>4, <1>5, <1>6

\* A block received at the end is the next one.
LEMMA RowWithGood ==
  ASSUME NEW p \in Seq(Transfers), NEW good, NEW good2, NEW s, NEW s2, NEW x \in Transfers,
         InRow(p, good, s),
         \A i \in DOMAIN p : p[i] \in good <=> p[i] \in good2, x \in good2,
         \A i \in DOMAIN p : s2.block[p[i]] = s.block[p[i]],
         s2.last = s.last, s2.block[x] = s.next, s2.next = Succ(s.next)
  PROVE  InRow(Append(p, x), good2, s2)
<1> DEFINE q == Append(p, x)
           n == Len(p) + 1
<1>0. q \in Seq(Transfers) /\ Len(q) = n /\ n \in Nat /\ q[n] = x
      /\ \A i \in 1 .. Len(p) : q[i] = p[i]
  OBVIOUS
<1>1. \A i \in 0 .. n : /\ Marked(q, good2, i) <=> Marked(p, good, i)
                        /\ Number(q, s2, i) = Number(p, s, i)
  BY <1>0 DEF Marked, Number
<1>2. Marked(q, good2, n) /\ Number(q, s2, n + 1) = Succ(Number(q, s2, n))
  BY <1>0 DEF Marked, Number
<1> SUFFICES ASSUME NEW i \in 0 .. n + 1, NEW j \in 0 .. n + 1,
                    i < j, Marked(q, good2, i), Marked(q, good2, j),
                    \A k \in i + 1 .. j - 1 : ~Marked(q, good2, k)
             PROVE  Number(q, s2, j) = Succ(Number(q, s2, i))
  BY <1>0 DEF InRow
<1> HIDE DEF q
<1>3. CASE j <= n
  <2>1. i \in 0 .. n /\ j \in 0 .. n /\ i \in 0 .. Len(p) + 1 /\ j \in 0 .. Len(p) + 1
    BY <1>0, <1>3
  <2>2. \A k \in i + 1 .. j - 1 : ~Marked(p, good, k)
    <3> SUFFICES ASSUME NEW k \in i + 1 .. j - 1 PROVE ~Marked(p, good, k)
      OBVIOUS
    <3>1. k \in 0 .. n
      BY <1>0, <2>1
    <3> QED BY <1>1, <3>1
  <2>3. Number(p, s, j) = Succ(Number(p, s, i))
    BY <1>1, <2>1, <2>2 DEF InRow
  <2> QED BY <1>1, <2>1, <2>3
<1>4. CASE j = n + 1
  <2>1. i = n
    <3>1. i < n => n \in i + 1 .. j - 1
      BY <1>0, <1>4
    <3> QED BY <1>0, <1>2, <1>4, <3>1
  <2> QED BY <1>2, <1>4, <2>1
<1> QED BY <1>0, <1>3, <1>4

\* A failed transfer at the head may be taken away.
LEMMA RowWithoutBad ==
  ASSUME NEW p \in Seq(Transfers), NEW good, NEW s, InRow(p, good, s),
         p # << >>, Head(p) \notin good
  PROVE  InRow(Tail(p), good, s)
<1> DEFINE q == Tail(p)
           n == Len(q) + 1
           at(i) == IF i = 0 THEN 0 ELSE i + 1
<1>0. q \in Seq(Transfers) /\ Len(p) = n /\ n \in Nat /\ n > 0 /\ p[1] \notin good
      /\ \A i \in 1 .. Len(q) : q[i] = p[i + 1]
  OBVIOUS
<1>1. \A i \in 0 .. n : /\ Marked(q, good, i) <=> Marked(p, good, at(i))
                        /\ Number(q, s, i) = Number(p, s, at(i))
  <2> SUFFICES ASSUME NEW i \in 0 .. n
               PROVE  /\ Marked(q, good, i) <=> Marked(p, good, at(i))
                      /\ Number(q, s, i) = Number(p, s, at(i))
    OBVIOUS
  <2>1. CASE i = 0
    BY <2>1 DEF Marked, Number
  <2>2. CASE i > 0
    <3> HIDE DEF q
    <3>1. at(i) = i + 1 /\ i # 0 /\ i + 1 # 0
      BY <2>2
    <3>2. i = Len(q) + 1 <=> i + 1 = Len(p) + 1
      BY <1>0
    <3>3. i # Len(q) + 1 => q[i] = p[i + 1]
      <4>1. Len(q) \in Nat
        BY <1>0
      <4> QED BY <1>0, <2>2, <4>1
    <3> HIDE DEF at
    <3> QED BY <3>1, <3>2, <3>3 DEF Marked, Number
  <2> QED BY <2>1, <2>2
<1>2. ~Marked(p, good, 1)
  BY <1>0 DEF Marked
<1> SUFFICES ASSUME NEW i \in 0 .. n, NEW j \in 0 .. n,
                    i < j, Marked(q, good, i), Marked(q, good, j),
                    \A k \in i + 1 .. j - 1 : ~Marked(q, good, k)
             PROVE  Number(q, s, j) = Succ(Number(q, s, i))
  BY <1>0 DEF InRow
<1> HIDE DEF q
<1>3. at(i) \in 0 .. Len(p) + 1 /\ at(j) \in 0 .. Len(p) + 1 /\ at(i) < at(j)
  BY <1>0
<1>4. \A k \in at(i) + 1 .. at(j) - 1 : ~Marked(p, good, k)
  <2> SUFFICES ASSUME NEW k \in at(i) + 1 .. at(j) - 1 PROVE ~Marked(p, good, k)
    OBVIOUS
  <2>1. CASE k = 1
    BY <1>2, <2>1
  <2>2. CASE k # 1
    <3>1. k - 1 \in i + 1 .. j - 1 /\ k - 1 \in 0 .. n /\ at(k - 1) = k
      BY <1>0, <1>3, <2>2
    <3> QED BY <1>1, <3>1
  <2> QED BY <2>1, <2>2
<1>5. Marked(p, good, at(i)) /\ Marked(p, good, at(j))
  BY <1>1
<1> HIDE DEF at
<1>6. Number(p, s, at(j)) = Succ(Number(p, s, at(i)))
  BY <1>3, <1>4, <1>5 DEF InRow
<1> QED BY <1>1, <1>6

\* The block at the head is the one after the last.
LEMMA RowWithoutGood ==
  ASSUME NEW p \in Seq(Transfers), NEW good, NEW s, NEW s2, InRow(p, good, s),
         p # << >>, Head(p) \in good,
         s2.last = s.block[Head(p)], s2.next = s.next, s2.block = s.block
  PROVE  InRow(Tail(p), good, s2) /\ s2.last = Succ(s.last)
<1> DEFINE q == Tail(p)
           n == Len(q) + 1
<1>0. q \in Seq(Transfers) /\ Len(p) = n /\ n \in Nat /\ n > 0 /\ p[1] \in good /\ p[1] = Head(p)
      /\ \A i \in 1 .. Len(q) : q[i] = p[i + 1]
  OBVIOUS
<1>1. \A i \in 0 .. n : /\ Marked(q, good, i) <=> Marked(p, good, i + 1)
                        /\ Number(q, s2, i) = Number(p, s, i + 1)
  BY <1>0 DEF Marked, Number
<1>2. s2.last = Succ(s.last)
  <2>1. Marked(p, good, 0) /\ Marked(p, good, 1)
        /\ Number(p, s, 0) = s.last /\ Number(p, s, 1) = s2.last
    BY <1>0 DEF Marked, Number
  <2>2. 0 \in 0 .. Len(p) + 1 /\ 1 \in 0 .. Len(p) + 1 /\ \A k \in 0 + 1 .. 1 - 1 : ~Marked(p, good, k)
    BY <1>0
  <2> QED BY <2>1, <2>2 DEF InRow
<1>3. InRow(q, good, s2)
  <2> SUFFICES ASSUME NEW i \in 0 .. n, NEW j \in 0 .. n,
                      i < j, Marked(q, good, i), Marked(q, good, j),
                      \A k \in i + 1 .. j - 1 : ~Marked(q, good, k)
               PROVE  Number(q, s2, j) = Succ(Number(q, s2, i))
    BY <1>0 DEF InRow
  <2> HIDE DEF q
  <2>1. i + 1 \in 0 .. Len(p) + 1 /\ j + 1 \in 0 .. Len(p) + 1 /\ i + 1 < j + 1
    BY <1>0
  <2>2. \A k \in (i + 1) + 1 .. (j + 1) - 1 : ~Marked(p, good, k)
    <3> SUFFICES ASSUME NEW k \in (i + 1) + 1 .. (j + 1) - 1 PROVE ~Marked(p, good, k)
      OBVIOUS
    <3>1. k - 1 \in i + 1 .. j - 1 /\ k - 1 \in 0 .. n /\ (k - 1) + 1 = k
      BY <1>0
    <3> QED BY <1>1, <3>1
  <2>3. Marked(p, good, i + 1) /\ Marked(p, good, j + 1)
    BY <1>1
  <2>4. Number(p, s, j + 1) = Succ(Number(p, s, i + 1))
    BY <2>1, <2>2, <2>3 DEF InRow
  <2> QED BY <1>1, <2>4
<1> QED BY <1>2, <1>3

-----------------------------------------------------------------------------
(* Sequences of transfers as sets.                                             *)

\* Appending an element that is not there.
LEMMA WithOneMore ==
  ASSUME NEW s \in Seq(Transfers), NEW x \in Transfers, x \notin ToSet(s),
         \A i, j \in DOMAIN s : s[i] = s[j] => i = j
  PROVE  /\ Append(s, x) \in Seq(Transfers)
         /\ ToSet(Append(s, x)) = ToSet(s) \cup {x}
         /\ \A i, j \in DOMAIN Append(s, x) : Append(s, x)[i] = Append(s, x)[j] => i = j
<1> DEFINE t == Append(s, x)
<1>1. /\ t \in Seq(Transfers) /\ DOMAIN t = 1 .. Len(s) + 1 /\ DOMAIN s = 1 .. Len(s)
      /\ Len(s) \in Nat /\ t[Len(s) + 1] = x /\ \A i \in 1 .. Len(s) : t[i] = s[i]
  OBVIOUS
<1> HIDE DEF t
<1>2. ToSet(t) = ToSet(s) \cup {x}
  <2>1. ASSUME NEW y \in ToSet(t) PROVE y \in ToSet(s) \cup {x}
    <3>1. PICK i \in 1 .. Len(s) + 1 : y = t[i]
      BY <1>1, <2>1 DEF ToSet
    <3>2. i = Len(s) + 1 \/ i \in 1 .. Len(s)
      BY <1>1
    <3> QED BY <1>1, <3>1, <3>2 DEF ToSet
  <2>2. ASSUME NEW y \in ToSet(s) PROVE y \in ToSet(t)
    <3>1. PICK i \in 1 .. Len(s) : y = s[i]
      BY <1>1, <2>2 DEF ToSet
    <3>2. i \in DOMAIN t /\ y = t[i]
      BY <1>1, <3>1
    <3> QED BY <3>2 DEF ToSet
  <2>3. x \in ToSet(t)
    <3>1. Len(s) + 1 \in DOMAIN t /\ x = t[Len(s) + 1]
      BY <1>1
    <3> QED BY <3>1 DEF ToSet
  <2> QED BY <2>1, <2>2, <2>3
<1>3. ASSUME NEW i \in DOMAIN t, NEW j \in DOMAIN t, t[i] = t[j] PROVE i = j
  <2>1. \A k \in 1 .. Len(s) : s[k] # x
    BY <1>1 DEF ToSet
  <2>2. (i = Len(s) + 1 \/ i \in 1 .. Len(s)) /\ (j = Len(s) + 1 \/ j \in 1 .. Len(s))
    BY <1>1
  <2> QED BY <1>1, <1>3, <2>1, <2>2
<1> QED BY <1>1, <1>2, <1>3 DEF t

\* Removing one element.
LEMMA WithoutOne ==
  ASSUME NEW s \in Seq(Transfers), NEW n \in DOMAIN s,
         \A i, j \in DOMAIN s : s[i] = s[j] => i = j
  PROVE  /\ RemoveAt(s, n) \in Seq(Transfers)
         /\ ToSet(RemoveAt(s, n)) = ToSet(s) \ {s[n]}
         /\ \A i, j \in DOMAIN RemoveAt(s, n) : RemoveAt(s, n)[i] = RemoveAt(s, n)[j] => i = j
<1> DEFINE t == RemoveAt(s, n)
           at(i) == IF i < n THEN i ELSE i + 1
<1>0. Len(s) \in Nat /\ DOMAIN s = 1 .. Len(s) /\ n \in 1 .. Len(s)
  OBVIOUS
<1>1. /\ t \in Seq(Transfers) /\ DOMAIN t = 1 .. Len(s) - 1
      /\ \A i \in 1 .. Len(s) - 1 : t[i] = s[at(i)]
  <2>1. /\ SubSeq(s, 1, n - 1) \in Seq(Transfers) /\ Len(SubSeq(s, 1, n - 1)) = n - 1
        /\ \A i \in 1 .. n - 1 : SubSeq(s, 1, n - 1)[i] = s[i]
    BY <1>0
  <2>2. /\ SubSeq(s, n + 1, Len(s)) \in Seq(Transfers) /\ Len(SubSeq(s, n + 1, Len(s))) = Len(s) - n
        /\ \A i \in 1 .. Len(s) - n : SubSeq(s, n + 1, Len(s))[i] = s[n + i]
    <3>1. \A k \in 1 .. Len(s) + 1 :
            /\ SubSeq(s, k, Len(s)) \in Seq(Transfers) /\ Len(SubSeq(s, k, Len(s))) = Len(s) - k + 1
            /\ \A i \in 1 .. Len(s) - k + 1 : SubSeq(s, k, Len(s))[i] = s[k + i - 1]
      BY <1>0
    <3>2. n + 1 \in 1 .. Len(s) + 1 /\ Len(s) - (n + 1) + 1 = Len(s) - n
          /\ \A i \in 1 .. Len(s) - n : (n + 1) + i - 1 = n + i
      BY <1>0
    <3> DEFINE k == n + 1
    <3> HIDE DEF k
    <3>3. k \in 1 .. Len(s) + 1 /\ Len(s) - k + 1 = Len(s) - n
          /\ \A i \in 1 .. Len(s) - n : k + i - 1 = n + i
      BY <3>2 DEF k
    <3>4. /\ SubSeq(s, k, Len(s)) \in Seq(Transfers) /\ Len(SubSeq(s, k, Len(s))) = Len(s) - n
          /\ \A i \in 1 .. Len(s) - n : SubSeq(s, k, Len(s))[i] = s[n + i]
      BY <3>1, <3>3
    <3> QED BY <3>4 DEF k
  <2> DEFINE a == SubSeq(s, 1, n - 1)
             b == SubSeq(s, n + 1, Len(s))
  <2> HIDE DEF a, b
  <2>3. /\ a \o b \in Seq(Transfers) /\ Len(a \o b) = (n - 1) + (Len(s) - n)
        /\ \A i \in 1 .. (n - 1) + (Len(s) - n) :
             (a \o b)[i] = IF i <= n - 1 THEN a[i] ELSE b[i - (n - 1)]
    <3>1. a \in Seq(Transfers) /\ b \in Seq(Transfers) /\ Len(a) = n - 1 /\ Len(b) = Len(s) - n
      BY <2>1, <2>2 DEF a, b
    <3>2. /\ a \o b \in Seq(Transfers) /\ Len(a \o b) = Len(a) + Len(b)
          /\ \A i \in 1 .. Len(a) + Len(b) :
               (a \o b)[i] = IF i <= Len(a) THEN a[i] ELSE b[i - Len(a)]
      <4>1. \A u, v \in Seq(Transfers) :
              /\ u \o v \in Seq(Transfers) /\ Len(u \o v) = Len(u) + Len(v)
              /\ \A i \in 1 .. Len(u) + Len(v) :
                   (u \o v)[i] = IF i <= Len(u) THEN u[i] ELSE v[i - Len(u)]
        BY ConcatProperties
      <4> QED BY <3>1, <4>1, Zenon
    <3> QED BY <3>1, <3>2, Zenon
  <2>4. t = a \o b
    BY DEF RemoveAt, a, b
  <2>5. ASSUME NEW i \in 1 .. Len(s) - 1 PROVE (a \o b)[i] = s[at(i)]
    <3>1. CASE i < n
      <4>1. a[i] = s[i]
        BY <1>0, <2>1, <3>1 DEF a
      <4> QED BY <1>0, <2>3, <3>1, <4>1
    <3>2. CASE ~(i < n)
      <4>1. i - (n - 1) \in 1 .. Len(s) - n /\ n + (i - (n - 1)) = i + 1
        BY <1>0, <3>2
      <4>2. b[i - (n - 1)] = s[i + 1]
        BY <2>2, <4>1 DEF b
      <4> QED BY <1>0, <2>3, <3>2, <4>2
    <3> QED BY <3>1, <3>2
  <2> HIDE DEF t, at
  <2>6. DOMAIN (a \o b) = 1 .. Len(s) - 1
    <3>1. \A u \in Seq(Transfers) : DOMAIN u = 1 .. Len(u)
      OBVIOUS
    <3>2. (n - 1) + (Len(s) - n) = Len(s) - 1
      BY <1>0
    <3>3. DOMAIN (a \o b) = 1 .. Len(a \o b)
      BY <2>3, <3>1, Zenon
    <3> QED BY <2>3, <3>2, <3>3, Zenon
  <2>7. \A i \in 1 .. Len(s) - 1 : (a \o b)[i] = s[at(i)]
    BY <2>5
  <2>8. t \in Seq(Transfers)
    BY <2>3, <2>4, Zenon
  <2>9. DOMAIN t = 1 .. Len(s) - 1
    BY <2>4, <2>6, Zenon
  <2>10. \A i \in 1 .. Len(s) - 1 : t[i] = s[at(i)]
    BY <2>4, <2>7, Zenon
  <2> QED BY <2>8, <2>9, <2>10
<1> HIDE DEF t
<1>2. \A i \in 1 .. Len(s) - 1 : at(i) \in 1 .. Len(s) /\ at(i) # n
  BY <1>0
<1>3. ToSet(t) = ToSet(s) \ {s[n]}
  <2>1. ASSUME NEW y \in ToSet(t) PROVE y \in ToSet(s) \ {s[n]}
    <3>1. PICK i \in 1 .. Len(s) - 1 : y = t[i]
      BY <1>1, <2>1 DEF ToSet
    <3> HIDE DEF at
    <3> QED BY <1>0, <1>1, <1>2, <3>1 DEF ToSet
  <2>2. ASSUME NEW y \in ToSet(s), y # s[n] PROVE y \in ToSet(t)
    <3>1. PICK i \in 1 .. Len(s) : y = s[i]
      BY <1>0, <2>2 DEF ToSet
    <3> DEFINE k == IF i < n THEN i ELSE i - 1
    <3>2. i # n
      BY <2>2, <3>1
    <3>3. k \in 1 .. Len(s) - 1 /\ at(k) = i
      BY <1>0, <3>2
    <3> HIDE DEF k, at
    <3>4. k \in DOMAIN t /\ t[k] = y
      BY <1>1, <3>1, <3>3
    <3> QED BY <3>4 DEF ToSet
  <2> QED BY <2>1, <2>2
<1>4. ASSUME NEW i \in DOMAIN t, NEW j \in DOMAIN t, t[i] = t[j] PROVE i = j
  <2>1. at(i) = at(j)
    <3> HIDE DEF at
    <3> QED BY <1>0, <1>1, <1>2, <1>4
  <2> QED BY <1>0, <1>1, <2>1
<1> QED BY <1>1, <1>3, <1>4 DEF t

-----------------------------------------------------------------------------
(* Steps that move no transfer.                                                *)

\* libusb handles events, and while a thread closes the device it is neither
\* lost nor read again.  Without either the device or a transfer can be freed
\* under somebody who uses it (the run usb_close).
Reliable == Faults \subseteq {"unplugged", "no memory"}

\* What is said of transfers stays true when none is touched.
LEMMA SameTransfers ==
  ASSUME IInv, UNCHANGED <<xfer, list, flight, stream>>, Pending' = Pending
  PROVE  Held' /\ Apart' /\ Gapless'
<1>1. InFlight' = InFlight /\ Good' = Good
  BY DEF InFlight, Good
<1>2. Held'
  BY <1>1 DEF IInv, Held
<1>3. Apart'
  BY <1>1 DEF IInv, Apart
<1>4. Gapless'
  BY <1>1 DEF IInv, Gapless
<1> QED BY <1>2, <1>3, <1>4

\* What UsbAssumption says of the constants.
LEMMA Sizes == xfer_buf_num \in Nat /\ xfer_buf_num >= 1 /\ Blocks \in Nat /\ Blocks >= 2
<1>1. xfer_buf_num \in Nat \ {0}
  BY UsbAssumption, Zenon
<1>2. xfer_buf_num \in Nat /\ xfer_buf_num >= 1
  BY <1>1
<1> QED BY <1>2 DEF Blocks

\* The invariant holds when the device has been opened.
LEMMA InitHolds == Init => IInv
<1> SUFFICES ASSUME Init PROVE IInv
  OBVIOUS
<1>0. Blocks \in Nat /\ Blocks >= 2 /\ 1 \in Transfers
  BY Sizes DEF Transfers
<1>1. TypeOK
  BY <1>0 DEF Init, TypeOK, States, FlightType, Statuses, ReaderType, Places, DeviceType, StreamType
<1>2. InFlight = {} /\ Pending = << >>
  BY DEF Init, InFlight, Pending, ToSet
<1>3. Held /\ Apart /\ Own
  BY <1>2 DEF Init, Held, Apart, Own
<1>4. Ended /\ Threads /\ NeverLost
  BY <1>2 DEF Init, Ended, Threads, NeverLost
<1>5. Gapless
  <2>1. Succ(stream.last) = stream.next
    BY <1>0 DEF Init, Succ
  <2>2. \A i, j \in 0 .. Len(Pending) + 1 : i < j => i = 0 /\ j = 1
    BY <1>2
  <2>3. Number(Pending, stream, 0) = stream.last /\ Number(Pending, stream, 1) = stream.next
    BY <1>2 DEF Number
  <2> QED BY <2>1, <2>2, <2>3 DEF Gapless, InRow
<1> QED BY <1>1, <1>3, <1>4, <1>5 DEF IInv

\* The reader takes async_mutex (librtlsdr.c: before its loop and after
\* it has told of a lost device).
LEMMA LockStep == ASSUME IInv, Lock PROVE IInv'
<1>1. TypeOK'
  BY DEF IInv, TypeOK, Lock, ReaderType, Places
<1>2. Held' /\ Apart' /\ Gapless'
  <2>1. Pending' = Pending
    BY DEF IInv, TypeOK, Lock, Pending, ReaderType
  <2> QED BY <2>1, SameTransfers DEF Lock
<1>3. Own' /\ Ended' /\ Threads' /\ NeverLost'
  BY DEF IInv, TypeOK, Lock, ReaderType, InFlight, Own, Ended, Threads, NeverLost
<1> QED BY <1>1, <1>2, <1>3 DEF IInv

\* The reader goes to wait for events or to handle the list.
LEMMA LoopStep == ASSUME IInv, Loop PROVE IInv'
<1>1. TypeOK'
  BY DEF IInv, TypeOK, Loop, ReaderType, Places
<1>2. Held' /\ Apart' /\ Gapless'
  <2>1. Pending' = Pending
    BY DEF IInv, TypeOK, Loop, Pending, ReaderType
  <2> QED BY <2>1, SameTransfers DEF Loop
<1>3. Own' /\ Ended'
  BY DEF IInv, TypeOK, Loop, ReaderType, InFlight, Own, Ended
<1>4. Threads' /\ NeverLost'
  <2>1. /\ reader'.at \in {"events", "handle"} /\ ~reader'.lost
        /\ holder' = "reader" <=> reader'.at = "handle"
    BY DEF IInv, TypeOK, Loop, ReaderType, Threads
  <2> QED BY <2>1 DEF IInv, Loop, Threads, NeverLost
<1> QED BY <1>1, <1>2, <1>3, <1>4 DEF IInv

\* A wait for events that succeeds.
LEMMA HandleEventsStep == ASSUME IInv, Reliable, HandleEvents PROVE IInv'
<1>0. "no events" \notin Faults
  BY DEF Reliable
<1>1. TypeOK'
  BY <1>0 DEF IInv, TypeOK, HandleEvents, ReaderType, Places
<1>2. Held' /\ Apart' /\ Gapless'
  <2>1. Pending' = Pending
    BY <1>0 DEF IInv, TypeOK, HandleEvents, Pending, ReaderType
  <2> QED BY <2>1, SameTransfers DEF HandleEvents
<1>3. Own' /\ Ended' /\ Threads' /\ NeverLost'
  BY <1>0 DEF IInv, TypeOK, HandleEvents, ReaderType, InFlight, Own, Ended, Threads, NeverLost
<1> QED BY <1>1, <1>2, <1>3 DEF IInv

\* Only after a loss, which nobody who closes the device can meet.
LEMMA TellLostStep == ASSUME IInv, TellLost PROVE IInv'
<1>1. TypeOK'
  BY DEF IInv, TypeOK, TellLost, ReaderType, Places, DeviceType
<1>2. Held' /\ Apart' /\ Gapless'
  <2>1. Pending' = Pending
    BY DEF IInv, TypeOK, TellLost, Pending, ReaderType
  <2> QED BY <2>1, SameTransfers DEF TellLost
<1>3. Own' /\ Ended' /\ Threads' /\ NeverLost'
  BY DEF IInv, TypeOK, TellLost, ReaderType, DeviceType, InFlight, Own, Ended, Threads, NeverLost
<1> QED BY <1>1, <1>2, <1>3 DEF IInv

\* The buffers are freed when nothing is in flight.
LEMMA FreeBuffersStep == ASSUME IInv, FreeBuffers PROVE IInv'
<1>0. reader.at = "loop" /\ status = "INACTIVE"
  BY DEF IInv, Threads, FreeBuffers
<1>1. TypeOK'
  BY DEF IInv, TypeOK, FreeBuffers, ReaderType, Places, DeviceType, Statuses
<1>2. Held' /\ Apart' /\ Gapless'
  <2>1. Pending' = Pending
    BY <1>0 DEF IInv, TypeOK, FreeBuffers, Pending, ReaderType
  <2> QED BY <2>1, SameTransfers DEF FreeBuffers
<1>3. Own' /\ Ended' /\ Threads' /\ NeverLost'
  BY <1>0 DEF IInv, TypeOK, FreeBuffers, ReaderType, DeviceType, InFlight, Own, Ended, Threads, NeverLost
<1> QED BY <1>1, <1>2, <1>3 DEF IInv

\* The device may vanish if nobody will close it meanwhile.
LEMMA UnplugStep == ASSUME IInv, Reliable, Unplug PROVE IInv'
<1>0. closer = "never"
  BY DEF Reliable, Unplug, CanBeLost
<1>1. TypeOK'
  BY DEF IInv, TypeOK, Unplug, DeviceType
<1>2. Held' /\ Apart' /\ Gapless'
  <2>1. Pending' = Pending
    BY DEF Unplug, Pending
  <2> QED BY <2>1, SameTransfers DEF Unplug
<1>3. Own' /\ Ended' /\ Threads' /\ NeverLost'
  BY <1>0 DEF IInv, TypeOK, Unplug, DeviceType, InFlight, Own, Ended, Threads, NeverLost
<1> QED BY <1>1, <1>2, <1>3 DEF IInv

\* A request to cancel changes the status only.
LEMMA CancelAsyncStep == ASSUME IInv, CancelAsync PROVE IInv'
<1>1. TypeOK'
  BY DEF IInv, TypeOK, CancelAsync, Statuses
<1>2. Held' /\ Apart' /\ Gapless'
  <2>1. Pending' = Pending
    BY DEF CancelAsync, Pending
  <2> QED BY <2>1, SameTransfers DEF CancelAsync
<1>3. Own' /\ Ended' /\ Threads' /\ NeverLost'
  BY DEF IInv, TypeOK, CancelAsync, InFlight, Own, Ended, Threads, NeverLost
<1> QED BY <1>1, <1>2, <1>3 DEF IInv

\* rtlsdr_close finds, or waits for, the end of reading.
LEMMA ClosingStep == ASSUME IInv, Close \/ CloseWaited PROVE IInv'
<1>0. status = "INACTIVE" => reader.at = "out"
  BY DEF IInv, TypeOK, ReaderType, Places, Threads, NeverLost, Close, CloseWaited, Free
<1>1. TypeOK'
  BY DEF IInv, TypeOK, Close, CloseWaited, Statuses
<1>2. Held' /\ Apart' /\ Gapless'
  <2>1. Pending' = Pending
    BY DEF Close, CloseWaited, Pending
  <2> QED BY <2>1, SameTransfers DEF Close, CloseWaited
<1>3. Own' /\ NeverLost'
  BY DEF IInv, Close, CloseWaited, InFlight, Own, NeverLost
<1>4. Ended' /\ Threads'
  BY <1>0 DEF IInv, TypeOK, Close, CloseWaited, Free, InFlight, Ended, Threads
<1> QED BY <1>1, <1>2, <1>3, <1>4 DEF IInv

\* The device is freed when reading has ended for good.
LEMMA DeinitStep == ASSUME IInv, Deinit PROVE IInv'
<1>1. TypeOK'
  BY DEF IInv, TypeOK, Deinit, DeviceType
<1>2. Held' /\ Apart' /\ Gapless'
  <2>1. Pending' = Pending
    BY DEF Deinit, Pending
  <2> QED BY <2>1, SameTransfers DEF Deinit
<1>3. Own' /\ Ended' /\ Threads' /\ NeverLost'
  BY DEF IInv, TypeOK, Deinit, DeviceType, InFlight, Own, Ended, Threads, NeverLost
<1> QED BY <1>1, <1>2, <1>3 DEF IInv

-----------------------------------------------------------------------------
(* The reader's steps that move transfers.                                     *)

\* A call of rtlsdr_read_async starts with nothing left from the last.
LEMMA ReadAsyncStep == ASSUME IInv, ReadAsync PROVE IInv'
<1>0. InFlight = {} /\ list = << >> /\ Pending = << >> /\ InFlight' = {} /\ Pending' = << >>
  <2>1. InFlight = {} /\ list = << >>
    BY DEF IInv, Ended, ReadAsync
  <2>2. InFlight' = {} /\ list' = << >>
    BY <2>1 DEF ReadAsync, InFlight
  <2>3. reader.at = "out" /\ reader'.at \in {"out", "submit"}
    BY DEF IInv, TypeOK, ReadAsync, ReaderType
  <2> QED BY <2>1, <2>2, <2>3 DEF Pending
<1>1. TypeOK'
  <2>1. 1 \in Transfers
    BY Sizes DEF Transfers
  <2>2. reader' \in ReaderType
    <3>1. reader \in ReaderType /\ reader.calls + 1 \in Nat
      BY DEF IInv, TypeOK, ReaderType
    <3> DEFINE n == reader.calls + 1
    <3> HIDE DEF n
    <3>2. \/ reader' = [reader EXCEPT !.at = "submit", !.x = 1, !.lost = FALSE, !.calls = n]
          \/ reader' = [reader EXCEPT !.calls = n]
      BY DEF ReadAsync, n
    <3> QED BY <2>1, <3>1, <3>2 DEF ReaderType, Places, n
  <2>3. device' \in DeviceType /\ status' \in Statuses /\ xfer' \in [Transfers -> States]
    BY DEF IInv, TypeOK, ReadAsync, DeviceType, Statuses, States
  <2> QED BY <2>2, <2>3 DEF IInv, TypeOK, ReadAsync
<1>2. Held' /\ Apart'
  <2>1. /\ flight'.order = flight.order /\ flight'.cancelled = flight.cancelled
        /\ \A x \in Transfers : xfer'[x] = "IDLE"
    BY DEF ReadAsync
  <2> QED BY <1>0, <2>1 DEF IInv, Held, Apart
<1>3. Own' /\ Ended' /\ NeverLost'
  <2>1. /\ reader'.at \in {"out", "submit"} /\ reader'.lost \in {reader.lost, FALSE}
        /\ device'.plugged = device.plugged /\ list' = list
        /\ \A x \in Transfers : xfer'[x] = "IDLE"
    BY DEF IInv, TypeOK, ReadAsync, ReaderType, DeviceType
  <2>2. Own'
    BY <1>0, <2>1 DEF Own
  <2>3. Ended'
    BY <1>0, <2>1 DEF ReadAsync, Ended
  <2>4. NeverLost'
    BY <2>1 DEF IInv, ReadAsync, NeverLost
  <2> QED BY <2>2, <2>3, <2>4
<1>4. Threads'
  BY DEF IInv, TypeOK, ReadAsync, Free, ReaderType, DeviceType, Threads
<1>5. Gapless'
  <2>0. \A g : InRow(Pending, g, stream)
    <3> DEFINE p == Pending
    <3>1. p \in Seq(Transfers) /\ DOMAIN p = {}
      BY <1>0
    <3>2. InRow(p, Good, stream)
      BY DEF IInv, Gapless
    <3> HIDE DEF p
    <3>3. \A g : InRow(p, g, stream)
      BY <3>1, <3>2, SameRow
    <3> QED BY <3>3 DEF p
  <2>1. InRow(Pending, Good', stream)
    BY <2>0
  <2> QED BY <1>0, <2>1 DEF ReadAsync, Gapless
<1> QED BY <1>1, <1>2, <1>3, <1>4, <1>5 DEF IInv

\* A sequence is its head and its tail.
LEMMA HeadAndTail ==
  ASSUME NEW s \in Seq(Transfers), s # << >>
  PROVE  /\ Head(s) \in Transfers /\ Tail(s) \in Seq(Transfers)
         /\ <<Head(s)>> \o Tail(s) = s /\ Head(s) = s[1]
         /\ DOMAIN Tail(s) = 1 .. Len(s) - 1
         /\ \A i \in 1 .. Len(s) - 1 : Tail(s)[i] = s[i + 1]
         /\ DOMAIN s = 1 .. Len(s) /\ Len(s) \in Nat /\ Len(s) >= 1
OBVIOUS

\* The head of the list goes to the callback or back to libusb.
LEMMA TakeHeadStep == ASSUME IInv, TakeHead PROVE IInv'
<1> DEFINE h == Head(list)
<1>0. /\ list \in Seq(Transfers) /\ list # << >> /\ list' = Tail(list) /\ Pending = list
      /\ reader.at = "handle" /\ reader'.x = h
      /\ reader'.at = IF xfer[h] = "COMPLETED_OK" THEN "callback" ELSE "resubmit"
      /\ reader'.lost = (reader.lost \/ xfer[h] = "COMPLETED_DEV_LOST")
  BY DEF IInv, TypeOK, TakeHead, ReaderType, Pending
<1>1. TypeOK'
  BY <1>0, HeadAndTail DEF IInv, TypeOK, TakeHead, ReaderType, Places
<1>2. InFlight' = InFlight /\ Good' = Good /\ xfer' = xfer /\ flight' = flight /\ stream' = stream
  BY DEF TakeHead, InFlight, Good
<1>3. Held'
  BY <1>2 DEF IInv, Held
<1>4. Ended' /\ Threads' /\ NeverLost'
  <2>1. Ended'
    BY <1>0, <1>2 DEF IInv, TakeHead, Ended, Threads
  <2>2. Threads'
    BY <1>0 DEF IInv, TakeHead, Threads
  <2>3. NeverLost'
    <3>1. h \in Transfers
      BY <1>0, HeadAndTail
    <3> HIDE DEF h
    <3>2. closer # "never" => xfer[h] # "COMPLETED_DEV_LOST"
      BY <3>1 DEF IInv, NeverLost
    <3>3. closer # "never" => ~reader'.lost
      BY <1>0, <3>2, Zenon DEF IInv, NeverLost
    <3>4. reader'.at \in {"callback", "resubmit"}
      BY <1>0
    <3>5. closer' = closer /\ device' = device /\ errors' = errors
      BY DEF TakeHead
    <3> QED BY <1>2, <3>3, <3>4, <3>5 DEF IInv, NeverLost
  <2> QED BY <2>1, <2>2, <2>3
<1>5. CASE xfer[h] = "COMPLETED_OK"
  <2>1. Pending' = list /\ reader'.at = "callback"
    BY <1>0, <1>5, HeadAndTail DEF Pending
  <2>2. Apart' /\ Gapless'
    BY <1>0, <1>2, <2>1 DEF IInv, Apart, Gapless
  <2>3. Own'
    BY <1>0, <1>2, <1>5, <2>1 DEF Own
  <2> QED BY <1>1, <1>3, <1>4, <2>2, <2>3 DEF IInv
<1>6. CASE xfer[h] # "COMPLETED_OK"
  <2>1. Pending' = Tail(list) /\ reader'.at = "resubmit"
    BY <1>0, <1>6 DEF Pending
  <2>2. Gapless'
    <3>1. h \notin Good
      BY <1>6 DEF Good
    <3>2. InRow(Tail(list), Good, stream)
      BY <1>0, <3>1, RowWithoutBad DEF IInv, Gapless
    <3> QED BY <1>2, <2>1, <3>2 DEF Gapless
  <2>3. Apart'
    <3> HIDE DEF h
    <3> QED BY <1>0, <1>2, <2>1, HeadAndTail DEF IInv, Apart
  <2>4. Own'
    BY <1>0, <1>2, <2>1, HeadAndTail DEF IInv, Apart, Own
  <2> QED BY <1>1, <1>3, <1>4, <2>2, <2>3, <2>4 DEF IInv
<1> QED BY <1>5, <1>6

\* What the callback gets is the block after the last one.
LEMMA CallbackStep == ASSUME IInv, Callback PROVE IInv' /\ stream'.last = Succ(stream.last)
<1> DEFINE p == Pending
<1>0. /\ p \in Seq(Transfers) /\ p # << >> /\ Head(p) = reader.x /\ Tail(p) = list
      /\ p = <<reader.x>> \o list
      /\ list \in Seq(Transfers) /\ reader.x \in Transfers
      /\ reader.at = "callback" /\ reader'.at = "resubmit" /\ reader'.x = reader.x
      /\ reader'.lost = reader.lost
  BY DEF IInv, TypeOK, Callback, ReaderType, Pending
<1>1. TypeOK'
  BY DEF IInv, TypeOK, Callback, ReaderType, Places, StreamType
<1>2. /\ InFlight' = InFlight /\ Good' = Good /\ xfer' = xfer /\ flight' = flight
      /\ list' = list /\ Pending' = list
  BY <1>0 DEF Callback, InFlight, Good, Pending
<1>3. Held'
  BY <1>2 DEF IInv, Held
<1>4. Ended' /\ Threads' /\ NeverLost'
  BY <1>0, <1>2 DEF IInv, Callback, Ended, Threads, NeverLost
<1>5. /\ DOMAIN p = 1 .. Len(list) + 1 /\ DOMAIN list = 1 .. Len(list) /\ Len(list) \in Nat
      /\ p[1] = reader.x
      /\ \A i \in 1 .. Len(list) : list[i] = p[i + 1]
  BY <1>0
<1> HIDE DEF p
<1>6. Apart' /\ Own'
  <2>1. /\ \A i, j \in DOMAIN p : p[i] = p[j] => i = j
        /\ \A i \in DOMAIN p : p[i] \notin InFlight
    BY DEF IInv, Apart, p
  <2>2. Apart'
    <3>1. \A i \in DOMAIN list : i \in Int /\ i + 1 \in DOMAIN p /\ list[i] = p[i + 1]
      BY <1>5
    <3>2. \A i, j \in DOMAIN list : list[i] = list[j] => i = j
      BY <2>1, <3>1
    <3>3. \A i \in DOMAIN list : list[i] \notin InFlight
      BY <2>1, <3>1
    <3> QED BY <1>2, <3>2, <3>3, Zenon DEF Apart
  <2>3. reader.x \notin InFlight
    BY <1>5, <2>1
  <2>4. \A i \in 1 .. Len(list) : list[i] # reader.x
    <3> SUFFICES ASSUME NEW i \in 1 .. Len(list), p[i + 1] = p[1] PROVE FALSE
      BY <1>5
    <3>1. i + 1 \in DOMAIN p /\ 1 \in DOMAIN p /\ i + 1 # 1
      BY <1>5
    <3> QED BY <2>1, <3>1
  <2>5. Own'
    BY <1>0, <1>2, <1>5, <2>3, <2>4 DEF Own
  <2> QED BY <2>2, <2>5
<1>7. Gapless' /\ stream'.last = Succ(stream.last)
  <2>1. InRow(p, Good, stream) /\ Head(p) \in Good
    BY <1>0 DEF IInv, Gapless, Own, Good, p
  <2>2. /\ stream'.last = stream.block[Head(p)] /\ stream'.next = stream.next
        /\ stream'.block = stream.block
    BY <1>0 DEF IInv, TypeOK, StreamType, Callback
  <2>3. InRow(Tail(p), Good, stream') /\ stream'.last = Succ(stream.last)
    <3>1. p \in Seq(Transfers) /\ p # << >>
      BY <1>0
    <3> QED BY <2>1, <2>2, <3>1, RowWithoutGood
  <2> QED BY <1>0, <1>2, <2>3 DEF Gapless
<1> QED BY <1>1, <1>3, <1>4, <1>6, <1>7 DEF IInv

\* Cancelling changes no transfer's place; it is complete when libusb
\* has none.
LEMMA ActOnCancelStep == ASSUME IInv, ActOnCancel PROVE IInv'
<1>0. /\ reader.at = "handle" /\ list = << >> /\ list' = list /\ stream' = stream
      /\ reader'.at \in {"lost", "loop"} /\ reader'.x = reader.x /\ reader'.lost = reader.lost
      /\ reader'.at = "lost" <=> reader.lost
      /\ holder' = "reader" <=> reader'.at = "loop"
  BY DEF IInv, TypeOK, ReaderType, ActOnCancel, Threads
<1>1. /\ xfer' \in [Transfers -> States]
      /\ \A x \in Transfers : /\ xfer[x] # "SUBMITTED" => xfer'[x] = xfer[x]
                              /\ xfer[x] = "SUBMITTED" => xfer'[x] \in {"SUBMITTED", "CANCELING"}
  BY DEF IInv, TypeOK, ActOnCancel, States
<1>2. /\ flight'.order = flight.order /\ flight' \in FlightType
      /\ flight'.cancelled \subseteq flight.cancelled \cup InFlight
  BY DEF IInv, TypeOK, ActOnCancel, FlightType
<1>3. InFlight' = InFlight /\ Good' = Good /\ Pending = << >> /\ Pending' = << >>
  BY <1>0, <1>1, <1>2 DEF InFlight, Good, Pending
<1>4. status' \in Statuses /\ (status' = "CLOSING" <=> status = "CLOSING")
  BY DEF IInv, TypeOK, ActOnCancel, StatusAfterCancel, Statuses
<1>5. TypeOK'
  BY <1>1, <1>2, <1>4 DEF IInv, TypeOK, ActOnCancel, ReaderType, Places
<1>6. Held' /\ Apart' /\ Gapless' /\ Own'
  <2>1. Held'
    BY <1>1, <1>2, <1>3 DEF IInv, Held
  <2>2. Apart' /\ Own' /\ Gapless'
    BY <1>0, <1>3 DEF IInv, Apart, Own, Gapless
  <2> QED BY <2>1, <2>2
<1>7. Ended'
  <2>1. status \notin {"INACTIVE", "CLOSING"}
    BY <1>0 DEF IInv, Threads
  <2>2. status' \in {"INACTIVE", "CANCELING"} => \A x \in Transfers : xfer'[x] # "SUBMITTED"
    BY <2>1 DEF IInv, TypeOK, ActOnCancel, Ended, StatusAfterCancel
  <2>3. status' = "INACTIVE" => \A x \in Transfers : xfer'[x] # "CANCELING"
    BY <2>1 DEF IInv, TypeOK, ActOnCancel, StatusAfterCancel
  <2>4. InFlight' \subseteq Transfers
    <3>1. flight.order \in Seq(Transfers)
      BY DEF IInv, TypeOK, FlightType
    <3>2. \A i \in DOMAIN flight.order : flight.order[i] \in Transfers
      BY <3>1
    <3>3. InFlight \subseteq Transfers
      BY <3>2 DEF InFlight, ToSet
    <3> QED BY <1>3, <3>3
  <2>5. status' = "INACTIVE" => InFlight' = {}
    BY <1>6, <2>2, <2>3, <2>4 DEF Held
  <2> QED BY <1>0, <1>4, <2>1, <2>2, <2>5 DEF Ended
<1>8. Threads'
  <2>1. closer' = closer /\ device' = device
    BY DEF ActOnCancel
  <2> QED BY <1>0, <1>4, <2>1 DEF IInv, Threads
<1>9. NeverLost'
  <2>1. closer' = closer /\ device' = device /\ errors' = errors
    BY DEF ActOnCancel
  <2> QED BY <1>0, <1>1, <2>1 DEF IInv, NeverLost
<1> QED BY <1>5, <1>6, <1>7, <1>8, <1>9 DEF IInv

\* A transfer nobody has goes to libusb, or fails and is nobody's.
LEMMA SubmitKeeps ==
  ASSUME IInv, NEW x \in Transfers, Submit(x), x \notin InFlight,
         \A i \in DOMAIN list : list[i] # x, Pending = list, Pending' = list,
         list' = list, stream' = stream
  PROVE  /\ xfer' \in [Transfers -> States] /\ flight' \in FlightType
         /\ Held' /\ Apart' /\ Gapless'
         /\ \A y \in InFlight' : y \in InFlight \/ y = x
         /\ xfer'[x] \in {"SUBMITTED", "COMPLETED_ERROR"}
         /\ \A y \in Transfers : y # x => xfer'[y] = xfer[y]
         /\ status' \in {status, "CANCEL_REQUEST"}
<1>0. /\ xfer \in [Transfers -> States] /\ flight \in FlightType /\ flight.order \in Seq(Transfers)
      /\ list \in Seq(Transfers)
  BY DEF IInv, TypeOK, FlightType
<1>1. /\ xfer' \in [Transfers -> States] /\ xfer'[x] \in {"SUBMITTED", "COMPLETED_ERROR"}
      /\ \A y \in Transfers : y # x => xfer'[y] = xfer[y]
      /\ status' \in {status, "CANCEL_REQUEST"}
  BY <1>0 DEF Submit, States
<1>2. \A i \in DOMAIN list : list[i] \in Good <=> list[i] \in Good'
  BY <1>0, <1>1 DEF Good
<1>3. Gapless'
  <2>1. InRow(list, Good, stream)
    BY DEF IInv, Gapless
  <2>2. \A g : (\A i \in DOMAIN list : list[i] \in Good <=> list[i] \in g) => InRow(list, g, stream)
    BY <1>0, <2>1, SameRow
  <2>3. InRow(list, Good', stream)
    BY <1>2, <2>2
  <2> QED BY <2>3 DEF Gapless
<1>4. CASE xfer' = [xfer EXCEPT ![x] = "SUBMITTED"] /\ flight' = [flight EXCEPT !.order = Append(@, x)]
  <2>1. /\ xfer'[x] = "SUBMITTED" /\ flight' = [flight EXCEPT !.order = Append(@, x)]
    BY <1>0, <1>4
  <2>2. \A i, j \in DOMAIN flight.order : flight.order[i] = flight.order[j] => i = j
    BY DEF IInv, Held
  <2> DEFINE o == flight'.order
  <2>3. o = Append(flight.order, x) /\ flight'.cancelled = flight.cancelled
    BY <1>0, <2>1 DEF FlightType
  <2>4. /\ Append(flight.order, x) \in Seq(Transfers)
        /\ ToSet(Append(flight.order, x)) = InFlight \cup {x}
        /\ \A i, j \in DOMAIN Append(flight.order, x) :
             Append(flight.order, x)[i] = Append(flight.order, x)[j] => i = j
    BY <1>0, <2>2, WithOneMore DEF InFlight
  <2>5. /\ o \in Seq(Transfers) /\ InFlight' = InFlight \cup {x}
        /\ \A i, j \in DOMAIN o : o[i] = o[j] => i = j
    BY <2>3, <2>4, Zenon DEF InFlight
  <2>6. flight' \in FlightType
    <3>1. Append(flight.order, x) \in Seq(Transfers)
      BY <2>4
    <3> QED BY <1>0, <2>1, <3>1 DEF FlightType
  <2>7. Held'
    BY <1>1, <2>1, <2>3, <2>5 DEF IInv, Held
  <2>8. Apart'
    BY <2>5 DEF IInv, Apart
  <2> QED BY <1>1, <1>3, <2>5, <2>6, <2>7, <2>8
<1>5. CASE xfer' = [xfer EXCEPT ![x] = "COMPLETED_ERROR"] /\ flight' = flight
  <2>1. xfer'[x] = "COMPLETED_ERROR" /\ flight' = flight /\ InFlight' = InFlight
    BY <1>0, <1>5 DEF InFlight
  <2>2. Held'
    BY <1>1, <2>1 DEF IInv, Held
  <2>3. Apart'
    BY <2>1 DEF IInv, Apart
  <2> QED BY <1>0, <1>1, <1>3, <2>1, <2>2, <2>3
<1> QED BY <1>4, <1>5 DEF Submit

\* The first submission, one transfer after the other.
LEMMA SubmitAllStep == ASSUME IInv, SubmitAll PROVE IInv'
<1> DEFINE x == reader.x
<1>0. /\ x \in Transfers /\ Submit(x) /\ list' = list /\ stream' = stream
      /\ errors' = errors /\ holder' = holder /\ closer' = closer /\ device' = device
      /\ reader \in ReaderType /\ reader.at = "submit"
      /\ status \in {"RUNNING", "CANCEL_REQUEST"} /\ status \in Statuses
  BY DEF IInv, TypeOK, SubmitAll, ReaderType, Threads
<1>1. /\ reader'.at \in {"submit", "lock"} /\ reader'.lost = reader.lost
      /\ reader'.at = "submit" => reader'.x = x + 1 /\ x + 1 \in Transfers
      /\ reader' \in ReaderType
  <2>1. CASE x < xfer_buf_num /\ xfer'[x] = "SUBMITTED"
    <3>1. x + 1 \in Transfers
      BY <1>0, <2>1, Sizes DEF Transfers
    <3>2. reader' = [reader EXCEPT !.x = x + 1]
      BY <2>1 DEF SubmitAll
    <3> DEFINE n == x + 1
    <3> HIDE DEF n
    <3>3. reader' = [reader EXCEPT !.x = n] /\ n \in Transfers
      BY <3>1, <3>2 DEF n
    <3>4. reader' \in ReaderType /\ reader'.x = n /\ reader'.at = reader.at /\ reader'.lost = reader.lost
      BY <1>0, <3>3 DEF ReaderType
    <3> QED BY <1>0, <3>1, <3>4 DEF n
  <2>2. CASE ~(x < xfer_buf_num /\ xfer'[x] = "SUBMITTED")
    <3>1. reader' = [reader EXCEPT !.at = "lock"]
      BY <2>2 DEF SubmitAll
    <3> QED BY <1>0, <3>1 DEF ReaderType, Places
  <2> QED BY <2>1, <2>2
<1>2. Pending = list /\ Pending' = list
  BY <1>0, <1>1 DEF Pending
<1>3. \A y \in Transfers : y >= x => y \notin InFlight /\ \A i \in DOMAIN list : list[i] # y
  BY <1>0 DEF IInv, Own
<1>4. x \in Int /\ x >= x /\ x \notin InFlight /\ \A i \in DOMAIN list : list[i] # x
  BY <1>0, <1>3 DEF Transfers
<1> HIDE DEF x
<1>5. /\ xfer' \in [Transfers -> States] /\ flight' \in FlightType
      /\ Held' /\ Apart' /\ Gapless'
      /\ \A y \in InFlight' : y \in InFlight \/ y = x
      /\ xfer'[x] \in {"SUBMITTED", "COMPLETED_ERROR"}
      /\ \A y \in Transfers : y # x => xfer'[y] = xfer[y]
      /\ status' \in {status, "CANCEL_REQUEST"}
  BY <1>0, <1>2, <1>4, SubmitKeeps
<1>6. status' \in {"RUNNING", "CANCEL_REQUEST"}
  BY <1>0, <1>5
<1>7. TypeOK'
  BY <1>0, <1>1, <1>5, <1>6 DEF IInv, TypeOK, Statuses
<1>8. Own'
  <2>1. \A y \in Transfers : y >= x + 1 => y >= x /\ y # x
    BY <1>4 DEF Transfers
  <2> QED BY <1>0, <1>1, <1>3, <1>5, <2>1 DEF Own
<1>9. Ended' /\ Threads'
  BY <1>0, <1>1, <1>6 DEF IInv, Ended, Threads
<1>10. NeverLost'
  BY <1>0, <1>1, <1>5, <1>6 DEF IInv, NeverLost
<1> QED BY <1>5, <1>7, <1>8, <1>9, <1>10 DEF IInv

\* The transfer just handled, if reading goes on.
LEMMA ResubmitStep == ASSUME IInv, Resubmit PROVE IInv'
<1> DEFINE x == reader.x
<1>0. /\ x \in Transfers /\ list' = list /\ stream' = stream
      /\ errors' = errors /\ holder' = holder /\ closer' = closer /\ device' = device
      /\ reader.at = "resubmit" /\ reader'.at = "handle" /\ reader'.lost = reader.lost
      /\ reader' \in ReaderType /\ status \in Statuses
  BY DEF IInv, TypeOK, Resubmit, ReaderType, Places
<1>1. Pending = list /\ Pending' = list
  BY <1>0 DEF Pending
<1>2. x \notin InFlight /\ \A i \in DOMAIN list : list[i] # x
  BY <1>0 DEF IInv, Own
<1> HIDE DEF x
<1>3. CASE status = "RUNNING" /\ ~reader.lost
  <2>0. Submit(x)
    BY <1>3 DEF Resubmit, x
  <2>1. /\ xfer' \in [Transfers -> States] /\ flight' \in FlightType
        /\ Held' /\ Apart' /\ Gapless'
        /\ xfer'[x] \in {"SUBMITTED", "COMPLETED_ERROR"}
        /\ \A y \in Transfers : y # x => xfer'[y] = xfer[y]
        /\ status' \in {status, "CANCEL_REQUEST"}
    BY <1>0, <1>1, <1>2, <2>0, SubmitKeeps
  <2>2. status' \in {"RUNNING", "CANCEL_REQUEST"}
    BY <1>3, <2>1
  <2>3. TypeOK'
    BY <1>0, <2>1, <2>2 DEF IInv, TypeOK, Statuses
  <2>4. Own' /\ Ended'
    BY <1>0, <2>2 DEF Own, Ended
  <2>5. Threads'
    BY <1>0, <1>3, <2>2 DEF IInv, Threads
  <2>6. NeverLost'
    BY <1>0, <2>1 DEF IInv, NeverLost
  <2> QED BY <2>1, <2>3, <2>4, <2>5, <2>6 DEF IInv
<1>4. CASE ~(status = "RUNNING" /\ ~reader.lost)
  <2>0. xfer' = xfer /\ flight' = flight /\ status' = status
    BY <1>4 DEF Resubmit
  <2>1. TypeOK'
    BY <1>0, <2>0 DEF IInv, TypeOK
  <2>2. Held' /\ Apart' /\ Gapless'
    BY <1>0, <1>1, <2>0, SameTransfers
  <2>3. InFlight' = InFlight
    BY <2>0 DEF InFlight
  <2>4. Own' /\ Ended' /\ Threads' /\ NeverLost'
    BY <1>0, <2>0, <2>3 DEF IInv, Own, Ended, Threads, NeverLost
  <2> QED BY <2>1, <2>2, <2>4 DEF IInv
<1> QED BY <1>3, <1>4

-----------------------------------------------------------------------------
(* A transfer is completed.                                                    *)

Results == {"COMPLETED", "ERROR", "STALL", "CANCELLED", "NO_DEVICE"}

\* The counter of errors stays a number.
LEMMA MinOfTwo == ASSUME NEW a \in Nat, NEW b \in Nat PROVE Min({a, b}) \in Nat
<1>1. CASE a <= b
  <2>1. a \in {a, b} /\ \A y \in {a, b} : a <= y
    BY <1>1
  <2>2. Min({a, b}) \in {a, b}
    BY <2>1, Zenon DEF Min
  <2> QED BY <2>2
<1>2. CASE ~(a <= b)
  <2>1. b \in {a, b} /\ \A y \in {a, b} : b <= y
    BY <1>2
  <2>2. Min({a, b}) \in {a, b}
    BY <2>1, Zenon DEF Min
  <2> QED BY <2>2
<1> QED BY <1>1, <1>2

\* _libusb_callback moves a transfer from libusb to the end of the list,
\* with the next block if it has one, whatever its place and result.
LEMMA CompleteStep ==
  ASSUME IInv, Reliable, NEW n \in DOMAIN flight.order, NEW result \in Results,
         Complete(n, result), result = "ERROR" => CanBeLost,
         result = "NO_DEVICE" => ~device.plugged
  PROVE  IInv'
<1> DEFINE x == flight.order[n]
           p == Pending
           e == IF result = "ERROR" THEN Min({errors + 1, xfer_buf_num})
                ELSE IF result = "COMPLETED" THEN 0 ELSE errors
           s == StatusOf(x, result, e >= xfer_buf_num)
<1>0. /\ xfer \in [Transfers -> States] /\ flight \in FlightType /\ flight.order \in Seq(Transfers)
      /\ list \in Seq(Transfers) /\ errors \in Nat /\ stream \in StreamType /\ reader \in ReaderType
      /\ status \in Statuses /\ x \in Transfers /\ reader.x \in Transfers
  BY DEF IInv, TypeOK, FlightType, ReaderType
<1>1. x \in InFlight /\ InFlight \subseteq Transfers
  BY <1>0 DEF InFlight, ToSet
<1>2. /\ flight' = [order |-> RemoveAt(flight.order, n), cancelled |-> flight.cancelled \ {x}]
      /\ list' = Append(list, x) /\ errors' = e /\ xfer' = [xfer EXCEPT ![x] = s]
      /\ status' = IF s = "COMPLETED_DEV_LOST" /\ status = "RUNNING" THEN "CANCEL_REQUEST" ELSE status
      /\ stream' = IF result = "COMPLETED"
                   THEN [stream EXCEPT !.next = (@ + 1) % Blocks, !.block[x] = stream.next]
                   ELSE stream
      /\ reader' = reader /\ holder' = holder /\ closer' = closer /\ device' = device
  BY DEF Complete, Enqueued
<1>3. /\ s \in {"COMPLETED_OK", "COMPLETED_ERROR", "COMPLETED_DEV_LOST"}
      /\ s = "COMPLETED_OK" <=> result = "COMPLETED"
  BY DEF StatusOf
<1>4. e \in Nat
  <2>1. Min({errors + 1, xfer_buf_num}) \in Nat
    <3>1. errors + 1 \in Nat
      BY <1>0
    <3> QED BY <3>1, Sizes, MinOfTwo
  <2> QED BY <1>0, <2>1
<1>5. closer # "never" => e = 0 /\ s # "COMPLETED_DEV_LOST"
  <2> SUFFICES ASSUME closer # "never" PROVE e = 0 /\ s # "COMPLETED_DEV_LOST"
    OBVIOUS
  <2>1. result # "ERROR" /\ result # "NO_DEVICE" /\ errors = 0
    BY DEF IInv, NeverLost, Reliable, CanBeLost
  <2>2. e = 0
    BY <2>1
  <2> HIDE DEF e
  <2>3. ~(e >= xfer_buf_num)
    BY <2>2, Sizes
  <2> QED BY <2>1, <2>2, <2>3 DEF StatusOf
<1> HIDE DEF x, e, s, p
<1>6. status \notin {"INACTIVE", "CLOSING"} /\ reader.at # "out" /\ status' \in {status, "CANCEL_REQUEST"}
  <2>1. status \notin {"INACTIVE", "CLOSING"} /\ reader.at # "out"
    BY <1>1 DEF IInv, Ended
  <2> QED BY <1>2, <2>1
<1>7. /\ xfer' \in [Transfers -> States] /\ xfer'[x] = s
      /\ \A y \in Transfers : y # x => xfer'[y] = xfer[y]
  BY <1>0, <1>2, <1>3 DEF States
<1> DEFINE o == flight'.order
<1>8. /\ o \in Seq(Transfers) /\ InFlight' = InFlight \ {x}
      /\ \A i, j \in DOMAIN o : o[i] = o[j] => i = j
      /\ flight'.cancelled = flight.cancelled \ {x}
  <2>1. \A i, j \in DOMAIN flight.order : flight.order[i] = flight.order[j] => i = j
    BY DEF IInv, Held
  <2>2. /\ RemoveAt(flight.order, n) \in Seq(Transfers)
        /\ ToSet(RemoveAt(flight.order, n)) = ToSet(flight.order) \ {x}
        /\ \A i, j \in DOMAIN RemoveAt(flight.order, n) :
             RemoveAt(flight.order, n)[i] = RemoveAt(flight.order, n)[j] => i = j
    BY <1>0, <2>1, WithoutOne DEF x
  <2>3. flight'.order = RemoveAt(flight.order, n) /\ flight'.cancelled = flight.cancelled \ {x}
    BY <1>2
  <2> QED BY <2>2, <2>3, Zenon DEF InFlight
<1> HIDE DEF o
<1>9. flight' \in FlightType
  <2>1. flight' = [order |-> flight'.order, cancelled |-> flight'.cancelled]
    BY <1>2
  <2>2. flight'.order \in Seq(Transfers) /\ flight'.cancelled \in SUBSET Transfers
    BY <1>0, <1>8 DEF FlightType, o
  <2> QED BY <2>1, <2>2, Zenon DEF FlightType
<1>10. /\ p \in Seq(Transfers) /\ Pending' = Append(p, x)
       /\ \A i, j \in DOMAIN p : p[i] = p[j] => i = j
       /\ \A i \in DOMAIN p : p[i] \notin InFlight
       /\ x \notin ToSet(p)
  <2>1. CASE reader.at = "callback"
    <3>1. p = <<reader.x>> \o list /\ Pending' = <<reader.x>> \o Append(list, x)
      BY <1>2, <2>1 DEF Pending, p
    <3>2. <<reader.x>> \o Append(list, x) = Append(<<reader.x>> \o list, x)
      BY <1>0
    <3>3. p \in Seq(Transfers) /\ Pending' = Append(p, x)
      BY <1>0, <3>1, <3>2
    <3> QED BY <1>1, <3>3 DEF IInv, Apart, ToSet, p
  <2>2. CASE reader.at # "callback"
    <3>1. p = list /\ Pending' = Append(list, x)
      BY <1>2, <2>2 DEF Pending, p
    <3> QED BY <1>0, <1>1, <3>1 DEF IInv, Apart, ToSet, p
  <2> QED BY <2>1, <2>2
<1>11. TypeOK'
  <2>1. stream' \in StreamType
    <3>1. (stream.next + 1) % Blocks \in Nat /\ stream.next \in Nat
      <4>1. stream.next \in Nat
        BY <1>0 DEF StreamType
      <4> QED BY <4>1, Sizes
    <3> DEFINE k == (stream.next + 1) % Blocks
    <3>2. k \in Nat
      BY <3>1
    <3> DEFINE b == [stream.block EXCEPT ![x] = stream.next]
    <3>3. b \in [Transfers -> Nat]
      BY <1>0, <3>1 DEF StreamType
    <3>4. stream' = stream \/ stream' = [stream EXCEPT !.next = k, !.block = b]
      BY <1>0, <1>2 DEF StreamType
    <3> HIDE DEF k, b
    <3> QED BY <1>0, <3>2, <3>3, <3>4 DEF StreamType
  <2>2. list' \in Seq(Transfers)
    BY <1>0, <1>2
  <2>3. status' \in Statuses
    BY <1>0, <1>6 DEF Statuses
  <2> QED BY <1>2, <1>4, <1>7, <1>9, <2>1, <2>2, <2>3 DEF IInv, TypeOK
<1>12. Held'
  <2>1. \A y \in Transfers : y \in InFlight' <=> xfer'[y] \in {"SUBMITTED", "CANCELING"}
    BY <1>0, <1>3, <1>7, <1>8 DEF IInv, Held
  <2>2. flight'.cancelled \subseteq InFlight'
    BY <1>8 DEF IInv, Held
  <2> QED BY <1>8, <2>1, <2>2 DEF Held, o
<1>13. Apart'
  <2> DEFINE q == Append(p, x)
  <2>1. /\ q \in Seq(Transfers) /\ ToSet(q) = ToSet(p) \cup {x}
        /\ \A i, j \in DOMAIN q : q[i] = q[j] => i = j
    BY <1>0, <1>10, WithOneMore
  <2> HIDE DEF q
  <2>2. \A i \in DOMAIN q : q[i] \notin InFlight'
    <3>1. \A y \in ToSet(p) : y \notin InFlight
      BY <1>10 DEF ToSet
    <3>2. \A y \in ToSet(q) : y \notin InFlight'
      BY <1>8, <2>1, <3>1
    <3> QED BY <3>2 DEF ToSet
  <2>3. Pending' = q
    BY <1>10 DEF q
  <2> QED BY <2>1, <2>2, <2>3, Zenon DEF Apart
<1>14. Own'
  <2>1. \A y \in Transfers : y \notin InFlight /\ (\A i \in DOMAIN list : list[i] # y)
           => y \notin InFlight' /\ \A i \in DOMAIN list' : list'[i] # y
    BY <1>0, <1>1, <1>2, <1>8
  <2>2. reader.at = "callback" => xfer'[reader.x] = "COMPLETED_OK"
    <3> SUFFICES ASSUME reader.at = "callback" PROVE xfer'[reader.x] = "COMPLETED_OK"
      OBVIOUS
    <3>1. xfer[reader.x] = "COMPLETED_OK"
      BY DEF IInv, Own
    <3>2. x # reader.x
      BY <1>1, <3>1 DEF IInv, Held
    <3> QED BY <1>0, <1>7, <3>1, <3>2
  <2> DEFINE Away(y) == y \notin InFlight /\ \A i \in DOMAIN list : list[i] # y
  <2>3. \A y \in Transfers : Away(y) => Away(y)'
    BY <2>1
  <2>4. /\ reader.at = "resubmit" => Away(reader.x)
        /\ reader.at = "submit" => \A y \in Transfers : y >= reader.x => Away(y)
    BY DEF IInv, Own
  <2>5. reader.x \in Transfers /\ reader' = reader
    BY <1>0, <1>2
  <2>6. /\ reader'.at = "resubmit" => Away(reader.x)'
        /\ reader'.at = "submit" => \A y \in Transfers : y >= reader'.x => Away(y)'
    <3> HIDE DEF Away
    <3> QED BY <2>3, <2>4, <2>5
  <2> QED BY <2>2, <2>5, <2>6 DEF Own
<1>15. Ended' /\ Threads'
  <2>1. Ended'
    BY <1>2, <1>3, <1>6, <1>7 DEF IInv, Ended
  <2>2. Threads'
    BY <1>2, <1>6 DEF IInv, Threads
  <2> QED BY <2>1, <2>2
<1>16. NeverLost'
  BY <1>2, <1>5, <1>6, <1>7 DEF IInv, NeverLost
<1>17. Gapless'
  <2>1. InRow(p, Good, stream)
    BY DEF IInv, Gapless, p
  <2>2. \A i \in DOMAIN p : p[i] \in Good <=> p[i] \in Good'
    BY <1>1, <1>7, <1>10 DEF Good
  <2>3. CASE result = "COMPLETED"
    <3>1. x \in Good'
      BY <1>0, <1>3, <1>7, <2>3 DEF Good
    <3>2. /\ stream'.last = stream.last /\ stream'.next = Succ(stream.next)
          /\ stream'.block[x] = stream.next
          /\ \A y \in Transfers : y # x => stream'.block[y] = stream.block[y]
      <4>1. stream' = [stream EXCEPT !.next = Succ(@), !.block[x] = stream.next]
        BY <1>2, <2>3 DEF Succ
      <4> HIDE DEF Succ
      <4> QED BY <1>0, <4>1 DEF StreamType
    <3>3. \A i \in DOMAIN p : stream'.block[p[i]] = stream.block[p[i]]
      BY <1>1, <1>10, <3>2
    <3>4. \A g : x \in g /\ (\A i \in DOMAIN p : p[i] \in Good <=> p[i] \in g)
            => InRow(Append(p, x), g, stream')
      BY <1>0, <1>10, <2>1, <3>2, <3>3, RowWithGood
    <3> QED BY <1>10, <2>2, <3>1, <3>4 DEF Gapless
  <2>4. CASE result # "COMPLETED"
    <3>1. x \notin Good' /\ stream' = stream
      BY <1>0, <1>2, <1>3, <1>7, <2>4 DEF Good
    <3>2. \A g : x \notin g /\ (\A i \in DOMAIN p : p[i] \in Good <=> p[i] \in g)
            => InRow(Append(p, x), g, stream)
      BY <1>0, <1>10, <2>1, RowWithBad
    <3> QED BY <1>10, <2>2, <3>1, <3>2 DEF Gapless
  <2> QED BY <2>3, <2>4
<1> QED BY <1>11, <1>12, <1>13, <1>14, <1>15, <1>16, <1>17 DEF IInv

-----------------------------------------------------------------------------
InOrder == stream'.last # stream.last => stream'.last = (stream.last + 1) % Blocks

\* It hands nothing over.
LEMMA CompleteKeepsLast ==
  ASSUME IInv, NEW n \in DOMAIN flight.order, NEW result, Complete(n, result)
  PROVE  stream'.last = stream.last
BY DEF IInv, TypeOK, StreamType, Complete

\* Every step keeps the invariant, and hands over the next block if it
\* hands one over.
LEMMA EveryStep == ASSUME Reliable, IInv, [Next]_vars PROVE IInv' /\ InOrder
<1>1. CASE ReadAsync
  BY <1>1, ReadAsyncStep DEF ReadAsync, InOrder
<1>2. CASE SubmitAll
  BY <1>2, SubmitAllStep DEF SubmitAll, InOrder
<1>3. CASE Lock
  BY <1>3, LockStep DEF Lock, InOrder
<1>4. CASE Loop
  BY <1>4, LoopStep DEF Loop, InOrder
<1>5. CASE HandleEvents
  BY <1>5, HandleEventsStep DEF HandleEvents, InOrder
<1>6. CASE TakeHead
  BY <1>6, TakeHeadStep DEF TakeHead, InOrder
<1>7. CASE Callback
  BY <1>7, CallbackStep DEF InOrder, Succ
<1>8. CASE Resubmit
  BY <1>8, ResubmitStep DEF Resubmit, InOrder
<1>9. CASE ActOnCancel
  BY <1>9, ActOnCancelStep DEF ActOnCancel, InOrder
<1>10. CASE TellLost
  BY <1>10, TellLostStep DEF TellLost, InOrder
<1>11. CASE FreeBuffers
  BY <1>11, FreeBuffersStep DEF FreeBuffers, InOrder
<1>12. CASE Transferred
  <2>1. PICK result \in {"COMPLETED", "ERROR", "STALL"} :
          (result = "ERROR" => CanBeLost) /\ Complete(1, result)
    BY <1>12 DEF Transferred
  <2>2. 1 \in DOMAIN flight.order
    <3>1. flight.order \in Seq(Transfers) /\ flight.order # << >>
      BY <1>12 DEF IInv, TypeOK, FlightType, Transferred
    <3> QED BY <3>1
  <2>3. result \in Results /\ result # "NO_DEVICE"
    BY DEF Results
  <2> QED BY <2>1, <2>2, <2>3, CompleteStep, CompleteKeepsLast DEF InOrder
<1>13. CASE Cancelled
  <2>1. PICK n \in DOMAIN flight.order : Complete(n, "CANCELLED")
    BY <1>13 DEF Cancelled
  <2>2. "CANCELLED" \in Results
    BY DEF Results
  <2> QED BY <2>1, <2>2, CompleteStep, CompleteKeepsLast DEF InOrder
<1>14. CASE NoDevice
  <2>1. PICK n \in DOMAIN flight.order : Complete(n, "NO_DEVICE") /\ ~device.plugged
    BY <1>14 DEF NoDevice
  <2>2. "NO_DEVICE" \in Results
    BY DEF Results
  <2> QED BY <2>1, <2>2, CompleteStep, CompleteKeepsLast DEF InOrder
<1>15. CASE Unplug
  BY <1>15, UnplugStep DEF Unplug, InOrder
<1>16. CASE CancelAsync
  BY <1>16, CancelAsyncStep DEF CancelAsync, InOrder
<1>17. CASE Close \/ CloseWaited
  BY <1>17, ClosingStep DEF Close, CloseWaited, InOrder
<1>18. CASE Deinit
  BY <1>18, DeinitStep DEF Deinit, InOrder
<1>19. CASE UNCHANGED vars
  <2>1. Pending' = Pending
    BY <1>19 DEF vars, Pending
  <2>2. Held' /\ Apart' /\ Gapless'
    BY <1>19, <2>1, SameTransfers DEF vars
  <2>3. TypeOK'
    BY <1>19 DEF vars, IInv, TypeOK
  <2>4. InFlight' = InFlight
    BY <1>19 DEF vars, InFlight
  <2>5. Own' /\ Ended' /\ Threads' /\ NeverLost'
    BY <1>19, <2>4 DEF vars, IInv, Own, Ended, Threads, NeverLost
  <2> QED BY <1>19, <2>2, <2>3, <2>5 DEF IInv, InOrder, vars
<1> QED
  BY <1>1, <1>2, <1>3, <1>4, <1>5, <1>6, <1>7, <1>8, <1>9, <1>10, <1>11, <1>12, <1>13,
     <1>14, <1>15, <1>16, <1>17, <1>18, <1>19 DEF Next, Reader, Libusb, Closing

\* The invariant implies what is wanted.
LEMMA Consequences == IInv => TypeOK /\ NoUseAfterFree
<1> SUFFICES ASSUME IInv PROVE NoUseAfterFree
  BY DEF IInv
<1>1. NoUseAfterClose
  BY DEF IInv, Threads, NoUseAfterClose
<1>2. NoFreedTransfer
  BY DEF IInv, Ended, Threads, NoFreedTransfer
<1> QED BY <1>1, <1>2 DEF NoUseAfterFree

\* Every variable of rtlsdr_read_async, _libusb_callback and rtlsdr_close keeps
\* its type.
THEOREM TypeCorrect == ASSUME Reliable PROVE Spec => []TypeOK
<1>1. Init => IInv
  BY InitHolds
<1>2. IInv /\ [Next]_vars => IInv'
  BY EveryStep
<1>3. IInv => TypeOK
  BY Consequences
<1> QED BY <1>1, <1>2, <1>3, PTL DEF Spec

\* Neither dev nor a transfer is freed under somebody who uses it: rtlsdr_close
\* frees dev when the reader is out, and the reader its transfers when libusb
\* has none, in whatever order they are completed, fail or are cancelled.
THEOREM NoneUsedAfterFree == ASSUME Reliable PROVE Spec => []NoUseAfterFree
<1>1. Init => IInv
  BY InitHolds
<1>2. IInv /\ [Next]_vars => IInv'
  BY EveryStep
<1>3. IInv => NoUseAfterFree
  BY Consequences
<1> QED BY <1>1, <1>2, <1>3, PTL DEF Spec

\* The callback gets the blocks in the order in which libusb received them and
\* misses none, whatever fails, is cancelled or is submitted again in between.
THEOREM OrderKept == ASSUME Reliable PROVE Spec => DeliversInOrder
<1>1. Init => IInv
  BY InitHolds
<1>2. IInv /\ [Next]_vars => IInv'
  BY EveryStep
<1>3. IInv /\ [Next]_vars => [InOrder]_vars
  BY EveryStep
<1>4. Spec => [][InOrder]_vars
  BY <1>1, <1>2, <1>3, PTL DEF Spec
<1> QED BY <1>4 DEF DeliversInOrder, InOrder

-----------------------------------------------------------------------------
(* The settings of the dongle, for all of its tuners, frequencies, rates,  *)
(* corrections and crystals.  A call changes few fields of the record it   *)
(* works on; the invariant relates those that different calls write: the   *)
(* ratio to the rate and the crystal, the tuner's copy of the clock to the *)
(* crystal and the correction, and the gain to the tuner's registers.      *)

DevFields == {"which", "tuner_type", "rtl_xtal", "tun_xtal", "corr", "rate", "freq", "offs_freq",
              "gain", "direct_sampling", "fosc", "on"}
DemodFields == {"if_freq", "ratio", "correction", "zero_if", "inverted", "quadrature", "swapped"}

\* The registers that hold the gain of each tuner; the input of an R82xx is the one
\* that the driver remembers (priv->input).
HasRegisters(type, chip) ==
  /\ type \in {"R820T", "R828D"} =>
       {"input", "priv_input"} \subseteq DOMAIN chip /\ chip.input = chip.priv_input
  /\ type \in {"E4000", "R820T", "R828D"} => {"lna", "mixer"} \subseteq DOMAIN chip
  /\ type = "FC0012" => "lna" \in DOMAIN chip
  /\ type = "FC0013" => "reg14" \in DOMAIN chip /\ chip.reg14 \in Int

SameGain(type, chip, new) ==
  /\ type \in {"E4000", "R820T", "R828D"} => new.lna = chip.lna /\ new.mixer = chip.mixer
  /\ type = "FC0012" => new.lna = chip.lna
  /\ type = "FC0013" => new.reg14 % 32 = chip.reg14 % 32

gain_of(type, chip) ==
  CASE type = "E4000" -> chip4k_gain(chip)
    [] type = "FC0012" -> chip12_gain(chip)
    [] type = "FC0013" -> chip13_gain(chip)
    [] type \in {"R820T", "R828D"} -> chipr_gain(chip)
    [] OTHER -> 0

\* The records of a device, and its chip has the registers of its tuner.
Shape(s) ==
  /\ DOMAIN s = {"dev", "chip", "demod"}
  /\ DOMAIN s.dev = DevFields
  /\ DOMAIN s.demod = DemodFields
Wf(s) ==
  /\ DOMAIN s = {"dev", "chip", "demod"}
  /\ DOMAIN s.dev = DevFields
  /\ DOMAIN s.demod = DemodFields
  /\ HasRegisters(s.dev.tuner_type, s.chip)

\* Nothing has changed but the frequency and the offset.
Quiet(s, t) ==
  /\ Wf(t)
  /\ \A k \in DevFields \ {"freq", "offs_freq"} : t.dev[k] = s.dev[k]
  /\ \A k \in DemodFields \ {"if_freq"} : t.demod[k] = s.demod[k]
  /\ SameGain(s.dev.tuner_type, s.chip, t.chip)
  /\ HasRegisters(s.dev.tuner_type, t.chip)

-----------------------------------------------------------------------------
(* The tables of gains *)

LEMMA LeastOf ==
  ASSUME NEW S \in SUBSET Nat, S # {}
  PROVE  Min(S) \in S /\ \A k \in S : Min(S) <= k
<1> DEFINE less == {pair \in Nat \X Nat : pair[1] < pair[2]}
<1>1. IsWellFoundedOn(less, Nat)
  BY NatLessThanWellFounded DEF OpToRel
<1>2. PICK m \in S : \A k \in S : ~ (<<k, m>> \in less)
  <2> HIDE DEF less
  <2> QED BY <1>1, WFMin
<1>3. ASSUME NEW k \in S PROVE m <= k
  <2>1. k \in Nat /\ m \in Nat /\ <<k, m>> \in Nat \X Nat
    OBVIOUS
  <2> QED BY <1>2, <2>1
<1> QED
  BY <1>3 DEF Min

LEMMA LnaTable ==
  /\ Len(fc0013_lna_gains) = 24
  /\ \A i, j \in 1..24 : i <= j => fc0013_lna_gains[i][1] <= fc0013_lna_gains[j][1]
  /\ \A i, j \in 1..24 : fc0013_lna_gains[i][2] = fc0013_lna_gains[j][2] => i = j
  /\ \A i \in 1..24 : fc0013_lna_gains[i][2] \in 0..31 /\ fc0013_lna_gains[i][1] \in Int
  /\ \A g \in rtlsdr_get_tuner_gains("FC0013") :
       g \in Int /\ \E i \in 1..24 : fc0013_lna_gains[i][1] = g
<1>1. Len(fc0013_lna_gains) = 24
  BY DEF fc0013_lna_gains
<1>2. \A i, j \in 1..24 : i <= j => fc0013_lna_gains[i][1] <= fc0013_lna_gains[j][1]
  BY DEF fc0013_lna_gains
<1>3. \A i, j \in 1..24 : fc0013_lna_gains[i][2] = fc0013_lna_gains[j][2] => i = j
  BY DEF fc0013_lna_gains
<1>4. \A i \in 1..24 : fc0013_lna_gains[i][2] \in 0..31 /\ fc0013_lna_gains[i][1] \in Int
  BY DEF fc0013_lna_gains
<1>5. \A g \in rtlsdr_get_tuner_gains("FC0013") :
        g \in Int /\ \E i \in 1..24 : fc0013_lna_gains[i][1] = g
  BY DEF fc0013_lna_gains, rtlsdr_get_tuner_gains
<1> QED BY <1>1, <1>2, <1>3, <1>4, <1>5

LEMMA LnaGains ==
  ASSUME NEW gain \in rtlsdr_get_tuner_gains("FC0013")
  PROVE  lna_bits(gain) \in 0..31 /\ lna_gain(lna_bits(gain)) = gain
<1> DEFINE Rows == fc0013_lna_gains
           Up == {i \in 1..24 : Rows[i][1] >= gain}
           n == Min(Up)
           With == {i \in 1..24 : Rows[i][2] = Rows[n][2]}
<1>1. PICK k \in 1..24 : Rows[k][1] = gain
  BY LnaTable
<1>2. gain \in Int
  BY LnaTable
<1>3. n \in Up /\ \A i \in Up : n <= i
  <2>1. k \in Up
    BY <1>1, <1>2
  <2> HIDE DEF Up, n
  <2>2. Up \in SUBSET Nat
    BY DEF Up
  <2> QED BY <2>1, <2>2, LeastOf DEF n
<1>4. Up # {} /\ n \in 1..24 /\ Rows[n][1] >= gain /\ n <= k
  BY <1>1, <1>2, <1>3
<1> HIDE DEF n
<1>5. Rows[n][1] = gain
  <2>1. Rows[n][1] <= Rows[k][1] /\ Rows[n][1] \in Int
    BY <1>4, LnaTable
  <2> QED BY <1>1, <1>2, <1>4, <2>1
<1>6. lna_bits(gain) = Rows[n][2]
  <2>1. Len(Rows) = 24
    BY LnaTable
  <2>2. Up = {i \in 1..Len(Rows) : Rows[i][1] >= gain}
    BY <2>1
  <2>3. n # 0
    BY <1>4
  <2> HIDE DEF Up
  <2> QED BY <2>2, <2>3, <1>4 DEF lna_bits, SelectInSeq, n
<1>7. With = {n}
  <2>1. \A i \in 1..24 : Rows[i][2] = Rows[n][2] => i = n
    <3>1. n \in 1..24
      BY <1>4
    <3> QED BY <3>1, LnaTable
  <2> QED BY <1>4, <2>1
<1>8. Min(With) = n
  <2>1. With \in SUBSET Nat /\ With # {}
    BY <1>7, <1>4
  <2> HIDE DEF With
  <2> QED BY <1>7, <2>1, LeastOf
<1>9. lna_gain(Rows[n][2]) = Rows[n][1]
  <2>1. Len(Rows) = 24
    BY LnaTable
  <2>2. With = {i \in 1..Len(Rows) : Rows[i][2] = Rows[n][2]}
    BY <2>1
  <2>3. With # {} /\ n # 0
    BY <1>4, <1>7
  <2> HIDE DEF With
  <2> QED BY <2>2, <2>3, <1>8 DEF lna_gain, SelectInSeq
<1> QED BY <1>4, <1>5, <1>6, <1>9, LnaTable

LEMMA GainOfSame ==
  ASSUME NEW type, NEW chip, NEW new, SameGain(type, chip, new)
  PROVE  gain_of(type, new) = gain_of(type, chip)
<1> DEFINE e4k(lna, mixer) == (CHOOSE row \in lnagain : row[2] = lna)[1]
                                + (IF mixer THEN 120 ELSE 40)
           r82xx(lna, mixer) == steps_gain(lna, mixer)
           fc(bits) == lna_gain(bits)
<1>1. \A c : chip4k_gain(c) = e4k(c.lna, c.mixer)
  BY DEF chip4k_gain
<1>2. \A c : chipr_gain(c) = r82xx(c.lna, c.mixer)
  BY DEF chipr_gain
<1>3. \A c : chip13_gain(c) = fc(c.reg14 % 32)
  BY DEF chip13_gain
<1>4. type = "FC0012" => chip12_gain(new) = chip12_gain(chip)
  BY DEF SameGain, chip12_gain
<1> HIDE DEF e4k, r82xx, fc
<1> QED BY <1>1, <1>2, <1>3, <1>4 DEF SameGain, gain_of

-----------------------------------------------------------------------------
(* What tuning and filtering do to the registers of the gain *)

LEMMA E4000Tunes ==
  ASSUME NEW chip, HasRegisters("E4000", chip), NEW clock, NEW fosc, NEW freq
  PROVE  LET new == e4k_tune_freq(chip, clock, fosc, freq).chip
         IN HasRegisters("E4000", new) /\ SameGain("E4000", chip, new)
<1>1. ASSUME NEW p, NEW flo
      PROVE  LET new == e4k_tune(chip, clock, p, flo).chip
             IN HasRegisters("E4000", new) /\ SameGain("E4000", chip, new)
  BY DEF HasRegisters, SameGain, e4k_tune, e4k_tune_params
<1> QED BY <1>1 DEF e4k_tune_freq

LEMMA E4000Filters ==
  ASSUME NEW chip, HasRegisters("E4000", chip), NEW bw
  PROVE  LET new == e4000_set_bw(chip, bw)
         IN HasRegisters("E4000", new) /\ SameGain("E4000", chip, new)
BY DEF HasRegisters, SameGain, e4000_set_bw

LEMMA FC0012Tunes ==
  ASSUME NEW chip, HasRegisters("FC0012", chip), NEW clock, NEW freq
  PROVE  LET new == fc0012_set_params(chip, clock, freq).chip
         IN HasRegisters("FC0012", new) /\ SameGain("FC0012", chip, new)
BY DEF HasRegisters, SameGain, fc0012_set_params

LEMMA FC0013Tunes ==
  ASSUME NEW chip, HasRegisters("FC0013", chip), NEW clock, NEW freq
  PROVE  LET new == fc0013_set_params(chip, clock, freq).chip
         IN HasRegisters("FC0013", new) /\ SameGain("FC0013", chip, new)
<1>1. fc0013_band(freq) \in {0, 64, 32}
  BY DEF fc0013_band
<1>2. (chip.reg14 % 32) + fc0013_band(freq) \in Int
      /\ ((chip.reg14 % 32) + fc0013_band(freq)) % 32 = chip.reg14 % 32
  BY <1>1 DEF HasRegisters
<1> HIDE DEF fc0013_band
<1> QED BY <1>2 DEF HasRegisters, SameGain, fc0013_set_params

LEMMA R82xxTunes ==
  ASSUME NEW type \in {"R820T", "R828D"}, NEW chip, HasRegisters(type, chip),
         NEW clock, NEW fosc, NEW freq, NEW is828
  PROVE  LET new == r82xx_set_freq(chip, clock, fosc, freq, is828).chip
         IN HasRegisters(type, new) /\ SameGain(type, chip, new)
<1>1. ASSUME NEW c, HasRegisters(type, c), NEW lo, NEW ref
      PROVE  LET new == r82xx_set_pll(c, clock, fosc, lo, ref).chip
             IN HasRegisters(type, new) /\ SameGain(type, c, new)
  BY <1>1 DEF HasRegisters, SameGain, r82xx_set_pll
<1>2. ASSUME NEW c, HasRegisters(type, c), NEW input
      PROVE  LET new == switch_input(c, input, is828)
             IN HasRegisters(type, new) /\ SameGain(type, c, new)
  BY <1>2 DEF HasRegisters, SameGain, switch_input
<1> QED BY <1>1, <1>2 DEF HasRegisters, SameGain, r82xx_set_freq

-----------------------------------------------------------------------------
(* The calls that leave everything but the frequency as it is *)

LEMMA SameIsQuiet ==
  ASSUME NEW s, Wf(s)
  PROVE  Quiet(s, s)
BY DEF Quiet, Wf, SameGain

LEMMA QuietTwice ==
  ASSUME NEW s, NEW t, NEW u, Quiet(s, t), Quiet(t, u)
  PROVE  Quiet(s, u)
<1>1. t.dev.tuner_type = s.dev.tuner_type
  BY DEF Quiet, DevFields
<1>2. SameGain(s.dev.tuner_type, s.chip, u.chip) /\ HasRegisters(s.dev.tuner_type, u.chip)
  BY <1>1 DEF Quiet, SameGain
<1> QED BY <1>2 DEF Quiet

\* A new chip with the gain of the old one, a frequency, an offset, an IF frequency.
LEMMA ChipIsQuiet ==
  ASSUME NEW s, Wf(s), NEW chip, HasRegisters(s.dev.tuner_type, chip),
         SameGain(s.dev.tuner_type, s.chip, chip)
  PROVE  Quiet(s, [s EXCEPT !.chip = chip])
BY DEF Quiet, Wf

LEMMA FreqIsQuiet ==
  ASSUME NEW s, Wf(s), NEW f
  PROVE  /\ Quiet(s, [s EXCEPT !.dev.freq = f])
         /\ Quiet(s, [s EXCEPT !.dev.offs_freq = f])
         /\ Quiet(s, [s EXCEPT !.demod.if_freq = f])
<1>1. SameGain(s.dev.tuner_type, s.chip, s.chip)
  BY DEF SameGain
<1>2. Quiet(s, [s EXCEPT !.dev.freq = f])
  BY <1>1 DEF Quiet, Wf, DevFields
<1>3. Quiet(s, [s EXCEPT !.dev.offs_freq = f])
  BY <1>1 DEF Quiet, Wf, DevFields
<1>4. Quiet(s, [s EXCEPT !.demod.if_freq = f])
  BY <1>1 DEF Quiet, Wf, DemodFields
<1> QED BY <1>2, <1>3, <1>4

LEMMA TunerTunes ==
  ASSUME NEW s, Wf(s), NEW freq
  PROVE  LET new == tuner_set_freq(s, freq).chip
         IN HasRegisters(s.dev.tuner_type, new) /\ SameGain(s.dev.tuner_type, s.chip, new)
<1>1. HasRegisters(s.dev.tuner_type, s.chip)
  BY DEF Wf
<1>2. CASE s.dev.tuner_type = "E4000"
  <2>1. tuner_set_freq(s, freq) = e4k_tune_freq(s.chip, tuner_clock(s.dev), s.dev.fosc, freq)
    BY <1>2 DEF tuner_set_freq, Rafael
  <2>2. HasRegisters("E4000", s.chip)
    BY <1>1, <1>2
  <2> QED BY <1>2, <2>1, <2>2, E4000Tunes
<1>3. CASE s.dev.tuner_type = "FC0012"
  <2>1. tuner_set_freq(s, freq) = fc0012_set_params(s.chip, tuner_clock(s.dev), freq)
    BY <1>3 DEF tuner_set_freq, Rafael
  <2>2. HasRegisters("FC0012", s.chip)
    BY <1>1, <1>3
  <2> QED BY <1>3, <2>1, <2>2, FC0012Tunes
<1>4. CASE s.dev.tuner_type = "FC0013"
  <2>1. tuner_set_freq(s, freq) = fc0013_set_params(s.chip, tuner_clock(s.dev), freq)
    BY <1>4 DEF tuner_set_freq, Rafael
  <2>2. HasRegisters("FC0013", s.chip)
    BY <1>1, <1>4
  <2> QED BY <1>4, <2>1, <2>2, FC0013Tunes
<1>5. CASE Rafael(s.dev)
  BY <1>1, <1>5, R82xxTunes DEF tuner_set_freq, Rafael
<1>6. CASE s.dev.tuner_type \notin {"E4000", "FC0012", "FC0013", "R820T", "R828D"}
  BY <1>6 DEF HasRegisters, SameGain
<1> QED BY <1>2, <1>3, <1>4, <1>5, <1>6 DEF Rafael

LEMMA BandwidthIsQuiet ==
  ASSUME NEW s, Wf(s), NEW bw
  PROVE  Quiet(s, tuner_set_bw(s, bw))
<1>1. CASE s.dev.tuner_type = "E4000"
  <2>1. HasRegisters("E4000", s.chip)
    BY <1>1 DEF Wf
  <2> DEFINE new == e4000_set_bw(s.chip, bw \div 10)
  <2>2. HasRegisters("E4000", new) /\ SameGain("E4000", s.chip, new)
    BY <2>1, E4000Filters
  <2>3. tuner_set_bw(s, bw) = [s EXCEPT !.chip = new]
    BY <1>1 DEF tuner_set_bw
  <2> HIDE DEF new
  <2> QED BY <1>1, <2>2, <2>3, ChipIsQuiet
<1>2. CASE s.dev.tuner_type = "FC2580"
  <2> DEFINE new == fc2580_SetBandwidthMode(s.chip, 1)
  <2>1. HasRegisters("FC2580", new) /\ SameGain("FC2580", s.chip, new)
    BY DEF HasRegisters, SameGain
  <2>2. tuner_set_bw(s, bw) = [s EXCEPT !.chip = new]
    BY <1>2 DEF tuner_set_bw
  <2> HIDE DEF new
  <2> QED BY <1>2, <2>1, <2>2, ChipIsQuiet
<1>3. CASE s.dev.tuner_type \notin {"E4000", "FC2580"}
  <2>1. tuner_set_bw(s, bw) = s
    BY <1>3 DEF tuner_set_bw
  <2> QED BY <2>1, SameIsQuiet
<1> QED BY <1>1, <1>2, <1>3

LEMMA TuningIsQuiet ==
  ASSUME NEW s, Wf(s), NEW freq
  PROVE  Quiet(s, set_center_freq(s, freq).s)
<1>1. CASE s.dev.direct_sampling # 0
  <2> DEFINE t == set_if_freq(s, freq)
  <2>1. Quiet(s, t)
    BY FreqIsQuiet DEF set_if_freq
  <2>2. Quiet(t, [t EXCEPT !.dev.freq = freq])
    <3>1. Wf(t)
      BY <2>1 DEF Quiet
    <3> HIDE DEF t
    <3> QED BY <3>1, FreqIsQuiet
  <2>3. set_center_freq(s, freq).s = [t EXCEPT !.dev.freq = freq]
    BY <1>1 DEF set_center_freq
  <2> HIDE DEF t
  <2> QED BY <2>1, <2>2, <2>3, QuietTwice
<1>2. CASE s.dev.direct_sampling = 0
  <2> DEFINE tuned == tuner_set_freq(s, freq - s.dev.offs_freq)
             t == [s EXCEPT !.chip = tuned.chip]
             f == IF tuned.r = 0 THEN freq ELSE 0
  <2>1. Quiet(s, t)
    BY TunerTunes, ChipIsQuiet
  <2>2. Quiet(t, [t EXCEPT !.dev.freq = f])
    <3>1. Wf(t)
      BY <2>1 DEF Quiet
    <3> HIDE DEF t, f
    <3> QED BY <3>1, FreqIsQuiet
  <2>3. set_center_freq(s, freq).s = [t EXCEPT !.dev.freq = f]
    <3> HIDE DEF tuned
    <3>1. set_center_freq(s, freq) = after_tuning(s, freq, tuned)
      BY <1>2 DEF set_center_freq, tuned
    <3>2. [t EXCEPT !.dev.freq = f] = [s EXCEPT !.chip = tuned.chip, !.dev.freq = f]
      OBVIOUS
    <3> QED BY <3>1, <3>2 DEF after_tuning
  <2> HIDE DEF t, f
  <2> QED BY <2>1, <2>2, <2>3, QuietTwice
<1> QED BY <1>1, <1>2

LEMMA OffsetIsQuiet ==
  ASSUME NEW s, Wf(s), NEW on
  PROVE  Quiet(s, set_offset_tuning(s, on))
<1> DEFINE offs == IF on THEN ((s.dev.rate \div 2) * 170) \div 100 ELSE 0
           t == [s EXCEPT !.dev.offs_freq = offs]
           u == set_if_freq(t, offs)
           bw == IF on THEN 2 * offs ELSE s.dev.rate
           v == tuner_set_bw(u, bw)
<1>1. Quiet(s, t)
  <2> HIDE DEF offs
  <2> QED BY FreqIsQuiet
<1>2. Quiet(t, u)
  <2>1. Wf(t)
    BY <1>1 DEF Quiet
  <2> HIDE DEF t
  <2> QED BY <2>1, FreqIsQuiet DEF set_if_freq
<1>3. Quiet(u, v)
  <2>1. Wf(u)
    BY <1>2 DEF Quiet
  <2> HIDE DEF u
  <2> QED BY <2>1, BandwidthIsQuiet
<1>4. Quiet(s, v)
  <2> HIDE DEF t, u, v
  <2> QED BY <1>1, <1>2, <1>3, QuietTwice
<1>5. Quiet(v, set_center_freq(v, s.dev.freq).s)
  <2>1. Wf(v)
    BY <1>4 DEF Quiet
  <2> HIDE DEF v
  <2> QED BY <2>1, TuningIsQuiet
<1>6. set_offset_tuning(s, on) = IF s.dev.freq > offs THEN set_center_freq(v, s.dev.freq).s ELSE v
  BY DEF set_offset_tuning
<1> HIDE DEF v, offs
<1> QED BY <1>4, <1>5, <1>6, QuietTwice

LEMMA RetuneIsQuiet ==
  ASSUME NEW s, Wf(s)
  PROVE  Quiet(s, retune(s))
BY SameIsQuiet, TuningIsQuiet DEF retune

-----------------------------------------------------------------------------
(* An open dongle *)

RateOK(s) ==
  s.dev.rate # 0 =>
    /\ Supported(s.dev.rate) =>
         Shifted(s.dev.rtl_xtal, 22, real_rsamp_ratio(s.demod.ratio)) = s.dev.rate
    /\ s.demod.correction = sample_freq_correction(s.dev.corr)

\* A tuner that is on has the clock of the crystal and the correction last set;
\* without direct sampling it is on, and the demodulator is told what it gives.
TunerOK(s) ==
  /\ s.dev.on => s.dev.fosc = tuner_clock(s.dev)
  /\ s.dev.direct_sampling = 0 => s.dev.on
  /\ s.demod.zero_if = s.demod.quadrature

WithGain == {"E4000", "FC0012", "FC0013", "R820T", "R828D"}
GainOK(s) == s.dev.tuner_type \notin WithGain => s.dev.gain = 0

DeviceOK(s) == Wf(s) /\ RateOK(s) /\ TunerOK(s) /\ GainOK(s)

SameDevice(s, t) ==
  t.dev.which = s.dev.which /\ t.dev.tuner_type = s.dev.tuner_type /\ t.dev.gain = s.dev.gain

\* What a call does that sets no gain.
Keeps(s, t) ==
  DeviceOK(t) /\ SameDevice(s, t) /\ SameGain(s.dev.tuner_type, s.chip, t.chip)

LEMMA QuietFields ==
  ASSUME NEW s, NEW t, Quiet(s, t)
  PROVE  /\ Wf(t) /\ SameDevice(s, t) /\ SameGain(s.dev.tuner_type, s.chip, t.chip)
         /\ t.dev.rate = s.dev.rate /\ t.dev.rtl_xtal = s.dev.rtl_xtal
         /\ t.dev.tun_xtal = s.dev.tun_xtal /\ t.dev.corr = s.dev.corr
         /\ t.dev.fosc = s.dev.fosc /\ t.dev.on = s.dev.on
         /\ t.dev.direct_sampling = s.dev.direct_sampling
         /\ t.demod.ratio = s.demod.ratio /\ t.demod.correction = s.demod.correction
         /\ t.demod.zero_if = s.demod.zero_if /\ t.demod.quadrature = s.demod.quadrature
BY DEF Quiet, SameDevice, DevFields, DemodFields

LEMMA QuietTuner ==
  ASSUME NEW s, NEW t, Quiet(s, t), TunerOK(s), GainOK(s)
  PROVE  TunerOK(t) /\ GainOK(t)
<1>1. tuner_clock(t.dev) = tuner_clock(s.dev)
  BY QuietFields DEF tuner_clock
<1> QED BY <1>1, QuietFields DEF TunerOK, GainOK, SameDevice

LEMMA QuietKeeps ==
  ASSUME NEW s, NEW t, Quiet(s, t), DeviceOK(s)
  PROVE  Keeps(s, t)
<1>1. RateOK(t)
  BY QuietFields DEF DeviceOK, RateOK
<1> QED BY <1>1, QuietFields, QuietTuner DEF Keeps, DeviceOK

LEMMA KeepsTwice ==
  ASSUME NEW s, NEW t, NEW u, SameDevice(s, t), SameGain(s.dev.tuner_type, s.chip, t.chip),
         Keeps(t, u)
  PROVE  Keeps(s, u)
BY DEF Keeps, SameDevice, SameGain

LEMMA ResampledKeeps ==
  ASSUME NEW s, Wf(s), TunerOK(s), GainOK(s), NEW samp_rate
  PROVE  Keeps(s, resampled(s, samp_rate))
<1> DEFINE exact == Shifted(s.dev.rtl_xtal, 22, samp_rate) % 2 ^ 28
           ratio == exact - (exact % 4)
           real_rate == Shifted(s.dev.rtl_xtal, 22, real_rsamp_ratio(ratio))
           correction == sample_freq_correction(s.dev.corr)
           t == tuner_set_bw(s, real_rate)
           set == [t EXCEPT !.dev.rate = real_rate, !.demod.ratio = ratio,
                            !.demod.correction = correction]
<1>1. Quiet(s, t)
  BY BandwidthIsQuiet
<1>2. resampled(s, samp_rate) =
        IF s.dev.offs_freq # 0 /\ s.dev.direct_sampling = 0 THEN set_offset_tuning(set, TRUE) ELSE set
  BY DEF resampled
<1>3. Keeps(s, set)
  <2>1. /\ set.chip = t.chip /\ Wf(set) /\ SameDevice(t, set)
        /\ set.dev.rate = real_rate /\ set.dev.rtl_xtal = t.dev.rtl_xtal
        /\ set.dev.tun_xtal = t.dev.tun_xtal /\ set.dev.corr = t.dev.corr
        /\ set.dev.fosc = t.dev.fosc /\ set.dev.on = t.dev.on
        /\ set.dev.direct_sampling = t.dev.direct_sampling
        /\ set.demod.ratio = ratio /\ set.demod.correction = correction
        /\ set.demod.zero_if = t.demod.zero_if /\ set.demod.quadrature = t.demod.quadrature
    <3>1. Wf(t)
      BY <1>1, QuietFields
    <3> HIDE DEF t, real_rate, ratio, correction
    <3> QED BY <3>1 DEF Wf, SameDevice, DevFields, DemodFields
  <2>2. RateOK(set)
    <3> HIDE DEF set, t
    <3>1. set.dev.rtl_xtal = s.dev.rtl_xtal /\ set.dev.corr = s.dev.corr
      BY <1>1, <2>1, QuietFields
    <3> HIDE DEF ratio
    <3> QED BY <2>1, <3>1 DEF RateOK
  <2>3. TunerOK(t) /\ GainOK(t)
    BY <1>1, QuietTuner
  <2> HIDE DEF set, t
  <2>4. tuner_clock(set.dev) = tuner_clock(t.dev)
    BY <2>1 DEF tuner_clock
  <2>5. TunerOK(set) /\ GainOK(set)
    BY <2>1, <2>3, <2>4 DEF TunerOK, GainOK, SameDevice
  <2>6. SameDevice(s, t) /\ SameGain(s.dev.tuner_type, s.chip, t.chip)
    BY <1>1, QuietFields
  <2> QED BY <2>1, <2>2, <2>5, <2>6 DEF Keeps, DeviceOK, SameDevice, SameGain
<1> HIDE DEF set
<1>4. Keeps(set, set_offset_tuning(set, TRUE))
  BY <1>3, OffsetIsQuiet, QuietKeeps DEF Keeps, DeviceOK
<1> QED BY <1>2, <1>3, <1>4, KeepsTwice DEF Keeps

LEMMA RateKeeps ==
  ASSUME NEW s, Wf(s), TunerOK(s), GainOK(s), NEW samp_rate, Supported(samp_rate) \/ RateOK(s)
  PROVE  Keeps(s, set_sample_rate(s, samp_rate))
<1>1. CASE Supported(samp_rate)
  BY <1>1, ResampledKeeps DEF set_sample_rate
<1>2. CASE ~Supported(samp_rate)
  BY <1>2, SameIsQuiet, QuietKeeps DEF set_sample_rate, DeviceOK
<1> QED BY <1>1, <1>2

LEMMA RetuneKeeps ==
  ASSUME NEW s, DeviceOK(s)
  PROVE  Keeps(s, retune(s))
BY RetuneIsQuiet, QuietKeeps DEF DeviceOK

LEMMA CorrectionKeeps ==
  ASSUME NEW s, DeviceOK(s), NEW ppm
  PROVE  Keeps(s, set_freq_correction(s, ppm))
<1> DEFINE correction == sample_freq_correction(ppm)
           fosc == Corrected(s.dev.tun_xtal, ppm)
           t == [s EXCEPT !.dev.corr = ppm, !.demod.correction = correction, !.dev.fosc = fosc]
<1>1. /\ t.chip = s.chip /\ Wf(t) /\ SameDevice(s, t)
      /\ t.dev.rate = s.dev.rate /\ t.dev.rtl_xtal = s.dev.rtl_xtal
      /\ t.dev.tun_xtal = s.dev.tun_xtal /\ t.dev.corr = ppm
      /\ t.dev.fosc = fosc /\ t.dev.on = s.dev.on
      /\ t.dev.direct_sampling = s.dev.direct_sampling
      /\ t.demod.ratio = s.demod.ratio /\ t.demod.correction = correction
      /\ t.demod.zero_if = s.demod.zero_if /\ t.demod.quadrature = s.demod.quadrature
  <2> HIDE DEF fosc, correction
  <2> QED BY DEF DeviceOK, Wf, SameDevice, DevFields, DemodFields
<1> HIDE DEF t
<1>2. RateOK(t)
  BY <1>1 DEF RateOK, DeviceOK
<1>3. TunerOK(t) /\ GainOK(t)
  BY <1>1 DEF TunerOK, GainOK, DeviceOK, SameDevice, tuner_clock
<1>4. DeviceOK(t) /\ SameGain(s.dev.tuner_type, s.chip, t.chip)
  BY <1>1, <1>2, <1>3 DEF DeviceOK, SameGain
<1>5. set_freq_correction(s, ppm) = retune(t)
  BY DEF set_freq_correction, t
<1> QED BY <1>1, <1>4, <1>5, RetuneKeeps, KeepsTwice

LEMMA CrystalsKeep ==
  ASSUME NEW s, DeviceOK(s), NEW rtl_freq, NEW tuner_freq
  PROVE  Keeps(s, set_xtal_freq(s, rtl_freq, tuner_freq))
<1>1. Keeps(s, s)
  BY SameIsQuiet, QuietKeeps DEF DeviceOK
<1>2. Keeps(s, set_rtl_xtal(s, rtl_freq))
  <2> DEFINE t == [s EXCEPT !.dev.rtl_xtal = rtl_freq]
  <2>1. /\ t.chip = s.chip /\ Wf(t) /\ SameDevice(s, t) /\ t.demod = s.demod
        /\ t.dev.rate = s.dev.rate
        /\ t.dev.tun_xtal = s.dev.tun_xtal /\ t.dev.corr = s.dev.corr
        /\ t.dev.fosc = s.dev.fosc /\ t.dev.on = s.dev.on
        /\ t.dev.direct_sampling = s.dev.direct_sampling
    BY DEF DeviceOK, Wf, SameDevice, DevFields
  <2>2. set_rtl_xtal(s, rtl_freq) = IF rtl_freq = 0 \/ s.dev.rtl_xtal = rtl_freq THEN s
                                    ELSE IF s.dev.rate # 0 THEN set_sample_rate(t, s.dev.rate) ELSE t
    BY DEF set_rtl_xtal
  <2>3. t.dev.corr = s.dev.corr
    BY DEF DeviceOK, Wf, DevFields
  <2> HIDE DEF t
  <2>4. ~Supported(s.dev.rate) => RateOK(t)
    BY <2>1, <2>3 DEF RateOK, DeviceOK
  <2>5. TunerOK(t) /\ GainOK(t) /\ SameGain(s.dev.tuner_type, s.chip, t.chip)
    BY <2>1, <2>3 DEF TunerOK, GainOK, DeviceOK, SameDevice, SameGain, tuner_clock
  <2>6. CASE rtl_freq = 0 \/ s.dev.rtl_xtal = rtl_freq
    BY <1>1, <2>2, <2>6
  <2>7. CASE ~(rtl_freq = 0 \/ s.dev.rtl_xtal = rtl_freq) /\ s.dev.rate # 0
    <3>1. Keeps(t, set_sample_rate(t, s.dev.rate))
      BY <2>1, <2>4, <2>5, RateKeeps
    <3> QED BY <2>1, <2>2, <2>5, <2>7, <3>1, KeepsTwice
  <2>8. CASE ~(rtl_freq = 0 \/ s.dev.rtl_xtal = rtl_freq) /\ s.dev.rate = 0
    <3>1. RateOK(t)
      BY <2>1, <2>8 DEF RateOK
    <3> QED BY <2>1, <2>2, <2>5, <2>8, <3>1 DEF Keeps, DeviceOK
  <2> QED BY <2>6, <2>7, <2>8
<1>3. ASSUME NEW r, DeviceOK(r)
      PROVE  Keeps(r, set_tuner_xtal(r, tuner_freq))
  <2> DEFINE tun == IF tuner_freq = 0 THEN r.dev.rtl_xtal ELSE tuner_freq
             fosc == Corrected(tun, r.dev.corr)
             t == [r EXCEPT !.dev.tun_xtal = tun, !.dev.fosc = fosc]
  <2>1. /\ t.chip = r.chip /\ Wf(t) /\ SameDevice(r, t) /\ t.demod = r.demod
        /\ t.dev.rate = r.dev.rate /\ t.dev.rtl_xtal = r.dev.rtl_xtal
        /\ t.dev.tun_xtal = tun /\ t.dev.corr = r.dev.corr
        /\ t.dev.fosc = fosc /\ t.dev.on = r.dev.on
        /\ t.dev.direct_sampling = r.dev.direct_sampling
    <3> HIDE DEF fosc, tun
    <3> QED BY <1>3 DEF DeviceOK, Wf, SameDevice, DevFields
  <2>2. set_tuner_xtal(r, tuner_freq) = IF r.dev.tun_xtal # tuner_freq THEN retune(t) ELSE r
    BY DEF set_tuner_xtal
  <2> HIDE DEF t, tun
  <2>3. DeviceOK(t) /\ SameGain(r.dev.tuner_type, r.chip, t.chip)
    BY <1>3, <2>1 DEF RateOK, TunerOK, GainOK, DeviceOK, SameDevice, SameGain, tuner_clock
  <2>4. Keeps(r, retune(t))
    BY <2>1, <2>3, RetuneKeeps, KeepsTwice
  <2>5. Keeps(r, r)
    BY <1>3, SameIsQuiet, QuietKeeps DEF DeviceOK
  <2> QED BY <2>2, <2>4, <2>5
<1> DEFINE r == set_rtl_xtal(s, rtl_freq)
           allowed == rtl_freq \in {0} \cup MIN_RTL_XTAL_FREQ..MAX_RTL_XTAL_FREQ
<1>4. set_xtal_freq(s, rtl_freq, tuner_freq) = IF allowed THEN set_tuner_xtal(r, tuner_freq) ELSE s
  BY DEF set_xtal_freq
<1> HIDE DEF r, allowed
<1>5. Keeps(s, r)
  BY <1>2 DEF r
<1>6. Keeps(r, set_tuner_xtal(r, tuner_freq))
  BY <1>3, <1>5 DEF Keeps
<1> QED BY <1>1, <1>4, <1>5, <1>6, KeepsTwice DEF Keeps

LEMMA InitStarts ==
  ASSUME NEW s, Shape(s)
  PROVE  LET t == tuner_init(s)
         IN /\ Wf(t) /\ SameDevice(s, t) /\ t.demod = s.demod
            /\ t.dev.rate = s.dev.rate /\ t.dev.rtl_xtal = s.dev.rtl_xtal
            /\ t.dev.tun_xtal = s.dev.tun_xtal /\ t.dev.corr = s.dev.corr
            /\ t.dev.fosc = tuner_clock(s.dev) /\ t.dev.on = TRUE
            /\ t.dev.direct_sampling = s.dev.direct_sampling
<1> DEFINE type == s.dev.tuner_type
           clock == tuner_clock(s.dev)
           chip == CASE type = "E4000" -> e4k_start
                     [] type = "FC0012" -> fc0012_start
                     [] type = "FC0013" -> fc0013_start
                     [] type = "FC2580" -> fc2580_start
                     [] Rafael(s.dev) -> r82xx_start
                     [] OTHER -> s.chip
           t == [s EXCEPT !.dev.fosc = clock, !.dev.on = TRUE, !.chip = chip]
<1>1. HasRegisters(type, chip)
  BY DEF HasRegisters, Rafael, e4k_start, fc0012_start, fc0013_start, r82xx_start
<1>2. tuner_init(s) = t
  BY DEF tuner_init
<1> HIDE DEF clock, chip
<1>3. /\ Wf(t) /\ SameDevice(s, t) /\ t.demod = s.demod
      /\ t.dev.rate = s.dev.rate /\ t.dev.rtl_xtal = s.dev.rtl_xtal
      /\ t.dev.tun_xtal = s.dev.tun_xtal /\ t.dev.corr = s.dev.corr
      /\ t.dev.fosc = clock /\ t.dev.on = TRUE
      /\ t.dev.direct_sampling = s.dev.direct_sampling
  BY <1>1 DEF Wf, Shape, SameDevice, DevFields
<1> HIDE DEF t
<1> QED BY <1>2, <1>3 DEF clock

\* rtlsdr_set_direct_sampling: the tuner is left, or initialised again.
LEMMA DirectKeeps ==
  ASSUME NEW s, Wf(s), RateOK(s), GainOK(s), NEW on \in Int,
         s.demod.zero_if = s.demod.quadrature,
         s.dev.on => s.dev.fosc = tuner_clock(s.dev)
  PROVE  DeviceOK(set_direct_sampling(s, on).s) /\ SameDevice(s, set_direct_sampling(s, on).s)
<1> DEFINE t == IF on # 0 THEN direct_on(s, on) ELSE direct_off(s)
<1>1. Wf(t) /\ SameDevice(s, t) /\ RateOK(t) /\ GainOK(t) /\ TunerOK(t)
  <2>1. CASE on # 0
    <3> DEFINE still == IF s.dev.tuner_type = "E4000" \/ Rafael(s.dev) THEN FALSE ELSE s.dev.on
               swapped == on > 1
               u == [s EXCEPT !.dev.on = still, !.dev.direct_sampling = on,
                              !.demod.zero_if = FALSE, !.demod.inverted = FALSE,
                              !.demod.quadrature = FALSE, !.demod.swapped = swapped]
    <3>1. t = u
      BY <2>1 DEF direct_on
    <3>2. still => s.dev.on
      OBVIOUS
    <3>3. /\ u.chip = s.chip /\ Wf(u) /\ SameDevice(s, u)
          /\ u.dev.rate = s.dev.rate /\ u.dev.rtl_xtal = s.dev.rtl_xtal
          /\ u.dev.tun_xtal = s.dev.tun_xtal /\ u.dev.corr = s.dev.corr
          /\ u.dev.fosc = s.dev.fosc /\ u.dev.on = still
          /\ u.dev.direct_sampling = on
          /\ u.demod.ratio = s.demod.ratio /\ u.demod.correction = s.demod.correction
          /\ u.demod.zero_if = u.demod.quadrature
      <4> HIDE DEF still, swapped
      <4> QED BY DEF Wf, SameDevice, DevFields, DemodFields
    <3> HIDE DEF still, u, t
    <3> QED BY <2>1, <3>1, <3>2, <3>3 DEF RateOK, GainOK, TunerOK, SameDevice, tuner_clock
  <2>2. CASE on = 0
    <3> DEFINE clock == tuner_clock(s.dev)
               u == tuner_init(s)
               v == [u EXCEPT !.dev.direct_sampling = 0, !.demod.swapped = FALSE]
               f == IF Rafael(s.dev) THEN R82XX_IF_FREQ ELSE 0
               w == set_if_freq(v, f)
    <3>1. /\ Wf(u) /\ SameDevice(s, u) /\ u.demod = s.demod
          /\ u.dev.rate = s.dev.rate /\ u.dev.rtl_xtal = s.dev.rtl_xtal
          /\ u.dev.tun_xtal = s.dev.tun_xtal /\ u.dev.corr = s.dev.corr
          /\ u.dev.fosc = clock /\ u.dev.on = TRUE
      BY InitStarts DEF Wf, Shape
    <3>2. /\ Wf(v) /\ SameDevice(s, v)
          /\ v.dev.rate = s.dev.rate /\ v.dev.rtl_xtal = s.dev.rtl_xtal
          /\ v.dev.tun_xtal = s.dev.tun_xtal /\ v.dev.corr = s.dev.corr
          /\ v.dev.fosc = clock /\ v.dev.on = TRUE
          /\ v.dev.direct_sampling = 0
          /\ v.demod.ratio = s.demod.ratio /\ v.demod.correction = s.demod.correction
          /\ v.demod.zero_if = s.demod.zero_if /\ v.demod.quadrature = s.demod.quadrature
      <4> HIDE DEF clock, u
      <4> QED BY <3>1 DEF Wf, SameDevice, DevFields, DemodFields
    <3>4. Quiet(v, w)
      <4> HIDE DEF v, f
      <4> QED BY <3>2, FreqIsQuiet DEF set_if_freq
    <3>5. /\ Wf(w) /\ SameDevice(s, w)
          /\ w.dev.rate = s.dev.rate /\ w.dev.rtl_xtal = s.dev.rtl_xtal
          /\ w.dev.tun_xtal = s.dev.tun_xtal /\ w.dev.corr = s.dev.corr
          /\ w.dev.fosc = clock /\ w.dev.on = TRUE
          /\ w.dev.direct_sampling = 0
          /\ w.demod.ratio = s.demod.ratio /\ w.demod.correction = s.demod.correction
          /\ w.demod.zero_if = w.demod.quadrature
      <4> HIDE DEF v, w, clock
      <4> QED BY <3>2, <3>4, QuietFields DEF SameDevice
    <3>6. t = IF Rafael(s.dev) THEN [w EXCEPT !.demod.inverted = TRUE]
              ELSE [w EXCEPT !.demod.quadrature = TRUE, !.demod.zero_if = TRUE]
      BY <2>2 DEF direct_off
    <3> HIDE DEF w, t, clock
    <3>7. /\ t.chip = w.chip /\ Wf(t) /\ SameDevice(w, t) /\ t.dev = w.dev
          /\ t.demod.ratio = w.demod.ratio /\ t.demod.correction = w.demod.correction
          /\ t.demod.zero_if = t.demod.quadrature
      BY <3>5, <3>6 DEF Wf, SameDevice, DevFields, DemodFields
    <3>8. tuner_clock(t.dev) = clock
      BY <3>5, <3>7 DEF clock, tuner_clock
    <3> QED BY <3>5, <3>7, <3>8 DEF RateOK, GainOK, TunerOK, SameDevice
  <2> QED BY <2>1, <2>2
<1>2. set_direct_sampling(s, on) = set_center_freq(t, s.dev.freq)
  BY DEF set_direct_sampling
<1> HIDE DEF t
<1>3. Keeps(t, set_center_freq(t, s.dev.freq).s)
  BY <1>1, TuningIsQuiet, QuietKeeps DEF DeviceOK
<1> QED BY <1>1, <1>2, <1>3 DEF Keeps, SameDevice

LEMMA OpenedOK ==
  ASSUME NEW n
  PROVE  DeviceOK(Opened(n))
<1> DEFINE type == bus[n].tuner
           xtal == IF type = "R828D" THEN R828D_XTAL_FREQ ELSE DEF_RTL_XTAL_FREQ
           base == [dev |-> [which |-> n, tuner_type |-> type, rtl_xtal |-> DEF_RTL_XTAL_FREQ,
                             tun_xtal |-> xtal, corr |-> 0, rate |-> 0, freq |-> 0,
                             offs_freq |-> 0, gain |-> 0, direct_sampling |-> 0, fosc |-> 0,
                             on |-> FALSE],
                    chip |-> << >>,
                    demod |-> [if_freq |-> 0, ratio |-> 0, correction |-> 0, zero_if |-> TRUE,
                               inverted |-> FALSE, quadrature |-> TRUE, swapped |-> FALSE]]
           rafael == [set_if_freq(base, R82XX_IF_FREQ) EXCEPT
                        !.demod.zero_if = FALSE, !.demod.quadrature = FALSE, !.demod.inverted = TRUE]
<1>1. Opened(n) = CASE type = "none" -> set_direct_sampling(base, 1).s
                    [] Rafael(base.dev) -> tuner_init(rafael)
                    [] OTHER -> tuner_init(base)
  BY DEF Opened
<1>2. /\ Shape(base) /\ base.dev.tuner_type = type /\ base.dev.rate = 0 /\ base.dev.gain = 0
      /\ base.dev.on = FALSE /\ base.demod.zero_if = base.demod.quadrature
  <2> HIDE DEF xtal, type
  <2> QED BY DEF Shape, DevFields, DemodFields
<1>3. /\ Shape(rafael) /\ rafael.dev = base.dev /\ rafael.demod.zero_if = rafael.demod.quadrature
  <2> DEFINE f == (-Shifted(R82XX_IF_FREQ, 22, rtl_clock(base.dev))) % 2 ^ 22
  <2>1. rafael = [base EXCEPT !.demod.if_freq = f,
                  !.demod.zero_if = FALSE, !.demod.quadrature = FALSE, !.demod.inverted = TRUE]
    BY DEF set_if_freq
  <2> HIDE DEF base, f, rafael
  <2> QED BY <1>2, <2>1 DEF Shape, DemodFields
<1> HIDE DEF base, rafael, type
<1>4. CASE type = "none"
  <2>1. Wf(base) /\ RateOK(base) /\ GainOK(base)
    BY <1>2, <1>4 DEF Shape, Wf, HasRegisters, RateOK, GainOK
  <2>2. DeviceOK(set_direct_sampling(base, 1).s)
    BY <1>2, <2>1, DirectKeeps
  <2>3. ~Rafael(base.dev)
    BY <1>2, <1>4 DEF Rafael
  <2> QED BY <1>1, <1>4, <2>2, <2>3
<1>5. ASSUME NEW s, Shape(s), s.dev.rate = 0, s.dev.gain = 0, s.demod.zero_if = s.demod.quadrature
      PROVE  DeviceOK(tuner_init(s))
  <2> DEFINE t == tuner_init(s)
  <2>1. /\ Wf(t) /\ SameDevice(s, t) /\ t.demod = s.demod /\ t.dev.rate = s.dev.rate
        /\ t.dev.tun_xtal = s.dev.tun_xtal /\ t.dev.corr = s.dev.corr
        /\ t.dev.fosc = tuner_clock(s.dev) /\ t.dev.on = TRUE
    BY <1>5, InitStarts
  <2> HIDE DEF t
  <2>2. DeviceOK(t)
    BY <1>5, <2>1 DEF DeviceOK, RateOK, TunerOK, GainOK, SameDevice, tuner_clock
  <2> QED BY <2>2 DEF t
<1> QED BY <1>1, <1>2, <1>3, <1>4, <1>5

-----------------------------------------------------------------------------
(* Setting the gain *)

LEMMA E4000Gain ==
  ASSUME NEW chip, HasRegisters("E4000", chip), NEW gain \in rtlsdr_get_tuner_gains("E4000")
  PROVE  LET set == e4000_set_gain(chip, gain)
         IN set.r = 0 /\ HasRegisters("E4000", set.chip) /\ chip4k_gain(set.chip) = gain
<1> DEFINE mixer == gain > 340
           lna == Min({300, gain - (IF mixer THEN 120 ELSE 40)})
           row == CHOOSE r \in lnagain : r[1] = lna
           new == [chip EXCEPT !.mixer = mixer, !.lna = row[2]]
<1>1. gain \in Int /\ lna + (IF mixer THEN 120 ELSE 40) = gain /\ \E r \in lnagain : r[1] = lna
  <2>1. gain \in Int /\ gain - (IF mixer THEN 120 ELSE 40) <= 300
    BY DEF rtlsdr_get_tuner_gains
  <2>2. lna = gain - (IF mixer THEN 120 ELSE 40)
    <3> DEFINE m == gain - (IF mixer THEN 120 ELSE 40)
    <3>1. m \in Int /\ m <= 300
      BY <2>1
    <3> HIDE DEF m
    <3>2. Min({300, m}) = m
      BY <3>1 DEF Min
    <3> QED BY <3>2 DEF m
  <2>3. \E r \in lnagain : r[1] = gain - (IF mixer THEN 120 ELSE 40)
    BY DEF rtlsdr_get_tuner_gains, lnagain
  <2> QED BY <2>1, <2>2, <2>3
<1> HIDE DEF lna
<1>2. row \in lnagain /\ row[1] = lna
  BY <1>1
<1> HIDE DEF row, mixer
<1>3. e4000_set_gain(chip, gain) = [r |-> 0, chip |-> new]
  BY <1>1 DEF e4000_set_gain, lna, row, mixer
<1>4. new.lna = row[2] /\ new.mixer = mixer /\ HasRegisters("E4000", new)
  BY DEF HasRegisters
<1> HIDE DEF new
<1>5. (CHOOSE r \in lnagain : r[2] = new.lna)[1] = row[1]
  <2>1. \A r, q \in lnagain : r[2] = q[2] => r[1] = q[1]
    BY DEF lnagain
  <2> QED BY <1>2, <1>4, <2>1
<1>6. chip4k_gain(new) = lna + (IF mixer THEN 120 ELSE 40)
  BY <1>2, <1>4, <1>5 DEF chip4k_gain
<1> QED BY <1>1, <1>3, <1>4, <1>6

LEMMA FC0012Gain ==
  ASSUME NEW chip, HasRegisters("FC0012", chip), NEW gain \in rtlsdr_get_tuner_gains("FC0012")
  PROVE  LET set == fc0012_set_gain(chip, gain)
         IN set.r = 0 /\ HasRegisters("FC0012", set.chip) /\ chip12_gain(set.chip) = gain
<1> DEFINE bits == IF gain \in DOMAIN fc0012_gain_bits THEN fc0012_gain_bits[gain] ELSE 16
           new == [chip EXCEPT !.lna = bits]
<1>1. bits = CASE gain = -99 -> 2 [] gain = -40 -> 0 [] gain = 71 -> 8 [] gain = 179 -> 23
              [] OTHER -> 16
  BY DEF fc0012_gain_bits, rtlsdr_get_tuner_gains
<1>2. fc0012_set_gain(chip, gain) = [r |-> 0, chip |-> new]
  BY DEF fc0012_set_gain
<1> HIDE DEF bits
<1>3. new.lna = bits /\ HasRegisters("FC0012", new)
  BY DEF HasRegisters
<1> HIDE DEF new
<1>4. chip12_gain(new) = gain
  BY <1>1, <1>3 DEF chip12_gain, rtlsdr_get_tuner_gains
<1> QED BY <1>2, <1>3, <1>4

LEMMA FC0013Gain ==
  ASSUME NEW chip, HasRegisters("FC0013", chip), NEW gain \in rtlsdr_get_tuner_gains("FC0013")
  PROVE  LET set == fc0013_set_lna_gain(chip, gain)
         IN set.r = 0 /\ HasRegisters("FC0013", set.chip) /\ chip13_gain(set.chip) = gain
<1> DEFINE bits == lna_bits(gain)
           reg14 == (chip.reg14 - (chip.reg14 % 32)) + bits
           new == [chip EXCEPT !.reg14 = reg14]
<1>1. bits \in 0..31 /\ lna_gain(bits) = gain
  BY LnaGains
<1>2. fc0013_set_lna_gain(chip, gain) = [r |-> 0, chip |-> new]
  BY DEF fc0013_set_lna_gain
<1> HIDE DEF bits
<1>3. reg14 \in Int /\ reg14 % 32 = bits
  BY <1>1 DEF HasRegisters
<1> HIDE DEF reg14
<1>4. new.reg14 = reg14 /\ HasRegisters("FC0013", new)
  BY <1>3 DEF HasRegisters
<1> HIDE DEF new
<1> QED BY <1>1, <1>2, <1>3, <1>4 DEF chip13_gain

LEMMA R82xxGain ==
  ASSUME NEW type \in {"R820T", "R828D"}, NEW chip, HasRegisters(type, chip),
         NEW gain \in rtlsdr_get_tuner_gains(type)
  PROVE  LET set == r82xx_set_gain(chip, TRUE, gain)
         IN set.r = 0 /\ HasRegisters(type, set.chip) /\ chipr_gain(set.chip) = gain
<1> DEFINE lna == (gain_steps(gain) + 1) \div 2
           mixer == gain_steps(gain) \div 2
           new == [chip EXCEPT !.manual = TRUE, !.lna = lna, !.mixer = mixer]
<1>1. steps_gain(lna, mixer) = gain
  <2>1. gain \in rtlsdr_get_tuner_gains("R820T")
    BY DEF rtlsdr_get_tuner_gains
  <2> QED BY <2>1, StepsAssumption
<1>2. r82xx_set_gain(chip, TRUE, gain) = [r |-> 0, chip |-> new]
  BY DEF r82xx_set_gain
<1> HIDE DEF lna, mixer
<1>3. new.lna = lna /\ new.mixer = mixer /\ HasRegisters(type, new)
  BY DEF HasRegisters
<1> HIDE DEF new
<1>4. chipr_gain(new) = gain
  <2>1. chipr_gain(new) = steps_gain(new.lna, new.mixer)
    BY DEF chipr_gain
  <2> QED BY <1>1, <1>3, <2>1
<1> DEFINE set == r82xx_set_gain(chip, TRUE, gain)
<1>5. set = [r |-> 0, chip |-> new]
  BY <1>2
<1> HIDE DEF set
<1>6. set.r = 0 /\ HasRegisters(type, set.chip) /\ chipr_gain(set.chip) = gain
  BY <1>3, <1>4, <1>5
<1> QED BY <1>6 DEF set

LEMMA ListedGain ==
  ASSUME NEW s, Wf(s), NEW gain \in rtlsdr_get_tuner_gains(s.dev.tuner_type)
  PROVE  LET set == tuner_set_gain(s, gain)
         IN /\ set.r = 0 /\ HasRegisters(s.dev.tuner_type, set.chip)
            /\ gain_of(s.dev.tuner_type, set.chip) = gain
            /\ s.dev.tuner_type \notin WithGain => gain = 0
<1>1. HasRegisters(s.dev.tuner_type, s.chip)
  BY DEF Wf
<1>2. CASE s.dev.tuner_type = "E4000"
  <2>1. tuner_set_gain(s, gain) = e4000_set_gain(s.chip, gain)
    BY <1>2 DEF tuner_set_gain, Rafael
  <2> QED BY <1>1, <1>2, <2>1, E4000Gain DEF gain_of, WithGain
<1>3. CASE s.dev.tuner_type = "FC0012"
  <2>1. tuner_set_gain(s, gain) = fc0012_set_gain(s.chip, gain)
    BY <1>3 DEF tuner_set_gain, Rafael
  <2> QED BY <1>1, <1>3, <2>1, FC0012Gain DEF gain_of, WithGain
<1>4. CASE s.dev.tuner_type = "FC0013"
  <2>1. tuner_set_gain(s, gain) = fc0013_set_lna_gain(s.chip, gain)
    BY <1>4 DEF tuner_set_gain, Rafael
  <2> QED BY <1>1, <1>4, <2>1, FC0013Gain DEF gain_of, WithGain
<1>5. CASE s.dev.tuner_type \in {"R820T", "R828D"}
  <2>1. tuner_set_gain(s, gain) = r82xx_set_gain(s.chip, TRUE, gain)
    BY <1>5 DEF tuner_set_gain, Rafael
  <2> DEFINE set == r82xx_set_gain(s.chip, TRUE, gain)
  <2>2. set.r = 0 /\ HasRegisters(s.dev.tuner_type, set.chip) /\ chipr_gain(set.chip) = gain
    BY <1>1, <1>5, R82xxGain
  <2>3. gain_of(s.dev.tuner_type, set.chip) = chipr_gain(set.chip) /\ s.dev.tuner_type \in WithGain
    BY <1>5 DEF gain_of, WithGain
  <2> HIDE DEF set
  <2> QED BY <2>1, <2>2, <2>3 DEF set
<1>6. CASE s.dev.tuner_type \notin WithGain
  <2>1. tuner_set_gain(s, gain) = [r |-> 0, chip |-> s.chip]
    BY <1>6 DEF tuner_set_gain, Rafael, WithGain
  <2>2. gain = 0
    BY <1>6 DEF rtlsdr_get_tuner_gains, WithGain
  <2>3. gain_of(s.dev.tuner_type, s.chip) = 0
    BY <1>6 DEF gain_of, WithGain
  <2> QED BY <1>1, <2>1, <2>2, <2>3
<1> QED BY <1>2, <1>3, <1>4, <1>5, <1>6 DEF WithGain

LEMMA GainMode ==
  ASSUME NEW s, Wf(s), NEW manual \in BOOLEAN
  PROVE  HasRegisters(s.dev.tuner_type, tuner_set_gain_mode(s, manual).chip)
<1>1. HasRegisters(s.dev.tuner_type, s.chip)
  BY DEF Wf
<1> QED BY <1>1 DEF HasRegisters, tuner_set_gain_mode, Rafael, e4k_enable_manual_gain,
                    fc0013_set_gain_mode, r82xx_set_gain

LEMMA IfGain ==
  ASSUME NEW chip, HasRegisters("E4000", chip), NEW stage, NEW gain
  PROVE  LET new == e4k_if_gain_set(chip, stage, gain).chip
         IN HasRegisters("E4000", new) /\ SameGain("E4000", chip, new)
<1> DEFINE value == SelectInSeq(if_stage_gain[stage], LAMBDA g : g = gain) - 1
<1>1. e4k_if_gain_set(chip, stage, gain).chip = chip
      \/ e4k_if_gain_set(chip, stage, gain).chip = [chip EXCEPT !.stages[stage] = value]
  BY DEF e4k_if_gain_set
<1> HIDE DEF value
<1> QED BY <1>1 DEF HasRegisters, SameGain

\* A new chip, and a new chip and the gain it has.
LEMMA ChipKeeps ==
  ASSUME NEW s, DeviceOK(s), NEW chip, HasRegisters(s.dev.tuner_type, chip),
         NEW t, t = [s EXCEPT !.chip = chip]
  PROVE  DeviceOK(t) /\ SameDevice(s, t) /\ t.chip = chip
<1>1. Wf(t) /\ t.dev = s.dev /\ t.demod = s.demod /\ t.chip = chip
  BY DEF DeviceOK, Wf
<1> QED BY <1>1 DEF DeviceOK, RateOK, TunerOK, GainOK, SameDevice

Regained(s, chip, gain) == [s EXCEPT !.chip = chip, !.dev.gain = gain]

LEMMA GainKeeps ==
  ASSUME NEW s, DeviceOK(s), NEW chip, HasRegisters(s.dev.tuner_type, chip), NEW gain,
         s.dev.tuner_type \notin WithGain => gain = 0
  PROVE  LET t == Regained(s, chip, gain)
         IN DeviceOK(t) /\ t.dev.gain = gain /\ t.chip = chip /\ t.dev.tuner_type = s.dev.tuner_type
<1> DEFINE t == Regained(s, chip, gain)
<1>1. /\ t.chip = chip /\ Wf(t) /\ t.demod = s.demod /\ t.dev.tuner_type = s.dev.tuner_type
      /\ t.dev.gain = gain /\ t.dev.rate = s.dev.rate /\ t.dev.rtl_xtal = s.dev.rtl_xtal
      /\ t.dev.tun_xtal = s.dev.tun_xtal /\ t.dev.corr = s.dev.corr
      /\ t.dev.fosc = s.dev.fosc /\ t.dev.on = s.dev.on
      /\ t.dev.direct_sampling = s.dev.direct_sampling
  BY DEF Regained, DeviceOK, Wf, DevFields
<1> HIDE DEF t
<1>2. DeviceOK(t)
  BY <1>1 DEF DeviceOK, RateOK, TunerOK, GainOK, tuner_clock
<1> QED BY <1>1, <1>2 DEF t

-----------------------------------------------------------------------------
(* The steps of the library's user *)

DongleInv == IsOpen => DeviceOK(dongle)

\* What GainReached says of a step that leaves the dongle open.
GainStep ==
  IsOpen /\ IsOpen' =>
    /\ dongle'.dev.gain # dongle.dev.gain => dongle'.dev.gain = chip_gain'
    /\ chip_gain' # chip_gain =>
         dongle'.dev.gain = chip_gain' \/ SetTunerGainMode \/ SetDirectSampling

LEMMA ChipGain ==
  /\ chip_gain = gain_of(dongle.dev.tuner_type, dongle.chip)
  /\ chip_gain' = gain_of(dongle'.dev.tuner_type, dongle'.chip)
BY DEF chip_gain, gain_of, Rafael

LEMMA KeepsIsRight ==
  ASSUME NEW t, dongle' = t, Keeps(dongle, t)
  PROVE  DongleInv' /\ GainStep
<1>1. gain_of(t.dev.tuner_type, t.chip) = gain_of(dongle.dev.tuner_type, dongle.chip)
  BY GainOfSame DEF Keeps, SameDevice
<1> QED BY <1>1, ChipGain DEF Keeps, DongleInv, GainStep, SameDevice

\* Tuning: TuningIsQuiet.
LEMMA SetCenterFreqStep == ASSUME DongleInv, SetCenterFreq PROVE DongleInv' /\ GainStep
<1>1. PICK freq \in Frequencies : Call(set_center_freq(dongle, freq).s)
  BY DEF SetCenterFreq
<1>2. DeviceOK(dongle)
  BY <1>1 DEF Call, DongleInv
<1>3. Keeps(dongle, set_center_freq(dongle, freq).s)
  BY <1>2, TuningIsQuiet, QuietKeeps DEF DeviceOK
<1> QED BY <1>1, <1>3, KeepsIsRight DEF Call

LEMMA SetFreqCorrectionStep == ASSUME DongleInv, SetFreqCorrection PROVE DongleInv' /\ GainStep
<1>1. PICK ppm \in Corrections : Call(set_freq_correction(dongle, ppm))
  BY DEF SetFreqCorrection
<1>2. Keeps(dongle, set_freq_correction(dongle, ppm))
  BY <1>1, CorrectionKeeps DEF Call, DongleInv
<1> QED BY <1>1, <1>2, KeepsIsRight DEF Call

LEMMA SetXtalFreqStep == ASSUME DongleInv, SetXtalFreq PROVE DongleInv' /\ GainStep
<1>1. PICK x \in Crystals : Call(set_xtal_freq(dongle, x[1], x[2]))
  BY DEF SetXtalFreq
<1>2. Keeps(dongle, set_xtal_freq(dongle, x[1], x[2]))
  BY <1>1, CrystalsKeep DEF Call, DongleInv
<1> QED BY <1>1, <1>2, KeepsIsRight DEF Call

LEMMA SetSampleRateStep == ASSUME DongleInv, SetSampleRate PROVE DongleInv' /\ GainStep
<1>1. PICK rate \in Rates : Call(set_sample_rate(dongle, rate))
  BY DEF SetSampleRate
<1>2. Keeps(dongle, set_sample_rate(dongle, rate))
  BY <1>1, RateKeeps DEF Call, DongleInv, DeviceOK
<1> QED BY <1>1, <1>2, KeepsIsRight DEF Call

LEMMA SetOffsetTuningStep == ASSUME DongleInv, SetOffsetTuning PROVE DongleInv' /\ GainStep
<1>1. PICK on \in BOOLEAN : Call(set_offset_tuning(dongle, on))
  BY DEF SetOffsetTuning
<1>2. DeviceOK(dongle)
  BY <1>1 DEF Call, DongleInv
<1>3. Keeps(dongle, set_offset_tuning(dongle, on))
  BY <1>2, OffsetIsQuiet, QuietKeeps DEF DeviceOK
<1> QED BY <1>1, <1>3, KeepsIsRight DEF Call

LEMMA SetTunerGainStep == ASSUME DongleInv, SetTunerGain PROVE DongleInv' /\ GainStep
<1>1. PICK gain \in rtlsdr_get_tuner_gains(dongle.dev.tuner_type) :
        LET set == tuner_set_gain(dongle, gain)
        IN Call([dongle EXCEPT !.chip = set.chip, !.dev.gain = IF set.r = 0 THEN gain ELSE 0])
  BY DEF SetTunerGain
<1> DEFINE type == dongle.dev.tuner_type
           chip == tuner_set_gain(dongle, gain).chip
           t == Regained(dongle, chip, gain)
<1>2. DeviceOK(dongle)
  BY <1>1 DEF Call, DongleInv
<1>3. /\ tuner_set_gain(dongle, gain).r = 0 /\ HasRegisters(type, chip)
      /\ gain_of(type, chip) = gain
      /\ type \notin WithGain => gain = 0
  BY <1>2, ListedGain DEF DeviceOK
<1>4. dongle' = t
  BY <1>1, <1>3 DEF Call, Regained
<1> HIDE DEF chip
<1>5. DeviceOK(t) /\ t.dev.gain = gain /\ t.chip = chip /\ t.dev.tuner_type = type
  BY <1>2, <1>3, GainKeeps
<1> HIDE DEF t
<1>6. dongle'.dev.gain = chip_gain'
  BY <1>3, <1>4, <1>5, ChipGain
<1> QED BY <1>4, <1>5, <1>6 DEF DongleInv, GainStep

LEMMA SetTunerGainModeStep == ASSUME DongleInv, SetTunerGainMode PROVE DongleInv' /\ GainStep
<1>1. PICK manual \in BOOLEAN :
        Call([dongle EXCEPT !.chip = tuner_set_gain_mode(dongle, manual).chip])
  BY DEF SetTunerGainMode
<1> DEFINE chip == tuner_set_gain_mode(dongle, manual).chip
           t == [dongle EXCEPT !.chip = chip]
<1>2. DeviceOK(dongle)
  BY <1>1 DEF Call, DongleInv
<1>3. HasRegisters(dongle.dev.tuner_type, chip)
  BY <1>2, GainMode DEF DeviceOK
<1>4. dongle' = t
  BY <1>1 DEF Call
<1> HIDE DEF chip
<1>5. DeviceOK(t) /\ SameDevice(dongle, t)
  BY <1>2, <1>3, ChipKeeps
<1> HIDE DEF t
<1> QED BY <1>4, <1>5 DEF DongleInv, GainStep, SameDevice

LEMMA SetTunerIfGainStep == ASSUME DongleInv, SetTunerIfGain PROVE DongleInv' /\ GainStep
<1>1. PICK gain \in {-3, 2} :
        Call([dongle EXCEPT !.chip = e4k_if_gain_set(dongle.chip, 1, gain).chip])
  BY DEF SetTunerIfGain
<1> DEFINE type == dongle.dev.tuner_type
           chip == e4k_if_gain_set(dongle.chip, 1, gain).chip
           t == [dongle EXCEPT !.chip = chip]
<1>2. DeviceOK(dongle) /\ type = "E4000"
  BY <1>1 DEF Call, DongleInv, SetTunerIfGain
<1>3. HasRegisters(type, chip) /\ SameGain(type, dongle.chip, chip)
  BY <1>2, IfGain DEF DeviceOK, Wf
<1>4. dongle' = t
  BY <1>1 DEF Call
<1> HIDE DEF chip
<1>5. DeviceOK(t) /\ SameDevice(dongle, t) /\ t.chip = chip
  BY <1>2, <1>3, ChipKeeps DEF DeviceOK, Wf
<1> HIDE DEF t
<1>6. Keeps(dongle, t)
  BY <1>3, <1>5 DEF Keeps
<1> QED BY <1>4, <1>6, KeepsIsRight

LEMMA SetDirectSamplingStep == ASSUME DongleInv, SetDirectSampling PROVE DongleInv' /\ GainStep
<1>1. PICK on \in 0..2 : Call(set_direct_sampling(dongle, on).s)
  BY DEF SetDirectSampling
<1>2. DeviceOK(dongle)
  BY <1>1 DEF Call, DongleInv
<1>3. DeviceOK(dongle') /\ SameDevice(dongle, dongle')
  BY <1>1, <1>2, DirectKeeps DEF Call, DeviceOK, TunerOK
<1> QED BY <1>3 DEF DongleInv, GainStep, SameDevice

LEMMA OpenAndCloseStep ==
  ASSUME DongleInv, NEW serial, OpenSerial(serial) \/ CloseDongle
  PROVE  DongleInv' /\ ~(IsOpen /\ IsOpen')
<1>1. CASE OpenSerial(serial)
  BY <1>1, OpenedOK DEF OpenSerial, DongleInv
<1>2. CASE CloseDongle
  BY <1>2 DEF CloseDongle, Closed, DongleInv, IsOpen
<1> QED BY <1>1, <1>2

LEMMA EveryCall ==
  ASSUME DongleInv, [RtlNext]_rtlvars
  PROVE  DongleInv' /\ (RtlNext => GainStep)
<1>1. CASE UNCHANGED rtlvars
  <2>1. DongleInv'
    BY <1>1 DEF rtlvars, DongleInv, IsOpen
  <2>2. GainStep
    BY <1>1, ChipGain DEF rtlvars, GainStep
  <2> QED BY <2>1, <2>2
<1>2. CASE \E serial \in Serials : OpenSerial(serial)
  BY <1>2, OpenAndCloseStep DEF GainStep
<1>3. CASE CloseDongle
  BY <1>3, OpenAndCloseStep DEF GainStep
<1> QED
  BY <1>1, <1>2, <1>3, SetCenterFreqStep, SetFreqCorrectionStep, SetXtalFreqStep,
     SetSampleRateStep, SetTunerGainStep, SetTunerGainModeStep, SetTunerIfGainStep,
     SetDirectSamplingStep, SetOffsetTuningStep
  DEF RtlNext

LEMMA DongleInvHolds == RtlSpec => []DongleInv
<1>1. RtlInit => DongleInv
  BY DEF RtlInit, DongleInv, IsOpen, Closed
<1>2. DongleInv /\ [RtlNext]_rtlvars => DongleInv'
  BY EveryCall
<1> QED BY <1>1, <1>2, PTL DEF RtlSpec

\* The samples come at the reported rate of the corrected clock, whatever rates,
\* crystals and corrections are set, and in whatever order (rtlsdr_set_sample_rate,
\* rtlsdr_set_freq_correction, rtlsdr_set_xtal_freq); but a rate outside of the ranges
\* of the resampler, when a crystal makes one, does not follow the next crystal.
THEOREM RateKept == RtlSpec => []RateCorrected
<1>1. DongleInv => RateCorrected
  BY DEF DongleInv, DeviceOK, RateOK, RateCorrected
<1> QED BY <1>1, DongleInvHolds, PTL

\* Without direct sampling the tuner is on and works with the clock of the crystal and
\* the correction last set, and the demodulator expects what it gives: what the
\* frequency that is received depends on besides the tuner's dividers.  An R82xx
\* listens to the input that its driver remembers (priv->input).
TunerReady ==
  IsOpen /\ dongle.dev.direct_sampling = 0 =>
    /\ dongle.dev.on /\ dongle.dev.fosc = tuner_clock(dongle.dev)
    /\ dongle.demod.zero_if = dongle.demod.quadrature
    /\ Rafael(dongle.dev) => dongle.chip.input = dongle.chip.priv_input

\* The tuner is ready, in whatever order direct sampling is switched and the
\* crystals and the correction are set (rtlsdr_set_direct_sampling).
THEOREM TunerStaysReady == RtlSpec => []TunerReady
<1>1. DongleInv => TunerReady
  BY DEF DongleInv, DeviceOK, TunerOK, TunerReady, Wf, HasRegisters, Rafael
<1> QED BY <1>1, DongleInvHolds, PTL

\* Every gain in the library's list is met exactly, with every tuner, and no call but
\* those that set the gain or its mode, or start the tuner anew, changes it, for all
\* frequencies, rates, corrections and crystals (rtlsdr_set_tuner_gain).
THEOREM GainsMet == RtlSpec => GainReached
<1>1. DongleInv /\ [RtlNext]_rtlvars =>
        [IsOpen /\ IsOpen' =>
           /\ dongle'.dev.gain # dongle.dev.gain => dongle'.dev.gain = chip_gain'
           /\ chip_gain' # chip_gain =>
                dongle'.dev.gain = chip_gain' \/ SetTunerGainMode \/ SetDirectSampling]_rtlvars
  BY EveryCall DEF GainStep
<1> QED BY <1>1, DongleInvHolds, PTL DEF RtlSpec, GainReached
=============================================================================
