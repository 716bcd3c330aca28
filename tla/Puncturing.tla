------------------------------ MODULE Puncturing ------------------------------
(***************************************************************************)
(* Which of the coded bits of a block are transmitted (depuncturer.cc).    *)
(* The mother code has four bits for each bit and for each of the six zeros*)
(* at the end.  They are cut into stretches; in a stretch with puncturing  *)
(* index pi, pi + 8 of every 32 are sent.  A profile gives for each        *)
(* stretch how many are sent (lrange) and its index (lpi), and how many    *)
(* cells at the end carry nothing (padding).                               *)
(***************************************************************************)
EXTENDS Fig, FiniteSets

\* devPI_[pi - 1]: the eight bits that are always sent, and the order in which
\* the others join them.
AlwaysSent == {0, 4, 8, 12, 16, 20, 24, 28}
JoinOrder == <<1, 17, 9, 25, 5, 21, 13, 29, 2, 18, 10, 26, 6, 22, 14, 30,
               3, 19, 11, 27, 7, 23, 15, 31>>
devPI_ == [pi \in 1..24 |-> AlwaysSent \cup {JoinOrder[k] : k \in 1..pi}]

Stretch(lrange, lpi) == [lrange |-> lrange, lpi |-> lpi]

\* A stretch of len blocks of 128 coded bits.
Blocks(len, pi) == Stretch((len * 128 * (pi + 8)) \div 32, pi)
LastBits == Stretch(12, 8)

DePuncturerFICInit(mode) ==
  [stretches |-> <<Stretch(IF mode = 3 THEN 2784 ELSE 2016, 16), Stretch(276, 15), LastBits>>,
   padding |-> 0]

\* Lengths of the four stretches, their indices, and the padding, for each bit
\* rate and protection levels 5, 4, 3, 2, 1.  Rows that are left empty in the
\* code cannot be asked for.
UEPTAB ==
  32 :> <<<<3, 4, 17, 0, 5, 3, 2, 0, 0>>, <<3, 3, 18, 0, 11, 6, 5, 0, 0>>, <<3, 4, 14, 3, 15, 9, 6, 8, 0>>,
           <<3, 4, 14, 3, 22, 13, 8, 13, 0>>, <<3, 5, 13, 3, 24, 17, 12, 17, 4>>>> @@
  48 :> <<<<4, 3, 26, 3, 5, 4, 2, 3, 0>>, <<3, 4, 26, 3, 9, 6, 4, 6, 0>>, <<3, 4, 26, 3, 15, 10, 6, 9, 4>>,
           <<3, 4, 26, 3, 24, 14, 8, 15, 0>>, <<3, 5, 25, 3, 24, 18, 13, 18, 0>>>> @@
  56 :> <<<<6, 10, 23, 3, 5, 4, 2, 3, 0>>, <<6, 10, 23, 3, 9, 6, 4, 5, 0>>, <<6, 12, 21, 3, 16, 7, 6, 9, 0>>,
           <<6, 10, 23, 3, 23, 13, 8, 13, 8>>, <<0, 0, 0, 0, 0, 0, 0, 0, 0>>>> @@
  64 :> <<<<6, 9, 31, 2, 5, 3, 2, 3, 0>>, <<6, 9, 33, 0, 11, 6, 5, 0, 0>>, <<6, 12, 27, 3, 16, 8, 6, 9, 0>>,
           <<6, 10, 29, 3, 23, 13, 8, 13, 8>>, <<6, 11, 28, 3, 24, 18, 12, 18, 4>>>> @@
  80 :> <<<<6, 10, 41, 3, 6, 3, 2, 3, 0>>, <<6, 10, 41, 3, 11, 6, 5, 6, 0>>, <<6, 11, 40, 3, 16, 8, 6, 7, 0>>,
           <<6, 10, 41, 3, 23, 13, 8, 13, 8>>, <<6, 10, 41, 3, 24, 17, 12, 18, 4>>>> @@
  96 :> <<<<7, 9, 53, 3, 5, 4, 2, 4, 0>>, <<7, 10, 52, 3, 9, 6, 4, 6, 0>>, <<6, 12, 51, 3, 16, 9, 6, 10, 4>>,
           <<6, 10, 53, 3, 22, 12, 9, 12, 0>>, <<6, 13, 50, 3, 24, 18, 13, 19, 0>>>> @@
  112 :> <<<<6, 13, 50, 3, 24, 18, 13, 19, 0>>, <<14, 17, 50, 3, 5, 4, 2, 5, 0>>, <<11, 21, 49, 3, 9, 6, 4, 8, 0>>,
           <<11, 23, 47, 3, 16, 8, 6, 9, 0>>, <<0, 0, 0, 0, 0, 0, 0, 0, 0>>>> @@
  128 :> <<<<12, 19, 62, 3, 5, 3, 2, 4, 0>>, <<11, 21, 61, 3, 11, 6, 5, 7, 0>>, <<11, 22, 60, 3, 16, 9, 6, 10, 4>>,
           <<11, 21, 61, 3, 22, 12, 9, 14, 0>>, <<11, 20, 62, 3, 24, 17, 13, 19, 8>>>> @@
  160 :> <<<<11, 19, 87, 3, 5, 4, 2, 4, 0>>, <<11, 23, 83, 3, 11, 6, 5, 9, 0>>, <<11, 24, 82, 3, 16, 8, 6, 11, 0>>,
           <<11, 21, 85, 3, 22, 11, 9, 13, 0>>, <<11, 22, 84, 3, 24, 18, 12, 19, 0>>>> @@
  192 :> <<<<11, 20, 110, 3, 6, 4, 2, 5, 0>>, <<11, 22, 108, 3, 10, 6, 4, 9, 0>>, <<11, 24, 106, 3, 16, 10, 6, 11, 0>>,
           <<11, 20, 110, 3, 22, 13, 9, 13, 8>>, <<11, 21, 109, 3, 24, 20, 13, 24, 0>>>> @@
  224 :> <<<<12, 22, 131, 38, 8, 6, 2, 6, 4>>, <<12, 26, 127, 3, 12, 8, 4, 11, 0>>, <<11, 20, 134, 3, 16, 10, 7, 9, 0>>,
           <<11, 22, 132, 3, 24, 16, 10, 5, 0>>, <<11, 24, 130, 3, 24, 20, 12, 20, 4>>>> @@
  256 :> <<<<11, 24, 154, 3, 6, 5, 2, 5, 0>>, <<11, 24, 154, 3, 12, 9, 5, 10, 4>>, <<11, 27, 151, 3, 16, 10, 7, 10, 0>>,
           <<11, 22, 156, 3, 24, 14, 10, 13, 8>>, <<11, 26, 152, 3, 24, 19, 14, 18, 4>>>> @@
  320 :> <<<<11, 26, 200, 3, 8, 5, 2, 6, 4>>, <<11, 25, 201, 3, 13, 9, 5, 10, 8>>, <<0, 0, 0, 0, 0, 0, 0, 0, 0>>,
           <<11, 26, 200, 3, 24, 17, 9, 17, 0>>, <<0, 0, 0, 0, 0, 0, 0, 0, 0>>>> @@
  384 :> <<<<11, 27, 247, 3, 8, 6, 2, 7, 0>>, <<0, 0, 0, 0, 0, 0, 0, 0, 0>>, <<11, 24, 250, 3, 16, 9, 7, 10, 4>>,
           <<0, 0, 0, 0, 0, 0, 0, 0, 0>>, <<12, 28, 245, 3, 24, 20, 14, 23, 8>>>>

UepProfile(kbps, protection) ==
  LET row == UEPTAB[kbps][6 - protection]
  IN [stretches |-> [q \in 1..5 |-> IF q = 5 THEN LastBits ELSE Blocks(row[q], row[q + 4])],
      padding |-> row[9]]

\* Set B: units of 32 kbit/s.
EepB == [protection \in 0..3 |->
  LET size == <<27, 21, 18, 15>>[protection + 1]
      pi == <<10, 6, 4, 2>>[protection + 1]
  IN [size |-> size, pi |-> pi]]

EepProfileB(sub_ch_size, protection) ==
  LET n == sub_ch_size \div EepB[protection].size
      pi == EepB[protection].pi
  IN [stretches |-> <<Blocks(24 * n - 3, pi), Blocks(3, pi - 1), LastBits>>,
      padding |-> 0, audio_kbps |-> 32 * n]

\* Set A: units of 8 kbit/s.
EepProfileA(sub_ch_size, protection) ==
  LET n == sub_ch_size \div <<12, 8, 6, 4>>[protection + 1]
      long == CASE protection = 0 -> Blocks(6 * n - 3, 24)
                [] protection = 1 -> IF n = 1 THEN Blocks(5, 13) ELSE Blocks(2 * n - 3, 14)
                [] protection = 2 -> Blocks(6 * n - 3, 8)
                [] protection = 3 -> Blocks(4 * n - 3, 3)
      short == CASE protection = 0 -> Blocks(3, 23)
                 [] protection = 1 -> IF n = 1 THEN Blocks(1, 12) ELSE Blocks(4 * n + 3, 13)
                 [] protection = 2 -> Blocks(3, 7)
                 [] protection = 3 -> Blocks(2 * n + 3, 2)
  IN [stretches |-> <<long, short, LastBits>>, padding |-> 0, audio_kbps |-> 8 * n]

\* DePuncturerMSCInit, for the parameters of a station in the list.
DePuncturerMSCInit(form) ==
  IF ~form.IsLong THEN UepProfile(form.audio_kbps, form.protection_level)
  ELSE IF form.ProtectionLevelTypeB THEN EepProfileB(form.sub_ch_size, form.protection_level)
  ELSE EepProfileA(form.sub_ch_size, form.protection_level)

Originals(stretch) == (stretch.lrange * 32) \div (stretch.lpi + 8)

after_depuncturer_total_len(profile) ==
  FoldLeft(LAMBDA sum, stretch : sum + Originals(stretch), 0, profile.stretches)

\* One stretch: the places of the coded bits that were not sent hold 0.
Depunctured(data, from, stretch) ==
  LET sent == devPI_[IF stretch.lpi >= 24 THEN 24 ELSE stretch.lpi]
      before(j) == Cardinality({s \in sent : s < j})
      per == Cardinality(sent)
      rank == [j \in 0..31 |-> before(j)]
  IN [i \in 1..Originals(stretch) |->
        LET j == (i - 1) % 32
        IN IF j \in sent THEN data[from + per * ((i - 1) \div 32) + rank[j] + 1] ELSE 0]

DePuncturerProcess(data, profile) ==
  FoldLeft(LAMBDA done, s : IF s.lrange = 0 THEN done ELSE
             [depunctur |-> done.depunctur \o Depunctured(data, done.used, s),
              used |-> done.used + s.lrange],
           [depunctur |-> << >>, used |-> 0], profile.stretches)
=============================================================================
