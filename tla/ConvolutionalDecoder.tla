------------------------- MODULE ConvolutionalDecoder -------------------------
(***************************************************************************)
(* From a block of received cells to its bits: FICDecoder and MSCDecoder   *)
(* put back the cells that were not sent (DePuncturerProcess), decode each *)
(* CIF of the frame with the Viterbi algorithm (DeViterbiProcess, one step *)
(* per symbol of four cells) and take the energy dispersal off the whole   *)
(* frame.                                                                  *)
(*                                                                         *)
(* A block is a record: its puncturing profile, the cells received for     *)
(* each CIF, and, for the properties only, the bits that were sent.  A     *)
(* cell is the soft value of a coded bit, positive for 0.                  *)
(***************************************************************************)
EXTENDS Puncturing

CONSTANT
  FrameBlocks      \* the blocks that may be received; bound: one whose bits are
                   \* not given is depunctured only

NTaps_   == 7
NDelays_ == 6
NStates_ == 64
NMemDepth == 5 * NDelays_
gen_ == <<<<1, 0, 1, 1, 0, 1, 1>>, <<1, 1, 1, 1, 0, 0, 1>>,
          <<1, 1, 0, 0, 1, 0, 1>>, <<1, 0, 1, 1, 0, 1, 1>>>>
States == 0..NStates_ - 1

VARIABLES
  block,              \* the block being decoded
  stage,              \* "depuncture", "viterbi", "disperse", "done"
  depunctur_data_,    \* the mother code's cells, of the CIF at hand
  used,               \* cells that were taken from the input
  i,                  \* symbols the Viterbi decoder has seen
  accMetricBuff_,     \* both halves, and what is behind them in memory
  pathBuff_,          \* survivors of the last NMemDepth symbols
  pLast, mWrite,
  output,             \* bits decided for this CIF
  binary_data_,       \* bits of the CIFs before
  energ_disp_out_

viterbi == <<i, accMetricBuff_, pathBuff_, pLast, mWrite, output>>
vars == <<block, stage, depunctur_data_, used, viterbi, binary_data_, energ_disp_out_>>

-----------------------------------------------------------------------------
(* The tables of DeViterbiInit *)

Bit(s, k) == (s \div 2^k) % 2

\* The states from which s may be reached.
inStat1_ == [s \in States |-> 2 * (s % (NStates_ \div 2))]
inStat2_ == [s \in States |-> 2 * (s % (NStates_ \div 2)) + 1]

\* The coded bits, as +1 and -1, on the way from state `from' into state s.
Expected(from, s) ==
  LET register == <<s \div (NStates_ \div 2)>> \o [x \in 1..NDelays_ |-> Bit(from, NDelays_ - x)]
  IN [k \in 1..4 |->
        1 - 2 * (Cardinality({x \in 1..NTaps_ : register[x] * gen_[k][x] = 1}) % 2)]
refOut1_ == [s \in States |-> Expected(inStat1_[s], s)]
refOut2_ == [s \in States |-> Expected(inStat2_[s], s)]

-----------------------------------------------------------------------------
(* Depuncturing *)

Cifs == Len(block.received)
Cif  == Len(binary_data_) \div (after_depuncturer_total_len(block.profile) \div 4 - NDelays_) + 1

Cleared == [k \in 0..127 |-> 0]

DePuncture ==
  /\ stage = "depuncture"
  /\ LET done == DePuncturerProcess(block.received[Cif], block.profile)
         tail == SubSeq(done.depunctur, Len(done.depunctur) - 3, Len(done.depunctur))
     IN /\ depunctur_data_' = done.depunctur
        /\ used' = done.used
        /\ stage' = IF block.bits = << >> THEN "done" ELSE "viterbi"
        /\ accMetricBuff_' = Cleared
  /\ i' = 0 /\ pLast' = NMemDepth - 1 /\ mWrite' = NStates_
  /\ output' = << >>
  /\ UNCHANGED <<block, pathBuff_, binary_data_, energ_disp_out_>>

-----------------------------------------------------------------------------
(* Viterbi *)

Ny4 == Len(depunctur_data_) \div 4

\* Behind the last symbol it is repeated (zeroTail_).
Symbol == LET n == IF i < Ny4 THEN i ELSE Ny4 - 1
          IN SubSeq(depunctur_data_, 4 * n + 1, 4 * n + 4)

mRead == NStates_ - mWrite

Correlation(y) == [r \in {1, -1} \X {1, -1} \X {1, -1} \X {1, -1} |->
                     y[1] * r[1] + y[2] * r[2] + y[3] * r[3] + y[4] * r[4]]

\* For each state the better of the two ways into it: <<metric, state before>>.
Survivors ==
  LET match == Correlation(Symbol)
  IN [s \in States |->
        LET Value1 == accMetricBuff_[mRead + inStat1_[s]] + match[refOut1_[s]]
            Value2 == accMetricBuff_[mRead + inStat2_[s]] + match[refOut2_[s]]
        IN IF Value1 > Value2 THEN <<Value1, inStat1_[s]>> ELSE <<Value2, inStat2_[s]>>]

\* The search for the best state compares each state by the value of the one
\* before it, and it reads the half with the metrics of the symbol before or, when
\* that is the lower half, whatever lies behind the buffer.
BestOf(m) ==
  LET seen(s) == m[IF s = 0 THEN 0 ELSE s - 1]
      top == Max({seen(s) : s \in States})
  IN Min({s \in States : seen(s) = top})
StartStates ==
  IF mWrite = 0 THEN {BestOf([s \in States |-> accMetricBuff_[NStates_ + s]])} ELSE States

\* Faulty variant: the ring of survivors is not followed across its start.
TraceBackUnwrapped(path) ==
  LET at[p \in 0..NMemDepth] ==
        IF p = 0 THEN StartStates
        ELSE LET then == path[IF pLast < p - 1 THEN 0 ELSE pLast - (p - 1)]
             IN {then[s] : s \in at[p - 1]}
  IN at[NMemDepth]

\* The states NMemDepth symbols ago from which the one now may have been reached.
TraceBack(path) ==
  LET at[p \in 0..NMemDepth] ==
        IF p = 0 THEN StartStates
        ELSE LET then == path[(pLast + NMemDepth - (p - 1)) % NMemDepth]
             IN {then[s] : s \in at[p - 1]}
  IN at[NMemDepth]

Decision(path) == {IF Pos > NStates_ \div 2 - 1 THEN 1 ELSE 0 : Pos \in TraceBack(path)}

\* The bits of the output's whole bytes.
Ny4_8 == 8 * (Ny4 \div 8)

ViterbiStep ==
  /\ stage = "viterbi"
  /\ LET best == Survivors
         path == [pathBuff_ EXCEPT ![pLast] = [s \in States |-> best[s][2]]]
     IN /\ accMetricBuff_' = [k \in 0..127 |->
                                IF k \div NStates_ = mWrite \div NStates_
                                THEN best[k % NStates_][1] ELSE accMetricBuff_[k]]
        /\ pathBuff_' = path
        /\ IF i > NMemDepth - 1
           THEN \E bit \in Decision(path) : output' = Append(output, bit)
           ELSE UNCHANGED output
  /\ i' = i + 1
  /\ pLast' = (pLast + 1) % NMemDepth
  /\ mWrite' = NStates_ - mWrite
  /\ IF Len(output') = Ny4_8
     THEN /\ binary_data_' = binary_data_ \o output'
          /\ stage' = IF Cif = Cifs THEN "disperse" ELSE "depuncture"
     ELSE UNCHANGED <<binary_data_, stage>>
  /\ UNCHANGED <<block, depunctur_data_, used, energ_disp_out_>>

-----------------------------------------------------------------------------
(* Energy dispersal *)

\* EnergyDispersalInit: a register of nine bits, all of them 1 at first; its
\* bits 4 and 0 make the next one, which enters at the top.  A byte at a time.
NextBit(v) == (Bit(v, 4) + Bit(v, 0)) % 2
Shift(v) == (v \div 2) + 256 * NextBit(v)
Byte(v) ==
  LET register[k \in 0..8] == IF k = 0 THEN v ELSE Shift(register[k - 1])
  IN [bits |-> [k \in 1..8 |-> NextBit(register[k - 1])], vector |-> register[8]]
Bytes == [v \in 0..511 |-> Byte(v)]

energy_gen_data(n) ==
  LET made[k \in 0..n \div 8] ==
        IF k = 0 THEN [table |-> << >>, vector |-> 511]
        ELSE LET before == made[k - 1]
                 next == Bytes[before.vector]
             IN [table |-> before.table \o next.bits, vector |-> next.vector]
  IN made[n \div 8].table

\* EnergyDispersalProcess: the sequence starts again with each CIF.
EnergyDispersalProcess(data, size) ==
  LET gen == energy_gen_data(size)
  IN [k \in DOMAIN data |-> (data[k] + gen[((k - 1) % size) + 1]) % 2]

Disperse ==
  /\ stage = "disperse"
  /\ energ_disp_out_' = EnergyDispersalProcess(binary_data_, Len(binary_data_) \div Cifs)
  /\ stage' = "done"
  /\ UNCHANGED <<block, depunctur_data_, used, viterbi, binary_data_>>

-----------------------------------------------------------------------------
Init ==
  /\ block \in FrameBlocks
  /\ stage = "depuncture"
  /\ depunctur_data_ = << >> /\ used = 0
  /\ i = 0 /\ pLast = NMemDepth - 1 /\ mWrite = NStates_ /\ output = << >>
  /\ accMetricBuff_ = Cleared
  /\ pathBuff_ = [p \in 0..NMemDepth - 1 |-> [s \in States |-> 0]]
  /\ binary_data_ = << >> /\ energ_disp_out_ = << >>

Next == DePuncture \/ ViterbiStep \/ Disperse

Spec == Init /\ [][Next]_vars

-----------------------------------------------------------------------------
(* Properties *)

\* Every bit that the trace back decides on is the one that was sent, whatever
\* lies in the memory the search for its start reads, and in the end the block
\* is the one that was sent: the depuncturer, the decoder and the energy
\* dispersal undo exactly what EN 300 401 has the transmitter do.
DecodedAsSent ==
  /\ stage \in {"viterbi", "disperse"} =>
       IsPrefix(binary_data_ \o (IF stage = "viterbi" THEN output ELSE << >>), block.coded)
  /\ (stage = "done" /\ energ_disp_out_ # << >>) => energ_disp_out_ = block.bits

\* A CIF's stretches and padding fill the capacity units of its sub-channel to
\* the last cell, and make the coded bits of its bit rate.
FillsSubChannel ==
  (stage \in {"viterbi", "done"} /\ depunctur_data_ # << >>) =>
    /\ used + block.profile.padding = block.cells
    /\ Len(depunctur_data_) = 4 * (block.bits_per_cif + NDelays_)

\* Sizes and bits: each block is decoded as it was sent, from exactly its cells
\* (DePuncturerProcess, DeViterbiProcess, EnergyDispersalProcess).
BlockDecoded == FillsSubChannel /\ DecodedAsSent
=============================================================================
