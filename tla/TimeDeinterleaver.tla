------------------------- MODULE TimeDeinterleaver -------------------------
(***************************************************************************)
(* The window of demodulated frames that the data decoder works on         *)
(* (data_decoder.cc, demod_decod_buffer_ of the scheduler) and the time    *)
(* deinterleaver that rearranges it in place, frame after frame.           *)
(*                                                                         *)
(* A frame carries number_of_cif CIFs.  Bit i of a CIF is delayed by the   *)
(* transmitter by Delay(i % 16) CIFs, so only the class i % 16 of a bit    *)
(* matters.  The k-th CIF the demodulator delivers is numbered k; data says *)
(* for a place of the window and a class which CIF its bits came in.       *)
(* Places 0 .. 15 are CIFs that wait for their late bits, the newest frame *)
(* of the window is at place 16, frames beyond are being demodulated while *)
(* the decoder runs.                                                       *)
(***************************************************************************)
EXTENDS DabFrame

CONSTANTS
  Ahead,          \* bound: frames the demodulator may be ahead
  MaxFrames,      \* bound: frames in one behaviour
  Zero            \* what an unwritten bit holds

ASSUME BoundsAssumption == Ahead \in Nat /\ MaxFrames \in Nat
ASSUME ZeroAssumption == Zero \notin Int

VARIABLES
  data,              \* place -> class -> the CIF its bits came in
  demodulated,       \* frames the demodulator has delivered
  decoded,           \* frames the decoder has finished and slid away
  stage,             \* "idle", "deinterleave", "report"
  CIF_count,         \* CIFs of the newest frame already distributed
  number_dab_frame,  \* frames seen, until there are enough
  handed             \* the CIFs given to the convolutional decoder

vars == <<data, demodulated, decoded, stage, CIF_count, number_dab_frame, handed>>

beg_pos_ == 16
Classes == 0 .. 15
Places == 0 .. beg_pos_ + number_of_cif * (Ahead + 1) - 1

\* Faulty variant of pos_table_: two entries swapped.
pos_table_swapped == [b \in Classes |->
  <<15, 7, 11, 3, 13, 5, 9, 1, 14, 6, 10, 2, 12, 4, 0, 8>>[b + 1]]

pos_table_ == [b \in Classes |->
  <<15, 7, 11, 3, 13, 5, 9, 1, 14, 6, 10, 2, 12, 4, 8, 0>>[b + 1]]

Init == /\ data = [q \in Places |-> [b \in Classes |-> Zero]]
        /\ demodulated = 0
        /\ decoded = 0
        /\ stage = "idle"
        /\ CIF_count = 0
        /\ number_dab_frame = 0
        /\ handed = <<>>

\* The demodulator delivers a frame behind those that are there already.
Place(c) == beg_pos_ + number_of_cif * (demodulated - decoded) + c

Demodulate ==
  /\ demodulated < MaxFrames
  /\ demodulated - decoded <= Ahead
  /\ demodulated' = demodulated + 1
  /\ data' = [q \in Places |->
                IF q >= Place(0) /\ q < Place(number_of_cif)
                THEN [b \in Classes |-> number_of_cif * demodulated + (q - Place(0))]
                ELSE data[q]]
  /\ UNCHANGED <<decoded, stage, CIF_count, number_dab_frame, handed>>

\* The decoder thread is resumed on a window whose newest frame is there.
Process ==
  /\ stage = "idle"
  /\ demodulated > decoded
  /\ stage' = "deinterleave"
  /\ CIF_count' = 0
  /\ number_dab_frame' = IF number_dab_frame * number_of_cif <= 16
                         THEN number_dab_frame + 1 ELSE number_dab_frame
  /\ UNCHANGED <<data, demodulated, decoded, handed>>

\* One round of the loop over the CIFs of the newest frame: each bit is copied
\* to the CIF that it was delayed from, in place.
TimeDeInterleaver ==
  /\ stage = "deinterleave"
  /\ CIF_count < number_of_cif
  /\ data' = [q \in Places |-> [b \in Classes |->
                IF q = pos_table_[b] + CIF_count
                THEN data[beg_pos_ + CIF_count][b] ELSE data[q][b]]]
  /\ CIF_count' = CIF_count + 1
  /\ UNCHANGED <<demodulated, decoded, stage, number_dab_frame, handed>>

Enough == number_dab_frame * number_of_cif > 16

\* The oldest frame of the window goes to the convolutional decoder.
MSCDecoder ==
  /\ stage = "deinterleave"
  /\ CIF_count = number_of_cif
  /\ handed' = IF Enough THEN [c \in 1 .. number_of_cif |-> data[c - 1]] ELSE <<>>
  /\ stage' = "report"
  /\ UNCHANGED <<data, demodulated, decoded, CIF_count, number_dab_frame>>

\* The scheduler answers the report: the window moves on by one frame.
Slide ==
  /\ stage = "report"
  /\ stage' = "idle"
  /\ decoded' = decoded + 1
  /\ CIF_count' = 0
  /\ data' = [q \in Places |-> IF q + number_of_cif \in Places
                               THEN data[q + number_of_cif] ELSE data[q]]
  /\ UNCHANGED <<demodulated, number_dab_frame, handed>>

Next == Demodulate \/ Process \/ TimeDeInterleaver \/ MSCDecoder \/ Slide

Spec == Init /\ [][Next]_vars

-----------------------------------------------------------------------------
(* Properties *)

\* By how many CIFs the transmitter delays the bits of class b: the four bits
\* of b in reverse order (ETSI EN 300 401, time interleaving).
Delay(b) == 8 * (b % 2) + 4 * ((b \div 2) % 2) + 2 * ((b \div 4) % 2) + b \div 8

Cifs == Int \cup {Zero}

TypeOK == /\ data \in [Places -> [Classes -> Cifs]]
          /\ demodulated \in 0 .. MaxFrames
          /\ decoded \in 0 .. demodulated
          /\ demodulated - decoded <= Ahead + 1
          /\ stage \in {"idle", "deinterleave", "report"}
          /\ CIF_count \in 0 .. number_of_cif
          /\ number_dab_frame \in Nat

\* Every CIF that reaches the convolutional decoder is one CIF of the
\* transmitter: its bits of class b came in exactly Delay(b) CIFs after those
\* that were not delayed, none is missing, and the CIFs of a frame follow one
\* another (TimeDeInterleaver works in place, data_decoder.cc:370-432).
WholeCifs ==
  stage = "report" /\ handed # <<>>
    => \A c \in 1 .. number_of_cif, b \in Classes :
         handed[c][b] = number_of_cif * decoded + c - 16 + Delay(b)

\* No bit of the frame that is being distributed, or that is demodulated
\* meanwhile, is lost before its turn: a place at or behind the CIF in turn
\* still holds the frames as they were delivered (data_decoder.cc:428-432).
NotYetMovedIntact ==
  \A q \in Places, b \in Classes :
    q >= beg_pos_ + CIF_count /\ q < Place(0)
      => data[q][b] = number_of_cif * decoded + q - beg_pos_
=============================================================================
