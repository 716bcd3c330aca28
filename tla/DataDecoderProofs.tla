------------------------- MODULE DataDecoderProofs -------------------------
(***************************************************************************)
(* The data decoder, in every mode.                                        *)
(*                                                                         *)
(* The time deinterleaver is right for any number of frames and however    *)
(* far the demodulator is ahead: working in place, it hands on exactly the *)
(* CIFs of the transmitter.                                                *)
(*                                                                         *)
(* For every frame and buffer size and any noise, the superframe buffer is *)
(* never overrun, holds the last CIFs in order, no CIF is part of two      *)
(* superframes, and none is missed but for noise.                          *)
(***************************************************************************)
EXTENDS TimeDeinterleaver, SuperFrame, TLAPS

-----------------------------------------------------------------------------
(* The time deinterleaver *)


\* The CIF counted from the first one delivered; before it there was nothing.
Arrived(n) == IF n >= 0 THEN n ELSE Zero

\* Below the place in turn, a class holds the bits of the CIF that belongs
\* there: the one delivered Delay = 15 - pos_table_ CIFs after it.
Sorted ==
  \A q \in Places, b \in Classes :
    q < pos_table_[b] + CIF_count
      => data[q][b] = Arrived(number_of_cif * decoded + q - pos_table_[b])

\* Where the decoder is in its frame.
Progress ==
  /\ stage = "idle" => CIF_count = 0
  /\ stage = "report" => CIF_count = number_of_cif
  /\ stage # "idle" => decoded < demodulated
  /\ number_dab_frame <= IF stage = "idle" THEN decoded ELSE decoded + 1

IInv == TypeOK /\ Progress /\ NotYetMovedIntact /\ Sorted /\ WholeCifs

\* The table of the code undoes the delays of the standard.
LEMMA TableUndoesDelay ==
  \A b \in Classes : pos_table_[b] \in 0 .. 15 /\ Delay(b) \in 0 .. 15
                     /\ pos_table_[b] = 15 - Delay(b)
<1> SUFFICES ASSUME NEW b \in Classes
             PROVE  pos_table_[b] \in 0 .. 15 /\ Delay(b) \in 0 .. 15
                    /\ pos_table_[b] = 15 - Delay(b)
  OBVIOUS
<1>1. CASE b \in 0 .. 3
  BY <1>1 DEF pos_table_, Delay, Classes
<1>2. CASE b \in 4 .. 7
  BY <1>2 DEF pos_table_, Delay, Classes
<1>3. CASE b \in 8 .. 11
  BY <1>3 DEF pos_table_, Delay, Classes
<1>4. CASE b \in 12 .. 15
  BY <1>4 DEF pos_table_, Delay, Classes
<1> QED BY <1>1, <1>2, <1>3, <1>4 DEF Classes

\* The places of the delivered frames, without products.
LEMMA Numbers ==
  ASSUME TypeOK
  PROVE  /\ number_of_cif * decoded \in Nat
         /\ number_of_cif * demodulated
              = number_of_cif * decoded + Place(0) - beg_pos_
         /\ Place(0) \in Int /\ Place(0) >= beg_pos_
         /\ Place(number_of_cif) = Place(0) + number_of_cif
         /\ decoded < demodulated => Place(0) >= beg_pos_ + number_of_cif
         /\ Places \subseteq Nat
         /\ \A q \in Nat : q < Place(0) => q \in Places
         /\ 0 .. beg_pos_ + number_of_cif - 1 \subseteq Places
<1>1. CASE number_of_cif = 1
  BY <1>1, BoundsAssumption DEF TypeOK, Place, Places, beg_pos_
<1>2. CASE number_of_cif = 2
  BY <1>2, BoundsAssumption DEF TypeOK, Place, Places, beg_pos_
<1>3. CASE number_of_cif = 4
  BY <1>3, BoundsAssumption DEF TypeOK, Place, Places, beg_pos_
<1> QED BY <1>1, <1>2, <1>3, CifAssumption

\* Before the first frame, the window holds nothing and nothing is expected.
LEMMA InitIInv == Init => IInv
<1> SUFFICES ASSUME Init PROVE IInv
  OBVIOUS
<1> USE CifAssumption, BoundsAssumption
<1>1. TypeOK
  BY DEF Init, TypeOK, Cifs
<1>2. Progress /\ WholeCifs
  BY DEF Init, Progress, WholeCifs
<1>3. NotYetMovedIntact
  BY DEF Init, NotYetMovedIntact, Place, beg_pos_, Places
<1>4. Sorted
  <2> SUFFICES ASSUME NEW q \in Places, NEW b \in Classes, q < pos_table_[b]
               PROVE  data[q][b]
                        = Arrived(number_of_cif * decoded + q - pos_table_[b])
    BY TableUndoesDelay DEF Init, Sorted
  <2>1. data[q][b] = Zero /\ number_of_cif * decoded = 0
    BY DEF Init
  <2>2. q \in Int /\ pos_table_[b] \in Int
    BY <1>1, Numbers, TableUndoesDelay
  <2> QED BY <2>1, <2>2 DEF Arrived
<1> QED BY <1>1, <1>2, <1>3, <1>4 DEF IInv

\* A delivered frame lies behind the window's places in turn, inside the buffer.
LEMMA DemodulateKeepsIInv == IInv /\ Demodulate => IInv'
<1> SUFFICES ASSUME IInv, Demodulate PROVE IInv'
  OBVIOUS
<1> USE CifAssumption, BoundsAssumption
<1>1. TypeOK'
  <2>1. data' \in [Places -> [Classes -> Cifs]]
    <3>1. \A q \in Places :
            [b \in Classes |-> number_of_cif * demodulated + (q - Place(0))]
              \in [Classes -> Cifs]
      BY DEF IInv, TypeOK, Places, Place, beg_pos_, Cifs
    <3> QED BY <3>1 DEF IInv, TypeOK, Demodulate
  <2> QED BY <2>1 DEF IInv, TypeOK, Demodulate
<1>2. Progress'
  BY DEF IInv, TypeOK, Progress, Demodulate
<1>3. NotYetMovedIntact'
  <2> SUFFICES ASSUME NEW q \in Places, NEW b \in Classes,
                      q >= beg_pos_ + CIF_count, q < Place(0)'
               PROVE  data'[q][b] = number_of_cif * decoded + q - beg_pos_
    BY DEF NotYetMovedIntact, Demodulate
  <2>1. q \in Int /\ Place(0)' = Place(number_of_cif)
    BY DEF IInv, TypeOK, Demodulate, Place, Places, beg_pos_
  <2>2. CASE q < Place(0)
    <3>1. data'[q] = data[q]
      BY <2>1, <2>2 DEF Demodulate, Place, beg_pos_, IInv, TypeOK
    <3> QED BY <2>2, <3>1 DEF IInv, NotYetMovedIntact
  <2>3. CASE q >= Place(0)
    <3>1. data'[q][b] = number_of_cif * demodulated + (q - Place(0))
      BY <2>1, <2>3 DEF Demodulate
    <3> QED BY <2>1, <3>1 DEF IInv, TypeOK, Place, beg_pos_
  <2> QED BY <2>1, <2>2, <2>3 DEF IInv, TypeOK, Place, beg_pos_
<1>4. Sorted'
  <2> SUFFICES ASSUME NEW q \in Places, NEW b \in Classes,
                      q < pos_table_[b] + CIF_count
               PROVE  data'[q][b]
                        = Arrived(number_of_cif * decoded + q - pos_table_[b])
    BY DEF Sorted, Demodulate
  <2>1. /\ q \in Int /\ Place(0) \in Int /\ Place(0) >= 16
        /\ decoded < demodulated => Place(0) >= 16 + number_of_cif
    BY Numbers DEF IInv, beg_pos_
  <2>2. /\ pos_table_[b] \in 0 .. 15 /\ CIF_count \in 0 .. number_of_cif
        /\ CIF_count = 0 \/ decoded < demodulated
    BY TableUndoesDelay DEF IInv, TypeOK, Progress
  <2>3. q < Place(0)
    BY <2>1, <2>2
  <2>4. data'[q] = data[q]
    BY <2>1, <2>3 DEF Demodulate
  <2> QED BY <2>4 DEF IInv, Sorted
<1>5. WholeCifs'
  BY DEF IInv, WholeCifs, Demodulate
<1> QED BY <1>1, <1>2, <1>3, <1>4, <1>5 DEF IInv

\* A round of the loop moves each bit of one CIF to its place and touches no
\* CIF of the frame that is still to come: the CIFs go in rising order.
LEMMA TimeDeInterleaverKeepsIInv == IInv /\ TimeDeInterleaver => IInv'
<1> SUFFICES ASSUME IInv, TimeDeInterleaver PROVE IInv'
  OBVIOUS
<1> USE CifAssumption, BoundsAssumption
<1>0. /\ CIF_count' = CIF_count + 1
      /\ number_of_cif * decoded \in Nat /\ Places \subseteq Nat
      /\ Place(0) \in Int /\ Place(0) >= beg_pos_ + number_of_cif
      /\ CIF_count \in 0 .. number_of_cif - 1
      /\ 0 .. beg_pos_ + number_of_cif - 1 \subseteq Places
  BY Numbers DEF IInv, TypeOK, Progress, TimeDeInterleaver
<1>1. beg_pos_ + CIF_count \in Places
  BY <1>0 DEF beg_pos_
<1>2. TypeOK'
  <2>1. data' \in [Places -> [Classes -> Cifs]]
    BY <1>1 DEF IInv, TypeOK, TimeDeInterleaver
  <2> QED BY <2>1 DEF IInv, TypeOK, TimeDeInterleaver
<1>3. Progress'
  BY DEF IInv, TypeOK, Progress, TimeDeInterleaver
<1>4. \A q \in Places, b \in Classes :
        data'[q][b] = IF q = pos_table_[b] + CIF_count
                      THEN data[beg_pos_ + CIF_count][b] ELSE data[q][b]
  BY DEF TimeDeInterleaver
<1>5. decoded < demodulated /\ CIF_count < number_of_cif
  BY DEF IInv, Progress, TimeDeInterleaver
<1>6. NotYetMovedIntact'
  <2> SUFFICES ASSUME NEW q \in Places, NEW b \in Classes,
                      q >= beg_pos_ + CIF_count', q < Place(0)
               PROVE  data'[q][b] = number_of_cif * decoded + q - beg_pos_
    BY DEF NotYetMovedIntact, TimeDeInterleaver, Place
  <2>1. q # pos_table_[b] + CIF_count /\ q >= beg_pos_ + CIF_count
    <3>1. pos_table_[b] \in 0 .. 15
      BY TableUndoesDelay
    <3> QED BY <1>0, <3>1 DEF beg_pos_
  <2> QED BY <1>4, <2>1 DEF IInv, NotYetMovedIntact
<1>7. Sorted'
  <2> SUFFICES ASSUME NEW q \in Places, NEW b \in Classes,
                      q < pos_table_[b] + CIF_count'
               PROVE  data'[q][b]
                        = Arrived(number_of_cif * decoded + q - pos_table_[b])
    BY DEF Sorted, TimeDeInterleaver
  <2>1. q \in Int /\ pos_table_[b] \in Int
    BY <1>0, TableUndoesDelay
  <2>2. CASE q = pos_table_[b] + CIF_count
    <3>1. data'[q][b] = data[beg_pos_ + CIF_count][b]
      BY <1>4, <2>2
    <3>2. beg_pos_ + CIF_count >= beg_pos_ + CIF_count /\ beg_pos_ + CIF_count < Place(0)
      BY <1>0 DEF beg_pos_
    <3>3. data[beg_pos_ + CIF_count][b]
            = number_of_cif * decoded + (beg_pos_ + CIF_count) - beg_pos_
      BY <1>1, <3>2 DEF IInv, NotYetMovedIntact
    <3>4. /\ number_of_cif * decoded + (beg_pos_ + CIF_count) - beg_pos_
               = number_of_cif * decoded + q - pos_table_[b]
          /\ number_of_cif * decoded + q - pos_table_[b] >= 0
      BY <1>0, <2>1, <2>2 DEF beg_pos_
    <3> QED BY <3>1, <3>3, <3>4 DEF Arrived
  <2>3. CASE q # pos_table_[b] + CIF_count
    <3>1. q < pos_table_[b] + CIF_count
      BY <1>0, <2>1, <2>3
    <3> QED BY <1>4, <2>3, <3>1 DEF IInv, Sorted
  <2> QED BY <2>2, <2>3
<1>8. WholeCifs'
  BY DEF WholeCifs, TimeDeInterleaver
<1> QED BY <1>2, <1>3, <1>6, <1>7, <1>8 DEF IInv

\* With enough frames, the oldest frame of the window is complete when it is
\* handed on.
LEMMA MSCDecoderKeepsIInv == IInv /\ MSCDecoder => IInv'
<1> SUFFICES ASSUME IInv, MSCDecoder PROVE IInv'
  OBVIOUS
<1> USE CifAssumption, BoundsAssumption
<1>1. TypeOK' /\ Progress' /\ NotYetMovedIntact' /\ Sorted'
  BY DEF IInv, TypeOK, Progress, NotYetMovedIntact, Sorted, MSCDecoder, Place, Enough
<1>2. WholeCifs'
  <2> SUFFICES ASSUME handed' # <<>>, NEW c \in 1 .. number_of_cif, NEW b \in Classes
               PROVE  handed'[c][b] = number_of_cif * decoded + c - 16 + Delay(b)
    BY DEF WholeCifs, MSCDecoder
  <2>1. Enough /\ handed' = [k \in 1 .. number_of_cif |-> data[k - 1]]
    BY DEF MSCDecoder
  <2>2. number_of_cif * decoded >= 15
    <3>1. number_dab_frame <= decoded + 1 /\ number_dab_frame \in Nat /\ decoded \in Nat
      BY DEF IInv, TypeOK, Progress, MSCDecoder
    <3>2. number_dab_frame * number_of_cif > 16
      BY <2>1 DEF Enough
    <3>3. CASE number_of_cif = 1
      BY <3>1, <3>2, <3>3
    <3>4. CASE number_of_cif = 2
      BY <3>1, <3>2, <3>4
    <3>5. CASE number_of_cif = 4
      BY <3>1, <3>2, <3>5
    <3> QED BY <3>3, <3>4, <3>5
  <2>3. c - 1 \in Places /\ c - 1 < pos_table_[b] + CIF_count
    <3>1. pos_table_[b] \in 0 .. 15 /\ CIF_count = number_of_cif
      BY TableUndoesDelay DEF MSCDecoder
    <3>2. 0 .. beg_pos_ + number_of_cif - 1 \subseteq Places
      BY Numbers DEF IInv
    <3> QED BY <3>1, <3>2 DEF beg_pos_
  <2>4. data[c - 1][b] = Arrived(number_of_cif * decoded + (c - 1) - pos_table_[b])
    BY <2>3 DEF IInv, Sorted
  <2>5. /\ number_of_cif * decoded \in Int
        /\ pos_table_[b] = 15 - Delay(b) /\ pos_table_[b] \in 0 .. 15
        /\ Delay(b) \in Int
    BY TableUndoesDelay, Numbers DEF IInv
  <2>6. number_of_cif * decoded + (c - 1) - pos_table_[b]
          = number_of_cif * decoded + c - 16 + Delay(b)
    BY <2>5
  <2>7. number_of_cif * decoded + (c - 1) - pos_table_[b] >= 0
    BY <2>2, <2>5
  <2>8. handed'[c][b] = data[c - 1][b]
    BY <2>1
  <2> QED BY <2>4, <2>6, <2>7, <2>8 DEF Arrived
<1> QED BY <1>1, <1>2 DEF IInv

\* Sliding the window by a frame renumbers the places and moves no bit.
LEMMA SlideKeepsIInv == IInv /\ Slide => IInv'
<1> SUFFICES ASSUME IInv, Slide PROVE IInv'
  OBVIOUS
<1> USE CifAssumption, BoundsAssumption
<1>1. TypeOK'
  <2>1. data' \in [Places -> [Classes -> Cifs]]
    BY DEF IInv, TypeOK, Slide
  <2> QED BY <2>1 DEF IInv, TypeOK, Progress, Slide
<1>2. Progress'
  BY DEF IInv, TypeOK, Progress, Slide
<1>3. decoded \in Nat /\ demodulated \in Nat /\ CIF_count = number_of_cif
  BY DEF IInv, TypeOK, Progress, Slide
<1>4. /\ number_of_cif * decoded' = number_of_cif * decoded + number_of_cif
      /\ number_of_cif * decoded \in Int
  BY <1>3, Numbers DEF Slide, IInv
<1>5. NotYetMovedIntact'
  <2> SUFFICES ASSUME NEW q \in Places, NEW b \in Classes,
                      q >= beg_pos_, q < Place(0)'
               PROVE  data'[q][b] = number_of_cif * decoded' + q - beg_pos_
    BY <1>3 DEF NotYetMovedIntact, Slide, Places, beg_pos_
  <2>1. q \in Nat /\ q + number_of_cif < Place(0)
    <3>1. q \in Nat
      BY Numbers DEF IInv
    <3>2. Place(0)' + number_of_cif = Place(0)
      <4>1. CASE number_of_cif = 1
        BY <1>3, <4>1 DEF Place, Slide, beg_pos_
      <4>2. CASE number_of_cif = 2
        BY <1>3, <4>2 DEF Place, Slide, beg_pos_
      <4>3. CASE number_of_cif = 4
        BY <1>3, <4>3 DEF Place, Slide, beg_pos_
      <4> QED BY <4>1, <4>2, <4>3
    <3>3. Place(0) \in Int /\ Place(0)' \in Int
      BY <1>3, Numbers DEF IInv, Place, Slide, beg_pos_
    <3> QED BY <3>1, <3>2, <3>3
  <2>2. q + number_of_cif \in Places
    BY <2>1, Numbers DEF IInv
  <2>3. data'[q][b] = data[q + number_of_cif][b]
    BY <2>2 DEF Slide
  <2>4. data[q + number_of_cif][b]
          = number_of_cif * decoded + (q + number_of_cif) - beg_pos_
    BY <1>3, <2>1, <2>2 DEF IInv, NotYetMovedIntact, beg_pos_
  <2> QED BY <1>3, <1>4, <2>1, <2>3, <2>4 DEF beg_pos_
<1>6. Sorted'
  <2> SUFFICES ASSUME NEW q \in Places, NEW b \in Classes, q < pos_table_[b]
               PROVE  data'[q][b]
                        = Arrived(number_of_cif * decoded' + q - pos_table_[b])
    BY TableUndoesDelay DEF Sorted, Slide, Classes
  <2>1. q \in Int /\ pos_table_[b] \in 0 .. 15
    BY TableUndoesDelay DEF Places, Classes, beg_pos_
  <2>2. q + number_of_cif \in Places
    BY <2>1 DEF Places, beg_pos_
  <2>3. data'[q][b] = data[q + number_of_cif][b]
    BY <2>2 DEF Slide
  <2>4. data[q + number_of_cif][b]
          = Arrived(number_of_cif * decoded + (q + number_of_cif) - pos_table_[b])
    BY <1>3, <2>1, <2>2 DEF IInv, Sorted
  <2>5. number_of_cif * decoded + (q + number_of_cif) - pos_table_[b]
          = number_of_cif * decoded' + q - pos_table_[b]
    <3> HIDE DEF Slide
    <3>1. \A x, y \in Int : /\ x = number_of_cif * decoded
                            /\ y = number_of_cif * decoded'
                            => x + (q + number_of_cif) - pos_table_[b]
                                 = y + q - pos_table_[b]
      BY <1>4, <2>1
    <3> QED BY <1>4, <3>1
  <2> QED BY <2>3, <2>4, <2>5
<1>7. WholeCifs'
  BY DEF WholeCifs, Slide
<1> QED BY <1>1, <1>2, <1>5, <1>6, <1>7 DEF IInv

\* IInv is inductive.
THEOREM Invariance == Spec => []IInv
<1>1. IInv /\ [Next]_vars => IInv'
  <2> SUFFICES ASSUME IInv, [Next]_vars PROVE IInv'
    OBVIOUS
  <2>1. CASE Demodulate
    BY <2>1, DemodulateKeepsIInv
  <2>2. CASE Process
    BY <2>2, CifAssumption DEF Process, IInv, TypeOK, Progress, NotYetMovedIntact,
                               Sorted, WholeCifs, Place
  <2>3. CASE TimeDeInterleaver
    BY <2>3, TimeDeInterleaverKeepsIInv
  <2>4. CASE MSCDecoder
    BY <2>4, MSCDecoderKeepsIInv
  <2>5. CASE Slide
    BY <2>5, SlideKeepsIInv
  <2>6. CASE UNCHANGED vars
    BY <2>6 DEF vars, IInv, TypeOK, Progress, NotYetMovedIntact, Sorted, WholeCifs, Place
  <2> QED BY <2>1, <2>2, <2>3, <2>4, <2>5, <2>6 DEF Next
<1> QED BY <1>1, InitIInv, PTL DEF Spec

\* Every number, stage and place keeps its type, and the demodulator stays
\* inside the buffer.
THEOREM TypeCorrect == Spec => []TypeOK
<1>1. IInv => TypeOK
  BY DEF IInv
<1> QED BY <1>1, Invariance, PTL

\* The CIFs handed to the convolutional decoder are those of the transmitter.
THEOREM HandsOnWholeCifs == Spec => []WholeCifs
<1>1. IInv => WholeCifs
  BY DEF IInv
<1> QED BY <1>1, Invariance, PTL

\* Deinterleaving in place loses no bit before its turn.
THEOREM InPlaceIsSafe == Spec => []NotYetMovedIntact
<1>1. IInv => NotYetMovedIntact
  BY DEF IInv
<1> QED BY <1>1, Invariance, PTL

-----------------------------------------------------------------------------
(* The superframes *)


\* Everything before the head has been written or passed over: the search goes
\* on behind the last superframe.
SearchBehindLast == received - superframe_cifs_ + adts_head_idx_ >= last + 5

BufferInv == SuperFrameTypeOK /\ FrameFits /\ Consecutive /\ SearchBehindLast

\* With the new frame appended, the buffer still holds CIFs in a row.
LEMMA DataConsecutive ==
  ASSUME BufferInv
  PROVE  /\ cifs \in Nat /\ cifs <= superframe_capacity_
         /\ appended \in [Slots -> Int]
         /\ \A i \in Slots : i < cifs => appended[i] = received - superframe_cifs_ + i
<1> USE CifAssumption, CapacityAssumption
<1>1. cifs \in Nat /\ cifs <= superframe_capacity_
  BY DEF BufferInv, SuperFrameTypeOK, FrameFits, cifs
<1>2. appended \in [Slots -> Int]
  BY DEF BufferInv, SuperFrameTypeOK, appended, Slots
<1>3. ASSUME NEW i \in Slots, i < cifs
      PROVE  appended[i] = received - superframe_cifs_ + i
  <2>1. CASE i < superframe_cifs_
    BY <2>1 DEF BufferInv, SuperFrameTypeOK, Consecutive, appended, Slots
  <2>2. CASE i >= superframe_cifs_
    BY <1>3, <2>2 DEF BufferInv, SuperFrameTypeOK, appended, Slots
  <2> QED BY <2>1, <2>2 DEF BufferInv, SuperFrameTypeOK, Slots
<1> QED BY <1>1, <1>2, <1>3

\* What Receive records of the channel keeps its type.
LEMMA ReceiveTypes ==
  ASSUME BufferInv, NEW spoilt \in SUBSET Incoming, NEW mistaken \in SUBSET Incoming,
         Receive(spoilt, mistaken)
  PROVE  /\ received' = received + number_of_cif /\ received' \in Nat
         /\ phase' \in 0 .. 4 /\ noisy' \subseteq Nat /\ passing' \subseteq Nat
<1>1. Incoming \subseteq Nat
  BY CifAssumption DEF BufferInv, SuperFrameTypeOK, Incoming
<1>2. received' = received + number_of_cif /\ received' \in Nat /\ phase' \in 0 .. 4
  BY CifAssumption DEF BufferInv, SuperFrameTypeOK, Receive
<1>3. noisy' \subseteq Nat
  BY <1>1 DEF BufferInv, SuperFrameTypeOK, Receive
<1>4. passing' \subseteq Nat
  BY <1>1 DEF BufferInv, SuperFrameTypeOK, Receive
<1> QED BY <1>2, <1>3, <1>4

\* An index below a count that leaves room is a place of the buffer.
LEMMA WithinCapacity ==
  \A head, count, more, capacity \in Nat :
    count + more <= capacity /\ head <= count
      => count \in 0 .. capacity /\ head \in 0 .. capacity
OBVIOUS

\* Making room keeps the CIFs from the head on in a row and leaves room.
LEMMA CircshiftKeepsIInv ==
  ASSUME BufferInv, NEW head \in 0 .. cifs, CircshiftBuff(head),
         received' = received + number_of_cif, received' \in Nat,
         phase' \in 0 .. 4, noisy' \subseteq Nat, passing' \subseteq Nat,
         last' \in Int, received - superframe_cifs_ + head >= last' + 5
  PROVE  BufferInv'
<1> DEFINE full == cifs + number_of_cif > superframe_capacity_
           lost == \/ cifs + number_of_cif - head > superframe_capacity_
                   \/ head >= cifs
<1> USE CifAssumption, CapacityAssumption
<1>1. /\ cifs \in Nat /\ cifs <= superframe_capacity_
      /\ superframe_cifs_ \in Nat /\ received \in Nat
      /\ cifs = superframe_cifs_ + number_of_cif
      /\ head \in Nat /\ head <= cifs
      /\ number_of_cif \in Nat /\ superframe_capacity_ \in Nat
  BY DataConsecutive DEF BufferInv, SuperFrameTypeOK, cifs
<1>2. /\ adts_head_idx_' = IF full THEN 0 ELSE head
      /\ superframe_cifs_' = IF ~full THEN cifs ELSE IF lost THEN 0 ELSE cifs - head
  BY DEF CircshiftBuff
<1>3. /\ superframe_cifs_' \in Nat /\ adts_head_idx_' \in Nat
      /\ superframe_cifs_' + number_of_cif <= superframe_capacity_
      /\ adts_head_idx_' <= superframe_cifs_'
  BY <1>1, <1>2
<1>4. superframe_' = [i \in Slots |->
        IF full /\ ~lost /\ i < cifs - head THEN appended[i + head] ELSE appended[i]]
  BY DEF CircshiftBuff
<1>5. superframe_' \in [Slots -> Int]
  <2>1. \A i \in Slots : i < cifs - head => i + head \in Slots
    BY <1>1 DEF Slots
  <2> QED BY <1>4, <2>1, DataConsecutive
<1>6. SuperFrameTypeOK'
  <2>1. /\ superframe_cifs_' \in 0 .. superframe_capacity_
        /\ adts_head_idx_' \in 0 .. superframe_capacity_
    BY <1>1, <1>3, WithinCapacity
  <2>2. /\ received' \in Nat /\ phase' \in 0 .. 4 /\ noisy' \subseteq Nat
        /\ passing' \subseteq Nat /\ last' \in Int
    OBVIOUS
  <2> QED BY <1>5, <2>1, <2>2 DEF SuperFrameTypeOK
<1>7. Consecutive'
  <2> SUFFICES ASSUME NEW i \in Slots, i < superframe_cifs_'
               PROVE  superframe_'[i] = received' - superframe_cifs_' + i
    BY DEF Consecutive
  <2>0. i \in Nat
    BY DEF Slots
  <2>1. CASE ~full
    <3>1. superframe_'[i] = appended[i] /\ i < cifs /\ superframe_cifs_' = cifs
      BY <1>2, <1>4, <2>1
    <3>2. appended[i] = received - superframe_cifs_ + i
      BY <3>1, DataConsecutive
    <3> QED BY <1>1, <2>0, <3>1, <3>2
  <2>2. CASE full /\ lost
    BY <1>2, <2>0, <2>2
  <2>3. CASE full /\ ~lost
    <3>1. superframe_cifs_' = cifs - head
      BY <1>2, <2>3
    <3>2. i + head \in Slots /\ i + head < cifs
      BY <1>1, <2>0, <3>1 DEF Slots
    <3>3. superframe_'[i] = appended[i + head]
      BY <1>4, <2>3, <3>1
    <3>4. appended[i + head] = received - superframe_cifs_ + (i + head)
      BY <3>2, DataConsecutive
    <3> QED BY <1>1, <2>0, <3>1, <3>3, <3>4
  <2> QED BY <2>1, <2>2, <2>3
<1>8. SearchBehindLast'
  <2>1. PICK count \in Nat, first \in Nat, least \in Int :
          superframe_cifs_' = count /\ adts_head_idx_' = first /\ last' = least
    BY <1>3
  <2>2. received - superframe_cifs_ + head >= least + 5
    BY <2>1, Zenon
  <2>3. \/ count = cifs /\ first = head
        \/ count = 0 /\ first = 0
        \/ count = cifs - head /\ first = 0
    BY <1>2, <2>1
  <2>4. (received + number_of_cif) - count + first >= least + 5
    BY <1>1, <2>2, <2>3
  <2> QED BY <2>1, <2>4, Zenon DEF SearchBehindLast
<1> QED BY <1>3, <1>6, <1>7, <1>8 DEF BufferInv, FrameFits

\* So does throwing everything away.
LEMMA RestartKeepsIInv ==
  ASSUME BufferInv, Restart,
         received' = received + number_of_cif, received' \in Nat,
         phase' \in 0 .. 4, noisy' \subseteq Nat, passing' \subseteq Nat,
         last' \in Int, received' >= last' + 5
  PROVE  BufferInv'
<1> USE CifAssumption, CapacityAssumption
<1>1. SuperFrameTypeOK'
  BY DataConsecutive DEF Restart, SuperFrameTypeOK
<1>2. FrameFits' /\ Consecutive'
  BY DEF Restart, FrameFits, Consecutive, Slots
<1>3. SearchBehindLast'
  BY DEF Restart, SearchBehindLast
<1> QED BY <1>1, <1>2, <1>3 DEF BufferInv

\* A CIF written as the first of a superframe lies behind the last superframe.
LEMMA HeaderBehindLast ==
  ASSUME BufferInv, NEW idx \in Slots, Header(idx)
  PROVE  /\ idx \in Nat /\ idx < cifs /\ idx >= adts_head_idx_
         /\ appended[idx] = received - superframe_cifs_ + idx
         /\ appended[idx] >= last + 5
<1>1. idx \in Nat /\ idx < cifs /\ idx >= adts_head_idx_
  BY DataConsecutive DEF Header, Searched, Slots, BufferInv, SuperFrameTypeOK
<1>2. appended[idx] = received - superframe_cifs_ + idx
  BY <1>1, DataConsecutive
<1> QED BY <1>1, <1>2 DEF BufferInv, SuperFrameTypeOK, SearchBehindLast

\* A frame, whatever way it takes through SuperFrameHandle, keeps BufferInv.
LEMMA FrameKeepsIInv ==
  ASSUME BufferInv, AppendAndHandle
  PROVE  BufferInv'
<1> USE CifAssumption, CapacityAssumption
<1>1. PICK spoilt \in SUBSET Incoming, mistaken \in SUBSET Incoming :
        Receive(spoilt, mistaken) /\ SuperFrameHandle
  BY DEF AppendAndHandle
<1>2. /\ received' = received + number_of_cif /\ received' \in Nat
      /\ phase' \in 0 .. 4 /\ noisy' \subseteq Nat /\ passing' \subseteq Nat
  BY <1>1, ReceiveTypes
<1>3. /\ cifs \in Nat /\ cifs = superframe_cifs_ + number_of_cif
      /\ superframe_cifs_ \in Nat /\ adts_head_idx_ \in Nat
      /\ adts_head_idx_ <= superframe_cifs_
      /\ received \in Nat /\ last \in Int
      /\ received - superframe_cifs_ + adts_head_idx_ >= last + 5
  BY DEF BufferInv, SuperFrameTypeOK, FrameFits, SearchBehindLast, cifs
<1>4. CASE NoHeader
  <2>1. last' = last /\ CircshiftBuff(adts_head_idx_) /\ adts_head_idx_ \in 0 .. cifs
    BY <1>3, <1>4 DEF NoHeader
  <2> QED BY <1>2, <1>3, <2>1, CircshiftKeepsIInv
<1>5. ASSUME NEW idx \in Slots, Incomplete(idx)
      PROVE  BufferInv'
  <2>1. last' = last /\ CircshiftBuff(idx) /\ Header(idx)
    BY <1>5 DEF Incomplete
  <2>2. idx \in 0 .. cifs /\ received - superframe_cifs_ + idx >= last' + 5
    BY <1>3, <2>1, HeaderBehindLast
  <2> QED BY <1>2, <1>3, <2>1, <2>2, CircshiftKeepsIInv
<1>6. ASSUME NEW idx \in Slots, BadAddresses(idx)
      PROVE  BufferInv'
  <2>1. last' = last /\ Restart
    BY <1>6 DEF BadAddresses
  <2>2. received' >= last' + 5
    BY <1>2, <1>3, <2>1
  <2> QED BY <1>2, <1>3, <2>1, <2>2, RestartKeepsIInv
<1>7. ASSUME NEW idx \in Slots, Written(idx)
      PROVE  BufferInv'
  <2>1. /\ last' = appended[idx] /\ Header(idx) /\ cifs - idx >= 5
        /\ IF idx + 5 < cifs THEN CircshiftBuff(idx + 5) ELSE Restart
    BY <1>7 DEF Written
  <2>2. /\ idx \in Nat /\ appended[idx] = received - superframe_cifs_ + idx
        /\ appended[idx] >= last + 5
    BY <2>1, HeaderBehindLast
  <2>3. last' \in Int /\ last' >= last + 5
    BY <1>3, <2>1, <2>2
  <2>4. CASE idx + 5 < cifs
    <3>1. /\ idx + 5 \in 0 .. cifs
          /\ received - superframe_cifs_ + (idx + 5) >= last' + 5
      BY <1>3, <2>1, <2>2, <2>4
    <3> QED BY <1>2, <2>1, <2>3, <2>4, <3>1, CircshiftKeepsIInv
  <2>5. CASE ~(idx + 5 < cifs)
    <3>1. received' >= last' + 5
      BY <1>2, <1>3, <2>1, <2>2
    <3> QED BY <1>2, <2>1, <2>3, <2>5, <3>1, RestartKeepsIInv
  <2> QED BY <2>4, <2>5
<1>8. ASSUME NEW idx \in Slots, AllSpoilt(idx)
      PROVE  BufferInv'
  <2>1. /\ last' = last /\ Header(idx)
        /\ IF idx + 5 < cifs THEN CircshiftBuff(idx + 4) ELSE Restart
    BY <1>8 DEF AllSpoilt
  <2>2. idx \in Nat /\ idx >= adts_head_idx_
    BY <2>1, HeaderBehindLast
  <2>3. CASE idx + 5 < cifs
    <3>1. /\ idx + 4 \in 0 .. cifs
          /\ received - superframe_cifs_ + (idx + 4) >= last' + 5
      BY <1>3, <2>1, <2>2, <2>3
    <3> QED BY <1>2, <1>3, <2>1, <2>3, <3>1, CircshiftKeepsIInv
  <2>4. CASE ~(idx + 5 < cifs)
    <3>1. received' >= last' + 5
      BY <1>2, <1>3, <2>1
    <3> QED BY <1>2, <1>3, <2>1, <2>4, <3>1, RestartKeepsIInv
  <2> QED BY <2>3, <2>4
<1> QED
  BY <1>1, <1>4, <1>5, <1>6, <1>7, <1>8 DEF SuperFrameHandle

\* BufferInv is inductive.
THEOREM BufferInvariance == SuperFrameSpec => []BufferInv
<1>1. SuperFrameInit => BufferInv
  BY CifAssumption, CapacityAssumption
     DEF SuperFrameInit, BufferInv, SuperFrameTypeOK, FrameFits, Consecutive, SearchBehindLast, None, Slots
<1>2. BufferInv /\ [AppendAndHandle]_superframe_vars => BufferInv'
  <2> SUFFICES ASSUME BufferInv, [AppendAndHandle]_superframe_vars PROVE BufferInv'
    OBVIOUS
  <2>1. CASE AppendAndHandle
    BY <2>1, FrameKeepsIInv
  <2>2. CASE UNCHANGED superframe_vars
    BY <2>2 DEF superframe_vars, BufferInv, SuperFrameTypeOK, FrameFits, Consecutive, SearchBehindLast
  <2> QED BY <2>1, <2>2
<1> QED BY <1>1, <1>2, PTL DEF SuperFrameSpec

\* Every index and counter keeps its type.
THEOREM SuperFrameTypeCorrect == SuperFrameSpec => []SuperFrameTypeOK
<1>1. BufferInv => SuperFrameTypeOK
  BY DEF BufferInv
<1> QED BY <1>1, BufferInvariance, PTL

\* The next frame always fits, no difference of indices is negative, and the
\* buffer holds the last CIFs in order.
THEOREM BufferCorrect == SuperFrameSpec => []BufferHolds
<1>1. BufferInv => BufferHolds
  BY DEF BufferInv, BufferHolds
<1> QED BY <1>1, BufferInvariance, PTL

\* No CIF is written as part of two superframes.
THEOREM NoneTwice == SuperFrameSpec => WrittenOnce
<1>1. ASSUME BufferInv, NEW idx \in Slots, Written(idx)
      PROVE  appended[idx] >= last + 5
  BY <1>1, HeaderBehindLast DEF Written
<1>2. BufferInv /\ [AppendAndHandle]_superframe_vars
        => [\A idx \in Slots : Written(idx) => appended[idx] >= last + 5]_superframe_vars
  BY <1>1
<1> QED BY <1>2, BufferInvariance, PTL DEF SuperFrameSpec, WrittenOnce

-----------------------------------------------------------------------------
(* No superframe is missed but for noise, whatever noise there was before, as  *)
(* long as a frame fits behind a superframe of which the last CIF is missing.  *)

\* The 16 CIFs of the buffer are twice what this asks for the largest frame.
Roomy == superframe_capacity_ >= number_of_cif + 4

\* The first CIF that has not been searched for a header.
from == received - superframe_cifs_ + adts_head_idx_

\* The CIFs that pass are those that begin a superframe, but for noise.
Channel ==
  /\ noisy \subseteq 0 .. received - 1 /\ passing \subseteq 0 .. received - 1
  /\ \A k \in 0 .. received - 1 : k \notin noisy => (k \in passing <=> Begins(k))

\* A header does not wait: as soon as its superframe is there, it is handled.
Prompt == \A p \in passing : p >= from => received - p < 5

Clean(first, behind) == \A k \in first .. behind - 1 : k \notin noisy

\* Behind a superframe that was written the search goes on with the next one.
InStep ==
  last # None =>
    /\ last \in Nat /\ Begins(last)
    /\ Clean(last + 5, last + 10) => from = last + 5 /\ received < last + 10

\* Seven CIFs after the last noise no header is passed over any more.
NonePassedOver ==
  \A quiet \in Nat, b \in Nat :
    Clean(quiet, received) /\ Begins(b) /\ b >= quiet + 7 => last >= b \/ from <= b

MInv == BufferInv /\ Channel /\ Prompt /\ InStep /\ NonePassedOver

\* What a frame does to the search, in numbers of CIFs.
Unfound(end) == \A k \in from .. end - 1 : k \notin passing'
Found(p, end) == /\ p \in from .. end - 1 /\ p \in passing'
                 /\ \A k \in from .. end - 1 : k < p => k \notin passing'
Spoilt(p) == ~(Begins(p) /\ (p .. p + 4) \cap noisy' = {})

\* Making room moves the search to the head, or forgets everything when even
\* that leaves no room.
LEMMA Shifted ==
  ASSUME BufferInv, NEW head \in 0 .. cifs, CircshiftBuff(head),
         received' = received + number_of_cif
  PROVE  \/ from' = received - superframe_cifs_ + head
         \/ from' = received' /\ cifs + number_of_cif - head > superframe_capacity_
<1>1. /\ superframe_cifs_ \in Nat /\ received \in Nat /\ number_of_cif \in Nat
      /\ cifs = superframe_cifs_ + number_of_cif /\ head \in Nat /\ head <= cifs
      /\ superframe_capacity_ \in Nat
  BY DataConsecutive, CifAssumption, CapacityAssumption DEF BufferInv, SuperFrameTypeOK, cifs
<1>2. CASE ~(cifs + number_of_cif > superframe_capacity_)
  <2>1. adts_head_idx_' = head /\ superframe_cifs_' = cifs
    BY <1>2 DEF CircshiftBuff
  <2> QED BY <1>1, <2>1 DEF from
<1>3. CASE /\ cifs + number_of_cif > superframe_capacity_
           /\ cifs + number_of_cif - head > superframe_capacity_ \/ head >= cifs
  <2>1. adts_head_idx_' = 0 /\ superframe_cifs_' = 0
    BY <1>3 DEF CircshiftBuff
  <2>2. from' = received'
    BY <1>1, <2>1 DEF from
  <2>3. head >= cifs => received' = received - superframe_cifs_ + head
    BY <1>1
  <2> QED BY <1>3, <2>2, <2>3
<1>4. CASE /\ cifs + number_of_cif > superframe_capacity_
           /\ ~(cifs + number_of_cif - head > superframe_capacity_) /\ ~(head >= cifs)
  <2>1. adts_head_idx_' = 0 /\ superframe_cifs_' = cifs - head
    BY <1>4 DEF CircshiftBuff
  <2> QED BY <1>1, <2>1 DEF from
<1> QED BY <1>2, <1>3, <1>4

\* A frame leaves no header before it, or the first one is kept for later, skipped or
\* written.
LEMMA Step ==
  ASSUME Roomy, BufferInv, received' = received + number_of_cif, SuperFrameHandle
  PROVE  \/ Unfound(received') /\ last' = last /\ (from' = from \/ from' = received')
         \/ \E p \in Int :
              /\ Found(p, received')
              /\ \/ received' - p < 5 /\ last' = last /\ from' = p
                 \/ /\ received' - p >= 5 /\ Spoilt(p)
                    /\ last' = last /\ (from' = received' \/ from' = p + 4)
                 \/ received' - p >= 5 /\ Begins(p) /\ last' = p /\ from' = p + 5
<1>1. /\ superframe_cifs_ \in Nat /\ received \in Nat /\ number_of_cif \in 1 .. 4
      /\ cifs = superframe_cifs_ + number_of_cif /\ cifs <= superframe_capacity_
      /\ adts_head_idx_ \in Nat /\ adts_head_idx_ <= superframe_cifs_
      /\ superframe_capacity_ \in Nat /\ superframe_capacity_ >= number_of_cif + 4
  BY DataConsecutive, CifAssumption, CapacityAssumption
     DEF BufferInv, SuperFrameTypeOK, FrameFits, cifs, Roomy
<1> DEFINE number(i) == received - superframe_cifs_ + i
<1>2. ASSUME NEW i \in Searched
      PROVE  i \in Slots /\ appended[i] = number(i) /\ number(i) \in from .. received' - 1
  <2>1. i \in Slots /\ i < cifs
    BY <1>1 DEF Searched, Slots
  <2>2. number(i) \in from .. received' - 1
    BY <1>1, <2>1 DEF from, Searched, Slots
  <2> QED BY <2>1, <2>2, DataConsecutive
<1>3. ASSUME NEW k \in from .. received' - 1
      PROVE  \E i \in Searched : k = number(i)
  <2> DEFINE i == k - received + superframe_cifs_
  <2>1. i \in Searched /\ k = number(i)
    BY <1>1 DEF from, Searched
  <2> QED BY <2>1
<1>4. CASE NoHeader
  <2>1. Unfound(received')
    BY <1>2, <1>3, <1>4 DEF NoHeader, Unfound
  <2>2. last' = last /\ CircshiftBuff(adts_head_idx_) /\ adts_head_idx_ \in 0 .. cifs
    BY <1>1, <1>4 DEF NoHeader
  <2>3. from' = from \/ from' = received'
    BY <2>2, Shifted DEF from
  <2> QED BY <2>1, <2>2, <2>3
<1>5. ASSUME NEW idx \in Slots, Header(idx)
      PROVE  /\ idx \in Searched /\ idx \in Nat /\ idx < cifs
             /\ number(idx) \in Int /\ appended[idx] = number(idx)
             /\ Found(number(idx), received')
             /\ received' - number(idx) = cifs - idx
             /\ Spoilt(number(idx)) <=> ~Intact(idx)
             /\ Begins(number(idx)) <=> Genuine(idx)
  <2>1. idx \in Searched /\ appended[idx] = number(idx) /\ number(idx) \in from .. received' - 1
    BY <1>2, <1>5 DEF Header
  <2>2. idx \in Nat /\ idx < cifs /\ number(idx) \in Int
    BY <1>1, <1>5, <2>1 DEF Searched
  <2>3. received' - number(idx) = cifs - idx
    BY <1>1, <2>2
  <2>4. Found(number(idx), received')
    <3> SUFFICES ASSUME NEW k \in from .. received' - 1, k < number(idx)
                 PROVE  k \notin passing'
      BY <1>5, <2>1 DEF Found, Header
    <3>1. PICK i \in Searched : k = number(i)
      BY <1>3
    <3>2. appended[i] = k /\ i < idx
      BY <1>1, <1>2, <2>2, <3>1 DEF Searched
    <3> QED BY <1>5, <3>1, <3>2 DEF Header
  <2>5. (Spoilt(number(idx)) <=> ~Intact(idx)) /\ (Begins(number(idx)) <=> Genuine(idx))
    BY <2>1 DEF Spoilt, Intact, Genuine
  <2> QED BY <2>1, <2>2, <2>3, <2>4, <2>5
<1>6. ASSUME NEW idx \in Slots, Incomplete(idx)
      PROVE  /\ Found(number(idx), received') /\ number(idx) \in Int
             /\ received' - number(idx) < 5 /\ last' = last /\ from' = number(idx)
  <2>1. Header(idx) /\ cifs - idx < 5 /\ CircshiftBuff(idx) /\ last' = last
    BY <1>6 DEF Incomplete
  <2>2. /\ idx \in Nat /\ idx < cifs /\ number(idx) \in Int
        /\ Found(number(idx), received') /\ received' - number(idx) = cifs - idx
    BY <1>5, <2>1
  <2>3. idx \in 0 .. cifs
    BY <1>1, <2>2
  <2>4. from' = number(idx) \/ cifs + number_of_cif - idx > superframe_capacity_
    BY <2>1, <2>3, Shifted
  <2>5. ~(cifs + number_of_cif - idx > superframe_capacity_)
    BY <1>1, <2>1, <2>2
  <2> QED BY <2>1, <2>2, <2>4, <2>5
<1>7. ASSUME NEW idx \in Slots, BadAddresses(idx) \/ AllSpoilt(idx)
      PROVE  /\ Found(number(idx), received') /\ number(idx) \in Int
             /\ received' - number(idx) >= 5 /\ Spoilt(number(idx))
             /\ last' = last /\ (from' = received' \/ from' = number(idx) + 4)
  <2>1. /\ Header(idx) /\ cifs - idx >= 5 /\ ~Intact(idx) /\ last' = last
        /\ Restart \/ (CircshiftBuff(idx + 4) /\ idx + 5 < cifs)
    BY <1>7 DEF BadAddresses, AllSpoilt
  <2>2. /\ idx \in Nat /\ idx < cifs /\ number(idx) \in Int
        /\ Found(number(idx), received') /\ received' - number(idx) = cifs - idx
        /\ Spoilt(number(idx))
    BY <1>5, <2>1
  <2>3. CASE Restart
    <3>1. from' = received'
      BY <1>1, <2>3 DEF Restart, from
    <3> QED BY <2>1, <2>2, <3>1
  <2>4. CASE CircshiftBuff(idx + 4) /\ idx + 5 < cifs
    <3>1. idx + 4 \in 0 .. cifs /\ received - superframe_cifs_ + (idx + 4) = number(idx) + 4
      BY <1>1, <2>2, <2>4
    <3>2. from' = number(idx) + 4 \/ from' = received'
      BY <2>4, <3>1, Shifted
    <3> QED BY <2>1, <2>2, <3>2
  <2> QED BY <2>1, <2>3, <2>4
<1>8. ASSUME NEW idx \in Slots, Written(idx)
      PROVE  /\ Found(number(idx), received') /\ number(idx) \in Int
             /\ received' - number(idx) >= 5 /\ Begins(number(idx))
             /\ last' = number(idx) /\ from' = number(idx) + 5
  <2>1. /\ Header(idx) /\ cifs - idx >= 5 /\ Genuine(idx) /\ last' = appended[idx]
        /\ IF idx + 5 < cifs THEN CircshiftBuff(idx + 5) ELSE Restart
    BY <1>8 DEF Written
  <2>2. /\ idx \in Nat /\ idx < cifs /\ number(idx) \in Int /\ appended[idx] = number(idx)
        /\ Found(number(idx), received') /\ received' - number(idx) = cifs - idx
        /\ Begins(number(idx))
    BY <1>5, <2>1
  <2>3. CASE ~(idx + 5 < cifs)
    <3>1. from' = received' /\ cifs - idx = 5
      BY <1>1, <2>1, <2>2, <2>3 DEF Restart, from
    <3>2. from' = number(idx) + 5
      BY <1>1, <2>2, <3>1
    <3> QED BY <2>1, <2>2, <3>2
  <2>4. CASE idx + 5 < cifs
    <3>1. idx + 5 \in 0 .. cifs /\ received - superframe_cifs_ + (idx + 5) = number(idx) + 5
      BY <1>1, <2>2, <2>4
    <3>2. ~(cifs + number_of_cif - (idx + 5) > superframe_capacity_)
      BY <1>1, <2>2
    <3>3. from' = number(idx) + 5
      BY <2>1, <2>4, <3>1, <3>2, Shifted
    <3> QED BY <2>1, <2>2, <3>3
  <2> QED BY <2>3, <2>4
<1> HIDE DEF number
<1>9. CASE NoHeader
  BY <1>4, <1>9
<1>10. ASSUME NEW idx \in Slots, Incomplete(idx) \/ BadAddresses(idx) \/ Written(idx) \/ AllSpoilt(idx)
       PROVE  \E p \in Int :
                /\ Found(p, received')
                /\ \/ received' - p < 5 /\ last' = last /\ from' = p
                   \/ /\ received' - p >= 5 /\ Spoilt(p)
                      /\ last' = last /\ (from' = received' \/ from' = p + 4)
                   \/ received' - p >= 5 /\ Begins(p) /\ last' = p /\ from' = p + 5
  BY <1>6, <1>7, <1>8, <1>10
<1> QED BY <1>9, <1>10 DEF SuperFrameHandle

\* The numbers that the steps below compare.
LEMMA BufferNumbers ==
  ASSUME BufferInv
  PROVE  /\ received \in Nat /\ from \in Int /\ from <= received /\ last \in Int
         /\ number_of_cif \in 1 .. 4
BY DataConsecutive, CifAssumption DEF BufferInv, SuperFrameTypeOK, FrameFits, from

\* Two superframes begin at least five CIFs apart.
LEMMA Begin ==
  ASSUME NEW a \in Nat, NEW b \in Nat, Begins(a), Begins(b), a < b
  PROVE  a + 5 <= b
<1>1. a % 5 = b % 5
  BY DEF Begins
<1> QED BY <1>1

\* What a frame adds concerns its own CIFs only.
LEMMA ChannelKept ==
  ASSUME BufferInv, Channel, NEW spoilt \in SUBSET Incoming, NEW mistaken \in SUBSET Incoming,
         Receive(spoilt, mistaken)
  PROVE  /\ Channel' /\ noisy \subseteq noisy'
         /\ received' = received + number_of_cif
         /\ \A k \in passing' : k < received => k \in passing
         /\ \A k : Begins(k)' <=> Begins(k)
<1>1. /\ received \in Nat /\ number_of_cif \in 1 .. 4 /\ received' = received + number_of_cif
      /\ noisy' = noisy \cup spoilt /\ phase' = phase
      /\ passing' = passing \cup {k \in Incoming : Begins(k) # (k \in mistaken)}
      /\ mistaken \subseteq spoilt
  BY BufferNumbers DEF Receive
<1>2. noisy' \subseteq 0 .. received' - 1 /\ passing' \subseteq 0 .. received' - 1
  <2>1. Incoming \subseteq 0 .. received' - 1 /\ 0 .. received - 1 \subseteq 0 .. received' - 1
    BY <1>1 DEF Incoming
  <2> QED BY <1>1, <2>1 DEF Channel
<1>3. ASSUME NEW k \in 0 .. received' - 1, k \notin noisy' PROVE k \in passing' <=> Begins(k)
  <2>1. CASE k \in 0 .. received - 1
    <3>1. k \notin Incoming
      BY <1>1, <2>1 DEF Incoming
    <3> QED BY <1>1, <1>3, <2>1, <3>1 DEF Channel
  <2>2. CASE k \notin 0 .. received - 1
    <3>1. k \in Incoming
      BY <1>1, <2>2 DEF Incoming
    <3>2. k \notin passing /\ k \notin mistaken
      BY <1>1, <1>3, <2>2 DEF Channel
    <3>3. Begins(k) \in BOOLEAN
      BY DEF Begins
    <3> QED BY <1>1, <3>1, <3>2, <3>3
  <2> QED BY <2>1, <2>2
<1>4. \A k : Begins(k)' <=> Begins(k)
  BY <1>1 DEF Begins
<1>5. ASSUME NEW k \in passing', k < received PROVE k \in passing
  <2>1. k \notin Incoming
    BY <1>1, <1>5 DEF Incoming
  <2> QED BY <1>1, <1>5, <2>1
<1> QED BY <1>1, <1>2, <1>3, <1>4, <1>5 DEF Channel

\* A superframe that is handled had less than five of its CIFs before.
LEMMA Late ==
  ASSUME BufferInv, Channel, Prompt, NEW spoilt \in SUBSET Incoming, NEW mistaken \in SUBSET Incoming,
         Receive(spoilt, mistaken), NEW p \in Int, Found(p, received'), received' - p >= 5
  PROVE  received - p < 5
<1>1. received' = received + number_of_cif /\ received \in Nat /\ number_of_cif \in 1 .. 4
  BY ChannelKept, BufferNumbers
<1>2. p \in passing' /\ p >= from /\ p < received
  BY <1>1, BufferNumbers DEF Found
<1>3. p \in passing
  BY <1>2, ChannelKept
<1> QED BY <1>2, <1>3 DEF Prompt

\* No header is left waiting.
LEMMA PromptKept ==
  ASSUME Roomy, BufferInv, Channel, Prompt,
         NEW spoilt \in SUBSET Incoming, NEW mistaken \in SUBSET Incoming,
         Receive(spoilt, mistaken), SuperFrameHandle
  PROVE  Prompt'
<1> SUFFICES ASSUME NEW q \in passing', q >= from' PROVE received' - q < 5
  BY DEF Prompt
<1>1. /\ received' = received + number_of_cif /\ received \in Nat /\ number_of_cif \in 1 .. 4
      /\ from \in Int /\ q \in Int /\ q < received'
  <2>1. received' = received + number_of_cif /\ received \in Nat /\ number_of_cif \in 1 .. 4
        /\ from \in Int /\ Channel'
    BY ChannelKept, BufferNumbers
  <2>2. q \in 0 .. received' - 1
    BY <2>1 DEF Channel
  <2> QED BY <2>1, <2>2
<1>2. CASE Unfound(received') /\ (from' = from \/ from' = received')
  BY <1>1, <1>2 DEF Unfound
<1>3. ASSUME NEW p \in Int, Found(p, received'),
             \/ received' - p < 5 /\ from' = p
             \/ received' - p >= 5 /\ (from' = received' \/ from' = p + 4 \/ from' = p + 5)
      PROVE  received' - q < 5
  <2>1. received' - p >= 5 => received - p < 5
    BY <1>3, Late
  <2> QED BY <1>1, <1>3, <2>1
<1> QED BY <1>1, <1>2, <1>3, Step

\* A search that is in step finds the next superframe or has yet to receive it.
LEMMA InStepKept ==
  ASSUME Roomy, BufferInv, Channel, Prompt, InStep,
         NEW spoilt \in SUBSET Incoming, NEW mistaken \in SUBSET Incoming,
         Receive(spoilt, mistaken), SuperFrameHandle
  PROVE  InStep'
<1>1. /\ received' = received + number_of_cif /\ received \in Nat /\ number_of_cif \in 1 .. 4
      /\ from \in Int /\ from <= received /\ last \in Int
      /\ noisy \subseteq noisy' /\ Channel' /\ \A k : Begins(k)' <=> Begins(k)
  BY ChannelKept, BufferNumbers
<1>2. CASE last' = last
  <2> SUFFICES ASSUME last # None
               PROVE  /\ last \in Nat /\ Begins(last)
                      /\ Clean(last + 5, last + 10)' => from' = last + 5 /\ received' < last + 10
    BY <1>1, <1>2 DEF InStep, Clean
  <2>1. last \in Nat /\ Begins(last)
    BY DEF InStep
  <2>2. ASSUME Clean(last + 5, last + 10)'
        PROVE  from' = last + 5 /\ received' < last + 10
    <3> DEFINE next == last + 5
    <3>1. \A k \in next .. next + 4 : k \notin noisy'
      BY <1>2, <2>1, <2>2 DEF Clean
    <3>2. from = next /\ received < next + 5
      <4>1. Clean(last + 5, last + 10)
        BY <1>1, <2>1, <3>1 DEF Clean
      <4> QED BY <2>1, <4>1 DEF InStep
    <3>3. next \in Nat /\ Begins(next)
      <4>1. (last + 5) % 5 = last % 5
        BY <2>1
      <4> QED BY <2>1, <4>1 DEF Begins
    <3>4. next \in passing' /\ next \in from .. received' - 1
      <4>1. next \in 0 .. received' - 1 /\ next \notin noisy'
        BY <1>1, <3>1, <3>2, <3>3
      <4> QED BY <1>1, <3>2, <3>3, <4>1 DEF Channel
    <3>5. ~Unfound(received')
      BY <3>4 DEF Unfound
    <3>6. ~Spoilt(next)
      BY <3>1, <3>3 DEF Spoilt
    <3>7. ASSUME NEW p \in Int, Found(p, received') PROVE p = next
      BY <1>1, <3>2, <3>3, <3>4, <3>7 DEF Found
    <3>8. received' - next < 5 /\ from' = next
      <4>1. next # last'
        BY <1>2, <2>1
      <4> HIDE DEF next
      <4> QED BY <1>1, <3>5, <3>6, <3>7, <4>1, Step
    <3> QED BY <1>1, <2>1, <3>3, <3>8
  <2> QED BY <2>1, <2>2
<1>3. ASSUME NEW p \in Int, Found(p, received'), received' - p >= 5, Begins(p),
             last' = p, from' = p + 5
      PROVE  InStep'
  <2>1. p \in Nat /\ Begins(p)'
    BY <1>1, <1>3 DEF Found, Channel
  <2>2. received - p < 5
    BY <1>3, Late
  <2>3. received' < p + 10
    BY <1>1, <2>2
  <2> QED BY <1>3, <2>1, <2>3 DEF InStep, Begins
<1> QED BY <1>1, <1>2, <1>3, Step

\* A header that is skipped has noise among its last seven CIFs.
LEMMA NonePassedOverKept ==
  ASSUME Roomy, BufferInv, Channel, Prompt, NonePassedOver,
         NEW spoilt \in SUBSET Incoming, NEW mistaken \in SUBSET Incoming,
         Receive(spoilt, mistaken), SuperFrameHandle, BufferInv'
  PROVE  NonePassedOver'
<1>1. /\ received' = received + number_of_cif /\ received \in Nat /\ number_of_cif \in 1 .. 4
      /\ from \in Int /\ from <= received /\ last \in Int /\ from >= last + 5
      /\ noisy \subseteq noisy' /\ Channel' /\ \A k : Begins(k)' <=> Begins(k)
  BY ChannelKept, BufferNumbers DEF BufferInv, SearchBehindLast, from
<1>2. from' \in Int /\ from' <= received' /\ last' \in Int
  <2>1. /\ superframe_cifs_' \in Nat /\ received' \in Nat /\ adts_head_idx_' \in Nat
        /\ adts_head_idx_' <= superframe_cifs_' /\ last' \in Int
    BY CapacityAssumption DEF BufferInv, SuperFrameTypeOK, FrameFits
  <2>2. from' = received' - superframe_cifs_' + adts_head_idx_'
    BY DEF from
  <2>3. \A r, c, a \in Nat : a <= c => r - c + a \in Int /\ r - c + a <= r
    OBVIOUS
  <2> QED BY <2>1, <2>2, <2>3
<1> SUFFICES ASSUME NEW quiet \in Nat, NEW b \in Nat, b >= quiet + 7, Begins(b),
                    \A k \in quiet .. received' - 1 : k \notin noisy', ~(from' <= b)
             PROVE  last' >= b
  BY <1>1 DEF NonePassedOver, Clean
<1>3. last' = last \/ last' >= from
  <2>1. ASSUME NEW p \in Int, Found(p, received') PROVE p >= from
    BY <1>1, <2>1 DEF Found
  <2> QED BY <1>1, <2>1, Step
<1>4. last >= b \/ from <= b
  <2>1. Clean(quiet, received)
    BY <1>1 DEF Clean
  <2> QED BY <2>1 DEF NonePassedOver
<1>5. CASE last >= b
  BY <1>1, <1>2, <1>3, <1>5
<1>6. CASE from <= b
  <2>1. b \in from .. received' - 1 /\ b \in passing'
    <3>1. b < received' /\ b \in 0 .. received' - 1 /\ b \in quiet .. received' - 1
      BY <1>1, <1>2
    <3>2. Begins(b)'
      BY <1>1
    <3> QED BY <1>1, <1>6, <3>1, <3>2 DEF Channel
  <2>2. ~Unfound(received')
    BY <2>1 DEF Unfound
  <2>3. ASSUME NEW p \in Int, Found(p, received')
        PROVE  p <= b /\ p \in Nat /\ p \in passing'
    BY <1>1, <2>1, <2>3 DEF Found, Channel
  <2>4. ASSUME NEW p \in Int, Found(p, received'), received' - p >= 5, Spoilt(p)
        PROVE  FALSE
    <3>1. received - p < 5
      BY <2>4, Late
    <3>2. p >= quiet /\ p + 4 < received'
      BY <1>1, <2>1, <2>4, <3>1
    <3>3. \A k \in p .. p + 4 : k \in quiet .. received' - 1
      BY <1>1, <2>4, <3>2
    <3>4. p \in passing' /\ p \notin noisy' /\ p \in 0 .. received' - 1
      BY <1>1, <2>3, <2>4, <3>2, <3>3
    <3>5. Begins(p)
      BY <1>1, <3>4 DEF Channel
    <3> QED BY <2>4, <3>3, <3>5 DEF Spoilt
  <2>5. ASSUME NEW p \in Int, Found(p, received'), Begins(p), from' = p + 5
        PROVE  p = b
    <3>1. p <= b /\ p \in Nat /\ b < p + 5
      BY <1>2, <2>3, <2>5
    <3> QED BY <2>5, <3>1, Begin
  <2> QED BY <1>1, <1>2, <2>2, <2>3, <2>4, <2>5, Step
<1> QED BY <1>4, <1>5, <1>6

\* MInv is inductive.
LEMMA MInductive ==
  ASSUME Roomy, MInv, [AppendAndHandle]_superframe_vars
  PROVE  MInv'
<1>1. CASE AppendAndHandle
  <2>1. PICK spoilt \in SUBSET Incoming, mistaken \in SUBSET Incoming :
          Receive(spoilt, mistaken) /\ SuperFrameHandle
    BY <1>1 DEF AppendAndHandle
  <2>2. BufferInv'
    BY <1>1, FrameKeepsIInv DEF MInv
  <2> QED BY <2>1, <2>2, ChannelKept, PromptKept, InStepKept, NonePassedOverKept DEF MInv
<1>2. CASE UNCHANGED superframe_vars
  <2>1. BufferInv'
    BY <1>2 DEF superframe_vars, MInv, BufferInv, SuperFrameTypeOK, FrameFits, Consecutive, SearchBehindLast
  <2>2. /\ received' = received /\ noisy' = noisy /\ passing' = passing /\ phase' = phase
        /\ last' = last /\ superframe_cifs_' = superframe_cifs_ /\ adts_head_idx_' = adts_head_idx_
    BY <1>2 DEF superframe_vars
  <2> QED BY <2>1, <2>2 DEF MInv, Channel, Prompt, InStep, NonePassedOver, Clean, Begins, from
<1> QED BY <1>1, <1>2

\* In any five CIFs a superframe begins.
LEMMA OneOfFive ==
  ASSUME phase \in 0 .. 4, NEW k \in Nat
  PROVE  \E b \in k .. k + 4 : Begins(b)
<1>1. \E b \in k .. k + 4 : b % 5 = phase
  <2>1. PICK w \in 0 .. 4 : w = phase
    OBVIOUS
  <2>2. \/ k % 5 = w \/ (k + 1) % 5 = w \/ (k + 2) % 5 = w \/ (k + 3) % 5 = w \/ (k + 4) % 5 = w
    OBVIOUS
  <2> QED BY <2>1, <2>2
<1> QED BY <1>1 DEF Begins

\* MInv implies both properties.
LEMMA NoneMissedYet ==
  ASSUME MInv
  PROVE  NoSuperframeMissed
<1>1. /\ received \in Nat /\ last \in Int /\ phase \in 0 .. 4
  BY DEF MInv, BufferInv, SuperFrameTypeOK
<1>2. NextOneWritten
  <2>1. (last + 5 .. last + 9) \cap noisy = {} => Clean(last + 5, last + 10)
    BY <1>1 DEF Clean
  <2> QED BY <1>1, <2>1 DEF NextOneWritten, MInv, InStep
<1>3. ASSUME CleanFor(16) PROVE last >= received - 9
  <2> DEFINE quiet == received - 16
  <2>1. quiet \in Nat /\ Clean(quiet, received)
    BY <1>1, <1>3 DEF CleanFor, Clean
  <2>2. PICK b \in received - 9 .. received - 5 : Begins(b)
    <3>1. received - 9 \in Nat /\ (received - 9) + 4 = received - 5
      BY <1>1, <2>1
    <3>2. \E b \in received - 9 .. (received - 9) + 4 : Begins(b)
      BY <1>1, <3>1, OneOfFive
    <3> QED BY <3>1, <3>2
  <2>3. b \in Nat /\ b >= quiet + 7 /\ b >= received - 9 /\ b <= received - 5
    BY <1>1, <2>1
  <2>4. CASE last >= b
    BY <1>1, <2>3, <2>4
  <2>5. CASE from <= b
    <3>1. b \in 0 .. received - 1 /\ b \in quiet .. received - 1
      BY <1>1, <2>1, <2>3
    <3>2. b \in passing
      BY <2>1, <2>2, <3>1 DEF MInv, Channel, Clean
    <3>3. received - b < 5 /\ from \in Int
      BY <2>3, <2>5, <3>2, BufferNumbers DEF MInv, Prompt
    <3> QED BY <1>1, <2>3, <3>3
  <2>6. last >= b \/ from <= b
    BY <2>1, <2>2, <2>3 DEF MInv, NonePassedOver
  <2> QED BY <2>4, <2>5, <2>6
<1> QED BY <1>2, <1>3 DEF NoSuperframeMissed, BackInStep

\* Whatever noise there is, a superframe is missed only for noise of its own or of the
\* last sixteen CIFs: four in which a false header may wait for its end, three to the end of
\* the frame, four to the next superframe, and the five of that one.
THEOREM NoneMissed ==
  ASSUME Roomy
  PROVE  SuperFrameSpec => []NoSuperframeMissed
<1>1. SuperFrameInit => MInv
  <2> SUFFICES ASSUME SuperFrameInit PROVE MInv
    OBVIOUS
  <2>1. BufferInv
    BY CifAssumption, CapacityAssumption
       DEF SuperFrameInit, BufferInv, SuperFrameTypeOK, FrameFits, Consecutive, SearchBehindLast, None, Slots
  <2>2. received = 0 /\ noisy = {} /\ passing = {} /\ last = None /\ from = 0
    BY DEF SuperFrameInit, from
  <2> QED BY <2>1, <2>2 DEF MInv, Channel, Prompt, InStep, NonePassedOver
<1>2. MInv /\ [AppendAndHandle]_superframe_vars => MInv'
  BY MInductive
<1>3. MInv => NoSuperframeMissed
  BY NoneMissedYet
<1> QED BY <1>1, <1>2, <1>3, PTL DEF SuperFrameSpec
=============================================================================
