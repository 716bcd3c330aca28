----------------------------- MODULE SuperFrame -----------------------------
(***************************************************************************)
(* The superframe buffer of a DAB+ station (DataDecoder/superframe.cc).    *)
(*                                                                         *)
(* number_of_cif decoded CIFs of every frame are appended to a buffer of   *)
(* superframe_capacity_ CIFs.  A superframe is five CIFs of which the      *)
(* first passes the firecode check; SuperFrameHandle looks for one, writes *)
(* its access units out and makes room.                                    *)
(*                                                                         *)
(* The k-th CIF received is numbered k; the transmitter's superframes      *)
(* begin at the CIFs congruent to `phase'.  In a noisy CIF, access units   *)
(* may be spoilt and the firecode check may have the wrong outcome.        *)
(***************************************************************************)
EXTENDS DabFrame, FiniteSets

CONSTANTS
  superframe_capacity_,  \* CIFs the buffer holds: 16
  MaxCifs,               \* bound: CIFs received in one behaviour
  MaxNoisy               \* bound: noisy CIFs in one behaviour

ASSUME CapacityAssumption == /\ superframe_capacity_ \in Nat
                             /\ superframe_capacity_ >= number_of_cif
ASSUME NoiseAssumption == MaxCifs \in Nat /\ MaxNoisy \in Nat

VARIABLES
  superframe_,       \* index -> number of the CIF stored there
  superframe_cifs_,  \* CIFs in the buffer
  adts_head_idx_,    \* where the search for a header begins
  received,          \* CIFs received so far
  phase,             \* the transmitter's superframes begin here, modulo 5
  noisy,             \* the CIFs spoilt on the way
  passing,           \* the CIFs that pass the firecode check
  last               \* first CIF of the last superframe written, or None

superframe_vars == <<superframe_, superframe_cifs_, adts_head_idx_, received, phase,
                     noisy, passing, last>>

None == -10
Slots == 0 .. superframe_capacity_ - 1

SuperFrameInit ==
  /\ superframe_ = [i \in Slots |-> None]
  /\ superframe_cifs_ = 0
  /\ adts_head_idx_ = 0
  /\ received = 0
  /\ phase \in 0 .. 4
  /\ noisy = {}
  /\ passing = {}
  /\ last = None

\* The frame that is decoded, what the channel does to it and which of its
\* CIFs FirecodeCheck will take for the first of a superframe.
Begins(k) == k % 5 = phase
Incoming == received .. received + number_of_cif - 1

Receive(spoilt, mistaken) ==
  /\ mistaken \subseteq spoilt
  /\ Cardinality(noisy \cup spoilt) <= MaxNoisy
  /\ received + number_of_cif <= MaxCifs
  /\ received' = received + number_of_cif
  /\ noisy' = noisy \cup spoilt
  /\ passing' = passing \cup {k \in Incoming : Begins(k) # (k \in mistaken)}
  /\ UNCHANGED phase

\* MSCDecoder has appended the frame before SuperFrameHandle runs.
cifs == superframe_cifs_ + number_of_cif

appended == [i \in Slots |-> IF i >= superframe_cifs_ /\ i < cifs
                         THEN received + (i - superframe_cifs_)
                         ELSE superframe_[i]]

\* Faulty variant of CircshiftBuff: the CIFs are counted off but not moved.
CircshiftBuffUnmoved(head) ==
  LET full == cifs + number_of_cif > superframe_capacity_
      lost == cifs + number_of_cif - head > superframe_capacity_ \/ head >= cifs
  IN  /\ adts_head_idx_' = IF full THEN 0 ELSE head
      /\ superframe_cifs_' = IF ~full THEN cifs
                             ELSE IF lost THEN 0 ELSE cifs - head
      /\ superframe_' = appended

\* Makes room for another frame by forgetting what is before the head, or
\* everything when that is not enough.
CircshiftBuff(head) ==
  LET full == cifs + number_of_cif > superframe_capacity_
      lost == cifs + number_of_cif - head > superframe_capacity_ \/ head >= cifs
  IN  /\ adts_head_idx_' = IF full THEN 0 ELSE head
      /\ superframe_cifs_' = IF ~full THEN cifs
                             ELSE IF lost THEN 0 ELSE cifs - head
      /\ superframe_' = [i \in Slots |->
           IF full /\ ~lost /\ i < cifs - head THEN appended[i + head] ELSE appended[i]]

\* "hard restart superframe handle"
Restart == /\ adts_head_idx_' = 0
           /\ superframe_cifs_' = 0
           /\ superframe_' = appended

\* The first CIF from the head on that passes FirecodeCheck.
Searched == adts_head_idx_ .. cifs - 1
Header(idx) == /\ idx \in Searched
               /\ appended[idx] \in passing'
               /\ \A i \in Searched : i < idx => appended[i] \notin passing'

\* The superframe at idx is the transmitter's; it is also free of noise.
Genuine(idx) == Begins(appended[idx])
Intact(idx) == Genuine(idx) /\ (appended[idx] .. appended[idx] + 4) \cap noisy' = {}

\* The ways through SuperFrameHandle.
NoHeader ==
  /\ \A i \in Searched : appended[i] \notin passing'
  /\ CircshiftBuff(adts_head_idx_)
  /\ UNCHANGED last

Incomplete(idx) ==
  /\ Header(idx)
  /\ cifs - idx < 5
  /\ CircshiftBuff(idx)
  /\ UNCHANGED last

\* The addresses of the access units do not rise.
BadAddresses(idx) ==
  /\ Header(idx)
  /\ cifs - idx >= 5
  /\ ~Intact(idx)
  /\ Restart
  /\ UNCHANGED last

\* Faulty variant of Written: the head stays where it was.
WrittenKeepingHead(idx) ==
  /\ Header(idx)
  /\ cifs - idx >= 5
  /\ Genuine(idx)
  /\ IF idx + 5 < cifs THEN CircshiftBuff(idx) ELSE Restart
  /\ last' = appended[idx]

\* Faulty variant of Written: the next superframe is looked for one CIF further on.
WrittenTooFar(idx) ==
  /\ Header(idx)
  /\ cifs - idx >= 5
  /\ Genuine(idx)
  /\ IF idx + 5 < cifs THEN CircshiftBuff(idx + 6) ELSE Restart
  /\ last' = appended[idx]

\* At least one access unit passes its CRC.
Written(idx) ==
  /\ Header(idx)
  /\ cifs - idx >= 5
  /\ Genuine(idx)
  /\ IF idx + 5 < cifs THEN CircshiftBuff(idx + 5) ELSE Restart
  /\ last' = appended[idx]

\* None does: "maybe synchronization glitch".
AllSpoilt(idx) ==
  /\ Header(idx)
  /\ cifs - idx >= 5
  /\ ~Intact(idx)
  /\ IF idx + 5 < cifs THEN CircshiftBuff(idx + 4) ELSE Restart
  /\ UNCHANGED last

SuperFrameHandle ==
  \/ NoHeader
  \/ \E idx \in Slots : \/ Incomplete(idx)
                        \/ BadAddresses(idx)
                        \/ Written(idx)
                        \/ AllSpoilt(idx)

AppendAndHandle ==
  \E spoilt \in SUBSET Incoming, mistaken \in SUBSET Incoming :
    Receive(spoilt, mistaken) /\ SuperFrameHandle

SuperFrameSpec == SuperFrameInit /\ [][AppendAndHandle]_superframe_vars

-----------------------------------------------------------------------------
(* Properties *)

SuperFrameTypeOK ==
  /\ superframe_ \in [Slots -> Int]
  /\ superframe_cifs_ \in 0 .. superframe_capacity_
  /\ adts_head_idx_ \in 0 .. superframe_capacity_
  /\ received \in Nat
  /\ phase \in 0 .. 4
  /\ noisy \subseteq Nat
  /\ passing \subseteq Nat
  /\ last \in Int

\* The next frame fits into the allocation (it is written behind the CIFs that
\* are there without a test, data_decoder.cc:390-396), and the differences of
\* unsigned indices that CircshiftBuff copies by do not wrap below zero.
FrameFits == /\ superframe_cifs_ + number_of_cif <= superframe_capacity_
             /\ adts_head_idx_ <= superframe_cifs_

\* The buffer holds the CIFs received last, in order and without a gap: the
\* five CIFs taken for a superframe are five CIFs in a row, whatever has been
\* moved, cut off or thrown away before (superframe.cc:62-219).
Consecutive ==
  \A i \in Slots : i < superframe_cifs_
    => superframe_[i] = received - superframe_cifs_ + i

\* Both at once: wherever the buffer has been cut, there is room for the next frame and
\* nothing is missing from what is kept (CircshiftBuff and the restarts).
BufferHolds == FrameFits /\ Consecutive

\* A superframe is never written twice, nor any part of it as part of another,
\* whatever noise makes of the headers (superframe.cc:189-201).
WrittenOnce == [][\A idx \in Slots : Written(idx) => appended[idx] >= last + 5]_superframe_vars

\* Once a superframe was written, the next one is written too, with the frame
\* that completes it, unless one of its own CIFs is noisy: throwing CIFs away
\* to make room, and handling at most one superframe per frame, costs nothing.
NextOneWritten ==
  last # None /\ received >= last + 10
    => (last + 5 .. last + 9) \cap noisy # {}

\* After noise, or after the station was chosen, the decoder is in step again
\* within a fixed number of CIFs.
CleanFor(n) == received >= n /\ (received - n .. received - 1) \cap noisy = {}
BackInStep == CleanFor(16) => last >= received - 9

\* No superframe is missed but for noise, whether the decoder is in step or has to get
\* into it.
NoSuperframeMissed == NextOneWritten /\ BackInStep
=============================================================================
