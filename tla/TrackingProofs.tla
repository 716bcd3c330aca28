--------------------------- MODULE TrackingProofs ---------------------------
(* The synchronizer: the mode of a recording is found wherever it begins.      *)
(* The demodulator, whatever stations there are: when a frame is done, the     *)
(* null symbol that the synchronizer looks for next has not been touched.      *)
(* Only the last symbol of a frame reaches into it when it is transformed; it  *)
(* is transformed only for a sub-channel that ends with the last symbol of a   *)
(* CIF, and for these the samples are copied before and put back after.  Every *)
(* symbol that is demodulated has been transformed exactly once.  And what the *)
(* demodulator writes, the scheduler counts and the data decoder reads is the  *)
(* same frame.                                                                 *)
EXTENDS Synchronizer, Demodulator, TLAPS

-----------------------------------------------------------------------------
(* The synchronizer. *)

\* A recording may begin anywhere in a frame, inside its null symbol too.
Recordings ==
  {b \in [mode : {"I", "II", "III", "IV"}, first : Int] :
     b.first > -NullSize(b.mode) /\ b.first < FrameSize(b.mode)}

\* The numbers of the modes.
LEMMA ModeNumbers ==
  /\ FrameSize("I") = 196608 /\ FrameSize("II") = 49152
  /\ FrameSize("III") = 49152 /\ FrameSize("IV") = 98304
  /\ NullSize("I") = 2656 /\ NullSize("II") = 664
  /\ NullSize("III") = 345 /\ NullSize("IV") = 1328
BY DEF FrameSize, NullSize

\* When the sum fires for a null symbol, seen from sample i on.
FiresAt(null, i) == IF i > null + Decay THEN i ELSE null + Decay
Fires(b, null, i) ==
  /\ FiresAt(null, i) < Least(null + NullSize(b.mode), null + delay)
  /\ null > 0 /\ FiresAt(null, i) < read_size - 1

\* It fires at the first null symbol for which it can.
LEMMA FirstFires ==
  ASSUME NEW b, NEW i, NEW null \in NullStarts(b), NullStarts(b) \subseteq Int, Fires(b, null, i),
         \A other \in NullStarts(b) : other < null => ~Fires(b, other, i)
  PROVE  FiresFrom(b, i) = FiresAt(null, i)
<1> DEFINE fires == {n \in NullStarts(b) : Fires(b, n, i)}
<1>1. FiresFrom(b, i) = IF fires = {} THEN read_size
                        ELSE FiresAt(CHOOSE n \in fires : \A other \in fires : n <= other, i)
  BY DEF FiresFrom, Fires, FiresAt
<1>2. null \in fires /\ \A other \in fires : null <= other
  OBVIOUS
<1>3. \A n \in fires : (\A other \in fires : n <= other) => n = null
  BY <1>2
<1>4. (CHOOSE n \in fires : \A other \in fires : n <= other) = null
  BY <1>2, <1>3
<1> QED
  BY <1>1, <1>2, <1>4

\* NullStarts, of the numbers only.
Nulls(first, F) == {first + k * F : k \in 0..((600000 - first) \div F)}

\* Null symbols come a frame apart, and those that are in the recording are among them.
LEMMA Apart ==
  ASSUME NEW first \in Int, NEW F \in {196608, 98304, 49152}, first < F
  PROVE  /\ Nulls(first, F) \subseteq Int
         /\ \A null \in Nulls(first, F) : null >= first
         /\ \A null, other \in Nulls(first, F) : other < null => other <= null - F
         /\ \A k \in 0..3 : first + k * F < 600000 => first + k * F \in Nulls(first, F)
<1>1. CASE F = 196608
  <2> DEFINE nulls == {first + k * 196608 : k \in 0..((600000 - first) \div 196608)}
  <2>1. (600000 - first) \div 196608 \in Int
    OBVIOUS
  <2>2. nulls \subseteq Int /\ \A null \in nulls : null >= first
    BY <2>1
  <2>3. ASSUME NEW null \in nulls, NEW other \in nulls, other < null
        PROVE  other <= null - 196608
    <3>1. PICK k \in 0..((600000 - first) \div 196608) : null = first + k * 196608
      OBVIOUS
    <3>2. PICK l \in 0..((600000 - first) \div 196608) : other = first + l * 196608
      OBVIOUS
    <3> QED
      BY <2>1, <2>3, <3>1, <3>2
  <2>4. ASSUME NEW k \in 0..3, first + k * 196608 < 600000
        PROVE  first + k * 196608 \in nulls
    <3>1. k <= (600000 - first) \div 196608
      BY <2>4
    <3> QED
      BY <2>1, <3>1
  <2> QED
    BY <1>1, <2>2, <2>3, <2>4 DEF Nulls
<1>2. CASE F = 98304
  <2> DEFINE nulls == {first + k * 98304 : k \in 0..((600000 - first) \div 98304)}
  <2>1. (600000 - first) \div 98304 \in Int
    OBVIOUS
  <2>2. nulls \subseteq Int /\ \A null \in nulls : null >= first
    BY <2>1
  <2>3. ASSUME NEW null \in nulls, NEW other \in nulls, other < null
        PROVE  other <= null - 98304
    <3>1. PICK k \in 0..((600000 - first) \div 98304) : null = first + k * 98304
      OBVIOUS
    <3>2. PICK l \in 0..((600000 - first) \div 98304) : other = first + l * 98304
      OBVIOUS
    <3> QED
      BY <2>1, <2>3, <3>1, <3>2
  <2>4. ASSUME NEW k \in 0..3, first + k * 98304 < 600000
        PROVE  first + k * 98304 \in nulls
    <3>1. k <= (600000 - first) \div 98304
      BY <2>4
    <3> QED
      BY <2>1, <3>1
  <2> QED
    BY <1>2, <2>2, <2>3, <2>4 DEF Nulls
<1>3. CASE F = 49152
  <2> DEFINE nulls == {first + k * 49152 : k \in 0..((600000 - first) \div 49152)}
  <2>1. (600000 - first) \div 49152 \in Int
    OBVIOUS
  <2>2. nulls \subseteq Int /\ \A null \in nulls : null >= first
    BY <2>1
  <2>3. ASSUME NEW null \in nulls, NEW other \in nulls, other < null
        PROVE  other <= null - 49152
    <3>1. PICK k \in 0..((600000 - first) \div 49152) : null = first + k * 49152
      OBVIOUS
    <3>2. PICK l \in 0..((600000 - first) \div 49152) : other = first + l * 49152
      OBVIOUS
    <3> QED
      BY <2>1, <2>3, <3>1, <3>2
  <2>4. ASSUME NEW k \in 0..3, first + k * 49152 < 600000
        PROVE  first + k * 49152 \in nulls
    <3>1. k <= (600000 - first) \div 49152
      BY <2>4
    <3> QED
      BY <2>1, <3>1
  <2> QED
    BY <1>3, <2>2, <2>3, <2>4 DEF Nulls
<1>4. F = 196608 \/ F = 98304 \/ F = 49152
  OBVIOUS
<1> QED
  BY <1>1, <1>2, <1>3, <1>4
\* The null symbols of a recording, and how long they and its frames are.
LEMMA NullsOf ==
  ASSUME NEW b \in Recordings
  PROVE  /\ b.first \in Int /\ b.first > -NullSize(b.mode) /\ b.first < FrameSize(b.mode)
         /\ FrameSize(b.mode) \in {196608, 98304, 49152}
         /\ NullSize(b.mode) \in 345..2656
         /\ NullStarts(b) = Nulls(b.first, FrameSize(b.mode))
<1>1. b.first \in Int /\ b.first > -NullSize(b.mode) /\ b.first < FrameSize(b.mode)
  BY DEF Recordings
<1>2. b.mode = "I" \/ b.mode = "II" \/ b.mode = "III" \/ b.mode = "IV"
  BY DEF Recordings
<1>3. FrameSize(b.mode) \in {196608, 98304, 49152} /\ NullSize(b.mode) \in 345..2656
  BY <1>2, ModeNumbers
<1>4. NullStarts(b) = Nulls(b.first, FrameSize(b.mode))
  BY DEF NullStarts, Nulls, read_size
<1> QED
  BY <1>1, <1>3, <1>4

\* The first null symbol that begins in the recording is the first to be noticed, however
\* few samples there are before it.
LEMMA FirstNull ==
  ASSUME NEW b \in Recordings
  PROVE  \E null \in NullStarts(b) :
            /\ null > 0 /\ null <= FrameSize(b.mode)
            /\ FiresFrom(b, delay) \in (null + 16)..(null + 99)
            /\ null + FrameSize(b.mode) \in NullStarts(b)
            /\ null + 2 * FrameSize(b.mode) \in NullStarts(b)
<1> DEFINE F == FrameSize(b.mode)
           N == NullSize(b.mode)
           null == IF b.first > 0 THEN b.first ELSE b.first + F
<1>1. /\ b.first \in Int /\ b.first > -N /\ b.first < F
      /\ F \in {196608, 98304, 49152} /\ N \in 345..2656
      /\ NullStarts(b) = Nulls(b.first, F)
  BY NullsOf
<1> HIDE DEF F, N
<1>2. /\ NullStarts(b) \subseteq Int
      /\ \A n \in NullStarts(b) : n >= b.first
      /\ \A n, other \in NullStarts(b) : other < n => other <= n - F
      /\ \A k \in 0..3 : b.first + k * F < 600000 => b.first + k * F \in NullStarts(b)
  BY <1>1, Apart
<1>3. F \in Int /\ F >= 49152 /\ F <= 196608 /\ N \in Int /\ N >= 345 /\ N <= 2656
  BY <1>1
<1>4. /\ 0 * F = 0 /\ 1 * F = F /\ 2 * F = F + F /\ 3 * F = F + F + F
  BY <1>3
<1>5. /\ null \in Int /\ null > 0 /\ null <= F
      /\ null \in NullStarts(b) /\ null + F \in NullStarts(b) /\ null + 2 * F \in NullStarts(b)
  <2>1. CASE b.first > 0
    <3>1. /\ b.first + 0 * F \in NullStarts(b) /\ b.first + 1 * F \in NullStarts(b)
          /\ b.first + 2 * F \in NullStarts(b)
      BY <1>1, <1>2, <1>3, <1>4
    <3> QED
      BY <1>1, <1>3, <1>4, <2>1, <3>1
  <2>2. CASE ~(b.first > 0)
    <3>1. /\ b.first + 1 * F \in NullStarts(b) /\ b.first + 2 * F \in NullStarts(b)
          /\ b.first + 3 * F \in NullStarts(b)
      BY <1>1, <1>2, <1>3, <1>4, <2>2
    <3> QED
      BY <1>1, <1>3, <1>4, <2>2, <3>1
  <2> QED
    BY <2>1, <2>2
<1>6. Fires(b, null, delay) /\ FiresAt(null, delay) \in (null + 16)..(null + 99)
  <2>1. b.first > 0 => null >= 1
    BY <1>1
  <2>2. ~(b.first > 0) => null >= 100
    BY <1>1, <1>3
  <2>3. b.first > 0 => FiresAt(null, 100) = IF 100 > null + 16 THEN 100 ELSE null + 16
    BY DEF FiresAt, Decay
  <2> QED
    BY <1>3, <1>5 DEF Fires, FiresAt, Least, Decay, delay, read_size, N
<1>7. \A other \in NullStarts(b) : other < null => ~Fires(b, other, delay)
  <2> SUFFICES ASSUME NEW other \in NullStarts(b), other < null
               PROVE  other <= 0
    BY <1>2 DEF Fires
  <2> QED
    BY <1>1, <1>2, <1>3, <1>5
<1>8. FiresFrom(b, delay) = FiresAt(null, delay)
  BY <1>2, <1>5, <1>6, <1>7, FirstFires
<1> QED
  BY <1>5, <1>6, <1>8 DEF F

\* After one null symbol was noticed, the next thing to be noticed is the next null symbol:
\* what is skipped is longer than the one and shorter than a frame.
LEMMA NextNull ==
  ASSUME NEW b \in Recordings, NEW null \in NullStarts(b), null > 0,
         null + FrameSize(b.mode) \in NullStarts(b),
         null + FrameSize(b.mode) + 16 < 599999,
         NEW j \in (null + 16)..(null + 99)
  PROVE  FiresNext(b, j) = null + FrameSize(b.mode) + 16
<1> DEFINE F == FrameSize(b.mode)
           N == NullSize(b.mode)
           next == null + F
           i == j + 20001
<1>1. /\ F \in {196608, 98304, 49152} /\ N \in 345..2656
      /\ NullStarts(b) = Nulls(b.first, F) /\ b.first \in Int /\ b.first < F
  BY NullsOf
<1> HIDE DEF F, N
<1>2. /\ NullStarts(b) \subseteq Int
      /\ \A n, other \in NullStarts(b) : other < n => other <= n - F
  BY <1>1, Apart
<1>3. F \in Int /\ F >= 49152 /\ N \in Int /\ N >= 345 /\ null \in Int /\ next \in Int /\ j \in Int
  BY <1>1, <1>2
<1>4. next \in NullStarts(b) /\ next + 16 < 599999
  BY DEF F
<1>5. FiresAt(next, i) = next + 16
  BY <1>3 DEF FiresAt, Decay
<1>6. Fires(b, next, i)
  BY <1>3, <1>4, <1>5 DEF Fires, Least, delay, read_size, N
<1>7. \A other \in NullStarts(b) : other < next => ~Fires(b, other, i)
  <2> SUFFICES ASSUME NEW other \in NullStarts(b), other < next
               PROVE  ~(FiresAt(other, i) < Least(other + N, other + 100))
    BY <1>2 DEF Fires, delay, N
  <2>1. other \in Int /\ other <= null
    BY <1>2, <1>3, <1>4
  <2>2. FiresAt(other, i) = i
    BY <1>3, <2>1 DEF FiresAt, Decay
  <2> QED
    BY <1>3, <2>1, <2>2 DEF Least
<1>8. FiresFrom(b, i) = next + 16
  BY <1>2, <1>4, <1>5, <1>6, <1>7, FirstFires
<1>9. FiresNext(b, j) = FiresFrom(b, i)
  <2>1. j + skip + 1 = i
    BY <1>3 DEF skip
  <2> QED
    BY <2>1 DEF FiresNext
<1> QED
  BY <1>3, <1>8, <1>9 DEF F
\* Behind the end of a null symbol that was noticed there are 345 samples of silence in
\* mode III, and more than 659 in mode II.
LEMMA SilenceTells ==
  ASSUME NEW b \in Recordings, NEW null \in NullStarts(b), b.mode \in {"II", "III"}
  PROVE  LooksLikeIII(b, null + 16) <=> (b.mode = "III")
<1>1. /\ NullStarts(b) = Nulls(b.first, 49152) /\ b.first \in Int /\ b.first < 49152
      /\ b.mode = "II" => NullSize(b.mode) = 664
      /\ b.mode = "III" => NullSize(b.mode) = 345
  BY NullsOf, ModeNumbers
<1>2. /\ NullStarts(b) \subseteq Int
      /\ \A n, other \in NullStarts(b) : other < n => other <= n - 49152
  BY <1>1, Apart
<1>3. null \in Int
  BY <1>2
<1>4. LooksLikeIII(b, null + 16) <=>
        ((IF Silent(b, null + 381) THEN 0 ELSE 1) + (IF Silent(b, null + 659) THEN 0 ELSE 1)
          > 3 * ((IF Silent(b, null + 36) THEN 0 ELSE 1) + (IF Silent(b, null + 340) THEN 0 ELSE 1)))
  <2>1. /\ null + 16 + 365 = null + 381 /\ null + 16 + 644 - 1 = null + 659
        /\ null + 16 + 20 = null + 36 /\ null + 16 + 325 - 1 = null + 340
    BY <1>3
  <2> DEFINE loud(i) == IF Silent(b, i) THEN 0 ELSE 1
  <2>2. LooksLikeIII(b, null + 16) <=>
          (loud(null + 16 + 365) + loud(null + 16 + 644 - 1)
            > 3 * (loud(null + 16 + 20) + loud(null + 16 + 325 - 1)))
    BY <1>3 DEF LooksLikeIII
  <2>3. /\ loud(null + 16 + 365) = loud(null + 381) /\ loud(null + 16 + 644 - 1) = loud(null + 659)
        /\ loud(null + 16 + 20) = loud(null + 36) /\ loud(null + 16 + 325 - 1) = loud(null + 340)
    BY <2>1
  <2> QED
    BY <2>2, <2>3
<1>5. CASE b.mode = "II"
  <2>1. Silent(b, null + 381) /\ Silent(b, null + 659)
    BY <1>1, <1>3, <1>5 DEF Silent
  <2>2. ~(0 + 0 > 3 * ((IF Silent(b, null + 36) THEN 0 ELSE 1) + (IF Silent(b, null + 340) THEN 0 ELSE 1)))
    OBVIOUS
  <2> QED
    BY <1>4, <1>5, <2>1, <2>2
<1>6. CASE b.mode = "III"
  <2>1. Silent(b, null + 36) /\ Silent(b, null + 340)
    BY <1>1, <1>3, <1>6 DEF Silent
  <2>2. ASSUME NEW i \in {null + 381, null + 659}
        PROVE  ~Silent(b, i)
    <3> SUFFICES ASSUME NEW n \in NullStarts(b), i \in n..(n + 344)
                 PROVE  FALSE
      BY <1>1, <1>6 DEF Silent
    <3>1. n \in Int /\ (n < null => n <= null - 49152) /\ (null < n => null <= n - 49152)
      BY <1>2
    <3> QED
      BY <1>3, <3>1
  <2> QED
    BY <1>4, <1>6, <2>1, <2>2
<1> QED
  BY <1>5, <1>6

\* The mode of every recording, and where its second null symbol is.
LEMMA ModeDetected ==
  ASSUME NEW b \in Recordings
  PROVE  /\ DetectedMode(b).mode = b.mode
         /\ \E null \in NullStarts(b) : DetectedMode(b).null_position - null \in 0..50
<1> DEFINE F == FrameSize(b.mode)
<1>1. PICK null \in NullStarts(b) :
        /\ null > 0 /\ null <= F
        /\ FiresFrom(b, delay) \in (null + 16)..(null + 99)
        /\ null + F \in NullStarts(b) /\ null + 2 * F \in NullStarts(b)
  BY FirstNull
<1>2. /\ F \in {196608, 98304, 49152} /\ NullStarts(b) \subseteq Int
      /\ b.mode \in {"I", "II", "III", "IV"}
  BY NullsOf, Apart DEF Recordings
<1>3. null \in Int /\ F \in Int /\ F >= 49152 /\ F <= 196608 /\ null + F + F = null + 2 * F
  BY <1>2
<1> DEFINE first == FiresFrom(b, delay)
           start == FiresNext(b, first)
           end == FiresNext(b, start)
<1>4. start = null + F + 16
  BY <1>1, <1>2, <1>3, NextNull
<1>5. end = null + 2 * F + 16
  <2>1. null + F \in NullStarts(b) /\ null + F > 0 /\ null + F + F \in NullStarts(b)
    BY <1>1, <1>3
  <2>2. null + F + F + 16 < 599999 /\ start \in (null + F + 16)..(null + F + 99)
    BY <1>1, <1>3, <1>4
  <2>3. end = null + F + F + 16
    BY <2>1, <2>2, NextNull
  <2> QED
    BY <1>3, <2>3
<1>6. end - start = F /\ end < 600000
  BY <1>1, <1>3, <1>4, <1>5
<1>7. DetectedMode(b) =
        [null_position |-> start,
         mode |-> IF end >= read_size THEN "unknown"
                  ELSE IF Near(end - start, FrameSize("I")) THEN "I"
                  ELSE IF Near(end - start, FrameSize("IV")) THEN "IV"
                  ELSE IF ~Near(end - start, FrameSize("II")) THEN "unknown"
                  ELSE IF LooksLikeIII(b, end) THEN "III" ELSE "II"]
  BY DEF DetectedMode
<1> HIDE DEF first, start, end
<1>8. DetectedMode(b).mode = b.mode
  <2>1. ~(end >= read_size)
    BY <1>3, <1>5, <1>6 DEF read_size
  <2>2. CASE b.mode = "I"
    BY <1>6, <1>7, <2>1, <2>2, ModeNumbers DEF Near, offset_
  <2>3. CASE b.mode = "IV"
    BY <1>6, <1>7, <2>1, <2>3, ModeNumbers DEF Near, offset_
  <2>4. CASE b.mode \in {"II", "III"}
    <3>1. F = 49152
      BY <2>4, ModeNumbers
    <3>2. LooksLikeIII(b, end) <=> (b.mode = "III")
      BY <1>1, <1>5, <2>4, SilenceTells
    <3>3. /\ ~Near(end - start, FrameSize("I")) /\ ~Near(end - start, FrameSize("IV"))
          /\ Near(end - start, FrameSize("II"))
      BY <1>6, <3>1, ModeNumbers DEF Near, offset_
    <3> QED
      BY <1>7, <2>1, <2>4, <3>2, <3>3
  <2> QED
    BY <1>2, <2>2, <2>3, <2>4
<1>9. DetectedMode(b).null_position - (null + F) \in 0..50
  BY <1>3, <1>4, <1>7
<1> QED
  BY <1>1, <1>8, <1>9

\* The mode is unknown, or what DetectMode finds in the recording at hand.
DetectInv ==
  \/ begin = NoBegin
  \/ begin \in Begins /\ detected \in {[mode |-> "unknown", null_position |-> 0], DetectedMode(begin)}

\* Wherever in a frame a recording begins, its mode is found, and the second null symbol it
\* has with its beginning: not only for the recordings of the run, but for all 398205
\* (Synchronizer::DetectMode).
THEOREM EveryModeFound ==
  ASSUME Begins \subseteq Recordings
  PROVE  SynchronizerInit /\ [][SynchronizerNext]_synchronizer_vars => []ModeFound
<1>1. SynchronizerInit => DetectInv
  BY DEF SynchronizerInit, DetectInv
<1>2. DetectInv /\ [SynchronizerNext]_synchronizer_vars => DetectInv'
  <2> SUFFICES ASSUME DetectInv, [SynchronizerNext]_synchronizer_vars
               PROVE  DetectInv'
    OBVIOUS
  <2>1. CASE DetectMode
    BY <2>1 DEF DetectMode, DetectInv
  <2>2. CASE FirstFrame
    BY <2>2 DEF FirstFrame, DetectInv
  <2>3. CASE Process
    BY <2>3 DEF Process, Frame, DetectInv
  <2>4. CASE ProcessWithoutNull
    BY <2>4 DEF ProcessWithoutNull, Frame, DetectInv
  <2>5. CASE SamplesLost
    BY <2>5 DEF SamplesLost, DetectInv
  <2>6. CASE UNCHANGED synchronizer_vars
    BY <2>6 DEF synchronizer_vars, DetectInv
  <2> QED
    BY <2>1, <2>2, <2>3, <2>4, <2>5, <2>6 DEF SynchronizerNext
<1>3. DetectInv => ModeFound
  <2> SUFFICES ASSUME DetectInv, begin # NoBegin, detected.null_position # 0
               PROVE  ModeFound
    BY DEF ModeFound
  <2>1. begin \in Recordings /\ detected = DetectedMode(begin)
    BY DEF DetectInv
  <2> QED
    BY <2>1, ModeDetected DEF ModeFound
<1> QED
  BY <1>1, <1>2, <1>3, PTL

-----------------------------------------------------------------------------
(* The demodulator. *)

Modes == {"I", "II", "III", "IV"}
Phases == {"created", "resumed", "copied", "transformed", "written", "done"}

IInv ==
  /\ \E mode \in Modes : mode_parameters_ = SetModeParameters(mode)
  /\ station \in Stations \cup {FicOnly}
  /\ phase \in Phases
  /\ phase \in {"created", "resumed", "copied", "done"} => tail = "samples"
  /\ phase \in {"transformed", "written"} => tail = "samples" \/ Protected
  /\ phase \in {"copied", "transformed", "written"} /\ Protected => sync_start_data_ = "samples"

\* The symbol that a capacity unit of a CIF is in.
LEMMA SymbolOfUnit ==
  ASSUME NEW cu \in 0..863
  PROVE  /\ cu \div 48 \in 0..17 /\ cu \div 12 \in 0..71
         /\ cu \div 6 \in 0..143 /\ cu \div 24 \in 0..35
OBVIOUS

\* Numbers of each mode: only the last symbol reaches into the samples of the next null
\* symbol, and no CIF but one that is read to its end goes as far (SetModeParameters).
LEMMA LastSymbolOnly ==
  ASSUME IInv, NEW symb \in Symbols, Spoils(symb)
  PROVE  /\ symb \in Int /\ m.number_of_symbols_per_fic \in Int
         /\ symb > m.number_of_symbols_per_fic
         /\ \A cif \in Cifs : symb \in start_symb(cif)..end_symb(cif) => Protected
<1> USE DEF m
<1>1. PICK mode \in Modes : mode_parameters_ = SetModeParameters(mode)
  BY DEF IInv
<1>2. symb \in Int
  BY <1>1 DEF Symbols, SetModeParameters, Modes
<1>3. ASSUME NEW cif \in Cifs
      PROVE  /\ cif \in 0..(m.number_of_cif - 1)
             /\ station \in Stations
             /\ symb_end_addr_
                  = (station.sub_ch_start_addr + station.sub_ch_size - 1) \div m.number_cu_per_symbol
  <2>1. ~decode_fic_only_ /\ cif \in 0..(m.number_of_cif - 1)
    BY <1>3 DEF Cifs
  <2>2. station \in Stations
    BY <2>1 DEF IInv, decode_fic_only_
  <2> QED BY <2>1, <2>2 DEF symb_end_addr_
<1>3a. ASSUME station \in Stations
       PROVE  station.sub_ch_start_addr + station.sub_ch_size - 1 \in 0..863
  <2> DEFINE a == station.sub_ch_start_addr
             n == station.sub_ch_size
  <2>1. a \in 0..863 /\ n \in 1..864 /\ a + n <= 864
    BY <1>3a, StationsAssumption
  <2> HIDE DEF a, n
  <2>2. a + n - 1 \in 0..863
    BY <2>1
  <2> QED BY <2>2 DEF a, n
<1>4. CASE mode = "I"
  <2>1. /\ m.guard_size = 504 /\ m.fft_size = 2048 /\ m.symbol_size = 2552 /\ m.null_size = 2656
        /\ m.frame_size = 196608 /\ m.number_of_symbols_per_fic = 3 /\ m.number_of_cif = 4
        /\ m.number_cu_per_symbol = 48 /\ m.number_symbols_per_cif = 18
    BY <1>1, <1>4 DEF SetModeParameters, ModeParameters
  <2>2. symb >= 75
    BY <1>2, <2>1 DEF Spoils
  <2>3. ASSUME NEW cif \in Cifs, symb \in start_symb(cif)..end_symb(cif) PROVE Protected
    <3>1. symb_end_addr_ \in 0..17
      <4>1. symb_end_addr_ = (station.sub_ch_start_addr + station.sub_ch_size - 1) \div 48
        BY <1>3, <2>1, <2>3
      <4>2. station.sub_ch_start_addr + station.sub_ch_size - 1 \in 0..863
        <5>1. station \in Stations
          BY <1>3, <2>3
        <5> QED BY <1>3a, <5>1
      <4> QED BY <4>1, <4>2, SymbolOfUnit
    <3>2. cif \in 0..3
      BY <1>3, <2>1, <2>3
    <3>3. symb <= 4 + 18 * cif + symb_end_addr_
      BY <1>2, <2>1, <2>3, <3>1, <3>2 DEF start_symb, end_symb, FirstOfCif
    <3> QED BY <1>2, <2>1, <2>2, <3>1, <3>2, <3>3 DEF Protected
  <2> QED BY <1>2, <2>1, <2>2, <2>3
<1>5. CASE mode = "II"
  <2>1. /\ m.guard_size = 126 /\ m.fft_size = 512 /\ m.symbol_size = 638 /\ m.null_size = 664
        /\ m.frame_size = 49152 /\ m.number_of_symbols_per_fic = 3 /\ m.number_of_cif = 1
        /\ m.number_cu_per_symbol = 12 /\ m.number_symbols_per_cif = 72
    BY <1>1, <1>5 DEF SetModeParameters, ModeParameters
  <2>2. symb >= 75
    BY <1>2, <2>1 DEF Spoils
  <2>3. ASSUME NEW cif \in Cifs, symb \in start_symb(cif)..end_symb(cif) PROVE Protected
    <3>1. symb_end_addr_ \in 0..71
      <4>1. symb_end_addr_ = (station.sub_ch_start_addr + station.sub_ch_size - 1) \div 12
        BY <1>3, <2>1, <2>3
      <4>2. station.sub_ch_start_addr + station.sub_ch_size - 1 \in 0..863
        <5>1. station \in Stations
          BY <1>3, <2>3
        <5> QED BY <1>3a, <5>1
      <4> QED BY <4>1, <4>2, SymbolOfUnit
    <3>2. cif \in 0..0
      BY <1>3, <2>1, <2>3
    <3>3. symb <= 4 + 72 * cif + symb_end_addr_
      BY <1>2, <2>1, <2>3, <3>1, <3>2 DEF start_symb, end_symb, FirstOfCif
    <3> QED BY <1>2, <2>1, <2>2, <3>1, <3>2, <3>3 DEF Protected
  <2> QED BY <1>2, <2>1, <2>2, <2>3
<1>6. CASE mode = "III"
  <2>1. /\ m.guard_size = 63 /\ m.fft_size = 256 /\ m.symbol_size = 319 /\ m.null_size = 345
        /\ m.frame_size = 49152 /\ m.number_of_symbols_per_fic = 8 /\ m.number_of_cif = 1
        /\ m.number_cu_per_symbol = 6 /\ m.number_symbols_per_cif = 144
    BY <1>1, <1>6 DEF SetModeParameters, ModeParameters
  <2>2. symb >= 152
    BY <1>2, <2>1 DEF Spoils
  <2>3. ASSUME NEW cif \in Cifs, symb \in start_symb(cif)..end_symb(cif) PROVE Protected
    <3>1. symb_end_addr_ \in 0..143
      <4>1. symb_end_addr_ = (station.sub_ch_start_addr + station.sub_ch_size - 1) \div 6
        BY <1>3, <2>1, <2>3
      <4>2. station.sub_ch_start_addr + station.sub_ch_size - 1 \in 0..863
        <5>1. station \in Stations
          BY <1>3, <2>3
        <5> QED BY <1>3a, <5>1
      <4> QED BY <4>1, <4>2, SymbolOfUnit
    <3>2. cif \in 0..0
      BY <1>3, <2>1, <2>3
    <3>3. symb <= 9 + 144 * cif + symb_end_addr_
      BY <1>2, <2>1, <2>3, <3>1, <3>2 DEF start_symb, end_symb, FirstOfCif
    <3> QED BY <1>2, <2>1, <2>2, <3>1, <3>2, <3>3 DEF Protected
  <2> QED BY <1>2, <2>1, <2>2, <2>3
<1>7. CASE mode = "IV"
  <2>1. /\ m.guard_size = 252 /\ m.fft_size = 1024 /\ m.symbol_size = 1276 /\ m.null_size = 1328
        /\ m.frame_size = 98304 /\ m.number_of_symbols_per_fic = 3 /\ m.number_of_cif = 2
        /\ m.number_cu_per_symbol = 24 /\ m.number_symbols_per_cif = 36
    BY <1>1, <1>7 DEF SetModeParameters, ModeParameters
  <2>2. symb >= 75
    BY <1>2, <2>1 DEF Spoils
  <2>3. ASSUME NEW cif \in Cifs, symb \in start_symb(cif)..end_symb(cif) PROVE Protected
    <3>1. symb_end_addr_ \in 0..35
      <4>1. symb_end_addr_ = (station.sub_ch_start_addr + station.sub_ch_size - 1) \div 24
        BY <1>3, <2>1, <2>3
      <4>2. station.sub_ch_start_addr + station.sub_ch_size - 1 \in 0..863
        <5>1. station \in Stations
          BY <1>3, <2>3
        <5> QED BY <1>3a, <5>1
      <4> QED BY <4>1, <4>2, SymbolOfUnit
    <3>2. cif \in 0..1
      BY <1>3, <2>1, <2>3
    <3>3. symb <= 4 + 36 * cif + symb_end_addr_
      BY <1>2, <2>1, <2>3, <3>1, <3>2 DEF start_symb, end_symb, FirstOfCif
    <3> QED BY <1>2, <2>1, <2>2, <3>1, <3>2, <3>3 DEF Protected
  <2> QED BY <1>2, <2>1, <2>2, <2>3
<1> QED BY <1>4, <1>5, <1>6, <1>7 DEF Modes

\* A frame of a station that does not end with the last symbol leaves the samples of
\* the next null symbol alone (FFTInPlace).
LEMMA SpoiltOnlyIfProtected ==
  ASSUME IInv, FFTInPlace, tail' # tail
  PROVE  Protected
<1> DEFINE audio(symb) == {cif \in Cifs : symb \in start_symb(cif)..end_symb(cif) /\ ~Skipped(cif, symb)}
           count(set) == IF set = {} THEN 0 ELSE IF \E c \in set : set = {c} THEN 1 ELSE 2
           times == [symb \in Symbols |->
                       (IF symb <= m.number_of_symbols_per_fic THEN 1 ELSE 0) + count(audio(symb))]
<1>1. PICK symb \in Symbols : times[symb] > 0 /\ Spoils(symb)
  BY DEF FFTInPlace
<1>2. symb > m.number_of_symbols_per_fic
  BY <1>1, LastSymbolOnly
<1>3. symb \in Int /\ m.number_of_symbols_per_fic \in Int
  BY <1>1, LastSymbolOnly
<1>4. audio(symb) # {}
  BY <1>1, <1>2, <1>3
<1> QED BY <1>1, <1>4, LastSymbolOnly

\* The constructor establishes the invariant.
LEMMA Initially == CreateDemodulator => IInv
BY DEF CreateDemodulator, IInv, Modes, Phases

\* Every step of the demodulator keeps it.
LEMMA Inductive == IInv /\ [DemodulatorNext]_demodulator_vars => IInv'
<1> SUFFICES ASSUME IInv, [DemodulatorNext]_demodulator_vars PROVE IInv'
  OBVIOUS
<1>1. ASSUME NEW s \in Stations \cup {FicOnly}, Resume(s) PROVE IInv'
  BY <1>1 DEF IInv, Resume, Phases
<1>2. CASE Copy
  <2>1. Protected' = Protected
    BY <1>2 DEF Copy, Protected, symb_end_addr_, decode_fic_only_, m
  <2> QED BY <1>2, <2>1 DEF IInv, Copy, Phases
<1>3. CASE FFTInPlace
  <2>1. Protected' = Protected
    BY <1>3 DEF FFTInPlace, Protected, symb_end_addr_, decode_fic_only_, m
  <2>2. tail' = "samples" \/ Protected
    BY <1>3, SpoiltOnlyIfProtected DEF IInv, FFTInPlace
  <2> QED BY <1>3, <2>1, <2>2 DEF IInv, FFTInPlace, Phases
<1>4. CASE DeQPSK
  <2>1. Protected' = Protected
    BY <1>4 DEF DeQPSK, Protected, symb_end_addr_, decode_fic_only_, m
  <2> QED BY <1>4, <2>1 DEF IInv, DeQPSK, Phases
<1>5. CASE Restore
  BY <1>5 DEF IInv, Restore, Phases
<1>6. CASE SearchNextNull
  <2>1. Protected' = Protected
    BY <1>6 DEF SearchNextNull, Protected, symb_end_addr_, decode_fic_only_, m
  <2> QED BY <1>6, <2>1 DEF IInv, SearchNextNull, Phases
<1>7. CASE UNCHANGED demodulator_vars
  <2>1. Protected' = Protected
    BY <1>7 DEF demodulator_vars, Protected, symb_end_addr_, decode_fic_only_, m
  <2> QED BY <1>7, <2>1 DEF IInv, demodulator_vars, Phases
<1> QED BY <1>1, <1>2, <1>3, <1>4, <1>5, <1>6, <1>7 DEF DemodulatorNext

\* For every set of stations and in every mode: a frame that is done leaves the samples
\* before the next null symbol as they were received (Demodulator::Process).
THEOREM NullSymbolKept == DemodulatorSpec => []NextNullIntact
<1>1. IInv => NextNullIntact
  BY DEF IInv, NextNullIntact
<1> QED BY <1>1, Initially, Inductive, PTL DEF DemodulatorSpec
-----------------------------------------------------------------------------
(* Every symbol that is demodulated was transformed, and none twice: symbols   *)
(* are shared by the FIC and the first CIF, and by two CIFs that are read to   *)
(* their ends, and there the second is skipped.                                *)

audio(symb) == {cif \in Cifs : symb \in start_symb(cif)..end_symb(cif) /\ ~Skipped(cif, symb)}
count(set) == IF set = {} THEN 0 ELSE IF \E c \in set : set = {c} THEN 1 ELSE 2
times == [symb \in Symbols |->
            (IF symb <= m.number_of_symbols_per_fic THEN 1 ELSE 0) + count(audio(symb))]
each == symb_end_addr_ - symb_start_addr_ + 1
units == [n \in 1..(m.number_of_symbols_per_fic
                      + (IF decode_fic_only_ THEN 0 ELSE m.number_of_cif * each)) |->
            IF n <= m.number_of_symbols_per_fic THEN n
            ELSE 1 + start_symb((n - m.number_of_symbols_per_fic - 1) \div each)
                 + ((n - m.number_of_symbols_per_fic - 1) % each)]

TInv ==
  /\ IInv
  /\ phase \in {"created", "resumed", "copied"} => transformed = [symb \in Symbols |-> 0]
  /\ phase \in {"transformed", "written", "done"} => transformed = times
  /\ phase \in {"written", "done"} => unit = units

\* How the symbols of a frame are divided: the FIC, and CIFs of P symbols each.
Divided(F, P, N, C, cu) ==
  /\ m.number_of_symbols_per_fic = F /\ m.number_symbols_per_cif = P
  /\ m.number_of_symbols = N /\ m.number_of_cif = C /\ m.number_cu_per_symbol = cu

\* The four ways in which the modes of the standard divide a frame.
LEMMA FrameDivided ==
  ASSUME IInv
  PROVE  \/ Divided(3, 18, 76, 4, 48) \/ Divided(3, 72, 76, 1, 12)
         \/ Divided(8, 144, 153, 1, 6) \/ Divided(3, 36, 76, 2, 24)
<1>1. PICK mode \in Modes : mode_parameters_ = SetModeParameters(mode)
  BY DEF IInv
<1>2. CASE mode = "I"
  BY <1>1, <1>2 DEF SetModeParameters, ModeParameters, Divided, m
<1>3. CASE mode = "II"
  BY <1>1, <1>3 DEF SetModeParameters, ModeParameters, Divided, m
<1>4. CASE mode = "III"
  BY <1>1, <1>4 DEF SetModeParameters, ModeParameters, Divided, m
<1>5. CASE mode = "IV"
  BY <1>1, <1>5 DEF SetModeParameters, ModeParameters, Divided, m
<1> QED BY <1>2, <1>3, <1>4, <1>5 DEF Modes

\* The symbols of a CIF lie between those of the FIC and the end of the frame, and
\* begin where those of the CIF before end.
LEMMA CifsInOrder ==
  ASSUME IInv
  PROVE  /\ m.number_of_symbols_per_fic \in Nat /\ m.number_symbols_per_cif \in Nat \ {0}
         /\ m.number_of_symbols \in Nat /\ m.number_of_symbols_per_fic < m.number_of_symbols
         /\ \A c \in Cifs : /\ c \in Nat
                           /\ FirstOfCif(c) \in Nat /\ m.number_of_symbols_per_fic <= FirstOfCif(c)
                           /\ FirstOfCif(c) + m.number_symbols_per_cif < m.number_of_symbols
                           /\ (c = 0 => FirstOfCif(c) = m.number_of_symbols_per_fic)
                           /\ (c # 0 => /\ c - 1 \in Cifs
                                       /\ FirstOfCif(c) = FirstOfCif(c - 1) + m.number_symbols_per_cif)
         /\ \A c, d \in Cifs : c < d => FirstOfCif(c) + m.number_symbols_per_cif <= FirstOfCif(d)
<1>1. CASE Divided(3, 18, 76, 4, 48)
  BY <1>1 DEF Divided, FirstOfCif, Cifs
<1>2. CASE Divided(3, 72, 76, 1, 12)
  BY <1>2 DEF Divided, FirstOfCif, Cifs
<1>3. CASE Divided(8, 144, 153, 1, 6)
  BY <1>3 DEF Divided, FirstOfCif, Cifs
<1>4. CASE Divided(3, 36, 76, 2, 24)
  BY <1>4 DEF Divided, FirstOfCif, Cifs
<1> QED BY <1>1, <1>2, <1>3, <1>4, FrameDivided

\* A sub-channel begins and ends inside a CIF.
LEMMA StationInCif ==
  ASSUME IInv, ~decode_fic_only_
  PROVE  /\ symb_start_addr_ \in Nat /\ symb_end_addr_ \in Nat
         /\ symb_start_addr_ <= symb_end_addr_ /\ symb_end_addr_ < m.number_symbols_per_cif
<1> DEFINE a == station.sub_ch_start_addr
           b == station.sub_ch_start_addr + station.sub_ch_size - 1
<1>1. station \in Stations
  BY DEF IInv, decode_fic_only_
<1>2. a \in 0..863 /\ b \in 0..863 /\ a <= b
  <2> DEFINE n == station.sub_ch_size
  <2>1. a \in 0..863 /\ n \in 1..864 /\ a + n <= 864 /\ b = a + n - 1
    BY <1>1, StationsAssumption
  <2> HIDE DEF a, b, n
  <2> QED BY <2>1
<1>3. symb_start_addr_ = a \div m.number_cu_per_symbol /\ symb_end_addr_ = b \div m.number_cu_per_symbol
  BY DEF symb_start_addr_, symb_end_addr_
<1> HIDE DEF a, b
<1>4. CASE Divided(3, 18, 76, 4, 48)
  <2>1. symb_start_addr_ = a \div 48 /\ symb_end_addr_ = b \div 48 /\ m.number_symbols_per_cif = 18
    BY <1>3, <1>4 DEF Divided
  <2> QED BY <1>2, <2>1
<1>5. CASE Divided(3, 72, 76, 1, 12)
  <2>1. symb_start_addr_ = a \div 12 /\ symb_end_addr_ = b \div 12 /\ m.number_symbols_per_cif = 72
    BY <1>3, <1>5 DEF Divided
  <2> QED BY <1>2, <2>1
<1>6. CASE Divided(8, 144, 153, 1, 6)
  <2>1. symb_start_addr_ = a \div 6 /\ symb_end_addr_ = b \div 6 /\ m.number_symbols_per_cif = 144
    BY <1>3, <1>6 DEF Divided
  <2> QED BY <1>2, <2>1
<1>7. CASE Divided(3, 36, 76, 2, 24)
  <2>1. symb_start_addr_ = a \div 24 /\ symb_end_addr_ = b \div 24 /\ m.number_symbols_per_cif = 36
    BY <1>3, <1>7 DEF Divided
  <2> QED BY <1>2, <2>1
<1> QED BY <1>4, <1>5, <1>6, <1>7, FrameDivided

\* No symbol belongs to the sub-channel of two CIFs, and none of the FIC's to any.
LEMMA SharedSymbolSkipped ==
  ASSUME IInv, NEW symb \in Int
  PROVE  /\ \A c, d \in audio(symb) : c = d
         /\ symb <= m.number_of_symbols_per_fic => audio(symb) = {}
<1> DEFINE F == m.number_of_symbols_per_fic
           P == m.number_symbols_per_cif
           s == symb_start_addr_
           e == symb_end_addr_
<1>1. CASE decode_fic_only_
  BY <1>1 DEF audio, Cifs
<1>2. CASE ~decode_fic_only_
  <2>1. /\ F \in Nat /\ P \in Nat \ {0} /\ s \in Nat /\ e \in Nat /\ s <= e /\ e < P
        /\ \A c \in Cifs : FirstOfCif(c) \in Nat /\ F <= FirstOfCif(c) /\ c \in Nat
        /\ \A c, d \in Cifs : c < d => FirstOfCif(c) + P <= FirstOfCif(d)
    BY <1>2, CifsInOrder, StationInCif
  <2>2. \A c \in Cifs : start_symb(c) = FirstOfCif(c) + s /\ end_symb(c) = 1 + FirstOfCif(c) + e
    BY DEF start_symb, end_symb
  <2>3. \A c \in audio(symb) :
           /\ c \in Cifs /\ FirstOfCif(c) + s <= symb /\ symb <= 1 + FirstOfCif(c) + e
           /\ symb # F
           /\ ~((1 + FirstOfCif(c) + e) - (FirstOfCif(c) + s) = P /\ symb = FirstOfCif(c))
    BY <2>1, <2>2 DEF audio, Skipped
  <2> HIDE DEF F, P, s, e
  <2>4. ASSUME NEW c \in audio(symb), NEW d \in audio(symb), c < d PROVE FALSE
    <3>1. FirstOfCif(c) + P <= FirstOfCif(d)
      BY <2>1, <2>3, <2>4
    <3> QED BY <2>1, <2>3, <3>1
  <2>5. \A c, d \in audio(symb) : c = d
    BY <2>1, <2>3, <2>4
  <2>6. symb <= F => audio(symb) = {}
    BY <2>1, <2>3
  <2> QED BY <2>5, <2>6 DEF F
<1> QED BY <1>1, <1>2

\* FFTInPlace visits a symbol once at most, and every symbol of the FIC and of a CIF once.
LEMMA NoneTwice ==
  ASSUME IInv, NEW symb \in Symbols
  PROVE  /\ times[symb] \in {0, 1}
         /\ symb <= m.number_of_symbols_per_fic \/ audio(symb) # {} => times[symb] = 1
<1>1. symb \in Int /\ m.number_of_symbols_per_fic \in Nat
  BY CifsInOrder DEF Symbols
<1>2. /\ \A c, d \in audio(symb) : c = d
      /\ symb <= m.number_of_symbols_per_fic => audio(symb) = {}
  BY <1>1, SharedSymbolSkipped
<1>3. audio(symb) # {} => \E c \in audio(symb) : audio(symb) = {c}
  BY <1>2
<1>4. count(audio(symb)) = IF audio(symb) = {} THEN 0 ELSE 1
  BY <1>3 DEF count
<1>5. times[symb] = (IF symb <= m.number_of_symbols_per_fic THEN 1 ELSE 0) + count(audio(symb))
  BY DEF times
<1> QED BY <1>1, <1>2, <1>4, <1>5

\* A symbol of a sub-channel that is demodulated, and the one before it, is transformed.
LEMMA WrittenIsTransformed ==
  ASSUME IInv, ~decode_fic_only_, NEW c \in Cifs, NEW r \in 0..(symb_end_addr_ - symb_start_addr_)
  PROVE  LET x == 1 + start_symb(c) + r
         IN x \in Symbols /\ x - 1 \in Symbols /\ times[x] = 1 /\ times[x - 1] = 1
<1> DEFINE F == m.number_of_symbols_per_fic
           P == m.number_symbols_per_cif
           N == m.number_of_symbols
           s == symb_start_addr_
           e == symb_end_addr_
           f == FirstOfCif(c)
           x == 1 + f + s + r
<1>1. /\ F \in Nat /\ P \in Nat \ {0} /\ N \in Nat /\ s \in Nat /\ e \in Nat /\ s <= e /\ e < P
      /\ f \in Nat /\ F <= f /\ f + P < N /\ c \in Nat
      /\ (c = 0 => f = F) /\ (c # 0 => c - 1 \in Cifs /\ f = FirstOfCif(c - 1) + P)
  BY CifsInOrder, StationInCif
<1>2. r \in 0..(e - s) /\ 1 + start_symb(c) + r = x
  BY <1>1 DEF start_symb
<1>3. start_symb(c) = f + s /\ end_symb(c) = 1 + f + e
  BY DEF start_symb, end_symb
<1>4. c # 0 => start_symb(c - 1) = FirstOfCif(c - 1) + s /\ end_symb(c - 1) = 1 + FirstOfCif(c - 1) + e
  BY DEF start_symb, end_symb
<1>5. x \in Symbols /\ x - 1 \in Symbols
  <2> HIDE DEF F, P, s, e, f
  <2>1. 0 <= x - 1 /\ x \in Int /\ x <= N - 1
    BY <1>1, <1>2
  <2> HIDE DEF x, N
  <2>2. x \in 0..(N - 1) /\ x - 1 \in 0..(N - 1)
    BY <1>1, <2>1
  <2> QED BY <2>2 DEF Symbols, N
<1>6. c \in audio(x)
  <2>1. x \in start_symb(c)..end_symb(c) /\ x # F /\ x # f
    <3> HIDE DEF F, P, N, s, e, f
    <3> QED BY <1>1, <1>2, <1>3
  <2> QED BY <2>1 DEF audio, Skipped
<1>7. x - 1 <= F \/ audio(x - 1) # {}
  <2>1. CASE f = F /\ s = 0 /\ r = 0
    <3> HIDE DEF F, P, N, s, e, f
    <3> QED BY <1>1, <2>1
  <2>2. CASE x - 1 # F /\ ~(end_symb(c) - start_symb(c) = P /\ x - 1 = f)
    <3>1. x - 1 \in start_symb(c)..end_symb(c)
      <4> HIDE DEF F, P, N, s, e, f
      <4> QED BY <1>1, <1>2, <1>3
    <3> QED BY <2>2, <3>1 DEF audio, Skipped
  <2>3. CASE x - 1 # F /\ end_symb(c) - start_symb(c) = P /\ x - 1 = f
    <3> DEFINE g == FirstOfCif(c - 1)
    <3>1. c # 0 /\ c - 1 \in Cifs /\ f = g + P
      BY <1>1, <2>3
    <3>2. g \in Nat
      BY <3>1, CifsInOrder
    <3>3. x - 1 \in start_symb(c - 1)..end_symb(c - 1) /\ x - 1 # F /\ x - 1 # g
      <4>1. start_symb(c - 1) = g + s /\ end_symb(c - 1) = 1 + g + e
        BY <1>4, <3>1
      <4> HIDE DEF F, P, N, s, e, f, g
      <4> QED BY <1>1, <1>2, <1>3, <2>3, <3>1, <3>2, <4>1
    <3> QED BY <3>1, <3>3 DEF audio, Skipped
  <2>4. x - 1 = F => f = F /\ s = 0 /\ r = 0
    <3> HIDE DEF F, P, N, s, e, f
    <3> QED BY <1>1, <1>2
  <2> QED BY <2>1, <2>2, <2>3, <2>4
<1>8. times[x] = 1 /\ times[x - 1] = 1
  BY <1>5, <1>6, <1>7, NoneTwice
<1> QED BY <1>2, <1>5, <1>8

\* The n-th of the units of all CIFs is one of each of a CIF.
LEMMA UnitOfCif ==
  ASSUME NEW k \in Nat, NEW q \in Nat \ {0}, NEW C \in {1, 2, 4}, k < C * q
  PROVE  k \div q \in 0..(C - 1) /\ k % q \in 0..(q - 1)
<1>1. k = q * (k \div q) + (k % q) /\ k % q \in 0..(q - 1) /\ k \div q \in Nat
  OBVIOUS
<1>2. ASSUME k \div q >= C PROVE FALSE
  <2>1. q * (k \div q) >= q * C
    BY <1>1, <1>2
  <2> QED BY <1>1, <2>1
<1> QED BY <1>1, <1>2

\* A symbol that DeQPSK demodulates, and the one before it, were transformed.
LEMMA UnitsTransformed ==
  ASSUME IInv, NEW n \in DOMAIN units
  PROVE  times[units[n]] = 1 /\ times[units[n] - 1] = 1
<1> DEFINE F == m.number_of_symbols_per_fic
           k == n - F - 1
<1>1. F \in Nat /\ m.number_of_symbols \in Nat /\ F < m.number_of_symbols
  BY CifsInOrder
<1>2. n \in 1..(F + (IF decode_fic_only_ THEN 0 ELSE m.number_of_cif * each))
  BY DEF units
<1>3. CASE n <= F
  <2>1. units[n] = n
    BY <1>3 DEF units
  <2>2. n \in Nat \ {0}
    <3> HIDE DEF F
    <3> QED BY <1>2, <1>3, <1>1
  <2>3. n \in Symbols /\ n - 1 \in Symbols /\ n - 1 <= F
    BY <1>1, <1>3, <2>2 DEF Symbols
  <2> QED BY <1>3, <2>1, <2>3, NoneTwice
<1>4. CASE ~(n <= F)
  <2>1. ~decode_fic_only_ /\ n \in F+1..(F + m.number_of_cif * each)
    <3> DEFINE all == m.number_of_cif * each
    <3>1. decode_fic_only_ \/ (each \in Nat \ {0} /\ m.number_of_cif \in {1, 2, 4})
      BY StationInCif, FrameDivided DEF each, Divided
    <3>2. decode_fic_only_ => FALSE
      <4> HIDE DEF F
      <4> QED BY <1>1, <1>2, <1>4
    <3>3. all \in Nat
      BY <3>1, <3>2
    <3>4. n \in 1..(F + all)
      BY <1>2, <3>2
    <3> HIDE DEF F, all
    <3>5. n \in F+1..(F + all)
      BY <1>1, <1>4, <3>3, <3>4
    <3> QED BY <3>2, <3>5 DEF all
  <2>2. each \in Nat \ {0} /\ m.number_of_cif \in {1, 2, 4}
    BY <2>1, StationInCif, FrameDivided DEF each, Divided
  <2>3. k \in Nat /\ k < m.number_of_cif * each
    <3> DEFINE all == m.number_of_cif * each
    <3>1. all \in Nat
      BY <2>2
    <3>2. n \in F+1..(F + all)
      BY <2>1
    <3> HIDE DEF F, all
    <3>3. k \in Nat /\ k < all
      BY <1>1, <3>1, <3>2
    <3> QED BY <3>3 DEF F, all
  <2>4. k \div each \in 0..(m.number_of_cif - 1) /\ k % each \in 0..(each - 1)
    <3> HIDE DEF k
    <3> QED BY <2>2, <2>3, UnitOfCif
  <2>5. k \div each \in Cifs /\ k % each \in 0..(symb_end_addr_ - symb_start_addr_)
    <3> DEFINE q == k \div each
               r == k % each
    <3>1. symb_start_addr_ \in Nat /\ symb_end_addr_ \in Nat
      BY <2>1, StationInCif
    <3>2. q \in Cifs
      BY <2>1, <2>4 DEF Cifs
    <3>3. r \in 0..(each - 1)
      BY <2>4
    <3> HIDE DEF r
    <3>4. r \in 0..(symb_end_addr_ - symb_start_addr_)
      BY <3>1, <3>3 DEF each
    <3> QED BY <3>2, <3>4 DEF r
  <2>6. units[n] = 1 + start_symb(k \div each) + (k % each)
    BY <1>2, <1>4 DEF units
  <2> QED BY <2>1, <2>5, <2>6, WrittenIsTransformed
<1> QED BY <1>3, <1>4

\* What a frame needs depends on the mode and the station only.
LEMMA TimesUnchanged ==
  ASSUME UNCHANGED <<mode_parameters_, station>>
  PROVE  times' = times /\ units' = units /\ Symbols' = Symbols
<1>1. times' = times /\ Symbols' = Symbols
  BY DEF times, audio, start_symb, end_symb, FirstOfCif, Skipped, Symbols, Cifs,
         symb_start_addr_, symb_end_addr_, decode_fic_only_, m
<1>2. units' = units
  BY DEF units, each, start_symb, FirstOfCif,
         symb_start_addr_, symb_end_addr_, decode_fic_only_, m
<1> QED BY <1>1, <1>2

\* Every step keeps the account of transformed symbols.
LEMMA TransformedInductive == TInv /\ [DemodulatorNext]_demodulator_vars => TInv'
<1> SUFFICES ASSUME TInv, [DemodulatorNext]_demodulator_vars PROVE TInv'
  OBVIOUS
<1>1. IInv'
  BY Inductive DEF TInv
<1>2. ASSUME NEW s \in Stations \cup {FicOnly}, Resume(s) PROVE TInv'
  <2>1. Symbols' = Symbols
    BY <1>2 DEF Resume, Symbols, m
  <2> QED BY <1>1, <1>2, <2>1 DEF TInv, Resume
<1>3. CASE Copy
  BY <1>1, <1>3, TimesUnchanged DEF TInv, Copy
<1>4. CASE FFTInPlace
  <2>1. transformed' = times /\ phase' = "transformed"
    BY <1>4 DEF FFTInPlace, times, audio, count
  <2>2. times' = times
    BY <1>4, TimesUnchanged DEF FFTInPlace
  <2> QED BY <1>1, <2>1, <2>2 DEF TInv
<1>5. CASE DeQPSK
  <2>1. unit' = units /\ phase' = "written" /\ transformed' = transformed /\ phase = "transformed"
    BY <1>5 DEF DeQPSK, units, each
  <2>2. times' = times /\ units' = units
    BY <1>5, TimesUnchanged DEF DeQPSK
  <2> QED BY <1>1, <2>1, <2>2 DEF TInv
<1>6. CASE Restore
  BY <1>1, <1>6, TimesUnchanged DEF TInv, Restore
<1>7. CASE SearchNextNull
  BY <1>1, <1>7, TimesUnchanged DEF TInv, SearchNextNull
<1>8. CASE UNCHANGED demodulator_vars
  BY <1>1, <1>8, TimesUnchanged DEF TInv, demodulator_vars
<1> QED BY <1>2, <1>3, <1>4, <1>5, <1>6, <1>7, <1>8 DEF DemodulatorNext

\* For every set of stations and in every mode: no symbol of a frame is transformed twice,
\* and all that are demodulated were transformed, each with the one before it
\* (Demodulator::FFTInPlace and DeQPSK).
THEOREM SymbolsTransformedOnce == DemodulatorSpec => []TransformedOnce
<1>1. CreateDemodulator => TInv
  BY Initially DEF CreateDemodulator, TInv, Symbols
<1>2. TInv => TransformedOnce
  <2> SUFFICES ASSUME TInv PROVE TransformedOnce
    OBVIOUS
  <2>1. transformed = times \/ transformed = [symb \in Symbols |-> 0]
    BY DEF TInv, IInv, Phases
  <2>2. \A symb \in Symbols : transformed[symb] <= 1
    BY <2>1, NoneTwice DEF TInv
  <2>3. ASSUME phase \in {"written", "done"}, NEW n \in DOMAIN unit
        PROVE  transformed[unit[n]] = 1 /\ transformed[unit[n] - 1] = 1
    BY <2>3, UnitsTransformed DEF TInv
  <2> QED BY <2>2, <2>3 DEF TransformedOnce
<1> QED BY <1>1, <1>2, TransformedInductive, PTL DEF DemodulatorSpec
-----------------------------------------------------------------------------
(* Demodulator, scheduler and data decoder agree on what a frame is.           *)

CellsPerSymbol == {6, 12, 24, 48}
CapacityUnits == 0..863

\* The sub-channel with the cells around it fills its symbols.
Fills(a, n, q) == n + (a % q) + ((-(a + n)) % q) = q * ((a + n - 1) \div q - a \div q + 1)

\* For every sub-channel of a CIF: its padding is what remains of its outer symbols.
LEMMA PaddedToSymbols ==
  ASSUME NEW a \in CapacityUnits, NEW n \in 1..864, a + n <= 864, NEW q \in CellsPerSymbol
  PROVE  Fills(a, n, q)
<1>1. CASE q = 6
  BY <1>1 DEF CapacityUnits, Fills
<1>2. CASE q = 12
  BY <1>2 DEF CapacityUnits, Fills
<1>3. CASE q = 24
  BY <1>3 DEF CapacityUnits, Fills
<1>4. CASE q = 48
  BY <1>4 DEF CapacityUnits, Fills
<1> QED BY <1>1, <1>2, <1>3, <1>4 DEF CellsPerSymbol

\* A place in a frame as a symbol and a cell of it.
LEMMA SymbolAndCell ==
  ASSUME NEW h \in Nat, NEW q \in CellsPerSymbol, NEW r \in 0..(q - 1)
  PROVE  /\ (64 * q * h + 64 * r) \div (64 * q) = h
         /\ (64 * q * h + 64 * r) % (64 * q) = 64 * r
<1>1. CASE q = 6
  BY <1>1
<1>2. CASE q = 12
  BY <1>2
<1>3. CASE q = 24
  BY <1>3
<1>4. CASE q = 48
  BY <1>4
<1> QED BY <1>1, <1>2, <1>3, <1>4 DEF CellsPerSymbol

\* What a division by the capacity units of a symbol returns.
LEMMA Division ==
  ASSUME NEW x \in Int, NEW q \in CellsPerSymbol
  PROVE  /\ q \in Nat /\ x \div q \in Int /\ x % q \in 0..(q - 1)
         /\ (x \in Nat => x \div q \in Nat)
<1>1. q \in Nat \ {0}
  BY DEF CellsPerSymbol
<1>2. x \div q \in Int
  BY <1>1
<1>3. x % q \in 0..(q - 1)
  BY <1>1
<1>4. x \in Nat => x \div q \in Nat
  BY <1>1
<1> QED BY <1>1, <1>2, <1>3, <1>4

\* A later capacity unit never lies in an earlier symbol.
LEMMA LaterSymbol ==
  ASSUME NEW x \in CapacityUnits, NEW y \in CapacityUnits, x <= y, NEW q \in CellsPerSymbol
  PROVE  x \div q <= y \div q
<1>1. CASE q = 6
  BY <1>1 DEF CapacityUnits
<1>2. CASE q = 12
  BY <1>2 DEF CapacityUnits
<1>3. CASE q = 24
  BY <1>3 DEF CapacityUnits
<1>4. CASE q = 48
  BY <1>4 DEF CapacityUnits
<1> QED BY <1>1, <1>2, <1>3, <1>4 DEF CellsPerSymbol

\* Unit cu of a CIF that k symbols lie before, behind a FIC of F symbols.
LEMMA PlaceOfUnit ==
  ASSUME NEW a \in CapacityUnits, NEW cu \in CapacityUnits, NEW q \in CellsPerSymbol,
         NEW F \in Nat, NEW k \in Nat
  PROVE  64 * q * F + 64 * (a % q) + 64 * (q * k) + 64 * (cu - a)
           = 64 * q * (F + (k + ((cu \div q) - (a \div q)))) + 64 * (cu % q)
<1>1. CASE q = 6
  BY <1>1 DEF CapacityUnits
<1>2. CASE q = 12
  BY <1>2 DEF CapacityUnits
<1>3. CASE q = 24
  BY <1>3 DEF CapacityUnits
<1>4. CASE q = 48
  BY <1>4 DEF CapacityUnits
<1> QED BY <1>1, <1>2, <1>3, <1>4 DEF CellsPerSymbol

\* The cells of c CIFs, with the size of a symbol put first.
LEMMA Factored ==
  ASSUME NEW c \in Int, NEW q \in Int, NEW e \in Int
  PROVE  c * (64 * q * e) = 64 * (q * (c * e))
OBVIOUS

\* A symbol of a frame as a CIF and a symbol of that CIF.
LEMMA CifAndSymbol ==
  ASSUME NEW k \in Nat \ {0}, NEW c \in 0..3, NEW d \in 0..(k - 1)
  PROVE  (c * k + d) \div k = c /\ (c * k + d) % k = d
<1> DEFINE x == c * k + d
           v == x \div k
           r == x % k
<1>1. x \in Nat
  OBVIOUS
<1>2. v \in Nat /\ r \in 0..(k - 1) /\ x = k * v + r
  <2> HIDE DEF x
  <2> QED BY <1>1
<1> HIDE DEF v, r
<1>3. v = c
  <2>1. ASSUME v > c PROVE FALSE
    <3>1. k * v >= k * (c + 1) /\ k * (c + 1) = c * k + k
      BY <1>2, <2>1
    <3> QED BY <1>2, <3>1
  <2>2. ASSUME v < c PROVE FALSE
    <3>1. k * (v + 1) <= k * c /\ k * (v + 1) = k * v + k /\ k * c = c * k
      BY <1>2, <2>2
    <3> QED BY <1>2, <3>1
  <2> QED BY <1>2, <2>1, <2>2
<1>4. r = d
  <2>1. k * v = c * k
    BY <1>3
  <2> QED BY <1>2, <2>1
<1> QED BY <1>3, <1>4 DEF v, r

\* The sizes of a mode that the three components compute with.
LEMMA SizesOfMode ==
  ASSUME IInv
  PROVE  /\ m.number_cu_per_symbol \in CellsPerSymbol
         /\ 2 * m.number_of_carriers = 64 * m.number_cu_per_symbol
         /\ m.fic_size = 64 * m.number_cu_per_symbol * m.number_of_symbols_per_fic
         /\ m.number_of_symbols_per_fic \in {3, 8} /\ m.number_of_cif \in {1, 2, 4}
<1>1. PICK mode \in Modes : mode_parameters_ = SetModeParameters(mode)
  BY DEF IInv
<1>2. CASE mode = "I"
  BY <1>1, <1>2 DEF SetModeParameters, ModeParameters, CellsPerSymbol, m
<1>3. CASE mode = "II"
  BY <1>1, <1>3 DEF SetModeParameters, ModeParameters, CellsPerSymbol, m
<1>4. CASE mode = "III"
  BY <1>1, <1>4 DEF SetModeParameters, ModeParameters, CellsPerSymbol, m
<1>5. CASE mode = "IV"
  BY <1>1, <1>5 DEF SetModeParameters, ModeParameters, CellsPerSymbol, m
<1> QED BY <1>2, <1>3, <1>4, <1>5 DEF Modes

\* The numbers of the station that is played.
LEMMA StationFits ==
  ASSUME IInv, ~decode_fic_only_
  PROVE  /\ station.sub_ch_start_addr \in 0..863 /\ station.sub_ch_size \in 1..864
         /\ station.sub_ch_start_addr + station.sub_ch_size <= 864
<1>1. station \in Stations
  BY DEF IInv, decode_fic_only_
<1> QED BY <1>1, StationsAssumption

\* What the data decoder takes for a CIF is what the demodulator writes of it.
LEMMA CifPadded ==
  ASSUME IInv, ~decode_fic_only_
  PROVE  audio_and_pad_size_ = 64 * m.number_cu_per_symbol * each
<1> DEFINE a == station.sub_ch_start_addr
           n == station.sub_ch_size
           q == m.number_cu_per_symbol
           s == a \div q
           e == (a + n - 1) \div q
           left == a % q
           right == (-(a + n)) % q
<1>1. a \in 0..863 /\ n \in 1..864 /\ a + n <= 864 /\ q \in CellsPerSymbol
  BY StationFits, SizesOfMode
<1>1a. a \in CapacityUnits
  BY <1>1 DEF CapacityUnits
<1>2. each = e - s + 1
  BY DEF each, symb_end_addr_, symb_start_addr_
<1>3. n + left + right = q * (e - s + 1)
  <2> HIDE DEF a, n, q
  <2> DEFINE Long(y)     == y \in 1..864
             Fit(x, y)   == x + y <= 864
  <2>1. \A x \in CapacityUnits, z \in CellsPerSymbol : \A y :
          Long(y) /\ Fit(x, y) => Fills(x, y, z)
    BY PaddedToSymbols
  <2>2. Long(n) /\ Fit(a, n) /\ q \in CellsPerSymbol
    BY <1>1
  <2> HIDE DEF Long, Fit
  <2>3. Fills(a, n, q)
    BY <1>1a, <2>1, <2>2
  <2> QED BY <2>3 DEF Fills
<1>4. audio_and_pad_size_ = 64 * n + 64 * left + 64 * right
  BY DEF audio_and_pad_size_, audio_size_, leftPaddingOffset, rightPaddingOffset
<1>5. left \in Int /\ right \in Int /\ s \in Int /\ e \in Int /\ q \in Int /\ n \in Int
  <2> DEFINE b == a + n - 1
             c == -(a + n)
  <2>1. a \in Int /\ b \in Int /\ c \in Int /\ n \in Int
    <3> HIDE DEF a, n
    <3> QED BY <1>1
  <2> HIDE DEF a, n, q, b, c
  <2> QED BY <1>1, <2>1, Division DEF b, c
<1> HIDE DEF a, n, q, s, e, left, right
<1>6. 64 * n + 64 * left + 64 * right = 64 * (q * (e - s + 1))
  BY <1>3, <1>5
<1>7. 64 * (q * (e - s + 1)) = 64 * q * (e - s + 1)
  BY <1>5
<1> QED BY <1>2, <1>4, <1>6, <1>7 DEF q

\* Where the decoder reads a capacity unit, its symbol was written.
LEMMA UnitFound ==
  ASSUME IInv, ~decode_fic_only_, NEW cif \in Cifs,
         NEW cu \in station.sub_ch_start_addr..(station.sub_ch_start_addr + station.sub_ch_size - 1)
  PROVE  LET symbol == 2 * m.number_of_carriers
         IN /\ units[(ReadAt(cif, cu) \div symbol) + 1]
                 = 1 + FirstOfCif(cif) + (cu \div m.number_cu_per_symbol)
            /\ ReadAt(cif, cu) % symbol = 64 * (cu % m.number_cu_per_symbol)
<1> DEFINE a == station.sub_ch_start_addr
           q == m.number_cu_per_symbol
           F == m.number_of_symbols_per_fic
           s == a \div q
           d == (cu \div q) - s
           h == F + (cif * each + d)
<1>1. /\ a \in 0..863 /\ cu \in 0..863 /\ q \in CellsPerSymbol /\ F \in {3, 8}
  <2> DEFINE n == station.sub_ch_size
  <2>1. a \in 0..863 /\ n \in 1..864 /\ a + n <= 864 /\ cu \in a..(a + n - 1)
    BY StationFits
  <2> HIDE DEF a, n
  <2>2. cu \in 0..863
    BY <2>1
  <2> QED BY <2>1, <2>2, SizesOfMode DEF a
<1>1a. a \in CapacityUnits /\ cu \in CapacityUnits /\ q \in CellsPerSymbol
  BY <1>1 DEF CapacityUnits
<1>2. each \in Nat \ {0} /\ symb_start_addr_ = s /\ symb_end_addr_ \in Nat /\ s \in Nat
  BY StationInCif DEF each, symb_start_addr_
<1>3. cif \in 0..3 /\ cif \in 0..(m.number_of_cif - 1)
  BY SizesOfMode DEF Cifs
<1>4. cu \div q \in s..symb_end_addr_
  <2> DEFINE e == a + station.sub_ch_size - 1
             last == e \div q
  <2>1. a <= cu /\ cu <= e /\ e \in 0..863
    <3> DEFINE n == station.sub_ch_size
    <3>0. cu \in a..(a + n - 1)
      OBVIOUS
    <3>1. n \in 1..864 /\ a + n <= 864
      BY StationFits
    <3> HIDE DEF a, n
    <3>2. a <= cu /\ cu <= a + n - 1 /\ a + n - 1 \in 0..863
      BY <1>1, <3>0, <3>1
    <3> QED BY <3>2 DEF n
  <2>2. symb_end_addr_ = last
    BY DEF symb_end_addr_
  <2> DEFINE g == cu \div q
  <2>3. g \in Int /\ s \in Int /\ last \in Int /\ s <= g /\ g <= last
    <3> HIDE DEF a, q, e
    <3>1. s <= g /\ g <= last
      <4> DEFINE Later(x, y, z) == x \div z <= y \div z
      <4>1. \A x, y \in CapacityUnits, z \in CellsPerSymbol : x <= y => Later(x, y, z)
        BY LaterSymbol
      <4>2. e \in CapacityUnits
        BY <2>1 DEF CapacityUnits
      <4> HIDE DEF Later
      <4>3. Later(a, cu, q) /\ Later(cu, e, q)
        BY <1>1a, <2>1, <4>1, <4>2
      <4> QED BY <4>3 DEF Later
    <3>2. a \in Int /\ cu \in Int /\ e \in Int
      BY <1>1, <2>1
    <3>3. g \in Int /\ s \in Int /\ last \in Int
      BY <1>1, <3>2, Division
    <3> QED BY <3>1, <3>3
  <2> HIDE DEF g, s, last
  <2>4. g \in s..last
    BY <2>3
  <2> QED BY <2>2, <2>4 DEF g
<1>5. d \in 0..(each - 1)
  <2>1. s <= symb_end_addr_
    BY <1>2, StationInCif
  <2>2. each = symb_end_addr_ - s + 1
    BY <1>2 DEF each
  <2> DEFINE g == cu \div q
  <2>3. g \in s..symb_end_addr_
    BY <1>4
  <2> HIDE DEF g, s
  <2>4. g - s \in 0..(each - 1)
    BY <1>2, <2>1, <2>2, <2>3
  <2> QED BY <2>4 DEF g
<1>6. ReadAt(cif, cu) = 64 * q * h + 64 * (cu % q)
  <2>1. ReadAt(cif, cu) = 64 * q * F + 64 * (a % q) + cif * (64 * q * each) + 64 * (cu - a)
    BY CifPadded, SizesOfMode DEF ReadAt, leftPaddingOffset
  <2> DEFINE k == cif * each
  <2>2. k \in Nat /\ cif * (64 * q * each) = 64 * (q * k)
    <3>1. cif \in Nat /\ q \in Nat /\ each \in Nat
      BY <1>1, <1>2, <1>3 DEF CellsPerSymbol
    <3> HIDE DEF q
    <3> QED BY <3>1, Factored
  <2>3. F \in Nat
    BY <1>1
  <2> HIDE DEF a, q, F, k
  <2>4. ReadAt(cif, cu) = 64 * q * F + 64 * (a % q) + 64 * (q * k) + 64 * (cu - a)
    BY <2>1, <2>2
  <2>5. ReadAt(cif, cu) = 64 * q * (F + (k + ((cu \div q) - (a \div q)))) + 64 * (cu % q)
    <3>1. 64 * q * F + 64 * (a % q) + 64 * (q * k) + 64 * (cu - a)
            = 64 * q * (F + (k + ((cu \div q) - (a \div q)))) + 64 * (cu % q)
      <4> DEFINE Same(x, y, z, f, g) ==
                   64 * z * f + 64 * (x % z) + 64 * (z * g) + 64 * (y - x)
                     = 64 * z * (f + (g + ((y \div z) - (x \div z)))) + 64 * (y % z)
      <4>1. \A x, y \in CapacityUnits, z \in CellsPerSymbol, f, g \in Nat : Same(x, y, z, f, g)
        BY PlaceOfUnit
      <4> HIDE DEF Same
      <4>2. Same(a, cu, q, F, k)
        BY <1>1a, <2>2, <2>3, <4>1
      <4> QED BY <4>2 DEF Same
    <3> QED BY <2>4, <3>1, Zenon
  <2> QED BY <2>5 DEF k
<1>7. h \in Nat /\ cu % q \in 0..(q - 1)
  <2>1. cu % q \in 0..(q - 1)
    <3> HIDE DEF q
    <3> QED BY <1>1, Division
  <2> HIDE DEF q, s, d
  <2> QED BY <1>1, <1>2, <1>3, <1>5, <2>1
<1>8. ReadAt(cif, cu) \div (64 * q) = h /\ ReadAt(cif, cu) % (64 * q) = 64 * (cu % q)
  <2> DEFINE r == cu % q
  <2>1. ReadAt(cif, cu) = 64 * q * h + 64 * r /\ r \in 0..(q - 1)
    BY <1>6, <1>7
  <2> HIDE DEF q, h, r
  <2>2. ReadAt(cif, cu) \div (64 * q) = h /\ ReadAt(cif, cu) % (64 * q) = 64 * r
    BY <1>1, <1>7, <2>1, SymbolAndCell
  <2> QED BY <2>2 DEF r
<1>9. units[h + 1] = 1 + start_symb(cif) + d
  <2> DEFINE k == cif * each + d
  <2>1. k \div each = cif /\ k % each = d
    BY <1>2, <1>3, <1>5, CifAndSymbol
  <2>2. k \in Nat /\ k < m.number_of_cif * each
    <3>1. cif + 1 <= m.number_of_cif /\ m.number_of_cif \in Nat
      BY <1>3, SizesOfMode
    <3>2. (cif + 1) * each <= m.number_of_cif * each /\ (cif + 1) * each = cif * each + each
      BY <1>2, <1>3, <3>1
    <3> DEFINE y == cif * each
               all == m.number_of_cif * each
    <3>3. y \in Nat /\ all \in Nat /\ y + each <= all
      BY <1>2, <1>3, <3>1, <3>2
    <3> HIDE DEF y, all, d
    <3>4. y + d \in Nat /\ y + d < all
      BY <1>2, <1>5, <3>3
    <3> QED BY <3>4 DEF y, all
  <2>3. h + 1 = F + k + 1
    <3> HIDE DEF F, d, k
    <3>1. h = F + k
      BY DEF k
    <3> QED BY <3>1
  <2> DEFINE all == m.number_of_cif * each
             n == h + 1
  <2>4. all \in Nat /\ F \in Nat
    BY <1>1, <1>2, SizesOfMode
  <2>5. k \in Nat /\ k < all /\ n = F + k + 1
    BY <2>2, <2>3
  <2> HIDE DEF F, h, k, all, d
  <2>6. n \in 1..(F + all) /\ ~(n <= F) /\ n - F - 1 = k
    BY <2>4, <2>5
  <2>7. n \in DOMAIN units
    <3> HIDE DEF n
    <3> QED BY <2>6 DEF units, F, all
  <2>8. units[n] = 1 + start_symb((n - F - 1) \div each) + ((n - F - 1) % each)
    <3> HIDE DEF n
    <3> QED BY <2>6, <2>7 DEF units, F
  <2> QED BY <2>1, <2>6, <2>8
<1>10. 1 + start_symb(cif) + d = 1 + FirstOfCif(cif) + (cu \div q)
  <2>1. FirstOfCif(cif) \in Int
    BY CifsInOrder
  <2>2. start_symb(cif) = FirstOfCif(cif) + s
    BY <1>2 DEF start_symb
  <2> DEFINE g == cu \div q
  <2>3. g \in Int /\ d = g - s
    BY <1>2, <1>4
  <2> HIDE DEF s, d, g
  <2> QED BY <1>2, <2>1, <2>2, <2>3 DEF g
<1>11. 2 * m.number_of_carriers = 64 * q
  BY SizesOfMode
<1> HIDE DEF q, h, d
<1> QED BY <1>8, <1>9, <1>10, <1>11 DEF q

\* A frame is as long as the scheduler moves its positions by.
LEMMA FrameAsLong ==
  ASSUME IInv
  PROVE  /\ Len(units) * (2 * m.number_of_carriers) = deqpsk_unit_size_
         /\ ~decode_fic_only_ => deqpsk_unit_size_ = m.fic_size + m.number_of_cif * audio_and_pad_size_
<1> DEFINE q == m.number_cu_per_symbol
           F == m.number_of_symbols_per_fic
           C == m.number_of_cif
           all == IF decode_fic_only_ THEN 0 ELSE C * each
<1>1. /\ q \in Nat /\ F \in Nat /\ C \in Nat /\ m.fic_size = 64 * q * F
      /\ 2 * m.number_of_carriers = 64 * q
  BY SizesOfMode DEF CellsPerSymbol
<1>2. ~decode_fic_only_ => each \in Nat
  BY StationInCif DEF each
<1>3. all \in Nat
  BY <1>1, <1>2
<1>4. Len(units) = F + all
  <2>1. F + all \in Nat /\ units = [n \in 1..(F + all) |-> units[n]]
    BY <1>1, <1>3 DEF units
  <2> HIDE DEF F, all
  <2> QED BY <2>1
<1>5. CASE decode_fic_only_
  <2>1. deqpsk_unit_size_ = 64 * q * F /\ Len(units) = F
    BY <1>1, <1>4, <1>5 DEF deqpsk_unit_size_
  <2>2. F * (64 * q) = 64 * q * F
    <3> HIDE DEF F, q
    <3> QED BY <1>1
  <2> QED BY <1>1, <1>5, <2>1, <2>2
<1>6. CASE ~decode_fic_only_
  <2>1. deqpsk_unit_size_ = 64 * (F + each * C) * q
    BY <1>6 DEF deqpsk_unit_size_, each, symb_end_addr_, symb_start_addr_
  <2>2. Len(units) = F + C * each /\ audio_and_pad_size_ = 64 * q * each
    BY <1>4, <1>6, CifPadded
  <2>3. /\ (F + C * each) * (64 * q) = 64 * (F + each * C) * q
        /\ 64 * q * F + C * (64 * q * each) = 64 * (F + each * C) * q
    <3>1. each \in Nat
      BY <1>2, <1>6
    <3> DEFINE y == C * each
    <3>2. y \in Nat /\ each * C = y /\ C * (64 * q * each) = 64 * (q * y)
      <4> HIDE DEF C, q
      <4> QED BY <1>1, <3>1, Factored
    <3> HIDE DEF y
    <3>3. (F + y) * (64 * q) = 64 * (F + y) * q /\ 64 * q * F + 64 * (q * y) = 64 * (F + y) * q
      <4> HIDE DEF F, q
      <4> QED BY <1>1, <3>2
    <3> QED BY <3>2, <3>3 DEF y
  <2> QED BY <1>1, <2>1, <2>2, <2>3
<1> QED BY <1>5, <1>6

\* For every set of stations and in every mode: as much is written for a frame as the
\* scheduler moves its positions by, and the first and the last capacity unit of the
\* sub-channel are in every CIF where the data decoder takes them from
\* (Demodulator::DeQPSK, CalculateDeqpskBuffer, TimeDeinterleaverInit).
THEOREM ComponentsAgree == DemodulatorSpec => []UnitsAgree
<1>1. CreateDemodulator => TInv
  BY Initially DEF CreateDemodulator, TInv, Symbols
<1>2. TInv => UnitsAgree
  <2> SUFFICES ASSUME TInv, phase \in {"written", "done"} PROVE UnitsAgree
    BY DEF UnitsAgree
  <2>1. unit = units /\ IInv
    BY DEF TInv
  <2>2. \A cif \in Cifs : ~decode_fic_only_
    BY DEF Cifs
  <2>3. ~decode_fic_only_ =>
          {station.sub_ch_start_addr, station.sub_ch_start_addr + station.sub_ch_size - 1}
            \subseteq station.sub_ch_start_addr..(station.sub_ch_start_addr + station.sub_ch_size - 1)
    <3> DEFINE a == station.sub_ch_start_addr
               n == station.sub_ch_size
    <3>1. ASSUME ~decode_fic_only_ PROVE a \in Int /\ n \in Int /\ n >= 1
      <4>1. a \in 0..863 /\ n \in 1..864
        BY <2>1, <3>1, StationFits
      <4> HIDE DEF a, n
      <4> QED BY <4>1
    <3> HIDE DEF a, n
    <3>2. a \in Int /\ n \in Int /\ n >= 1 => a \in a..(a + n - 1) /\ a + n - 1 \in a..(a + n - 1)
      OBVIOUS
    <3>3. ~decode_fic_only_ => {a, a + n - 1} \subseteq a..(a + n - 1)
      BY <3>1, <3>2, Zenon
    <3> QED BY <3>3 DEF a, n
  <2> QED BY <2>1, <2>2, <2>3, FrameAsLong, UnitFound DEF UnitsAgree
<1> QED BY <1>1, <1>2, TransformedInductive, PTL DEF DemodulatorSpec

\* And so is every unit between these two.
EveryUnitRead ==
  phase \in {"written", "done"} =>
    \A cif \in Cifs :
      \A cu \in station.sub_ch_start_addr..(station.sub_ch_start_addr + station.sub_ch_size - 1) :
        LET symbol == 2 * m.number_of_carriers
        IN /\ unit[(ReadAt(cif, cu) \div symbol) + 1]
                = 1 + FirstOfCif(cif) + (cu \div m.number_cu_per_symbol)
           /\ ReadAt(cif, cu) % symbol = 64 * (cu % m.number_cu_per_symbol)

\* For every set of stations and in every mode the data decoder reads each capacity unit
\* of the sub-channel from the symbol and the cell it was sent in (TimeDeinterleaverInit).
THEOREM UnitsInPlace == DemodulatorSpec => []EveryUnitRead
<1>1. CreateDemodulator => TInv
  BY Initially DEF CreateDemodulator, TInv, Symbols
<1>2. TInv => EveryUnitRead
  <2> SUFFICES ASSUME TInv, phase \in {"written", "done"} PROVE EveryUnitRead
    BY DEF EveryUnitRead
  <2>1. unit = units /\ IInv
    BY DEF TInv
  <2>2. \A cif \in Cifs : ~decode_fic_only_
    BY DEF Cifs
  <2> QED BY <2>1, <2>2, UnitFound DEF EveryUnitRead
<1> QED BY <1>1, <1>2, TransformedInductive, PTL DEF DemodulatorSpec
=============================================================================
