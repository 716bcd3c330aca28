--------------------------------- MODULE Fig ---------------------------------
(***************************************************************************)
(* The fast information groups as ExtractDataFromFIC reads them            *)
(* (extract_from_bitstream.cc).  A FIG's data is a function d from offsets *)
(* to bytes: d[0] holds the flags and the extension, and most extensions   *)
(* go on with a list of entries, each as long as its own flags say.        *)
(*                                                                         *)
(* For every extension the model keeps the walk, where an entry ends and   *)
(* the next one begins.  The contents are kept where the program uses      *)
(* them: sub-channels (0/1), services (0/2), packet mode (0/3), labels     *)
(* (1/1); the fields of the other extensions are stored by the code and    *)
(* read by nobody.                                                         *)
(***************************************************************************)
EXTENDS Integers, Sequences, SequencesExt

Flag(byte, value) == (byte \div value) % 2
Word(d, n) == 256 * d[n] + d[n + 1]

Extension(d) == d[0] % 32

\* P/D, 32-bit service identifiers instead of 16-bit ones
PD(d) == Flag(d[0], 32) = 1

-----------------------------------------------------------------------------
(* Where the next entry begins, for each extension of FIG 0 *)

SubChannelEnd(d, n) == n + (IF Flag(d[n + 2], 128) = 1 THEN 4 ELSE 3)

\* Faulty variant: the services' components are not stepped over.
ServiceEndNoComponents(d, n) == n + (IF PD(d) THEN 5 ELSE 3)

ServiceEnd(d, n) ==
  LET components == n + (IF PD(d) THEN 5 ELSE 3)
  IN components + 2 * (d[components - 1] % 16)

PacketModeEnd(d, n)        == n + 6
ConditionalAccessEnd(d, n) == n + 3
LanguageEnd(d, n)          == n + (IF Flag(d[n], 128) = 1 THEN 3 ELSE 2)

LinkingEnd(d, n) ==
  IF Flag(d[n], 128) = 1 THEN n + 2
  ELSE n + 3 + (d[n + 2] % 16) * (IF PD(d) THEN 4
                                  ELSE IF Flag(d[n], 16) = 1 THEN 3 ELSE 2)

\* The long form counts in a service's 32-bit form only.
GlobalDefinitionEnd(d, n) ==
  IF PD(d) THEN n + 6 + Flag(d[n + 5], 128) + Flag(d[n + 4], 128)
  ELSE n + 4 + Flag(d[n + 2], 128)

LtoEnd(d, n) ==
  IF Flag(d[1], 32) = 1 THEN n + 1 + 4 * (d[n] \div 64)
                        ELSE n + 2 + 2 * (d[n] \div 64)

\* An area of type 0 has no end: the walk stays where it is.
RegionEnd(d, n) == n + (IF d[n] \div 16 # 0 THEN 9 ELSE 0)

UserApplicationEnd(d, n)      == n + (IF PD(d) THEN 7 ELSE 5)
FecEnd(d, n)                  == n + 1
ProgrammeNumberEnd(d, n)      == n + 9
ProgrammeTypeEnd(d, n)        == n + 3 + Flag(d[n + 1], 32) + Flag(d[n + 1], 16)
AnnouncementSupportEnd(d, n)  == n + 5 + (d[n + 4] % 64)
AnnouncementSwitchingEnd(d, n) == n + 4 + Flag(d[n + 3], 64)

\* An item of a list of frequencies; one of an unknown kind has no end either.
FrequencyItemEnd(d, n) ==
  LET kind == d[n + 4] \div 16
      count == d[n + 4] % 8
  IN CASE kind \in {0, 1}      -> n + 5 + 3 * count
       [] kind \in {8, 9, 10}  -> n + 5 + count
       [] kind = 12            -> n + 5 + 2 * count
       [] kind \in {14, 6}     -> n + 11 + 3 * ((count + 2) \div 3)
       [] OTHER                -> n

FrequencyEnd(d, n) ==
  LET after[i \in 0..31] == IF i = 0 THEN n ELSE FrequencyItemEnd(d, after[i - 1])
  IN after[d[n + 1] % 32]

\* `data[number_of_byte >> 7]' is data[0] wherever the walk is.
TransmitterEnd(d, n) ==
  IF d[n \div 128] # 0 THEN n + 2 + 6 * (d[n + 1] % 8) ELSE n + 6

OtherServiceEnd(d, n) ==
  LET ids == n + (IF PD(d) THEN 5 ELSE 3)
  IN ids + 2 * (d[ids - 1] \div 16)

OtherSupportEnd(d, n)   == n + 5 + 2 * (d[n + 4] % 16)
OtherSwitchingEnd(d, n) == n + 7 + Flag(d[n + 3], 64)
FmSupportEnd(d, n)      == n + 3 + 2 * (d[n + 2] % 16)
FmSwitchingEnd(d, n)    == n + 4

\* The extensions of FIG 0 that hold a list of entries.
Listed == {1, 2, 3, 4, 5, 6, 8, 9, 11, 13, 14, 16, 17, 18, 19, 21, 22, 24, 25, 26, 27, 28}

EntryEnd(ext, d, n) ==
  CASE ext = 1  -> SubChannelEnd(d, n)
    [] ext = 2  -> ServiceEnd(d, n)
    [] ext = 3  -> PacketModeEnd(d, n)
    [] ext = 4  -> ConditionalAccessEnd(d, n)
    [] ext = 5  -> LanguageEnd(d, n)
    [] ext = 6  -> LinkingEnd(d, n)
    [] ext = 8  -> GlobalDefinitionEnd(d, n)
    [] ext = 9  -> LtoEnd(d, n)
    [] ext = 11 -> RegionEnd(d, n)
    [] ext = 13 -> UserApplicationEnd(d, n)
    [] ext = 14 -> FecEnd(d, n)
    [] ext = 16 -> ProgrammeNumberEnd(d, n)
    [] ext = 17 -> ProgrammeTypeEnd(d, n)
    [] ext = 18 -> AnnouncementSupportEnd(d, n)
    [] ext = 19 -> AnnouncementSwitchingEnd(d, n)
    [] ext = 21 -> FrequencyEnd(d, n)
    [] ext = 22 -> TransmitterEnd(d, n)
    [] ext = 24 -> OtherServiceEnd(d, n)
    [] ext = 25 -> OtherSupportEnd(d, n)
    [] ext = 26 -> OtherSwitchingEnd(d, n)
    [] ext = 27 -> FmSupportEnd(d, n)
    [] ext = 28 -> FmSwitchingEnd(d, n)

MCI == 0
LABELS1 == 1
FIC_DATA_CHANNEL == 5

\* FIG 5/1 holds traffic messages of two bytes.
TrafficMessages(d) == d[0] % 8 = 1 /\ Flag(d[0], 128) = 1 /\ Flag(d[0], 64) = 0

\* Where the walk of a FIG starts; one without entries to visit is over.
FirstEntry(type, d, size) ==
  CASE type = MCI /\ Extension(d) = 9 -> IF Flag(d[0], 128) = 1 THEN 4 ELSE size
    [] type = MCI /\ Extension(d) \in Listed \ {9} -> 1
    [] type = FIC_DATA_CHANNEL /\ TrafficMessages(d) -> 2
    [] OTHER -> size

NextEntry(type, d, n) ==
  IF type = MCI THEN EntryEnd(Extension(d), d, n) ELSE n + 2

-----------------------------------------------------------------------------
(* The contents *)

\* The size keeps 8 bits and a wrong multiple of the two above them; of the
\* option's three bits the one that means type B is not looked at.
SubChannel(d, n) ==
  IF Flag(d[n + 2], 128) = 1
  THEN [subchannel_id |-> d[n] \div 4, start_address |-> 256 * (d[n] % 4) + d[n + 1],
        is_long |-> TRUE,
        subchannel_size |-> 4 * (d[n + 2] % 4) + d[n + 3],
        protection_level |-> (d[n + 2] \div 4) % 4,
        protection_level_typeB |-> (d[n + 2] \div 32) % 4 # 0,
        table6_subchannel_short_info |-> 0]
  ELSE [subchannel_id |-> d[n] \div 4, start_address |-> 256 * (d[n] % 4) + d[n + 1],
        is_long |-> FALSE,
        subchannel_size |-> 0, protection_level |-> 0, protection_level_typeB |-> FALSE,
        table6_subchannel_short_info |-> d[n + 2] % 64]

\* Of a service's components only the sub-channel of the first is ever used.
\* The structure is shared by the services of a FIG: a first component that
\* has no sub-channel leaves the one of the service before it, `left'.  A
\* 32-bit identifier loses its upper half (service_id is a uint16_t).
Service(d, n, left) ==
  LET first == n + (IF PD(d) THEN 5 ELSE 3)
      has_sub_channel == d[first - 1] % 16 > 0 /\ d[first] \div 64 \in {0, 1}
  IN [service_id |-> IF PD(d) THEN Word(d, n + 2) ELSE Word(d, n),
      subchannel_id |-> IF has_sub_channel THEN d[first + 1] \div 4 ELSE left]

PacketMode(d, n) == d[n + 3] \div 4

\* The characters that differ from UTF-8, and what they become.
EBULatinToUTF8(ebu) ==
  CASE ebu = 0   -> << >>
    [] ebu = 134 -> <<195, 179>>
    [] ebu = 182 -> <<197, 132>>
    [] ebu = 198 -> <<195, 147>>
    [] ebu = 235 -> <<196, 134>>
    [] ebu = 251 -> <<196, 135>>
    [] ebu = 236 -> <<197, 154>>
    [] ebu = 252 -> <<197, 155>>
    [] ebu = 237 -> <<197, 185>>
    [] ebu = 253 -> <<197, 186>>
    [] OTHER     -> <<ebu>>

\* FM_Text_Label; that of an ensemble stays empty.
Label(d) ==
  LET text[i \in 0..16] ==
        IF i = 0 THEN << >> ELSE text[i - 1] \o EBULatinToUTF8(d[i + 2])
  IN IF d[0] % 8 = 1 THEN [id_field |-> Word(d, 1), label |-> text[16]]
     ELSE [id_field |-> 0, label |-> << >>]

\* Size in capacity units, protection level and bit rate of the short form.
Table6SubChannelShortInfo_ ==
  <<<<16, 5, 32>>, <<21, 4, 32>>, <<24, 3, 32>>, <<29, 2, 32>>, <<35, 1, 32>>,
    <<24, 5, 48>>, <<29, 4, 48>>, <<35, 3, 48>>, <<42, 2, 48>>, <<52, 1, 48>>,
    <<29, 5, 56>>, <<35, 4, 56>>, <<42, 3, 56>>, <<52, 2, 56>>,
    <<32, 5, 64>>, <<42, 4, 64>>, <<48, 3, 64>>, <<58, 2, 64>>, <<70, 1, 64>>,
    <<40, 5, 80>>, <<52, 4, 80>>, <<58, 3, 80>>, <<70, 2, 80>>, <<84, 1, 80>>,
    <<48, 5, 96>>, <<58, 4, 96>>, <<70, 3, 96>>, <<84, 2, 96>>, <<104, 1, 96>>,
    <<58, 5, 112>>, <<70, 4, 112>>, <<84, 3, 112>>, <<104, 2, 112>>,
    <<64, 5, 128>>, <<84, 4, 128>>, <<96, 3, 128>>, <<116, 2, 128>>, <<140, 1, 128>>,
    <<80, 5, 160>>, <<104, 4, 160>>, <<116, 3, 160>>, <<140, 2, 160>>, <<168, 1, 160>>,
    <<96, 5, 192>>, <<116, 4, 192>>, <<140, 3, 192>>, <<168, 2, 192>>, <<208, 1, 192>>,
    <<116, 5, 224>>, <<140, 4, 224>>, <<168, 3, 224>>, <<208, 2, 224>>, <<232, 1, 224>>,
    <<128, 5, 256>>, <<168, 4, 256>>, <<192, 3, 256>>, <<232, 2, 256>>, <<280, 1, 256>>,
    <<160, 5, 320>>, <<208, 4, 320>>, <<280, 2, 320>>,
    <<192, 5, 384>>, <<280, 3, 384>>, <<416, 1, 384>>>>

ShortInfo(index) ==
  LET row == Table6SubChannelShortInfo_[index + 1]
  IN [size |-> row[1], protection |-> row[2], kbps |-> row[3]]
=============================================================================
