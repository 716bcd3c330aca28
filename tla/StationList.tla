----------------------------- MODULE StationList -----------------------------
(***************************************************************************)
(* The list of stations: DataDecoder::FICDecoder walks through the FIBs of *)
(* a frame, DataDecoder::Process merges what they said into the list       *)
(* (CreateStation, UpdateStation), and the scheduler picks the station to  *)
(* play from it (Conf, Reconfigure).                                       *)
(*                                                                         *)
(* Frames[f] is a frame the ensemble may send: its FIBs as one sequence of *)
(* 32 * number_of_fib bytes, and for each FIB whether its CRC will hold.   *)
(* Carousel[m] are the frames that belong to configuration m of the        *)
(* multiplex, which may change now and then.                               *)
(***************************************************************************)
EXTENDS Fig, FiniteSets

CONSTANTS
  Frames, Carousel,
  number_of_fib,
  Wished,           \* stations the user may ask for; 255 is "any"
  MaxWishes,        \* bound: how often
  Garbage,          \* what may be on the stack where FIG 0/2 is decoded
  Configurations    \* of the multiplex, in their order

VARIABLES
  pc,               \* where the decoder is
  sent, frame,      \* the number of the frame sent last, and its contents
  fib,              \* the number of the FIB
  energ_disp_out_,  \* the pointer to the FIB or the FIG, as an offset
  pos,              \* of the FIG in the FIB, in bits
  number_of_byte,   \* of the entry in the FIG
  component,        \* the sub-channel left in the structure of FIG 0/2
  mci,              \* MCIdata_, Info_FIG_ and fic_data_exist_status_
  station_info_list_,
  state_, station_number_, station_info_,
  told,             \* the parts of UserFICData_t that are valid
  multiplex, wishes

decoder == <<fib, energ_disp_out_, pos, number_of_byte, component, mci>>
scheduler == <<station_info_list_, state_, station_number_, station_info_, told>>
vars == <<pc, sent, frame, decoder, scheduler, multiplex, wishes>>

-----------------------------------------------------------------------------
(* Decoding the FIBs *)

ExtensionOf == [PROGRAMME_TYPE |-> 9, TIME |-> 10, COORDINATES |-> 11]

Nothing == [sub_channels |-> << >>, services |-> << >>, packet_mode |-> << >>,
            labels |-> << >>, regions |-> 0,
            MCI_status |-> {}, labels1_status |-> {}, FIGtype_status |-> {}]

\* Faulty variant: the status of the frame before is kept.
ClearedLists == [Nothing EXCEPT !.MCI_status = mci.MCI_status]

Cleared == Nothing

Byte(offset) == frame.bytes[offset + 1]

type   == Byte(energ_disp_out_) \div 32
length == Byte(energ_disp_out_) % 32
data   == [k \in 0..32 * number_of_fib - 2 - energ_disp_out_ |-> Byte(energ_disp_out_ + 1 + k)]

\* The broadcaster's next frame, when the decoder is ready for one.
Send(f) ==
  /\ pc = "wait" /\ state_ # "CONFSTATION"
  /\ f \in Carousel[multiplex]
  /\ sent' = f /\ pc' = "fib"

\* FICDecoder clears the lists and begins with the first FIB.
ReceiveFrame(f) ==
  /\ Send(f)
  /\ frame' = Frames[f]
  /\ fib' = 0 /\ energ_disp_out_' = 0
  /\ mci' = Cleared
  /\ UNCHANGED <<pos, number_of_byte, component, scheduler, multiplex, wishes>>

\* Faulty variant: the CRC is not looked at.
CRC16Any(k) == TRUE

CRC16(k) == frame.ok[k + 1]

\* A FIB whose CRC fails is passed over, but the pointer stays on it.
CheckFib ==
  /\ pc = "fib" /\ fib < number_of_fib
  /\ IF CRC16(energ_disp_out_ \div 32)
     THEN pc' = "figs" /\ pos' = 1 /\ UNCHANGED fib
     ELSE fib' = fib + 1 /\ UNCHANGED <<pc, pos>>
  /\ UNCHANGED <<sent, frame, energ_disp_out_, number_of_byte, component, mci,
                 scheduler, multiplex, wishes>>

AtFig == pos < 241 /\ Byte(energ_disp_out_) # 255

OpenFig ==
  /\ pc = "figs" /\ AtFig
  /\ pc' = "entries"
  /\ number_of_byte' = FirstEntry(type, data, length)
  /\ component' \in IF type = MCI /\ Extension(data) = 2 THEN Garbage ELSE {0}
  /\ UNCHANGED <<sent, frame, fib, energ_disp_out_, pos, mci, scheduler, multiplex, wishes>>

\* One round of the loop over a FIG's entries.
ReadEntry ==
  /\ pc = "entries" /\ number_of_byte < length
  /\ number_of_byte' = NextEntry(type, data, number_of_byte)
  /\ LET ext == IF type = MCI THEN Extension(data) ELSE -1
         service == Service(data, number_of_byte, component)
     IN /\ mci' = CASE ext = 1  -> [mci EXCEPT !.sub_channels =
                                       Append(@, SubChannel(data, number_of_byte))]
                    [] ext = 2  -> [mci EXCEPT !.services = Append(@, service)]
                    [] ext = 3  -> [mci EXCEPT !.packet_mode =
                                       Append(@, PacketMode(data, number_of_byte))]
                    [] ext = 11 -> [mci EXCEPT !.regions = @ + 1]
                    [] OTHER    -> mci
        /\ component' = IF ext = 2 THEN service.subchannel_id ELSE component
  /\ UNCHANGED <<pc, sent, frame, fib, energ_disp_out_, pos, scheduler, multiplex, wishes>>

\* StationsStatus, after ExtractDataFromFIC has returned the extension.
WithStatus(m) ==
  CASE type = MCI -> [m EXCEPT !.FIGtype_status = @ \cup {MCI},
                               !.MCI_status = @ \cup {Extension(data)}]
    [] type = LABELS1 -> [m EXCEPT !.FIGtype_status = @ \cup {LABELS1},
                                   !.labels1_status = @ \cup ({data[0] % 8} \cap {0, 1})]
    [] OTHER -> m

WithLabel(m) ==
  IF type = LABELS1 /\ data[0] % 8 \in {0, 1}
  THEN [m EXCEPT !.labels = Append(@, Label(data))] ELSE m

CloseFig ==
  /\ pc = "entries" /\ number_of_byte >= length
  /\ pc' = "figs"
  /\ mci' = WithStatus(WithLabel(mci))
  /\ energ_disp_out_' = energ_disp_out_ + length + 1
  /\ pos' = pos + 8 * (length + 1)
  /\ number_of_byte' = 0 /\ component' = 0
  /\ UNCHANGED <<sent, frame, fib, scheduler, multiplex, wishes>>

CloseFib ==
  /\ pc = "figs" /\ ~AtFig
  /\ pc' = "fib" /\ fib' = fib + 1
  /\ energ_disp_out_' = 32 * (fib + 1)
  /\ UNCHANGED <<sent, frame, pos, number_of_byte, component, mci, scheduler, multiplex, wishes>>
-----------------------------------------------------------------------------
(* Merging them into the list *)

\* std::list::sort is stable and unique keeps the first of equal neighbours.
Unique(list) ==
  LET ids == SetToSortSeq({list[i].subchannel_id : i \in DOMAIN list}, <)
      first(id) == list[Min({i \in DOMAIN list : list[i].subchannel_id = id})]
  IN [k \in DOMAIN ids |-> first(ids[k])]

\* The last match in the list wins, as in the loops of the code.
LastMatch(list, Test(_)) ==
  LET at == {i \in DOMAIN list : Test(list[i])}
  IN IF at = {} THEN 0 ELSE CHOOSE i \in at : \A j \in at : j <= i

ServiceId(id, otherwise) ==
  LET last == LastMatch(mci.services, LAMBDA s : s.subchannel_id = id)
  IN IF 2 \in mci.MCI_status /\ last # 0
     THEN mci.services[last].service_id ELSE otherwise

Name(id, service, labelled, otherwise) ==
  LET last == LastMatch(mci.labels, LAMBDA l : l.id_field = service)
  IN IF 3 \in mci.MCI_status /\ \E i \in DOMAIN mci.packet_mode : mci.packet_mode[i] = id
     THEN <<"Packet Mode">>
     ELSE IF labelled /\ 1 \in mci.labels1_status /\ last # 0
     THEN mci.labels[last].label ELSE otherwise

\* The parameters of a sub-channel, taken as long or short form.
LongForm(sbi)  == [sub_ch_start_addr |-> sbi.start_address,
                   sub_ch_size |-> sbi.subchannel_size,
                   protection_level |-> sbi.protection_level,
                   ProtectionLevelTypeB |-> sbi.protection_level_typeB,
                   audio_kbps |-> 0, IsLong |-> sbi.is_long]
ShortForm(sbi, typeB) ==
  LET row == ShortInfo(sbi.table6_subchannel_short_info)
  IN [sub_ch_start_addr |-> sbi.start_address, sub_ch_size |-> row.size,
      protection_level |-> row.protection, ProtectionLevelTypeB |-> typeB,
      audio_kbps |-> row.kbps, IsLong |-> sbi.is_long]

CreateStation(sbi) ==
  LET id == sbi.subchannel_id
      service == ServiceId(id, 65000)
  IN [SubChannelId |-> id, ServiceId |-> service,
      station_name |-> Name(id, service, 2 \in mci.MCI_status, <<"Not Available">>),
      form |-> IF sbi.is_long THEN LongForm(sbi) ELSE ShortForm(sbi, FALSE)]

\* Faulty variant: a station is given its label only when it is created.
UpdateStationUnnamed(station, list) ==
  [station EXCEPT !.ServiceId = ServiceId(station.SubChannelId, @)]

\* Which form is read is the form the station had before.
UpdateStation(station, list) ==
  LET id == station.SubChannelId
      at == LastMatch(list, LAMBDA x : x.subchannel_id = id)
      service == ServiceId(id, station.ServiceId)
  IN [station EXCEPT
        !.form = IF 1 \notin mci.MCI_status \/ at = 0 THEN @
                 ELSE IF @.IsLong THEN LongForm(list[at])
                 ELSE ShortForm(list[at], @.ProtectionLevelTypeB),
        !.ServiceId = service,
        !.station_name = Name(id, service, TRUE, @)]

\* UpdateStation erases the sub-channels it has used.
NewOnes(list) ==
  SelectSeq(list, LAMBDA x : 1 \notin mci.MCI_status \/
     \A i \in DOMAIN station_info_list_ : station_info_list_[i].SubChannelId # x.subchannel_id)

Merged ==
  LET list == Unique(mci.sub_channels)
      new == NewOnes(list)
  IN [i \in DOMAIN station_info_list_ |-> UpdateStation(station_info_list_[i], list)]
     \o [i \in DOMAIN new |-> CreateStation(new[i])]

\* GetFicExtraInfo: the flags that say which parts of UserFICData_t are valid.
ExtraInfo ==
  {flag \in DOMAIN ExtensionOf : ExtensionOf[flag] \in mci.MCI_status} \cup
  (IF /\ LABELS1 \in mci.FIGtype_status /\ 1 \in mci.labels1_status
      /\ \E i \in DOMAIN mci.labels : mci.labels[i].id_field = station_info_.ServiceId
   THEN {"LABEL"} ELSE {})

BySubChannel(list) == SortSeq(list, LAMBDA a, b : a.SubChannelId < b.SubChannelId)

-----------------------------------------------------------------------------
(* The scheduler *)

\* Conf: the station asked for, or the first one if it is not in the list.
Choose(list) ==
  IF station_number_ # 255 /\ \E i \in DOMAIN list : list[i].SubChannelId = station_number_
  THEN station_number_ ELSE Head(list).SubChannelId

\* The frame has been decoded: Conf looks for stations, Play tells the user.
FinishFrame ==
  /\ pc = "fib" /\ fib = number_of_fib
  /\ pc' = "wait"
  /\ station_info_list_' = BySubChannel(Merged)
  /\ IF state_ = "CONF"
     THEN /\ IF Merged = << >> THEN UNCHANGED <<state_, station_number_>>
             ELSE /\ state_' = "CONFSTATION"
                  /\ station_number_' = Choose(station_info_list_')
          /\ UNCHANGED told
     ELSE told' = ExtraInfo /\ UNCHANGED <<state_, station_number_>>
  /\ energ_disp_out_' = 0 /\ fib' = 0 /\ pos' = 0
  /\ UNCHANGED <<sent, frame, mci, number_of_byte, component, station_info_, multiplex, wishes>>

\* ParametersToSDR(STATION_NUMBER): Play is left by way of Reconfigure.
AskStation(n) ==
  /\ state_ = "PLAY" /\ pc = "wait" /\ wishes < MaxWishes
  /\ station_number_' = n /\ state_' = "CONFSTATION"
  /\ wishes' = wishes + 1
  /\ UNCHANGED <<pc, sent, frame, decoder, station_info_list_, station_info_, told, multiplex>>

Reconfigure ==
  /\ state_ = "CONFSTATION" /\ pc = "wait"
  /\ LET at == {i \in DOMAIN station_info_list_ :
                  station_info_list_[i].SubChannelId = station_number_}
     IN station_info_' = IF at = {} THEN station_info_
                         ELSE station_info_list_[CHOOSE i \in at : TRUE]
  /\ state_' = "PLAY"
  /\ UNCHANGED <<pc, sent, frame, decoder, station_info_list_, station_number_, told,
                 multiplex, wishes>>

\* The broadcaster reconfigures the multiplex.
ReconfigureMultiplex ==
  /\ multiplex < Len(Configurations) /\ pc = "wait"
  /\ multiplex' = multiplex + 1
  /\ UNCHANGED <<pc, sent, frame, decoder, scheduler, wishes>>

NoStation == [SubChannelId |-> 255, ServiceId |-> 0, station_name |-> <<"nonexistent">>]

Init ==
  /\ pc = "wait" /\ sent = 1 /\ frame = Frames[1]
  /\ fib = 0 /\ energ_disp_out_ = 0 /\ pos = 0 /\ number_of_byte = 0 /\ component = 0
  /\ mci = Nothing /\ station_info_list_ = << >>
  /\ state_ = "CONF" /\ station_number_ \in Wished /\ station_info_ = NoStation
  /\ told = {} /\ multiplex = 1 /\ wishes = 0

Decode == CheckFib \/ OpenFig \/ ReadEntry \/ CloseFig \/ CloseFib \/ FinishFrame
Next == \/ \E f \in DOMAIN Frames : ReceiveFrame(f)
        \/ Decode \/ Reconfigure \/ ReconfigureMultiplex
        \/ \E n \in Wished : AskStation(n)

Spec == Init /\ [][Next]_vars

\* The decoder goes on, and every frame of the carousel comes again and again.
FairSpec == /\ Spec /\ WF_vars(Decode) /\ WF_vars(Reconfigure)
            /\ \A f \in DOMAIN Frames : SF_<<pc, sent>>(Send(f))
-----------------------------------------------------------------------------
(* Properties *)

\* The extensions whose entries the code measures as EN 300 401 lays them out.
InStepExtensions == {1, 2, 4, 5, 11, 14, 18, 19, 25, 26, 27, 28}

\* The list has one entry for each sub-channel, in the order of the
\* identifiers by which the user and the scheduler pick a station, however
\* often and in whatever order the FIGs repeat a sub-channel.
OnePerSubChannel ==
  \A i, j \in DOMAIN station_info_list_ :
    i < j => station_info_list_[i].SubChannelId < station_info_list_[j].SubChannelId

\* The walk through a list of entries stops at the beginning of every entry
\* the broadcaster put there and at the end of the FIG, never in between.
InStep ==
  (pc = "entries" /\ type = MCI /\ Extension(data) \in InStepExtensions) =>
    IF number_of_byte < length
    THEN energ_disp_out_ + 1 + number_of_byte \in frame.cuts
    ELSE number_of_byte = length

\* The user is told of the date, the region and the programme table when this
\* very frame brought them in a FIB with a good CRC, and only then (the data
\* themselves stay in MCIdata_ from frame to frame), and of a label when it is
\* the played service's own.
ToldOfThisFrame ==
  [][state_ = "PLAY" /\ pc # "wait" /\ pc' = "wait" =>
       told' = {flag \in DOMAIN ExtensionOf : ExtensionOf[flag] \in frame.ext} \cup
               (IF station_info_.ServiceId \in frame.labels THEN {"LABEL"} ELSE {})]_vars

\* As long as the multiplex is not reconfigured the parameters with which the
\* station is decoded are those the broadcaster sends for its sub-channel,
\* whichever frames were seen before and whatever was damaged.
PlayedAsBroadcast ==
  (multiplex = 1 /\ state_ = "PLAY") =>
    \E i \in DOMAIN Configurations[1] :
      /\ Configurations[1][i].SubChannelId = station_info_.SubChannelId
      /\ Configurations[1][i].form = station_info_.form

\* What the user picks from and what is then decoded agree with the broadcast.
ListRight == OnePerSubChannel /\ PlayedAsBroadcast

\* The station the user named is the one that is played: its number changes only
\* when the user names another.  (Does not hold: Conf takes the first station of
\* the first list that is not empty when the one named is not in it yet.)
NumberKept ==
  [][station_number_ # 255 /\ station_number_' # station_number_ =>
       wishes' # wishes]_vars

\* Once the multiplex is no longer reconfigured, the list comes to show every
\* sub-channel as it is broadcast, with its service and its name, and stays so.
Converges ==
  \A m \in DOMAIN Configurations :
    <>[](multiplex = m) =>
      <>[](Range(Configurations[m]) \subseteq Range(station_info_list_))

=============================================================================
