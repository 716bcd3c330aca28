-------------------------- MODULE CommandLineProofs --------------------------
(***************************************************************************)
(* For all options the program may be called with, all lines that may be   *)
(* typed and every list of stations, any number of lines and sessions and  *)
(* any interleaving of the user, the two threads and the feeder: the       *)
(* program returns what its last session reported, it starts the scheduler *)
(* only with a configuration that works, and, unless `chalg' is typed      *)
(* before a station plays, the station wished for is one that it knows.    *)
(*                                                                         *)
(* Four parts of one invariant.  Places: where the scheduler's thread is   *)
(* tells its state_.  Configured: what the options have left in input can  *)
(* become a working configuration, and has once the thread is made.        *)
(* Ending: errno_ and the report agree from the report on, because OK is   *)
(* reported only after Stop, behind which the main thread reads no more.   *)
(* Wished: the two copies of the list are one, and from the first station  *)
(* on the wish is in it; a change of the decoder, whether it is typed,     *)
(* saved by printf or requested, is not there before.                      *)
(***************************************************************************)
EXTENDS CommandLine, WellFoundedInduction, TLAPS

AllLines == Lines \cup {None}
Reports == {"OK", "FILE_NOT_FOUND", "DEVICE_NOT_FOUND", "DEVICE_DISCONNECTED", "FILE_END",
            "ERROR_UNKNOWN"}
Codes == Reports \cup {"ARGP_EXIT_ERR_CODE", "PTHREAD_CREATE_FAIL"}
Working == {"SYNC", "CONF", "PLAY", "CONFSTATION", "CONFCONVALG"}
Printing == {"print", "blank", "restore"}

Numbers == 0..255

Options == [key : STRING, arg : Args]
Inputs == [freq_ : Int, sampling_rate_ : Int, channel_nr : 0..255, list_ : BOOLEAN, tuner_ : Int,
           file_ : BOOLEAN, silent_ : BOOLEAN, output_ : BOOLEAN, bugfix_applied_ : BOOLEAN,
           error : BOOLEAN]
Configs == [carrier_frequency : Int, sampling_rate : Int, from_file : BOOLEAN, dongle_nr : Int,
            use_speakers : BOOLEAN, output : BOOLEAN, start_station_nr : 1..255]
MainPlaces == {"options", "fire", "test", "reading", "stop", "join", "exit"}
Mains == [at : MainPlaces, quit : BOOLEAN, restart : BOOLEAN, session : Nat]
SdrPlaces == Working \cup Printing \cup {"none", "init", "spin", "loop", "stop", "done"}
States == Working \cup {"INIT", "EXTERNAL_STOP"}
Returns == {"none", "loop", "done"}
Sdrs == [at : SdrPlaces, state_ : States, delay : {0, 1, 2}, on : Numbers, then : Returns]
Saveds == [need : BOOLEAN, line : AllLines]
Requests == [stop : BOOLEAN, station : Numbers, alg : BOOLEAN, wakes : Nat]
Lists == [sdr : 0..Len(Stations), user : 0..Len(Stations)]
Outcomes == Reports \cup {"none"}
Histories == [report : Outcomes, typed : Nat, run : Nat]

TypeOK ==
  /\ options \in Seq(Options)
  /\ input \in Inputs
  /\ config \in Configs
  /\ main \in Mains
  /\ edit \in AllLines
  /\ errno_ \in Codes
  /\ sdr \in Sdrs
  /\ saved \in Saveds
  /\ flags \in Requests
  /\ feeder \in {"off", "starting", "running", "ended"}
  /\ known \in Lists
  /\ told \in Histories

\* The session is over, but for what printf has still to put back.
Over == sdr.at = "done" \/ (sdr.at \in Printing /\ sdr.then = "done")

Places ==
  /\ sdr.at \in Working => sdr.state_ = sdr.at
  /\ sdr.at \in {"none", "init"} => sdr.state_ = "INIT"
  /\ sdr.at = "spin" => sdr.state_ = "SYNC"
  /\ sdr.state_ = "INIT" => sdr.at \in {"none", "init"} \/ Over
  /\ sdr.at \in Printing => sdr.then # "none"
  /\ saved.need => sdr.at \in {"blank", "restore"}
  /\ main.at \in {"options", "fire"} => sdr.at = "none"

Promising(u) == /\ \/ u.freq_ = 0
                   \/ InBand(u.freq_)
                   \/ u.freq_ \in {209936, 229072} /\ u.output_
                /\ u.tuner_ >= -1

Configured ==
  /\ Promising(input)
  /\ main.at = "options" => main.session = 0
  /\ main.at \notin {"options", "exit"} \/ main.session > 0 => Usable(config)

Ending ==
  /\ Over => (errno_ = "OK" <=> told.report = "OK")
  /\ told.report = "OK" => flags.stop
  /\ sdr.state_ = "EXTERNAL_STOP" => /\ flags.stop
                                     /\ sdr.delay = 2
                                     /\ sdr.at \in {"loop", "stop", "done"}
  /\ flags.stop => main.at \in {"join", "exit"}

Granted == flags.station \in Ids(known.sdr)
Chosen == sdr.state_ \in {"CONFSTATION", "CONFCONVALG", "PLAY", "EXTERNAL_STOP"} /\ Granted
IsChalg(line) == line # None /\ FindCommand(line.word) = "chalg"

Wished ==
  /\ known.user = known.sdr
  /\ sdr.state_ \in {"CONFSTATION", "CONFCONVALG", "PLAY"} => Granted
  /\ flags.alg => Chosen
  /\ Reading /\ IsChalg(edit) => Chosen
  /\ saved.need /\ IsChalg(saved.line) => Chosen

\* What the flags make of the state at the head of the loop.
AfterFlags(state) ==
  /\ state \in {"CONFSTATION", "CONFCONVALG", "PLAY"} => Granted
  /\ Chosen => state \in {"CONFSTATION", "CONFCONVALG", "PLAY", "EXTERNAL_STOP"}

IInv == TypeOK /\ Places /\ Configured /\ Ending /\ (~EarlyChalg => Wished)

\* The names that occur are names of places and states.
LEMMA Names ==
  /\ Working \subseteq SdrPlaces /\ Printing \subseteq SdrPlaces /\ Working \subseteq States
  /\ "none" \in SdrPlaces /\ "init" \in SdrPlaces /\ "spin" \in SdrPlaces
  /\ "loop" \in SdrPlaces /\ "stop" \in SdrPlaces /\ "done" \in SdrPlaces
  /\ "print" \in SdrPlaces /\ "blank" \in SdrPlaces /\ "restore" \in SdrPlaces
  /\ "INIT" \in States /\ "EXTERNAL_STOP" \in States /\ "SYNC" \in States
  /\ "CONF" \in States /\ "PLAY" \in States /\ "CONFSTATION" \in States
  /\ "none" \in Returns /\ "loop" \in Returns /\ "done" \in Returns
  /\ "options" \in MainPlaces /\ "fire" \in MainPlaces
  /\ "test" \in MainPlaces /\ "reading" \in MainPlaces
  /\ "stop" \in MainPlaces /\ "join" \in MainPlaces /\ "exit" \in MainPlaces
  /\ 0 \in Numbers /\ 255 \in Numbers
BY DEF Working, Printing, SdrPlaces, States, Returns, MainPlaces, Numbers

LEMMA ZeroNumber == 0 \in Nat
OBVIOUS

\* What is looked up in the list has the number of a station.
LEMMA ListedNumbers == \A i \in 1..Len(Stations) : Stations[i].id \in Numbers
BY StationsAssumption DEF Numbers

-----------------------------------------------------------------------------
(* The options *)

LEMMA ParsedOption ==
  ASSUME NEW u \in Inputs, Promising(u), NEW o \in Options
  PROVE  Parser(u, o) \in Inputs /\ Promising(Parser(u, o))
<1> DEFINE arg == o.arg
           Listed == [u EXCEPT !.list_ = TRUE]
           Recorded == [u EXCEPT !.file_ = TRUE]
           Silent == [u EXCEPT !.silent_ = TRUE]
           Written == [u EXCEPT !.output_ = TRUE]
           Sixth == [u EXCEPT !.channel_nr = 6]
<1>1. Number(arg) => arg[2] \in Int
  BY DEF Options, Args, Number
<1>2. /\ u.freq_ \in Int /\ u.sampling_rate_ \in Int /\ u.tuner_ \in Int
      /\ u.channel_nr \in 0..255
  BY SMT DEF Inputs
<1>3. Fail(u) \in Inputs /\ Promising(Fail(u))
  <2>1. Fail(u) \in Inputs
    BY Zenon DEF Fail, Inputs
  <2> QED BY <2>1, SMT DEF Fail, Inputs, Promising
<1>4. Frequency(u, arg) \in Inputs /\ Promising(Frequency(u, arg))
  <2>1. ASSUME NEW f \in Int, InBand(f)
        PROVE  [u EXCEPT !.freq_ = f] \in Inputs /\ Promising([u EXCEPT !.freq_ = f])
    BY <1>2, <2>1, SMT DEF Inputs, Promising
  <2>2. ASSUME Number(arg), arg[2] \in MIN_DAB_FREQ_kHz..MAX_DAB_FREQ_kHz
        PROVE  arg[2] * 1000 \in Int /\ InBand(arg[2] * 1000)
    <3> DEFINE n == arg[2]
               low == MIN_DAB_FREQ_kHz
               high == MAX_DAB_FREQ_kHz
    <3>1. low \in Int /\ high \in Int /\ low >= 174000 /\ high <= 230000
      BY SMT DEF MIN_DAB_FREQ_kHz, MAX_DAB_FREQ_kHz
    <3>2. n \in Int /\ n \in low..high
      BY <1>1, <2>2
    <3> HIDE DEF n, low, high
    <3>3. n * 1000 \in Int /\ InBand(n * 1000)
      BY <3>1, <3>2, SMT DEF InBand
    <3> QED BY <3>3 DEF n
  <2> QED BY <1>3, <2>1, <2>2, SMT DEF Frequency
<1>5. Channel(u, arg) \in Inputs /\ Promising(Channel(u, arg))
  <2>1. ASSUME NEW n \in 0..255
        PROVE  [u EXCEPT !.channel_nr = n] \in Inputs /\ Promising([u EXCEPT !.channel_nr = n])
    BY SMT DEF Inputs, Promising
  <2>2. CASE Number(arg)
    <3> DEFINE n == arg[2] % 256
    <3>1. n \in 0..255
      BY <1>1, <2>2
    <3>2. Channel(u, arg) = [u EXCEPT !.channel_nr = n]
      BY <2>2 DEF Channel
    <3> HIDE DEF n
    <3> QED BY <2>1, <3>1, <3>2
  <2>3. CASE ~Number(arg)
    BY <1>3, <2>3 DEF Channel
  <2> QED BY <2>2, <2>3
<1>6. SamplingRate(u, arg) \in Inputs /\ Promising(SamplingRate(u, arg))
  <2>1. ASSUME NEW n \in Int
        PROVE  /\ [u EXCEPT !.sampling_rate_ = n] \in Inputs
               /\ Promising([u EXCEPT !.sampling_rate_ = n])
    BY SMT DEF Inputs, Promising
  <2> QED BY <1>1, <1>3, <2>1, SMT DEF SamplingRate
<1>7. OpenTuner(u, arg) \in Inputs /\ Promising(OpenTuner(u, arg))
  <2>1. ASSUME NEW n \in Nat
        PROVE  [u EXCEPT !.tuner_ = n] \in Inputs /\ Promising([u EXCEPT !.tuner_ = n])
    BY SMT DEF Inputs, Promising
  <2>2. [u EXCEPT !.tuner_ = 0, !.bugfix_applied_ = TRUE] \in Inputs
    <3>1. 0 \in Int
      OBVIOUS
    <3> QED BY <3>1, Zenon DEF Inputs
  <2>3. Promising([u EXCEPT !.tuner_ = 0, !.bugfix_applied_ = TRUE])
    BY SMT DEF Inputs, Promising
  <2>4. CASE arg = <<"none">>
    <3>1. OpenTuner(u, arg) = [u EXCEPT !.tuner_ = 0, !.bugfix_applied_ = TRUE]
      BY <2>4, Zenon DEF OpenTuner
    <3> QED BY <2>2, <2>3, <3>1, Zenon
  <2>5. CASE arg # <<"none">> /\ Number(arg) /\ arg[2] >= 0
    <3> DEFINE n == arg[2]
    <3>1. n \in Nat
      BY <1>1, <2>5
    <3>2. OpenTuner(u, arg) = [u EXCEPT !.tuner_ = n]
      BY <2>5, Zenon DEF OpenTuner
    <3> HIDE DEF n
    <3> QED BY <2>1, <3>1, <3>2, Zenon
  <2>6. CASE arg # <<"none">> /\ ~(Number(arg) /\ arg[2] >= 0)
    BY <1>3, <2>6, Zenon DEF OpenTuner
  <2> QED BY <2>4, <2>5, <2>6, Zenon
<1>8. Argument(u, arg) \in Inputs /\ Promising(Argument(u, arg))
  <2>1. ASSUME NEW n \in Nat
        PROVE  [u EXCEPT !.tuner_ = n] \in Inputs /\ Promising([u EXCEPT !.tuner_ = n])
    BY SMT DEF Inputs, Promising
  <2>2. CASE u.list_
    BY <2>2, Zenon DEF Argument
  <2>3. CASE ~u.list_ /\ u.bugfix_applied_ /\ Number(arg) /\ arg[2] >= 0
    <3> DEFINE n == arg[2]
    <3>1. n \in Nat
      BY <1>1, <2>3
    <3>2. Argument(u, arg) = [u EXCEPT !.tuner_ = n]
      BY <2>3, Zenon DEF Argument
    <3> HIDE DEF n
    <3> QED BY <2>1, <3>1, <3>2, Zenon
  <2>4. CASE ~u.list_ /\ ~(u.bugfix_applied_ /\ Number(arg) /\ arg[2] >= 0)
    BY <1>3, <2>4, Zenon DEF Argument
  <2> QED BY <2>2, <2>3, <2>4, Zenon
<1>9. ASSUME NEW v \in Inputs, Promising(v), NEW kHz \in Int, kHz \in {209936, 229072}
      PROVE  Setup(v, kHz) \in Inputs /\ Promising(Setup(v, kHz))
  <2> DEFINE v1 == [v EXCEPT !.freq_ = kHz]
             v2 == [v1 EXCEPT !.file_ = TRUE]
             v3 == [v2 EXCEPT !.output_ = TRUE]
  <2>1. Setup(v, kHz) = v3
    BY Zenon DEF Setup
  <2>2. v1 \in Inputs /\ v1.freq_ = kHz /\ v1.tuner_ = v.tuner_
    BY SMT DEF Inputs
  <2>8. v.tuner_ >= -1
    BY <1>9, SMT DEF Promising
  <2> HIDE DEF v1
  <2>3. v2 \in Inputs
    BY <2>2, Zenon DEF Inputs
  <2>4. v2.freq_ = kHz /\ v2.tuner_ = v.tuner_
    BY <2>2, SMT DEF Inputs
  <2> HIDE DEF v2
  <2>5. v3 \in Inputs
    BY <2>3, Zenon DEF Inputs
  <2>6. v3.freq_ = kHz /\ v3.tuner_ = v.tuner_ /\ v3.output_
    BY <2>3, <2>4, SMT DEF Inputs
  <2> HIDE DEF v3
  <2>7. Promising(v3)
    BY <1>9, <2>6, <2>8, SMT DEF Promising
  <2> QED BY <2>1, <2>5, <2>7, Zenon
<1>10. /\ Listed \in Inputs /\ Recorded \in Inputs
       /\ Silent \in Inputs /\ Written \in Inputs
  BY Zenon DEF Inputs
<1>11. /\ Promising(Listed) /\ Promising(Recorded)
       /\ Promising(Silent) /\ Promising(Written)
  BY SMT DEF Inputs, Promising
<1> DEFINE Good(v) == v \in Inputs /\ Promising(v)
<1>12. Good(Setup(Sixth, 209936)) /\ Good(Setup(u, 229072))
  <2>1. Sixth \in Inputs /\ Promising(Sixth)
    BY SMT DEF Inputs, Promising
  <2> HIDE DEF Sixth
  <2> QED BY <1>9, <2>1
<1> HIDE DEF arg, Sixth, Listed, Recorded, Silent, Written
<1>13. /\ Good(u) /\ Good(Fail(u)) /\ Good(Frequency(u, arg)) /\ Good(Channel(u, arg))
       /\ Good(SamplingRate(u, arg)) /\ Good(OpenTuner(u, arg)) /\ Good(Argument(u, arg))
       /\ Good(Listed) /\ Good(Recorded) /\ Good(Silent) /\ Good(Written)
  BY <1>3, <1>4, <1>5, <1>6, <1>7, <1>8, <1>10, <1>11, Zenon
<1> HIDE DEF Good
<1>14. Good(Parser(u, o))
  BY <1>12, <1>13, SMT DEF Parser, arg, Sixth, Listed, Recorded, Silent, Written
<1> QED
  BY <1>14 DEF Good

\* Whatever the options leave, what is filled in makes a configuration that works.
LEMMA FilledIn ==
  ASSUME NEW u \in Inputs, Promising(u), ~Postprocessing(u).error, ~Postprocessing(u).list_
  PROVE  /\ SchedulerConfig(Postprocessing(u)) \in Configs
         /\ Usable(SchedulerConfig(Postprocessing(u)))
<1> DEFINE tuner == IF FromTuner(u) /\ u.tuner_ = -1 THEN 0 ELSE u.tuner_
           freq == IF u.freq_ = 0 THEN 229072000 ELSE u.freq_
           rate == IF u.sampling_rate_ = 0 THEN 2048000 ELSE u.sampling_rate_
           p == Postprocessing(u)
<1>1. ~u.list_ /\ (u.silent_ => u.output_)
  BY SMT DEF Postprocessing, Fail, Inputs
<1>2. p = [u EXCEPT !.tuner_ = tuner, !.freq_ = freq, !.sampling_rate_ = rate]
  BY <1>1, SMT DEF Postprocessing, NO_TUNER_SELECTED, DEFAULT_FREQ_kHz, DEFAULT_FS_kHz, Inputs
<1>3. u.freq_ \in Int /\ u.sampling_rate_ \in Int /\ u.tuner_ \in Int
  BY SMT DEF Inputs
<1>4. /\ freq \in Int /\ rate \in Int
      /\ \/ InBand(freq)
         \/ freq \in {209936, 229072} /\ u.output_
  BY <1>3, SMT DEF Promising, InBand
<1>5. tuner \in Int /\ (u.tuner_ # -1 \/ ~u.file_ => tuner >= 0)
  BY <1>3, SMT DEF Promising, FromTuner, NO_TUNER_SELECTED
<1>6. tuner = u.tuner_ \/ ~u.file_
  BY SMT DEF FromTuner, NO_TUNER_SELECTED
<1> HIDE DEF tuner, freq, rate, p
<1>7. /\ p \in Inputs /\ p.tuner_ = tuner /\ p.freq_ = freq
      /\ p.file_ = u.file_ /\ p.silent_ = u.silent_ /\ p.output_ = u.output_
  <2> DEFINE v1 == [u EXCEPT !.tuner_ = tuner]
             v2 == [v1 EXCEPT !.freq_ = freq]
             v3 == [v2 EXCEPT !.sampling_rate_ = rate]
  <2>1. p = v3
    BY <1>2, Zenon
  <2>2. /\ v1 \in Inputs /\ v1.tuner_ = tuner
        /\ v1.file_ = u.file_ /\ v1.silent_ = u.silent_ /\ v1.output_ = u.output_
    BY <1>5, SMT DEF Inputs
  <2> HIDE DEF v1
  <2>3. /\ v2 \in Inputs /\ v2.tuner_ = tuner /\ v2.freq_ = freq
        /\ v2.file_ = u.file_ /\ v2.silent_ = u.silent_ /\ v2.output_ = u.output_
    BY <1>4, <2>2, SMT DEF Inputs
  <2> HIDE DEF v2
  <2>4. /\ v3 \in Inputs /\ v3.tuner_ = tuner /\ v3.freq_ = freq
        /\ v3.file_ = u.file_ /\ v3.silent_ = u.silent_ /\ v3.output_ = u.output_
    BY <1>4, <2>3, SMT DEF Inputs
  <2> QED BY <2>1, <2>4, Zenon
<1>9. SchedulerConfig(p) \in Configs
  <2>1. p.channel_nr \in 0..255 /\ p.freq_ \in Int /\ p.sampling_rate_ \in Int /\ p.tuner_ \in Int
          /\ p.output_ \in BOOLEAN
    BY <1>7, SMT DEF Inputs
  <2>2. (IF FromTuner(p) THEN p.tuner_ ELSE 0) \in Int
    BY <2>1
  <2>3. (IF p.channel_nr > 0 THEN p.channel_nr ELSE 255) \in 1..255
    BY <2>1, SMT
  <2> QED
    BY <2>1, <2>2, <2>3, Zenon DEF SchedulerConfig, Configs
<1>10. Usable(SchedulerConfig(p))
  <2> DEFINE c == SchedulerConfig(p)
  <2>1. c.carrier_frequency = freq /\ c.output = u.output_
    BY <1>7, SMT DEF SchedulerConfig
  <2>3. c.use_speakers <=> ~u.silent_
    BY <1>7, Zenon DEF SchedulerConfig
  <2>2. c.dongle_nr >= 0
    BY <1>5, <1>6, <1>7, SMT DEF SchedulerConfig, FromTuner, NO_TUNER_SELECTED
  <2> HIDE DEF c
  <2>4. InBand(c.carrier_frequency) \/ (c.carrier_frequency \in {209936, 229072} /\ c.output)
    BY <1>4, <2>1
  <2>5. c.use_speakers \/ c.output
    <3>1. u.silent_ => c.output
      BY <1>1, <2>1
    <3> QED BY <2>3, <3>1, Zenon
  <2> QED
    BY <2>2, <2>4, <2>5, SMT DEF Usable, c
<1> QED
  BY <1>9, <1>10 DEF p

-----------------------------------------------------------------------------
(* The list of stations *)

LEMMA LeastStation ==
  ASSUME NEW S \in SUBSET Nat, S # {}
  PROVE  Min(S) \in S
<1> DEFINE less == {pair \in Nat \X Nat : pair[1] < pair[2]}
<1>1. IsWellFoundedOn(less, Nat)
  BY NatLessThanWellFounded DEF OpToRel
<1>2. PICK m \in S : \A k \in S : ~ (<<k, m>> \in less)
  <2> HIDE DEF less
  <2> QED BY <1>1, WFMin
<1>3. ASSUME NEW k \in S PROVE m <= k
  <2>1. k \in Nat /\ m \in Nat /\ <<k, m>> \in Nat \X Nat
    OBVIOUS
  <2> QED BY <1>2, <2>1
<1> QED
  BY <1>3 DEF Min

\* The wish that the user makes is for a station of his list, and takes nothing back.
LEMMA StationWished ==
  ASSUME TypeOK, NEW arg, NEW f, f = CommandStation(flags, arg)
  PROVE  /\ f \in Requests
         /\ f.stop = flags.stop /\ f.alg = flags.alg
         /\ f.station = flags.station \/ f.station \in Ids(known.user)
<1>1. CASE known.user = 0 \/ arg = <<"none">> \/ Matches(arg) = {}
  BY <1>1 DEF CommandStation, TypeOK
<1>2. CASE ~(known.user = 0 \/ arg = <<"none">> \/ Matches(arg) = {})
  <2> DEFINE i == Min(Matches(arg))
             id == Stations[i].id
  <2>1. Matches(arg) \subseteq 1..known.user /\ known.user \in 0..Len(Stations)
    BY DEF Matches, TypeOK, Lists
  <2>2. i \in 1..known.user /\ i \in 1..Len(Stations)
    <3>1. Matches(arg) \in SUBSET Nat
      BY <2>1, StationsAssumption
    <3>2. i \in Matches(arg)
      BY <1>2, <3>1, LeastStation
    <3> QED BY <2>1, <3>2, StationsAssumption
  <2>3. f = [flags EXCEPT !.station = id, !.wakes = flags.wakes + 1]
    BY <1>2 DEF CommandStation, WishStation
  <2> HIDE DEF i
  <2>4. id \in Ids(known.user)
    BY <2>2, Zenon DEF Ids
  <2>5. id \in Numbers
    BY <2>2, ListedNumbers
  <2> HIDE DEF id
  <2>6. flags \in Requests
    BY DEF TypeOK
  <2>7. f \in Requests
    <3> DEFINE v == [flags EXCEPT !.station = id]
    <3>1. v \in Requests /\ v.wakes = flags.wakes /\ flags.wakes + 1 \in Nat
      BY <2>5, <2>6 DEF Requests
    <3>2. f = [v EXCEPT !.wakes = flags.wakes + 1]
      BY <2>3, Zenon
    <3> HIDE DEF v
    <3> QED BY <3>1, <3>2 DEF Requests
  <2>8. f.stop = flags.stop /\ f.alg = flags.alg /\ f.station = id
    BY <2>3, <2>6 DEF Requests
  <2> QED
    BY <2>4, <2>7, <2>8
<1> QED
  BY <1>1, <1>2

-----------------------------------------------------------------------------
(* Each step keeps the types, the places, the configuration and the result *)

\* The types of the records.
LEMMA Typed ==
  IInv => /\ main \in Mains /\ sdr \in Sdrs /\ flags \in Requests /\ known \in Lists
          /\ told \in Histories /\ saved \in Saveds
BY DEF IInv, TypeOK

LEMMA Begin == Init => IInv
<1> SUFFICES ASSUME Init PROVE IInv
  OBVIOUS
<1>1. NoInput \in Inputs /\ Promising(NoInput) /\ NoInput.channel_nr = 0
  BY SMT DEF NoInput, Inputs, Promising, NO_TUNER_SELECTED
<1>2. SchedulerConfig(NoInput) \in Configs
  BY <1>1, SMT DEF SchedulerConfig, Configs, Inputs, FromTuner
<1>3. options \in Seq(Options)
  BY OptionsAssumption DEF Init, Options
<1>4. /\ sdr = NewObject /\ sdr \in Sdrs
      /\ saved = NotSaved /\ saved \in Saveds /\ flags \in Requests
  <2>1. NewObject \in Sdrs
    BY Names DEF NewObject, Sdrs
  <2>2. NotSaved \in Saveds
    BY Zenon DEF NotSaved, Saveds, AllLines
  <2>3. NewFlags \in Requests
    BY Names, ZeroNumber, Zenon DEF NewFlags, Requests
  <2> QED BY <2>1, <2>2, <2>3, Zenon DEF Init
<1>5. /\ main \in Mains /\ main.at = "options" /\ main.session = 0
  <2>1. [at |-> "options", quit |-> FALSE, restart |-> FALSE, session |-> 0] \in Mains
    BY Names, ZeroNumber, Zenon DEF Mains
  <2>2. main = [at |-> "options", quit |-> FALSE, restart |-> FALSE, session |-> 0]
    BY DEF Init
  <2> QED BY <2>1, <2>2
<1>6. known \in Lists /\ told \in Histories /\ told.report = "none" /\ edit \in AllLines
  BY StationsAssumption DEF Init, Lists, Histories, Outcomes, AllLines
<1>7. TypeOK
  BY <1>1, <1>2, <1>3, <1>4, <1>5, <1>6 DEF Init, TypeOK, Codes, Reports
<1>8. Places /\ Ending
  <2>1. sdr.at = "none" /\ sdr.state_ = "INIT" /\ saved.need = FALSE
    BY <1>4 DEF NewObject, NotSaved
  <2>2. flags.stop = FALSE
    BY DEF Init, NewFlags
  <2> QED BY <1>5, <1>6, <2>1, <2>2 DEF Places, Ending, Over, Working, Printing
<1>9. Wished
  BY DEF Init, Wished, Chosen, NewObject, NewFlags, NotSaved, Reading
<1>10. Configured
  BY <1>1, <1>5 DEF Init, Configured
<1> QED
  BY <1>7, <1>8, <1>10, <1>9 DEF IInv

LEMMA ParseOptionKeeps == IInv /\ ParseOption => IInv'
<1> SUFFICES ASSUME IInv, ParseOption PROVE IInv'
  OBVIOUS
<1>1. Head(options) \in Options /\ Tail(options) \in Seq(Options)
  BY DEF IInv, TypeOK, ParseOption
<1>2. input' \in Inputs /\ Promising(input')
  BY <1>1, ParsedOption DEF IInv, TypeOK, Configured, ParseOption
<1>3. UNCHANGED <<config, main, edit, errno_, sdr, saved, flags, feeder, known, told>>
  BY DEF ParseOption, session
<1>4. TypeOK'
  BY <1>1, <1>2, <1>3 DEF IInv, TypeOK, ParseOption
<1>5. Places' /\ Ending'
  BY <1>3 DEF IInv, Places, Ending, Over
<1>6. Configured'
  BY <1>2, <1>3 DEF IInv, Configured
<1>7. ~EarlyChalg => Wished'
  BY <1>3 DEF IInv, Wished, Granted, Chosen, Reading, IsChalg
<1> QED
  BY <1>4, <1>5, <1>6, <1>7 DEF IInv

LEMMA StartProgramKeeps == IInv /\ StartProgram => IInv'
<1> SUFFICES ASSUME IInv, StartProgram PROVE IInv'
  OBVIOUS
<1>1. NoInput \in Inputs /\ Promising(NoInput)
  BY SMT DEF NoInput, Inputs, Promising, NO_TUNER_SELECTED
<1>2. /\ options' = << >> /\ input' = NoInput
      /\ main \in Mains /\ main.at = "options" /\ main.session = 0
  BY DEF StartProgram, IInv, TypeOK, Configured
<1>3. UNCHANGED <<edit, sdr, saved, flags, feeder, known, told>>
  BY DEF StartProgram
<1>4. ASSUME NEW place \in {"exit", "fire"}, main' = [main EXCEPT !.at = place],
             config' \in Configs, errno_' \in Codes,
             place = "fire" => Usable(config')
      PROVE  IInv'
  <2>1. main' \in Mains /\ main'.at = place /\ main'.session = 0
    BY <1>2, <1>4, Names DEF Mains
  <2>2. TypeOK'
    BY <1>1, <1>2, <1>3, <1>4, <2>1 DEF IInv, TypeOK
  <2>3. sdr.at = "none"
    BY <1>2 DEF IInv, Places
  <2>4. Places'
    BY <1>3, <2>3 DEF IInv, Places, Over
  <2>5. Ending'
    <3>1. ~flags.stop /\ ~Over
      BY <1>2, <2>3 DEF IInv, Ending, Over, Printing
    <3> QED BY <1>3, <3>1 DEF IInv, Ending, Over
  <2>6. Configured'
    BY <1>1, <1>2, <1>4, <2>1 DEF Configured
  <2>7. ~EarlyChalg => Wished'
    BY <1>3, <1>4, <2>1 DEF IInv, Wished, Granted, Chosen, Reading, IsChalg
  <2> QED
    BY <2>2, <2>4, <2>5, <2>6, <2>7 DEF IInv
<1> DEFINE u == IF input.error THEN input ELSE Postprocessing(input)
<1>5. CASE u.error \/ u.list_
  <2>1. main' = [main EXCEPT !.at = "exit"] /\ UNCHANGED config
    BY <1>5, Zenon DEF StartProgram
  <2>2. errno_' = IF u.error THEN "ARGP_EXIT_ERR_CODE" ELSE "OK"
    BY <1>5, Zenon DEF StartProgram
  <2> HIDE DEF u
  <2>3. errno_' \in Codes /\ config \in Configs
    BY <2>2 DEF Codes, Reports, IInv, TypeOK
  <2> QED BY <1>4, <2>1, <2>3
<1>6. CASE ~(u.error \/ u.list_)
  <2>1. /\ config' = SchedulerConfig(u) /\ main' = [main EXCEPT !.at = "fire"]
        /\ UNCHANGED errno_
    BY <1>6, Zenon DEF StartProgram
  <2>2. ~input.error /\ u = Postprocessing(input)
    BY <1>6, Zenon
  <2>3. input \in Inputs /\ Promising(input) /\ errno_ \in Codes
    BY DEF IInv, TypeOK, Configured
  <2>4. SchedulerConfig(u) \in Configs /\ Usable(SchedulerConfig(u))
    BY <1>6, <2>2, <2>3, FilledIn, Zenon
  <2> HIDE DEF u
  <2> QED BY <1>4, <2>1, <2>3, <2>4
<1> QED
  BY <1>5, <1>6

\* What a line that is entered asks of the scheduler.
LEMMA EnterRequests ==
  ASSUME TypeOK, Enter
  PROVE  /\ flags' \in Requests /\ flags'.stop = flags.stop
         /\ flags'.station = flags.station \/ flags'.station \in Ids(known.user)
         /\ flags'.alg => flags.alg \/ IsChalg(edit)
<1> DEFINE f == CommandStation(flags, edit.arg)
<1>1. /\ f \in Requests /\ f.stop = flags.stop /\ f.alg = flags.alg
      /\ f.station = flags.station \/ f.station \in Ids(known.user)
  BY StationWished
<1> HIDE DEF f
<1>2. flags \in Requests
  BY DEF TypeOK
<1>3. CASE flags' = f
  BY <1>1, <1>3
<1>4. CASE edit # None /\ FindCommand(edit.word) = "chalg" /\ flags' = [flags EXCEPT !.alg = TRUE]
  <2>1. flags' \in Requests
    BY <1>2, <1>4, Zenon DEF Requests
  <2>2. flags'.stop = flags.stop /\ flags'.station = flags.station
    BY <1>2, <1>4 DEF Requests
  <2>3. IsChalg(edit)
    BY <1>4 DEF IsChalg
  <2> QED BY <2>1, <2>2, <2>3
<1>5. CASE flags' = flags
  BY <1>2, <1>5
<1>6. \/ flags' = f \/ flags' = flags
      \/ /\ edit # None /\ FindCommand(edit.word) = "chalg"
         /\ flags' = [flags EXCEPT !.alg = TRUE]
  <2> DEFINE command == IF edit = None THEN "none" ELSE FindCommand(edit.word)
  <2>1. flags' = IF command = "station" THEN CommandStation(flags, edit.arg)
                 ELSE IF command = "chalg" /\ edit.arg = <<"text", "viterbi">>
                 THEN [flags EXCEPT !.alg = TRUE] ELSE flags
    BY Zenon DEF Enter
  <2>2. command = "chalg" => edit # None /\ FindCommand(edit.word) = "chalg"
    OBVIOUS
  <2> HIDE DEF command
  <2> QED BY <2>1, <2>2, Zenon DEF f
<1> QED
  BY <1>3, <1>4, <1>5, <1>6

\* The list only grows.
LEMMA IdsGrow == \A m, n \in Int : m <= n => Ids(m) \subseteq Ids(n)
BY DEF Ids

\* What the flags make of the state: a stop is a stop, and nothing that needs a station is
\* begun without one.
LEMMA FlagsFollowed ==
  ASSUME IInv, sdr.at = "loop"
  PROVE  LET state == StateAfterFlags(sdr.state_)
         IN /\ state \in Working \cup {"EXTERNAL_STOP"}
            /\ state = "EXTERNAL_STOP" => flags.stop
            /\ ~EarlyChalg => AfterFlags(state)
<1> DEFINE state == StateAfterFlags(sdr.state_)
<1>1. /\ sdr.state_ \in Working \cup {"EXTERNAL_STOP"}
      /\ sdr.state_ = "EXTERNAL_STOP" => flags.stop
  BY DEF IInv, TypeOK, Places, Ending, Sdrs, States, Working, Over, Printing
<1>2. state \in Working \cup {"EXTERNAL_STOP"}
  BY <1>1 DEF StateAfterFlags, Working
<1>3. state = "EXTERNAL_STOP" => flags.stop
  BY <1>1 DEF StateAfterFlags, Working
<1>4. ~EarlyChalg => AfterFlags(state)
  BY <1>1 DEF StateAfterFlags, AfterFlags, Chosen, IInv, Wished, Working
<1> QED
  BY <1>2, <1>3, <1>4

-----------------------------------------------------------------------------
(* The main thread, the user and the feeder *)

LEMMA FireSchedulerThreadKeeps == IInv /\ FireSchedulerThread => IInv'
<1> SUFFICES ASSUME IInv, FireSchedulerThread PROVE IInv'
  OBVIOUS
<1>a. main.session + 1 \in Nat
  BY DEF IInv, TypeOK, Mains
<1>1. ASSUME main.at = "fire",
             main' = [main EXCEPT !.at = "test", !.session = main.session + 1],
             sdr' = [NewObject EXCEPT !.at = "init"],
             UNCHANGED <<options, input, config, edit, errno_, saved, flags, feeder, known, told>>
      PROVE  IInv'
  <2>1. /\ main' \in Mains /\ main'.at = "test" /\ main'.session = main.session + 1
    BY <1>1, Typed, <1>a, Names DEF Mains
  <2>2. /\ sdr' \in Sdrs /\ sdr'.at = "init" /\ sdr'.state_ = "INIT" /\ sdr'.then = "none"
    BY <1>1, Typed, Names DEF Sdrs, NewObject
  <2>3. TypeOK' /\ Configured'
    BY <1>1, <2>1, <2>2 DEF IInv, TypeOK, Configured
  <2>4. Places' /\ Ending'
    BY <1>1, <2>1, <2>2 DEF IInv, Places, Ending, Over, Working, Printing
  <2>5. ~EarlyChalg => Wished'
    BY <1>1, <2>1, <2>2 DEF IInv, Places, Wished, Granted, Chosen, Reading, Working, IsChalg
  <2> QED
    BY <2>3, <2>4, <2>5 DEF IInv
<1>2. ASSUME main.at = "fire",
             main' = [main EXCEPT !.at = "exit"],
             errno_' = "PTHREAD_CREATE_FAIL",
             UNCHANGED <<options, input, config, edit, sdr, saved, flags, feeder, known, told>>
      PROVE  IInv'
  <2>1. /\ main' \in Mains /\ main'.at = "exit" /\ main'.session = main.session
    BY <1>2, Typed, Names DEF Mains
  <2>2. errno_' \in Codes /\ errno_' # "OK"
    BY <1>2, Typed DEF Codes, Reports
  <2>3. TypeOK' /\ Configured'
    BY <1>2, <2>1, <2>2 DEF IInv, TypeOK, Configured
  <2>4. Places' /\ Ending'
    BY <1>2, <2>1, <2>2 DEF IInv, Places, Ending, Over, Working, Printing
  <2>5. ~EarlyChalg => Wished'
    BY <1>2, <2>1 DEF IInv, Places, Wished, Granted, Chosen, Reading, Working, IsChalg
  <2> QED
    BY <2>3, <2>4, <2>5 DEF IInv
<1> QED
  BY <1>1, <1>2, Zenon DEF FireSchedulerThread

LEMMA PromptKeeps == IInv /\ Prompt => IInv'
<1> SUFFICES ASSUME IInv, Prompt PROVE IInv'
  OBVIOUS
<1>1. ASSUME main.at = "test",
             main' = [main EXCEPT !.at = "reading"],
             edit' = None,
             UNCHANGED <<options, input, config, errno_, sdr, saved, flags, feeder, known, told>>
      PROVE  IInv'
  <2>1. /\ main' \in Mains /\ main'.at = "reading" /\ main'.session = main.session
    BY <1>1, Typed, Names DEF Mains
  <2>2. edit' \in AllLines /\ edit' = None
    BY <1>1, Typed DEF AllLines
  <2>3. TypeOK' /\ Configured'
    BY <1>1, <2>1, <2>2 DEF IInv, TypeOK, Configured
  <2>4. Places' /\ Ending'
    BY <1>1, <2>1 DEF IInv, Places, Ending, Over, Working, Printing
  <2>5. ~EarlyChalg => Wished'
    BY <1>1, <2>1, <2>2 DEF IInv, Places, Wished, Granted, Chosen, Reading, Working, IsChalg
  <2> QED
    BY <2>3, <2>4, <2>5 DEF IInv
<1>2. ASSUME main.at = "test",
             main' = [main EXCEPT !.at = "stop"],
             UNCHANGED <<options, input, config, edit, errno_, sdr, saved, flags, feeder,
                         known, told>>
      PROVE  IInv'
  <2>1. /\ main' \in Mains /\ main'.at = "stop" /\ main'.session = main.session
    BY <1>2, Typed, Names DEF Mains
  <2>2. TypeOK' /\ Configured'
    BY <1>2, <2>1 DEF IInv, TypeOK, Configured
  <2>3. Places' /\ Ending'
    BY <1>2, <2>1 DEF IInv, Places, Ending, Over, Working, Printing
  <2>4. ~EarlyChalg => Wished'
    BY <1>2, <2>1 DEF IInv, Places, Wished, Granted, Chosen, Reading, Working, IsChalg
  <2> QED
    BY <2>2, <2>3, <2>4 DEF IInv
<1> QED
  BY <1>1, <1>2, Zenon DEF Prompt, MainUnchanged

LEMMA StopKeeps == IInv /\ Stop => IInv'
<1> SUFFICES ASSUME IInv, Stop PROVE IInv'
  OBVIOUS
<1>a. flags.wakes + 1 \in Nat
  BY DEF IInv, TypeOK, Requests
<1>1. ASSUME main.at = "stop",
             main' = [main EXCEPT !.at = "join"],
             flags' = [flags EXCEPT !.stop = TRUE, !.wakes = flags.wakes + 1],
             UNCHANGED <<options, input, config, edit, errno_, sdr, saved, feeder, known, told>>
      PROVE  IInv'
  <2>1. /\ main' \in Mains /\ main'.at = "join" /\ main'.session = main.session
    BY <1>1, Typed, Names DEF Mains
  <2>2. flags' \in Requests
    BY <1>1, Typed, <1>a, Zenon DEF Requests
  <2>3. /\ flags'.stop = TRUE /\ flags'.station = flags.station /\ flags'.alg = flags.alg
    BY <1>1, Typed, <1>a DEF Requests
  <2>4. TypeOK' /\ Configured'
    BY <1>1, <2>1, <2>2, <2>3 DEF IInv, TypeOK, Configured
  <2>5. Places' /\ Ending'
    BY <1>1, <2>1, <2>2, <2>3 DEF IInv, Places, Ending, Over, Working, Printing
  <2>6. ~EarlyChalg => Wished'
    BY <1>1, <2>1, <2>2, <2>3 DEF IInv, Places, Wished, Granted, Chosen, Reading, Working, IsChalg
  <2> QED
    BY <2>4, <2>5, <2>6 DEF IInv
<1> QED
  BY <1>1, Zenon DEF Stop, StopRequest, MainUnchanged

LEMMA JoinKeeps == IInv /\ Join => IInv'
<1> SUFFICES ASSUME IInv, Join PROVE IInv'
  OBVIOUS
<1>1. ASSUME main.at = "join",
             sdr.at = "done",
             main' = [main EXCEPT !.at = "fire", !.restart = FALSE],
             errno_' = "OK",
             sdr' = NewObject,
             flags' = NewFlags,
             feeder' = "off",
             known' = [sdr |-> 0, user |-> 0],
             told' = [told EXCEPT !.report = "none"],
             UNCHANGED <<options, input, config, edit, saved>>
      PROVE  IInv'
  <2>1. main' \in Mains
    BY <1>1, Typed, Names, Zenon DEF Mains
  <2>2. main'.at = "fire" /\ main'.session = main.session
    BY <1>1, Typed, Names DEF Mains
  <2>3. errno_' \in Codes /\ errno_' = "OK"
    BY <1>1, Typed DEF Codes, Reports
  <2>4. /\ sdr' \in Sdrs /\ sdr'.at = "none" /\ sdr'.state_ = "INIT"
    BY <1>1, Typed, Names DEF Sdrs, NewObject
  <2>5. flags' \in Requests
    BY <1>1, Typed, Names, ZeroNumber, Zenon DEF Requests, NewFlags
  <2>6. flags'.stop = FALSE /\ flags'.alg = FALSE
    BY <1>1, Typed, Names, ZeroNumber DEF Requests, NewFlags
  <2>7. feeder' \in {"off", "starting", "running", "ended"}
    BY <1>1, Typed
  <2>8. /\ known' \in Lists /\ known'.sdr = 0 /\ known'.user = 0
    BY <1>1, Typed, StationsAssumption DEF Lists
  <2>9. told' \in Histories /\ told'.report = "none"
    BY <1>1, Typed DEF Histories, Outcomes, Reports
  <2>10. TypeOK' /\ Configured'
    BY <1>1, <2>1, <2>2, <2>3, <2>4, <2>5, <2>6, <2>7, <2>8, <2>9 DEF IInv, TypeOK, Configured
  <2>11. Places' /\ Ending'
    BY <1>1, <2>1, <2>2, <2>3, <2>4, <2>5, <2>6, <2>9 DEF IInv, Places, Ending, Over, Working,
       Printing
  <2>12. ~EarlyChalg => Wished'
    BY <1>1, <2>1, <2>2, <2>4, <2>5, <2>6, <2>8 DEF IInv, Places, Wished, Granted, Chosen,
       Reading, Working, IsChalg
  <2> QED
    BY <2>10, <2>11, <2>12 DEF IInv
<1>2. ASSUME main.at = "join",
             sdr.at = "done",
             main' = [main EXCEPT !.at = "exit"],
             UNCHANGED <<options, input, config, edit, errno_, sdr, saved, flags, feeder,
                         known, told>>
      PROVE  IInv'
  <2>1. /\ main' \in Mains /\ main'.at = "exit" /\ main'.session = main.session
    BY <1>2, Typed, Names DEF Mains
  <2>2. TypeOK' /\ Configured'
    BY <1>2, <2>1 DEF IInv, TypeOK, Configured
  <2>3. Places' /\ Ending'
    BY <1>2, <2>1 DEF IInv, Places, Ending, Over, Working, Printing
  <2>4. ~EarlyChalg => Wished'
    BY <1>2, <2>1 DEF IInv, Places, Wished, Granted, Chosen, Reading, Working, IsChalg
  <2> QED
    BY <2>2, <2>3, <2>4 DEF IInv
<1> QED
  BY <1>1, <1>2, Zenon DEF Join, Revive

LEMMA TypeKeeps == IInv /\ Type => IInv'
<1> SUFFICES ASSUME IInv, Type PROVE IInv'
  OBVIOUS
<1>1. ASSUME NEW line \in Lines,
             main.at = "reading",
             edit = None,
             FindCommand(line.word) = "chalg" => EarlyChalg \/ sdr.state_ = "PLAY",
             edit' = line,
             told' = [told EXCEPT !.typed = told.typed + 1],
             UNCHANGED <<options, input, config, main, errno_, sdr, saved, flags, feeder, known>>
      PROVE  IInv'
  <2>1. edit' \in AllLines /\ edit' = line
    BY <1>1, Typed DEF AllLines
  <2>2. told' \in Histories /\ told'.report = told.report
    BY <1>1, Typed DEF Histories, Outcomes, Reports
  <2>3. TypeOK' /\ Configured'
    BY <1>1, <2>1, <2>2 DEF IInv, TypeOK, Configured
  <2>4. Places' /\ Ending'
    BY <1>1, <2>2 DEF IInv, Places, Ending, Over, Working, Printing
  <2>5. ~EarlyChalg => Wished'
    BY <1>1, <2>1 DEF IInv, Places, Wished, Granted, Chosen, Reading, Working, IsChalg
  <2> QED
    BY <2>3, <2>4, <2>5 DEF IInv
<1> QED
  BY <1>1, Zenon DEF Type, Reading, MainUnchanged

LEMMA EnterKeeps == IInv /\ Enter => IInv'
<1> SUFFICES ASSUME IInv, Enter PROVE IInv'
  OBVIOUS
<1>1. ASSUME NEW q \in BOOLEAN, NEW r \in BOOLEAN,
             main.at = "reading",
             main' = [main EXCEPT !.at = "test", !.quit = q, !.restart = r],
             flags' \in Requests /\ flags'.stop = flags.stop,
             flags'.station = flags.station \/ flags'.station \in Ids(known.user),
             flags'.alg => flags.alg \/ IsChalg(edit),
             told' \in Histories /\ told'.report = told.report,
             edit' = None,
             UNCHANGED <<options, input, config, errno_, sdr, saved, feeder, known>>
      PROVE  IInv'
  <2>1. /\ main' \in Mains /\ main'.at = "test" /\ main'.session = main.session
    BY <1>1, Typed, Names DEF Mains
  <2>2. edit' \in AllLines /\ edit' = None
    BY <1>1, Typed DEF AllLines
  <2>3. TypeOK' /\ Configured'
    BY <1>1, <2>1, <2>2 DEF IInv, TypeOK, Configured
  <2>4. Places' /\ Ending'
    BY <1>1, <2>1 DEF IInv, Places, Ending, Over, Working, Printing
  <2>5. ~EarlyChalg => Wished'
    BY <1>1, <2>1, <2>2 DEF IInv, Places, Wished, Granted, Chosen, Reading, Working, IsChalg
  <2> QED
    BY <2>3, <2>4, <2>5 DEF IInv
<1> QED
  <2> DEFINE q == IF edit = None THEN FALSE ELSE FindCommand(edit.word) = "quit"
             r == IF edit = None THEN FALSE ELSE FindCommand(edit.word) = "restart"
  <2>1. q \in BOOLEAN /\ r \in BOOLEAN
    BY Zenon
  <2>2. main' = [main EXCEPT !.at = "test", !.quit = q, !.restart = r]
    BY Zenon DEF Enter
  <2>3. told' \in Histories /\ told'.report = told.report
    BY SMT DEF Enter, IInv, TypeOK, Histories
  <2>4. /\ flags' \in Requests /\ flags'.stop = flags.stop
        /\ flags'.station = flags.station \/ flags'.station \in Ids(known.user)
        /\ flags'.alg => flags.alg \/ IsChalg(edit)
    BY EnterRequests DEF IInv
  <2> HIDE DEF q, r
  <2> QED
    BY <1>1, <2>1, <2>2, <2>3, <2>4, Zenon DEF Enter, Reading, MainUnchanged

LEMMA EndOfInputKeeps == IInv /\ EndOfInput => IInv'
<1> SUFFICES ASSUME IInv, EndOfInput PROVE IInv'
  OBVIOUS
<1>1. ASSUME main.at = "reading",
             errno_' = "ERROR_UNKNOWN",
             main' = [main EXCEPT !.at = "stop", !.quit = TRUE],
             UNCHANGED <<options, input, config, edit, sdr, saved, flags, feeder, known, told>>
      PROVE  IInv'
  <2>1. errno_' \in Codes /\ errno_' # "OK"
    BY <1>1, Typed DEF Codes, Reports
  <2>2. main' \in Mains
    BY <1>1, Typed, Names, Zenon DEF Mains
  <2>3. main'.at = "stop" /\ main'.session = main.session
    BY <1>1, Typed, Names DEF Mains
  <2>4. TypeOK' /\ Configured'
    BY <1>1, <2>1, <2>2, <2>3 DEF IInv, TypeOK, Configured
  <2>5. Places' /\ Ending'
    BY <1>1, <2>1, <2>2, <2>3 DEF IInv, Places, Ending, Over, Working, Printing
  <2>6. ~EarlyChalg => Wished'
    BY <1>1, <2>2, <2>3 DEF IInv, Places, Wished, Granted, Chosen, Reading, Working, IsChalg
  <2> QED
    BY <2>4, <2>5, <2>6 DEF IInv
<1> QED
  BY <1>1, Zenon DEF EndOfInput, Reading, MainUnchanged

LEMMA FeederKeeps == IInv /\ Feeder => IInv'
<1> SUFFICES ASSUME IInv, Feeder PROVE IInv'
  OBVIOUS
<1>1. ASSUME NEW place \in {"running", "ended"},
             feeder' = place,
             UNCHANGED <<options, input, config, main, edit, errno_, sdr, saved, flags,
                         known, told>>
      PROVE  IInv'
  <2>1. feeder' \in {"off", "starting", "running", "ended"}
    BY <1>1, Typed
  <2>2. TypeOK' /\ Configured'
    BY <1>1, <2>1 DEF IInv, TypeOK, Configured
  <2>3. Places' /\ Ending'
    BY <1>1 DEF IInv, Places, Ending, Over, Working, Printing
  <2>4. ~EarlyChalg => Wished'
    BY <1>1 DEF IInv, Places, Wished, Granted, Chosen, Reading, Working, IsChalg
  <2> QED
    BY <2>2, <2>3, <2>4 DEF IInv
<1> QED
  BY <1>1, Zenon DEF Feeder, FeederStarts, FeederEnds, SdrUnchanged

-----------------------------------------------------------------------------
(* The scheduler's thread *)

LEMMA InitFailsKeeps == IInv /\ InitFails => IInv'
<1> SUFFICES ASSUME IInv, InitFails PROVE IInv'
  OBVIOUS
<1>a. config.start_station_nr \in Numbers
  BY SMT DEF IInv, TypeOK, Configs, Numbers
<1>1. ASSUME NEW code \in {"FILE_NOT_FOUND", "DEVICE_NOT_FOUND", "ERROR_UNKNOWN"},
             sdr.at = "init",
             told' = [told EXCEPT !.report = code],
             errno_' = PrintErrorMsg(code),
             sdr' = [sdr EXCEPT !.at = "print", !.then = "done"],
             flags' = [flags EXCEPT !.station = config.start_station_nr],
             UNCHANGED <<options, input, config, main, edit, saved, feeder, known>>
      PROVE  IInv'
  <2>1. /\ sdr' \in Sdrs /\ sdr'.at = "print" /\ sdr'.then = "done" /\ sdr'.state_ = sdr.state_
        /\ sdr'.delay = sdr.delay
    BY <1>1, Typed, Names DEF Sdrs
  <2>2. /\ flags' \in Requests /\ flags'.stop = flags.stop /\ flags'.alg = flags.alg
    BY <1>1, Typed, <1>a DEF Requests
  <2>3. told' \in Histories /\ told'.report = code
    BY <1>1, Typed DEF Histories, Outcomes, Reports
  <2>4. /\ errno_' \in Codes /\ errno_' # "OK" /\ code # "OK"
    BY <1>1, Typed DEF Codes, Reports, PrintErrorMsg
  <2>5. TypeOK' /\ Configured'
    BY <1>1, <2>1, <2>2, <2>3, <2>4 DEF IInv, TypeOK, Configured
  <2>6. Places' /\ Ending'
    BY <1>1, <2>1, <2>2, <2>3, <2>4 DEF IInv, Places, Ending, Over, Working, Printing
  <2>7. ~EarlyChalg => Wished'
    BY <1>1, <2>1, <2>2 DEF IInv, Places, Wished, Granted, Chosen, Reading, Working, IsChalg
  <2> QED
    BY <2>5, <2>6, <2>7 DEF IInv
<1> QED
  BY <1>1, Zenon DEF InitFails, Report, SdrUnchanged

LEMMA InitSucceedsKeeps == IInv /\ InitSucceeds => IInv'
<1> SUFFICES ASSUME IInv, InitSucceeds PROVE IInv'
  OBVIOUS
<1>a. config.start_station_nr \in Numbers
  BY SMT DEF IInv, TypeOK, Configs, Numbers
<1>1. ASSUME sdr.at = "init",
             sdr' = [sdr EXCEPT !.at = "spin", !.state_ = "SYNC"],
             flags' = [flags EXCEPT !.station = config.start_station_nr],
             feeder' = "starting",
             UNCHANGED <<options, input, config, main, edit, errno_, saved, known, told>>
      PROVE  IInv'
  <2>1. /\ sdr' \in Sdrs /\ sdr'.at = "spin" /\ sdr'.state_ = "SYNC" /\ sdr'.delay = sdr.delay
        /\ sdr'.then = sdr.then
    BY <1>1, Typed, Names DEF Sdrs
  <2>2. /\ flags' \in Requests /\ flags'.stop = flags.stop /\ flags'.alg = flags.alg
    BY <1>1, Typed, <1>a DEF Requests
  <2>3. feeder' \in {"off", "starting", "running", "ended"}
    BY <1>1, Typed
  <2>4. TypeOK' /\ Configured'
    BY <1>1, <2>1, <2>2, <2>3 DEF IInv, TypeOK, Configured
  <2>5. Places' /\ Ending'
    BY <1>1, <2>1, <2>2 DEF IInv, Places, Ending, Over, Working, Printing
  <2>6. ~EarlyChalg => Wished'
    BY <1>1, <2>1, <2>2 DEF IInv, Places, Wished, Granted, Chosen, Reading, Working, IsChalg
  <2> QED
    BY <2>4, <2>5, <2>6 DEF IInv
<1> QED
  BY <1>1, Zenon DEF InitSucceeds, SdrUnchanged

LEMMA SpinKeeps == IInv /\ Spin => IInv'
<1> SUFFICES ASSUME IInv, Spin PROVE IInv'
  OBVIOUS
<1>1. ASSUME sdr.at = "spin",
             sdr' = [sdr EXCEPT !.at = "loop"],
             UNCHANGED <<options, input, config, main, edit, errno_, saved, flags, feeder,
                         known, told>>
      PROVE  IInv'
  <2>1. /\ sdr' \in Sdrs /\ sdr'.at = "loop" /\ sdr'.state_ = sdr.state_
        /\ sdr'.delay = sdr.delay /\ sdr'.then = sdr.then
    BY <1>1, Typed, Names DEF Sdrs
  <2>2. TypeOK' /\ Configured'
    BY <1>1, <2>1 DEF IInv, TypeOK, Configured
  <2>3. Places' /\ Ending'
    BY <1>1, <2>1 DEF IInv, Places, Ending, Over, Working, Printing
  <2>4. ~EarlyChalg => Wished'
    BY <1>1, <2>1 DEF IInv, Places, Wished, Granted, Chosen, Reading, Working, IsChalg
  <2> QED
    BY <2>2, <2>3, <2>4 DEF IInv
<1> QED
  BY <1>1, Zenon DEF Spin, SdrUnchanged

LEMMA ProcessKeeps == IInv /\ Process => IInv'
<1> SUFFICES ASSUME IInv, Process PROVE IInv'
  OBVIOUS
<1>1. ASSUME sdr.at = "loop",
             sdr' = [sdr EXCEPT !.delay = 2, !.at = "stop"],
             UNCHANGED <<options, input, config, main, edit, errno_, saved, flags, feeder,
                         known, told>>
      PROVE  IInv'
  <2>1. /\ sdr' \in Sdrs /\ sdr'.delay = 2 /\ sdr'.at = "stop" /\ sdr'.state_ = sdr.state_
        /\ sdr'.then = sdr.then
    BY <1>1, Typed, Names DEF Sdrs
  <2>2. TypeOK' /\ Configured'
    BY <1>1, <2>1 DEF IInv, TypeOK, Configured
  <2>3. Places' /\ Ending'
    BY <1>1, <2>1 DEF IInv, Places, Ending, Over, Working, Printing
  <2>4. ~EarlyChalg => Wished'
    BY <1>1, <2>1 DEF IInv, Places, Wished, Granted, Chosen, Reading, Working, IsChalg
  <2> QED
    BY <2>2, <2>3, <2>4 DEF IInv
<1>2. ASSUME sdr.at = "loop",
             flags.stop,
             sdr' = [sdr EXCEPT !.delay = 2, !.state_ = "EXTERNAL_STOP"],
             UNCHANGED <<options, input, config, main, edit, errno_, saved, flags, feeder,
                         known, told>>
      PROVE  IInv'
  <2>1. /\ sdr' \in Sdrs /\ sdr'.delay = 2 /\ sdr'.state_ = "EXTERNAL_STOP" /\ sdr'.at = sdr.at
        /\ sdr'.then = sdr.then
    BY <1>2, Typed, Names DEF Sdrs
  <2>2. TypeOK' /\ Configured'
    BY <1>2, <2>1 DEF IInv, TypeOK, Configured
  <2>3. Places' /\ Ending'
    BY <1>2, <2>1 DEF IInv, Places, Ending, Over, Working, Printing
  <2>4. ~EarlyChalg => Wished'
    BY <1>2, <2>1 DEF IInv, Places, Wished, Granted, Chosen, Reading, Working, IsChalg
  <2> QED
    BY <2>2, <2>3, <2>4 DEF IInv
<1>3. ASSUME NEW d \in {0, 1}, NEW state \in Working,
             sdr.at = "loop",
             sdr.delay # 2,
             ~EarlyChalg => AfterFlags(state),
             sdr' = [sdr EXCEPT !.delay = d, !.state_ = state, !.at = state],
             UNCHANGED <<options, input, config, main, edit, errno_, saved, flags, feeder,
                         known, told>>
      PROVE  IInv'
  <2>1. /\ sdr' \in Sdrs /\ sdr'.delay = d /\ sdr'.state_ = state /\ sdr'.at = state
        /\ sdr'.then = sdr.then
    BY <1>3, Typed, Names DEF Sdrs, States
  <2>2. TypeOK' /\ Configured'
    BY <1>3, <2>1 DEF IInv, TypeOK, Configured
  <2>3. Places' /\ Ending'
    BY <1>3, <2>1 DEF IInv, Places, Ending, Over, Working, Printing
  <2>4. ~EarlyChalg => Wished'
    BY <1>3, <2>1 DEF IInv, Places, Wished, Granted, Chosen, Reading, Working, IsChalg, AfterFlags
  <2> QED
    BY <2>2, <2>3, <2>4 DEF IInv
<1> QED
  <2> DEFINE d == sdr.delay + (IF feeder = "running" THEN 0 ELSE 1)
             state == StateAfterFlags(sdr.state_)
  <2>1. /\ state \in Working \cup {"EXTERNAL_STOP"}
        /\ state = "EXTERNAL_STOP" => flags.stop
        /\ ~EarlyChalg => AfterFlags(state)
    BY FlagsFollowed DEF Process
  <2>2. d \in 0..3 /\ (d < 2 => sdr.delay # 2)
    BY Typed DEF Sdrs
  <2>3. /\ sdr.at = "loop"
        /\ sdr' = IF d >= 2 THEN [sdr EXCEPT !.delay = 2, !.at = "stop"]
                  ELSE IF state = "EXTERNAL_STOP"
                  THEN [sdr EXCEPT !.delay = 2, !.state_ = state]
                  ELSE [sdr EXCEPT !.delay = d, !.state_ = state, !.at = state]
        /\ UNCHANGED <<options, input, config, main, edit, errno_, saved, flags, feeder,
                       known, told>>
    BY Zenon DEF Process, SdrUnchanged
  <2> HIDE DEF d, state
  <2>4. CASE d >= 2
    BY <1>1, <2>3, <2>4, Zenon
  <2>5. CASE ~(d >= 2) /\ state = "EXTERNAL_STOP"
    BY <1>2, <2>1, <2>3, <2>5, Zenon
  <2>6. CASE ~(d >= 2) /\ state # "EXTERNAL_STOP"
    <3>1. d \in {0, 1} /\ sdr.delay # 2
      BY <2>2, <2>6
    <3>2. state \in Working
      BY <2>1, <2>6, Zenon
    <3> QED BY <1>3, <2>1, <2>3, <2>6, <3>1, <3>2, Zenon
  <2> QED BY <2>4, <2>5, <2>6, Zenon

LEMMA SyncKeeps == IInv /\ Sync => IInv'
<1> SUFFICES ASSUME IInv, Sync PROVE IInv'
  OBVIOUS
<1>1. ASSUME sdr.at = "SYNC",
             sdr' = [sdr EXCEPT !.state_ = "CONF", !.at = "loop"],
             UNCHANGED <<options, input, config, main, edit, errno_, saved, flags, feeder,
                         known, told>>
      PROVE  IInv'
  <2>1. /\ sdr' \in Sdrs /\ sdr'.state_ = "CONF" /\ sdr'.at = "loop" /\ sdr'.delay = sdr.delay
        /\ sdr'.then = sdr.then
    BY <1>1, Typed, Names DEF Sdrs
  <2>2. TypeOK' /\ Configured'
    BY <1>1, <2>1 DEF IInv, TypeOK, Configured
  <2>3. Places' /\ Ending'
    BY <1>1, <2>1 DEF IInv, Places, Ending, Over, Working, Printing
  <2>4. ~EarlyChalg => Wished'
    BY <1>1, <2>1 DEF IInv, Places, Wished, Granted, Chosen, Reading, Working, IsChalg
  <2> QED
    BY <2>2, <2>3, <2>4 DEF IInv
<1>2. ASSUME sdr.at = "SYNC",
             sdr' = [sdr EXCEPT !.at = "loop"],
             UNCHANGED <<options, input, config, main, edit, errno_, saved, flags, feeder,
                         known, told>>
      PROVE  IInv'
  <2>1. /\ sdr' \in Sdrs /\ sdr'.at = "loop" /\ sdr'.state_ = sdr.state_
        /\ sdr'.delay = sdr.delay /\ sdr'.then = sdr.then
    BY <1>2, Typed, Names DEF Sdrs
  <2>2. TypeOK' /\ Configured'
    BY <1>2, <2>1 DEF IInv, TypeOK, Configured
  <2>3. Places' /\ Ending'
    BY <1>2, <2>1 DEF IInv, Places, Ending, Over, Working, Printing
  <2>4. ~EarlyChalg => Wished'
    BY <1>2, <2>1 DEF IInv, Places, Wished, Granted, Chosen, Reading, Working, IsChalg
  <2> QED
    BY <2>2, <2>3, <2>4 DEF IInv
<1>3. ASSUME sdr.at = "SYNC",
             sdr' = [sdr EXCEPT !.at = "print", !.then = "loop"],
             UNCHANGED <<options, input, config, main, edit, errno_, saved, flags, feeder,
                         known, told>>
      PROVE  IInv'
  <2>1. /\ sdr' \in Sdrs /\ sdr'.at = "print" /\ sdr'.then = "loop" /\ sdr'.state_ = sdr.state_
        /\ sdr'.delay = sdr.delay
    BY <1>3, Typed, Names DEF Sdrs
  <2>2. TypeOK' /\ Configured'
    BY <1>3, <2>1 DEF IInv, TypeOK, Configured
  <2>3. Places' /\ Ending'
    BY <1>3, <2>1 DEF IInv, Places, Ending, Over, Working, Printing
  <2>4. ~EarlyChalg => Wished'
    BY <1>3, <2>1 DEF IInv, Places, Wished, Granted, Chosen, Reading, Working, IsChalg
  <2> QED
    BY <2>2, <2>3, <2>4 DEF IInv
<1> QED
  BY <1>1, <1>2, <1>3, Zenon DEF Sync, SdrUnchanged

LEMMA ConfKeeps == IInv /\ Conf => IInv'
<1> SUFFICES ASSUME IInv, Conf PROVE IInv'
  OBVIOUS
<1>a. Ids(known.sdr) \subseteq Numbers
  BY ListedNumbers, StationsAssumption DEF Ids, IInv, TypeOK, Lists
<1>c. \A n \in known.sdr..Len(Stations) : n \in 0..Len(Stations)
  BY StationsAssumption DEF IInv, TypeOK, Lists
<1>1. ASSUME NEW place \in {"print", "loop"},
             sdr.at = "CONF",
             sdr' = [sdr EXCEPT !.state_ = "SYNC", !.at = place, !.then = "loop"],
             UNCHANGED <<options, input, config, main, edit, errno_, saved, flags, feeder,
                         known, told>>
      PROVE  IInv'
  <2>1. /\ sdr' \in Sdrs /\ sdr'.state_ = "SYNC" /\ sdr'.at = place /\ sdr'.then = "loop"
        /\ sdr'.delay = sdr.delay
    BY <1>1, Typed, Names DEF Sdrs
  <2>2. TypeOK' /\ Configured'
    BY <1>1, <2>1 DEF IInv, TypeOK, Configured
  <2>3. Places' /\ Ending'
    BY <1>1, <2>1 DEF IInv, Places, Ending, Over, Working, Printing
  <2>4. ~EarlyChalg => Wished'
    BY <1>1, <2>1 DEF IInv, Places, Wished, Granted, Chosen, Reading, Working, IsChalg
  <2> QED
    BY <2>2, <2>3, <2>4 DEF IInv
<1>2. ASSUME NEW n \in known.sdr..Len(Stations),
             sdr.at = "CONF",
             sdr' = [sdr EXCEPT !.at = "loop"],
             known' = [known EXCEPT !.sdr = n, !.user = n],
             UNCHANGED <<options, input, config, main, edit, errno_, saved, flags, feeder, told>>
      PROVE  IInv'
  <2>1. /\ sdr' \in Sdrs /\ sdr'.at = "loop" /\ sdr'.state_ = sdr.state_
        /\ sdr'.delay = sdr.delay /\ sdr'.then = sdr.then
    BY <1>2, Typed, Names DEF Sdrs
  <2>2. /\ known' \in Lists /\ known'.sdr = n /\ known'.user = n
    BY <1>2, Typed, <1>c, StationsAssumption DEF Lists
  <2>3. TypeOK' /\ Configured'
    BY <1>2, <2>1, <2>2 DEF IInv, TypeOK, Configured
  <2>4. Places' /\ Ending'
    BY <1>2, <2>1 DEF IInv, Places, Ending, Over, Working, Printing
  <2>5. ~EarlyChalg => Wished'
    BY <1>2, <2>1, <2>2 DEF IInv, Places, Wished, Granted, Chosen, Reading, Working, IsChalg
  <2> QED
    BY <2>3, <2>4, <2>5 DEF IInv
<1>3. ASSUME NEW id \in Ids(known.sdr),
             sdr.at = "CONF",
             sdr' = [sdr EXCEPT !.state_ = "CONFSTATION", !.at = "loop"],
             flags' = [flags EXCEPT !.station = id],
             UNCHANGED <<options, input, config, main, edit, errno_, saved, feeder, known, told>>
      PROVE  IInv'
  <2>1. /\ sdr' \in Sdrs /\ sdr'.state_ = "CONFSTATION" /\ sdr'.at = "loop"
        /\ sdr'.delay = sdr.delay /\ sdr'.then = sdr.then
    BY <1>3, Typed, Names DEF Sdrs
  <2>2. /\ flags' \in Requests /\ flags'.station = id /\ flags'.stop = flags.stop
        /\ flags'.alg = flags.alg
    BY <1>3, Typed, <1>a DEF Requests
  <2>3. TypeOK' /\ Configured'
    BY <1>3, <2>1, <2>2 DEF IInv, TypeOK, Configured
  <2>4. Places' /\ Ending'
    BY <1>3, <2>1, <2>2 DEF IInv, Places, Ending, Over, Working, Printing
  <2>5. ~EarlyChalg => Wished'
    BY <1>3, <2>1, <2>2 DEF IInv, Places, Wished, Granted, Chosen, Reading, Working, IsChalg
  <2> QED
    BY <2>3, <2>4, <2>5 DEF IInv
<1> QED
  <2> DEFINE place == IF Losses THEN "print" ELSE "loop"
             id == IF flags.station \in Ids(known.sdr) THEN flags.station ELSE Stations[1].id
  <2>1. place \in {"print", "loop"} /\ (known.sdr > 0 => id \in Ids(known.sdr))
    <3>1. known.sdr > 0 => Stations[1].id \in Ids(known.sdr)
      BY Typed DEF Ids, Lists
    <3> QED BY <3>1, Zenon
  <2>2. \/ /\ sdr' = [sdr EXCEPT !.state_ = "SYNC", !.at = place, !.then = "loop"]
           /\ UNCHANGED <<flags, known>>
        \/ /\ sdr' = [sdr EXCEPT !.at = "loop"]
           /\ \E n \in known.sdr..Len(Stations) :
                known' = [known EXCEPT !.sdr = n, !.user = n]
           /\ UNCHANGED flags
        \/ /\ known.sdr > 0
           /\ sdr' = [sdr EXCEPT !.state_ = "CONFSTATION", !.at = "loop"]
           /\ flags' = [flags EXCEPT !.station = id]
           /\ UNCHANGED known
    BY Zenon DEF Conf
  <2>3. /\ sdr.at = "CONF"
        /\ UNCHANGED <<options, input, config, main, edit, errno_, saved, feeder, told>>
    BY Zenon DEF Conf, SdrUnchanged
  <2> HIDE DEF place, id
  <2> QED BY <1>1, <1>2, <1>3, <2>1, <2>2, <2>3, Zenon

LEMMA ReconfigureKeeps == IInv /\ Reconfigure => IInv'
<1> SUFFICES ASSUME IInv, Reconfigure PROVE IInv'
  OBVIOUS
<1>1. ASSUME NEW id \in Numbers,
             sdr.at \in {"CONFSTATION", "CONFCONVALG"},
             sdr' = [sdr EXCEPT !.on = id, !.state_ = "PLAY", !.at = "loop"],
             flags' = [flags EXCEPT !.alg = FALSE],
             UNCHANGED <<options, input, config, main, edit, errno_, saved, feeder, known, told>>
      PROVE  IInv'
  <2>1. /\ sdr' \in Sdrs /\ sdr'.state_ = "PLAY" /\ sdr'.at = "loop" /\ sdr'.delay = sdr.delay
        /\ sdr'.then = sdr.then
    BY <1>1, Typed, Names DEF Sdrs
  <2>2. flags' \in Requests
    BY <1>1, Typed, Zenon DEF Requests
  <2>3. /\ flags'.alg = FALSE /\ flags'.stop = flags.stop /\ flags'.station = flags.station
    BY <1>1, Typed DEF Requests
  <2>4. TypeOK' /\ Configured'
    BY <1>1, <2>1, <2>2, <2>3 DEF IInv, TypeOK, Configured
  <2>5. Places' /\ Ending'
    BY <1>1, <2>1, <2>2, <2>3 DEF IInv, Places, Ending, Over, Working, Printing
  <2>6. ~EarlyChalg => Wished'
    BY <1>1, <2>1, <2>2, <2>3 DEF IInv, Places, Wished, Granted, Chosen, Reading, Working, IsChalg
  <2> QED
    BY <2>4, <2>5, <2>6 DEF IInv
<1>2. ASSUME sdr.at \in {"CONFSTATION", "CONFCONVALG"},
             sdr' = [sdr EXCEPT !.state_ = "PLAY", !.at = "print", !.then = "loop"],
             UNCHANGED <<options, input, config, main, edit, errno_, saved, flags, feeder,
                         known, told>>
      PROVE  IInv'
  <2>1. /\ sdr' \in Sdrs /\ sdr'.state_ = "PLAY" /\ sdr'.at = "print" /\ sdr'.then = "loop"
        /\ sdr'.delay = sdr.delay
    BY <1>2, Typed, Names DEF Sdrs
  <2>2. TypeOK' /\ Configured'
    BY <1>2, <2>1 DEF IInv, TypeOK, Configured
  <2>3. Places' /\ Ending'
    BY <1>2, <2>1 DEF IInv, Places, Ending, Over, Working, Printing
  <2>4. ~EarlyChalg => Wished'
    BY <1>2, <2>1 DEF IInv, Places, Wished, Granted, Chosen, Reading, Working, IsChalg
  <2> QED
    BY <2>2, <2>3, <2>4 DEF IInv
<1> QED
  BY <1>1, <1>2, Zenon DEF Reconfigure, SdrUnchanged, Numbers

LEMMA PlayTellsKeeps == IInv /\ PlayTells => IInv'
<1> SUFFICES ASSUME IInv, PlayTells PROVE IInv'
  OBVIOUS
<1>1. ASSUME NEW n \in known.sdr..Len(Stations),
             known' = [sdr |-> n, user |-> n],
             UNCHANGED <<options, input, config, main, edit, errno_, sdr, saved, flags,
                         feeder, told>>
      PROVE  IInv'
  <2>1. /\ known' \in Lists /\ known'.sdr = n /\ known'.user = n
    BY <1>1, Typed, StationsAssumption DEF Lists
  <2>2. TypeOK' /\ Configured'
    BY <1>1, <2>1 DEF IInv, TypeOK, Configured
  <2>3. Places' /\ Ending'
    BY <1>1 DEF IInv, Places, Ending, Over, Working, Printing
  <2>4. ~EarlyChalg => Wished'
    BY <1>1, <2>1, IdsGrow, Typed DEF IInv, Places, Wished, Granted, Chosen, Reading, Working,
       IsChalg, Lists
  <2> QED
    BY <2>2, <2>3, <2>4 DEF IInv
<1> QED
  BY <1>1, Zenon DEF PlayTells, SdrUnchanged

LEMMA PlayEndsKeeps == IInv /\ PlayEnds => IInv'
<1> SUFFICES ASSUME IInv, PlayEnds PROVE IInv'
  OBVIOUS
<1>1. ASSUME NEW pulled \in 1..flags.wakes,
             sdr.at = "PLAY",
             sdr' = [sdr EXCEPT !.at = "loop"],
             flags' = [flags EXCEPT !.wakes = flags.wakes - pulled],
             UNCHANGED <<options, input, config, main, edit, errno_, saved, feeder, known, told>>
      PROVE  IInv'
  <2>1. /\ sdr' \in Sdrs /\ sdr'.at = "loop" /\ sdr'.state_ = sdr.state_
        /\ sdr'.delay = sdr.delay /\ sdr'.then = sdr.then
    BY <1>1, Typed, Names DEF Sdrs
  <2>2. /\ flags' \in Requests /\ flags'.stop = flags.stop /\ flags'.station = flags.station
        /\ flags'.alg = flags.alg
    BY <1>1, Typed DEF Requests
  <2>3. TypeOK' /\ Configured'
    BY <1>1, <2>1, <2>2 DEF IInv, TypeOK, Configured
  <2>4. Places' /\ Ending'
    BY <1>1, <2>1, <2>2 DEF IInv, Places, Ending, Over, Working, Printing
  <2>5. ~EarlyChalg => Wished'
    BY <1>1, <2>1, <2>2 DEF IInv, Places, Wished, Granted, Chosen, Reading, Working, IsChalg
  <2> QED
    BY <2>3, <2>4, <2>5 DEF IInv
<1> QED
  BY <1>1, Zenon DEF PlayEnds, SdrUnchanged

LEMMA StopSchedulerKeeps == IInv /\ StopScheduler => IInv'
<1> SUFFICES ASSUME IInv, StopScheduler PROVE IInv'
  OBVIOUS
<1>1. ASSUME NEW code \in {"OK", "FILE_END", "DEVICE_DISCONNECTED"},
             NEW place \in {"done", "print"},
             sdr.at = "stop",
             sdr' = [sdr EXCEPT !.at = place, !.then = "done"],
             sdr.state_ = "EXTERNAL_STOP" => place = "done",
             told' = [told EXCEPT !.report = code],
             errno_' = PrintErrorMsg(code),
             code = "OK" => flags.stop,
             feeder' = "ended",
             flags' = [flags EXCEPT !.wakes = flags.wakes + 1],
             UNCHANGED <<options, input, config, main, edit, saved, known>>
      PROVE  IInv'
  <2>1. /\ sdr' \in Sdrs /\ sdr'.at = place /\ sdr'.then = "done" /\ sdr'.state_ = sdr.state_
        /\ sdr'.delay = sdr.delay
    BY <1>1, Typed, Names DEF Sdrs
  <2>2. /\ flags' \in Requests /\ flags'.stop = flags.stop /\ flags'.station = flags.station
        /\ flags'.alg = flags.alg
    BY <1>1, Typed DEF Requests
  <2>3. told' \in Histories /\ told'.report = code
    BY <1>1, Typed DEF Histories, Outcomes, Reports
  <2>4. errno_' \in Codes /\ errno_' = code
    BY <1>1, Typed DEF Codes, Reports, PrintErrorMsg
  <2>5. feeder' \in {"off", "starting", "running", "ended"}
    BY <1>1, Typed
  <2>6. TypeOK' /\ Configured'
    BY <1>1, <2>1, <2>2, <2>3, <2>4, <2>5 DEF IInv, TypeOK, Configured
  <2>7. Places' /\ Ending'
    BY <1>1, <2>1, <2>2, <2>3, <2>4 DEF IInv, Places, Ending, Over, Working, Printing
  <2>8. ~EarlyChalg => Wished'
    BY <1>1, <2>1, <2>2 DEF IInv, Places, Wished, Granted, Chosen, Reading, Working, IsChalg
  <2> QED
    BY <2>6, <2>7, <2>8 DEF IInv
<1> QED
  <2> DEFINE stopped == sdr.state_ = "EXTERNAL_STOP"
             place == IF stopped THEN "done" ELSE "print"
             code == IF stopped THEN "OK" ELSE IF config.from_file THEN "FILE_END"
                     ELSE "DEVICE_DISCONNECTED"
  <2>1. code \in {"OK", "FILE_END", "DEVICE_DISCONNECTED"} /\ (code = "OK" => flags.stop)
    BY SMT DEF IInv, Ending
  <2>2. place \in {"done", "print"} /\ (stopped => place = "done")
    BY Zenon
  <2>3. /\ sdr.at = "stop"
        /\ sdr' = [sdr EXCEPT !.at = place, !.then = "done"]
        /\ told' = [told EXCEPT !.report = code]
        /\ errno_' = PrintErrorMsg(code)
        /\ feeder' = "ended"
        /\ flags' = [flags EXCEPT !.wakes = flags.wakes + 1]
        /\ UNCHANGED <<options, input, config, main, edit, saved, known>>
    BY Zenon DEF StopScheduler, Report, SdrUnchanged
  <2> HIDE DEF code, place
  <2> QED BY <1>1, <2>1, <2>2, <2>3, Zenon

LEMMA PrintSavesKeeps == IInv /\ PrintSaves => IInv'
<1> SUFFICES ASSUME IInv, PrintSaves PROVE IInv'
  OBVIOUS
<1>a. edit \in AllLines
  BY DEF IInv, TypeOK
<1>1. ASSUME NEW need \in BOOLEAN,
             sdr.at = "print",
             need <=> main.at = "reading",
             saved' = [need |-> need, line |-> edit],
             sdr' = [sdr EXCEPT !.at = "blank"],
             UNCHANGED <<options, input, config, main, edit, errno_, flags, feeder, known, told>>
      PROVE  IInv'
  <2>1. /\ saved' \in Saveds /\ saved'.need = need /\ saved'.line = edit
    BY <1>1, Typed, <1>a DEF Saveds
  <2>2. /\ sdr' \in Sdrs /\ sdr'.at = "blank" /\ sdr'.state_ = sdr.state_
        /\ sdr'.delay = sdr.delay /\ sdr'.then = sdr.then
    BY <1>1, Typed, Names DEF Sdrs
  <2>3. TypeOK' /\ Configured'
    BY <1>1, <2>1, <2>2 DEF IInv, TypeOK, Configured
  <2>4. Places' /\ Ending'
    BY <1>1, <2>1, <2>2 DEF IInv, Places, Ending, Over, Working, Printing
  <2>5. ~EarlyChalg => Wished'
    BY <1>1, <2>1, <2>2 DEF IInv, Places, Wished, Granted, Chosen, Reading, Working, IsChalg
  <2> QED
    BY <2>3, <2>4, <2>5 DEF IInv
<1> QED
  <2> DEFINE need == Reading
  <2>1. need \in BOOLEAN /\ (need <=> main.at = "reading")
    BY Zenon DEF Reading
  <2>2. saved' = [need |-> need, line |-> edit]
    BY Zenon DEF PrintSaves
  <2> HIDE DEF need
  <2> QED BY <1>1, <2>1, <2>2, Zenon DEF PrintSaves, SdrUnchanged

LEMMA PrintBlanksKeeps == IInv /\ PrintBlanks => IInv'
<1> SUFFICES ASSUME IInv, PrintBlanks PROVE IInv'
  OBVIOUS
<1>a. edit \in AllLines
  BY DEF IInv, TypeOK
<1>1. ASSUME sdr.at = "blank",
             edit' = IF saved.need THEN None ELSE edit,
             sdr' = [sdr EXCEPT !.at = "restore"],
             UNCHANGED <<options, input, config, main, errno_, saved, flags, feeder, known, told>>
      PROVE  IInv'
  <2>1. edit' \in AllLines /\ edit' \in {None, edit}
    BY <1>1, Typed, <1>a DEF AllLines
  <2>2. /\ sdr' \in Sdrs /\ sdr'.at = "restore" /\ sdr'.state_ = sdr.state_
        /\ sdr'.delay = sdr.delay /\ sdr'.then = sdr.then
    BY <1>1, Typed, Names DEF Sdrs
  <2>3. TypeOK' /\ Configured'
    BY <1>1, <2>1, <2>2 DEF IInv, TypeOK, Configured
  <2>4. Places' /\ Ending'
    BY <1>1, <2>2 DEF IInv, Places, Ending, Over, Working, Printing
  <2>5. ~EarlyChalg => Wished'
    BY <1>1, <2>1, <2>2 DEF IInv, Places, Wished, Granted, Chosen, Reading, Working, IsChalg
  <2> QED
    BY <2>3, <2>4, <2>5 DEF IInv
<1> QED
  BY <1>1, Zenon DEF PrintBlanks, SdrUnchanged

LEMMA PrintRestoresKeeps == IInv /\ PrintRestores => IInv'
<1> SUFFICES ASSUME IInv, PrintRestores PROVE IInv'
  OBVIOUS
<1>a. edit \in AllLines
  BY DEF IInv, TypeOK
<1>c. sdr.then \in Returns /\ sdr.then \in {"none", "loop", "done"}
  BY DEF IInv, TypeOK, Sdrs, Returns
<1>1. ASSUME sdr.at = "restore",
             edit' = IF saved.need THEN saved.line ELSE edit,
             saved' = NotSaved,
             sdr' = [sdr EXCEPT !.at = sdr.then],
             UNCHANGED <<options, input, config, main, errno_, flags, feeder, known, told>>
      PROVE  IInv'
  <2>1. edit' \in AllLines
    BY <1>1, Typed, <1>a DEF AllLines, Saveds
  <2>2. saved' \in Saveds
    BY <1>1, Typed, Zenon DEF Saveds, NotSaved, AllLines
  <2>3. saved'.need = FALSE
    BY <1>1, Typed DEF Saveds, NotSaved, AllLines
  <2>4. /\ sdr' \in Sdrs /\ sdr'.at = sdr.then /\ sdr'.state_ = sdr.state_
        /\ sdr'.delay = sdr.delay /\ sdr'.then = sdr.then
    BY <1>1, Typed, <1>c, Names DEF Sdrs
  <2>5. TypeOK' /\ Configured'
    BY <1>1, <2>1, <2>2, <2>3, <2>4 DEF IInv, TypeOK, Configured
  <2>6. Places' /\ Ending'
    BY <1>1, <2>2, <2>3, <2>4, <1>c DEF IInv, Places, Ending, Over, Working, Printing
  <2>7. ~EarlyChalg => Wished'
    BY <1>1, <2>1, <2>2, <2>3, <2>4 DEF IInv, Places, Wished, Granted, Chosen, Reading, Working,
       IsChalg
  <2> QED
    BY <2>5, <2>6, <2>7 DEF IInv
<1> QED
  BY <1>1, Zenon DEF PrintRestores, SdrUnchanged

-----------------------------------------------------------------------------
(* The invariant, and what follows from it *)

LEMMA Invariance == IInv /\ [Next]_vars => IInv'
<1> SUFFICES ASSUME IInv, [Next]_vars PROVE IInv'
  OBVIOUS
<1>1. CASE UNCHANGED vars
  BY <1>1 DEF vars, IInv, TypeOK, Places, Configured, Ending, Over, Wished, Granted, Chosen,
     Reading, IsChalg
<1>2. CASE Scheduler
  BY <1>2, InitFailsKeeps, InitSucceedsKeeps, SpinKeeps, ProcessKeeps, SyncKeeps, ConfKeeps,
     ReconfigureKeeps, PlayTellsKeeps, PlayEndsKeeps, StopSchedulerKeeps, PrintSavesKeeps,
     PrintBlanksKeeps, PrintRestoresKeeps DEF Scheduler
<1>3. CASE Main
  BY <1>3, ParseOptionKeeps, StartProgramKeeps, FireSchedulerThreadKeeps, PromptKeeps, StopKeeps,
     JoinKeeps DEF Main
<1>4. CASE User \/ Feeder
  BY <1>4, TypeKeeps, EnterKeeps, EndOfInputKeeps, FeederKeeps DEF User
<1> QED
  BY <1>1, <1>2, <1>3, <1>4 DEF Next

\* Every variable keeps its type, whatever is typed and whenever.
THEOREM TypeCorrect == Spec => []TypeOK
<1>1. IInv => TypeOK
  BY DEF IInv
<1> QED
  BY Begin, Invariance, <1>1, PTL DEF Spec

\* The program returns what its last session reported, also when the end of the input has set
\* errno_ from the other thread (cli_scheduler.cc:146).
THEOREM StatusTells == Spec => []ExitStatusTells
<1>1. IInv => ExitStatusTells
  BY DEF IInv, Ending, Over, ExitStatusTells
<1> QED
  BY Begin, Invariance, <1>1, PTL DEF Spec

\* No scheduler is made but with a carrier in the band, a device and somewhere for the sound to
\* go, whatever the options (user_input.cc:124).
THEOREM ConfigWorks == Spec => []UsableConfig
<1>1. IInv => UsableConfig
  BY DEF IInv, Configured, UsableConfig
<1> QED
  BY Begin, Invariance, <1>1, PTL DEF Spec

\* Where `chalg' is not typed before a station plays, all of it: the result is the truth, the
\* options make a configuration that works, and the station to be configured or played is one
\* that the scheduler knows, so that STATION_NOT_FOUND is never reported (scheduler.cc:614).
THEOREM ResultAndWish == ASSUME ~EarlyChalg PROVE Spec => []CommandsTrue
<1>1. IInv => CommandsTrue
  <2>1. IInv => ExitStatusTells
    BY DEF IInv, Ending, Over, ExitStatusTells
  <2>2. IInv => WishIsKnown
    BY DEF IInv, Wished, Granted, WishIsKnown
  <2>3. IInv => UsableConfig
    BY DEF IInv, Configured, UsableConfig
  <2> QED BY <2>1, <2>2, <2>3 DEF CommandsTrue
<1> QED
  BY Begin, Invariance, <1>1, PTL DEF Spec
==============================================================================
