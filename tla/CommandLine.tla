----------------------------- MODULE CommandLine -----------------------------
(***************************************************************************)
(* The command line program (sdrdab-cli.cc, cli_scheduler.cc, read_line.cc *)
(* and Start, Process, Stop, ParametersToSDR of scheduler.cc): the main    *)
(* thread reads lines, the scheduler's thread runs Scheduler::Start and    *)
(* reports to the first one's object, and the data feeder comes and goes.  *)
(*                                                                         *)
(* SYNC, CONF, Reconfigure and Play are what `Acquisition', `StationList'  *)
(* and `PlayPipeline' make of them: the state they return, and for Play    *)
(* that it returns only when -1 is pulled.  The threads_event_queue_ is    *)
(* the number of -1 in it.                                                 *)
(*                                                                         *)
(* A word is a model value that begins the commands Begins[word]; a text   *)
(* begins the names of stations in BeginsName[text].  What is printed is   *)
(* left out; that printing from the other thread takes the line that is    *)
(* being typed away and puts it back is not.                               *)
(***************************************************************************)
EXTENDS UserInput, FiniteSets, FiniteSetsExt

CONSTANTS
  OptionLists,     \* what the program may be called with
  Lines,           \* what may be typed: [word, arg]
  Begins,          \* commands a word begins
  BeginsName,      \* names a text begins
  Stations,        \* the list of stations: [id, name]
  MaxTyped,        \* bound: lines typed
  MaxSessions,     \* bound: sessions, by `restart'
  Losses,          \* is DAB_NOT_DETECTED printed when Sync or Conf find nothing?
  ShortInput,      \* may the feeder end before Start has seen it run?
  EarlyChalg       \* may `chalg' be typed before a station plays?

Commands == {"station", "list", "quit", "help", "restart", "chalg"}
None == [word |-> "", arg |-> <<"none">>]

ASSUME CommandAssumption ==
  /\ \A line \in Lines : line.word \in DOMAIN Begins
  /\ \A w \in DOMAIN Begins : Begins[w] \subseteq Commands
ASSUME OptionsAssumption == OptionLists \subseteq Seq([key : STRING, arg : Args])
ASSUME StationsAssumption ==
  /\ Len(Stations) \in Nat \ {0}
  /\ \A i \in 1..Len(Stations) : Stations[i].id \in 0..255

VARIABLES
  options,    \* the options argp still has to hand over
  input,      \* user_input_; what the session uses of it remains in config
  config,     \* SchedulerConfig_t of all sessions
  main,       \* the main thread: at; quit, restart; session
  edit,       \* the line in readline's buffer
  errno_,
  sdr,        \* the scheduler's thread and object: at; state_, delay, and
              \* station_info_.SubChannelId `on'; `then': after printing
  saved,      \* ReadLine::printf: need_solution and saved_line
  flags,      \* requested_stop_, station_number_, conv_decoder_alg_change,
              \* and the -1 in threads_event_queue_
  feeder,     \* "off", "starting", "running", "ended"
  known,      \* length of station_info_list_; of user_data_.stations
  told        \* history: the code reported by this session; lines typed,
              \* and run (counted up to one more than may be typed)

vars == <<options, input, config, main, edit, errno_, sdr, saved, flags, feeder, known, told>>
session == <<main, edit, errno_, sdr, saved, flags, feeder, known, told>>

NewObject == [at |-> "none", state_ |-> "INIT", delay |-> 0, on |-> 0, then |-> "none"]
NewFlags == [stop |-> FALSE, station |-> 255, alg |-> FALSE, wakes |-> 0]
NotSaved == [need |-> FALSE, line |-> None]

Init == /\ options \in OptionLists
        /\ input = NoInput
        /\ config = SchedulerConfig(NoInput)
        /\ main = [at |-> "options", quit |-> FALSE, restart |-> FALSE, session |-> 0]
        /\ edit = None
        /\ errno_ = "OK"
        /\ sdr = NewObject
        /\ saved = NotSaved
        /\ flags = NewFlags
        /\ feeder = "off"
        /\ known = [sdr |-> 0, user |-> 0]
        /\ told = [report |-> "none", typed |-> 0, run |-> 0]

-----------------------------------------------------------------------------
(* The beginning of main *)

ParseOption == /\ main.at = "options"
               /\ options # << >>
               /\ ~input.error
               /\ input' = Parser(input, Head(options))
               /\ options' = Tail(options)
               /\ UNCHANGED <<config, session>>

\* After the last option; --list-devices ends in RequestedList.
StartProgram ==
  /\ main.at = "options"
  /\ options = << >> \/ input.error
  /\ LET u == IF input.error THEN input ELSE Postprocessing(input)
     IN IF u.error \/ u.list_
        THEN /\ main' = [main EXCEPT !.at = "exit"]
             /\ errno_' = IF u.error THEN "ARGP_EXIT_ERR_CODE" ELSE "OK"
             /\ UNCHANGED config
        ELSE /\ config' = SchedulerConfig(u)
             /\ main' = [main EXCEPT !.at = "fire"]
             /\ UNCHANGED errno_
  /\ options' = << >>
  /\ input' = NoInput
  /\ UNCHANGED <<edit, sdr, saved, flags, feeder, known, told>>

FireSchedulerThread ==
  /\ main.at = "fire"
  /\ \/ /\ main' = [main EXCEPT !.at = "test", !.session = @ + 1]
        /\ sdr' = [NewObject EXCEPT !.at = "init"]
        /\ UNCHANGED errno_
     \/ /\ main' = [main EXCEPT !.at = "exit"]
        /\ errno_' = "PTHREAD_CREATE_FAIL"
        /\ UNCHANGED sdr
  /\ UNCHANGED <<options, input, config, edit, saved, flags, feeder, known, told>>

-----------------------------------------------------------------------------
(* The scheduler's thread *)

SdrUnchanged == UNCHANGED <<options, input, config, main>>

\* PrintErrorMsg: what it has no words for is an unknown error.
PrintErrorMsg(code) ==
  IF code \in {"OK", "FILE_NOT_FOUND", "DEVICE_NOT_FOUND", "DEVICE_DISCONNECTED", "FILE_END"}
  THEN code ELSE "ERROR_UNKNOWN"

\* ParametersFromSDR(error code), of a session that is over.
Report(code) == /\ errno_' = PrintErrorMsg(code)
                /\ told' = [told EXCEPT !.report = code]

\* Init: there is no such device or file, or a thread cannot be made.
InitFails ==
  /\ sdr.at = "init"
  /\ Report(IF config.from_file THEN "FILE_NOT_FOUND" ELSE "DEVICE_NOT_FOUND")
     \/ Report("ERROR_UNKNOWN")
  /\ sdr' = [sdr EXCEPT !.at = "print", !.then = "done"]
  /\ flags' = [flags EXCEPT !.station = config.start_station_nr]
  /\ SdrUnchanged /\ UNCHANGED <<edit, saved, feeder, known>>

InitSucceeds == /\ sdr.at = "init"
                /\ sdr' = [sdr EXCEPT !.at = "spin", !.state_ = "SYNC"]
                /\ flags' = [flags EXCEPT !.station = config.start_station_nr]
                /\ feeder' = "starting"
                /\ SdrUnchanged /\ UNCHANGED <<edit, errno_, saved, known, told>>

\* while (!datafeeder_->IsRunning());
Spin == /\ sdr.at = "spin"
        /\ feeder = "running"
        /\ sdr' = [sdr EXCEPT !.at = "loop"]
        /\ SdrUnchanged /\ UNCHANGED <<edit, errno_, saved, flags, feeder, known, told>>

\* The flags, in the order in which Process looks at them.
StateAfterFlags(state) ==
  LET a == IF flags.stop THEN "EXTERNAL_STOP" ELSE state
      b == IF flags.station # sdr.on /\ a = "PLAY" THEN "CONFSTATION" ELSE a
  IN IF flags.alg THEN "CONFCONVALG" ELSE b

\* The head of the loop of Process.
Process ==
  /\ sdr.at = "loop"
  /\ LET delay == sdr.delay + (IF feeder = "running" THEN 0 ELSE 1)
         state == StateAfterFlags(sdr.state_)
     IN sdr' = IF delay >= 2
               THEN [sdr EXCEPT !.delay = 2, !.at = "stop"]
               ELSE IF state = "EXTERNAL_STOP"
               THEN [sdr EXCEPT !.delay = 2, !.state_ = state]
               ELSE [sdr EXCEPT !.delay = delay, !.state_ = state, !.at = state]
  /\ SdrUnchanged /\ UNCHANGED <<edit, errno_, saved, flags, feeder, known, told>>

\* Sync; nothing found is printed.
Sync == /\ sdr.at = "SYNC"
        /\ \/ sdr' = [sdr EXCEPT !.state_ = "CONF", !.at = "loop"]
           \/ ~Losses /\ sdr' = [sdr EXCEPT !.at = "loop"]
           \/ Losses /\ sdr' = [sdr EXCEPT !.at = "print", !.then = "loop"]
        /\ SdrUnchanged /\ UNCHANGED <<edit, errno_, saved, flags, feeder, known, told>>

Ids(n) == {Stations[i].id : i \in 1..n}

\* Conf: back to SYNC, once more, or a station of the list is chosen.
Conf ==
  /\ sdr.at = "CONF"
  /\ \/ /\ sdr' = [sdr EXCEPT !.state_ = "SYNC", !.at = IF Losses THEN "print" ELSE "loop",
                           !.then = "loop"]
        /\ UNCHANGED <<flags, known>>
     \/ /\ sdr' = [sdr EXCEPT !.at = "loop"]
        /\ \E n \in known.sdr..Len(Stations) :
             known' = [known EXCEPT !.sdr = n, !.user = n]
        /\ UNCHANGED flags
     \/ /\ known.sdr > 0
        /\ sdr' = [sdr EXCEPT !.state_ = "CONFSTATION", !.at = "loop"]
        /\ flags' = [flags EXCEPT !.station =
             IF @ \in Ids(known.sdr) THEN @ ELSE Stations[1].id]
        /\ UNCHANGED known
  /\ SdrUnchanged /\ UNCHANGED <<edit, errno_, saved, feeder, told>>

\* Reconfigure: the station is looked for in the list; for a change of the
\* decoder alone the entry behind the last one would do, which is none.
Reconfigure ==
  /\ sdr.at \in {"CONFSTATION", "CONFCONVALG"}
  /\ IF flags.station \in Ids(known.sdr) \/ flags.alg
     THEN /\ \E id \in 0..255 : /\ flags.station \in Ids(known.sdr) => id = flags.station
                               /\ sdr' = [sdr EXCEPT !.on = id, !.state_ = "PLAY", !.at = "loop"]
          /\ flags' = [flags EXCEPT !.alg = FALSE]
     ELSE /\ sdr' = [sdr EXCEPT !.state_ = "PLAY", !.at = "print", !.then = "loop"]
          /\ UNCHANGED flags
  /\ SdrUnchanged /\ UNCHANGED <<edit, errno_, saved, feeder, known, told>>

\* Play tells of the list, which has grown, ...
PlayTells == /\ sdr.at = "PLAY"
             /\ \E n \in known.sdr..Len(Stations) : known' = [sdr |-> n, user |-> n]
             /\ SdrUnchanged /\ UNCHANGED <<edit, errno_, sdr, saved, flags, feeder, told>>

\* ... and ends on -1.  Others that come before the workers have come to rest
\* are pulled by the second loop.
PlayEnds == /\ sdr.at = "PLAY"
            /\ \E pulled \in 1..flags.wakes : flags' = [flags EXCEPT !.wakes = @ - pulled]
            /\ sdr' = [sdr EXCEPT !.at = "loop"]
            /\ SdrUnchanged /\ UNCHANGED <<edit, errno_, saved, feeder, known, told>>

\* Stop(error code), at the end of Process; it ends the feeder, too.
StopScheduler ==
  /\ sdr.at = "stop"
  /\ Report(IF sdr.state_ = "EXTERNAL_STOP" THEN "OK"
            ELSE IF config.from_file THEN "FILE_END" ELSE "DEVICE_DISCONNECTED")
  /\ feeder' = "ended"
  /\ flags' = [flags EXCEPT !.wakes = @ + 1]
  /\ sdr' = [sdr EXCEPT !.at = IF sdr.state_ = "EXTERNAL_STOP" THEN "done" ELSE "print",
                        !.then = "done"]
  /\ SdrUnchanged /\ UNCHANGED <<edit, saved, known>>

FeederStarts == /\ feeder = "starting"
                /\ feeder' = "running"
                /\ SdrUnchanged /\ UNCHANGED <<edit, errno_, sdr, saved, flags, known, told>>

\* The end of the file, or the dongle is pulled out.
FeederEnds == /\ feeder = "running"
              /\ ShortInput \/ sdr.at # "spin"
              /\ feeder' = "ended"
              /\ SdrUnchanged /\ UNCHANGED <<edit, errno_, sdr, saved, flags, known, told>>

\* ReadLine::printf, while the main thread may be in readline.
Reading == main.at = "reading"

PrintSaves == /\ sdr.at = "print"
              /\ saved' = [need |-> Reading, line |-> edit]
              /\ sdr' = [sdr EXCEPT !.at = "blank"]
              /\ SdrUnchanged /\ UNCHANGED <<edit, errno_, flags, feeder, known, told>>

PrintBlanks == /\ sdr.at = "blank"
               /\ edit' = IF saved.need THEN None ELSE edit
               /\ sdr' = [sdr EXCEPT !.at = "restore"]
               /\ SdrUnchanged /\ UNCHANGED <<errno_, saved, flags, feeder, known, told>>

PrintRestores == /\ sdr.at = "restore"
                 /\ edit' = IF saved.need THEN saved.line ELSE edit
                 /\ saved' = NotSaved
                 /\ sdr' = [sdr EXCEPT !.at = sdr.then]
                 /\ SdrUnchanged /\ UNCHANGED <<errno_, flags, feeder, known, told>>

-----------------------------------------------------------------------------
(* The main thread *)

MainUnchanged == UNCHANGED <<options, input, config, saved, feeder, known>>

\* The condition of the loop of CLIScheduler::Process; readline begins with
\* an empty line.
Prompt == /\ main.at = "test"
          /\ IF errno_ = "OK" /\ ~main.quit /\ ~main.restart
             THEN main' = [main EXCEPT !.at = "reading"] /\ edit' = None
             ELSE main' = [main EXCEPT !.at = "stop"] /\ UNCHANGED edit
          /\ MainUnchanged /\ UNCHANGED <<errno_, sdr, flags, told>>

\* FindCommand: the whole name, or the only command that begins so.
FindCommand(word) == IF word \in Commands THEN word
                     ELSE IF Cardinality(Begins[word]) = 1
                     THEN CHOOSE c \in Begins[word] : TRUE ELSE "unknown"

Type == /\ Reading
        /\ edit = None
        /\ told.typed < MaxTyped
        /\ \E line \in Lines :
             /\ FindCommand(line.word) = "restart" => main.session < MaxSessions
             /\ FindCommand(line.word) = "chalg" => EarlyChalg \/ sdr.state_ = "PLAY"
             /\ edit' = line
        /\ told' = [told EXCEPT !.typed = @ + 1]
        /\ MainUnchanged /\ UNCHANGED <<main, errno_, sdr, flags>>

\* Stations in user_data_ that match, and of them the first.
Matches(arg) == {i \in 1..known.user :
  IF Number(arg) THEN Stations[i].id = arg[2] % 256
                 ELSE Stations[i].name \in BeginsName[arg[2]]}

\* Faulty variant: the scheduler is not woken up.
WishStationQuietly(f, id) == [f EXCEPT !.station = id]
\* ParametersToSDR(STATION_NUMBER)
WishStation(f, id) == [f EXCEPT !.station = id, !.wakes = @ + 1]

\* Faulty variant: a number is not looked up.
CommandStationAsTyped(f, arg) ==
  IF known.user = 0 \/ arg = <<"none">> THEN f
  ELSE IF Number(arg) THEN WishStation(f, arg[2] % 256)
  ELSE IF Matches(arg) = {} THEN f ELSE WishStation(f, Stations[Min(Matches(arg))].id)
CommandStation(f, arg) ==
  IF known.user = 0 \/ arg = <<"none">> \/ Matches(arg) = {} THEN f
  ELSE WishStation(f, Stations[Min(Matches(arg))].id)

\* Enter: readline returns, the line is parsed and its command carried out.
Enter ==
  /\ Reading
  /\ LET command == IF edit = None THEN "none" ELSE FindCommand(edit.word)
     IN /\ main' = [main EXCEPT !.at = "test", !.quit = (command = "quit"),
                                !.restart = (command = "restart")]
        /\ flags' = IF command = "station" THEN CommandStation(flags, edit.arg)
                    ELSE IF command = "chalg" /\ edit.arg = <<"text", "viterbi">>
                    THEN [flags EXCEPT !.alg = TRUE] ELSE flags
  /\ told' = [told EXCEPT !.run =
       IF edit = None \/ @ > MaxTyped THEN @ ELSE @ + 1]
  /\ edit' = None
  /\ MainUnchanged /\ UNCHANGED <<errno_, sdr>>

\* End of input (Ctrl-D on an empty line).
EndOfInput == /\ Reading
              /\ edit = None
              /\ errno_' = "ERROR_UNKNOWN"
              /\ main' = [main EXCEPT !.at = "stop", !.quit = TRUE]
              /\ MainUnchanged /\ UNCHANGED <<edit, sdr, flags, told>>

\* Scheduler::Stop(): the flag, and -1 to break the loop of Play.
StopRequest == flags' = [flags EXCEPT !.stop = TRUE, !.wakes = @ + 1]

Stop == /\ main.at = "stop"
        /\ StopRequest
        /\ main' = [main EXCEPT !.at = "join"]
        /\ MainUnchanged /\ UNCHANGED <<edit, errno_, sdr, told>>

\* A new object with the old user_input_.
Revive == /\ errno_' = "OK"
          /\ sdr' = NewObject
          /\ flags' = NewFlags
          /\ feeder' = "off"
          /\ known' = [sdr |-> 0, user |-> 0]
          /\ told' = [told EXCEPT !.report = "none"]

\* pthread_join; then Process returns whether to restart.
Join ==
  /\ main.at = "join"
  /\ sdr.at = "done"
  /\ IF main.restart
     THEN main' = [main EXCEPT !.at = "fire", !.restart = FALSE] /\ Revive
     ELSE /\ main' = [main EXCEPT !.at = "exit"]
          /\ UNCHANGED <<errno_, sdr, flags, feeder, known, told>>
  /\ UNCHANGED <<options, input, config, edit, saved>>

-----------------------------------------------------------------------------
Scheduler ==
  \/ InitFails \/ InitSucceeds \/ Spin \/ Process \/ Sync \/ Conf \/ Reconfigure
  \/ PlayTells \/ PlayEnds \/ StopScheduler \/ PrintSaves \/ PrintBlanks \/ PrintRestores
Main == ParseOption \/ StartProgram \/ FireSchedulerThread \/ Prompt \/ Stop \/ Join
User == Type \/ Enter \/ EndOfInput
Feeder == FeederStarts \/ FeederEnds

Next == Scheduler \/ Main \/ User \/ Feeder

\* The signal is good enough in the end: Sync and Conf go on.
GoodSignal == (Sync \/ Conf) /\ sdr'.state_ # sdr.state_

Spec == Init /\ [][Next]_vars
FairSpec == /\ Spec
            /\ WF_vars(Scheduler) /\ WF_vars(Main) /\ WF_vars(FeederStarts) /\ WF_vars(Enter)
            /\ WF_vars(PlayEnds)
            /\ SF_vars(GoodSignal)
-----------------------------------------------------------------------------
(* Properties *)

\* What the program returns is what its last session reported, also when the
\* input ended (which sets errno_ from the other thread) or when another
\* session failed before.
ExitStatusTells ==
  (main.at = "exit" /\ sdr.at = "done") => (errno_ = "OK" <=> told.report = "OK")

\* A station that is wished for while one plays is one that the scheduler
\* knows, whatever was typed and however the lists grow; STATION_NOT_FOUND,
\* which would be printed without end, is never reported.
WishIsKnown == sdr.state_ \in {"CONFSTATION", "PLAY"} => flags.station \in Ids(known.sdr)

\* A decoder is only made for an entry of the list ("If found, change to it",
\* scheduler.cc:627).
MadeForAnEntry == sdr.at \in {"CONFSTATION", "CONFCONVALG"} => flags.station \in Ids(known.sdr)

\* With the options of the user the scheduler gets a carrier in the band (the
\* setups excepted, which give kHz), and sound goes somewhere.
InBand(hz) == 174000000 <= hz /\ hz <= 230000000
Usable(c) == /\ \/ InBand(c.carrier_frequency)
                \/ c.carrier_frequency \in {209936, 229072} /\ c.output
             /\ c.use_speakers \/ c.output
             /\ c.dongle_nr >= 0
UsableConfig == main.session > 0 => Usable(config)

\* quit, restart and the end of the input end the session: join returns.
SessionEnds == (main.at = "stop") ~> (main.at \in {"fire", "exit"})

\* An error ends the session after the next line, whatever is typed.
ErrorNoticed == (told.report \notin {"none", "OK"}) ~> (main.at \in {"fire", "exit"})

\* A wish for another station is granted, or the session is over.
WishGranted == (sdr.state_ = "PLAY" /\ flags.station # sdr.on)
                 ~> (sdr.on = flags.station \/ sdr.at \in {"none", "done"})

\* In every state: the result is the truth, the wish can be granted, and the options
\* make a configuration that works (scheduler.cc:614, user_input.cc:124).
CommandsTrue == ExitStatusTells /\ WishIsKnown /\ UsableConfig

\* In the end: what the user asks for is done, and an error stops the program.
UserObeyed == SessionEnds /\ ErrorNoticed /\ WishGranted

\* Nothing is run that was not typed: printing leaves the prompt untouched
\* (read_line.h:73).
LineRunOnce == told.run <= told.typed
==============================================================================
