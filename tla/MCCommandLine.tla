---------------------------- MODULE MCCommandLine ----------------------------
(* The commands are typed whole, shortened, or wrongly; two stations,        *)
(* whose names have a common beginning.                                      *)
EXTENDS CommandLine, SequencesExt

MCStations == <<[id |-> 3, name |-> "Jazz"], [id |-> 5, name |-> "Jazz 2"]>>
MCBegins == [w \in {"station", "s", "quit", "q", "restart", "chalg", "blank", "other"} |->
  CASE w = "blank" -> Commands
    [] w = "other" -> {}
    [] OTHER -> {c \in Commands : <<w, c>> \in
         {<<"s", "station">>, <<"q", "quit">>, <<"station", "station">>, <<"quit", "quit">>,
          <<"restart", "restart">>, <<"chalg", "chalg">>}}]
MCBeginsName == [t \in {"Jazz", "Jazz 2", "Rock", "viterbi"} |->
  CASE t = "Jazz" -> {"Jazz", "Jazz 2"} [] t = "Jazz 2" -> {"Jazz 2"} [] OTHER -> {}]

Line(w, a) == [word |-> w, arg |-> a]
MCLines == {Line("s", <<"number", 261>>), Line("station", <<"text", "Jazz">>),
            Line("q", <<"none">>), Line("restart", <<"none">>),
            Line("chalg", <<"text", "viterbi">>)}
MCTyping == {Line("s", <<"number", 5>>), Line("blank", <<"none">>), Line("other", <<"none">>)}

Option(k, a) == [key |-> k, arg |-> a]
MCOptions ==
  {Option("f", <<"number", 174000>>), Option("f", <<"number", 230001>>),
   Option("f", <<"text", "bad">>), Option("c", <<"number", 3>>), Option("c", <<"text", "bad">>),
   Option("l", <<"none">>), Option("t", <<"none">>), Option("t", <<"number", 1>>),
   Option("t", <<"number", -1>>), Option("sampling-rate", <<"number", 2048>>),
   Option("open-file", <<"text", "name">>), Option("open-file", <<"none">>),
   Option("katowice", <<"none">>), Option("antena", <<"none">>),
   Option("convolutional", <<"text", "viterbi">>), Option("convolutional", <<"none">>),
   Option("s", <<"none">>), Option("o", <<"text", "name">>)}
MCArguments == {<< >>, <<Option("argument", <<"number", 2>>)>>,
                <<Option("argument", <<"text", "bad">>)>>}
MCOptionLists == {<<o, p>> \o a : o \in MCOptions, p \in MCOptions, a \in MCArguments}

\* Sessions are explored for a file, and with the number of a station.
Explored == main.session > 0 =>
  config \in {SchedulerConfig(Postprocessing(
                [NoInput EXCEPT !.file_ = TRUE, !.channel_nr = 3]))}
==============================================================================
