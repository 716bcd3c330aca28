------------------------------ MODULE UserInput ------------------------------
(***************************************************************************)
(* The command line of sdrdab-cli (user_input.cc): argp hands one option   *)
(* after the other to Parser, the arguments that belong to no option come  *)
(* last, and Postprocessing fills in what was not given.                   *)
(*                                                                         *)
(* An option is [key, arg]; arg is <<"number", n>>, <<"none">> where there *)
(* is none, and a <<"text", t>> in which sscanf finds no number.  graphic_,*)
(* rds_, verbose_ and resamplingFreq_ are read by nobody outside the       *)
(* notices and left out.                                                   *)
(***************************************************************************)
EXTENDS Integers, Sequences

DEFAULT_FREQ_kHz == 229072
DEFAULT_FS_kHz == 2048
MIN_DAB_FREQ_kHz == 174000
MAX_DAB_FREQ_kHz == 230000
NO_TUNER_SELECTED == -1

NoInput ==
  [freq_ |-> 0, sampling_rate_ |-> 0, channel_nr |-> 0, list_ |-> FALSE,
   tuner_ |-> NO_TUNER_SELECTED, file_ |-> FALSE, silent_ |-> FALSE, output_ |-> FALSE,
   bugfix_applied_ |-> FALSE, error |-> FALSE]

\* What sscanf may find in an argument.
Args == {<<"none">>} \cup ({"number"} \X Int) \cup ({"text"} \X STRING)
Number(arg) == arg[1] = "number"
Fail(u) == [u EXCEPT !.error = TRUE]

Frequency(u, arg) ==
  IF Number(arg) /\ arg[2] \in MIN_DAB_FREQ_kHz..MAX_DAB_FREQ_kHz
  THEN [u EXCEPT !.freq_ = arg[2] * 1000] ELSE Fail(u)

Channel(u, arg) ==
  IF Number(arg) THEN [u EXCEPT !.channel_nr = arg[2] % 256] ELSE Fail(u)

SamplingRate(u, arg) ==
  IF Number(arg) THEN [u EXCEPT !.sampling_rate_ = arg[2] * 1000] ELSE Fail(u)

\* -t with its number attached; without one the number may follow as an
\* argument of its own, which argp cannot know (ApplyBugfix).
OpenTuner(u, arg) ==
  IF arg = <<"none">> THEN [u EXCEPT !.tuner_ = 0, !.bugfix_applied_ = TRUE]
  ELSE IF Number(arg) /\ arg[2] >= 0 THEN [u EXCEPT !.tuner_ = arg[2]]
  ELSE Fail(u)

\* An argument behind the options.
Argument(u, arg) ==
  IF u.list_ THEN u
  ELSE IF u.bugfix_applied_ /\ Number(arg) /\ arg[2] >= 0 THEN [u EXCEPT !.tuner_ = arg[2]]
  ELSE Fail(u)

\* The setups for recorded files; they give the frequency in kHz.
Setup(u, kHz) == [u EXCEPT !.freq_ = kHz, !.file_ = TRUE, !.output_ = TRUE]

Parser(u, o) ==
  IF o.key = "f" THEN Frequency(u, o.arg)
  ELSE IF o.key = "c" THEN Channel(u, o.arg)
  ELSE IF o.key = "l" THEN [u EXCEPT !.list_ = TRUE]
  ELSE IF o.key = "t" THEN OpenTuner(u, o.arg)
  ELSE IF o.key = "sampling-rate" THEN SamplingRate(u, o.arg)
  ELSE IF o.key = "open-file" THEN IF o.arg[1] = "text" THEN [u EXCEPT !.file_ = TRUE] ELSE Fail(u)
  ELSE IF o.key = "katowice" THEN Setup([u EXCEPT !.channel_nr = 6], 209936)
  ELSE IF o.key = "antena" THEN Setup(u, 229072)
  ELSE IF o.key = "convolutional" THEN IF o.arg = <<"text", "viterbi">> THEN u ELSE Fail(u)
  ELSE IF o.key = "s" THEN [u EXCEPT !.silent_ = TRUE]
  ELSE IF o.key = "o" THEN [u EXCEPT !.output_ = TRUE]
  ELSE Argument(u, o.arg)

FromTuner(u) == u.tuner_ # NO_TUNER_SELECTED \/ ~u.file_

Postprocessing(u) ==
  IF u.list_ THEN u
  ELSE IF u.silent_ /\ ~u.output_ THEN Fail(u)
  ELSE [u EXCEPT
         !.tuner_ = IF FromTuner(u) /\ @ = NO_TUNER_SELECTED THEN 0 ELSE @,
         !.freq_ = IF @ = 0 THEN DEFAULT_FREQ_kHz * 1000 ELSE @,
         !.sampling_rate_ = IF @ = 0 THEN DEFAULT_FS_kHz * 1000 ELSE @]

\* The configuration that CLIScheduler::Start makes of it.  255: no station.
SchedulerConfig(u) ==
  [carrier_frequency |-> u.freq_, sampling_rate |-> u.sampling_rate_,
   from_file |-> ~FromTuner(u), dongle_nr |-> IF FromTuner(u) THEN u.tuner_ ELSE 0,
   use_speakers |-> ~u.silent_, output |-> u.output_,
   start_station_nr |-> IF u.channel_nr > 0 THEN u.channel_nr ELSE 255]
==============================================================================
