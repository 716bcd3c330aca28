----------------------------- MODULE MCTracking -----------------------------
(* How the receiver follows the frames of a multiplex: the synchronizer, the   *)
(* correction of its crystal, and the demodulator, each behaviour about one of *)
(* them.                                                                      *)
EXTENDS DriftEstimation, Synchronizer, Demodulator

\* Crystals that are 6 and 8 ppm off.
MCErrors == {-1200, 1600}

\* Recordings that begin before, inside and after a null symbol, at the bounds of
\* the detection, and in steps of 4096 samples.
Firsts == {-2000, -300, -50, -1, 1, 16, 50, 83, 84, 85, 99, 100, 101, 116, 117, 200,
           19990, 20000, 20100, 20116, 24576, 49000, 49151} \cup {4096 * k : k \in 1..47}
MCBegins == {b \in [mode : {"I", "II", "III", "IV"}, first : Firsts] :
               b.first < FrameSize(b.mode) /\ b.first > -NullSize(b.mode)}
MCLoud == {<<4>>, <<4, 5, 6, 3>>}
MCQuiet == {<<0>>, <<1, 2, 1>>}

\* Stations that begin and end at, before and after the ends of symbols, in all modes.
Edges == {0, 1, 2, 5, 6, 7, 11, 12, 13, 23, 24, 25, 47, 48, 49, 95, 96, 432,
          815, 816, 839, 840, 851, 852, 857, 858, 863, 864}
MCStations == {[sub_ch_start_addr |-> a, sub_ch_size |-> b - a] : a \in Edges, b \in Edges}
                \cap [sub_ch_start_addr : 0..863, sub_ch_size : 1..864]

NoDemodulator ==
  /\ mode_parameters_ = SetModeParameters("I") /\ station = FicOnly /\ phase = "none"
  /\ transformed = [s \in Symbols |-> 0] /\ unit = << >>
  /\ tail = "samples" /\ sync_start_data_ = "nothing" /\ searched = "samples"
NoSynchronizer ==
  /\ begin = NoBegin /\ detected = [mode |-> "unknown", null_position |-> 0]
  /\ next_null = 0 /\ null_quality = "none" /\ upsets = 0

MCInit ==
  \/ Init /\ NoSynchronizer /\ NoDemodulator
  \/ Start /\ error = 0 /\ SynchronizerInit /\ NoDemodulator
  \/ Start /\ error = 0 /\ NoSynchronizer /\ CreateDemodulator
MCNext ==
  \/ error # 0 /\ Next /\ UNCHANGED <<synchronizer_vars, demodulator_vars>>
  \/ phase = "none" /\ error = 0 /\ SynchronizerNext /\ UNCHANGED <<vars, demodulator_vars>>
  \/ phase # "none" /\ DemodulatorNext /\ UNCHANGED <<vars, synchronizer_vars>>

\* The behaviours of the synchronizer and of the demodulator are not fair: of them
\* only the invariants and the steps are checked.
MCSpec == MCInit /\ [][MCNext]_<<vars, synchronizer_vars, demodulator_vars>> /\ []<><<TRUE>>_vars
=============================================================================
