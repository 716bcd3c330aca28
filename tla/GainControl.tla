----------------------------- MODULE GainControl -----------------------------
(* The feeder of a dongle opens it and sets the gain of its tuner after each  *)
(* block: a step down when samples are clipped, a step up when one step more  *)
(* would not clip them (rtl_data_feeder.cc).  Amplitudes are in tenths of a   *)
(* dB relative to full scale, like the gains in tenths of a dB; a block is    *)
(* its peak, the amplitude that more than one of 16384 samples reach.  A new  *)
(* gain comes into force while the next block is being sampled.               *)
EXTENDS RtlDevice

CONSTANTS
  sample_rate, carrier_freq,   \* of the scheduler's configuration
  Levels,                      \* peaks of what the antenna gives
  MaxFades                     \* bound: changes of it

ASSUME GainAssumption == Levels \subseteq Int /\ MaxFades \in Nat

VARIABLES
  agc,           \* gain_index and almost_treshold
  level,
  fades,
  sampled        \* the highest gain the next block was sampled with

gainvars == <<agc, level, fades, sampled>>

Off == [gain_index |-> 0, almost_treshold |-> 0]

tuner_gains ==
  [type \in {"E4000", "FC0012", "FC0013", "FC2580", "R820T", "R828D", "none"} |->
    LET gains == rtlsdr_get_tuner_gains(type)
    IN [i \in 1..Cardinality(gains) |->
         CHOOSE g \in gains : Cardinality({h \in gains : h < g}) = i - 1] \o << >>]
tuner_gain_count == Len(tuner_gains[dongle.dev.tuner_type])

\* 127 / (10^(step / 100)): tuner_linear_gains are powers, so a step counts twice.
increment_gain_factor(type, i) ==
  LET gains == tuner_gains[type]
  IN IF i = Len(gains) THEN -10000 ELSE -2 * (gains[i + 1] - gains[i])
NineTenths == -9

rtlsdr_set_tuner_gain(s, gain) ==
  LET set == tuner_set_gain(s, gain)
  IN [s EXCEPT !.chip = set.chip, !.dev.gain = IF set.r = 0 THEN gain ELSE 0]

\* Manual gain, and the highest.
SetInitialGain(s) ==
  LET manual == [s EXCEPT !.chip = tuner_set_gain_mode(s, TRUE).chip]
      gains == tuner_gains[s.dev.tuner_type]
  IN rtlsdr_set_tuner_gain(manual, gains[Len(gains)])

\* The reported gain is looked up in the list.
DongleInit ==
  /\ ~IsOpen
  /\ \E index \in 0..(rtlsdr_get_device_count - 1) :
     \E open \in {Opened(find_device(index))} :
     \E rated \in {set_sample_rate(open, sample_rate)} :
     \E tuned \in {set_center_freq(rated, carrier_freq).s} :
     \E s \in {SetInitialGain(tuned)} :
     \E gain_index \in DOMAIN tuner_gains[s.dev.tuner_type] :
       /\ tuner_gains[s.dev.tuner_type][gain_index] = s.dev.gain
       /\ dongle' = s
       /\ agc' = [gain_index |-> gain_index,
                  almost_treshold |-> increment_gain_factor(s.dev.tuner_type, gain_index)]
       /\ sampled' = s.dev.gain
  /\ UNCHANGED <<bus, calls, level, fades>>

Peak == sampled + level
Clipped == Peak >= 0
AlmostClipped == Peak > agc.almost_treshold

SetGain(i, almost) ==
  /\ \E s \in {rtlsdr_set_tuner_gain(dongle, tuner_gains[dongle.dev.tuner_type][i])} : dongle' = s
  /\ agc' = [gain_index |-> i, almost_treshold |-> almost]

\* Faulty variant: the threshold of the gain that was clipped.
DownWithOldFactor ==
  /\ Clipped /\ agc.gain_index > 1
  /\ SetGain(agc.gain_index - 1,
             increment_gain_factor(dongle.dev.tuner_type, agc.gain_index) + NineTenths)
Down ==
  /\ Clipped /\ agc.gain_index > 1
  /\ SetGain(agc.gain_index - 1,
             increment_gain_factor(dongle.dev.tuner_type, agc.gain_index - 1) + NineTenths)
Up ==
  /\ ~Clipped /\ ~AlmostClipped /\ agc.gain_index < tuner_gain_count
  /\ SetGain(agc.gain_index + 1,
             increment_gain_factor(dongle.dev.tuner_type, agc.gain_index + 1))
Stay ==
  /\ Clipped => agc.gain_index = 1
  /\ ~Clipped /\ ~AlmostClipped => agc.gain_index = tuner_gain_count
  /\ UNCHANGED <<dongle, agc>>

\* A block; the beginning of the next may be sampled with the gain it had.
AGC ==
  /\ agc # Off
  /\ Down \/ Up \/ Stay
  /\ sampled' \in {chip_gain', IF chip_gain > chip_gain' THEN chip_gain ELSE chip_gain'}
  /\ UNCHANGED <<bus, calls, level, fades>>

Fade ==
  /\ fades < MaxFades
  /\ fades' = fades + 1
  /\ level' \in Levels
  /\ UNCHANGED <<bus, dongle, calls, agc, sampled>>

GainInit == RtlInit /\ agc = Off /\ level \in Levels /\ fades = 0 /\ sampled = 0
GainNext == DongleInit \/ AGC \/ Fade
GainSpec == GainInit /\ [][GainNext]_<<rtlvars, gainvars>> /\ WF_<<rtlvars, gainvars>>(AGC)

-----------------------------------------------------------------------------
(* Properties *)

\* Nothing is clipped that a lower gain could help, and a step more would come within
\* another step and one dB of clipping.
GainRight ==
  /\ Clipped => agc.gain_index = 1
  /\ agc.gain_index < tuner_gain_count =>
       Peak >= increment_gain_factor(dongle.dev.tuner_type, agc.gain_index) - 10

\* When the signal stays as it is, the gain comes to rest where it is right, with each
\* tuner's uneven steps and although a block may show the gain before the last step
\* (AGC, called from AsyncCallback).
GainSettles == <>[](agc # Off => GainRight)
==============================================================================
