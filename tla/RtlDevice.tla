------------------------------ MODULE RtlDevice ------------------------------
(***************************************************************************)
(* The dongle as its user sees it (librtlsdr.c): found on the bus, opened, *)
(* tuned, corrected, its gain set, its tuner bypassed.  Every call holds   *)
(* dev_mutex from its first test to its last, so it is one action; what    *)
(* two threads do at once while samples are read is in UsbAsync.           *)
(*                                                                         *)
(* Frequencies and rates are in units of 100 Hz, corrections in parts per  *)
(* million, gains in tenths of a dB.  A call works on the record           *)
(*   s = [dev, chip, demod]:                                               *)
(* what the library knows (struct rtlsdr_dev), the registers of the tuner  *)
(* and those of the demodulator.  Every tuner is asked by its interface,   *)
(* the operators tuner_...  The dongle stays where it is; the AGC, the     *)
(* test mode and the EEPROM are left out.                                  *)
(***************************************************************************)
EXTENDS E4000, FC2580, Fitipower, R82xx

CONSTANTS
  Buses,         \* what may be attached: sequences of [known, serial, tuner]
  Frequencies, Rates, Corrections,
  Crystals,      \* pairs: of the demodulator, of the tuner
  MaxCalls,      \* bound: calls while the dongle is open
  OffsetSampling \* direct sampling may be switched while offset tuning is on

ASSUME RtlAssumption ==
  /\ MaxCalls \in Nat
  /\ \A ppm \in Corrections : -488 <= ppm /\ ppm <= 488
  /\ OffsetSampling \in BOOLEAN

VARIABLES bus, dongle,
  calls          \* since the dongle was opened

rtlvars == <<bus, dongle, calls>>

DEF_RTL_XTAL_FREQ == 288000
MIN_RTL_XTAL_FREQ == DEF_RTL_XTAL_FREQ - 10
MAX_RTL_XTAL_FREQ == DEF_RTL_XTAL_FREQ + 10
R828D_XTAL_FREQ == 160000
Closed == [dev |-> [which |-> 0, tuner_type |-> "none", freq |-> 0, corr |-> 0, offs_freq |-> 0,
                    gain |-> 0, direct_sampling |-> 0], chip |-> << >>, demod |-> << >>]
IsOpen == dongle.dev.which # 0
Rafael(d) == d.tuner_type \in {"R820T", "R828D"}

\* a * 2^bits / b, bit by bit, as a product may have 31 bits at most.
Shifted(a, bits, b) ==
  FoldLeft(LAMBDA acc, i : [q |-> 2 * acc.q + (2 * acc.r) \div b, r |-> (2 * acc.r) % b],
           [q |-> a \div b, r |-> a % b], [i \in 1..bits |-> i]).q

\* rtlsdr_get_xtal_freq
Corrected(freq, ppm) == freq + (freq * ppm) \div 1000000
rtl_clock(d) == Corrected(d.rtl_xtal, d.corr)
tuner_clock(d) == Corrected(d.tun_xtal, d.corr)

-----------------------------------------------------------------------------
(* The interface of the tuners                                             *)

tuner_init(s) ==
  LET d == s.dev
  IN [s EXCEPT !.dev.fosc = tuner_clock(d), !.dev.on = TRUE,
       !.chip = CASE d.tuner_type = "E4000" -> e4k_start
                  [] d.tuner_type = "FC0012" -> fc0012_start
                  [] d.tuner_type = "FC0013" -> fc0013_start
                  [] d.tuner_type = "FC2580" -> fc2580_start
                  [] Rafael(d) -> r82xx_start
                  [] OTHER -> s.chip]

\* E4000 and R82xx have a copy of the clock, fosc; the others ask for it.
tuner_set_freq(s, freq) ==
  LET d == s.dev
      clock == tuner_clock(d)
  IN CASE d.tuner_type = "E4000" -> e4k_tune_freq(s.chip, clock, d.fosc, freq)
       [] d.tuner_type = "FC0012" -> fc0012_set_params(s.chip, clock, freq)
       [] d.tuner_type = "FC0013" -> fc0013_set_params(s.chip, clock, freq)
       [] d.tuner_type = "FC2580" -> fc2580_SetRfFreqHz(s.chip, freq)
       [] Rafael(d) -> r82xx_set_freq(s.chip, clock, d.fosc, freq, d.tuner_type = "R828D")
       [] OTHER -> [r |-> -1, chip |-> s.chip]

tuner_set_gain(s, gain) ==
  CASE s.dev.tuner_type = "E4000" -> e4000_set_gain(s.chip, gain)
    [] s.dev.tuner_type = "FC0012" -> fc0012_set_gain(s.chip, gain)
    [] s.dev.tuner_type = "FC0013" -> fc0013_set_lna_gain(s.chip, gain)
    [] Rafael(s.dev) -> r82xx_set_gain(s.chip, TRUE, gain)
    [] OTHER -> [r |-> 0, chip |-> s.chip]

tuner_set_gain_mode(s, manual) ==
  CASE s.dev.tuner_type = "E4000" -> e4k_enable_manual_gain(s.chip, manual)
    [] s.dev.tuner_type = "FC0013" -> fc0013_set_gain_mode(s.chip, manual)
    [] Rafael(s.dev) -> r82xx_set_gain(s.chip, manual, 0)
    [] OTHER -> [r |-> 0, chip |-> s.chip]

tuner_set_bw(s, bw) ==
  CASE s.dev.tuner_type = "E4000" -> [s EXCEPT !.chip = e4000_set_bw(@, bw \div 10)]
    [] s.dev.tuner_type = "FC2580" -> [s EXCEPT !.chip = fc2580_SetBandwidthMode(@, 1)]
    [] OTHER -> s

rtlsdr_get_tuner_gains(type) ==
  CASE type = "E4000" -> {-10, 15, 40, 65, 90, 115, 140, 165, 190, 215, 240, 290, 340, 420}
    [] type = "FC0012" -> {-99, -40, 71, 179, 192}
    [] type = "FC0013" -> {-99, -73, -65, -63, -60, -58, -54, 58, 61, 63, 65, 67, 68, 70, 71, 179,
                           181, 182, 184, 186, 188, 191, 197}
    [] type \in {"R820T", "R828D"} ->
         {0, 9, 14, 27, 37, 77, 87, 125, 144, 157, 166, 197, 207, 229, 254, 280, 297, 328, 338,
          364, 372, 386, 402, 421, 434, 439, 445, 480, 496}
    [] OTHER -> {0}

\* What the steps of the R82xx add up to: every gain in the list is met exactly.
\* A closed fact, for TLC to evaluate: no prover computes the sums.
ASSUME StepsAssumption ==
  \A gain \in rtlsdr_get_tuner_gains("R820T") :
    steps_gain((gain_steps(gain) + 1) \div 2, gain_steps(gain) \div 2) = gain

-----------------------------------------------------------------------------
(* What calls do, with the returned value r where it matters               *)

set_if_freq(s, freq) ==
  [s EXCEPT !.demod.if_freq = (-Shifted(freq, 22, rtl_clock(s.dev))) % 2 ^ 22]

\* -ppm * 2^24 / 10^6, towards zero, in 14 bits.
sample_freq_correction(ppm) ==
  LET size == ((IF ppm < 0 THEN -ppm ELSE ppm) * 262144) \div 15625
  IN (IF ppm > 0 THEN -size ELSE size) % 16384

after_tuning(s, freq, tuned) ==
  [r |-> tuned.r, s |-> [s EXCEPT !.chip = tuned.chip, !.dev.freq = IF tuned.r = 0 THEN freq ELSE 0]]
set_center_freq(s, freq) ==
  IF s.dev.direct_sampling # 0
  THEN [r |-> 0, s |-> [set_if_freq(s, freq) EXCEPT !.dev.freq = freq]]
  ELSE after_tuning(s, freq, tuner_set_freq(s, freq - s.dev.offs_freq))

set_offset_tuning(s, on) ==
  LET offs == IF on THEN ((s.dev.rate \div 2) * 170) \div 100 ELSE 0
      shifted == tuner_set_bw(set_if_freq([s EXCEPT !.dev.offs_freq = offs], offs),
                              IF on THEN 2 * offs ELSE s.dev.rate)
  IN IF s.dev.freq > offs THEN set_center_freq(shifted, s.dev.freq).s ELSE shifted

\* The ratio of the resampler has 28 bits; bit 27 also stands for bit 28.
real_rsamp_ratio(ratio) == ratio + (IF ratio >= 2 ^ 27 THEN 2 ^ 28 ELSE 0)

\* 225001..300000 and 900001..3200000 Hz.
Supported(rate) == rate \in 2251..3000 \cup 9001..32000

resampled(s, samp_rate) ==
  LET ratio == LET exact == Shifted(s.dev.rtl_xtal, 22, samp_rate) % 2 ^ 28
               IN exact - (exact % 4)
      real_rate == Shifted(s.dev.rtl_xtal, 22, real_rsamp_ratio(ratio))
      set == [tuner_set_bw(s, real_rate) EXCEPT
                !.dev.rate = real_rate, !.demod.ratio = ratio,
                !.demod.correction = sample_freq_correction(s.dev.corr)]
  IN IF s.dev.offs_freq # 0 /\ s.dev.direct_sampling = 0 THEN set_offset_tuning(set, TRUE) ELSE set
set_sample_rate(s, samp_rate) == IF Supported(samp_rate) THEN resampled(s, samp_rate) ELSE s

retune(s) == IF s.dev.freq # 0 THEN set_center_freq(s, s.dev.freq).s ELSE s

\* Faulty variant: the tuner goes on with the clock it had.
StaleClock(s, ppm) ==
  retune([s EXCEPT !.dev.corr = ppm, !.demod.correction = sample_freq_correction(ppm)])

set_freq_correction(s, ppm) ==
  retune([s EXCEPT !.dev.corr = ppm, !.demod.correction = sample_freq_correction(ppm),
                   !.dev.fosc = Corrected(s.dev.tun_xtal, ppm)])

\* A crystal of 0 Hz: that of the demodulator stays, that of the tuner is the same.
set_rtl_xtal(s, rtl_freq) ==
  LET changed == [s EXCEPT !.dev.rtl_xtal = rtl_freq]
  IN IF rtl_freq = 0 \/ s.dev.rtl_xtal = rtl_freq THEN s
     ELSE IF s.dev.rate # 0 THEN set_sample_rate(changed, s.dev.rate) ELSE changed
set_tuner_xtal(s, tuner_freq) ==
  LET tun == IF tuner_freq = 0 THEN s.dev.rtl_xtal ELSE tuner_freq
  IN IF s.dev.tun_xtal # tuner_freq
     THEN retune([s EXCEPT !.dev.tun_xtal = tun, !.dev.fosc = Corrected(tun, s.dev.corr)])
     ELSE s
set_xtal_freq(s, rtl_freq, tuner_freq) ==
  IF rtl_freq \in {0} \cup MIN_RTL_XTAL_FREQ..MAX_RTL_XTAL_FREQ
  THEN set_tuner_xtal(set_rtl_xtal(s, rtl_freq), tuner_freq) ELSE s

\* One ADC and no tuner; input 2 by swapping the ADCs.  And back again.
direct_on(s, on) ==
  [s EXCEPT !.dev.on = IF s.dev.tuner_type = "E4000" \/ Rafael(s.dev) THEN FALSE ELSE @,
            !.dev.direct_sampling = on,
            !.demod.zero_if = FALSE, !.demod.inverted = FALSE, !.demod.quadrature = FALSE,
            !.demod.swapped = on > 1]
direct_off(s) ==
  LET started == [tuner_init(s) EXCEPT !.dev.direct_sampling = 0, !.demod.swapped = FALSE]
  IN IF Rafael(s.dev) THEN [set_if_freq(started, R82XX_IF_FREQ) EXCEPT !.demod.inverted = TRUE]
     ELSE [set_if_freq(started, 0) EXCEPT !.demod.quadrature = TRUE, !.demod.zero_if = TRUE]
set_direct_sampling(s, on) ==
  set_center_freq(IF on # 0 THEN direct_on(s, on) ELSE direct_off(s), s.dev.freq)

-----------------------------------------------------------------------------
(* The bus                                                                 *)

Known == {n \in DOMAIN bus : bus[n].known}
rtlsdr_get_device_count == Cardinality(Known)

\* The device with the index, counted among the known ones, or 0.
find_device(index) ==
  IF index < Cardinality(Known)
  THEN CHOOSE n \in Known : Cardinality({k \in Known : k < n}) = index ELSE 0

rtlsdr_get_index_by_serial(serial) ==
  LET same == {i \in 0..(rtlsdr_get_device_count - 1) : bus[find_device(i)].serial = serial}
  IN IF same = {} THEN IF Known = {} THEN -2 ELSE -3 ELSE Min(same)

\* rtlsdr_init_baseband, then what the tuner found needs.
Opened(n) ==
  LET type == bus[n].tuner
      base == [dev |-> [which |-> n, tuner_type |-> type, rtl_xtal |-> DEF_RTL_XTAL_FREQ,
                        tun_xtal |-> IF type = "R828D" THEN R828D_XTAL_FREQ
                                     ELSE DEF_RTL_XTAL_FREQ,
                        corr |-> 0, rate |-> 0, freq |-> 0, offs_freq |-> 0, gain |-> 0,
                        direct_sampling |-> 0, fosc |-> 0, on |-> FALSE],
               chip |-> << >>,
               demod |-> [if_freq |-> 0, ratio |-> 0, correction |-> 0, zero_if |-> TRUE,
                          inverted |-> FALSE, quadrature |-> TRUE, swapped |-> FALSE]]
      rafael == [set_if_freq(base, R82XX_IF_FREQ) EXCEPT
                   !.demod.zero_if = FALSE, !.demod.quadrature = FALSE, !.demod.inverted = TRUE]
  IN CASE type = "none" -> set_direct_sampling(base, 1).s
       [] Rafael(base.dev) -> tuner_init(rafael)
       [] OTHER -> tuner_init(base)

-----------------------------------------------------------------------------
RtlInit == /\ bus \in Buses
           /\ dongle = Closed
           /\ calls = 0

Call(s) == IsOpen /\ calls < MaxCalls /\ calls' = calls + 1 /\ dongle' = s /\ UNCHANGED bus

\* rtlsdr_get_index_by_serial and rtlsdr_open.
OpenSerial(serial) ==
  LET i == rtlsdr_get_index_by_serial(serial)
  IN /\ ~IsOpen
     /\ i >= 0
     /\ dongle' = Opened(find_device(i))
     /\ calls' = 0
     /\ UNCHANGED bus

CloseDongle == IsOpen /\ dongle' = Closed /\ calls' = 0 /\ UNCHANGED bus

SetCenterFreq == \E freq \in Frequencies : Call(set_center_freq(dongle, freq).s)

SetFreqCorrection ==
  \E ppm \in Corrections : ppm # dongle.dev.corr /\ Call(set_freq_correction(dongle, ppm))

SetXtalFreq == \E x \in Crystals : Call(set_xtal_freq(dongle, x[1], x[2]))

SetSampleRate == \E rate \in Rates : Call(set_sample_rate(dongle, rate))

SetTunerGain ==
  \E gain \in rtlsdr_get_tuner_gains(dongle.dev.tuner_type) :
    LET set == tuner_set_gain(dongle, gain)
    IN Call([dongle EXCEPT !.chip = set.chip, !.dev.gain = IF set.r = 0 THEN gain ELSE 0])

SetTunerGainMode ==
  \E manual \in BOOLEAN : Call([dongle EXCEPT !.chip = tuner_set_gain_mode(dongle, manual).chip])

\* Only the E4000 has stages.
SetTunerIfGain ==
  /\ dongle.dev.tuner_type = "E4000"
  /\ \E gain \in {-3, 2} :
       Call([dongle EXCEPT !.chip = e4k_if_gain_set(dongle.chip, 1, gain).chip])

\* The code does not look at offs_freq: that it is 0 is a limit of the instance.
SetDirectSampling ==
  /\ dongle.dev.offs_freq = 0 \/ (OffsetSampling /\ dongle.dev.freq # 0)
  /\ \E on \in 0..2 : Call(set_direct_sampling(dongle, on).s)

SetOffsetTuning ==
  /\ ~Rafael(dongle.dev)
  /\ dongle.dev.direct_sampling = 0
  /\ \E on \in BOOLEAN : Call(set_offset_tuning(dongle, on))

Serials == {bus[n].serial : n \in DOMAIN bus}

RtlNext == \/ \E serial \in Serials : OpenSerial(serial)
           \/ CloseDongle
           \/ SetCenterFreq \/ SetFreqCorrection \/ SetXtalFreq \/ SetSampleRate
           \/ SetTunerGain \/ SetTunerGainMode \/ SetTunerIfGain
           \/ SetDirectSampling \/ SetOffsetTuning

RtlSpec == RtlInit /\ [][RtlNext]_rtlvars

-----------------------------------------------------------------------------
(* Properties *)

chip_frequency ==
  LET clock == tuner_clock(dongle.dev)
  IN CASE dongle.dev.tuner_type = "E4000" -> chip4k_frequency(dongle.chip, clock)
       [] dongle.dev.tuner_type = "FC0012" -> chip12_frequency(dongle.chip, clock)
       [] dongle.dev.tuner_type = "FC0013" -> chip13_frequency(dongle.chip, clock)
       [] dongle.dev.tuner_type = "FC2580" -> chip2580_frequency(dongle.chip)
       [] Rafael(dongle.dev) -> chipr_frequency(dongle.chip, clock)

chip_gain == CASE dongle.dev.tuner_type = "E4000" -> chip4k_gain(dongle.chip)
               [] dongle.dev.tuner_type = "FC0012" -> chip12_gain(dongle.chip)
               [] dongle.dev.tuner_type = "FC0013" -> chip13_gain(dongle.chip)
               [] Rafael(dongle.dev) -> chipr_gain(dongle.chip)
               [] OTHER -> 0

\* By how much the demodulator moves the spectrum.
Shift == LET reg == (-dongle.demod.if_freq) % 2 ^ 22
             clock == rtl_clock(dongle.dev)
         IN (clock * (reg \div 2048) + (clock * (reg % 2048)) \div 2048) \div 2048

\* What is received: the tuner is on, and its frequency and the shift add up.
Received == IF dongle.demod.inverted THEN chip_frequency - Shift ELSE chip_frequency + Shift

Tolerance == 60

\* The frequency the library reports is the one that is received, through the
\* tuner (within 6 kHz: the dividers are computed in whole kHz), whatever was
\* set, corrected and switched before, in whatever order, but for OffsetSampling:
\* direct sampling that ends while offset tuning is on drops the shift.
ReceivesReported ==
  IsOpen /\ dongle.dev.freq # 0 /\ dongle.dev.direct_sampling = 0 =>
    /\ dongle.dev.on
    /\ dongle.demod.zero_if = dongle.demod.quadrature
    /\ Received - dongle.dev.freq \in -Tolerance..Tolerance

\* The samples come at the reported rate of the corrected clock: the ratio and
\* the correction are those of the crystal and the ppm last set.  A rate that
\* is not supported, which a faster crystal makes of the lowest one (the ratio
\* has 28 bits), is not set again for another crystal.
RateCorrected ==
  IsOpen /\ dongle.dev.rate # 0 =>
    /\ Supported(dongle.dev.rate) =>
         Shifted(dongle.dev.rtl_xtal, 22, real_rsamp_ratio(dongle.demod.ratio)) = dongle.dev.rate
    /\ dongle.demod.correction = sample_freq_correction(dongle.dev.corr)

\* The gain that is reported when it is set is the one the tuner then has,
\* for each gain the library lists; no tuning, correction or change of the
\* rate changes it.
GainReached ==
  [][IsOpen /\ IsOpen' =>
       /\ dongle'.dev.gain # dongle.dev.gain => dongle'.dev.gain = chip_gain'
       /\ chip_gain' # chip_gain =>
            dongle'.dev.gain = chip_gain' \/ SetTunerGainMode \/ SetDirectSampling]_rtlvars

\* An R828D listens to the input for the frequency ("we switch at 345 MHz",
\* tuner_r82xx.c:1091), also when direct sampling has ended.
InputForFrequency ==
  IsOpen /\ dongle.dev.tuner_type = "R828D" /\ dongle.dev.direct_sampling = 0
  /\ dongle.dev.freq # 0 =>
    dongle.chip.input = IF dongle.dev.freq > 3450000 THEN "air" ELSE "cable"

\* The driver and the chips agree: frequency, rate and input are those that
\* the library reports or has chosen.
ReportedIsSet == ReceivesReported /\ RateCorrected /\ InputForFrequency
==============================================================================
