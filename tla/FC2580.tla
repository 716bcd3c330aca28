-------------------------------- MODULE FC2580 -------------------------------
(***************************************************************************)
(* The tuner FC2580 (tuner_fc2580.c).  It has a crystal of its own, of     *)
(* 16.384 MHz, which no setting corrects.  Frequencies are in units of     *)
(* 100 Hz, inside the driver in kHz.  Left out: the matching of the input, *)
(* a list of constants per band.                                           *)
(***************************************************************************)
EXTENDS Integers

freq_xtal == 16384
BORDER_FREQ == 2600000

fc2580_band(f_lo) == IF f_lo > 1000000 THEN "L" ELSE IF f_lo > 400000 THEN "UHF" ELSE "VHF"
fc2580_mult == [band \in {"L", "UHF", "VHF"} |->
                  CASE band = "L" -> 2 [] band = "UHF" -> 4 [] OTHER -> 12]

\* The cutoff of the channel filter: the mode and the word for its calibration.
fc2580_set_filter(filter_bw) ==
  [bw |-> filter_bw,
   word |-> ((CASE filter_bw = 1 -> 4151 [] filter_bw = 6 -> 4400 [] filter_bw = 7 -> 3910
                [] OTHER -> 3300) * freq_xtal) \div 1000000]

\* f_vco = 2 f_comp (n + k / 2^20); k is rounded.
fc2580_set_freq(chip, f_lo) ==
  LET band == fc2580_band(f_lo)
      f_vco == f_lo * fc2580_mult[band]
      r_val == IF f_vco >= 2 * 76 * freq_xtal THEN 1 ELSE IF f_vco >= 76 * freq_xtal THEN 2 ELSE 4
      f_comp == freq_xtal \div r_val
      n_val == (f_vco \div 2) \div f_comp
      shifted == (f_vco - 2 * f_comp * n_val) * 65536
      unit == (2 * f_comp) \div 16
      k_val == shifted \div unit + (IF shifted % unit >= f_comp \div 16 THEN 1 ELSE 0)
  IN [r |-> 0,
      chip |-> [chip EXCEPT !.band = band, !.upper = f_vco >= BORDER_FREQ, !.r = r_val,
                            !.n = n_val % 256, !.k = k_val,
                            !.filter = fc2580_set_filter(CASE band = "UHF" -> 8
                                                           [] band = "VHF" -> 7 [] OTHER -> 1)]]

fc2580_SetRfFreqHz(chip, freq) == fc2580_set_freq(chip, (freq + 5) \div 10)

fc2580_SetBandwidthMode(chip, mode) == [chip EXCEPT !.filter = fc2580_set_filter(mode)]

fc2580_start == [band |-> "VHF", upper |-> FALSE, r |-> 4, n |-> 0, k |-> 0,
                 filter |-> fc2580_set_filter(8)]

\* In units of 100 Hz; k in two steps, as a product may have 31 bits at most.
chip2580_frequency(chip) ==
  LET twice == 2 * (freq_xtal \div chip.r)
      fraction == (twice * (chip.k \div 1024) + (twice * (chip.k % 1024)) \div 1024) \div 1024
  IN (10 * (twice * chip.n + fraction)) \div fc2580_mult[chip.band]
==============================================================================
