-------------------------------- MODULE E4000 --------------------------------
(***************************************************************************)
(* The tuner E4000 (tuner_e4k.c, and its functions in librtlsdr.c).        *)
(*                                                                         *)
(* Frequencies are in units of 100 Hz, gains in tenths of a dB.  A chip is *)
(* the record of its registers; what they do (chip4k_...) is external.     *)
(* Left out: DC offset, the clock output, gain enhancement.                *)
(***************************************************************************)
EXTENDS Integers, Sequences, SequencesExt, FiniteSetsExt

MHz(n) == n * 10000
KHz(n) == n * 10

\* Below which frequency the mixers divide by what, in three phases or two.
pll_row(below, three, reg, mult) == [below |-> KHz(below), synth7 |-> 8 * three + reg, r |-> mult]
pll_vars ==
  << pll_row(72400, 1, 7, 48), pll_row(81200, 1, 6, 40), pll_row(108300, 1, 5, 32),
     pll_row(162500, 1, 4, 24), pll_row(216600, 1, 3, 16), pll_row(325000, 1, 2, 12),
     pll_row(350000, 1, 1, 8), pll_row(432000, 0, 3, 8), pll_row(667000, 0, 2, 6),
     pll_row(1200000, 0, 1, 4) >>

rf_filt_center_uhf ==
  <<360, 380, 405, 425, 450, 475, 505, 540, 575, 615, 670, 720, 760, 840, 890, 970>>
rf_filt_center_l ==
  <<1300, 1320, 1360, 1410, 1445, 1460, 1490, 1530, 1560, 1590, 1640, 1660, 1680, 1700, 1720,
    1750>>

\* In kHz.
mix_filter_bw == << 27000, 27000, 27000, 27000, 27000, 27000, 27000, 27000,
                    4600, 4200, 3800, 3400, 3300, 2700, 2300, 1900 >>
ifrc_filter_bw == << 21400, 21000, 17600, 14700, 12400, 10600, 9000, 7700,
                     6400, 5300, 4400, 3400, 2600, 1800, 1200, 1000 >>
ifch_filter_bw == << 5500, 5300, 5000, 4800, 4600, 4400, 4300, 4100, 3900, 3800, 3700, 3600,
                     3400, 3300, 3200, 3100, 3000, 2950, 2900, 2800, 2750, 2700, 2600, 2550,
                     2500, 2450, 2400, 2300, 2280, 2240, 2200, 2150 >>

\* The first index of the closest entry.
closest_arr_idx(arr, value) ==
  LET delta(n) == IF arr[n] > value THEN arr[n] - value ELSE value - arr[n]
  IN Min({n \in DOMAIN arr : \A k \in DOMAIN arr : delta(n) <= delta(k)}) - 1

-----------------------------------------------------------------------------
(* Frequency: f_vco = fosc * (z + x / 2^16), f_lo = f_vco / r               *)

divider_for(freq) ==
  LET n == SelectInSeq(pll_vars, LAMBDA row : freq < row.below)
  IN IF n = 0 THEN [synth7 |-> 0, r |-> 2] ELSE pll_vars[n]

\* x in two steps of eight bits, as a product may have 31 bits at most.
pll_params(fosc, divider, f_vco) ==
  LET remainder == (f_vco % fosc) * 256
  IN [synth7 |-> divider.synth7, r |-> divider.r, z |-> f_vco \div fosc,
      x |-> 256 * (remainder \div fosc) + ((remainder % fosc) * 256) \div fosc]

e4k_compute_pll_params(fosc, freq) ==
  LET divider == divider_for(freq) IN pll_params(fosc, divider, freq * divider.r)

compute_fvco(fosc, z, x) ==
  fosc * z + (fosc * (x \div 256)) \div 256 + (fosc * (x % 256)) \div 65536

\* Of no VCO frequency at all it makes -EINVAL, in 32 bits.
compute_flo(fosc, p) ==
  LET fvco == compute_fvco(fosc, p.z, p.x) IN IF fvco = 0 THEN 42949672 ELSE fvco \div p.r

is_fosc_valid(fosc) == fosc \in MHz(16)..MHz(30)

e4k_band(flo) == CASE flo < MHz(140) -> "VHF2" [] flo < MHz(350) -> "VHF3"
                   [] flo < MHz(1135) -> "UHF" [] OTHER -> "L"

choose_rf_filter(band, flo) ==
  CASE band \in {"VHF2", "VHF3"} -> 0
    [] band = "UHF" -> closest_arr_idx([n \in 1..16 |-> MHz(rf_filt_center_uhf[n])], flo)
    [] OTHER -> closest_arr_idx([n \in 1..16 |-> MHz(rf_filt_center_l[n])], flo)

chip4k_mult(synth7) ==
  LET n == SelectInSeq(pll_vars, LAMBDA row : row.synth7 = synth7)
  IN IF n = 0 THEN 2 ELSE pll_vars[n].r
chip4k_vco(chip, clock) == compute_fvco(clock, chip.z, chip.x)
chip4k_locked(chip, clock) == chip4k_vco(chip, clock) \in MHz(2600)..MHz(3900)
chip4k_frequency(chip, clock) == chip4k_vco(chip, clock) \div chip4k_mult(chip.synth7)

\* e4k_tune_freq, with e4k_tune_params and e4k_band_set: without parameters
\* nothing is written; otherwise the registers are, and then the lock is looked at.
e4k_tune_params(chip, p, flo) ==
  [chip EXCEPT !.synth7 = p.synth7, !.z = p.z, !.x = p.x, !.band = e4k_band(flo),
               !.rf_filter = choose_rf_filter(e4k_band(flo), flo)]
e4k_tune(chip, clock, p, flo) ==
  LET tuned == e4k_tune_params(chip, p, flo)
  IN IF flo = 0 THEN [r |-> -22, chip |-> chip]
     ELSE [r |-> IF chip4k_locked(tuned, clock) THEN 0 ELSE -1, chip |-> tuned]
e4k_tune_freq(chip, clock, fosc, freq) ==
  LET p == e4k_compute_pll_params(fosc, freq)
  IN e4k_tune(chip, clock, p, IF is_fosc_valid(fosc) THEN compute_flo(fosc, p) ELSE 0)

-----------------------------------------------------------------------------
(* Gain and filters *)

\* LNA gain and the value of its register; an exact match is needed.
lnagain == { <<-50, 0>>, <<-25, 1>>, <<0, 4>>, <<25, 5>>, <<50, 6>>, <<75, 7>>, <<100, 8>>,
             <<125, 9>>, <<150, 10>>, <<175, 11>>, <<200, 12>>, <<250, 13>>, <<300, 14>> }

\* Faulty variant: the mixer is at 12 dB one step too early.
MixerTooEarly(chip, gain) ==
  LET lna == Min({300, gain - (IF gain >= 340 THEN 120 ELSE 40)})
  IN IF \E row \in lnagain : row[1] = lna
     THEN [r |-> 0, chip |-> [chip EXCEPT !.mixer = gain >= 340,
                                          !.lna = (CHOOSE row \in lnagain : row[1] = lna)[2]]]
     ELSE [r |-> -1, chip |-> chip]

e4000_set_gain(chip, gain) ==
  LET lna == Min({300, gain - (IF gain > 340 THEN 120 ELSE 40)})
  IN IF \E row \in lnagain : row[1] = lna
     THEN [r |-> 0, chip |-> [chip EXCEPT !.mixer = gain > 340,
                                          !.lna = (CHOOSE row \in lnagain : row[1] = lna)[2]]]
     ELSE [r |-> -1, chip |-> chip]

e4k_enable_manual_gain(chip, manual) == [r |-> 0, chip |-> [chip EXCEPT !.manual = manual]]

chip4k_gain(chip) == (CHOOSE row \in lnagain : row[2] = chip.lna)[1]
                       + (IF chip.mixer THEN 120 ELSE 40)

\* Six stages; for 2 dB stage four has two settings, of which the first is taken.
if_stage_gain == << <<-3, 6>>, <<0, 3, 6, 9>>, <<0, 3, 6, 9>>, <<0, 1, 2, 2>>,
                    <<3, 6, 9, 12, 15, 15, 15, 15>>, <<3, 6, 9, 12, 15, 15, 15, 15>> >>
e4k_if_gain_set(chip, stage, gain) ==
  IF Contains(if_stage_gain[stage], gain)
  THEN [r |-> 0, chip |-> [chip EXCEPT !.stages[stage] =
                             SelectInSeq(if_stage_gain[stage], LAMBDA g : g = gain) - 1]]
  ELSE [r |-> -22, chip |-> chip]

\* The bandwidth in kHz.
e4000_set_bw(chip, bw) ==
  [chip EXCEPT !.filters = [mix |-> closest_arr_idx(mix_filter_bw, bw),
                            rc |-> closest_arr_idx(ifrc_filter_bw, bw),
                            channel |-> closest_arr_idx(ifch_filter_bw, bw)]]

\* e4k_init, after a reset of the chip: narrow filters, automatic gain.
e4k_start == [synth7 |-> 0, z |-> 0, x |-> 0, band |-> "VHF2", rf_filter |-> 0, lna |-> 0,
              mixer |-> FALSE, manual |-> FALSE, stages |-> <<1, 0, 0, 0, 2, 2>>,
              filters |-> [mix |-> 15, rc |-> 15, channel |-> 31]]
==============================================================================
