-------------------------------- MODULE R82xx --------------------------------
(***************************************************************************)
(* The tuners R820T and R828D (tuner_r82xx.c).  Frequencies are in units   *)
(* of 100 Hz, in parts of the driver in kHz; gains in tenths of a dB.  A   *)
(* chip is the record of its registers and of what the driver remembers    *)
(* (priv); what the registers do is external.  Left out: VCO currents, the *)
(* calibration of the filter, and the constants that select a standard.    *)
(***************************************************************************)
EXTENDS Integers, Sequences, SequencesExt

R82XX_IF_FREQ == 35700

\* First MHz of each range of the input filters, the filter and its capacitor.
freq_ranges ==
  << <<0, \hdf>>, <<50, \hbe>>, <<55, \h8b>>, <<60, \h7b>>, <<65, \h69>>, <<70, \h58>>,
     <<75, \h44>>, <<80, \h44>>, <<90, \h34>>, <<100, \h34>>, <<110, \h24>>, <<120, \h24>>,
     <<140, \h14>>, <<180, \h13>>, <<220, \h13>>, <<250, \h11>>, <<280, \h00>>, <<310, \h00>>,
     <<450, \h00>>, <<588, \h00>>, <<650, \h00>> >>

r82xx_set_mux(lo) == freq_ranges[SelectLastInSeq(freq_ranges, LAMBDA r : r[1] <= lo \div 10000)][2]

\* The divider after the VCO: 2, 4 .. 64, or 128 when none of them fits.
vco_min == 1770000
Divides(khz, e) == khz * 2 ^ e \in vco_min..(2 * vco_min - 1)
div_num(khz) == IF \E e \in 1..6 : Divides(khz, e)
                THEN (CHOOSE e \in 1..6 : Divides(khz, e)) - 1 ELSE 0
mix_div(khz) == IF \E e \in 1..6 : Divides(khz, e) THEN 2 * 2 ^ div_num(khz) ELSE 128

\* The fraction for the sigma-delta modulator, bit by bit from the largest.
sdm_of(vco_fra, ref_khz) ==
  FoldLeft(LAMBDA acc, e :
             IF acc.fra > 1 /\ acc.fra > (2 * ref_khz) \div 2 ^ e
             THEN [fra |-> acc.fra - (2 * ref_khz) \div 2 ^ e, sdm |-> acc.sdm + 2 ^ (16 - e)]
             ELSE acc,
           [fra |-> vco_fra, sdm |-> 0], [e \in 1..15 |-> e]).sdm

chipr_vco(chip, clock) ==
  2 * clock * chip.nint + (2 * clock * (chip.sdm \div 256)) \div 256
    + (2 * clock * (chip.sdm % 256)) \div 65536
chipr_locked(chip, clock) == chipr_vco(chip, clock) \in (10 * vco_min - 1000)..(20 * vco_min)
chipr_frequency(chip, clock) == chipr_vco(chip, clock) \div (2 * 2 ^ chip.div_num)

\* Too large a multiple of the clock is refused; no lock is not an error.
\* vco_fine_tune is what the chip returns when the VCO needs no adjustment.
r82xx_set_pll(chip, clock, xtal, lo, power_ref) ==
  LET khz == (lo + 5) \div 10
      vco == lo * mix_div(khz)
      nint == (vco \div (2 * xtal)) % 256
      divided == [chip EXCEPT !.div_num = div_num(khz)]
      set == [divided EXCEPT !.nint = nint,
                             !.sdm = sdm_of((vco - 2 * xtal * nint) \div 10, (xtal + 5) \div 10)]
  IN IF nint > 128 \div power_ref - 1 THEN [r |-> -1, lock |-> FALSE, chip |-> divided]
     ELSE [r |-> 0, lock |-> chipr_locked(set, clock), chip |-> set]

\* The R828D has two inputs; the register is written when the input changes.
switch_input(chip, input, is828) ==
  IF is828 /\ input # chip.priv_input
  THEN [chip EXCEPT !.input = input, !.priv_input = input] ELSE chip

r82xx_set_freq(chip, clock, xtal, freq, is828) ==
  LET lo == freq + R82XX_IF_FREQ
      pll == r82xx_set_pll([chip EXCEPT !.mux = r82xx_set_mux(lo)], clock, xtal, lo,
                           IF is828 THEN 1 ELSE 2)
  IN [r |-> pll.r,
      chip |-> IF pll.lock
               THEN switch_input(pll.chip, IF freq > 3450000 THEN "air" ELSE "cable", is828)
               ELSE pll.chip]

-----------------------------------------------------------------------------
lna_gain_steps == <<9, 13, 40, 38, 13, 31, 22, 26, 31, 26, 14, 19, 5, 35, 13>>
mixer_gain_steps == <<5, 10, 10, 19, 9, 10, 25, 17, 10, 8, 16, 13, 6, 3, -8>>

steps_gain(lna, mixer) ==
  FoldLeft(+, 0, SubSeq(lna_gain_steps, 1, lna)) + FoldLeft(+, 0, SubSeq(mixer_gain_steps, 1, mixer))
gain_after == [n \in 1..30 |-> steps_gain((n + 1) \div 2, n \div 2)] \o << >>

\* LNA and mixer are raised in turn until the gain is reached.
gain_steps(gain) ==
  LET first == SelectInSeq(gain_after, LAMBDA total : total >= gain)
  IN IF gain <= 0 THEN 0 ELSE IF first = 0 THEN 30 ELSE first
r82xx_set_gain(chip, manual, gain) ==
  [r |-> 0,
   chip |-> IF manual
            THEN [chip EXCEPT !.manual = TRUE, !.lna = (gain_steps(gain) + 1) \div 2,
                              !.mixer = gain_steps(gain) \div 2]
            ELSE [chip EXCEPT !.manual = FALSE]]

chipr_gain(chip) == steps_gain(chip.lna, chip.mixer)

\* r82xx_init writes all registers; r82xx_sysfreq_sel, its last step, selects
\* the input for the air again, and remembers it.
r82xx_start ==
  [nint |-> 0, sdm |-> 0, div_num |-> 0, mux |-> 0, lna |-> 3, mixer |-> 5, manual |-> FALSE,
   input |-> "air", priv_input |-> "air"]
==============================================================================
