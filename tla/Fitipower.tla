------------------------------ MODULE Fitipower ------------------------------
(***************************************************************************)
(* The tuners FC0012 and FC0013 (tuner_fc0012.c, tuner_fc0013.c).          *)
(*                                                                         *)
(* Frequencies are in units of 100 Hz, gains in tenths of a dB.  A chip is *)
(* the record of those of its registers that decide what is received; the  *)
(* `chip' operators, which say what the registers do, are external.  VCO   *)
(* calibration and the choice between the two ranges of the VCO are left   *)
(* out.                                                                    *)
(***************************************************************************)
EXTENDS Integers, Sequences, SequencesExt

\* The divider after the VCO: registers 5 and 6 and, at 64 of the FC0013, 0x11.
\* The last row has no bound; here it has one of 100 GHz.
NoBound == 10^9
Row(below, multi, reg5, reg6) == [below |-> below, multi |-> multi, reg5 |-> reg5, reg6 |-> reg6]

fc0012_rows ==
  << Row(370840, 96, \h82, 0), Row(556250, 64, \h82, 2), Row(741670, 48, \h42, 0),
     Row(1112500, 32, \h42, 2), Row(1483340, 24, \h22, 0), Row(2225000, 16, \h22, 2),
     Row(2966670, 12, \h12, 0), Row(4450000, 8, \h12, 2), Row(5933340, 6, \h0a, 0),
     Row(NoBound, 4, \h0a, 2) >>

fc0013_rows ==
  << Row(370840, 96, \h82, 0), Row(556250, 64, \h02, 2), Row(741670, 48, \h42, 0),
     Row(1112500, 32, \h82, 2), Row(1483340, 24, \h22, 0), Row(2225000, 16, \h42, 2),
     Row(2966670, 12, \h12, 0), Row(4450000, 8, \h22, 2), Row(5933340, 6, \h0a, 0),
     Row(9500000, 4, \h12, 2), Row(NoBound, 2, \h0a, 2) >>

\* What the dividers divide by.
chip12_divider(reg5, reg6) == 2 * (reg5 \div 8) * (IF reg6 = 2 THEN 2 ELSE 3)
chip13_divider(reg5, reg6, by64) ==
  IF by64 THEN 64 ELSE 2 * (reg5 \div 8) * (IF reg6 = 2 THEN 1 ELSE 3)

-----------------------------------------------------------------------------
(* The words of the PLL: f_vco = half * (8 m + a + k / 2^15), where half is  *)
(* half of the clock and k is signed.                                        *)

\* A product of 32 bits: 2^32 Hz, to the nearest unit.
vco_frequency(freq, multi) == (freq * multi) % 42949673

pll_words(f_vco, half) ==
  LET rem == f_vco % half
      xdiv == f_vco \div half + (IF rem >= half \div 2 THEN 1 ELSE 0)
      carry == xdiv % 8 < 2
      pm == (xdiv \div 8 - (IF carry THEN 1 ELSE 0)) % 256
      am == (xdiv % 8) + (IF carry THEN 8 ELSE 0)
      xin == ((rem \div 10) * 32768) \div (half \div 10)
  IN [a |-> IF pm > 31 THEN (am + 8 * (pm - 31)) % 256 ELSE am,
      m |-> IF pm > 31 THEN 31 ELSE pm,
      k |-> (IF xin >= 16384 THEN xin + 32768 ELSE xin) % 65536]

pll_valid(words) == words.a <= 15 /\ words.m >= 11

\* In two steps, as a product may have 31 bits at most.
chip_vco(words, half) ==
  LET k == IF words.k >= 32768 THEN words.k - 65536 ELSE words.k
  IN half * (8 * words.m + words.a) + ((half \div 4) * k) \div 8192

-----------------------------------------------------------------------------
(* FC0012.  Tuning writes the registers only when the words are valid; the   *)
(* V/U-band filter, on a pin of the RTL2832U, is set before.                 *)

fc0012_start == [words |-> [a |-> 5, m |-> 16, k |-> 0], row |-> Row(0, 0, \h0f, 0),
                 uhf |-> FALSE, lna |-> 8]

fc0012_set_params(chip, clock, freq) ==
  LET row == SelectInSeq(fc0012_rows, LAMBDA r : freq < r.below)
      words == pll_words(vco_frequency(freq, fc0012_rows[row].multi), clock \div 2)
      filtered == [chip EXCEPT !.uhf = freq > 3000000]
  IN IF pll_valid(words)
     THEN [r |-> 0, chip |-> [filtered EXCEPT !.words = words, !.row = fc0012_rows[row]]]
     ELSE [r |-> -1, chip |-> filtered]

chip12_frequency(chip, clock) ==
  chip_vco(chip.words, clock \div 2) \div chip12_divider(chip.row.reg5, chip.row.reg6)

\* Register 0x13.
fc0012_gain_bits == [g \in {-99, -40, 71, 179} |->
                       CASE g = -99 -> 2 [] g = -40 -> 0 [] g = 71 -> 8 [] g = 179 -> \h17]
fc0012_set_gain(chip, gain) ==
  [r |-> 0, chip |-> [chip EXCEPT !.lna = IF gain \in DOMAIN fc0012_gain_bits
                                          THEN fc0012_gain_bits[gain] ELSE \h10]]
chip12_gain(chip) ==
  CASE chip.lna = 2 -> -99 [] chip.lna = 0 -> -40 [] chip.lna = 8 -> 71
    [] chip.lna = \h17 -> 179 [] OTHER -> 192

-----------------------------------------------------------------------------
(* FC0013.  Register 0x14 holds the band in three bits and the gain in five. *)

fc0013_start == [words |-> [a |-> 9, m |-> 22, k |-> 0], row |-> Row(0, 0, \h17, 2),
                 by64 |-> FALSE, track |-> 0, vhf |-> FALSE, reg14 |-> \h50, manual |-> FALSE]

\* Seven tracking filters for VHF, one setting for all above.
tracks == <<1775000, 1845000, 1915000, 1985000, 2055000, 2195000, 2999999>>
fc0013_vhf_track(freq) ==
  IF \E n \in DOMAIN tracks : freq <= tracks[n]
  THEN 8 - SelectInSeq(tracks, LAMBDA t : freq <= t) ELSE 7

fc0013_band(freq) == IF freq < 3000000 THEN 0 ELSE IF freq <= 8620000 THEN \h40 ELSE \h20

fc0013_set_params(chip, clock, freq) ==
  LET row == SelectInSeq(fc0013_rows, LAMBDA r : freq < r.below)
      words == pll_words(vco_frequency(freq, fc0013_rows[row].multi), clock \div 2)
      filtered == [chip EXCEPT !.track = fc0013_vhf_track(freq), !.vhf = freq < 3000000,
                               !.reg14 = (@ % 32) + fc0013_band(freq)]
  IN IF pll_valid(words)
     THEN [r |-> 0, chip |-> [filtered EXCEPT !.words = words, !.row = fc0013_rows[row],
                                              !.by64 = fc0013_rows[row].multi = 64]]
     ELSE [r |-> -1, chip |-> filtered]

chip13_frequency(chip, clock) ==
  chip_vco(chip.words, clock \div 2)
    \div chip13_divider(chip.row.reg5, chip.row.reg6, chip.by64)

fc0013_set_gain_mode(chip, manual) == [r |-> 0, chip |-> [chip EXCEPT !.manual = manual]]

fc0013_lna_gains ==
  << <<-99, 2>>, <<-73, 3>>, <<-65, 5>>, <<-63, 4>>, <<-63, 0>>, <<-60, 7>>, <<-58, 1>>,
     <<-54, 6>>, <<58, \h0f>>, <<61, \h0e>>, <<63, \h0d>>, <<65, \h0c>>, <<67, \h0b>>,
     <<68, \h0a>>, <<70, 9>>, <<71, 8>>, <<179, \h17>>, <<181, \h16>>, <<182, \h15>>,
     <<184, \h14>>, <<186, \h13>>, <<188, \h12>>, <<191, \h11>>, <<197, \h10>> >>

\* The first that is at least the gain, or the last.
lna_bits(gain) ==
  LET n == SelectInSeq(fc0013_lna_gains, LAMBDA g : g[1] >= gain)
  IN IF n = 0 THEN Last(fc0013_lna_gains)[2] ELSE fc0013_lna_gains[n][2]
fc0013_set_lna_gain(chip, gain) ==
  [r |-> 0, chip |-> [chip EXCEPT !.reg14 = (@ - (@ % 32)) + lna_bits(gain)]]

lna_gain(bits) ==
  LET n == SelectInSeq(fc0013_lna_gains, LAMBDA g : g[2] = bits)
  IN IF n = 0 THEN 0 ELSE fc0013_lna_gains[n][1]
chip13_gain(chip) == lna_gain(chip.reg14 % 32)
==============================================================================
