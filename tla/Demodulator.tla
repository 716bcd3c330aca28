---------------------------- MODULE Demodulator ----------------------------
(* The demodulator transforms the symbols of a frame in the very buffer the   *)
(* samples lie in, where the synchronizer looks for the next null symbol, and *)
(* writes what the data decoder reads of them.  Which symbols are transformed *)
(* and written, where the data decoder expects them and what becomes of the    *)
(* samples is modelled; the values are not.                                   *)
EXTENDS Integers, Sequences

CONSTANTS
  Stations           \* [sub_ch_start_addr, sub_ch_size] of the stations that are played

ASSUME StationsAssumption ==
  \A s \in Stations : /\ s.sub_ch_start_addr \in 0..863 /\ s.sub_ch_size \in 1..864
                      /\ s.sub_ch_start_addr + s.sub_ch_size <= 864

VARIABLES
  mode_parameters_,  \* the demodulator was made for this mode
  station,           \* the station of the frame being demodulated
  phase,             \* how far Process is
  transformed,       \* symbol -> how often it was transformed
  unit,              \* the symbols written to the decoder's buffer, in order
  tail,              \* what the null_size numbers before the next null symbol are
  sync_start_data_,  \* the copy of them
  searched           \* what the synchronizer found there last

demodulator_vars ==
  <<mode_parameters_, station, phase, transformed, unit, tail, sync_start_data_, searched>>

ModeParameters ==
  [I |->
     [guard_size |-> 504, fft_size |-> 2048, symbol_size |-> 2552, number_of_symbols |-> 76,
      null_size |-> 2656, frame_size |-> 196608, number_of_carriers |-> 1536,
      number_of_symbols_per_fic |-> 3, number_of_cif |-> 4, fic_size |-> 9216,
      number_cu_per_symbol |-> 48, number_symbols_per_cif |-> 18],
   II |->
     [guard_size |-> 126, fft_size |-> 512, symbol_size |-> 638, number_of_symbols |-> 76,
      null_size |-> 664, frame_size |-> 49152, number_of_carriers |-> 384,
      number_of_symbols_per_fic |-> 3, number_of_cif |-> 1, fic_size |-> 2304,
      number_cu_per_symbol |-> 12, number_symbols_per_cif |-> 72],
   III |->
     [guard_size |-> 63, fft_size |-> 256, symbol_size |-> 319, number_of_symbols |-> 153,
      null_size |-> 345, frame_size |-> 49152, number_of_carriers |-> 192,
      number_of_symbols_per_fic |-> 8, number_of_cif |-> 1, fic_size |-> 3072,
      number_cu_per_symbol |-> 6, number_symbols_per_cif |-> 144],
   IV |->
     [guard_size |-> 252, fft_size |-> 1024, symbol_size |-> 1276, number_of_symbols |-> 76,
      null_size |-> 1328, frame_size |-> 98304, number_of_carriers |-> 768,
      number_of_symbols_per_fic |-> 3, number_of_cif |-> 2, fic_size |-> 4608,
      number_cu_per_symbol |-> 24, number_symbols_per_cif |-> 36]]
SetModeParameters(mode) == ModeParameters[mode]

m == mode_parameters_
Symbols == 0..(m.number_of_symbols - 1)
FicOnly == [sub_ch_start_addr |-> 0, sub_ch_size |-> 0]
decode_fic_only_ == station = FicOnly

\* The symbols of a CIF that hold the sub-channel.
symb_start_addr_ == station.sub_ch_start_addr \div m.number_cu_per_symbol
symb_end_addr_ ==
  IF decode_fic_only_ THEN 0      \* -1 / number_cu_per_symbol, rounded toward zero
  ELSE (station.sub_ch_start_addr + station.sub_ch_size - 1) \div m.number_cu_per_symbol
Cifs == IF decode_fic_only_ THEN {} ELSE 0..(m.number_of_cif - 1)

-----------------------------------------------------------------------------
(* The frequency deinterleaver. *)

\* pi(i) of the table's recurrence, by doubling: the map of i steps is x -> a x + b.
Steps(n_fft) ==
  LET step[i \in 0..(n_fft - 1)] ==
        IF i = 0 THEN [a |-> 1, b |-> 0]
        ELSE LET half == step[i \div 2]
                 both == [a |-> (half.a * half.a) % n_fft, b |-> (half.a * half.b + half.b) % n_fft]
             IN IF i % 2 = 0 THEN both
                ELSE [a |-> (13 * both.a) % n_fft, b |-> (13 * both.b + (n_fft \div 4) - 1) % n_fft]
  IN step

InRange(n_fft, pi) == pi > n_fft \div 8 - 1 /\ pi < (n_fft \div 8) * 7 + 1 /\ pi # n_fft \div 2

\* Those pi in range, in order: the n-th belongs to the n-th QPSK symbol.
Distributed(n_fft) ==
  LET step == Steps(n_fft)
  IN SelectSeq([i \in 1..(n_fft - 1) |-> step[i].b], LAMBDA pi : InRange(n_fft, pi))
CarrierIndex(n_fft, pi) ==
  LET k == pi - n_fft \div 2
  IN IF k < 0 THEN k + 3 * (n_fft \div 8) ELSE k + 3 * (n_fft \div 8) - 1

\* The table's entry for each carrier index, and the number the spectrum has its
\* carrier under (real part; the imaginary one follows).
Source(p, index) ==
  IF 2 * index < p.number_of_carriers THEN 2 * (p.fft_size \div 2 + p.fft_size \div 8) + 2 * index
  ELSE (2 * index - p.number_of_carriers) + 2

-----------------------------------------------------------------------------
(* One frame. *)

CreateDemodulator ==
  \E mode \in {"I", "II", "III", "IV"} :
     /\ mode_parameters_ = SetModeParameters(mode)
     /\ station = FicOnly
     /\ phase = "created"
     /\ transformed = [s \in 0..(m.number_of_symbols - 1) |-> 0]
     /\ unit = << >>
     /\ tail = "samples"
     /\ sync_start_data_ = "nothing"
     /\ searched = "samples"

\* A new frame, whose samples are in time.
Resume(s) ==
  /\ phase \in {"created", "done"}
  /\ station' = s
  /\ phase' = "resumed"
  /\ transformed' = [i \in Symbols |-> 0]
  /\ unit' = << >>
  /\ tail' = "samples"
  /\ UNCHANGED <<mode_parameters_, sync_start_data_, searched>>

\* Mutated: the copy is made when the CIF is read from its first symbol.
FirstSymbolUsed == symb_start_addr_ = 0
\* The station is in the last symbol of the CIFs, and so of the frame.
Protected == symb_end_addr_ = m.number_symbols_per_cif - 1

Copy ==
  /\ phase = "resumed"
  /\ phase' = "copied"
  /\ sync_start_data_' = IF Protected THEN tail ELSE sync_start_data_
  /\ UNCHANGED <<mode_parameters_, station, transformed, unit, tail, searched>>

\* The numbers that are overwritten when a symbol is transformed, and whether those
\* before the null symbol are among them.
Spoils(symb) ==
  LET from == 2 * (symb * m.symbol_size + m.guard_size - 50)
      tail_from == 2 * m.frame_size - 3 * m.null_size
  IN from < tail_from + m.null_size /\ tail_from < from + 2 * m.fft_size

FirstOfCif(cif) == m.number_of_symbols_per_fic + cif * m.number_symbols_per_cif
start_symb(cif) == FirstOfCif(cif) + symb_start_addr_
end_symb(cif) == 1 + FirstOfCif(cif) + symb_end_addr_

\* Symbols that were transformed already: the last of the FIC, and the last of the CIF
\* before when whole CIFs are read.
SkippedOfFic(cif, symb) == symb = m.number_of_symbols_per_fic
Skipped(cif, symb) ==
  \/ symb = m.number_of_symbols_per_fic
  \/ end_symb(cif) - start_symb(cif) = m.number_symbols_per_cif /\ symb = FirstOfCif(cif)

FFTInPlace ==
  /\ phase = "copied"
  /\ phase' = "transformed"
  /\ LET audio(symb) == {cif \in Cifs : symb \in start_symb(cif)..end_symb(cif) /\ ~Skipped(cif, symb)}
         count(set) == IF set = {} THEN 0 ELSE IF \E c \in set : set = {c} THEN 1 ELSE 2
         times == [symb \in Symbols |->
                     (IF symb <= m.number_of_symbols_per_fic THEN 1 ELSE 0) + count(audio(symb))]
     IN /\ transformed' = times
        /\ tail' = IF \E symb \in Symbols : times[symb] > 0 /\ Spoils(symb) THEN "spectrum" ELSE tail
  /\ UNCHANGED <<mode_parameters_, station, unit, sync_start_data_, searched>>

\* Each symbol is demodulated against the one before it.
DeQPSK ==
  /\ phase = "transformed"
  /\ phase' = "written"
  /\ LET fic == m.number_of_symbols_per_fic
         each == symb_end_addr_ - symb_start_addr_ + 1
         audio == IF decode_fic_only_ THEN 0 ELSE m.number_of_cif * each
     IN unit' = [n \in 1..(fic + audio) |->
                   IF n <= fic THEN n
                   ELSE 1 + start_symb((n - fic - 1) \div each) + ((n - fic - 1) % each)]
  /\ UNCHANGED <<mode_parameters_, station, transformed, tail, sync_start_data_, searched>>

Restore ==
  /\ phase = "written"
  /\ phase' = "done"
  /\ tail' = IF Protected THEN sync_start_data_ ELSE tail
  /\ UNCHANGED <<mode_parameters_, station, transformed, unit, sync_start_data_, searched>>

\* The synchronizer, in its own thread, looks for the null symbol of the next frame.
SearchNextNull ==
  /\ phase # "created"
  /\ searched' = tail
  /\ UNCHANGED <<mode_parameters_, station, phase, transformed, unit, tail, sync_start_data_>>

DemodulatorNext ==
  \/ \E s \in Stations \cup {FicOnly} : Resume(s)
  \/ Copy \/ FFTInPlace \/ DeQPSK \/ Restore
  \/ SearchNextNull

DemodulatorSpec == CreateDemodulator /\ [][DemodulatorNext]_demodulator_vars

-----------------------------------------------------------------------------
(* What the scheduler and the data decoder take a frame to be. *)

\* CalculateDeqpskBuffer of the scheduler; in CONF a frame is a FIC.
deqpsk_unit_size_ ==
  IF decode_fic_only_ THEN m.fic_size
  ELSE 64 * (m.number_of_symbols_per_fic
             + ((station.sub_ch_start_addr + station.sub_ch_size - 1) \div m.number_cu_per_symbol
                - station.sub_ch_start_addr \div m.number_cu_per_symbol + 1) * m.number_of_cif)
          * m.number_cu_per_symbol

\* Mutated: one unit too many after a sub-channel that ends with its symbol.
rightPaddingOfOne ==
  64 * (m.number_cu_per_symbol
        - ((station.sub_ch_start_addr + station.sub_ch_size) % m.number_cu_per_symbol))
\* The other cells of the symbols, before and after those of the sub-channel.
leftPaddingOffset == 64 * (station.sub_ch_start_addr % m.number_cu_per_symbol)
rightPaddingOffset == 64 * ((-(station.sub_ch_start_addr + station.sub_ch_size)) % m.number_cu_per_symbol)
audio_size_ == 64 * station.sub_ch_size
audio_and_pad_size_ == audio_size_ + leftPaddingOffset + rightPaddingOffset

\* Where the data decoder reads capacity unit cu of a CIF.
ReadAt(cif, cu) ==
  m.fic_size + leftPaddingOffset + cif * audio_and_pad_size_ + 64 * (cu - station.sub_ch_start_addr)

-----------------------------------------------------------------------------
(* Properties. *)

\* Every symbol that is demodulated, and the one before it, was transformed, and
\* no symbol twice: one that is shared by two CIFs, or by the FIC and a CIF, would
\* be spoilt (FFTInPlace, DeQPSK).
TransformedOnce ==
  /\ \A symb \in Symbols : transformed[symb] <= 1
  /\ phase \in {"written", "done"} =>
       \A n \in DOMAIN unit : transformed[unit[n]] = 1 /\ transformed[unit[n] - 1] = 1

\* Demodulator, scheduler and data decoder agree on a frame: as much is written as
\* the positions move by, and every capacity unit of the sub-channel is where the
\* time deinterleaver takes it from (DeQPSK, CalculateDeqpskBuffer, TimeDeinterleaverInit).
UnitsAgree ==
  phase \in {"written", "done"} =>
    LET symbol == 2 * m.number_of_carriers
    IN /\ Len(unit) * symbol = deqpsk_unit_size_
       /\ ~decode_fic_only_ => deqpsk_unit_size_ = m.fic_size + m.number_of_cif * audio_and_pad_size_
       /\ \A cif \in Cifs :
            \A cu \in {station.sub_ch_start_addr, station.sub_ch_start_addr + station.sub_ch_size - 1} :
               /\ unit[(ReadAt(cif, cu) \div symbol) + 1]
                    = 1 + FirstOfCif(cif) + (cu \div m.number_cu_per_symbol)
               /\ ReadAt(cif, cu) % symbol = 64 * (cu % m.number_cu_per_symbol)

\* The frequency deinterleaver puts every carrier but the middle one into exactly one
\* cell and fills every cell, in all modes (GenerateFrequencyDeInterleaverTab).
CarriersInCells ==
  phase = "created" =>
    LET pis == Distributed(m.fft_size)
    IN /\ Len(pis) = m.number_of_carriers
       /\ {CarrierIndex(m.fft_size, pis[n]) : n \in DOMAIN pis} = 0..(m.number_of_carriers - 1)
       /\ \A n \in DOMAIN pis :
            LET k == pis[n] - m.fft_size \div 2
            IN Source(m, CarrierIndex(m.fft_size, pis[n])) = 2 * (IF k < 0 THEN k + m.fft_size ELSE k)

\* A capacity unit arrives where the data decoder looks for it, and so does each of its
\* carriers, for every station in every mode.
CellsRight == UnitsAgree /\ CarriersInCells

\* When a frame is done, the samples before the next null symbol are samples again
\* (Process).
NextNullIntact == phase = "done" => tail = "samples"

\* The copy protects the synchronizer's data from the transformation (demodulator.cc:58).
NullSearchUndisturbed == searched = "samples"
=============================================================================
