----------------------------- MODULE MCDataDecoder -----------------------------
(* The data decoder: the time deinterleaver and the superframe buffer with the *)
(* numbers of mode I, and the decoding of blocks on what a transmitter that    *)
(* follows EN 300 401 and TS 102 563 makes of its bits: energy dispersal,      *)
(* convolutional code and puncturing from their definitions there and in their *)
(* real size; Reed-Solomon codewords over the field of sixteen elements with   *)
(* four parity bytes, and every position of up to two errors; bursts at every  *)
(* bit of a header and of a small FIB.  Each behaviour is about one part.      *)
EXTENDS TimeDeinterleaver, SuperFrame, ErrorControl

VARIABLES
  part,              \* the part a behaviour is about
  block, decoding_stage, depunctur_data_, used, i, accMetricBuff_, pathBuff_,
  pLast, mWrite, output, binary_data_, energ_disp_out_

CONSTANT FrameBlocks
Decoder == INSTANCE ConvolutionalDecoder WITH stage <- decoding_stage
decoder_vars == <<block, decoding_stage, depunctur_data_, used, i, accMetricBuff_, pathBuff_,
                  pLast, mWrite, output, binary_data_, energ_disp_out_>>

(* Blocks *)

\* The profiles do not depend on the blocks: an instance of their own.
Profiles == INSTANCE Puncturing

\* The same sequence, its elements computed once and for all.
Tabled(seq) == seq \o << >>

\* The dispersal sequence by its recurrence, from nine ones on; five of its bits
\* at a time, as none of them depends on another.
Recurrence ==
  LET p[k \in 0..155] ==
        IF k = 0 THEN [j \in 1..9 |-> 1]
        ELSE LET before == p[k - 1]
             IN before \o [j \in 1..5 |-> (before[Len(before) + j - 5] + before[Len(before) + j - 9]) % 2]
  IN p[155]
Prbs == SubSeq(Recurrence, 10, 777)
Scrambled(bits) == Tabled([k \in DOMAIN bits |-> (bits[k] + Prbs[k]) % 2])

\* The generator polynomials of the mother code: 133, 171, 145 and 133 in octal.
Generators == <<<<1, 0, 1, 1, 0, 1, 1>>, <<1, 1, 1, 1, 0, 0, 1>>,
                <<1, 1, 0, 0, 1, 0, 1>>, <<1, 0, 1, 1, 0, 1, 1>>>>
Memory == 6
Coded(bits) ==
  LET u(t) == IF t \in DOMAIN bits THEN bits[t] ELSE 0
      sum(t, k) == Cardinality({x \in 1..Memory + 1 : Generators[k][x] * u(t - x + 1) = 1})
  IN Tabled([j \in 1..4 * (Len(bits) + Memory) |->
               1 - 2 * (sum(((j - 1) \div 4) + 1, ((j - 1) % 4) + 1) % 2)])

\* The cells of one CIF: of each stretch those that its index lets through.
Punctured(coded, profile) ==
  LET stretches == profile.stretches
      from(q) == Profiles!after_depuncturer_total_len([stretches |-> SubSeq(stretches, 1, q - 1)])
      let_through(q) == LET which == SelectSeq([j \in 1..Profiles!Originals(stretches[q]) |-> j],
                                        LAMBDA j : (j - 1) % 32 \in Profiles!devPI_[stretches[q].lpi])
                     start == from(q)
                 IN [n \in DOMAIN which |-> coded[start + which[n]]]
  IN FlattenSeq([q \in DOMAIN stretches |-> IF stretches[q].lrange = 0 THEN << >> ELSE let_through(q)])

\* Every `apart'-th cell has the wrong sign, but for the last ones: as the decoder
\* repeats the last symbol thirty times, errors there may cost the last bits.
Quiet == 40
Disturbed(cells, apart) ==
  Tabled([n \in DOMAIN cells |->
            IF apart > 0 /\ (n * 7) % apart = 3 /\ n <= Len(cells) - Quiet
            THEN -cells[n] ELSE cells[n]])

Transmit(messages, profile, cu, apart) ==
  [profile |-> profile,
   received |-> [c \in DOMAIN messages |->
                   Disturbed(Punctured(Coded(Scrambled(messages[c])), profile), apart)],
   coded |-> FlattenSeq([c \in DOMAIN messages |-> Scrambled(messages[c])]),
   bits |-> FlattenSeq(messages),
   bits_per_cif |-> Len(messages[1]),
   cells |-> 64 * cu]

\* Messages: nothing but zeros, ones up to the end, and two mixed ones.
Zeros(n) == [k \in 1..n |-> 0]
Ones(n)  == [k \in 1..n |-> 1]
Mixed(n) == [k \in 1..n |-> ((k * k * 7 + k * 3) \div 5) % 2]
Other(n) == [k \in 1..n |-> ((k * k) \div 11) % 2]

ShortForm(index) ==
  LET row == Profiles!ShortInfo(index)
  IN [IsLong |-> FALSE, audio_kbps |-> row.kbps, protection_level |-> row.protection]
LongSize(typeB, protection) ==
  IF typeB THEN Profiles!EepB[protection].size ELSE <<12, 8, 6, 4>>[protection + 1]
LongForm(typeB, protection, units) ==
  [IsLong |-> TRUE, ProtectionLevelTypeB |-> typeB, protection_level |-> protection,
   sub_ch_size |-> units * LongSize(typeB, protection)]

\* The FIC of a frame with one CIF, and two CIFs of an audio sub-channel.
Fic(bits, apart) == Transmit(<<bits>>, Profiles!DePuncturerFICInit(2), 36, apart)
Audio(protection, sent, apart) ==
  LET form == LongForm(FALSE, protection, 1)
  IN Transmit(sent, Profiles!DePuncturerMSCInit(form), form.sub_ch_size, apart)

\* Of the other sub-channels only the sizes are looked at.
Sized(profile, kbps, cu) ==
  [profile |-> profile, received |-> <<[n \in 1..64 * cu + 64 |-> 1]>>,
   coded |-> << >>, bits |-> << >>, bits_per_cif |-> 24 * kbps, cells |-> 64 * cu]

\* The rows of the table that do not fill their sub-channel: those of 112 kbit/s
\* are one level off, two of 224 kbit/s have a misprint.
Misprinted == {29, 30, 31, 32, 48, 51}

MCFrameBlocks ==
  {Fic(Mixed(768), 0), Fic(Other(768), 23)} \cup
  {Audio(level, sent, apart) : level \in {0, 1}, apart \in {0, 29},
     sent \in {<<Mixed(192), Ones(192)>>, <<Zeros(192), Other(192)>>}} \cup
  {Sized(Profiles!DePuncturerMSCInit(ShortForm(index)), Profiles!ShortInfo(index).kbps, Profiles!ShortInfo(index).size) :
     index \in (0..63) \ Misprinted} \cup
  {LET form == LongForm(typeB, protection, units)
       profile == Profiles!DePuncturerMSCInit(form)
   IN Sized(profile, profile.audio_kbps, form.sub_ch_size) :
     typeB \in BOOLEAN, protection \in 0..3, units \in {2, 3}}

\* The weakest protection, received without an error.
MCWeakBlocks == {Audio(3, <<Mixed(192), Other(192)>>, 0)}

-----------------------------------------------------------------------------
(* Superframes, headers and FIBs *)

Interleaved(words) ==
  [n \in 1..cell_size * no_cells |->
     words[((n - 1) % no_cells) + 1][((n - 1) \div no_cells) + 1]] \o << >>
WithErrors(word, at) ==
  [j \in DOMAIN word |-> IF j \in DOMAIN at THEN XorOf[word[j], at[j]] ELSE word[j]]

Messages == {<<1, 9, 14>>}
Magnitudes == {6, 15}
Few == UNION {[at -> Magnitudes] : at \in {s \in SUBSET (1..cell_size) : Cardinality(s) <= 2}}
Superframes ==
  LET one(msg, a, b) ==
        LET word == encode_data(msg) \o << >>
        IN [kind |-> "superframe",
            sent |-> Interleaved([c \in 1..no_cells |-> word]),
            received |-> Interleaved(<<WithErrors(word, a), WithErrors(word, b)>>)]
  IN {one(msg, a, b) : msg \in Messages, a \in Few, b \in {[j \in {} |-> 0], [j \in {2, 7} |-> j]}}

\* The remainder of a polynomial, for the parity of a header and a FIB.
Bits(bytes) == [b \in 1..8 * Len(bytes) |-> (bytes[((b - 1) \div 8) + 1] \div 2^(7 - ((b - 1) % 8))) % 2]
Remainder(bits, generator, start) ==
  LET rest[b \in 0..Len(bits)] ==
        IF b = 0 THEN start
        ELSE LET before == rest[b - 1]
                 out == before \div 32768
                 shifted == ((2 * before) % 65536) + bits[b]
             IN IF out = 1 THEN shifted ^^ generator ELSE shifted
  IN rest[Len(bits)]
Zeros16 == [b \in 1..16 |-> 0]

\* x^16 + x^14 + x^13 + x^12 + x^11 + x^5 + x^3 + x^2 + x + 1 and x^16 + x^12 + x^5 + 1
FireCode == 2^14 + 2^13 + 2^12 + 2^11 + 2^5 + 2^3 + 2^2 + 2 + 1
CcittCode == 2^12 + 2^5 + 1

HeaderOf(rest) ==
  LET parity == Remainder(Bits(rest) \o Zeros16, FireCode, 0)
  IN <<parity \div 256, parity % 256>> \o rest

\* The register starts with ones: the first sixteen bits come in inverted.
FIB(rest) ==
  LET bits == [b \in 1..8 * Len(rest) |-> IF b <= 16 THEN 1 - Bits(rest)[b] ELSE Bits(rest)[b]]
      parity == 65535 - Remainder(bits \o Zeros16, CcittCode, 0)
  IN rest \o <<parity \div 256, parity % 256>>

\* A burst that starts with bit b.
Burst(bytes, b, pattern) ==
  LET bits == [k \in 1..8 * Len(bytes) |->
                 IF k >= b /\ k - b < Len(pattern) THEN (Bits(bytes)[k] + pattern[k - b + 1]) % 2
                 ELSE Bits(bytes)[k]] \o << >>
      value(n) == LET v[k \in 0..8] == IF k = 0 THEN 0 ELSE 2 * v[k - 1] + bits[8 * (n - 1) + k]
                  IN v[8]
  IN [n \in DOMAIN bytes |-> value(n)]

Patterns == {<<1>>, <<1, 1>>, <<1, 0, 1, 1>>, <<1, 0, 0, 0, 1, 0, 0, 0, 0, 0, 1, 1, 0, 1, 1, 1>>,
             <<1, 1, 1, 1, 1, 1, 1, 1, 1, 1, 1, 1, 1, 1, 1, 1>>}
Checked(kind, sent) ==
  {[kind |-> kind, sent |-> sent, received |-> sent]} \cup
  {[kind |-> kind, sent |-> sent, received |-> Burst(sent, b, pattern)] :
     b \in 1..8 * Len(sent), pattern \in Patterns}

MCJobs == Superframes \cup Checked("header", HeaderOf(<<96, 4, 15, 225, 17, 34, 51, 0, 255>>))
                      \cup Checked("fib", FIB(<<5, 1, 4, 12, 200, 255>>))

-----------------------------------------------------------------------------
(* One part at a time; the others are idle. *)

NoJob == [kind |-> "none", sent |-> << >>, received |-> << >>]
MCInit ==
  /\ part \in {"deinterleaver", "superframe", "block", "check"}
  /\ Init
  /\ IF part = "superframe" THEN SuperFrameInit
     ELSE /\ superframe_ = [slot \in Slots |-> None] /\ superframe_cifs_ = 0 /\ adts_head_idx_ = 0
          /\ received = 0 /\ phase = 0 /\ noisy = {} /\ passing = {} /\ last = None
  /\ IF part = "block" THEN Decoder!Init
     ELSE /\ block = "none" /\ decoding_stage = "none" /\ depunctur_data_ = << >> /\ used = 0
          /\ i = 0 /\ accMetricBuff_ = << >> /\ pathBuff_ = << >> /\ pLast = 0 /\ mWrite = 0
          /\ output = << >> /\ binary_data_ = << >> /\ energ_disp_out_ = << >>
  /\ IF part = "check" THEN ECInit
     ELSE job = NoJob /\ contents = << >> /\ cell = 0 /\ no_errors = 0 /\ verdict = "none"
MCNext ==
  \/ part = "deinterleaver" /\ Next /\ UNCHANGED <<part, superframe_vars, decoder_vars, ecvars>>
  \/ part = "superframe" /\ AppendAndHandle /\ UNCHANGED <<part, vars, decoder_vars, ecvars>>
  \/ part = "block" /\ Decoder!Next /\ UNCHANGED <<part, vars, superframe_vars, ecvars>>
  \/ part = "check" /\ ECNext /\ UNCHANGED <<part, vars, superframe_vars, decoder_vars>>
MCSpec == MCInit /\ [][MCNext]_<<part, vars, superframe_vars, decoder_vars, ecvars>>

\* See ConvolutionalDecoder.
BlockDecoded == Decoder!BlockDecoded
=============================================================================
