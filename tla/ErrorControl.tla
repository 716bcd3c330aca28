------------------------------ MODULE ErrorControl ------------------------------
(***************************************************************************)
(* What finds and corrects errors behind the Viterbi decoder: the          *)
(* Reed-Solomon code of a superframe (reed_solomon.cc on top of rscode),   *)
(* the fire code of its header and the CRC of FIBs and access units        *)
(* (superframe.cc).                                                        *)
(*                                                                         *)
(* Field elements are numbers below FieldSize whose bits are coefficients; *)
(* FieldSize, NPAR and cell_size are 256, 10 and 120 in the code.          *)
(***************************************************************************)
EXTENDS Integers, Sequences, FiniteSets, SequencesExt, Bitwise

CONSTANTS
  FieldSize, PPOLY,      \* the field, and its polynomial but for the highest power
  NPAR,                  \* parity bytes of a codeword
  cell_size, no_cells,   \* bytes of a codeword, codewords of a superframe
  Jobs                   \* [kind, sent, received]: superframes, headers, FIBs

ASSUME FieldAssumption == NPAR \in Nat \ {0} /\ cell_size > NPAR /\ cell_size < FieldSize

VARIABLES
  job,
  contents,       \* the superframe, header or FIB
  cell,       \* codewords of the superframe that have been seen to
  no_errors,
  verdict     \* of the check: "none", "good", "bad"

ecvars == <<job, contents, cell, no_errors, verdict>>

-----------------------------------------------------------------------------
(* galois.c *)

XorOf == [a \in 0..FieldSize - 1, b \in 0..FieldSize - 1 |-> a ^^ b]
Period == FieldSize - 1

gexp == LET power[i \in 0..Period] ==
              IF i = 0 THEN 1
              ELSE LET double == 2 * power[i - 1]
                   IN IF double < FieldSize THEN double ELSE XorOf[double - FieldSize, PPOLY]
        IN [i \in 0..Period |-> power[i]]
glog == [a \in 0..FieldSize - 1 |->
           IF a = 0 THEN 0 ELSE CHOOSE i \in 0..Period - 1 : gexp[i] = a]

gmult(a, b) == IF a = 0 \/ b = 0 THEN 0 ELSE gexp[(glog[a] + glog[b]) % Period]
ginv(a) == gexp[Period - glog[a]]

-----------------------------------------------------------------------------
(* rs.c and berlekamp.c: polynomials are functions on 0 .. MAXDEG - 1 *)

MAXDEG == 2 * NPAR
Degrees == 0..MAXDEG - 1
Sum(f, S) == FoldFunctionOnSet(LAMBDA a, b : XorOf[a, b], 0, f, S)

scale_poly(k, poly) == [j \in Degrees |-> gmult(k, poly[j])]
add_polys(p, q) == [j \in Degrees |-> XorOf[p[j], q[j]]]
mul_z_poly(poly) == [j \in Degrees |-> IF j = 0 THEN 0 ELSE poly[j - 1]]
mult_polys(p, q) ==
  [j \in Degrees |-> Sum([k \in 0..j |-> gmult(p[k], q[j - k])], 0..j)]
One == [j \in Degrees |-> IF j = 0 THEN 1 ELSE 0]

compute_genpoly ==
  LET product[k \in 0..NPAR] ==
        IF k = 0 THEN One
        ELSE mult_polys([j \in Degrees |-> CASE j = 0 -> gexp[k - 1] [] j = 1 -> 1 [] OTHER -> 0],
                        product[k - 1])
  IN product[NPAR]

\* encode_data and build_codeword: the message and its parity bytes.
encode_data(msg) ==
  LET lfsr[n \in 0..Len(msg)] ==
        IF n = 0 THEN [j \in 0..NPAR - 1 |-> 0]
        ELSE LET before == lfsr[n - 1]
                 dbyte == XorOf[msg[n], before[NPAR - 1]]
             IN [j \in 0..NPAR - 1 |->
                   XorOf[IF j = 0 THEN 0 ELSE before[j - 1], gmult(compute_genpoly[j], dbyte)]]
  IN msg \o [k \in 1..NPAR |-> lfsr[Len(msg)][NPAR - k]]

\* decode_data: the syndromes.
synBytes(word) ==
  [j \in Degrees |->
     LET sum[n \in 0..Len(word)] ==
           IF n = 0 THEN 0 ELSE XorOf[word[n], gmult(gexp[j], sum[n - 1])]
     IN IF j < NPAR THEN sum[Len(word)] ELSE 0]

check_syndrome(syn) == \E j \in Degrees : syn[j] # 0

compute_discrepancy(lambda, S, L, n) ==
  Sum([j \in 0..L |-> gmult(lambda[j], S[n - j])], 0..L)

\* Faulty variant: without a discrepancy the correction polynomial stays as it is.
BerlekampStepUnshifted(s, S, n) ==
  LET d == compute_discrepancy(s.psi, S, s.L, n)
      psi2 == add_polys(s.psi, scale_poly(d, s.D))
  IN IF d = 0 THEN s
     ELSE IF s.L < n - s.k
     THEN [psi |-> psi2, D |-> mul_z_poly(scale_poly(ginv(d), s.psi)), k |-> n - s.L, L |-> n - s.k]
     ELSE [s EXCEPT !.psi = psi2, !.D = mul_z_poly(@)]

BerlekampStep(s, S, n) ==
  LET d == compute_discrepancy(s.psi, S, s.L, n)
      psi2 == add_polys(s.psi, scale_poly(d, s.D))
  IN IF d = 0 THEN [s EXCEPT !.D = mul_z_poly(@)]
     ELSE IF s.L < n - s.k
     THEN [psi |-> psi2, D |-> mul_z_poly(scale_poly(ginv(d), s.psi)), k |-> n - s.L, L |-> n - s.k]
     ELSE [s EXCEPT !.psi = psi2, !.D = mul_z_poly(@)]

\* There are no erasures: gamma is One.
Modified_Berlekamp_Massey(S) ==
  LET after[n \in 0..NPAR] ==
        IF n = 0 THEN [psi |-> One, D |-> mul_z_poly(One), k |-> -1, L |-> 0]
        ELSE BerlekampStep(after[n - 1], S, n - 1)
  IN after[NPAR].psi

compute_modified_omega(Lambda, S) ==
  LET product == mult_polys(Lambda, S)
  IN [j \in Degrees |-> IF j < NPAR THEN product[j] ELSE 0]

\* The value of a polynomial at a power of alpha, over the degrees D.
At(poly, r, D) == Sum([k \in D |-> gmult(gexp[(k * r) % Period], poly[k])], D)

Find_Roots(Lambda) ==
  {Period - r : r \in {x \in 1..Period : At(Lambda, x, 0..NPAR) = 0}}

\* A word, and how many errors were corrected in it.
correct_errors_erasures(word, S) ==
  LET Lambda == Modified_Berlekamp_Massey(S)
      Omega == compute_modified_omega(Lambda, S)
      ErrorLocs == Find_Roots(Lambda)
      err(i) == gmult(At(Omega, Period - i, Degrees),
                      ginv(At(Lambda, Period - i, {j \in Degrees : j % 2 = 1})))
      unusable == ErrorLocs = {} \/ Cardinality(ErrorLocs) > NPAR
                  \/ \E i \in ErrorLocs : i >= Len(word)
  IN IF unusable THEN [word |-> word, count |-> 0]
     ELSE [word |-> [n \in DOMAIN word |->
                       IF Len(word) - n \in ErrorLocs THEN XorOf[word[n], err(Len(word) - n)]
                       ELSE word[n]],
           count |-> Cardinality(ErrorLocs)]

\* One round of ReedSolomonCorrection: the codewords are interleaved.
Codeword(superframe, c) == [j \in 1..cell_size |-> superframe[c + (j - 1) * no_cells + 1]]

CorrectCell ==
  /\ job.kind = "superframe" /\ cell < no_cells
  /\ LET word == Codeword(contents, cell) \o << >>
         S == synBytes(word)
         corrected == correct_errors_erasures(word, S)
     IN IF check_syndrome(S)
        THEN /\ contents' = [n \in DOMAIN contents |->
                           IF (n - 1) % no_cells = cell
                           THEN corrected.word[((n - 1) \div no_cells) + 1] ELSE contents[n]]
             /\ no_errors' = no_errors + corrected.count
        ELSE UNCHANGED <<contents, no_errors>>
  /\ cell' = cell + 1
  /\ UNCHANGED <<job, verdict>>

-----------------------------------------------------------------------------
(* The checks of superframe.cc *)

\* The last two bytes are sent inverted.
ParityInverted(bytes) ==
  [n \in DOMAIN bytes |-> IF n > Len(bytes) - 2 THEN 255 - bytes[n] ELSE bytes[n]]

CRC16(bytes) ==
  LET word == ParityInverted(bytes)
      bit(b) == (word[(b \div 8) + 1] \div 2^(7 - (b % 8))) % 2
      crc[b \in 0..8 * Len(word)] ==
        IF b = 0 THEN 65535
        ELSE LET before == crc[b - 1]
                 shifted == (2 * before) % 65536
             IN IF (before \div 32768) # bit(b - 1) THEN shifted ^^ 4129 ELSE shifted
  IN crc[8 * Len(word)] = 0

firecode_g_ == <<1, 1, 1, 1, 0, 1, 0, 0, 0, 0, 0, 1, 1, 1, 1, 0>>
FireWord == LET value[j \in 0..16] == IF j = 0 THEN 0 ELSE value[j - 1] + firecode_g_[j] * 2^(j - 1)
            IN value[16]

\* FirecodeInit: the remainders of a byte that leaves the register.
firecode_tab_ ==
  LET step(v) == IF v >= 32768 THEN ((2 * v) % 65536) ^^ FireWord ELSE 2 * v
      itab[j \in 0..15] == IF j = 0 THEN 256 ELSE step(itab[j - 1])
      bits(v) == {j \in 0..7 : (v \div 2^j) % 2 = 1}
  IN [v \in 0..255 |-> FoldSet(LAMBDA j, x : itab[j + 8] ^^ x, 0, bits(v))]

\* The parity, which is in front of the header, goes last.
FirecodeOrder == <<3, 4, 5, 6, 7, 8, 9, 10, 11, 1, 2>>

FirecodeCheck(header) ==
  LET order == FirecodeOrder
      state[n \in 2..Len(order)] ==
        IF n = 2 THEN 256 * header[order[1]] + header[order[2]]
        ELSE LET before == state[n - 1]
             IN (256 * (before % 256) + header[order[n]]) ^^ firecode_tab_[before \div 256]
  IN state[Len(order)] = 0

Check ==
  /\ job.kind \in {"header", "fib"} /\ verdict = "none"
  /\ LET good == IF job.kind = "fib" THEN CRC16(contents) ELSE FirecodeCheck(contents)
     IN verdict' = IF good THEN "good" ELSE "bad"
  /\ UNCHANGED <<job, contents, cell, no_errors>>

-----------------------------------------------------------------------------
ECInit == /\ job \in Jobs
          /\ contents = job.received
          /\ cell = 0 /\ no_errors = 0 /\ verdict = "none"

ECNext == CorrectCell \/ Check

-----------------------------------------------------------------------------
(* Properties *)

ErrorsIn(c) ==
  {j \in 1..cell_size : Codeword(job.received, c)[j] # Codeword(job.sent, c)[j]}

\* A codeword with at most half as many wrong bytes as it has parity bytes comes
\* out as it was sent, and they are all counted; the codewords that are not due
\* yet are not touched, and one that is right stays as it is.
Corrected ==
  (job.kind = "superframe" /\ \A c \in 0..no_cells - 1 : 2 * Cardinality(ErrorsIn(c)) <= NPAR) =>
    /\ no_errors = Cardinality({<<c, j>> \in (0..cell - 1) \X (1..cell_size) : j \in ErrorsIn(c)})
    /\ \A c \in 0..no_cells - 1 :
         Codeword(contents, c) = Codeword(IF c < cell THEN job.sent ELSE job.received, c)

\* The checks let through what was sent, and nothing that a burst of errors no
\* longer than the parity has changed.
BurstsDetected ==
  verdict # "none" => (verdict = "good" <=> job.received = job.sent)

\* What is behind the Viterbi decoder neither lets an error through that it can
\* correct or notice, nor makes one (ReedSolomonCorrection, FirecodeCheck, CRC16).
NoErrorGetsThrough == Corrected /\ BurstsDetected
=============================================================================
