------------------------------ MODULE HrpCodec ------------------------------
(***************************************************************************)
(* The IEEE 802.15.4a HRP codes of uwb_demod_core.h (namespace detail):    *)
(* the despreading decision on one BPM-BPSK symbol, the rate-1/2 Viterbi   *)
(* decoder, the SECDED parities, the CRC-16 and RS(63,55) over GF(2^6).    *)
(* Bits are 0 and 1, bit strings are sequences in the order of the code's  *)
(* vectors.  All operators are pure; the exclusive or and the product of   *)
(* the field are tables.                                                   *)
(***************************************************************************)
EXTENDS Integers, Sequences, FiniteSets

Bit == {0, 1}
Flip(b) == 1 - b
Xor2(a, b) == (a + b) % 2

\* The sequence s itself.  (TLC keeps [i \in 1..n |-> e] unevaluated and would
\* evaluate e again at every use; a SubSeq it evaluates once.)
Eager(s) == SubSeq(s, 1, Len(s))

\* Op(a).  (TLC evaluates a before it enters Op, not where Op first uses it.)
With(a, Op(_)) == CHOOSE c \in {Op(b) : b \in {a}} : TRUE

\* Step(...Step(a, lo + 1)..., hi).
Turns(Step(_, _), a, lo, hi) ==
  LET it[k \in lo..hi] == IF k = lo THEN a ELSE With(it[k - 1], LAMBDA c : Step(c, k))
  IN  it[hi]

\* Step(...Step(Step(first, 1), 2)..., n), in blocks of 16 steps: TLC's stack
\* then holds a block's steps and the blocks, not every step.
Iterate(Step(_, _), first, n) ==
  LET block[q \in 0..(n + 15) \div 16] ==
        IF q = 0 THEN first
        ELSE With(block[q - 1],
                  LAMBDA c : Turns(Step, c, 16 * (q - 1), IF 16 * q < n THEN 16 * q ELSE n))
  IN  block[(n + 15) \div 16]

-----------------------------------------------------------------------------
(* One symbol.  A symbol is what its bursts correlate to with the spreading *)
(* sequence: metric[half][hop], for the two halves of the symbol and the    *)
(* two hop positions searched in each.                                      *)

HrpAbs(x) == IF x >= 0 THEN x ELSE -x

\* bprf_spreading: the scrambler's bits from start_bit on, from the 15 bits of
\* its initial state.
bprf_spreading(init, start_bit, nbits) ==
  LET s[i \in Nat] == IF i < 15 THEN init[i + 1] ELSE Xor2(s[i - 14], s[i - 15])
  IN  [i \in 1..nbits |-> s[start_bit + i - 1]]

\* The hop with the larger metric of one half; the first one wins a tie.
BestHop(m) == IF HrpAbs(m[2]) > HrpAbs(m[1]) THEN m[2] ELSE m[1]

\* bprf_demod_soft: the position bit g0 from the stronger half, the polarity
\* bit g1 from its sign, and their log-likelihood ratios (bprf_demod without).
bprf_demod_soft(metric, pol) ==
  LET m0 == pol * BestHop(metric[1])
      m1 == pol * BestHop(metric[2])
      g0 == IF HrpAbs(m0) >= HrpAbs(m1) THEN 0 ELSE 1
      best == IF g0 = 0 THEN m0 ELSE m1
  IN  [g0 |-> g0, g1 |-> IF best < 0 THEN 1 ELSE 0,
       llr0 |-> HrpAbs(m0) - HrpAbs(m1), llr1 |-> best]

-----------------------------------------------------------------------------
(* The convolutional code, poly2trellis(3, [2 5]): state 2*s1 + s0.        *)

o0(st, u)  == st \div 2
o1(st, u)  == Xor2(u, st % 2)
nxt(st, u) == 2 * u + st \div 2

Inf == 1000000

\* The forward pass and the trace back that vitdec_cl3 and vitdec_cl3_soft
\* share; branch(t, st, u) is the cost of input u in state st at symbol t.  State
\* s is entered from 2 * (s % 2) and the state above it, and the lower one wins
\* a tie.  surf[s + 1] is the cost of state s, back[t][s + 1] its predecessor.
Viterbi(branch(_, _, _), n) ==
  LET Enter(surf, t, s) ==
        LET u  == s \div 2
            lo == 2 * (s % 2)
            mlo == surf[lo + 1] + branch(t, lo, u)
            mhi == surf[lo + 2] + branch(t, lo + 1, u)
        IN  IF surf[lo + 1] = Inf /\ surf[lo + 2] = Inf THEN [cost |-> Inf, from |-> 0]
            ELSE IF surf[lo + 2] = Inf \/ (surf[lo + 1] # Inf /\ mlo <= mhi)
                 THEN [cost |-> mlo, from |-> lo]
                 ELSE [cost |-> mhi, from |-> lo + 1]
      Forward(prev, t) ==
        LET Keep(e) == [surf |-> Eager([s \in 1..4 |-> e[s].cost]),
                        back |-> Append(prev.back, Eager([s \in 1..4 |-> e[s].from]))]
        IN  Keep(Eager([s \in 1..4 |-> Enter(prev.surf, t, s - 1)]))
      Best(surf) == CHOOSE s \in 1..4 :
                      /\ \A r \in 1..4 : surf[s] <= surf[r]
                      /\ \A r \in 1..s - 1 : surf[s] < surf[r]
      \* the states after symbols n - k, ..., n
      Back(end) ==
        LET Before(trail, k) == <<end.back[n + 1 - k][Head(trail) + 1]>> \o trail
        IN  Iterate(Before, <<Best(end.surf) - 1>>, n)
      Inputs(states) == Eager([t \in 1..n |-> states[t + 1] \div 2])
      Decide(end) == Inputs(Back(end))
  IN  Decide(Iterate(Forward, [surf |-> <<0, Inf, Inf, Inf>>, back |-> <<>>], n))

\* Hard decisions: rx[t] = <<g0, g1>>.
vitdec_cl3(rx, n) ==
  LET branch(t, st, u) == Xor2(rx[t][1], o0(st, u)) + Xor2(rx[t][2], o1(st, u))
  IN  Viterbi(branch, n)

\* Soft decisions: llr[t] = <<llr0, llr1>>, positive for bit 0.
vitdec_cl3_soft(llr, n) ==
  LET branch(t, st, u) == (2 * o0(st, u) - 1) * llr[t][1]
                            + (2 * o1(st, u) - 1) * llr[t][2]
  IN  Viterbi(branch, n)

-----------------------------------------------------------------------------
(* SECDED: the rows of kParity, as the sets of the data bits they sum.     *)

kParity == << {1, 2, 3, 5, 6, 8, 11, 12, 13},
              {12, 13},
              {5, 6, 7, 8, 9, 10, 11},
              {2, 3, 4, 8, 9, 10, 11},
              {1, 3, 4, 6, 7, 10, 11, 13},
              {1, 2, 4, 5, 7, 9, 11, 12} >>

ParityOf(bits, S) == Cardinality({i \in S : bits[i] = 1}) % 2

hrp_secded(sys13) == sys13 \o [r \in 1..6 |-> ParityOf(sys13, kParity[r])]

BitOf(x, i) == (x \div 2^i) % 2
Toggle(x, i) == IF BitOf(x, i) = 1 THEN x - 2^i ELSE x + 2^i

\* crc16_802154, bit by bit (the bits of a byte least significant first): 0x8408
\* has bits 15, 10 and 3, and bit 15 is clear after the shift.
crc16_802154(bits) ==
  Iterate(LAMBDA c, k : IF Xor2(c % 2, bits[k]) = 1
                          THEN 32768 + Toggle(Toggle(c \div 2, 10), 3)
                          ELSE c \div 2,
          0, Len(bits))

-----------------------------------------------------------------------------
(* GF(2^6), polynomial 0x61.                                               *)

Sym == 0..63
Weigh(b) == b[1] + 2 * b[2] + 4 * b[3] + 8 * b[4] + 16 * b[5] + 32 * b[6]
GfXor == [a \in Sym |-> [b \in Sym |->
            Weigh(Eager([i \in 1..6 |-> Xor2(BitOf(a, i - 1), BitOf(b, i - 1))]))]]

\* Shift left, and on a carry out of bit 5 add 0x21 (x^6 = x^5 + 1).
Doubled(a) == IF a >= 32 THEN GfXor[(2 * a) % 64][33] ELSE 2 * a

\* The code adds a * x^i for each bit i of b, lowest first; Horner's rule, from
\* the highest, sums the same terms.
rs_gf_mul ==
  LET Step(acc, a, bit) == GfXor[Doubled(acc)][IF bit = 1 THEN a ELSE 0]
  IN  [a \in Sym |-> [b \in Sym |->
         Step(Step(Step(Step(Step(Step(0, a, BitOf(b, 5)), a, BitOf(b, 4)),
           a, BitOf(b, 3)), a, BitOf(b, 2)), a, BitOf(b, 1)), a, BitOf(b, 0))]]

\* a^0, ..., a^62.
rs_gf_pow(a) ==
  LET p[n \in 0..62] == IF n = 0 THEN <<1>>
                        ELSE LET q == p[n - 1] IN Append(q, rs_gf_mul[q[n]][a])
  IN  p[62]
Inverses == Eager([a \in 1..63 |-> rs_gf_pow(a)[63]])
rs_gf_inv(a) == IF a = 0 THEN 0 ELSE Inverses[a]
Powers == rs_gf_pow(2)
Alpha(n) == Powers[(n % 63) + 1]      \* alpha = 2

GfSum(f, n) ==   \* exclusive or of f[1], ..., f[n]
  Iterate(LAMBDA acc, k : GfXor[acc][f[k]], 0, n)

-----------------------------------------------------------------------------
(* RS(63,55).  A block is a sequence of 63 symbols, symbol j at index j+1.  *)

Least(a, b) == IF a <= b THEN a ELSE b

rs_bits_to_syms(bits) ==
  Eager([i \in 1..63 |-> Weigh(Eager([b \in 1..6 |-> bits[6 * i + 1 - b]]))])
rs_syms_to_bits(syms, nsym) ==
  Eager([n \in 1..6 * nsym |-> BitOf(syms[((n - 1) \div 6) + 1], 5 - ((n - 1) % 6))])

\* S[i] = r(alpha^i).  FaultSyndromes: the first root is alpha^0.
FaultSyndromes(r) ==
  Eager([i \in 1..8 |->
    GfSum([j \in 1..63 |-> rs_gf_mul[r[j]][Alpha((i - 1) * (j - 1))]], 63)])
rs_syndromes(r) ==
  Eager([i \in 1..8 |->
    GfSum([j \in 1..63 |-> rs_gf_mul[r[j]][Alpha(i * (j - 1))]], 63)])

IsCodeword(r) == rs_syndromes(r) = <<0, 0, 0, 0, 0, 0, 0, 0>>

\* Berlekamp-Massey: the coefficients Lambda[1], ..., Lambda[9] of x^0, ..., x^8
\* and the length L.
rs_berlekamp_massey(S) ==
  LET One == <<1, 0, 0, 0, 0, 0, 0, 0, 0>>
      it[n \in 0..8] ==     \* after the loop's turns 0, ..., n - 1
        IF n = 0 THEN [C |-> One, B |-> One, L |-> 0, m |-> 1, b |-> 1]
        ELSE LET p     == it[n - 1]
                 delta == GfXor[S[n]][GfSum([i \in 1..p.L |->
                                       rs_gf_mul[p.C[i + 1]][S[n - i]]], p.L)]
                 scale == rs_gf_mul[delta][rs_gf_inv(p.b)]
                 C     == Eager([i \in 1..9 |->
                             IF i <= p.m THEN p.C[i]
                             ELSE GfXor[p.C[i]][rs_gf_mul[scale][p.B[i - p.m]]]])
             IN  IF delta = 0 THEN [p EXCEPT !.m = @ + 1]
                 ELSE IF 2 * p.L <= n - 1
                 THEN [C |-> C, B |-> p.C, L |-> n - p.L, m |-> 1, b |-> delta]
                 ELSE [p EXCEPT !.C = C, !.m = @ + 1]
  IN  [Lambda |-> it[8].C, L |-> it[8].L]

\* c[1] + c[2] x + ... + c[n] x^(n-1).
Evaluate(c, n, x) ==
  Iterate(LAMBDA acc, k : GfXor[rs_gf_mul[acc][x]][c[n + 1 - k]], 0, n)

\* Positions j with Lambda(alpha^-j) = 0.
rs_chien_search(Lambda, L) ==
  {j \in 0..62 : Evaluate(Lambda, L + 1, Alpha(63 - j)) = 0}

\* The error at position j: Omega(1/X) / Lambda'(1/X).
rs_forney(S, Lambda, L, j) ==
  LET Xinv  == Alpha(63 - j)
      Omega == Eager([i \in 1..8 |->
                  LET top == Least(L + 1, i)
                  IN  GfSum([k \in 1..top |-> rs_gf_mul[Lambda[k]][S[i - k + 1]]], top)])
      slope == Eager([i \in 1..L |-> IF i % 2 = 1 THEN Lambda[i + 1] ELSE 0])
  IN  rs_gf_mul[Evaluate(Omega, 8, Xinv)][rs_gf_inv(Evaluate(slope, L, Xinv))]

\* One block of 378 bits: taken as it is, or corrected where the locator has as
\* many roots as its degree, at most four, and what results is a codeword.
Corrected(r, S, Lambda, L, roots) ==
  Eager([i \in 1..63 |-> IF i - 1 \in roots
                         THEN GfXor[r[i]][rs_forney(S, Lambda, L, i - 1)] ELSE r[i]])
AsCodeword(r) ==
  IF IsCodeword(r) THEN [ok |-> TRUE, data |-> rs_syms_to_bits(r, 55)]
  ELSE [ok |-> FALSE, data |-> <<>>]
Repair(r, S, bm, roots) ==
  IF bm.L \in 1..4 /\ Cardinality(roots) = bm.L
    THEN AsCodeword(Corrected(r, S, bm.Lambda, bm.L, roots))
    ELSE [ok |-> FALSE, data |-> <<>>]
Correct(r, S, bm) == Repair(r, S, bm, rs_chien_search(bm.Lambda, bm.L))
rs_decode_symbols(r, S) ==
  IF \A i \in 1..8 : S[i] = 0 THEN [ok |-> TRUE, data |-> rs_syms_to_bits(r, 55)]
  ELSE Correct(r, S, rs_berlekamp_massey(S))
DecodeReceived(r) == rs_decode_symbols(r, rs_syndromes(r))
rs_decode_block(bits) == DecodeReceived(rs_bits_to_syms(bits))

Zeros(n) == Eager([i \in 1..n |-> 0])

\* The blocks of a PSDU of data_bits bits; the last one may be short, and is
\* filled up with leading zeros.
NumBlocks(data_bits) == (data_bits + 329) \div 330
DataInBlock(data_bits, b) == Least(330, data_bits - 330 * (b - 1))

\* Block b: whether the input holds it, its 378 bits, and p followed by its data.
HoldsBlock(coded, data_bits, b) == 378 * (b - 1) + DataInBlock(data_bits, b) + 48 <= Len(coded)
BlockBits(coded, data_bits, b) ==
  Zeros(330 - DataInBlock(data_bits, b))
    \o SubSeq(coded, 378 * (b - 1) + 1, 378 * (b - 1) + DataInBlock(data_bits, b) + 48)
Extend(p, r, from) ==
  IF r.ok THEN [ok |-> TRUE, data |-> p.data \o SubSeq(r.data, from, 330)] ELSE r

rs_decode_stream(coded, data_bits) ==
  LET out[b \in 0..NumBlocks(data_bits)] ==
        IF b = 0 THEN [ok |-> TRUE, data |-> <<>>]
        ELSE IF ~out[b - 1].ok \/ ~HoldsBlock(coded, data_bits, b) THEN [ok |-> FALSE, data |-> <<>>]
        ELSE Extend(out[b - 1], rs_decode_block(BlockBits(coded, data_bits, b)),
                    331 - DataInBlock(data_bits, b))
  IN  out[NumBlocks(data_bits)]
=============================================================================
