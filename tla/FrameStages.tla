----------------------------- MODULE FrameStages -----------------------------
(***************************************************************************)
(* Stages 6 and 7 of uwb_demod_core.h: the header (PHR) and the payload of *)
(* a frame.  A frame on the air is a record tx:                            *)
(*   phr     the 19 header bits sent        psdu   the payload's bits      *)
(*   halves  symbols whose position bit the channel turned                 *)
(*   signs   symbols whose polarity bit the channel turned                 *)
(*   flip    -1 when the payload's polarity is opposite to the SFD's       *)
(*   polarity  the sign of the SFD and of the header                        *)
(*   noise   what is decided beyond the frame: the half (0 or 1) that wins *)
(* Symbols are numbered from 1; 21 of them carry the header, and one of    *)
(* the header's is as long as eight of the payload's.                      *)
(***************************************************************************)
EXTENDS HrpCodec

HrpMin(a, b) == IF a <= b THEN a ELSE b
HrpMax(a, b) == IF a >= b THEN a ELSE b

-----------------------------------------------------------------------------
(* The transmitter of IEEE 802.15.4a, which the repository does not hold.   *)

\* The generator of RS(63,55), lowest degree first: (x - a)(x - a^2)...(x - a^8).
RsGenerator ==
  LET g[k \in 0..8] ==
        IF k = 0 THEN <<1>>
        ELSE LET p == g[k - 1]
             IN  Eager([i \in 1..k + 1 |->
                   GfXor[IF i > 1 THEN p[i - 1] ELSE 0]
                        [IF i <= k THEN rs_gf_mul[p[i]][Alpha(k)] ELSE 0]])
  IN  g[8]

\* The 8 parity symbols of 55 data symbols, symbol j being the coefficient of
\* x^(j-1): the unique ones that make the block a codeword, by elimination of
\* the data from the constant term upwards with the reversed generator.
RsParity(data) ==
  LET low == rs_gf_inv(RsGenerator[1])
      r[k \in 0..55] ==        \* 8 pending symbols after data symbols 1..k
        IF k = 0 THEN Zeros(8)
        ELSE LET p == r[k - 1]
                 q == rs_gf_mul[GfXor[data[k]][p[1]]][low]
             IN  Eager([i \in 1..8 |->
                   GfXor[IF i < 8 THEN p[i + 1] ELSE 0]
                        [rs_gf_mul[q][RsGenerator[i + 1]]]])
  IN  r[55]

EncodeBlock(bits) ==           \* at most 330 bits; leading zeros are not sent
  bits \o rs_syms_to_bits(
            RsParity(SubSeq(rs_bits_to_syms(Zeros(330 - Len(bits)) \o bits \o Zeros(48)),
                            1, 55)), 8)
EncodeStream(bits) ==
  LET code[b \in 0..NumBlocks(Len(bits))] ==
        IF b = 0 THEN <<>>
        ELSE code[b - 1] \o EncodeBlock(SubSeq(bits, 330 * (b - 1) + 1,
                                               330 * (b - 1) + DataInBlock(Len(bits), b)))
  IN  code[NumBlocks(Len(bits))]

\* The symbols of a frame that carries the bits: the two tail bits end the
\* convolutional code.
Convolved(u) ==
  LET past(s) == IF s > 0 THEN u[s] ELSE 0
  IN  Eager([s \in 1..Len(u) |-> <<past(s - 1), Xor2(u[s], past(s - 2))>>])
Sent(tx) == Convolved(tx.phr \o EncodeStream(tx.psdu) \o <<0, 0>>)

\* What symbol s correlates to.  A damaged symbol is weak; the hop position
\* alternates.
Correlations(tx, sent, s) ==
  LET half == IF s \in tx.halves THEN Flip(sent[s][1]) ELSE sent[s][1]
      neg  == IF s \in tx.signs THEN Flip(sent[s][2]) ELSE sent[s][2]
      amp  == (IF s \in tx.halves \cup tx.signs THEN 3 ELSE 10)
                * (IF neg = 1 THEN -1 ELSE 1) * tx.polarity * (IF s > 21 THEN tx.flip ELSE 1)
      burst == IF s % 2 = 0 THEN <<amp, 1>> ELSE <<-1, amp>>
  IN  IF half = 0 THEN <<burst, <<1, -1>>>> ELSE <<<<-1, 1>>, burst>>

Silence(noise) == IF noise = 0 THEN <<<<1, 0>>, <<0, 0>>>> ELSE <<<<0, 0>>, <<0, -1>>>>

\* What the two stages read: the frame's symbols, what follows them, and how
\* much of the buffer follows the SFD.
Received(tx, room) ==
  LET sent == Sent(tx)
  IN  [symbols |-> Eager([s \in 1..Len(sent) |-> Correlations(tx, sent, s)]),
       after |-> Silence(tx.noise), frame |-> 8 * 21 + Len(sent) - 21, room |-> room]

\* The same when the stages look somewhere else.
Unrelated(tx, room) ==
  [symbols |-> <<>>, after |-> Silence(tx.noise), frame |-> 0, room |-> room]

MetricsAt(heard, s) == IF s <= Len(heard.symbols) THEN heard.symbols[s] ELSE heard.after

-----------------------------------------------------------------------------
(* Stage 6.  Lengths on the air are in payload symbols of 64 chips.        *)

PayloadSymbols(psdu_length) == 8 * psdu_length + 48 * NumBlocks(8 * psdu_length)
chips_needed(psdu_length) == 8 * 21 + PayloadSymbols(psdu_length)

\* Bits 3 to 9, most significant first.
length_of(bits) ==
  64 * bits[3] + 32 * bits[4] + 16 * bits[5] + 8 * bits[6] + 4 * bits[7]
    + 2 * bits[8] + bits[9]

kAddresses == <<3, 5, 6, 7, 9, 10, 11, 12, 13, 14, 15, 17, 18>>

\* The part of symbols from + 1, ..., to that the frame fills, per mille: the
\* mean energy, relative to the frame's own.
Filled(heard, from, to) ==
  (1000 * HrpMax(0, HrpMin(to, heard.frame) - from)) \div (to - from)

\* The corrected word's longer length is given up when it would end in silence.
NoiseTail(heard, u, c) ==
  /\ chips_needed(c) > chips_needed(u) + 1
  /\ chips_needed(c) <= heard.room /\ chips_needed(u) < heard.room
  /\ 100 * Filled(heard, chips_needed(u), chips_needed(c))
       < 15 * Filled(heard, 0, chips_needed(u))

\* The correction of a decoded header word: the syndrome's last five bits, the
\* first of them the lowest, select the bit to flip; the first bit of the
\* syndrome says whether one error can explain it.
Syndrome(word) ==
  LET Against(again) == Eager([i \in 1..6 |-> Xor2(word[13 + i], again[13 + i])])
  IN  Against(hrp_secded(SubSeq(word, 1, 13)))
SyndromeIndex(synd) ==
  synd[2] + 2 * synd[3] + 4 * synd[4] + 8 * synd[5] + 16 * synd[6]
secded(heard, word) ==
  LET Guarded(again, flipped, synd, changed) ==
        LET keep == /\ changed /\ length_of(flipped) > length_of(again)
                    /\ NoiseTail(heard, length_of(again), length_of(flipped))
        IN  [bits |-> IF keep THEN again ELSE flipped, corrected |-> changed /\ ~keep,
             uncorrectable |-> SyndromeIndex(synd) > 0 /\ synd[1] = 0]
      FlipHit(again, synd, hit) ==
        Guarded(again, Eager([k \in 1..19 |-> IF k \in hit THEN Flip(again[k]) ELSE again[k]]),
                synd, hit # {})
      Look(again, synd) ==
        FlipHit(again, synd, {k \in 1..13 : kAddresses[k] = SyndromeIndex(synd)})
  IN  Look(hrp_secded(SubSeq(word, 1, 13)), Syndrome(word))

Hard(heard, pol, s) ==
  LET d == bprf_demod_soft(MetricsAt(heard, s), pol) IN <<d.g0, d.g1>>
Soft(heard, pol, s) ==
  LET d == bprf_demod_soft(MetricsAt(heard, s), pol) IN <<d.llr0, d.llr1>>

NoPhr == [ok |-> FALSE, word |-> <<>>, bits |-> <<>>, corrected |-> FALSE,
          uncorrectable |-> FALSE, psdu_length |-> 0]

stage_phr(heard, pol) ==
  LET Checked(word, c) ==
        [ok |-> TRUE, word |-> word, bits |-> c.bits, corrected |-> c.corrected,
         uncorrectable |-> c.uncorrectable, psdu_length |-> length_of(c.bits)]
      Word(word) == Checked(word, secded(heard, word))
  IN  IF heard.room < 8 * 21 THEN NoPhr
      ELSE Word(SubSeq(vitdec_cl3(Eager([s \in 1..21 |-> Hard(heard, pol, s)]), 21), 1, 19))

-----------------------------------------------------------------------------
(* Stage 7.                                                                *)

NoPayload == [ok |-> FALSE, bits |-> <<>>, fcs_pass |-> FALSE]

\* The payload's bits, and whether the last 16 of them are the CRC of the rest
\* (bytes and the FCS come least significant bit first).
WithFcs(bits) ==
  LET n   == Len(bits) - 16
      fcs == crc16_802154(SubSeq(bits, 1, n))
  IN  [ok |-> TRUE, bits |-> bits,
       fcs_pass |-> n >= 0 /\ \A i \in 1..16 : bits[n + i] = BitOf(fcs, i - 1)]

\* The RS word of a payload of psdu_length bytes: header and payload go through
\* the Viterbi decoder together, and the header and the tail are cut off.
Joint(psdu_length) == 21 + PayloadSymbols(psdu_length)
HardWord(heard, pol, psdu_length) ==
  SubSeq(vitdec_cl3(Eager([s \in 1..Joint(psdu_length) |-> Hard(heard, pol, s)]),
                    Joint(psdu_length)), 20, Joint(psdu_length) - 2)
SoftWord(heard, pol, psdu_length) ==
  SubSeq(vitdec_cl3_soft(Eager([s \in 1..Joint(psdu_length) |-> Soft(heard, pol, s)]),
                         Joint(psdu_length)), 20, Joint(psdu_length) - 2)

Decoded(heard, psdu_length, word) ==
  LET Read(r) == IF r.ok THEN WithFcs(r.data) ELSE NoPayload
  IN  IF chips_needed(psdu_length) > heard.room THEN NoPayload
      ELSE Read(rs_decode_stream(word, 8 * psdu_length))

\* The fixed path: hard decisions at the length that the header reports.
FixedPath(heard, pol, psdu_length) ==
  Decoded(heard, psdu_length, HardWord(heard, pol, psdu_length))

\* The fallbacks, in order: lengths around the reported one, and for each the
\* SFD's polarity before the other one.
CandidateLengths(psdu_length, max_psdu_bytes) ==
  LET near == <<psdu_length>> \o (IF psdu_length > 2 THEN <<psdu_length - 1>> ELSE <<>>)
                \o <<psdu_length + 1>>
                \o (IF psdu_length > 3 THEN <<psdu_length - 2>> ELSE <<>>)
                \o <<psdu_length + 2>>
  IN  SelectSeq(near, LAMBDA m : m > 0 /\ m <= max_psdu_bytes)

FaultOnePolarity(pol, psdu_length, max_psdu_bytes) ==
  LET lens == CandidateLengths(psdu_length, max_psdu_bytes)
  IN  [k \in 1..Len(lens) |-> <<lens[k], pol>>]
Candidates(pol, psdu_length, max_psdu_bytes) ==
  LET lens == CandidateLengths(psdu_length, max_psdu_bytes)
  IN  [k \in 1..2 * Len(lens) |-> <<lens[(k + 1) \div 2], IF k % 2 = 1 THEN pol ELSE -pol>>]

Fallback(heard, candidate) ==
  Decoded(heard, candidate[1], SoftWord(heard, candidate[2], candidate[1]))

\* A candidate replaces what is there if nothing is there, or if its FCS holds.
FaultKeepLast(payload, cand) == IF cand.ok THEN cand ELSE payload
Keep(payload, cand) ==
  IF cand.ok /\ (~payload.ok \/ cand.fcs_pass) THEN cand ELSE payload
=============================================================================
