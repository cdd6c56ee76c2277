----------------------------- MODULE MCDemodCore -----------------------------
(* Messages for the demodulator: the default profile with a shorter limit on *)
(* the payload, frames that exercise one stage at a time, windows cut by the *)
(* extractors at either rate, and messages that hold no window.              *)
EXTENDS DemodMessages

ASSUME MCConstants == kQm35SamplesPerSymbol = 1016 /\ kQm35ChipsPerSymbol = 508

\* Qm35825Profile::Default.
Default ==
  [reps |-> 64, threshold |-> 250, margin |-> 40960, stride |-> 14, backtrack |-> 40,
   radius |-> 8, cfoSkip |-> 24, cfoMin |-> 32, sfdThreshold |-> 300, cirSkip |-> 10,
   cirReps |-> 54, cirPre |-> 8, cirPost |-> 30, max_psdu_bytes |-> 12]
kSfd4z2 == <<-1, -1, -1, 1, -1, -1, 1, -1>>

Byte(v) == [i \in 1..8 |-> BitOf(v, i - 1)]
WithCrc(bits) == LET c == crc16_802154(bits)
                 IN  Eager(bits \o [i \in 1..16 |-> BitOf(c, i - 1)])
Header(len) ==
  hrp_secded(Eager([i \in 1..13 |-> IF i \in 3..9 THEN BitOf(len, 9 - i)
                                    ELSE IF i = 1 THEN 1 ELSE 0]))

Frame(psdu) ==
  [phr |-> Header(Len(psdu) \div 8), psdu |-> psdu, halves |-> {}, signs |-> {},
   polarity |-> 1, flip |-> 1, noise |-> 0]
Three == Frame(WithCrc(Byte(37)))
Four  == Frame(WithCrc(Eager(Byte(37) \o Byte(201))))

Signal(start) ==
  [start |-> start, reps |-> 64, sfd |-> kSfd4z2, n |-> start + 73 * 1016 + 128 * 300,
   lead |-> 0, leadMetric |-> 0, coarse |-> -1, biasHurts |-> FALSE]
Window(sig, tx) ==
  [sig |-> sig, tx |-> tx, profile |-> Default, window_start |-> 5000000,
   predicted_start |-> 5000000 + sig.start]

\* Where the frame lies, what of it is weak, and where the seed points.
SyncCases ==
  {[Window([Signal(start) EXCEPT !.lead = lead, !.leadMetric = m, !.coarse = coarse,
                                 !.biasHurts = hurts], tx)
     EXCEPT !.window_start = base,
            !.predicted_start = IF seed = -1 THEN -1 ELSE base + start + seed * 1016 + 100] :
    tx \in {Three}, start \in {9000}, lead \in {0, 2, 4, 6}, m \in {0, 200}, coarse \in {-1, 3, 66},
    hurts \in BOOLEAN, base \in {5000000}, seed \in {-1, 0, 3, 24, 50, 67}}

\* Frames cut off at either end.
CutCases ==
  {Window([Signal(start) EXCEPT !.n = length], tx) :
    tx \in {Three}, start \in {-30000, -9000, -1016, 0, 4, 500},
    length \in {20000, 60000, 73 * 1016, 74 * 1016 + 128 * 168, 75 * 1016 + 128 * 200,
           75 * 1016 + 128 * 300}}
  \cup {[Window([Signal(0) EXCEPT !.n = (d + 1) * 1016, !.coarse = d], tx)
           EXCEPT !.predicted_start = 5000000 + 40 * 1016 + 500] :
           tx \in {Three}, d \in {30, 63, 71}}

\* One wrong bit in the header, in frames of either polarity, with a window that
\* ends early or late.
WrongBit(tx, i) == [tx EXCEPT !.signs = @ \cup {i}, !.halves = @ \cup {i + 1}]
HeaderCases ==
  {Window([Signal(500) EXCEPT !.n = @ + room.more],
          [WrongBit(room.tx, i) EXCEPT !.polarity = pol, !.noise = i % 2]) :
    i \in 1..19, pol \in {1, -1},
    room \in {[tx |-> Three, more |-> 128 * 1300], [tx |-> Four, more |-> 0]}}

\* Wrong symbols in the payload, from one up to one more than RS corrects.
WrongSymbols(tx, S) ==
  [tx EXCEPT !.signs = @ \cup {19 + q : q \in S}, !.halves = @ \cup {20 + q : q \in S}]
PayloadCases ==
  {Window(Signal(500), [WrongSymbols(tx, S) EXCEPT !.flip = flip]) :
    tx \in {Three, Four, Frame(Eager(Byte(37) \o Byte(201) \o Byte(90))),
            Frame(Eager(Byte(1) \o Byte(2) \o Byte(7) \o Byte(77)))},
    S \in {{}, {7}, {7, 19}, {7, 19, 31}, {7, 19, 31, 43}, {7, 19, 31, 43, 55}},
    flip \in {1, -1}}


---------------------------------------------------------------------------
MCLabelled == [code_index |-> 9, sfd_mode |-> "4z2"]
MCIdentity == [code_index |-> 9, reps |-> 64, sfd_mode |-> "4z2"]

\* A window as an extractor at the decoder's rate sends it.
AsMessage(w) ==
  [shape |-> "pair", format |-> "c32", odd |-> FALSE,
   body |-> [sig |-> w.sig, tx |-> w.tx, profile |-> w.profile,
             native |-> w.window_start + w.sig.start, rate |-> HostRate],
   meta |-> [packet_id |-> 7, schedule_index |-> 3, window_start_sample |-> w.window_start,
             predicted_start_sample |-> w.predicted_start, sample_rate |-> HostRate,
             acquisition_epoch |-> 1, schedule_generation |-> 2]]

\* ... and as it comes through the PDU resampler: the labels are mapped to the
\* output rate, and in the samples the frame lies where the filter puts it.
MapOut(p) == (2 * (p * 65 + FilterDelay) + 48) \div 96
AsResampled(tx, ws, offset, seed, lead, coarse) ==
  LET sig == [Signal(MapOut(offset)) EXCEPT !.lead = lead, !.coarse = coarse]
  IN  [shape |-> "pair", format |-> "c32", odd |-> FALSE,
       body |-> [sig |-> sig, tx |-> tx, profile |-> Default,
                 native |-> ws + offset, rate |-> NativeRate],
       meta |-> [packet_id |-> 8, schedule_index |-> 4,
                 window_start_sample |-> MapOut(ws),
                 predicted_start_sample |-> MapOut(ws + offset + seed),
                 sample_rate |-> HostRate, input_sample_rate |-> NativeRate,
                 resample_filter_delay |-> FilterDelay, acquisition_epoch |-> 1]]
ResampledMessages ==
  {AsResampled(tx, ws, offset, seed, lead, coarse) :
     tx \in {Three}, ws \in {0, 700001}, offset \in {6640, 6647}, seed \in {0, 70, 2300},
     lead \in {0, 2}, coarse \in {-1, 3}}

\* No pair, no samples, half a sample; and a bare vector, without labels.
Sample == AsMessage(Window(Signal(500), Three))
NoPair == [shape |-> "other", format |-> "c32", odd |-> FALSE, body |-> None, meta |-> None]
BadMessages ==
  {NoPair, [Sample EXCEPT !.format = "other"],
   [Sample EXCEPT !.format = "s16", !.odd = TRUE], [Sample EXCEPT !.body.sig.n = 0]}
BareVector ==
  [Sample EXCEPT !.shape = "vector", !.format = "s16", !.body.native = 500]

HeaderMessages == {AsMessage(w) : w \in HeaderCases}
MCMessages ==
  {AsMessage(w) : w \in SyncCases \cup CutCases \cup HeaderCases \cup PayloadCases}
    \cup ResampledMessages \cup BadMessages \cup {BareVector}
=============================================================================
