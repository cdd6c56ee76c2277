----------------------------- MODULE SyncStages -----------------------------
(***************************************************************************)
(* Stages 1 to 5 of uwb_demod_core.h: where in its buffer a frame begins.   *)
(*                                                                         *)
(* Positions are samples, with the code's own constants.  The received      *)
(* signal is reduced to what the matched filters respond to: rx is a record *)
(*   start    position of the first SYNC (negative: cut off by the window)  *)
(*   reps     SYNC repetitions sent                                         *)
(*   sfd      the SFD sequence, over {-1, 0, 1}                             *)
(*   n        length of the buffer                                          *)
(*   lead     weak SYNCs at the start, and leadMetric, their metric         *)
(*   coarse   the symbol that the strided coarse scan favours, or -1        *)
(*   biasHurts  whether a CFO fitted over SFD symbols hides the SFD         *)
(* A SYNC that is not weak has metric 800; metrics are per mille.  The      *)
(* sampling clocks agree, so the peaks lie on the grid of kQm35SamplesPer-  *)
(* Symbol samples.                                                          *)
(***************************************************************************)
EXTENDS Integers, Sequences, FiniteSets

CONSTANTS
  kQm35SamplesPerSymbol, kQm35ChipsPerSymbol,
  TailFloor          \* the constant 40 of demodulate_one

SyncMax(a, b) == IF a >= b THEN a ELSE b
SyncMin(a, b) == IF a <= b THEN a ELSE b
T == kQm35SamplesPerSymbol
SqrOf(i) == i * i

\* The largest of a non-empty set of integers, and the smallest.
Largest(S)  == CHOOSE a \in S : \A b \in S : b <= a
Smallest(S) == CHOOSE a \in S : \A b \in S : a <= b

-----------------------------------------------------------------------------
(* What the signal answers.  Symbol d begins at Place(rx, d); symbols 0 to  *)
(* reps-1 are SYNCs, the next Len(sfd) are the SFD.                         *)

Place(rx, d) == rx.start + d * T
SfdTrue(rx)  == Place(rx, rx.reps)

\* The sign with which symbol d matches one SYNC; 0 where it does not.
Sign(rx, d) ==
  IF d \in 0..rx.reps - 1
    THEN IF d < rx.lead /\ rx.leadMetric = 0 THEN 0 ELSE 1
    ELSE IF d \in rx.reps..rx.reps + Len(rx.sfd) - 1 THEN rx.sfd[d - rx.reps + 1] ELSE 0

\* The normalised metric of the SYNC template at symbol d.
Metric(rx, d) ==
  IF Sign(rx, d) = 0 THEN 0 ELSE IF d \in 0..rx.lead - 1 THEN rx.leadMetric ELSE 800

\* The first symbol at or after a place.
FirstFrom(rx, place) == (place - rx.start + T - 1) \div T

Symbols(rx) == 0..rx.reps + Len(rx.sfd) - 1

\* local_best: the SYNC start with the best metric in [want-radius, want+radius),
\* as far as the buffer goes; {} when none reaches the threshold.
local_best(rx, want, radius, threshold) ==
  LET w0  == SyncMax(0, want - radius)
      w1  == SyncMin(rx.n - T, want + radius)
      hit == {d \in FirstFrom(rx, w0)..FirstFrom(rx, w1) - 1 :
                d \in Symbols(rx) /\ Metric(rx, d) >= threshold}
      top == {d \in hit : \A e \in hit : Metric(rx, e) <= Metric(rx, d)}
  IN  IF top = {} THEN {} ELSE {Smallest(top)}

-----------------------------------------------------------------------------
(* Stage 1.                                                                *)

NoTiming == [ok |-> FALSE, start |-> -1, peaks |-> <<>>]

\* The first SYNC: near the seed at full rate; failing that, the strongest of
\* the coarse scan's favourite and of the probes on the SYNC grid.  The fine search
\* ends before the buffer's last place: a favourite there is taken as it is.
CoarseHit(rx, p, seed) ==
  LET lo == SyncMax(0, seed - p.margin)
      hi == SyncMin(rx.n - T, seed + p.margin)
      fine == local_best(rx, Place(rx, rx.coarse), p.stride, p.threshold)
  IN  IF ~(lo < hi /\ rx.coarse \in Symbols(rx) /\ Place(rx, rx.coarse) \in lo..hi) THEN {}
      ELSE IF fine = {} /\ Metric(rx, rx.coarse) >= p.threshold THEN {rx.coarse} ELSE fine
GridHits(rx, p, seed) ==
  UNION {local_best(rx, seed + k * T, 8, p.threshold) :
          k \in -(p.margin \div T)..p.margin \div T}
Strongest(rx, coarse, grid) ==
  LET best == {d \in coarse \cup grid :
                 \A e \in coarse \cup grid : Metric(rx, e) <= Metric(rx, d)}
  IN  IF coarse \cap best # {} THEN coarse
      ELSE {d \in best : \A e \in best : d <= e}
Acquire(rx, p, seed) ==
  LET Near(near) == IF near # {} THEN near
                    ELSE Strongest(rx, CoarseHit(rx, p, seed), GridHits(rx, p, seed))
  IN  Near(local_best(rx, seed, 256, p.threshold))

\* Walk back on the grid with 0.7 of the threshold, at most p.backtrack symbols:
\* the symbol reached from d.
Backtrack(rx, p, d) ==
  LET gone == {b \in 0..p.backtrack :
                 \A i \in 1..b : local_best(rx, Place(rx, d - i), 8,
                                            (7 * p.threshold) \div 10) # {}}
  IN  d - Largest(gone)

\* The train of SYNCs from symbol d on: it ends at the first one lost.  The
\* first as many symbols as were walked back keep the relaxed threshold.
Track(rx, p, d, back) ==
  LET threshold(k) == IF k < back THEN (7 * p.threshold) \div 10 ELSE p.threshold
      found == {m \in 1..p.reps :
                  \A k \in 1..m - 1 : local_best(rx, Place(rx, d + k), p.radius,
                                                 threshold(k)) # {}}
  IN  Largest(found)

\* stage_timing with the profile p; a negative seed means the middle of the
\* buffer.  The fitted period is T, the peaks being on the grid, and the fitted
\* start is cut off at 0.
Train(rx, b, m) ==
  [ok |-> TRUE, start |-> SyncMax(0, Place(rx, b)),
   peaks |-> [k \in 1..m |-> Place(rx, b + k - 1)]]
stage_timing(rx, p, seed_start) ==
  LET From(d, b)  == Train(rx, b, Track(rx, p, b, d - b))
      Found(d)    == From(d, Backtrack(rx, p, d))
      Taken(hits) == IF hits = {} THEN NoTiming ELSE Found(Smallest(hits))
  IN  IF rx.n < T THEN NoTiming
      ELSE Taken(Acquire(rx, p, IF seed_start >= 0 THEN seed_start ELSE rx.n \div 2))

-----------------------------------------------------------------------------
(* Stage 2.  What matters of the fit is the peaks it is made over: one that *)
(* is an SFD symbol of the other sign turns the fit.                        *)

SymbolAt(rx, place) == (place - rx.start) \div T

stage_cfo(rx, p, peaks) ==
  LET np   == Len(peaks)
      skip == SyncMin(p.cfoSkip, SyncMax(0, np - SyncMax(2, p.cfoMin)))
  IN  IF np < 4 THEN [ok |-> FALSE, biased |-> FALSE]
      ELSE [ok |-> TRUE,
            biased |-> \E i, j \in skip + 1..np :
                         Sign(rx, SymbolAt(rx, peaks[i])) # Sign(rx, SymbolAt(rx, peaks[j]))]

-----------------------------------------------------------------------------
(* Stage 3.                                                                *)

\* The squared SFD correlation at symbol d, over the energies: it is compared
\* with threshold/1000 by cross multiplication.
SfdCorrelation(rx, d) ==
  LET term[i \in 0..Len(rx.sfd)] ==
        IF i = 0 THEN 0 ELSE term[i - 1] + rx.sfd[i] * Sign(rx, d + i - 1)
  IN  term[Len(rx.sfd)]
SfdEnergy(rx) == Cardinality({i \in DOMAIN rx.sfd : rx.sfd[i] # 0})
WindowPower(rx, d) ==       \* only a zero of the SFD itself has no power
  SyncMax(1, Len(rx.sfd) - Cardinality({i \in DOMAIN rx.sfd :
    d + i - 1 \in rx.reps..rx.reps + Len(rx.sfd) - 1 /\ Sign(rx, d + i - 1) = 0}))
SfdPasses(rx, threshold, d) ==
  1000 * SqrOf(SfdCorrelation(rx, d)) >= threshold * SfdEnergy(rx) * WindowPower(rx, d)

\* scan_window: the symbols on which an SFD is found within 64 samples.
scan_window(rx, p, center) ==
  LET lo == SyncMax(0, center - 64)
      hi == SyncMin(rx.n - Len(rx.sfd) * T, center + 64)
      d  == FirstFrom(rx, lo)
  IN  IF center < 0 \/ rx.n < Len(rx.sfd) * T \/ hi < lo \/ Place(rx, d) > hi
           \/ ~SfdPasses(rx, p.sfdThreshold, d)
        THEN {} ELSE {d}

\* stage_sfd: the expected place first, then one to four symbols on either side,
\* later before earlier.
FaultNoBacktrackScan == <<0, 1, 2, 3, 4>>
SfdOffsets == <<0, 1, -1, 2, -2, 3, -3, 4, -4>>

stage_sfd(rx, p, start, biased) ==
  LET expected == start + p.reps * T
      found(k) == scan_window(rx, p, expected + SfdOffsets[k] * T)
      Taken(hits) ==
        IF hits = {} \/ (biased /\ rx.biasHurts)
          THEN [ok |-> FALSE, expected |-> expected, start |-> -1]
          ELSE [ok |-> TRUE, expected |-> expected,
                start |-> Place(rx, Smallest(found(Smallest(hits))))]
  IN  Taken({k \in DOMAIN SfdOffsets : found(k) # {}})

-----------------------------------------------------------------------------
(* Between the SFD searches demodulate_one tracks the last SYNCs before the *)
(* SFD again, with a tighter profile, and rebuilds the grid of all of them. *)

TailRepetitions(p) == SyncMin(p.reps, SyncMax(p.cfoMin, TailFloor))

cfo_anchor_profile(p) ==
  [p EXCEPT !.reps = TailRepetitions(p), !.margin = 0, !.stride = 1,
            !.backtrack = 0, !.radius = 8, !.threshold = 200]

\* The peaks of the rebuilt grid: generated ones, then the tracked tail.
RebuiltPeaks(p, sfd_start, tail) ==
  [k \in 1..p.reps |-> IF k > p.reps - TailRepetitions(p)
                       THEN tail[k - (p.reps - TailRepetitions(p))]
                       ELSE sfd_start - (p.reps - k + 1) * T]

-----------------------------------------------------------------------------
(* Stages 4 and 5, in chips of two samples.                                *)

\* The SYNC windows the CIR is averaged over: those that no end of the buffer
\* cuts off.
CirWindows(rx, p, start, detected) ==
  {k \in p.cirSkip..SyncMin(SyncMin(detected, p.reps), p.cirSkip + p.cirReps) - 1 :
     /\ start + k * T - p.cirPre >= 0
     /\ start + k * T - p.cirPre + T + p.cirPre + p.cirPost - 1 <= rx.n}

\* How many chips are filtered.  The budget of chips is longer than any frame,
\* so the buffer's end is what counts; each chip gets its value, from the filter
\* for the edge, for a fractional grid, or from one of the fast ones.
ChipCount(rx, p, start) ==
  LET chip_start == start + p.cirPost - 1
  IN  IF rx.n - 1 < chip_start THEN 0 ELSE (rx.n - 1 - chip_start) \div 2 + 1

\* The phase is taken from the last SYNCs, of which no chip may be missing.
PhaseAligned(p, chips) == p.reps * kQm35ChipsPerSymbol <= chips

\* stage_cir_softchips: the number of soft chips, or 0 when it fails.
stage_cir_softchips(rx, p, start, detected) ==
  LET chips == ChipCount(rx, p, start)
  IN  IF start < 0 \/ CirWindows(rx, p, start, detected) = {} \/ ~PhaseAligned(p, chips)
        THEN 0 ELSE chips

\* stage_ns_sfd: the SFD in the soft chips, within 8 chips of its place.  (It is
\* the magnitude that is compared with the threshold here, not its square.)
stage_ns_sfd(rx, p, start, chips) ==
  LET d    == SymbolAt(rx, start) + p.reps
      room == p.reps * kQm35ChipsPerSymbol
                + Len(rx.sfd) * kQm35ChipsPerSymbol - 8 <= chips
  IN  /\ room
      /\ 1000000 * SqrOf(SfdCorrelation(rx, d))
           >= SqrOf(p.sfdThreshold) * SfdEnergy(rx) * WindowPower(rx, d)
=============================================================================
