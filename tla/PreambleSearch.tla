--------------------------- MODULE PreambleSearch ---------------------------
(***************************************************************************)
(* How the detectors look for a preamble: the normalized correlation and   *)
(* the scans of uwb_detector_core.h, and the search that publish_packet    *)
(* (CF32) and UwbPreambleVerifierSc16 (SC16) make with them in a region.   *)
(*                                                                         *)
(* A sample is an integer on the real axis.  A metric is a whole number of *)
(* ten-thousandths, a score (its square root) of hundredths; rounding in   *)
(* floating point and in the Q15 template is left out.  Positions count    *)
(* from 0, as in the code.                                                 *)
(***************************************************************************)
EXTENDS Integers, SequencesExt, FiniteSetsExt

CONSTANTS
  Template,            \* known_preamble, one SYNC symbol
  CoarseDecimation, CoarseRepetitions, CoarseMargin,
  PeakRel, ExistFrac,  \* coarse_peak_rel, coarse_exist_frac: hundredths
  FineThreshold, BacktrackThreshold,     \* ten-thousandths
  BacktrackRadius, MaxBacktrackSymbols,
  PreambleSymbols      \* kUwbSyncSymbols + kUwbSfdSymbols + margin_syms

ASSUME SearchAssumption ==
  /\ Template \in Seq(Int) /\ Template # <<>>
  /\ {CoarseDecimation, CoarseRepetitions} \subseteq Nat \ {0}
  /\ CoarseDecimation <= Len(Template)
  /\ {CoarseMargin, BacktrackRadius, MaxBacktrackSymbols, PreambleSymbols} \subseteq Nat
  /\ {PeakRel, ExistFrac} \subseteq 0..100
  /\ {FineThreshold, BacktrackThreshold} \subseteq 0..10000

template_len == Len(Template)

Lesser(a, b) == IF a < b THEN a ELSE b
Greater(a, b) == IF a > b THEN a ELSE b
\* a - b in size_t where the code guards it with a > b.
Less(a, b) == IF a > b THEN a - b ELSE 0

\* The sample at position j, and every D-th sample of [from, to).
At(in, j) == in[j + 1]
Decimated(in, from, to, step) ==
  [j \in 1..((to - from) \div step) |-> At(in, from + (j - 1) * step)]

-----------------------------------------------------------------------------
(* The normalized correlation.                                             *)

\* The sum of s[k] * t[k].
Product(s, t) ==
  LET upTo[k \in 0..Len(s)] == IF k = 0 THEN 0 ELSE upTo[k - 1] + s[k] * t[k]
  IN upTo[Len(s)]
Energy(s) == Product(s, s)

\* metric = |corr|^2 / (winpow * template_energy), 0 in silence.
Normalized(corr, energy) == IF energy = 0 THEN 0 ELSE (10000 * corr * corr) \div energy
Root(m) == CHOOSE r \in 0..100 : r * r <= m /\ m < (r + 1) * (r + 1)

TemplateEnergy == Energy(Template)

\* The L samples from position j on.
Window(in, j, n) == SubSeq(in, j + 1, j + n)
MetricOf(window) ==
  Normalized(Product(window, Template), Energy(window) * TemplateEnergy)
MetricAt(in, j) == MetricOf(Window(in, j, template_len))

\* The first of the largest entries of a sequence, as a position.
FirstMax(s) == (CHOOSE i \in DOMAIN s : \A k \in DOMAIN s : s[k] < s[i] \/ (s[k] = s[i] /\ i <= k)) - 1

NoPeak == [found |-> FALSE, start |-> 0, metric |-> 0]
PeakOf(metric, from) ==
  [found |-> TRUE, start |-> from + FirstMax(metric), metric |-> metric[FirstMax(metric) + 1]]
\* The best alignment in j0..j1.
uwb_full_rate_peak(in, j0, j1) ==
  IF Len(in) < template_len \/ j0 > j1 \/ j1 > Len(in) - template_len THEN NoPeak
  ELSE PeakOf([k \in 1..(j1 - j0 + 1) |-> MetricAt(in, j0 + k - 1)], j0)

-----------------------------------------------------------------------------
(* Where there is energy: ranges [first, last) as pairs.                   *)

\* out[j] is the energy of the window samples from j on, n values.
uwb_window_energy(in, n, window) ==
  [j \in 1..n |-> Energy(Window(in, j - 1, window))]

\* Runs of TRUE, as pairs <<first, one past the last>>.
Runs(on) ==
  {r \in (0..Len(on)) \X (0..Len(on)) :
     /\ r[1] < r[2] /\ \A i \in (r[1] + 1)..r[2] : on[i]
     /\ r[1] = 0 \/ ~on[r[1]]
     /\ r[2] = Len(on) \/ ~on[r[2] + 1]}
SortedRuns(on) == SetToSortSeq(Runs(on), LAMBDA r, s : r[1] < s[1])

MergeInto(ranges, r) ==
  IF ranges # <<>> /\ r[1] <= Last(ranges)[2]
    THEN Append(Front(ranges), <<Last(ranges)[1], Greater(Last(ranges)[2], r[2])>>)
    ELSE Append(ranges, r)

\* Every run of samples over the threshold (the mean of a window), widened.
uwb_candidate_ranges(energy, window, threshold, margin) ==
  LET Widened(r) == <<Less(r[1], margin), Lesser(r[2] + margin, Len(energy))>>
      on == [j \in DOMAIN energy |-> energy[j] > threshold * window]
  IN FoldLeft(LAMBDA ranges, r : MergeInto(ranges, Widened(r)), <<>>, SortedRuns(on))

\* The mean of the last win of the samples so far, every D-th, over the
\* threshold.
StridedOn(sig, win, threshold) ==
  [k \in DOMAIN sig |->
     LET first == Greater(1, k - win + 1)
     IN Energy(SubSeq(sig, first, k)) > threshold * (k - first + 1)]
uwb_energy_gate_strided(in, n, step, win, threshold, margin) ==
  LET Widened(r) == <<Less(r[1] * step, margin), Lesser(n, r[2] * step + margin)>>
      on == StridedOn(Decimated(in, 0, n, step), win, threshold)
  IN FoldLeft(LAMBDA ranges, r : MergeInto(ranges, Widened(r)), <<>>, SortedRuns(on))

-----------------------------------------------------------------------------
(* The coarse scan of [scan_start, range_end).                             *)

Tmpl_ds == Decimated(Template, 0, template_len, CoarseDecimation)
\* rebuild_decimated_template: a decimated symbol is as long as its template.
sym_ds == Len(Tmpl_ds)

\* Repetitions are accumulated only if the range holds that many symbols.
R_eff(nscore) == IF nscore \div sym_ds >= CoarseRepetitions THEN CoarseRepetitions ELSE 1

CoarseEnergy == Energy(Tmpl_ds)
CoarseMetric(window) == Normalized(Product(window, Tmpl_ds), Energy(window) * CoarseEnergy)
Scores(sig) ==
  [j \in 1..(Len(sig) - sym_ds + 1) |-> Root(CoarseMetric(Window(sig, j - 1, sym_ds)))]
\* The SC16 scan keeps the square when nothing is accumulated.
SquaredScores(sig) ==
  [j \in 1..(Len(sig) - sym_ds + 1) |-> CoarseMetric(Window(sig, j - 1, sym_ds))]

Accumulated(score, reps) ==
  [j \in 1..(Len(score) - (reps - 1) * sym_ds) |->
     MapThenSumSet(LAMBDA r : score[j + r * sym_ds], 0..(reps - 1))]

IsLocalMax(m, j) == m[j] > m[j - 1] /\ m[j] >= m[j + 1]
FarEnough(peaks, j) == peaks = <<>> \/ j - Last(peaks) >= sym_ds \div 2

\* Local maxima over the threshold, half a symbol apart; neither end is one.
Picked(m, threshold) ==
  LET Consider(peaks, j) ==
        IF IsLocalMax(m, j) /\ m[j] > threshold /\ FarEnough(peaks, j)
          THEN Append(peaks, j) ELSE peaks
  IN FoldLeft(Consider, <<>>, [i \in 1..Greater(0, Len(m) - 2) |-> i + 1])

\* With a stride only every S-th score is computed at first; a local maximum
\* among those is refined among its neighbours.
StridedPicked(m, S, threshold) ==
  LET last == Len(m)
      Refined(j) == SubSeq(m, j - S, Lesser(j + S, last))
      Best(j) == IF m[j] = Max(Range(Refined(j))) THEN j ELSE j - S + FirstMax(Refined(j))
      Local(j) == m[j] > threshold /\ m[j] > m[j - S] /\ m[j] >= m[j + S]
      Put(peaks, best) ==
        IF peaks = <<>> \/ best >= Last(peaks) + sym_ds \div 2 THEN Append(peaks, best)
        ELSE Append(Front(peaks), Greater(best, Last(peaks)))
      Consider(peaks, j) == IF Local(j) THEN Put(peaks, Best(j)) ELSE peaks
  IN FoldLeft(Consider, <<>>,
       SelectSeq([i \in 1..last |-> i], LAMBDA j : j > S /\ j + S <= last /\ (j - 1) % S = 0))

\* The scores that are computed.
Visited(m, reps, stride) ==
  IF reps > 1 THEN Range(m)
  ELSE {m[j] : j \in {i \in DOMAIN m : (i - 1) % stride = 0}}

\* `one` is the value of a perfect score.
PeaksOf(m, reps, stride, one, exist, rel) ==
  IF m = <<>> \/ Max(Visited(m, reps, stride)) < exist * reps THEN <<>>
  ELSE IF reps = 1 /\ stride > 1
    THEN StridedPicked(m, stride, (rel * Max(Visited(m, reps, stride))) \div one)
    ELSE Picked(m, (rel * Max(Visited(m, reps, stride))) \div one)

\* Positions in the range's coordinates.
Placed(peaks, scan_start) ==
  [i \in DOMAIN peaks |-> scan_start + (peaks[i] - 1) * CoarseDecimation]

Accumulating(score, stride) ==
  PeaksOf(Accumulated(score, R_eff(Len(score))), R_eff(Len(score)), stride, 100,
          ExistFrac, PeakRel)
Squared(score, stride) ==
  PeaksOf(score, 1, stride, 10000, ExistFrac * ExistFrac, PeakRel * PeakRel)

CoarseOf(sig, scan_start, stride) ==
  IF Len(sig) < sym_ds THEN <<>> ELSE Placed(Accumulating(Scores(sig), stride), scan_start)
uwb_coarse_peaks(in, scan_start, range_end, stride) ==
  CoarseOf(Decimated(in, scan_start, range_end, CoarseDecimation), scan_start, stride)

CoarseOfSc16(sig, scan_start, stride) ==
  IF Len(sig) < sym_ds THEN <<>>
  ELSE IF R_eff(Len(sig) - sym_ds + 1) > 1
    THEN Placed(Accumulating(Scores(sig), stride), scan_start)
    ELSE Placed(Squared(SquaredScores(sig), stride), scan_start)
uwb_coarse_peaks_sc16(in, scan_start, range_end, stride) ==
  IF range_end <= scan_start THEN <<>>
  ELSE CoarseOfSc16(Decimated(in, scan_start, range_end, CoarseDecimation), scan_start,
                    stride)

-----------------------------------------------------------------------------
(* The search in a region whose gate opened at candidate_offset.           *)

preamble_span == template_len * PreambleSymbols
coarse_scan_end(n, candidate_offset) == Lesser(n, candidate_offset + preamble_span)

half(stride) == stride * CoarseDecimation + CoarseMargin

\* The fine scan around a coarse peak, and around the symbol before `start`.
FineAround(in, p, radius) ==
  IF p >= Len(in) \/ template_len > Len(in) THEN NoPeak
  ELSE uwb_full_rate_peak(in, Less(p, radius), Lesser(p + radius, Len(in) - template_len))
BacktrackAround(in, start) ==
  uwb_full_rate_peak(in, Less(start - template_len, BacktrackRadius),
    Lesser(start - template_len + BacktrackRadius, Len(in) - template_len))

Strong(peak) == peak.found /\ peak.metric >= FineThreshold
FaultLastPeak(in, peaks, radius) ==
  LET Try(best, p) ==
        IF Strong(FineAround(in, p, radius)) THEN FineAround(in, p, radius) ELSE best
  IN FoldLeft(Try, NoPeak, peaks)
\* The first coarse peak that the fine scan confirms.
Confirmed(in, peaks, radius) ==
  LET Try(best, p) == IF Strong(best) THEN best ELSE FineAround(in, p, radius)
  IN FoldLeft(Try, NoPeak, peaks)

\* One symbol back as long as there is one above the lower threshold.
StepBack(in, walk) ==
  LET Went(peak) == IF peak.found /\ peak.metric >= BacktrackThreshold
                      THEN [start |-> peak.start, symbols |-> walk.symbols + 1, on |-> TRUE]
                      ELSE [walk EXCEPT !.on = FALSE]
  IN IF walk.on /\ walk.start >= template_len THEN Went(BacktrackAround(in, walk.start))
     ELSE walk
Backtracked(in, start) ==
  FoldLeft(LAMBDA walk, k : StepBack(in, walk), [start |-> start, symbols |-> 0, on |-> TRUE],
           [k \in 1..MaxBacktrackSymbols |-> k])

NotConfirmed == [confirmed |-> FALSE]
ResultOf(in, seed) ==
  IF ~Strong(seed) THEN NotConfirmed
  ELSE [confirmed |-> TRUE, confirmed_offset |-> seed.start,
        start_offset |-> Backtracked(in, seed.start).start,
        backtracked_symbols |-> Backtracked(in, seed.start).symbols]

\* UwbPreambleVerifierSc16::verify, and the search of the CF32 publish_packet.
verify(in, candidate_offset, stride) ==
  ResultOf(in, Confirmed(in,
    uwb_coarse_peaks_sc16(in, 0, coarse_scan_end(Len(in), candidate_offset), stride),
    half(stride)))
verify_cf32(in, candidate_offset, stride) ==
  ResultOf(in, Confirmed(in,
    uwb_coarse_peaks(in, 0, coarse_scan_end(Len(in), candidate_offset), stride),
    half(stride)))
=============================================================================
