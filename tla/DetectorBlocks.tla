--------------------------- MODULE DetectorBlocks ---------------------------
(***************************************************************************)
(* The flow graph of one of the library's four detection blocks: the       *)
(* packet detectors of UwbDetector, or one of the stream blocks            *)
(* UwbPreambleDetector and UwbEnergyDetector, which give a metric and a    *)
(* flag for each sample and keep nothing but their history between calls.  *)
(***************************************************************************)
EXTENDS UwbDetector

CONSTANT FlagThreshold   \* d_threshold of UwbPreambleDetector

VARIABLES nitems, flags  \* nitems_written, and the flags of the last call

streamVars == <<nitems, flags>>

\* signal.gate: d_energy_threshold, d_energy_window, d_energy_decimation; the
\* energy detector's d_threshold and d_window.
gate == signal.gate

\* set_history: samples before the stream are zeros.
Input(history, n) ==
  [i \in 1..(history - 1 + n) |->
     IF nitems + i < history THEN 0 ELSE At(signal.iq, nitems + i - history)]

-----------------------------------------------------------------------------
(* UwbPreambleDetector::work, for n samples.                               *)

preamble_history == Greater(template_len, gate.window * gate.decimation)
hist == template_len - 1

\* The metric where it is computed at all.
Only(in, n, Wanted(_)) == [j \in 1..n |-> IF Wanted(j - 1) THEN MetricAt(in, j - 1) ELSE 0]

Reference(in, n) == Only(in, n, LAMBDA j : TRUE)

\* The full-rate gate.
Gated(in, n) ==
  LET InOne(ranges) == Only(in, n, LAMBDA j : \E r \in Range(ranges) : r[1] <= j /\ j < r[2])
  IN InOne(uwb_candidate_ranges(uwb_window_energy(in, n, gate.window), gate.window,
                                gate.threshold, gate.window))

FaultNoLookback(range) == hist + range[1]
\* The coarse peaks of a range, looked for from hist samples before it.
ScanFrom(range) == range[1]
PeaksIn(in, range) == Range(uwb_coarse_peaks(in, ScanFrom(range), hist + range[2], 1))
\* Only a peak whose fine window fits the call.
Fits(p, n) == p + CoarseMargin < n
Near(p, j) == Less(p, CoarseMargin) <= j /\ j <= p + CoarseMargin

CoarseToFine(in, n) ==
  LET Around(peaks) == Only(in, n, LAMBDA j : \E p \in peaks : Fits(p, n) /\ Near(p, j))
      gated == uwb_energy_gate_strided(SubSeq(in, hist + 1, Len(in)), n, gate.decimation,
                                       gate.window, gate.threshold, gate.decimation)
  IN Around(UNION {PeaksIn(in, r) : r \in Range(gated)})

Metrics(in, n) ==
  IF gate.threshold <= 0 THEN Reference(in, n)
  ELSE IF gate.decimation <= 1 THEN Gated(in, n) ELSE CoarseToFine(in, n)

Flagged(metric, threshold) == [j \in DOMAIN metric |-> metric[j] >= threshold]

preamble_work ==
  \E n \in Grants :
    /\ nitems + n <= StreamLength
    /\ flags' = Flagged(Metrics(Input(preamble_history, n), n), FlagThreshold)
    /\ nitems' = nitems + n
    /\ UNCHANGED vars

\* UwbEnergyDetector::work: the mean of the last window samples.
energy_work ==
  \E n \in Grants :
    /\ nitems + n <= StreamLength
    /\ flags' = Flagged(uwb_window_energy(Input(gate.window, n), n, gate.window),
                        gate.threshold * gate.window)
    /\ nitems' = nitems + n
    /\ UNCHANGED vars

-----------------------------------------------------------------------------
BlocksInit == Init /\ nitems = 0 /\ flags = <<>>

BlocksNext ==
  \/ signal.format \in {"fc32", "sc16"} /\ Next /\ UNCHANGED streamVars
  \/ signal.format = "preamble" /\ preamble_work
  \/ signal.format = "energy" /\ energy_work

BlocksSpec == BlocksInit /\ [][BlocksNext]_<<vars, streamVars>>

-----------------------------------------------------------------------------
\* The last `length` samples up to the position o.
Trailing(o, length) ==
  [i \in 1..length |-> IF o - length + i < 0 THEN 0 ELSE At(signal.iq, o - length + i)]

\* What the flag at o should be, from the stream alone.
Wanted(o) ==
  IF signal.format = "energy"
    THEN Energy(Trailing(o, gate.window)) >= gate.threshold * gate.window
    ELSE MetricOf(Trailing(o, template_len)) >= FlagThreshold

\* The coarse-to-fine mode, and the outputs of a call of n whose SYNC, with its
\* fine window and the neighbours the coarse scan compares it with, is in the call.
IsCoarseToFine == signal.format = "preamble" /\ gate.threshold > 0 /\ gate.decimation > 1
Interior(j, n) == CoarseDecimation < j /\ j <= n - CoarseMargin - CoarseDecimation

\* "out_metric[j] is the trailing average of |x|^2 over the window ending at output
\* sample j"; the fast paths of the preamble detector compute the reference metric,
\* only less often.  However the stream is cut into calls, no flag is raised where
\* the reference detector raises none, and none is missed: of the coarse-to-fine
\* mode that is said only of the outputs inside a call, EveryPeakFlagged says it of
\* all of them.
FlagsMatch ==
  \A j \in DOMAIN flags : LET o == nitems - Len(flags) + j - 1 IN
    /\ flags[j] => Wanted(o)
    /\ Wanted(o) /\ (IsCoarseToFine => Interior(j, Len(flags))) => flags[j]

\* The reference metric is over the threshold and the largest of a fine window.
Correlation(o) == MetricOf(Trailing(o, template_len))
IsPeak(o) ==
  /\ Correlation(o) >= FlagThreshold
  /\ \A k \in (Less(o, CoarseMargin)..Lesser(o + CoarseMargin, StreamLength - 1)) \ {o} :
       Correlation(k) < Correlation(o)

\* "A symbol's peak lands in exactly one chunk, so no dedup is needed.  Skip only
\* peaks whose fine window does not fit this chunk (the next chunk's coarse scan
\* re-finds them via its history lookback)": the call that gives the output of a
\* peak is the only one that can flag it, and it does.  It does not: of a peak that
\* is skipped, the output has left with the flag down before the next call begins.
EveryPeakFlagged ==
  IsCoarseToFine =>
    \A j \in DOMAIN flags : IsPeak(nitems - Len(flags) + j - 1) => flags[j]
=============================================================================
