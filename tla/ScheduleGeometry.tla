-------------------------- MODULE ScheduleGeometry --------------------------
(***************************************************************************)
(* The pure schedule arithmetic of uwb_scheduled_extractor_core.h.  The    *)
(* code keeps t0 and T as doubles, in samples; here both are integers in   *)
(* units of 1/Den sample, so the rounding of a non-integer period is kept  *)
(* and only the representation error of a double is abstracted.            *)
(***************************************************************************)
EXTENDS Integers

CONSTANT Den        \* sub-sample resolution of t0 and T

ASSUME DenAssumption == Den \in Nat \ {0}

\* A schedule is [first, period], in units of 1/Den sample; a guard triple is
\* [pre, capture, post], in samples.
GeoMax(a, b) == IF a >= b THEN a ELSE b
GeoMin(a, b) == IF a <= b THEN a ELSE b

\* std::llround(x / Den): to the nearest integer, halves away from zero.
Llround(x) == IF x >= 0 THEN (2 * x + Den) \div (2 * Den)
                        ELSE -((Den - 2 * x) \div (2 * Den))

predicted_start_sample(s, k) == Llround(s.first + k * s.period)

window_capacity(g) == g.pre + g.capture + g.post

\* Window of index k.  A window that would begin before sample 0 is moved to
\* 0 and keeps its length.
window_bounds_for_slot(s, g, k) ==
  LET predicted == predicted_start_sample(s, k)
      ideal     == predicted - g.pre
  IN  [predicted |-> predicted,
       start     |-> GeoMax(ideal, 0),
       end       |-> GeoMax(ideal, 0) + window_capacity(g)]

\* advance_k_to_abs: the first index, from the estimate on, whose window has
\* not ended at abs.  The window after the estimate begins at or after abs,
\* so the loop never goes further than one past it.
advance_k_to_abs(s, g, abs) ==
  IF (abs + g.pre) * Den < s.first
    THEN 0
    ELSE LET est == ((abs + g.pre) * Den - s.first) \div s.period
         IN  IF window_bounds_for_slot(s, g, est).end > abs THEN est ELSE est + 1
=============================================================================
