------------------------ MODULE ScheduleLockTracker ------------------------
(***************************************************************************)
(* ScheduleLockTracker (uwb_scheduled_extractor_core.h): learns where the  *)
(* packets really are from observations (schedule index, detected start)   *)
(* and then follows their phase.  A value of the struct is a record, its   *)
(* methods are operators on it.                                            *)
(*                                                                         *)
(* A grid [t0, T] puts packet k at t0 + k * T.  The least-squares fit is   *)
(* kept to what decides a lock: observations on one line fit it, and       *)
(* observations that are on no line leave a residual over                  *)
(* converge_residual_samples, so one unit of these positions is that       *)
(* threshold.                                                              *)
(***************************************************************************)
EXTENDS Integers, Sequences

CONSTANTS
  MinObservations,      \* min_observations
  MaxBuffer,            \* max_buffer
  MaxPeriodErr,         \* max_period_rel_err of the nominal period
  UnlockResidual,       \* unlock_residual_samples
  UnlockOutliers,       \* unlock_outlier_count
  GainDivisor           \* 1 / hold_track_phase_gain

ASSUME TrackerAssumption ==
  /\ MinObservations \in Nat /\ MaxBuffer \in Nat
  /\ 2 <= MinObservations /\ MinObservations <= MaxBuffer
  /\ MaxPeriodErr \in Nat /\ UnlockResidual \in Nat
  /\ UnlockOutliers \in Nat \ {0} /\ GainDivisor \in Nat \ {0}

At(grid, k) == grid.t0 + k * grid.T

\* reset: enabled is left as it is.
reset(t, seed) ==
  [enabled |-> t.enabled, state |-> "Searching", nominal |-> seed,
   est |-> seed, buf |-> <<>>, outliers |-> 0]

NewTracker(seed) == reset([enabled |-> FALSE], seed)

Distance(a, b) == IF a >= b THEN a - b ELSE b - a

\* The buffer keeps one detection per index, and drops its oldest when full.
Buffered(buf, k, det) ==
  LET new == [k |-> k, det |-> det] IN
  IF \E i \in DOMAIN buf : buf[i].k = k
    THEN [i \in DOMAIN buf |-> IF buf[i].k = k THEN new ELSE buf[i]]
    ELSE Append(IF Len(buf) >= MaxBuffer THEN Tail(buf) ELSE buf, new)

\* fit_linear and the checks on its result: the lines through every buffered
\* observation whose period is near the nominal one.
Fits(t, buf) ==
  LET grid(T) == [t0 |-> buf[1].det - buf[1].k * T, T |-> T]
      near == t.nominal.T - MaxPeriodErr .. t.nominal.T + MaxPeriodErr
  IN {g \in {grid(T) : T \in near} :
        \A i \in DOMAIN buf : buf[i].det = At(g, buf[i].k)}

\* observe returns the tracker and whether its estimate should be applied.
Ignored(t) == [tracker |-> t, apply |-> FALSE]
Applied(t) == [tracker |-> t, apply |-> TRUE]

Learn(t, k, det) ==
  LET buf == Buffered(t.buf, k, det)
      learning == [t EXCEPT !.state = "Learning", !.buf = buf]
  IN IF Len(buf) < 2 \/ Fits(t, buf) = {}
       THEN Ignored(learning)
       ELSE LET fit == CHOOSE g \in Fits(t, buf) : TRUE
                staged == [learning EXCEPT !.est = fit]
            IN IF Len(buf) < MinObservations
                 THEN Ignored(staged)
                 ELSE Applied([staged EXCEPT !.state = "Hold", !.outliers = 0])

\* In Hold a small residual moves t0 and leaves T; enough large ones in a row
\* start the learning again.
Nudge(t, k, det) ==
  LET resid == det - At(t.est, k) IN
  [t EXCEPT !.est.t0 = @ + resid \div GainDivisor, !.outliers = 0]

observe(t, k, det) ==
  IF t.state = "Hold" /\ Distance(det, At(t.est, k)) <= UnlockResidual
    THEN Applied(Nudge(t, k, det))
  ELSE IF t.state = "Hold" /\ t.outliers + 1 < UnlockOutliers
    THEN Ignored([t EXCEPT !.outliers = @ + 1])
  ELSE IF t.state = "Hold"
    THEN Learn([t EXCEPT !.buf = <<>>, !.outliers = 0], k, det)
  ELSE Learn(t, k, det)
=============================================================================
