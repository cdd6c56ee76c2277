-------------------- MODULE Qm35AcquisitionTrackerProofs --------------------
(***************************************************************************)
(* Proofs about Qm35AcquisitionTracker.  Every method of the tracker takes *)
(* a good tracker to a good one and respects the lease (StepOK), one lemma *)
(* per method; the theorems about TrackerSpec follow from that alone.      *)
(***************************************************************************)
EXTENDS Qm35AcquisitionTracker, TLAPS

Good(tr) == tr \in Tracker /\ PathOK(tr) /\ BudgetOK(tr)

\* What a step from tr to next may do to the lease.
LeaseOK(tr, next) ==
  /\ \/ next.generation > tr.generation
     \/ next.generation = tr.generation /\ Holder(next) = Holder(tr)
  /\ Holder(tr) # NoOrigin /\ Holder(next) # NoOrigin =>
       Holder(next) = Holder(tr)

\* What it may do to a followed schedule.
LossOK(tr, next) ==
  tr.identity_confirmed /\ ~next.identity_confirmed
    /\ next.first_start # NoOrigin =>
      next.consecutive_misses = reacquire_miss_count + neighborhood_budget

StepOK(tr, next) == Good(next) /\ LeaseOK(tr, next) /\ LossOK(tr, next)

\* The thresholds configure leaves behind are ordered, whatever was asked.
LEMMA Thresholds ==
  /\ lock_observations \in Nat /\ lock_observations >= 2
  /\ holdover_miss_count \in Nat /\ holdover_miss_count >= 1
  /\ reacquire_miss_count \in Nat /\ reacquire_miss_count > holdover_miss_count
  /\ neighborhood_budget \in Nat /\ neighborhood_budget >= 1
  /\ NeighborhoodSlots \in 0..neighborhood_budget
BY TrackerAssumption
   DEF lock_observations, holdover_miss_count, reacquire_miss_count,
       neighborhood_budget

\* The members of the record types the methods assign.
LEMMA FieldTypes ==
  /\ 0 \in 0..lock_observations /\ 1 \in 0..lock_observations
  /\ 0 \in 0..(reacquire_miss_count + neighborhood_budget)
  /\ 0 \in 0..neighborhood_budget
  /\ {"UnlockedAcquire", "CandidateVerify", "ProvisionalTrack", "Locked",
      "Holdover", "Reacquire"} \subseteq LockState
BY Thresholds DEF LockState

\* The labels of a tracker count on.
LEMMA LabelTypes ==
  ASSUME NEW tr \in Tracker
  PROVE  /\ tr.generation \in Nat /\ tr.generation + 1 \in Nat
         /\ tr.epoch \in Nat /\ tr.epoch + 1 \in Nat
BY DEF Tracker

\* configure and reset: hunting, under a new generation.
LEMMA ResetStep == ASSUME NEW tr \in Tracker PROVE StepOK(tr, configure(tr))
<1> DEFINE next == configure(tr)
<1>1. next \in Tracker
  BY FieldTypes, LabelTypes DEF Tracker, configure, reset_acquire
<1>2. /\ next.state = "UnlockedAcquire"
      /\ next.identity_confirmed = FALSE
      /\ next.first_start = NoOrigin
      /\ next.generation = tr.generation + 1
  BY DEF Tracker, configure, reset_acquire
<1>3. PathOK(next) /\ BudgetOK(next)
  BY <1>2 DEF PathOK, BudgetOK, scheduled_path_active
<1>4. LeaseOK(tr, next)
  BY <1>2, LabelTypes DEF LeaseOK, Holder
<1>5. LossOK(tr, next)
  BY <1>2 DEF LossOK
<1> QED
  BY <1>1, <1>3, <1>4, <1>5 DEF StepOK, Good

\* confirm_identity: only a hunting tracker takes an origin.
LEMMA ConfirmStep ==
  ASSUME NEW tr, Good(tr), ~tr.identity_confirmed, NEW o \in Origin
  PROVE  StepOK(tr, confirm_identity(tr, o))
<1> DEFINE next == confirm_identity(tr, o)
<1>0. tr \in Tracker
  BY DEF Good
<1>1. next \in Tracker
  BY <1>0, FieldTypes, LabelTypes DEF Tracker, confirm_identity
<1>2. /\ next.state = "ProvisionalTrack"
      /\ next.identity_confirmed = TRUE
      /\ next.first_start = o
      /\ next.consecutive_misses = 0
      /\ next.generation = tr.generation + 1
  BY <1>0 DEF Tracker, confirm_identity
<1>3. PathOK(next) /\ BudgetOK(next)
  BY <1>2, Thresholds, TrackerAssumption
     DEF PathOK, BudgetOK, scheduled_path_active
<1>4. LeaseOK(tr, next)
  BY <1>0, <1>2, LabelTypes DEF LeaseOK, Holder
<1>5. LossOK(tr, next)
  BY <1>2 DEF LossOK
<1> QED
  BY <1>1, <1>3, <1>4, <1>5 DEF StepOK, Good

\* enter_reacquire, field by field: globally the identity is forgotten,
\* in the neighbourhood it is kept and the tries start at none.
LEMMA EnterGlobal ==
  ASSUME NEW tr \in Tracker
  PROVE  LET next == enter_reacquire(tr, FALSE) IN
         /\ next \in Tracker
         /\ next.state = "Reacquire"
         /\ next.global_energy = TRUE
         /\ next.identity_confirmed = FALSE
         /\ next.generation = tr.generation + 1
         /\ next.first_start = tr.first_start
         /\ next.consecutive_misses = tr.consecutive_misses
<1> DEFINE next == enter_reacquire(tr, FALSE)
<1>1. next = [tr EXCEPT !.state = "Reacquire", !.global_energy = TRUE,
                !.neighborhood_tries = NeighborhoodSlots,
                !.identity_confirmed = FALSE, !.epoch = tr.epoch + 1,
                !.generation = tr.generation + 1]
  BY DEF enter_reacquire, Tracker
<1> HIDE DEF next
<1>2. next \in Tracker
  BY <1>1, FieldTypes, LabelTypes, Thresholds DEF Tracker
<1> QED
  BY <1>1, <1>2 DEF Tracker, next

LEMMA EnterNeighborhood ==
  ASSUME NEW tr \in Tracker
  PROVE  LET next == enter_reacquire(tr, TRUE) IN
         /\ next \in Tracker
         /\ next.state = "Reacquire"
         /\ next.global_energy = FALSE
         /\ next.identity_confirmed = tr.identity_confirmed
         /\ next.neighborhood_tries = 0
         /\ next.generation = tr.generation + 1
         /\ next.first_start = tr.first_start
         /\ next.consecutive_misses = tr.consecutive_misses
<1> DEFINE next == enter_reacquire(tr, TRUE)
<1>1. next = [tr EXCEPT !.state = "Reacquire", !.global_energy = FALSE,
                !.neighborhood_tries = 0,
                !.identity_confirmed = tr.identity_confirmed,
                !.epoch = tr.epoch, !.generation = tr.generation + 1]
  BY DEF enter_reacquire, Tracker
<1> HIDE DEF next
<1>2. next \in Tracker
  BY <1>1, FieldTypes, LabelTypes DEF Tracker
<1> QED
  BY <1>1, <1>2 DEF Tracker, next

\* note_discontinuity: the schedule is given up whatever its state.
LEMMA DiscontinuityStep ==
  ASSUME NEW tr \in Tracker PROVE StepOK(tr, note_discontinuity(tr))
<1> DEFINE bumped == [tr EXCEPT !.generation = @ + 1]
           entered == enter_reacquire(bumped, FALSE)
           next == note_discontinuity(tr)
<1>1. bumped \in Tracker /\ bumped.generation = tr.generation + 1
  BY LabelTypes DEF Tracker
<1> HIDE DEF bumped
<1>2. /\ entered \in Tracker
      /\ entered.state = "Reacquire"
      /\ entered.global_energy = TRUE
      /\ entered.identity_confirmed = FALSE
      /\ entered.generation = bumped.generation + 1
  BY <1>1, EnterGlobal
<1>3. next = [entered EXCEPT !.first_start = NoOrigin, !.timing_ok_count = 0,
                !.consecutive_misses = 0, !.require_obs_provenance = TRUE]
  BY DEF note_discontinuity, bumped
<1> HIDE DEF entered, next
<1>4. next \in Tracker
  BY <1>2, <1>3, FieldTypes DEF Tracker
<1>5. /\ next.state = "Reacquire"
      /\ next.global_energy = TRUE
      /\ next.identity_confirmed = FALSE
      /\ next.first_start = NoOrigin
      /\ next.generation = tr.generation + 2
  BY <1>1, <1>2, <1>3, LabelTypes DEF Tracker
<1>6. PathOK(next) /\ BudgetOK(next)
  BY <1>5 DEF PathOK, BudgetOK, scheduled_path_active
<1>7. LeaseOK(tr, next)
  BY <1>5, LabelTypes DEF LeaseOK, Holder
<1>8. LossOK(tr, next)
  BY <1>5 DEF LossOK
<1> QED
  BY <1>4, <1>6, <1>7, <1>8 DEF StepOK, Good, next

\* A candidate on its way out and a refused one only move between the two
\* hunting states.
LEMMA CandidateStep ==
  ASSUME NEW tr, Good(tr)
  PROVE  StepOK(tr, note_candidate_emitted(tr))
<1> DEFINE next == note_candidate_emitted(tr)
<1>0. tr \in Tracker
  BY DEF Good
<1>1. CASE ~energy_path_active(tr)
  BY <1>0, <1>1, LabelTypes
     DEF note_candidate_emitted, StepOK, Good, LeaseOK, LossOK
<1>2. CASE energy_path_active(tr)
  <2>1. next = [tr EXCEPT !.state = "CandidateVerify"]
    BY <1>2 DEF note_candidate_emitted
  <2>2. ~tr.identity_confirmed
    BY <1>2 DEF Good, PathOK, energy_path_active, scheduled_path_active
  <2> HIDE DEF next
  <2>3. next \in Tracker
    BY <1>0, <2>1, FieldTypes DEF Tracker
  <2>4. /\ next.state = "CandidateVerify"
        /\ next.identity_confirmed = tr.identity_confirmed
        /\ next.generation = tr.generation
    BY <1>0, <2>1 DEF Tracker
  <2>5. PathOK(next) /\ BudgetOK(next) /\ LeaseOK(tr, next) /\ LossOK(tr, next)
    BY <1>0, <2>2, <2>4, LabelTypes
       DEF PathOK, BudgetOK, scheduled_path_active, LeaseOK, LossOK, Holder
  <2> QED
    BY <2>3, <2>5 DEF StepOK, Good, next
<1> QED
  BY <1>1, <1>2

LEMMA RejectStep ==
  ASSUME NEW tr, Good(tr), ~tr.identity_confirmed
  PROVE  StepOK(tr, reject_identity(tr))
<1> DEFINE next == reject_identity(tr)
<1>0. tr \in Tracker
  BY DEF Good
<1>1. CASE tr.state # "CandidateVerify"
  <2>1. next = tr
    BY <1>0, <1>1 DEF reject_identity, Tracker
  <2> QED
    BY <1>0, <2>1, LabelTypes DEF StepOK, Good, LeaseOK, LossOK
<1>2. CASE tr.state = "CandidateVerify"
  <2>1. next = [tr EXCEPT !.state = "UnlockedAcquire"]
    BY <1>2, <1>0 DEF reject_identity, Tracker
  <2> HIDE DEF next
  <2>2. next \in Tracker
    BY <1>0, <2>1, FieldTypes DEF Tracker
  <2>3. /\ next.state = "UnlockedAcquire"
        /\ next.identity_confirmed = tr.identity_confirmed
        /\ next.generation = tr.generation
    BY <1>0, <2>1 DEF Tracker
  <2>4. PathOK(next) /\ BudgetOK(next) /\ LeaseOK(tr, next) /\ LossOK(tr, next)
    BY <1>0, <2>3, LabelTypes
       DEF PathOK, BudgetOK, scheduled_path_active, LeaseOK, LossOK, Holder
  <2> QED
    BY <2>2, <2>4 DEF StepOK, Good, next
<1> QED
  BY <1>1, <1>2

\* note_timing: a good observation keeps the schedule and clears the misses.
LEMMA TimingStep ==
  ASSUME NEW tr, Good(tr), tr.identity_confirmed
  PROVE  StepOK(tr, note_timing(tr))
<1> DEFINE n == IF tr.timing_ok_count < lock_observations
                THEN tr.timing_ok_count + 1 ELSE tr.timing_ok_count
           locks == \/ tr.state \in {"Holdover", "Reacquire"}
                    \/ tr.state = "ProvisionalTrack" /\ n >= lock_observations
           s == IF locks THEN "Locked" ELSE tr.state
           next == note_timing(tr)
<1>0. tr \in Tracker
  BY DEF Good
<1>1. next = [tr EXCEPT !.consecutive_misses = 0, !.timing_ok_count = n,
                        !.state = s]
  BY <1>0 DEF note_timing, Tracker
<1>2. n \in 0..lock_observations
  BY <1>0, Thresholds DEF Tracker
<1>3. s \in {"ProvisionalTrack", "Locked"}
  <2>1. tr.state \in {"ProvisionalTrack", "Locked", "Holdover", "Reacquire"}
    BY DEF Good, PathOK, scheduled_path_active
  <2> QED
    BY <2>1
<1> HIDE DEF n, locks, s, next
<1>4. next \in Tracker
  BY <1>0, <1>1, <1>2, <1>3, FieldTypes DEF Tracker
<1>5. /\ next.state = s
      /\ next.consecutive_misses = 0
      /\ next.identity_confirmed = tr.identity_confirmed
      /\ next.first_start = tr.first_start
      /\ next.generation = tr.generation
  BY <1>0, <1>1 DEF Tracker
<1>6. PathOK(next)
  BY <1>3, <1>5 DEF PathOK, scheduled_path_active, Good
<1>7. BudgetOK(next)
  BY <1>3, <1>5, Thresholds DEF BudgetOK
<1>8. LeaseOK(tr, next) /\ LossOK(tr, next)
  BY <1>0, <1>5, LabelTypes DEF LeaseOK, LossOK, Holder
<1> QED
  BY <1>4, <1>6, <1>7, <1>8 DEF StepOK, Good, next

\* note_miss: the budget is spent one miss at a time, and only the miss that
\* exhausts it gives the schedule up.
LEMMA MissStep ==
  ASSUME NEW tr, Good(tr), tr.identity_confirmed
  PROVE  StepOK(tr, note_miss(tr))
<1> DEFINE m == tr.consecutive_misses + 1
           s == IF tr.state = "Locked" /\ m >= holdover_miss_count
                THEN "Holdover" ELSE tr.state
           missed == [tr EXCEPT !.consecutive_misses = @ + 1]
           held == IF missed.state = "Locked"
                        /\ missed.consecutive_misses >= holdover_miss_count
                   THEN [missed EXCEPT !.state = "Holdover"] ELSE missed
           tried == [held EXCEPT !.neighborhood_tries = @ + 1]
           next == note_miss(tr)
<1>1. /\ tr \in Tracker /\ scheduled_path_active(tr)
      /\ tr.state \in {"ProvisionalTrack", "Locked", "Holdover", "Reacquire"}
      /\ tr.first_start # NoOrigin
      /\ tr.consecutive_misses \in Nat /\ tr.neighborhood_tries \in Nat
  BY Thresholds DEF Good, PathOK, scheduled_path_active, Tracker
<1>2. tr.state = "Reacquire" =>
        /\ tr.global_energy = FALSE
        /\ tr.neighborhood_tries < neighborhood_budget
        /\ tr.consecutive_misses = reacquire_miss_count + tr.neighborhood_tries
  BY <1>1 DEF Good, BudgetOK, scheduled_path_active, Tracker
<1>3. tr.state # "Reacquire" => tr.consecutive_misses < reacquire_miss_count
  BY <1>1, Thresholds DEF Good, BudgetOK
<1>4. m \in 0..(reacquire_miss_count + neighborhood_budget)
  BY <1>1, <1>2, <1>3, Thresholds
<1>5. missed \in Tracker
  BY <1>1, <1>4 DEF Tracker
<1>6. held = [tr EXCEPT !.consecutive_misses = m, !.state = s]
  BY <1>1, <1>5 DEF Tracker
<1>7. s \in LockState
  BY <1>1, FieldTypes
<1>8. held \in Tracker
  BY <1>1, <1>4, <1>6, <1>7 DEF Tracker
<1>9. /\ held.state = s
      /\ held.consecutive_misses = m
      /\ held.identity_confirmed = TRUE
      /\ held.global_energy = tr.global_energy
      /\ held.neighborhood_tries = tr.neighborhood_tries
      /\ held.first_start = tr.first_start
      /\ held.generation = tr.generation
  BY <1>1, <1>6 DEF Tracker
<1>10. next = IF s # "Reacquire"
              THEN IF m >= reacquire_miss_count
                   THEN enter_reacquire(held, TRUE) ELSE held
              ELSE IF tried.neighborhood_tries >= NeighborhoodSlots
                   THEN enter_reacquire(tried, FALSE) ELSE tried
  BY <1>1, <1>9 DEF note_miss
<1> HIDE DEF missed, held, next
<1>11. CASE s # "Reacquire" /\ m >= reacquire_miss_count
  <2>1. next = enter_reacquire(held, TRUE)
    BY <1>10, <1>11
  <2>2. /\ next \in Tracker
        /\ next.state = "Reacquire"
        /\ next.global_energy = FALSE
        /\ next.identity_confirmed = TRUE
        /\ next.neighborhood_tries = 0
        /\ next.generation = tr.generation + 1
        /\ next.first_start = tr.first_start
        /\ next.consecutive_misses = m
    BY <2>1, <1>8, <1>9, EnterNeighborhood
  <2>3. m = reacquire_miss_count
    BY <1>1, <1>3, <1>11, Thresholds
  <2>4. PathOK(next) /\ BudgetOK(next)
    BY <2>2, <2>3, <1>1, Thresholds DEF PathOK, BudgetOK, scheduled_path_active
  <2>5. LeaseOK(tr, next) /\ LossOK(tr, next)
    BY <2>2, <1>1, LabelTypes DEF LeaseOK, LossOK, Holder
  <2> QED
    BY <2>2, <2>4, <2>5 DEF StepOK, Good, next
<1>12. CASE s # "Reacquire" /\ ~(m >= reacquire_miss_count)
  <2>1. next = held
    BY <1>10, <1>12
  <2>2. s = "Locked" => m < holdover_miss_count
    BY <1>1, Thresholds
  <2>3. PathOK(next) /\ BudgetOK(next)
    BY <2>1, <2>2, <1>1, <1>9, <1>12, Thresholds
       DEF PathOK, BudgetOK, scheduled_path_active
  <2>4. LeaseOK(tr, next) /\ LossOK(tr, next)
    BY <2>1, <1>1, <1>9, LabelTypes DEF LeaseOK, LossOK, Holder
  <2> QED
    BY <2>1, <2>3, <2>4, <1>8 DEF StepOK, Good, next
<1>13. CASE s = "Reacquire"
  <2>1. /\ tr.state = "Reacquire"
        /\ tr.global_energy = FALSE
        /\ tr.neighborhood_tries < neighborhood_budget
        /\ tr.consecutive_misses = reacquire_miss_count + tr.neighborhood_tries
    BY <1>2, <1>13
  <2>2. tr.neighborhood_tries + 1 \in 0..neighborhood_budget
    BY <2>1, <1>1, Thresholds
  <2>3. tried = [held EXCEPT !.neighborhood_tries = tr.neighborhood_tries + 1]
    BY <1>8, <1>9 DEF Tracker
  <2>4. tried \in Tracker
    BY <2>2, <2>3, <1>8 DEF Tracker
  <2>5. /\ tried.state = "Reacquire"
        /\ tried.consecutive_misses = m
        /\ tried.identity_confirmed = TRUE
        /\ tried.global_energy = FALSE
        /\ tried.neighborhood_tries = tr.neighborhood_tries + 1
        /\ tried.first_start = tr.first_start
        /\ tried.generation = tr.generation
    BY <2>1, <2>3, <1>8, <1>9, <1>13 DEF Tracker
  <2> HIDE DEF tried
  <2>6. CASE tried.neighborhood_tries >= NeighborhoodSlots
    <3>1. next = enter_reacquire(tried, FALSE)
      BY <1>10, <1>13, <2>6
    <3>2. /\ next \in Tracker
          /\ next.state = "Reacquire"
          /\ next.global_energy = TRUE
          /\ next.identity_confirmed = FALSE
          /\ next.generation = tr.generation + 1
          /\ next.first_start = tr.first_start
          /\ next.consecutive_misses = m
      BY <3>1, <2>4, <2>5, EnterGlobal
    <3>3. tr.neighborhood_tries + 1 = neighborhood_budget
      BY <2>1, <2>5, <2>6, <1>1, TrackerAssumption DEF neighborhood_budget
    <3>4. m = reacquire_miss_count + neighborhood_budget
      BY <3>3, <2>1, <1>1, Thresholds
    <3>5. PathOK(next) /\ BudgetOK(next)
      BY <3>2 DEF PathOK, BudgetOK, scheduled_path_active
    <3>6. LeaseOK(tr, next) /\ LossOK(tr, next)
      BY <3>2, <3>4, <1>1, LabelTypes DEF LeaseOK, LossOK, Holder
    <3> QED
      BY <3>2, <3>5, <3>6 DEF StepOK, Good, next
  <2>7. CASE ~(tried.neighborhood_tries >= NeighborhoodSlots)
    <3>1. next = tried
      BY <1>10, <1>13, <2>7
    <3>2. tried.neighborhood_tries < neighborhood_budget
      BY <2>2, <2>5, <2>7, <1>1, Thresholds, TrackerAssumption
    <3>3. m = reacquire_miss_count + tried.neighborhood_tries
      BY <2>1, <2>5, <1>1, Thresholds
    <3>4. PathOK(next) /\ BudgetOK(next)
      BY <3>1, <3>2, <3>3, <2>5, <1>1 DEF PathOK, BudgetOK, scheduled_path_active
    <3>5. LeaseOK(tr, next) /\ LossOK(tr, next)
      BY <3>1, <2>5, <1>1, LabelTypes DEF LeaseOK, LossOK, Holder
    <3> QED
      BY <3>1, <3>4, <3>5, <2>4 DEF StepOK, Good, next
  <2> QED
    BY <2>6, <2>7
<1> QED
  BY <1>11, <1>12, <1>13

\* on_lock_obs: whatever an observation says, one of the methods runs.
LEMMA ObserveStep ==
  ASSUME NEW tr, Good(tr), NEW obs \in Observation
  PROVE  StepOK(tr, on_lock_obs(tr, obs))
<1> DEFINE action == on_lock_obs_action(tr, obs)
<1>1. CASE action = "ConfirmedIdentity"
  <2>1. obs.native # NoOrigin /\ ~tr.identity_confirmed
    BY <1>1 DEF on_lock_obs_action
  <2>2. obs.native \in Origin
    BY <2>1 DEF Observation
  <2>3. on_lock_obs(tr, obs) = confirm_identity(tr, obs.native)
    BY <1>1 DEF on_lock_obs
  <2> QED
    BY <2>1, <2>2, <2>3, ConfirmStep
<1>2. CASE action = "RejectedIdentity"
  <2>1. ~tr.identity_confirmed
    BY <1>2 DEF on_lock_obs_action
  <2>2. on_lock_obs(tr, obs) = reject_identity(tr)
    BY <1>2 DEF on_lock_obs
  <2> QED
    BY <2>1, <2>2, RejectStep
<1>3. CASE action = "TimingUpdate"
  <2>1. tr.identity_confirmed
    BY <1>3 DEF on_lock_obs_action
  <2>2. on_lock_obs(tr, obs) = note_timing(tr)
    BY <1>3 DEF on_lock_obs
  <2> QED
    BY <2>1, <2>2, TimingStep
<1>4. CASE action = "TimingMiss"
  <2>1. tr.identity_confirmed
    BY <1>4 DEF on_lock_obs_action
  <2>2. on_lock_obs(tr, obs) = note_miss(tr)
    BY <1>4 DEF on_lock_obs
  <2> QED
    BY <2>1, <2>2, MissStep
<1>5. CASE action \notin {"ConfirmedIdentity", "RejectedIdentity",
                         "TimingUpdate", "TimingMiss"}
  <2>1. on_lock_obs(tr, obs) = tr
    BY <1>5 DEF on_lock_obs
  <2>2. tr \in Tracker
    BY DEF Good
  <2> QED
    BY <2>1, <2>2, LabelTypes DEF StepOK, Good, LeaseOK, LossOK
<1> QED
  BY <1>1, <1>2, <1>3, <1>4, <1>5

-----------------------------------------------------------------------------
\* The inductive invariant: a good tracker, and a history of labels none of
\* which is newer than the tracker's and the newest of which means what the
\* tracker holds now.
HistoryOK ==
  /\ history \subseteq Nat \X (Origin \cup {NoOrigin})
  /\ <<tracker.generation, Holder(tracker)>> \in history
  /\ \A h \in history :
       /\ h[1] <= tracker.generation
       /\ h[1] = tracker.generation => h[2] = Holder(tracker)
  /\ \A a, b \in history : a[1] = b[1] => a[2] = b[2]

TrackerInv == Good(tracker) /\ HistoryOK

LEMMA HolderType ==
  ASSUME NEW tr \in Tracker PROVE Holder(tr) \in Origin \cup {NoOrigin}
BY DEF Tracker, Holder

LEMMA TrackerInvInit == TrackerInit => TrackerInv
<1> SUFFICES ASSUME TrackerInit PROVE TrackerInv
  OBVIOUS
<1> DEFINE blank ==
      [state |-> "UnlockedAcquire", identity_confirmed |-> FALSE,
       global_energy |-> TRUE, first_start |-> NoOrigin, generation |-> 0,
       epoch |-> 0, timing_ok_count |-> 0, consecutive_misses |-> 0,
       neighborhood_tries |-> 0, require_obs_provenance |-> FALSE]
<1>1. blank \in Tracker
  BY FieldTypes DEF Tracker
<1>2. NewTracker = configure(blank)
  BY DEF NewTracker, configure
<1> HIDE DEF blank
<1>3. NewTracker \in Tracker
  BY <1>1, <1>2, ResetStep DEF StepOK, Good
<1>4. Good(tracker)
  BY <1>3, ResetStep DEF StepOK, TrackerInit
<1>5. ~tracker.identity_confirmed
  BY <1>3 DEF TrackerInit, configure, reset_acquire, Tracker
<1>6. Holder(tracker) = NoOrigin /\ tracker.generation \in Nat
  BY <1>4, <1>5, LabelTypes DEF Holder, Good
<1> QED
  BY <1>4, <1>6 DEF TrackerInv, HistoryOK, TrackerInit

\* One step of the specification is one method of the tracker.
LEMMA NextIsStep ==
  ASSUME Good(tracker), TrackerNext
  PROVE  \E tr : StepOK(tracker, tr) /\ Become(tr)
<1>0. tracker \in Tracker
  BY DEF Good
<1>1. CASE \E obs \in Heard : Observe(obs)
  <2>1. PICK obs \in Heard : Observe(obs)
    BY <1>1
  <2>2. obs \in Observation
    BY <1>0, LabelTypes DEF Heard, Observation
  <2> QED
    BY <2>1, <2>2, ObserveStep DEF Observe
<1>2. CASE CandidateEmitted
  BY <1>2, CandidateStep DEF CandidateEmitted
<1>3. CASE Discontinuity
  BY <1>0, <1>3, DiscontinuityStep DEF Discontinuity
<1>4. CASE Reset
  BY <1>0, <1>4, ResetStep DEF Reset
<1> QED
  BY <1>1, <1>2, <1>3, <1>4 DEF TrackerNext

LEMMA TrackerInvStep == TrackerInv /\ [TrackerNext]_tvars => TrackerInv'
<1> SUFFICES ASSUME TrackerInv, [TrackerNext]_tvars PROVE TrackerInv'
  OBVIOUS
<1>1. CASE UNCHANGED tvars
  BY <1>1 DEF TrackerInv, HistoryOK, Good, Holder, PathOK, BudgetOK,
              scheduled_path_active, tvars
<1>2. CASE TrackerNext
  <2>1. PICK tr : StepOK(tracker, tr) /\ Become(tr)
    BY <1>2, NextIsStep DEF TrackerInv
  <2>2. /\ tracker' = tr
        /\ history' = history \cup {<<tr.generation, Holder(tr)>>}
        /\ Good(tr) /\ tracker \in Tracker /\ tr \in Tracker
    BY <2>1 DEF Become, StepOK, Good, TrackerInv
  <2>3. Good(tracker)'
    BY <2>2
  <2>4. /\ tracker.generation \in Nat /\ tr.generation \in Nat
        /\ Holder(tr) \in Origin \cup {NoOrigin}
    BY <2>2, LabelTypes, HolderType
  <2>5. CASE tr.generation > tracker.generation
    <3> DEFINE new == <<tr.generation, Holder(tr)>>
    <3>1. \A h \in history : h[1] \in Nat /\ h[1] < tr.generation
      BY <2>4, <2>5 DEF TrackerInv, HistoryOK
    <3>2. \A h \in history' : h \in history \/ h = new
      BY <2>2
    <3>3. history' \subseteq Nat \X (Origin \cup {NoOrigin})
      BY <2>2, <2>4 DEF TrackerInv, HistoryOK
    <3>4. \A h \in history' :
            /\ h[1] <= tr.generation
            /\ h[1] = tr.generation => h[2] = Holder(tr)
      BY <3>1, <3>2, <2>4
    <3>5. \A a, b \in history' : a[1] = b[1] => a[2] = b[2]
      BY <3>1, <3>2, <2>4 DEF TrackerInv, HistoryOK
    <3> QED
      BY <2>2, <2>3, <3>3, <3>4, <3>5 DEF TrackerInv, HistoryOK, Holder
  <2>6. CASE tr.generation = tracker.generation /\ Holder(tr) = Holder(tracker)
    <3>1. history' = history
      BY <2>2, <2>6 DEF TrackerInv, HistoryOK
    <3> QED
      BY <2>2, <2>3, <2>6, <3>1 DEF TrackerInv, HistoryOK, Holder
  <2> QED
    BY <2>1, <2>5, <2>6 DEF StepOK, LeaseOK
<1> QED
  BY <1>1, <1>2

LEMMA TrackerInvHolds == TrackerSpec => []TrackerInv
<1> QED
  BY TrackerInvInit, TrackerInvStep, PTL DEF TrackerSpec

\* Whatever observations, losses, discontinuities and resets a tracker sees,
\* with any thresholds, its state, its identity flag and its energy flag
\* agree, so work() always feeds exactly the path the tracker is on.
THEOREM PathsAgree == TrackerSpec => []PathMatchesIdentity
<1>1. TrackerInv => PathMatchesIdentity
  BY DEF TrackerInv, Good, PathMatchesIdentity
<1> QED
  BY TrackerInvHolds, <1>1, PTL

\* The miss counters never leave the budget of their state, whatever
\* thresholds were configured (zero slots and equal thresholds included).
THEOREM MissesBudgeted == TrackerSpec => []MissBudget
<1>1. TrackerInv => MissBudget
  BY DEF TrackerInv, Good, MissBudget
<1> QED
  BY TrackerInvHolds, <1>1, PTL

\* An observation's generation says which schedule or which hunt it is
\* about: no label is ever used for two.
THEOREM LabelsUnique == TrackerSpec => []LabelNamesOneSchedule
<1>1. TrackerInv => LabelNamesOneSchedule
  BY DEF TrackerInv, HistoryOK, LabelNamesOneSchedule,
         lease!LabelNamesOneSchedule
<1> QED
  BY TrackerInvHolds, <1>1, PTL

\* A schedule is given up only by the miss that exhausts the whole budget,
\* by a discontinuity or by a reset.
THEOREM LossEarned == TrackerSpec => LostOnlyAfterMisses
<1> DEFINE A == (tracker.identity_confirmed /\ ~tracker'.identity_confirmed
                   /\ tracker'.first_start # NoOrigin) =>
                tracker'.consecutive_misses =
                  reacquire_miss_count + neighborhood_budget
<1>1. TrackerInv /\ [TrackerNext]_tvars => [A]_tvars
  <2> SUFFICES ASSUME TrackerInv, TrackerNext PROVE A
    OBVIOUS
  <2>1. PICK tr : StepOK(tracker, tr) /\ Become(tr)
    BY NextIsStep DEF TrackerInv
  <2> QED
    BY <2>1 DEF StepOK, LossOK, Become
<1> QED
  BY TrackerInvHolds, <1>1, PTL DEF TrackerSpec, LostOnlyAfterMisses

\* The tracker is a schedule lease: each of its steps grants, revokes or
\* relabels the schedule, or is invisible to whoever only sees the labels.
THEOREM TrackerIsALease == TrackerSpec => ImplementsLease
<1>1. TrackerInit => lease!LInit
  <2> SUFFICES ASSUME TrackerInit PROVE lease!LInit
    OBVIOUS
  <2>1. TrackerInv
    BY TrackerInvInit
  <2>2. Holder(tracker) = NoOrigin /\ tracker.generation \in Nat
    <3>1. /\ tracker \in Tracker
          /\ <<tracker.generation, Holder(tracker)>> \in
               {<<tracker.generation, NoOrigin>>}
      BY <2>1 DEF TrackerInit, TrackerInv, HistoryOK, Good
    <3> QED
      BY <3>1, LabelTypes
  <2> QED
    BY <2>2 DEF lease!LInit, TrackerInit
<1>2. TrackerInv /\ [TrackerNext]_tvars => [lease!LNext]_(lease!lvars)
  <2> SUFFICES ASSUME TrackerInv, [TrackerNext]_tvars
               PROVE  [lease!LNext]_(lease!lvars)
    OBVIOUS
  <2>1. CASE UNCHANGED tvars
    BY <2>1 DEF tvars, Holder, lease!lvars
  <2>2. CASE TrackerNext
    <3>1. PICK tr : StepOK(tracker, tr) /\ Become(tr)
      BY <2>2, NextIsStep DEF TrackerInv
    <3>2. /\ tracker' = tr
          /\ history' = history \cup {<<tr.generation, Holder(tr)>>}
          /\ tracker \in Tracker /\ tr \in Tracker
          /\ Holder(tr) = Holder(tracker)'
      BY <3>1 DEF Become, StepOK, Good, TrackerInv, Holder
    <3>3. /\ tracker.generation \in Nat /\ tr.generation \in Nat
          /\ Holder(tr) \in Origin \cup {NoOrigin}
          /\ Holder(tracker) \in Origin \cup {NoOrigin}
      BY <3>2, LabelTypes, HolderType
    <3>4. CASE tr.generation > tracker.generation
      <4>1. \A h : (h = Holder(tr)) => lease!Become(h)
        BY <3>2, <3>3, <3>4 DEF lease!Become
      <4>2. CASE Holder(tr) = Holder(tracker)
        BY <4>1, <4>2 DEF lease!LNext, lease!Relabel
      <4>3. CASE Holder(tracker) = NoOrigin /\ Holder(tr) \in Origin
        BY <4>1, <4>3 DEF lease!LNext, lease!Grant
      <4>4. CASE Holder(tracker) # NoOrigin /\ Holder(tr) = NoOrigin
        BY <4>1, <4>4 DEF lease!LNext, lease!Revoke
      <4> QED
        BY <3>1, <3>3, <4>2, <4>3, <4>4 DEF StepOK, LeaseOK
    <3>5. CASE /\ tr.generation = tracker.generation
               /\ Holder(tr) = Holder(tracker)
      <4>1. history' = history
        BY <3>2, <3>5 DEF TrackerInv, HistoryOK
      <4> QED
        BY <3>2, <3>5, <4>1 DEF lease!lvars
    <3> QED
      BY <3>1, <3>4, <3>5 DEF StepOK, LeaseOK
  <2> QED
    BY <2>1, <2>2
<1> QED
  BY TrackerInvHolds, <1>1, <1>2, PTL DEF TrackerSpec, ImplementsLease, lease!LSpec
=============================================================================
