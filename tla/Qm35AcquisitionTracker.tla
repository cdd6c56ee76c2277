----------------------- MODULE Qm35AcquisitionTracker -----------------------
(***************************************************************************)
(* Qm35AcquisitionTracker (uwb_qm35_acquisition_tracker.h): hunts for a    *)
(* beacon by energy, confirms its identity from one demodulated packet,    *)
(* then follows its schedule through provisional track, lock, holdover and *)
(* reacquisition.                                                          *)
(*                                                                         *)
(* The tracker is a plain object: its methods are operators from a tracker *)
(* record to the next one, so that the extractor that owns it composes     *)
(* them with its own steps.  Sample positions are members of Origin; the   *)
(* fine fit of t0 and T is ScheduleLockTracker's and is left out here, so  *)
(* t0_exact_ is the confirmed origin first_start_sample_.                  *)
(***************************************************************************)
EXTENDS Integers, FiniteSets

CONSTANTS
  Origin,             \* packet positions in the native sample domain
  NoOrigin,           \* -1: no position
  Unlabelled,         \* an observation without that label
  LockObservations, HoldoverMissCount, ReacquireMissCount, NeighborhoodSlots,
  MaxGeneration       \* bound: generations the environment drives through

ASSUME TrackerAssumption ==
  /\ NoOrigin \notin Origin
  /\ Unlabelled \notin Nat
  /\ LockObservations \in Nat /\ HoldoverMissCount \in Nat
  /\ ReacquireMissCount \in Nat /\ NeighborhoodSlots \in Nat
  /\ MaxGeneration \in Nat

(* What configure makes of the configured thresholds. *)
lock_observations == IF LockObservations < 2 THEN 2 ELSE LockObservations
holdover_miss_count == IF HoldoverMissCount = 0 THEN 1 ELSE HoldoverMissCount
reacquire_miss_count ==
  IF ReacquireMissCount <= holdover_miss_count
  THEN holdover_miss_count + 1 ELSE ReacquireMissCount
\* Misses in the neighbourhood before the global search: the test follows
\* the increment, so zero slots act as one.
neighborhood_budget == IF NeighborhoodSlots = 0 THEN 1 ELSE NeighborhoodSlots

LockState == {"UnlockedAcquire", "CandidateVerify", "ProvisionalTrack",
              "Locked", "Holdover", "Reacquire"}

Tracker ==
  [state : LockState, identity_confirmed : BOOLEAN, global_energy : BOOLEAN,
   first_start : Origin \cup {NoOrigin},
   generation : Nat, epoch : Nat,
   timing_ok_count : 0..lock_observations,
   consecutive_misses : 0..(reacquire_miss_count + neighborhood_budget),
   neighborhood_tries : 0..neighborhood_budget,
   require_obs_provenance : BOOLEAN]

\* A lock_obs: where the packet was (NoOrigin when classify_lock_obs_mapping
\* refuses the position), the labels it carries, whether its timing was good
\* and whether its PHY profile and FCS are the configured identity's.
Observation ==
  [native : Origin \cup {NoOrigin}, epoch : Nat \cup {Unlabelled},
   generation : Nat \cup {Unlabelled}, timing_ok : BOOLEAN,
   identity : BOOLEAN]

-----------------------------------------------------------------------------
energy_path_active(tr) ==
  \/ tr.state \in {"UnlockedAcquire", "CandidateVerify"}
  \/ tr.state = "Reacquire" /\ tr.global_energy

scheduled_path_active(tr) ==
  \/ tr.state \in {"ProvisionalTrack", "Locked", "Holdover"}
  \/ tr.state = "Reacquire" /\ ~tr.global_energy

reset_acquire(tr) ==
  [tr EXCEPT !.state = "UnlockedAcquire", !.identity_confirmed = FALSE,
             !.global_energy = TRUE, !.first_start = NoOrigin,
             !.timing_ok_count = 0, !.consecutive_misses = 0,
             !.neighborhood_tries = 0, !.epoch = @ + 1,
             !.generation = @ + 1, !.require_obs_provenance = FALSE]

configure(tr) == reset_acquire(tr)

NewTracker == reset_acquire(
  [state |-> "UnlockedAcquire", identity_confirmed |-> FALSE,
   global_energy |-> TRUE, first_start |-> NoOrigin, generation |-> 0,
   epoch |-> 0, timing_ok_count |-> 0, consecutive_misses |-> 0,
   neighborhood_tries |-> 0, require_obs_provenance |-> FALSE])

enter_reacquire(tr, neighborhood) ==
  [tr EXCEPT !.state = "Reacquire", !.global_energy = ~neighborhood,
             !.neighborhood_tries = IF neighborhood THEN 0 ELSE NeighborhoodSlots,
             !.identity_confirmed = neighborhood /\ @,
             !.epoch = IF neighborhood THEN @ ELSE @ + 1,
             !.generation = @ + 1]

note_discontinuity(tr) ==
  [enter_reacquire([tr EXCEPT !.generation = @ + 1], FALSE) EXCEPT
     !.first_start = NoOrigin, !.timing_ok_count = 0,
     !.consecutive_misses = 0, !.require_obs_provenance = TRUE]

note_candidate_emitted(tr) ==
  IF energy_path_active(tr) THEN [tr EXCEPT !.state = "CandidateVerify"] ELSE tr

FaultConfirmSameGeneration(tr, native) ==
  [tr EXCEPT !.identity_confirmed = TRUE, !.first_start = native,
             !.timing_ok_count = 1, !.consecutive_misses = 0,
             !.state = "ProvisionalTrack", !.global_energy = FALSE,
             !.neighborhood_tries = 0]

confirm_identity(tr, native) ==
  [tr EXCEPT !.identity_confirmed = TRUE, !.first_start = native,
             !.timing_ok_count = 1, !.consecutive_misses = 0,
             !.state = "ProvisionalTrack", !.global_energy = FALSE,
             !.neighborhood_tries = 0, !.generation = @ + 1]

FaultMissEarlyGlobal(tr) ==
  IF ~scheduled_path_active(tr) THEN tr
  ELSE LET missed == [tr EXCEPT !.consecutive_misses = @ + 1]
       IN IF missed.consecutive_misses >= reacquire_miss_count
          THEN enter_reacquire(missed, FALSE) ELSE missed

note_miss(tr) ==
  LET missed == [tr EXCEPT !.consecutive_misses = @ + 1]
      held == IF missed.state = "Locked"
                   /\ missed.consecutive_misses >= holdover_miss_count
              THEN [missed EXCEPT !.state = "Holdover"] ELSE missed
      tried == [held EXCEPT !.neighborhood_tries = @ + 1]
  IN IF ~scheduled_path_active(tr) THEN tr
     ELSE IF held.state # "Reacquire"
     THEN IF held.consecutive_misses >= reacquire_miss_count
          THEN enter_reacquire(held, TRUE) ELSE held
     ELSE IF tried.neighborhood_tries >= NeighborhoodSlots
          THEN enter_reacquire(tried, FALSE) ELSE tried

FaultTimingKeepsMisses(tr) ==
  LET n == IF tr.timing_ok_count < lock_observations
           THEN tr.timing_ok_count + 1 ELSE tr.timing_ok_count
      locks == \/ tr.state \in {"Holdover", "Reacquire"}
               \/ tr.state = "ProvisionalTrack" /\ n >= lock_observations
  IN [tr EXCEPT !.timing_ok_count = n, !.state = IF locks THEN "Locked" ELSE @]

\* timing_ok_count_ saturates where the code stops looking at it.
note_timing(tr) ==
  LET n == IF tr.timing_ok_count < lock_observations
           THEN tr.timing_ok_count + 1 ELSE tr.timing_ok_count
      locks == \/ tr.state \in {"Holdover", "Reacquire"}
               \/ tr.state = "ProvisionalTrack" /\ n >= lock_observations
  IN [tr EXCEPT !.consecutive_misses = 0, !.timing_ok_count = n,
                !.state = IF locks THEN "Locked" ELSE @]

reject_identity(tr) ==
  [tr EXCEPT !.state = IF @ = "CandidateVerify" THEN "UnlockedAcquire" ELSE @]

StaleObs(tr, obs) ==
  \/ obs.epoch # tr.epoch
     /\ (tr.require_obs_provenance \/ obs.epoch # Unlabelled)
  \/ obs.generation # tr.generation
     /\ (tr.require_obs_provenance \/ obs.generation # Unlabelled)

\* The Action on_lock_obs returns (TimingMiss also stands for the Ignored of
\* a miss, which note_miss answers while no schedule is followed).
on_lock_obs_action(tr, obs) ==
  CASE obs.native = NoOrigin -> "RejectedUnmapped"
    [] obs.native # NoOrigin /\ StaleObs(tr, obs) -> "IgnoredStale"
    [] OTHER -> IF ~tr.identity_confirmed
                THEN IF obs.identity THEN "ConfirmedIdentity"
                     ELSE "RejectedIdentity"
                ELSE IF obs.timing_ok THEN "TimingUpdate" ELSE "TimingMiss"

FaultReconfirm(tr, obs) ==
  LET action == on_lock_obs_action(tr, obs) IN
  CASE action = "ConfirmedIdentity" -> confirm_identity(tr, obs.native)
    [] action = "TimingUpdate" /\ obs.identity -> confirm_identity(tr, obs.native)
    [] action = "RejectedIdentity" -> reject_identity(tr)
    [] action = "TimingMiss" -> note_miss(tr)
    [] OTHER -> tr

on_lock_obs(tr, obs) ==
  LET action == on_lock_obs_action(tr, obs) IN
  CASE action = "ConfirmedIdentity" -> confirm_identity(tr, obs.native)
    [] action = "RejectedIdentity" -> reject_identity(tr)
    [] action = "TimingUpdate" -> note_timing(tr)
    [] action = "TimingMiss" -> note_miss(tr)
    [] OTHER -> tr

-----------------------------------------------------------------------------
VARIABLES
  tracker,   \* the object
  history    \* every <<generation, schedule>> a label could have been taken at

tvars == <<tracker, history>>

Holder(tr) == IF tr.identity_confirmed THEN tr.first_start ELSE NoOrigin

TrackerInit ==
  /\ tracker = configure(NewTracker)
  /\ history = {<<tracker.generation, NoOrigin>>}

Become(tr) ==
  /\ tracker' = tr
  /\ history' = history \cup {<<tr.generation, Holder(tr)>>}

Observe(obs) == Become(on_lock_obs(tracker, obs))
CandidateEmitted == Become(note_candidate_emitted(tracker))
Discontinuity == Become(note_discontinuity(tracker))
Reset == Become(configure(tracker))

\* Labels are taken from published packets, so none is from the future.
Heard == [native : Origin \cup {NoOrigin},
          epoch : 0..tracker.epoch \cup {Unlabelled},
          generation : 0..tracker.generation \cup {Unlabelled},
          timing_ok : BOOLEAN, identity : BOOLEAN]

TrackerNext ==
  /\ tracker.generation < MaxGeneration
  /\ \/ \E obs \in Heard : Observe(obs)
     \/ CandidateEmitted
     \/ Discontinuity
     \/ Reset

TrackerSpec == TrackerInit /\ [][TrackerNext]_tvars

-----------------------------------------------------------------------------
TypeOK == /\ tracker \in Tracker
          /\ history \subseteq Nat \X (Origin \cup {NoOrigin})

\* The scheduled path of work() runs exactly while an identity is confirmed
\* and its origin is known, and energy is searched exactly when it is not
\* (the two flags are set in five different methods).
PathOK(tr) ==
  /\ tr.identity_confirmed <=> scheduled_path_active(tr)
  /\ tr.identity_confirmed => tr.first_start # NoOrigin
PathMatchesIdentity == PathOK(tracker)

\* Where the miss counters stand in every followed state: a lock survives
\* fewer than holdover_miss_count misses, a track or a holdover fewer than
\* reacquire_miss_count, and a neighbourhood search has used exactly the
\* misses beyond those (consecutive_misses_ is not reset on the way).
BudgetOK(tr) ==
  /\ tr.state = "Locked" => tr.consecutive_misses < holdover_miss_count
  /\ tr.state \in {"ProvisionalTrack", "Holdover"} =>
       tr.consecutive_misses < reacquire_miss_count
  /\ tr.state = "Reacquire" /\ ~tr.global_energy =>
       /\ tr.neighborhood_tries < neighborhood_budget
       /\ tr.consecutive_misses = reacquire_miss_count + tr.neighborhood_tries
MissBudget == BudgetOK(tracker)

\* A schedule is given up only after the whole budget of consecutive misses,
\* or because the stream broke or a reset was asked for: no single bad
\* observation, whatever its labels, ends a track.
LostOnlyAfterMisses ==
  [][(tracker.identity_confirmed /\ ~tracker'.identity_confirmed
        /\ tracker'.first_start # NoOrigin) =>
       tracker'.consecutive_misses = reacquire_miss_count + neighborhood_budget]_tvars

\* The tracker is a schedule lease: one holder at a time, never swapped
\* while held, every label naming one hunt or one schedule.
lease == INSTANCE ScheduleLease WITH
           holder <- Holder(tracker), version <- tracker.generation,
           Version <- Nat
ImplementsLease == lease!LSpec
LabelNamesOneSchedule == lease!LabelNamesOneSchedule
=============================================================================
