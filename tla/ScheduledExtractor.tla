------------------------- MODULE ScheduledExtractor -------------------------
(***************************************************************************)
(* UwbScheduledExtractor (CF32): a block whose work() cuts windows on a    *)
(* schedule and hands them to one worker thread.  Any thread may leave a   *)
(* new configuration, a pause, a resume, a reset or an observation of a    *)
(* packet's timing in a pending area under d_cfg_mutex_; work() applies    *)
(* them between chunks, after waiting for the worker when the pool is to   *)
(* be rebuilt.                                                             *)
(*                                                                         *)
(* Each critical section is one action.  Samples are not kept: which index *)
(* a new schedule starts from, whether a window begins or ends in a chunk  *)
(* and whether an update comes too late for the next window are choices    *)
(* (ScheduledWindowCore has the positions).  A wait on d_job_cv_ is a      *)
(* guard: its two waiters are never asleep together when it is notified    *)
(* once.                                                                   *)
(***************************************************************************)
EXTENDS ScheduleLockTracker, FiniteSets, Functions

CONSTANTS
  Handle, kInvalid,   \* the slots of core_'s pool, and "no handle"
  kJobQueueSize,
  Seeds,              \* the grids that configurations bring
  FirstSeed,          \* the constructor's
  Truth,              \* the grid the packets are on
  Errors,             \* what a detection may be off by: jitter, drift,
                      \* a false peak
  MaxK,               \* bound: indices of one schedule
  MaxInputs           \* bound: calls of the control interface, observations
                      \* and restarts

Grid == [t0 : Int, T : Nat \ {0}]
Policy == {"Drop", "EmitPartial"}
Config == [grid : Grid, eos : Policy]

ASSUME ExtractorAssumption ==
  /\ kInvalid \notin Handle /\ IsFiniteSet(Handle) /\ Handle # {}
  /\ kJobQueueSize \in Nat /\ Cardinality(Handle) <= kJobQueueSize
  /\ Seeds \subseteq Grid /\ FirstSeed \in Seeds /\ Truth \in Grid
  /\ Errors \subseteq Nat
  /\ MaxK \in Nat /\ MaxInputs \in Nat

Index == 0..MaxK

VARIABLES
  core,       \* core_: configuration, next index, state and pool
  tracker,    \* d_lock_
  pending,    \* the d_pending_ fields
  pc,         \* where the block's thread is
  rebuild,    \* do_reset || do_cfg of apply_pending_config's snapshot
  jobs,       \* d_job_queue_
  worker,     \* where the worker is, and the handle it has
  stopping,   \* d_worker_stop_
  status,     \* the event that work() has just published for a lock update
  asked,      \* history: the configuration that should be in force
              \* once nothing is pending
  era,        \* history: configurations applied, and the one the
              \* schedule's last lock update was learned under
  inputs      \* inputs so far

vars == <<core, tracker, pending, pc, rebuild, jobs, worker, stopping, status,
          asked, era, inputs>>

Empty == -1

NoPending ==
  [reset |-> FALSE, cfg |-> FALSE, pause |-> FALSE, resume |-> FALSE,
   lock |-> FALSE, force |-> FALSE, config |-> [grid |-> FirstSeed, eos |-> "Drop"],
   update |-> FirstSeed, era |-> 0]

-----------------------------------------------------------------------------
(* The window core, as functions of its record.                            *)

release(c, hs) ==
  [c EXCEPT !.free = @ \cup hs, !.out = @ \ hs,
            !.slot = [h \in Handle |-> IF h \in hs THEN Empty ELSE @[h]]]

abort_active_window(c) ==
  [release(c, {c.active} \ {kInvalid}) EXCEPT !.active = kInvalid]

FaultRebuildAll(c) == Handle
rebuild_free(c) == Handle \ c.out

FaultWipeAll(c) == Handle
Wiped(c) == Handle \ c.out

\* What reset and configure share: the ready ring is drained, and whatever
\* the worker still has checked out is left alone.
Rebuilt(c) ==
  [c EXCEPT !.free = rebuild_free(c), !.ready = <<>>, !.active = kInvalid,
            !.slot = [h \in Handle |-> IF h \in Wiped(c) THEN Empty ELSE @[h]],
            !.k = 0, !.state = "Unlocked", !.paused = FALSE]

core_reset(c) == Rebuilt(c)

\* configure and then set_schedule, which starts from the index k.
core_configure(c, config, k) ==
  [Rebuilt(c) EXCEPT !.config = config, !.k = k, !.state = "WaitWindow"]

\* Keeps the prediction of the next index.
Continuous(c, update) ==
  [t0 |-> At(c.config.grid, c.k) - c.k * update.T, T |-> update.T]

\* The absolute update is tried first if forced; each try fails if it would
\* come too late.  fit is how the tries end.
LockOutcomes(force) ==
  IF force THEN {"absolute", "continuous", "late"} ELSE {"continuous", "late"}

update_locked_params(c, update, fit) ==
  CASE fit = "absolute"   -> [c EXCEPT !.config.grid = update]
    [] fit = "continuous" -> [c EXCEPT !.config.grid = Continuous(c, update)]
    [] fit = "late"       -> c

core_pause(c) ==
  [abort_active_window(c) EXCEPT !.paused = TRUE, !.state = "Paused"]

core_resume(c, k) ==
  IF c.state \in {"Paused", "Unlocked"}
    THEN [c EXCEPT !.paused = FALSE, !.k = k, !.state = "WaitWindow"]
    ELSE [c EXCEPT !.paused = FALSE]

finish_active_window(c) ==
  [c EXCEPT !.ready = Append(@, c.active), !.active = kInvalid, !.k = @ + 1,
            !.state = "WaitWindow"]

\* An unfinished last window is given up or sent, as the policy says.
flush_eos(c) ==
  IF c.active = kInvalid THEN c
  ELSE IF c.config.eos = "Drop"
    THEN [abort_active_window(c) EXCEPT !.state = "WaitWindow"]
    ELSE finish_active_window(c)

-----------------------------------------------------------------------------
Init ==
  /\ core = [config |-> [grid |-> FirstSeed, eos |-> "Drop"], k |-> 0,
             state |-> "WaitWindow", paused |-> FALSE,
             free |-> Handle, ready |-> <<>>, out |-> {}, active |-> kInvalid,
             slot |-> [h \in Handle |-> Empty]]
  /\ tracker = NewTracker(FirstSeed)
  /\ pending = NoPending
  /\ pc = "idle" /\ rebuild = FALSE
  /\ jobs = <<>> /\ worker = [at |-> "wait", handle |-> kInvalid]
  /\ stopping = FALSE /\ status = "none"
  /\ asked = core.config /\ era = [now |-> 0, learned |-> 0]
  /\ inputs = 0

-----------------------------------------------------------------------------
(* The control interface: set_schedule and the other calls of any thread,  *)
(* and the "schedule" messages, which are handled between two work calls.  *)

blockVars == <<core, pc, rebuild, jobs, worker, stopping, status, era>>

Input ==
  /\ inputs < MaxInputs
  /\ inputs' = inputs + 1

Call == Input /\ UNCHANGED blockVars

\* Each call starts again from the configuration in force.
Ask(config) ==
  /\ Call
  /\ pending' = [pending EXCEPT !.cfg = TRUE, !.config = config]
  /\ asked' = config
  /\ UNCHANGED tracker

set_schedule == \E s \in Seeds : Ask([core.config EXCEPT !.grid = s])

set_partial_eos_policy == \E p \in Policy : Ask([core.config EXCEPT !.eos = p])

pause_schedule ==
  Call /\ pending' = [pending EXCEPT !.pause = TRUE] /\ UNCHANGED <<tracker, asked>>
resume_schedule ==
  Call /\ pending' = [pending EXCEPT !.resume = TRUE] /\ UNCHANGED <<tracker, asked>>
reset_schedule ==
  Call /\ pending' = [pending EXCEPT !.reset = TRUE] /\ UNCHANGED <<tracker, asked>>

set_schedule_lock_enabled ==
  /\ Call
  /\ \/ /\ tracker' = [tracker EXCEPT !.enabled = TRUE]
        /\ UNCHANGED pending
     \/ /\ tracker' = [reset(tracker, core.config.grid) EXCEPT !.enabled = FALSE]
        /\ pending' = [pending EXCEPT !.lock = FALSE]
  /\ UNCHANGED asked

\* Where an observer may see packet k.
Detections(k) == {At(Truth, k) + e : e \in Errors}

note_lock_observation(k, det) ==
  LET seen == observe(tracker, k, det)
      force == tracker.state # "Hold" /\ seen.tracker.state = "Hold"
  IN IF ~tracker.enabled
       THEN UNCHANGED <<tracker, pending>>
       ELSE /\ tracker' = seen.tracker
            /\ pending' = IF ~seen.apply THEN pending
                          ELSE [pending EXCEPT
                                  !.lock = TRUE, !.force = force,
                                  !.update = seen.tracker.est,
                                  !.era = era.now]

\* observe_detection, and lock_obs messages: the demodulator's timings of
\* windows published earlier.
observe_detection ==
  /\ Input
  /\ \E k \in Index : \E det \in Detections(k) : note_lock_observation(k, det)
  /\ UNCHANGED <<blockVars, asked>>

Control ==
  \/ set_schedule \/ set_partial_eos_policy
  \/ pause_schedule \/ resume_schedule \/ reset_schedule
  \/ set_schedule_lock_enabled

-----------------------------------------------------------------------------
(* The block's thread.                                                     *)

others == <<asked, inputs>>

WorkerIdle == jobs = <<>> /\ worker.handle = kInvalid

\* enqueue_ready_windows: take_window for each, and release_window for those
\* that find the queue full.
Enqueue(c) ==
  LET room == kJobQueueSize - Len(jobs)
      fits == IF Len(c.ready) <= room THEN c.ready ELSE SubSeq(c.ready, 1, room)
      rest == Range(c.ready) \ Range(fits)
  IN /\ jobs' = jobs \o fits
     /\ core' = release([c EXCEPT !.ready = <<>>, !.out = @ \cup Range(fits)], rest)

\* apply_pending_config's snapshot.
work ==
  /\ pc = "idle"
  /\ rebuild' = (pending.reset \/ pending.cfg)
  /\ IF rebuild' THEN pc' = "drain" /\ Enqueue(core)
                 ELSE pc' = "apply" /\ UNCHANGED <<core, jobs>>
  /\ UNCHANGED <<tracker, pending, worker, stopping, status, era, others>>

\* wait_for_worker_idle, before a rebuild and at the end of the stream.
wait_for_worker_idle ==
  /\ pc \in {"drain", "sentinel"} /\ WorkerIdle
  /\ pc' = IF pc = "drain" THEN "apply" ELSE "idle"
  /\ UNCHANGED <<core, tracker, pending, rebuild, jobs, worker, stopping,
                 status, era, others>>

\* The second critical section looks at the flags again, not at its snapshot.
FaultSnapshotOnly(p) == p.cfg /\ rebuild
HasConfig(p) == p.cfg

FaultLockSurvives(p) == p.lock
HasLock(p) == p.lock /\ ~p.reset /\ ~HasConfig(p)

\* With a reset and a configuration in one go the reset comes first; a lock
\* update is dropped by either; a resume comes last.
Configured(p, k) ==
  LET c == IF p.reset THEN core_reset(core) ELSE core
  IN IF HasConfig(p) THEN core_configure(c, p.config, k) ELSE c

Paused(c, p, k) ==
  LET c1 == IF p.pause THEN core_pause(c) ELSE c
  IN IF p.resume THEN core_resume(c1, k) ELSE c1

apply_pending_config ==
  /\ pc = "apply" /\ pc' = "chunk" /\ rebuild' = FALSE
  /\ \E k \in Index, resumed \in Index, fit \in LockOutcomes(pending.force) :
       LET p == pending
           c == Configured(p, k)
           locked == update_locked_params(c, p.update, fit)
           seeded == IF HasConfig(p) THEN reset(tracker, p.config.grid) ELSE tracker
           now == IF HasConfig(p) THEN era.now + 1 ELSE era.now
       IN IF HasLock(p) /\ fit # "late"
            THEN /\ core' = Paused(locked, p, resumed)
                 /\ tracker' = [seeded EXCEPT !.est = locked.config.grid]
                 /\ asked' = [asked EXCEPT !.grid = locked.config.grid]
                 /\ status' = "schedule_locked"
                 /\ era' = [now |-> now, learned |-> p.era]
            ELSE /\ core' = Paused(c, p, resumed)
                 /\ tracker' = seeded /\ UNCHANGED asked
                 /\ status' = IF HasLock(p) THEN "schedule_lock_rejected" ELSE "none"
                 /\ era' = [now |-> now,
                            learned |-> IF HasConfig(p) THEN now ELSE era.learned]
  /\ pending' = NoPending
  /\ UNCHANGED <<jobs, worker, stopping, inputs>>

begin_window(h) ==
  /\ pc = "chunk" /\ core.state = "WaitWindow" /\ core.k < MaxK /\ h \in core.free
  /\ core' = [core EXCEPT !.free = @ \ {h}, !.active = h, !.state = "CopyWindow",
                          !.slot[h] = core.k]
  /\ UNCHANGED <<tracker, pending, pc, rebuild, jobs, worker, stopping, status,
                 era, others>>

\* With every slot taken the window goes by and is counted as dropped.
starve_window ==
  /\ pc = "chunk" /\ core.state = "WaitWindow" /\ core.k < MaxK /\ core.free = {}
  /\ core' = [core EXCEPT !.k = @ + 1]
  /\ UNCHANGED <<tracker, pending, pc, rebuild, jobs, worker, stopping, status,
                 era, others>>

finish_window ==
  /\ pc = "chunk" /\ core.state = "CopyWindow"
  /\ core' = finish_active_window(core)
  /\ UNCHANGED <<tracker, pending, pc, rebuild, jobs, worker, stopping, status,
                 era, others>>

\* The chunk is used up; a chunk of one sample is the sentinel of the end.
end_chunk ==
  /\ pc = "chunk" /\ pc' \in {"idle", "sentinel"}
  /\ Enqueue(core)
  /\ status' = "none"
  /\ UNCHANGED <<tracker, pending, rebuild, worker, stopping, era, others>>

stop ==
  /\ pc = "idle" /\ pc' = "join"
  /\ Enqueue(flush_eos(core))
  /\ stopping' = TRUE
  /\ UNCHANGED <<tracker, pending, rebuild, worker, status, era, others>>

joined ==
  /\ pc = "join" /\ worker.at = "exit" /\ pc' = "stopped"
  /\ UNCHANGED <<core, tracker, pending, rebuild, jobs, worker, stopping,
                 status, era, others>>

start ==
  /\ pc = "stopped" /\ Input
  /\ pc' = "idle" /\ stopping' = FALSE
  /\ jobs' = <<>> /\ worker' = [at |-> "wait", handle |-> kInvalid]
  /\ UNCHANGED <<core, tracker, pending, rebuild, status, era, asked>>

BlockStep ==
  \/ wait_for_worker_idle \/ apply_pending_config
  \/ starve_window \/ finish_window \/ joined
  \/ \E h \in Handle : begin_window(h)

-----------------------------------------------------------------------------
(* The worker.                                                             *)

workVars == <<pc, rebuild, stopping, status, era, asked>>

worker_take ==
  /\ worker.at = "wait" /\ jobs # <<>>
  /\ worker' = [at |-> "publish", handle |-> Head(jobs)]
  /\ jobs' = Tail(jobs)
  /\ UNCHANGED <<workVars, core, tracker, pending, inputs>>

\* publish_window: a strong verification is an observation; whether the
\* window is sent, held back by the policy or fails makes no difference here.
publish_window ==
  /\ worker.at = "publish"
  /\ worker' = [worker EXCEPT !.at = "release"]
  /\ \/ UNCHANGED <<tracker, pending, inputs>>
     \/ /\ Input
        /\ \E det \in Detections(core.slot[worker.handle]) :
             note_lock_observation(core.slot[worker.handle], det)
  /\ UNCHANGED <<workVars, core, jobs>>

release_window ==
  /\ worker.at = "release"
  /\ core' = release(core, {worker.handle})
  /\ worker' = [worker EXCEPT !.at = "done"]
  /\ UNCHANGED <<workVars, tracker, pending, jobs, inputs>>

FaultKeepsInFlight == [worker EXCEPT !.at = "wait"]
Done == [at |-> "wait", handle |-> kInvalid]

worker_done ==
  /\ worker.at = "done" /\ worker' = Done
  /\ UNCHANGED <<workVars, core, tracker, pending, jobs, inputs>>

MayExit == stopping /\ jobs = <<>>

worker_exit ==
  /\ worker.at = "wait" /\ MayExit
  /\ worker' = [worker EXCEPT !.at = "exit"]
  /\ UNCHANGED <<workVars, core, tracker, pending, jobs, inputs>>

WorkerStep == worker_take \/ publish_window \/ release_window \/ worker_done
              \/ worker_exit

-----------------------------------------------------------------------------
Next == work \/ end_chunk \/ stop \/ start \/ BlockStep \/ WorkerStep
        \/ Control \/ observe_detection

Spec == Init /\ [][Next]_vars

-----------------------------------------------------------------------------
AtWorker == IF worker.at \in {"publish", "release"} THEN {worker.handle} ELSE {}

TypeOK ==
  /\ core.config \in Config /\ core.k \in Index
  /\ core.state \in {"Unlocked", "WaitWindow", "CopyWindow", "Paused"}
  /\ core.slot \in [Handle -> Index \cup {Empty}]
  /\ tracker.state \in {"Searching", "Learning", "Hold"}
  /\ tracker.est \in Grid /\ tracker.outliers \in 0..UnlockOutliers - 1
  /\ Len(tracker.buf) <= MaxBuffer
  /\ pending.update \in Grid /\ pending.config \in Config
  /\ pc \in {"idle", "drain", "apply", "chunk", "sentinel", "join", "stopped"}
  /\ jobs \in Seq(Handle) /\ Len(jobs) <= kJobQueueSize
  /\ worker \in [at : {"wait", "publish", "release", "done", "exit"},
                 handle : Handle \cup {kInvalid}]
  /\ asked \in Config

\* "configure/reset never wipes in-flight IQ": as long as a window is checked
\* out nobody touches its slot.
HeldWindowIntact ==
  [][\A h \in core.out : h \in core'.out => core'.slot[h] = core.slot[h]]_vars

\* No call is lost between the snapshot of the pending flags and the second
\* look at them: once nothing is pending, the configuration asked for last
\* is in force (moved by the lock updates since).
ConfigNotLost == ~pending.cfg => core.config = asked

\* A lock update that waits to be applied is dropped by the next configuration:
\* one that the tracker worked out under one configured schedule is never applied
\* to another.  (An observation cut under an earlier schedule counts for the one
\* in force when it is noted.)
StaleLockNeverApplied == era.learned = era.now

\* Nobody waits for nobody: while the block's thread waits for the worker,
\* in work() or in stop(), the worker has a step to take.
WaitIsServed ==
  (\/ pc \in {"drain", "sentinel"} /\ ~WorkerIdle
   \/ pc = "join" /\ worker.at # "exit")
  => ENABLED WorkerStep
=============================================================================
