----------------------- MODULE AutoScheduledExtractor -----------------------
(***************************************************************************)
(* UwbAutoScheduledExtractorSc16: the block that owns an acquisition       *)
(* tracker, an energy state machine sm_ and a window core sched_, with one *)
(* worker thread that verifies and publishes what the two cores captured,  *)
(* a bounded job queue between work() and the worker, and a pending area   *)
(* that demodulator feedback and control messages are left in.             *)
(*                                                                         *)
(* Time advances one packet slot per work() call, and a packet's position  *)
(* is its slot.  What the work thread still has to do in its call is a     *)
(* sequence of operations, todo, consumed from its head: the code's nested *)
(* calls put theirs in front.  The worker's steps interleave anywhere, and *)
(* so do the messages of other threads.  The cores keep only what crosses  *)
(* the thread boundary: what is ready to be taken, and the schedule.       *)
(***************************************************************************)
EXTENDS Integers, Sequences, FiniteSets, SequencesExt

CONSTANTS
  Unlabelled,
  LockObservations, HoldoverMissCount, ReacquireMissCount, NeighborhoodSlots,
  JobQueueSize,       \* kJobQueueSize
  PendingObsCap,      \* kPendingObsCap
  WorkSizes,          \* which grants work() gets: "live" (>= 64k), "small",
                      \* "sentinel" (a single item)
  MaxBursts,          \* bound: energy regions captured in one slot
  MaxTime,            \* bound: slots of the stream
  StopFrom,           \* bound: the first slot at which the block is stopped
  MaxControls,        \* bound: discontinuities and resets
  MaxReports          \* bound: misses reported by the application

ASSUME ExtractorAssumption ==
  /\ Unlabelled \notin Nat
  /\ LockObservations \in Nat /\ HoldoverMissCount \in Nat
  /\ ReacquireMissCount \in Nat /\ NeighborhoodSlots \in Nat
  /\ JobQueueSize \in Nat \ {0} /\ PendingObsCap \in Nat \ {0}
  /\ WorkSizes \subseteq {"live", "small", "sentinel"} /\ WorkSizes # {}
  /\ MaxBursts \in Nat /\ MaxTime \in Nat /\ StopFrom \in Nat
  /\ MaxControls \in Nat /\ MaxReports \in Nat

Slot == 0..MaxTime
NoOrigin == -1

VARIABLES
  tracker,      \* tracker_
  sched,        \* sched_: [live, origin], live while configured and not paused
  ready,        \* regions and windows captured and not yet taken
  jobs,         \* d_job_queue_
  inflight,     \* the job the worker has popped, if any
  worker,       \* where the worker is in its loop
  label,        \* the epoch the worker has read for the packet's meta data
  acquire,      \* [outstanding, next]: d_acquire_outstanding_, d_next_acquire_abs_
  pending,      \* d_pending_obs_, d_pending_disc_, d_pending_reset_
  todo,         \* what the work thread still does in its call
  phase,        \* "running", "stopping", "stopped"
  now,          \* d_current_sample_, in slots
  segment,      \* how often the stream's continuity broke or was reset
  segmentGen,   \* the generation the present segment began with
  packets,      \* PDUs published and still at the demodulator
  bounds        \* controls and reports sent so far

vars == <<tracker, sched, ready, jobs, inflight, worker, label, acquire,
          pending, todo, phase, now, segment, segmentGen, packets, bounds>>

\* The tracker's methods, on positions that are slots.
T == INSTANCE Qm35AcquisitionTracker WITH
       Origin <- Slot, NoOrigin <- NoOrigin, MaxGeneration <- 0, history <- {}

NoPending == [obs |-> <<>>, disc |-> FALSE, reset |-> FALSE]
NoJob == [kind |-> "none", slot |-> 0, index |-> 0, segment |-> 0]
Job == [kind : {"Acquisition", "Scheduled"}, slot : Slot, index : Slot,
        segment : Nat]

Acquisitions(s) == {i \in DOMAIN s : s[i].kind = "Acquisition"}

WorkerIdle == jobs = <<>> /\ inflight = NoJob

-----------------------------------------------------------------------------
(* Construction and the scheduler's calls: start, work, stop.              *)

Init ==
  /\ tracker = T!configure(T!NewTracker)
  /\ sched = [live |-> TRUE, origin |-> 0]
  /\ ready = <<>> /\ jobs = <<>> /\ inflight = NoJob
  /\ worker = "wait" /\ label = 0
  /\ acquire = [outstanding |-> 0, next |-> 0]
  /\ pending = NoPending
  /\ todo = <<>> /\ phase = "running" /\ now = 0
  /\ segment = 0 /\ segmentGen = tracker.generation
  /\ packets = {} /\ bounds = [controls |-> 0, reports |-> 0]

WorkScript(size) ==
  << <<"apply">>, <<"tags">>, <<"process">>, <<"enqueue">> >>
  \o (IF size # "live" THEN << <<"idle if hunting">> >> ELSE <<>>)
  \o << <<"apply">> >>
  \o (IF size = "sentinel" THEN << <<"idle">>, <<"apply">> >> ELSE <<>>)

work ==
  /\ phase = "running" /\ todo = <<>> /\ now < MaxTime
  /\ \E size \in WorkSizes : todo' = WorkScript(size)
  /\ UNCHANGED <<tracker, sched, ready, jobs, inflight, worker, label, acquire,
                 pending, phase, now, segment, segmentGen, packets, bounds>>

\* drain_pending_obs applies pending observations again and again (17 times
\* in the code, DrainRounds here) to let the demodulator's last ones land.
DrainRounds == 2

StopScript ==
  << <<"apply">>, <<"flush">>, <<"enqueue">>, <<"idle">> >>
  \o [i \in 1..DrainRounds |-> <<"apply">>] \o << <<"join">> >>

stop ==
  /\ phase = "running" /\ todo = <<>> /\ now >= StopFrom
  /\ phase' = "stopping" /\ todo' = StopScript
  /\ UNCHANGED <<tracker, sched, ready, jobs, inflight, worker, label, acquire,
                 pending, now, segment, segmentGen, packets, bounds>>

start ==
  /\ phase = "stopped" /\ now < MaxTime
  /\ phase' = "running" /\ worker' = "wait"
  /\ jobs' = <<>> /\ inflight' = NoJob
  /\ acquire' = [outstanding |-> 0, next |-> 0]
  /\ UNCHANGED <<tracker, sched, ready, label, pending, todo, now, segment,
                 segmentGen, packets, bounds>>

-----------------------------------------------------------------------------
(* The operations of the work thread.                                      *)

At(op) == todo # <<>> /\ Head(todo)[1] = op
Continue(ops) == todo' = ops \o Tail(todo)

coreVars == <<tracker, sched, segment, segmentGen>>
workerVars == <<inflight, worker, label>>
outside == <<phase, packets, bounds>>

FaultDiscontinuityNoWait ==
  LET p == pending IN
  (IF p.reset THEN << <<"enqueue">>, <<"idle">>, <<"reset">> >> ELSE <<>>)
  \o (IF p.disc THEN << <<"discontinuity">> >> ELSE <<>>)
  \o [i \in DOMAIN p.obs |-> <<"obs", p.obs[i]>>]

\* apply_pending's snapshot: a reset comes first, then a discontinuity,
\* which throws away the observations taken with it, then the observations.
Snapshot ==
  LET p == pending IN
  (IF p.reset THEN << <<"enqueue">>, <<"idle">>, <<"reset">> >> ELSE <<>>)
  \o (IF p.disc THEN << <<"enqueue">>, <<"idle">>, <<"discontinuity">> >>
      ELSE [i \in DOMAIN p.obs |-> <<"obs", p.obs[i]>>])

apply_pending ==
  /\ At("apply")
  /\ Continue(Snapshot)
  /\ pending' = NoPending
  /\ UNCHANGED <<coreVars, ready, jobs, workerVars, acquire, now, outside>>

NewSegment(tr) == segment' = segment + 1 /\ segmentGen' = tr.generation

\* do_reset, after its enqueue and wait.
apply_reset ==
  /\ At("reset") /\ Continue(<<>>)
  /\ tracker' = T!configure(tracker)
  /\ sched' = [sched EXCEPT !.live = TRUE]
  /\ ready' = <<>>
  /\ acquire' = [outstanding |-> 0, next |-> 0]
  /\ NewSegment(tracker')
  /\ UNCHANGED <<jobs, workerVars, pending, now, outside>>

\* handle_discontinuity, after its enqueue and wait.
handle_discontinuity ==
  /\ At("discontinuity") /\ Continue(<<>>)
  /\ tracker' = T!note_discontinuity(tracker)
  /\ pending' = [pending EXCEPT !.obs = <<>>]
  /\ sched' = [sched EXCEPT !.live = FALSE]
  /\ ready' = <<>>
  /\ acquire' = [outstanding |-> 0, next |-> 0]
  /\ NewSegment(tracker')
  /\ UNCHANGED <<jobs, workerVars, now, outside>>

IdentitySchedule == [live |-> TRUE, origin |-> tracker.first_start]

\* apply_identity_schedule, after its enqueue and wait.
apply_identity_schedule ==
  /\ At("identity") /\ Continue(<<>>)
  /\ sched' = IdentitySchedule
  /\ ready' = <<>>
  /\ UNCHANGED <<tracker, segment, segmentGen, jobs, workerVars, acquire,
                 pending, now, outside>>

AsObservation(o) ==
  [native |-> o.packet.slot, epoch |-> o.packet.epoch,
   generation |-> o.packet.generation, timing_ok |-> o.timing_ok,
   identity |-> o.identity]

FaultIdentityNoWait == << <<"identity">> >>
IdentityScript == << <<"enqueue">>, <<"idle">>, <<"identity">> >>

FaultForgetsSchedule(prev, action) == <<>>

\* What apply_one_obs does after the tracker has answered.  A schedule lost
\* to misses pauses the window core only when that changed the state's name,
\* which it never does: neighbourhood and global search are both Reacquire.
AfterObs(prev, action) ==
  IF action = "ConfirmedIdentity" THEN IdentityScript ELSE <<>>

apply_one_obs ==
  /\ At("obs")
  /\ LET obs == AsObservation(Head(todo)[2])
         action == T!on_lock_obs_action(tracker, obs)
         lost == /\ action = "TimingMiss"
                 /\ tracker'.state # tracker.state
                 /\ tracker'.state = "Reacquire" /\ tracker'.global_energy
     IN /\ tracker' = T!on_lock_obs(tracker, obs)
        /\ Continue(AfterObs(tracker, action))
        /\ sched' = IF lost THEN [sched EXCEPT !.live = FALSE] ELSE sched
        /\ ready' = IF lost THEN <<>> ELSE ready
  /\ UNCHANGED <<segment, segmentGen, jobs, workerVars, acquire, pending, now,
                 outside>>

\* A jump of the rx_time tag is a discontinuity of its own.
scan_rx_time_tags ==
  /\ At("tags")
  /\ \/ Continue(<<>>) /\ UNCHANGED bounds
     \/ /\ bounds.controls < MaxControls
        /\ bounds' = [bounds EXCEPT !.controls = @ + 1]
        /\ Continue(<< <<"enqueue">>, <<"idle">>, <<"discontinuity">> >>)
  /\ UNCHANGED <<coreVars, ready, jobs, workerVars, acquire, pending, now,
                 phase, packets>>

Region == [kind |-> "Acquisition", slot |-> now, index |-> 0,
           segment |-> segment]
Window == [kind |-> "Scheduled", slot |-> now, index |-> now - sched.origin,
           segment |-> segment]

\* One slot of samples goes to the path the tracker is on.
process ==
  /\ At("process") /\ Continue(<<>>)
  /\ now' = now + 1
  /\ \/ /\ T!energy_path_active(tracker)
        /\ \E n \in 0..MaxBursts : ready' = ready \o [i \in 1..n |-> Region]
     \/ /\ T!scheduled_path_active(tracker)
        /\ ready' = IF sched.live /\ now > sched.origin
                    THEN Append(ready, Window) ELSE ready
  /\ UNCHANGED <<coreVars, jobs, workerVars, acquire, pending, outside>>

\* flush_region may complete a region that was being captured.
flush ==
  /\ At("flush") /\ Continue(<<>>)
  /\ \/ UNCHANGED ready
     \/ T!energy_path_active(tracker) /\ ready' = Append(ready, Region)
  /\ UNCHANGED <<coreVars, jobs, workerVars, acquire, pending, now, outside>>

RateLimited(j) == j.kind = "Acquisition"
                  /\ (acquire.outstanding > 0 \/ j.slot < acquire.next)

\* enqueue_ready_jobs: all regions, then all windows, one at a time; a
\* region over the rate and whatever finds the queue full is released.
enqueue_ready_jobs ==
  /\ At("enqueue")
  /\ IF ready = <<>>
     THEN Continue(<<>>) /\ UNCHANGED <<ready, jobs, acquire>>
     ELSE LET j == Head(ready)
              queued == ~RateLimited(j) /\ Len(jobs) < JobQueueSize
          IN /\ ready' = Tail(ready)
             /\ jobs' = IF queued THEN Append(jobs, j) ELSE jobs
             /\ acquire' = IF queued /\ j.kind = "Acquisition"
                           THEN [outstanding |-> acquire.outstanding + 1,
                                 next |-> j.slot + 1]
                           ELSE acquire
             /\ UNCHANGED todo
  /\ UNCHANGED <<coreVars, workerVars, pending, now, outside>>

wait_for_worker_idle ==
  /\ \/ At("idle") /\ WorkerIdle
     \/ At("idle if hunting") /\ (T!energy_path_active(tracker) => WorkerIdle)
  /\ Continue(<<>>)
  /\ UNCHANGED <<coreVars, ready, jobs, workerVars, acquire, pending, now,
                 outside>>

\* shutdown_worker, after worker_loop has returned.
shutdown_worker ==
  /\ At("join") /\ worker = "exited" /\ Continue(<<>>)
  /\ phase' = "stopped"
  /\ UNCHANGED <<coreVars, ready, jobs, workerVars, acquire, pending, now,
                 packets, bounds>>

WorkStep ==
  \/ apply_pending \/ apply_reset \/ handle_discontinuity
  \/ apply_identity_schedule \/ apply_one_obs \/ scan_rx_time_tags
  \/ process \/ flush \/ enqueue_ready_jobs \/ wait_for_worker_idle
  \/ shutdown_worker

-----------------------------------------------------------------------------
(* The worker.  epoch() and generation() are read without the lock.        *)

workVars == <<coreVars, ready, pending, todo, phase, now, bounds>>

worker_take ==
  /\ worker = "wait" /\ jobs # <<>>
  /\ inflight' = Head(jobs) /\ jobs' = Tail(jobs)
  /\ worker' = IF inflight'.kind = "Acquisition" THEN "verify" ELSE "epoch"
  /\ UNCHANGED <<workVars, label, acquire, packets>>

worker_exit ==
  /\ worker = "wait" /\ jobs = <<>> /\ At("join")
  /\ worker' = "exited"
  /\ UNCHANGED <<workVars, jobs, inflight, label, acquire, packets>>

FaultRejectSkipsRelease == "wait"
AfterReject == "done"

\* publish_acquisition: a region whose preamble is not confirmed ends here.
publish_acquisition ==
  /\ worker = "verify"
  /\ \/ worker' = AfterReject /\ UNCHANGED tracker
     \/ worker' = "epoch" /\ tracker' = T!note_candidate_emitted(tracker)
  /\ UNCHANGED <<sched, segment, segmentGen, ready, pending, todo, phase, now,
                 bounds, jobs, inflight, label, acquire, packets>>

read_epoch ==
  /\ worker = "epoch" /\ label' = tracker.epoch /\ worker' = "publish"
  /\ UNCHANGED <<workVars, jobs, inflight, acquire, packets>>

publish ==
  /\ worker = "publish" /\ worker' = "done" /\ label' = 0
  /\ packets' = packets \cup
       {[slot |-> inflight.slot, index |-> inflight.index, epoch |-> label,
         generation |-> tracker.generation, segment |-> inflight.segment]}
  /\ UNCHANGED <<workVars, jobs, inflight, acquire>>

FaultDoneKeepsOutstanding(kind) == acquire.outstanding
Outstanding(kind) ==
  IF kind = "Acquisition" /\ acquire.outstanding > 0
  THEN acquire.outstanding - 1 ELSE acquire.outstanding

worker_done ==
  /\ worker = "done" /\ worker' = "wait" /\ inflight' = NoJob
  /\ acquire' = [acquire EXCEPT !.outstanding = Outstanding(inflight.kind)]
  /\ UNCHANGED <<workVars, jobs, label, packets>>

WorkerStep == worker_take \/ worker_exit \/ publish_acquisition
              \/ read_epoch \/ publish \/ worker_done

-----------------------------------------------------------------------------
(* The other threads: the demodulator answers a packet with feedback, the  *)
(* application reports a slot whose packet was missed, and control tells   *)
(* of discontinuities and resets.                                          *)

others == <<tracker, sched, segment, segmentGen, ready, jobs, workerVars,
            acquire, todo, phase, now>>

\* handle_lock_obs_msg: the seventeenth observation is lost.
handle_lock_obs_msg(o) ==
  pending' = IF Len(pending.obs) < PendingObsCap
             THEN [pending EXCEPT !.obs = Append(@, o)] ELSE pending

\* The demodulator copies the labels; a packet without schedule_index, as
\* an acquisition is, counts as index 0.  It may also never answer.
DemodFeedback ==
  /\ phase # "stopped"
  /\ \E p \in packets, pass \in BOOLEAN :
       /\ handle_lock_obs_msg([packet |-> p, timing_ok |-> TRUE, identity |-> pass])
       /\ packets' = packets \ {p}
  /\ UNCHANGED <<others, bounds>>

ReportMiss ==
  /\ phase # "stopped" /\ bounds.reports < MaxReports
  /\ \E p \in packets :
       /\ p.index > 0
       /\ handle_lock_obs_msg([packet |-> p, timing_ok |-> FALSE, identity |-> FALSE])
       /\ packets' = packets \ {p}
  /\ bounds' = [bounds EXCEPT !.reports = @ + 1]
  /\ UNCHANGED others

handle_control_msg ==
  /\ phase # "stopped" /\ bounds.controls < MaxControls
  /\ \/ pending' = [pending EXCEPT !.disc = TRUE]
     \/ pending' = [pending EXCEPT !.reset = TRUE]
  /\ bounds' = [bounds EXCEPT !.controls = @ + 1]
  /\ UNCHANGED <<others, packets>>

Next == work \/ stop \/ start \/ WorkStep \/ WorkerStep
        \/ DemodFeedback \/ ReportMiss \/ handle_control_msg

Spec == Init /\ [][Next]_vars

\* The operating system runs both threads; nobody is obliged to call work(),
\* to post a message or to stop the block.
FairSpec == Spec /\ WF_vars(WorkStep) /\ WF_vars(WorkerStep)

-----------------------------------------------------------------------------
TypeOK ==
  /\ tracker.state \in T!LockState
  /\ sched \in [live : BOOLEAN, origin : Slot]
  /\ ready \in Seq(Job) /\ jobs \in Seq(Job) /\ Len(jobs) <= JobQueueSize
  /\ inflight \in Job \cup {NoJob}
  /\ worker \in {"wait", "verify", "epoch", "publish", "done", "exited"}
  /\ acquire \in [outstanding : 0..1, next : 0..MaxTime + 1]
  /\ Len(pending.obs) <= PendingObsCap
  /\ phase \in {"running", "stopping", "stopped"}
  /\ now \in Slot /\ segment \in Nat /\ segmentGen \in Nat

\* The counters that limit the rate of verification are the truth: as many
\* verifications are outstanding as jobs are queued or with the worker, and
\* never more than one (counted by two threads, zeroed by a third path).
VerifyThrottle ==
  /\ acquire.outstanding =
       Cardinality(Acquisitions(jobs)) + IF inflight.kind = "Acquisition" THEN 1 ELSE 0
  /\ acquire.outstanding <= 1

\* The cores are reset or reconfigured only with every handle back:
\* "configure()/reset() require zero checked-out handles".
DrainedBeforeReset ==
  At("reset") \/ At("discontinuity") \/ At("identity") => WorkerIdle /\ ready = <<>>

\* The schedule that cuts windows is the one the tracker confirmed, however
\* resets, discontinuities and observations were ordered in one apply.
ScheduleFollowsTracker ==
  At("process") /\ T!scheduled_path_active(tracker) =>
    sched.live /\ sched.origin = tracker.first_start

\* Labels never cross a break of the stream: whatever is at the demodulator
\* or pending under a label of the present segment was captured in it, so
\* feedback from before a discontinuity or a reset is always stale.
SegmentsNeverMix ==
  LET heard == packets \cup {o.packet : o \in ToSet(pending.obs)} IN
  \A p \in heard : p.generation >= segmentGen => p.segment = segment

\* No wait for the worker lasts for ever.
WaitsEnd == At("idle") ~> ~At("idle")
=============================================================================
