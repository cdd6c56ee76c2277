------------------------- MODULE RealtimeDemodulator -------------------------
(***************************************************************************)
(* UwbRealtimeDemodulator: the message-only block that decodes window PDUs *)
(* on a pool of worker threads behind a bounded queue.                     *)
(*                                                                         *)
(* Threads: the block's own thread (start, the two message handlers, stop; *)
(* the scheduler runs them one after the other), NumWorkers workers, and   *)
(* any application threads that call the public drain().  All of them      *)
(* share d_queue_mutex_ and ONE condition variable, d_queue_cv_.  A        *)
(* critical section is one step.  `asleep` is the wait set of d_queue_cv_: *)
(* notify_all empties it, notify_one removes any one member, and a thread  *)
(* outside it re-evaluates its own predicate when it next gets the mutex.  *)
(*                                                                         *)
(* Decoding is abstract: a job ends in one of Outcomes; the two of Timed   *)
(* carry a SYNC timing and so drive schedule_feedback, the third stands    *)
(* for a failed timing search and for an exception, the injected fault of  *)
(* the test-only fail_packet command included.                             *)
(* Malformed PDUs are counted and answered by a status message; they touch *)
(* nothing else and are left out, as are latencies and status snapshots.   *)
(***************************************************************************)
EXTENDS Integers, Sequences, FiniteSets, Functions

CONSTANTS
  Workers,         \* worker thread ids; d_num_workers_ is their number
  QueueCapacity,   \* d_queue_capacity_
  Callers,         \* application threads that may call drain()
  Handler,         \* the block's own thread
  MaxPackets,      \* bound: packets posted in a run
  MaxStarts,       \* bound: start() calls in a run
  MaxResets        \* bound: reset_stats commands in a run

ASSUME PoolAssumption ==
  /\ IsFiniteSet(Workers) /\ Workers # {}
  /\ QueueCapacity \in Nat \ {0}
  /\ Handler \notin Workers \cup Callers
  /\ Workers \cap Callers = {}
  /\ MaxPackets \in Nat /\ MaxStarts \in Nat /\ MaxResets \in Nat

Packets  == 1..MaxPackets
NoPacket == 0
Timed    == {"success", "late_failure"}
Outcomes == Timed \cup {"no_timing"}

VARIABLES
  queue,       \* d_queue_: packet ids
  stopFlag,    \* d_stop_
  idle,        \* d_idle_workers_
  asleep,      \* threads in the wait set of d_queue_cv_
  wpc,         \* where each worker is; "none" before it is spawned
  job,         \* the packet each worker holds
  hpc,         \* where the block's thread is
  draining,    \* threads inside drain()
  stats,       \* received, completed, failed, dropped counters
  sent,        \* packets posted so far (the next id)
  accepted,    \* packets the queue took
  result,      \* the outcome published on "result" for each packet
  feedback,    \* packets published on "schedule_feedback"
  starts,      \* start() calls so far
  resets       \* reset_stats commands so far

poolVars   == <<queue, stopFlag, idle, asleep>>
workerVars == <<wpc, job>>
outVars    == <<result, feedback>>
bounds     == <<starts, resets>>
vars == <<poolVars, workerVars, hpc, draining, stats, sent, accepted, outVars, bounds>>

NumWorkers == Cardinality(Workers)

Init ==
  /\ queue = <<>> /\ stopFlag = FALSE /\ idle = 0 /\ asleep = {}
  /\ wpc = [w \in Workers |-> "none"]
  /\ job = [w \in Workers |-> NoPacket]
  /\ hpc = "stopped" /\ draining = {}
  /\ stats = [received |-> 0, completed |-> 0, failed |-> 0, dropped |-> 0]
  /\ sent = 0 /\ accepted = {}
  /\ result = [p \in Packets |-> "none"] /\ feedback = {}
  /\ starts = 0 /\ resets = 0

----------------------------------------------------------------------------
(* The predicates the threads wait for, and the wait itself.               *)

Drained == queue = <<>> /\ idle = NumWorkers

(* drain(): under the mutex, return if the pool is drained, else sleep.    *)
DrainCheck(t) ==
  IF Drained THEN /\ draining' = draining \ {t}
                  /\ UNCHANGED asleep
             ELSE /\ draining' = draining \cup {t}
                  /\ asleep' = asleep \cup {t}

(* Faults, for the mutants of the properties below: the job is copied but  *)
(* not popped; the busy worker stays counted idle; the stop flag wins over *)
(* queued jobs.                                                            *)
FaultTakeKeepsJob(w, i, s) ==
  \/ /\ queue # <<>>
     /\ idle' = i - 1 /\ asleep' = s
     /\ job' = [job EXCEPT ![w] = Head(queue)]
     /\ wpc' = [wpc EXCEPT ![w] = "decode"]
     /\ UNCHANGED queue
  \/ /\ queue = <<>>
     /\ idle' = i
     /\ asleep' = IF stopFlag THEN s ELSE s \cup {w}
     /\ wpc' = [wpc EXCEPT ![w] = IF stopFlag THEN "exited" ELSE "wait"]
     /\ UNCHANGED <<job, queue>>

FaultTakeStaysIdle(w, i, s) ==
  \/ /\ queue # <<>>
     /\ idle' = i /\ asleep' = s
     /\ job' = [job EXCEPT ![w] = Head(queue)]
     /\ queue' = Tail(queue)
     /\ wpc' = [wpc EXCEPT ![w] = "decode"]
  \/ /\ queue = <<>>
     /\ idle' = i
     /\ asleep' = IF stopFlag THEN s ELSE s \cup {w}
     /\ wpc' = [wpc EXCEPT ![w] = IF stopFlag THEN "exited" ELSE "wait"]
     /\ UNCHANGED <<job, queue>>

FaultStopBeforeJobs(w, i, s) ==
  \/ /\ queue # <<>> /\ ~stopFlag
     /\ idle' = i - 1 /\ asleep' = s
     /\ job' = [job EXCEPT ![w] = Head(queue)]
     /\ queue' = Tail(queue)
     /\ wpc' = [wpc EXCEPT ![w] = "decode"]
  \/ /\ stopFlag \/ queue = <<>>
     /\ idle' = i
     /\ asleep' = IF stopFlag THEN s ELSE s \cup {w}
     /\ wpc' = [wpc EXCEPT ![w] = IF stopFlag THEN "exited" ELSE "wait"]
     /\ UNCHANGED <<job, queue>>

(* wait() of a worker, with i the idle count and s the wait set it sees:   *)
(* take a job, leave the pool, or sleep.  A queued job is taken even when  *)
(* the stop flag is set; an exiting worker stays counted as idle.          *)
TakeOrWait(w, i, s) ==
  \/ /\ queue # <<>>
     /\ idle' = i - 1 /\ asleep' = s
     /\ job' = [job EXCEPT ![w] = Head(queue)]
     /\ queue' = Tail(queue)
     /\ wpc' = [wpc EXCEPT ![w] = "decode"]
  \/ /\ queue = <<>> /\ stopFlag
     /\ idle' = i /\ asleep' = s
     /\ wpc' = [wpc EXCEPT ![w] = "exited"]
     /\ UNCHANGED <<job, queue>>
  \/ /\ queue = <<>> /\ ~stopFlag
     /\ idle' = i /\ asleep' = s \cup {w}
     /\ wpc' = [wpc EXCEPT ![w] = "wait"]
     /\ UNCHANGED <<job, queue>>

----------------------------------------------------------------------------
(* Worker threads                                                          *)

(* Fault: the drain() callers are not woken here.                          *)
FaultArriveQuietly(w) ==
  /\ wpc[w] = "top"
  /\ TakeOrWait(w, idle + 1, asleep)
  /\ UNCHANGED <<stopFlag, hpc, draining, stats, sent, accepted, outVars, bounds>>

(* Top of the loop: count itself idle, wake the drain() callers, wait.     *)
Arrive(w) ==
  /\ wpc[w] = "top"
  /\ TakeOrWait(w, idle + 1, {})
  /\ UNCHANGED <<stopFlag, hpc, draining, stats, sent, accepted, outVars, bounds>>

(* A worker that was woken evaluates its predicate again.                  *)
Recheck(w) ==
  /\ wpc[w] = "wait" /\ w \notin asleep
  /\ TakeOrWait(w, idle, asleep)
  /\ UNCHANGED <<stopFlag, hpc, draining, stats, sent, accepted, outVars, bounds>>

(* demodulate_one, or an exception out of it; the counters; publish_result *)
(* up to the "result" message.  The counters are read by nothing but       *)
(* reset_stats, so counting and publishing are one step.                   *)
Decode(w) ==
  /\ wpc[w] = "decode"
  /\ \E o \in Outcomes :
       /\ result' = [result EXCEPT ![job[w]] = o]
       /\ stats' = IF o = "success" THEN [stats EXCEPT !.completed = @ + 1]
                                    ELSE [stats EXCEPT !.failed = @ + 1]
       /\ wpc' = [wpc EXCEPT ![w] = IF o \in Timed THEN "feedback" ELSE "notify"]
  /\ UNCHANGED <<poolVars, job, hpc, draining, sent, accepted, feedback, bounds>>

PublishFeedback(w) ==
  /\ wpc[w] = "feedback"
  /\ feedback' = feedback \cup {job[w]}
  /\ wpc' = [wpc EXCEPT ![w] = "notify"]
  /\ UNCHANGED <<poolVars, job, hpc, draining, stats, sent, accepted, result, bounds>>

(* notify_all after the result; the job is released at the loop's end.     *)
FinishJob(w) ==
  /\ wpc[w] = "notify"
  /\ asleep' = {}
  /\ wpc' = [wpc EXCEPT ![w] = "top"]
  /\ job' = [job EXCEPT ![w] = NoPacket]
  /\ UNCHANGED <<queue, stopFlag, idle, hpc, draining, stats, sent, accepted, outVars, bounds>>

WorkerStep(w) ==
  Arrive(w) \/ Recheck(w) \/ Decode(w) \/ PublishFeedback(w) \/ FinishJob(w)

----------------------------------------------------------------------------
(* drain(), from the block's thread (a control message) or an application  *)
(* thread.                                                                 *)

Ready == hpc = "running" /\ Handler \notin draining

DrainCall(t) ==
  /\ t = Handler => Ready
  /\ t \notin draining
  /\ DrainCheck(t)
  /\ UNCHANGED <<queue, stopFlag, idle, workerVars, hpc, stats, sent, accepted, outVars, bounds>>

DrainRecheck(t) ==
  /\ t \in draining \ asleep
  /\ DrainCheck(t)
  /\ UNCHANGED <<queue, stopFlag, idle, workerVars, hpc, stats, sent, accepted, outVars, bounds>>

(* C++ lets any waiter wake without a notification.                        *)
SpuriousWakeup(t) ==
  /\ t \in asleep
  /\ asleep' = asleep \ {t}
  /\ UNCHANGED <<queue, stopFlag, idle, workerVars, hpc, draining, stats, sent, accepted, outVars, bounds>>

----------------------------------------------------------------------------
(* The block's own thread                                                  *)

Joined == \A w \in Workers : wpc[w] \in {"none", "exited"}

(* start() and stop() both begin by raising the stop flag, notifying all   *)
(* and joining whatever workers there are.                                 *)
BeginStart ==
  /\ hpc = "stopped" /\ starts < MaxStarts
  /\ starts' = starts + 1
  /\ stopFlag' = TRUE
  /\ hpc' = "start_notify"
  /\ UNCHANGED <<queue, idle, asleep, workerVars, draining, stats, sent, accepted, outVars, resets>>

BeginStop ==
  /\ Ready
  /\ stopFlag' = TRUE
  /\ hpc' = "stop_notify"
  /\ UNCHANGED <<queue, idle, asleep, workerVars, draining, stats, sent, accepted, outVars, bounds>>

NotifyStop ==
  /\ hpc \in {"start_notify", "stop_notify"}
  /\ asleep' = {}
  /\ hpc' = IF hpc = "start_notify" THEN "start_join" ELSE "stop_join"
  /\ UNCHANGED <<queue, stopFlag, idle, workerVars, draining, stats, sent, accepted, outVars, bounds>>

FinishStart ==
  /\ hpc = "start_join" /\ Joined
  /\ stopFlag' = FALSE /\ idle' = 0
  /\ wpc' = [w \in Workers |-> "top"]
  /\ hpc' = "running"
  /\ UNCHANGED <<queue, asleep, job, draining, stats, sent, accepted, outVars, bounds>>

FinishStop ==
  /\ hpc = "stop_join" /\ Joined
  /\ wpc' = [w \in Workers |-> "none"]
  /\ hpc' = "stopped"
  /\ UNCHANGED <<poolVars, job, draining, stats, sent, accepted, outVars, bounds>>

(* (Fault...: what a plausible bug would make of the action that follows;  *)
(* the specification does not use it.)  A push that is not notified.       *)
FaultPushSilently ==
  /\ Ready /\ sent < MaxPackets /\ Len(queue) < QueueCapacity
  /\ sent' = sent + 1
  /\ stats' = [stats EXCEPT !.received = @ + 1]
  /\ queue' = Append(queue, sent + 1)
  /\ accepted' = accepted \cup {sent + 1}
  /\ UNCHANGED <<stopFlag, idle, asleep, hpc, workerVars, draining, outVars, bounds>>

(* handle_samples, up to and including enqueue: a full queue drops the     *)
(* packet, otherwise it is queued and one notification is due.             *)
HandleSamples ==
  /\ Ready /\ sent < MaxPackets
  /\ sent' = sent + 1
  /\ IF Len(queue) >= QueueCapacity
     THEN /\ stats' = [stats EXCEPT !.received = @ + 1, !.dropped = @ + 1]
          /\ UNCHANGED <<queue, accepted, hpc>>
     ELSE /\ stats' = [stats EXCEPT !.received = @ + 1]
          /\ queue' = Append(queue, sent + 1)
          /\ accepted' = accepted \cup {sent + 1}
          /\ hpc' = "notify"
  /\ UNCHANGED <<stopFlag, idle, asleep, workerVars, draining, outVars, bounds>>

(* notify_one after the mutex is released: any one waiter, of any kind.    *)
NotifyOne ==
  /\ hpc = "notify"
  /\ IF asleep = {} THEN UNCHANGED asleep ELSE \E t \in asleep : asleep' = asleep \ {t}
  /\ hpc' = "running"
  /\ UNCHANGED <<queue, stopFlag, idle, workerVars, draining, stats, sent, accepted, outVars, bounds>>

(* reset_stats: the counters are zeroed one store at a time while the      *)
(* workers keep counting.                                                  *)
BeginReset ==
  /\ Ready /\ resets < MaxResets
  /\ resets' = resets + 1
  /\ stats' = [stats EXCEPT !.received = 0]
  /\ hpc' = "reset_completed"
  /\ UNCHANGED <<poolVars, workerVars, draining, sent, accepted, outVars, starts>>

ResetCompleted ==
  /\ hpc = "reset_completed"
  /\ stats' = [stats EXCEPT !.completed = 0]
  /\ hpc' = "reset_failed"
  /\ UNCHANGED <<poolVars, workerVars, draining, sent, accepted, outVars, bounds>>

ResetFailed ==
  /\ hpc = "reset_failed"
  /\ stats' = [stats EXCEPT !.failed = 0, !.dropped = 0]
  /\ hpc' = "running"
  /\ UNCHANGED <<poolVars, workerVars, draining, sent, accepted, outVars, bounds>>

HandlerStep ==
  \/ NotifyStop \/ FinishStart \/ FinishStop \/ NotifyOne \/ ResetCompleted \/ ResetFailed

Next ==
  \/ \E w \in Workers : WorkerStep(w)
  \/ \E t \in Callers \cup {Handler} : DrainCall(t) \/ DrainRecheck(t)
  \/ \E t \in asleep : SpuriousWakeup(t)
  \/ BeginStart \/ BeginStop \/ HandleSamples \/ BeginReset
  \/ HandlerStep

Spec == Init /\ [][Next]_vars

(* Threads that are runnable run: workers between their waits, a woken     *)
(* drain() caller, and the block's thread once it is inside a call.        *)
(* Nothing makes anyone post a packet, call drain, stop or start.          *)
FairSpec ==
  /\ Spec
  /\ \A w \in Workers : WF_vars(WorkerStep(w))
  /\ \A t \in Callers \cup {Handler} : WF_vars(DrainRecheck(t))
  /\ WF_vars(HandlerStep)

----------------------------------------------------------------------------
(* Properties                                                              *)

Stats == [received : Nat, completed : Nat, failed : Nat, dropped : Nat]

(* The type invariant: the values the block's members range over.          *)
TypeOK ==
  /\ queue \in Seq(Packets) /\ Len(queue) <= QueueCapacity
  /\ stopFlag \in BOOLEAN /\ idle \in 0..NumWorkers
  /\ asleep \subseteq Workers \cup Callers \cup {Handler}
  /\ wpc \in [Workers -> {"none", "top", "wait", "decode", "feedback", "notify", "exited"}]
  /\ job \in [Workers -> Packets \cup {NoPacket}]
  /\ hpc \in {"stopped", "start_notify", "start_join", "running", "notify", "reset_completed",
              "reset_failed", "stop_notify", "stop_join"}
  /\ draining \subseteq Callers \cup {Handler}
  /\ stats \in Stats
  /\ sent \in 0..MaxPackets /\ accepted \subseteq Packets
  /\ result \in [Packets -> Outcomes \cup {"none"}] /\ feedback \subseteq Packets
  /\ starts \in 0..MaxStarts /\ resets \in 0..MaxResets

Queued    == Range(queue)
Working   == {w \in Workers : wpc[w] \in {"decode", "feedback", "notify"}}
Published == {p \in Packets : result[p] # "none"}

(* Every accepted packet is in exactly one place: queued once, held by one *)
(* worker that has not published it, or published.  "publishes one result  *)
(* PDU per accepted job": none is lost between the queue and a worker,     *)
(* none is decoded twice, a dropped packet gets no result.                 *)
Unpublished == {job[w] : w \in {v \in Workers : wpc[v] = "decode"}}
OneResultPerJob ==
  /\ accepted = Queued \cup Unpublished \cup Published
  /\ Queued \cap Unpublished = {} /\ (Queued \cup Unpublished) \cap Published = {}
  /\ IsInjective(queue)
  /\ \A v, w \in Working : job[v] = job[w] => v = w

(* drained(), and hence the return of drain(), means what its callers use  *)
(* it for: every packet accepted so far has its result out, and its        *)
(* schedule feedback too when it had a timing.  Workers count themselves   *)
(* idle only after both messages are published.                            *)
DrainedMeansFlushed ==
  Drained => /\ accepted = Published
             /\ feedback = {p \in Packets : result[p] \in Timed}

(* When stop() returns nothing accepted is left behind: workers leave only *)
(* once the queue is empty.                                                *)
StopFlushes == hpc = "stopped" => accepted = Published

(* Work conservation: as long as some worker sleeps on the condition       *)
(* variable, there are no more queued jobs than workers awake, counting    *)
(* the notification the handler still owes.  Every push is followed by its *)
(* own notify_one, and only a worker may consume it.                       *)
NoStrandedJob ==
  LET live == {w \in Workers : wpc[w] \notin {"none", "exited"}}
      owed == IF hpc = "notify" THEN 1 ELSE 0
  IN  live \cap asleep # {} => Len(queue) <= Cardinality(live \ asleep) + owed

(* The pool as a black box: held and finished jobs, at most the queue plus *)
(* one job per worker.                                                     *)
Pool == INSTANCE WorkPool WITH
          Jobs <- Packets, Limit <- QueueCapacity + NumWorkers,
          held <- Queued \cup Unpublished, finished <- Published

(* The block implements the bounded work pool, liveness included: a fair   *)
(* scheduler leaves no accepted job undecoded.                             *)
ImplementsPool == Pool!FairSpec

(* An accepted job gets its result.                                        *)
AcceptedGetResult == \A p \in Packets : p \in accepted ~> p \in Published

(* A drain command answered by the block's own thread returns.             *)
DrainReturns == \A t \in Callers \cup {Handler} : t \in draining ~> t \notin draining
=============================================================================
