--------------------------- MODULE FixedExtractor ---------------------------
(***************************************************************************)
(* UwbScheduledExtractorSc16: work() cuts the windows of a fixed schedule  *)
(* into a pool of slots and one worker thread publishes them.              *)
(*                                                                         *)
(* A sample is its position in the stream.  work() goes through its loop   *)
(* turn by turn; what the two threads do under d_mutex_ is one step, and   *)
(* a wait on d_cv_, whose waiters are always all notified, is a guard.     *)
(***************************************************************************)
EXTENDS ScheduleGeometry, MessagePorts, SequencesExt

CONSTANTS
  PoolSize,
  Guards,           \* [pre, capture, post]
  Schedules,        \* schedules to choose from: [first, period]
  Rate,             \* sample_rate
  StreamLength,     \* samples of the stream
  Grants            \* noutput_items that work() may get, besides the 1 of
                    \* the end of the stream

ASSUME ExtractorAssumption ==
  /\ PoolSize \in Nat \ {0} /\ StreamLength \in Nat \ {0}
  /\ Grants \subseteq Nat \ {0}
  /\ {Guards.pre, Guards.capture, Guards.post} \subseteq Nat
  /\ window_capacity(Guards) > 0
  /\ \A s \in Schedules : s.first \in Nat /\ s.period \in Nat \ {0}

VARIABLES
  schedule,
  sample,           \* d_current_sample_
  index,            \* d_next_schedule_index_
  active,           \* d_active_slot_
  slot,             \* d_slots_
  jobs,             \* d_jobs_
  publisher,        \* where the worker is, and the slot it has
  call,             \* where work() is: its phase and what it has left
  tally             \* the counters

extVars == <<schedule, sample, index, active, slot, jobs, publisher, call, tally>>

NoSlot == 0
EmptySlot == [inUse |-> FALSE, iq |-> <<>>, index |-> 0]

Bounds == window_bounds_for_slot(schedule, Guards, index)
Capacity == window_capacity(Guards)

ExtractorInit ==
  /\ schedule \in Schedules
  /\ sample = 0 /\ index = 0 /\ active = NoSlot
  /\ slot = [i \in 1..PoolSize |-> EmptySlot]
  /\ jobs = <<>> /\ publisher = [at |-> "wait", idx |-> NoSlot]
  /\ call = [at |-> "idle", left |-> 0, sentinel |-> FALSE]
  /\ tally = [scheduled |-> 0, completed |-> 0, emitted |-> 0, dropped |-> 0]

-----------------------------------------------------------------------------
(* The block's thread.                                                     *)

\* All but the last sample of a grant; the last one is consumed alone.
work ==
  /\ call.at = "idle" /\ sample < StreamLength
  /\ \E n \in Grants \cup {1} :
       /\ sample + n <= StreamLength
       /\ call' = [at |-> "begin", left |-> IF n > 1 THEN n - 1 ELSE n,
                   sentinel |-> n = 1]
  /\ UNCHANGED <<schedule, sample, index, active, slot, jobs, publisher, tally, inbox>>

Turn(phase) == call.at = phase /\ call.left > 0

FreeSlots == {i \in 1..PoolSize : ~slot[i].inUse}
FirstFree == CHOOSE i \in FreeSlots : \A j \in FreeSlots : i <= j

\* begin_next_window, at the head of each turn
StartWindow ==
  /\ active = NoSlot /\ sample >= Bounds.start /\ sample < Bounds.end
  /\ IF FreeSlots = {}
       THEN /\ tally' = [tally EXCEPT !.scheduled = @ + 1, !.dropped = @ + 1]
            /\ index' = index + 1
            /\ UNCHANGED <<slot, active>>
       ELSE /\ active' = FirstFree
            /\ slot' = [slot EXCEPT ![FirstFree] =
                          [inUse |-> TRUE, iq |-> <<>>, index |-> index]]
            /\ tally' = [tally EXCEPT !.scheduled = @ + 1]
            /\ UNCHANGED index
MissWindow ==
  /\ active = NoSlot /\ sample >= Bounds.end
  /\ index' = index + 1
  /\ tally' = [tally EXCEPT !.dropped = @ + 1]
  /\ UNCHANGED <<slot, active>>
NothingToBegin ==
  /\ active # NoSlot \/ sample < Bounds.start
  /\ UNCHANGED <<index, slot, active, tally>>

begin_next_window ==
  /\ Turn("begin")
  /\ call' = [call EXCEPT !.at = "advance"]
  /\ StartWindow \/ MissWindow \/ NothingToBegin
  /\ UNCHANGED <<schedule, sample, jobs, publisher, inbox>>

\* finish_active_window, of the slots s as they are then: a window that is not
\* full, or finds no place in the ring, is dropped.
Finished(s) ==
  LET full == Len(s[active].iq) = Capacity
      room == Len(jobs) < PoolSize
  IN  /\ active' = NoSlot /\ index' = index + 1
      /\ IF full /\ room
           THEN /\ jobs' = Append(jobs, active)
                /\ slot' = s
                /\ tally' = [tally EXCEPT !.completed = @ + 1]
           ELSE /\ slot' = [s EXCEPT ![active].inUse = FALSE]
                /\ tally' = [tally EXCEPT !.dropped = @ + 1]
                /\ UNCHANGED jobs

\* Up to the limit, or to the end of the chunk
Stretch(limit) == GeoMin(sample + call.left, limit) - sample
Move(n) ==
  /\ sample' = sample + n
  /\ call' = [call EXCEPT !.at = "begin", !.left = @ - n]

skip ==
  /\ Turn("advance")
  /\ \/ sample < Bounds.start /\ Move(Stretch(Bounds.start))
     \/ sample >= Bounds.start /\ active = NoSlot /\ Move(Stretch(Bounds.end))
  /\ UNCHANGED <<schedule, index, active, slot, jobs, publisher, tally, inbox>>

copy ==
  LET n == Stretch(Bounds.end)
      filled == [slot EXCEPT ![active].iq = @ \o [i \in 1..n |-> sample + i - 1]]
  IN /\ Turn("advance") /\ active # NoSlot /\ sample >= Bounds.start
     /\ Move(n)
     /\ IF sample + n = Bounds.end
          THEN Finished(filled)
          ELSE slot' = filled /\ UNCHANGED <<index, active, jobs, tally>>
     /\ UNCHANGED <<schedule, publisher, inbox>>

Idle == jobs = <<>> /\ publisher.idx = NoSlot

\* The call that gets one item waits until the worker has published everything.
work_returns ==
  /\ call.at = "begin" /\ call.left = 0
  /\ call.sentinel => Idle
  /\ call' = [call EXCEPT !.at = "idle"]
  /\ UNCHANGED <<schedule, sample, index, active, slot, jobs, publisher, tally, inbox>>

\* stop(), when the stream has ended or the flowgraph is stopped (ended)
stop(ended) ==
  /\ call.at = "idle" /\ ended
  /\ call' = [call EXCEPT !.at = "join"]
  /\ IF active = NoSlot THEN UNCHANGED <<index, active, slot, jobs, tally>>
                        ELSE Finished(slot)
  /\ UNCHANGED <<schedule, sample, publisher, inbox>>

stopped ==
  /\ call.at = "join" /\ publisher.at = "exit"
  /\ call' = [call EXCEPT !.at = "stopped"]
  /\ UNCHANGED <<schedule, sample, index, active, slot, jobs, publisher, tally, inbox>>

-----------------------------------------------------------------------------
(* worker_loop                                                             *)

take_job ==
  /\ publisher.at = "wait" /\ jobs # <<>>
  /\ publisher' = [at |-> "publish", idx |-> Head(jobs)]
  /\ jobs' = Tail(jobs)
  /\ UNCHANGED <<schedule, sample, index, active, slot, call, tally, inbox>>

worker_exit ==
  /\ publisher.at = "wait" /\ jobs = <<>> /\ call.at = "join"
  /\ publisher' = [publisher EXCEPT !.at = "exit"]
  /\ UNCHANGED <<schedule, sample, index, active, slot, jobs, call, tally, inbox>>

Packet(s) ==
  LET b == window_bounds_for_slot(schedule, Guards, s.index)
  IN [format |-> "sc16", odd |-> FALSE, iq |-> s.iq,
      meta |-> [packet_id |-> s.index, schedule_index |-> s.index,
                predicted_start_sample |-> b.predicted,
                window_start_sample |-> b.start, sample_count |-> Len(s.iq),
                pre_guard_samples |-> Guards.pre,
                capture_samples |-> Guards.capture,
                post_guard_samples |-> Guards.post, sample_rate |-> Rate]]

publish_slot ==
  /\ publisher.at = "publish"
  /\ inbox' = Published(inbox, "extractor", Packet(slot[publisher.idx]))
  /\ tally' = [tally EXCEPT !.emitted = @ + 1]
  /\ publisher' = [publisher EXCEPT !.at = "free"]
  /\ UNCHANGED <<schedule, sample, index, active, slot, jobs, call>>

free_slot ==
  /\ publisher.at = "free"
  /\ slot' = [slot EXCEPT ![publisher.idx].inUse = FALSE]
  /\ publisher' = [at |-> "wait", idx |-> NoSlot]
  /\ UNCHANGED <<schedule, sample, index, active, jobs, call, tally, inbox>>

ExtractorThread == work \/ begin_next_window \/ skip \/ copy \/ work_returns \/ stopped
ExtractorWorker == take_job \/ publish_slot \/ free_slot \/ worker_exit
=============================================================================
