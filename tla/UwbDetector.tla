---------------------------- MODULE UwbDetector ----------------------------
(***************************************************************************)
(* UwbDetector and UwbDetectorSc16: work() feeds the stream to             *)
(* UwbDetectorStateMachineT (uwb_detector_core.h), which cuts a region     *)
(* wherever the energy gate opens, and one worker thread looks for a       *)
(* preamble in each region and publishes a packet.                         *)
(*                                                                         *)
(* The stream is a signal chosen at the start: what each sample is, and    *)
(* where its frames begin.  A region holds positions in the stream, Zero   *)
(* for a sample that was never received; the energy gate and the search    *)
(* look at the samples there.                                              *)
(***************************************************************************)
EXTENDS PreambleSearch

CONSTANTS
  Handle, kInvalid,      \* the slots of d_region_pool_, kInvalidRegion
  Signals,               \* [iq, frames, calm, format, stride, starts]: format is
                         \* "fc32" for UwbDetector, "sc16" for UwbDetectorSc16;
                         \* stride d_coarse_stride_; starts, a bound, how often
                         \* the flow graph is started
  D, GateWindow,         \* gate_decimation_, gate_window_
  NeighLen,              \* neigh_len_
  EnergyThreshold,       \* of the mean block in the window
  History,               \* pre_trigger_ of the state machine
  Holdoff,               \* holdoff_decimated_
  Capture,               \* post_trigger_capture_ = d_capture_
  PreTrigger,            \* d_pre_trigger_ of the block
  MaxRegion,             \* max_region_samples_
  Grants, StreamLength   \* bounds

ASSUME DetectorAssumption ==
  /\ kInvalid \notin Handle /\ IsFiniteSet(Handle) /\ Handle # {}
  /\ {D, GateWindow, NeighLen, EnergyThreshold, Holdoff, Capture} \subseteq Nat \ {0}
  /\ PreTrigger \in Nat /\ History = PreTrigger + GateWindow * D + template_len
  /\ Grants \subseteq Nat \ {0}
  /\ \A s \in Signals : Len(s.iq) = StreamLength
  /\ MaxRegion \in Nat /\ History + Capture <= MaxRegion

VARIABLES
  signal,    \* what is received, and by which block
  sm,        \* sm_, without its ring
  ring,      \* pre_ring_: the last History samples
  pos, left, \* the next sample, and what is left of the chunk
  pc,        \* where the block's thread is
  jobs,      \* d_job_queue
  worker,    \* where the worker is, and the handle it has
  stopping,  \* d_worker_stop_
  crossings, \* history: how often the gate opened
  published, \* history: how many regions the worker has dealt with
  packets,   \* history: the PDUs, oldest first
  starts     \* starts so far

vars == <<signal, sm, ring, pos, left, pc, jobs, worker, stopping, crossings,
          published, packets, starts>>

Zero == -1
NoRegion == [start |-> 0, offset |-> 0, samples |-> <<>>, flushed |-> FALSE]

\* The next n samples of the stream.
Taken(n) == [i \in 1..n |-> pos + i - 1]

LastOf(s, n) == SubSeq(s, Len(s) - n + 1, Len(s))

\* What was received at these positions.
Received(positions) ==
  [i \in DOMAIN positions |->
     IF positions[i] = Zero THEN 0 ELSE At(signal.iq, positions[i])]

-----------------------------------------------------------------------------
(* UwbDetectorStateMachineT, as functions of its record.                   *)

NewMachine ==
  [state |-> "Search", low |-> 0, phase |-> 0, end |-> 0,
   gate |-> [blocks |-> <<>>, acc |-> 0],
   active |-> kInvalid, free |-> Handle, ready |-> <<>>, dropped |-> 0,
   region |-> [h \in Handle |-> NoRegion]]

\* The gate adds up the first NeighLen samples of each block.
accumulate(m, n) ==
  [m EXCEPT !.gate.acc = @ + Energy(Received(Taken(Lesser(n, Less(NeighLen, m.phase)))))]

\* SlidingEnergy: the blocks in the window.
finish_block(gate) ==
  [blocks |-> LastOf(Append(gate.blocks, gate.acc),
                     Lesser(GateWindow, Len(gate.blocks) + 1)),
   acc |-> 0]
Above(m) == SumFunction(m.gate.blocks) >= EnergyThreshold * Len(m.gate.blocks)

CompletesBlock(m, n) == m.phase + n = D
Fed(m, n) ==
  LET fed == [accumulate(m, n) EXCEPT !.phase = (@ + n) % D]
  IN IF CompletesBlock(m, n) THEN [fed EXCEPT !.gate = finish_block(@)] ELSE fed

release_region(m, h) ==
  [m EXCEPT !.free = @ \cup {h}, !.region[h] = NoRegion]

\* A region that outgrows its slot is given up, the energy run is not.
GiveUp(m) ==
  [release_region(m, m.active) EXCEPT !.active = kInvalid, !.dropped = @ + 1]

Overflows(m, n) ==
  m.active # kInvalid /\ Len(m.region[m.active].samples) + n > MaxRegion

\* Add the next n samples to the active region, if there is one.
Keep(m, n) ==
  IF m.active = kInvalid THEN m
  ELSE IF Overflows(m, n) THEN GiveUp(m)
  ELSE [m EXCEPT !.region[m.active].samples = @ \o Taken(n)]

finish_region(m) ==
  IF m.active = kInvalid THEN m
  ELSE [m EXCEPT !.ready = Append(@, m.active), !.active = kInvalid]

\* acquire_region's possible results.
Acquired(m) == IF m.free = {} THEN {kInvalid} ELSE m.free

FaultUncounted(m) == m
NoSlot(m) == [m EXCEPT !.dropped = @ + 1]

\* The gate opens at the sample `at`, with `history` in the ring.
Open(m, h, history, at) ==
  LET offset == History - 1
      opened == [m EXCEPT !.state = "InRegion", !.low = 0]
  IN IF h = kInvalid THEN NoSlot(opened)
     ELSE [opened EXCEPT
             !.active = h, !.free = @ \ {h}, !.end = at + 1 + Capture,
             !.region[h] = [start |-> IF at >= offset THEN at - offset ELSE 0,
                            offset |-> offset, samples |-> history,
                            flushed |-> FALSE]]

FaultNoCapture(m, at) == [finish_region(m) EXCEPT !.state = "Search", !.low = 0]
\* The gate has been low for the holdoff: copy on up to the horizon of the
\* capture, or finish.
Close(m, at) ==
  IF at + 1 < m.end THEN [m EXCEPT !.state = "Capture", !.low = 0]
                    ELSE [finish_region(m) EXCEPT !.state = "Search", !.low = 0]

\* update_gate in a region.
Lapse(m, at) ==
  IF Above(m) THEN [m EXCEPT !.low = 0]
  ELSE IF m.low + 1 < Holdoff THEN [m EXCEPT !.low = @ + 1]
  ELSE Close(m, at)

\* Only in a region: a machine in Capture keeps it.
flush_region(m) ==
  IF m.state # "InRegion" THEN m
  ELSE LET flushed == IF m.active = kInvalid THEN m
                      ELSE [m EXCEPT !.region[m.active].flushed = TRUE]
       IN [finish_region(flushed) EXCEPT !.state = "Search", !.low = 0]

-----------------------------------------------------------------------------
Init ==
  /\ signal \in Signals
  /\ sm = NewMachine
  /\ ring = [i \in 1..History |-> Zero]
  /\ pos = 0 /\ left = 0 /\ pc = "idle"
  /\ jobs = <<>> /\ worker = [at |-> "wait", handle |-> kInvalid]
  /\ stopping = FALSE
  /\ crossings = 0 /\ published = 0 /\ packets = <<>> /\ starts = 1

-----------------------------------------------------------------------------
(* The block's thread: process() inside work(), block by block.            *)

workerVars == <<signal, jobs, worker, stopping, published, packets, starts>>

\* All but the last sample of a grant; a grant of one is the end's sentinel.
work ==
  /\ pc = "idle"
  /\ \E n \in Grants :
       /\ pos + n <= StreamLength
       /\ left' = n
       /\ pc' \in IF n = 1 THEN {"process", "last"} ELSE {"process"}
  /\ UNCHANGED <<sm, ring, pos, crossings, workerVars>>

Processing == pc \in {"process", "last"} /\ left > 0

Consume(n) == pos' = pos + n /\ left' = left - n /\ UNCHANGED <<pc, workerVars>>

BlockPart == Lesser(D - sm.phase, left)

process_search ==
  LET n == BlockPart
      at == pos + n - 1
      history == LastOf(ring \o Taken(n), History)
      fed == Fed(sm, n)
  IN /\ Processing /\ sm.state = "Search"
     /\ ring' = history
     /\ Consume(n)
     /\ \/ /\ ~(CompletesBlock(sm, n) /\ Above(fed))
           /\ sm' = fed
           /\ UNCHANGED crossings
        \/ /\ CompletesBlock(sm, n) /\ Above(fed)
           /\ \E h \in Acquired(sm) : sm' = Open(fed, h, history, at)
           /\ crossings' = crossings + 1

process_region ==
  LET n == BlockPart
      kept == Fed(Keep(sm, n), n)
  IN /\ Processing /\ sm.state = "InRegion"
     /\ ring' = LastOf(ring \o Taken(n), History)
     /\ Consume(n)
     /\ sm' = IF CompletesBlock(sm, n) THEN Lapse(kept, pos + n - 1) ELSE kept
     /\ UNCHANGED crossings

\* The copy is not watched by the gate and does not pass through the ring.
process_capture ==
  LET n == Lesser(sm.end - pos, left)
      kept == Keep(sm, n)
  IN /\ Processing /\ sm.state = "Capture"
     /\ Consume(n)
     /\ sm' = IF pos + n >= sm.end
                THEN [finish_region(kept) EXCEPT !.state = "Search"] ELSE kept
     /\ UNCHANGED <<ring, crossings>>

\* enqueue_ready_regions: the queue has a place for every slot.
Enqueue(m) ==
  /\ jobs' = jobs \o m.ready
  /\ sm' = [m EXCEPT !.ready = <<>>]

end_work ==
  /\ pc \in {"process", "last"} /\ left = 0
  /\ pc' = IF pc = "last" THEN "drain" ELSE "idle"
  /\ Enqueue(sm)
  /\ UNCHANGED <<signal, ring, pos, left, worker, stopping, crossings, published,
                 packets, starts>>

wait_for_worker_idle ==
  /\ pc = "drain" /\ jobs = <<>> /\ worker.handle = kInvalid
  /\ pc' = "idle"
  /\ UNCHANGED <<sm, ring, pos, left, crossings, workerVars>>

stop ==
  /\ pc = "idle" /\ pc' = "join"
  /\ Enqueue(flush_region(sm))
  /\ stopping' = TRUE
  /\ UNCHANGED <<signal, ring, pos, left, worker, crossings, published, packets,
                 starts>>

joined ==
  /\ pc = "join" /\ worker.at = "exit" /\ pc' = "stopped"
  /\ UNCHANGED <<sm, ring, pos, left, crossings, workerVars>>

\* The state machine and the position go on where they were.
start ==
  /\ pc = "stopped" /\ starts < signal.starts
  /\ pc' = "idle" /\ starts' = starts + 1
  /\ jobs' = <<>> /\ worker' = [at |-> "wait", handle |-> kInvalid]
  /\ stopping' = FALSE
  /\ UNCHANGED <<signal, sm, ring, pos, left, crossings, published, packets>>

-----------------------------------------------------------------------------
(* The worker.                                                             *)

blockVars == <<signal, ring, pos, left, pc, stopping, crossings, starts>>

worker_take ==
  /\ worker.at = "wait" /\ jobs # <<>>
  /\ worker' = [at |-> "publish", handle |-> Head(jobs)]
  /\ jobs' = Tail(jobs)
  /\ UNCHANGED <<blockVars, sm, published, packets>>

\* [start - pre_trigger, start + capture) of a packet found at the offset e,
\* clamped to the region: the offsets [from, to) of what is sent.
WindowStart(r, e) == Greater(0, r.start + e - PreTrigger)
PduFrom(r, e) == Greater(0, WindowStart(r, e) - r.start)
PduTo(r, e) ==
  PduFrom(r, e) + Lesser(PreTrigger + Capture, Len(r.samples) - PduFrom(r, e))

Searched(r) ==
  IF signal.format = "sc16"
    THEN verify(Received(r.samples), r.offset, signal.stride)
    ELSE verify_cf32(Received(r.samples), r.offset, signal.stride)
Pdu(r, found) ==
  [start_sample |-> r.start + found.start_offset,
   predicted_start_sample |-> r.start + found.confirmed_offset,
   window_start_sample |-> WindowStart(r, found.start_offset),
   trigger_sample |-> r.start + r.offset,
   start_backtracked_symbols |-> found.backtracked_symbols,
   data |-> SubSeq(r.samples, PduFrom(r, found.start_offset) + 1,
                   PduTo(r, found.start_offset))]
Sent(r, found) ==
  IF found.confirmed THEN Append(packets, Pdu(r, found)) ELSE packets

\* publish_packet and release_region.
publish_packet ==
  /\ worker.at = "publish"
  /\ packets' = Sent(sm.region[worker.handle], Searched(sm.region[worker.handle]))
  /\ sm' = release_region(sm, worker.handle)
  /\ worker' = [worker EXCEPT !.at = "done"]
  /\ published' = published + 1
  /\ UNCHANGED <<blockVars, jobs>>

worker_done ==
  /\ worker.at = "done"
  /\ worker' = [at |-> "wait", handle |-> kInvalid]
  /\ UNCHANGED <<blockVars, sm, jobs, published, packets>>

worker_exit ==
  /\ worker.at = "wait" /\ stopping /\ jobs = <<>>
  /\ worker' = [worker EXCEPT !.at = "exit"]
  /\ UNCHANGED <<blockVars, sm, jobs, published, packets>>

-----------------------------------------------------------------------------
Next ==
  \/ work \/ process_search \/ process_region \/ process_capture \/ end_work
  \/ wait_for_worker_idle \/ stop \/ joined \/ start
  \/ worker_take \/ publish_packet \/ worker_done \/ worker_exit

Spec == Init /\ [][Next]_vars

-----------------------------------------------------------------------------
AtWorker == IF worker.at = "publish" THEN <<worker.handle>> ELSE <<>>

\* Finished regions in the order in which packets will leave.
Outgoing == AtWorker \o jobs \o sm.ready

Regions == [i \in DOMAIN Outgoing |-> sm.region[Outgoing[i]]]

\* The sample of a region at which the gate opened, and those from it on.
Trigger(r) == r.samples[r.offset + 1]
FromTrigger(r) == SubSeq(r.samples, r.offset + 1, Len(r.samples))

\* "no chunk-boundary artifacts": wherever the chunks end, a finished region is
\* the unbroken stream from its trigger on, and holds every sample of a packet
\* found before the trigger through its start + capture (unless the stream
\* ended).
RegionWhole ==
  \A i \in DOMAIN Regions : LET r == Regions[i] IN
    /\ FromTrigger(r) = [j \in DOMAIN FromTrigger(r) |-> Trigger(r) + j - 1]
    /\ r.flushed \/ \A e \in 0..r.offset : PduTo(r, e) >= e + Capture

\* Every time the gate opens its region reaches the worker, is on its way there
\* or is counted by dropped_regions(), once.
CrossingsAccounted ==
  crossings = published + sm.dropped + Len(Outgoing)
              + IF sm.active = kInvalid THEN 0 ELSE 1

Quiet == sm.state = "Search" /\ Outgoing = <<>> /\ sm.dropped = 0 /\ starts = 1

\* A frame is where its first SYNC begins and how many of its SYNCs are too weak
\* for the fine threshold.  The start that can be reported goes back over at most
\* MaxBacktrackSymbols of those.
Strongest(f) == f.at + f.weak * template_len
Reported(f) == Strongest(f) - Lesser(f.weak, MaxBacktrackSymbols) * template_len

Names(packet, f) ==
  /\ packet.start_sample = Reported(f)
  /\ packet.predicted_start_sample = Strongest(f)
Whole(packet, f) ==
  \A p \in Reported(f)..(Reported(f) + Capture - 1) : p \in Range(packet.data)

\* "packet start = earliest verified SYNC start; capture [start - pre_trigger,
\* start + capture) is emitted as a PDU", "Only confirmed preambles produce a
\* PDU": however the stream is cut into chunks and whenever the worker runs,
\* every frame whose region is over has one PDU, which names its first SYNC and
\* its first strong one and holds the capture without a hole, and no PDU names
\* anything else until stop, which can cut a frame.  calm: the gaps between frames, and before the first, are
\* longer than the history.
PacketsPublished ==
  signal.calm =>
    /\ Quiet => \A i \in DOMAIN signal.frames : LET f == signal.frames[i] IN
         pos >= Strongest(f) + Capture + (GateWindow + Holdoff) * D + template_len =>
           Cardinality({k \in DOMAIN packets : Names(packets[k], f) /\ Whole(packets[k], f)}) = 1
    /\ (starts = 1 /\ ~stopping) => \A k \in DOMAIN packets :
         \E i \in DOMAIN signal.frames : Names(packets[k], signal.frames[i])
=============================================================================
