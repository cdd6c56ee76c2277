-------------------------- MODULE CaptureDumpProofs --------------------------
(***************************************************************************)
(* Proofs about a capture: that no window and no packet disappears         *)
(* uncounted, that the dump reads back, and that the resampled packets and *)
(* the products of the post-processing tool carry the labels of the        *)
(* samples they hold.                                                      *)
(*                                                                         *)
(* The messages of each queue are named as a set that does not depend on   *)
(* the state: what the extractor can cut from its stream, what the crop    *)
(* makes of that, and what the resampler makes of the crop's packets.      *)
(* What is to be said of a message is then a fact about such a set.        *)
(* OwnInv carries the packets' own labels over to the files, and ToolInv   *)
(* from there through the tool's jobs and products to its lines.           *)
(***************************************************************************)
EXTENDS CaptureDump, WellFoundedInduction, TLAPS

-----------------------------------------------------------------------------
(* The messages.                                                           *)

\* The packet of a whole window
WindowStart(s, k) == window_bounds_for_slot(s, Guards, k).start
WindowPacket(s, k) ==
  [format |-> "sc16", odd |-> FALSE,
   iq |-> [i \in 1..Capacity |-> WindowStart(s, k) + i - 1],
   meta |-> [packet_id |-> k, schedule_index |-> k,
             predicted_start_sample |-> predicted_start_sample(s, k),
             window_start_sample |-> WindowStart(s, k), sample_count |-> Capacity,
             pre_guard_samples |-> Guards.pre, capture_samples |-> Guards.capture,
             post_guard_samples |-> Guards.post, sample_rate |-> Rate]]

Extracted == UNION {{WindowPacket(s, k) : k \in Nat} : s \in Schedules}
Packets == Extracted \cup Foreign

Croppable == {m \in Packets : ~Malformed(m) /\ ~PlanFor(m).empty}
PassedOn == {m \in Croppable : PlanFor(m).passthrough}
CutOut == {Relabelled(m, PlanFor(m)) : m \in Croppable \ PassedOn}
CropPackets == PassedOn \cup CutOut

\* What the resampler makes of a packet under the emit policy p
OutputUnder(p, m) ==
  LET iqs == resample_oneshot(m.iq)
      in == InLabels(m.meta, Len(m.iq))
      out == OutLabels(in, Len(iqs))
  IN IF p = "CaptureOnly"
       THEN Resampled(Slice(iqs, out), OutMeta(m.meta, MapInput(in.ws + in.pre), 0,
                                               out.cap, 0, out.cap))
       ELSE Resampled(iqs, OutMeta(m.meta, out.ws, out.pre, out.cap, out.post, Len(iqs)))
ResampledPackets(p) == {OutputUnder(p, m) : m \in {x \in CropPackets : ~Refused(x)}}

-----------------------------------------------------------------------------
(* The types of a live capture.                                            *)

SlotType == [inUse : BOOLEAN, iq : Seq(Int), index : Nat]
ExtractorType ==
  /\ schedule \in Schedules /\ sample \in Nat /\ index \in Nat
  /\ active \in 0..PoolSize /\ slot \in [1..PoolSize -> SlotType]
  /\ jobs \in Seq(1..PoolSize)
  /\ publisher \in [at : {"wait", "publish", "free", "exit"}, idx : 0..PoolSize]
  /\ call \in [at : {"idle", "begin", "advance", "join", "stopped"}, left : Nat,
               sentinel : BOOLEAN]
  /\ tally \in [scheduled : Nat, completed : Nat, emitted : Nat, dropped : Nat]

CropsType == [received : Nat, emitted : Nat, passthrough : Nat, cropped : Nat,
              clamped : Nat, dropped : Nat, in : Nat, out : Nat]
ResampledType == [received : Nat, emitted : Nat, dropped : Nat, resets : Nat,
                  short_guard : Nat, in : Nat, out : Nat]
WrittenType == [received : Nat, dropped : Nat, packets : Nat, offset : Nat, high : Nat]

QueueTypes ==
  /\ DOMAIN inbox = Receivers
  /\ inbox["writer"] \in Seq(Packets) /\ inbox["crop"] \in Seq(Packets)
  /\ inbox["tap"] \in Seq(Packets)
  /\ inbox["resampler"] \in Seq(CropPackets)
  /\ inbox["demod"] \in Seq(ResampledPackets(policy))
ChainType ==
  /\ crops \in CropsType /\ resampled \in ResampledType /\ QueueTypes
  /\ policy \in {"FullWindow", "CaptureOnly"}
  /\ foreign \in Nat /\ stopping \in BOOLEAN

\* The samples of a packet that the writer has put on its ring are written; only
\* a message that is a packet gets there.
Writable == {m \in Packets : m.format # "none"}
WriterType ==
  /\ ring \in Seq(Writable) /\ DOMAIN writer = {"at", "msg"} /\ closing \in BOOLEAN
  /\ writer.at \in {"wait", "samples", "line", "exit"}
  /\ writer.at \in {"samples", "line"} => writer.msg \in Writable
  /\ iq \in Seq(Int) /\ lines \in Seq(Range(lines)) /\ written \in WrittenType

-----------------------------------------------------------------------------
(* The windows of the extractor.                                           *)

Publishing == publisher.at \in {"publish", "free"}

\* A slot has one owner: the window being filled, a job of the ring, or the worker.
SlotsOwned ==
  /\ active # NoSlot => slot[active].inUse
  /\ \A i \in DOMAIN jobs : slot[jobs[i]].inUse /\ jobs[i] # active
  /\ \A i, j \in DOMAIN jobs : i # j => jobs[i] # jobs[j]
  /\ Publishing => /\ publisher.idx # NoSlot /\ slot[publisher.idx].inUse
                   /\ publisher.idx # active
                   /\ \A i \in DOMAIN jobs : jobs[i] # publisher.idx
  /\ ~Publishing => publisher.idx = NoSlot

\* A window that has left work() is whole.
WholeOf(sch, s) == s.iq = [i \in 1..Capacity |-> WindowStart(sch, s.index) + i - 1]
Whole(s) == WholeOf(schedule, s)
WindowsWhole ==
  /\ \A i \in DOMAIN jobs : Whole(slot[jobs[i]])
  /\ publisher.at = "publish" => Whole(slot[publisher.idx])

\* The window being filled has the latest samples, and begins no earlier than it
\* should: it cannot be full before its end.
Filling ==
  active # NoSlot =>
    LET s == slot[active] IN
      /\ s.index = index /\ sample < Bounds.end
      /\ Len(s.iq) <= sample - Bounds.start
      /\ s.iq = [i \in 1..Len(s.iq) |-> sample - Len(s.iq) + i - 1]

\* work() never runs past a window's end, and comes to the end of the stream in a
\* call of one sample.
Pace ==
  /\ sample <= Bounds.end
  /\ call.at \in {"begin", "advance"} =>
       /\ sample + call.left <= StreamLength
       /\ ~call.sentinel => sample + call.left < StreamLength
  /\ sample <= StreamLength
  /\ call.at = "idle" /\ sample = StreamLength => Idle
  /\ call.at \in {"join", "stopped"} /\ ~stopping => Idle
  /\ "extractor" \in ended => call.at \in {"join", "stopped"}

ExtractorInv == SlotsOwned /\ WindowsWhole /\ Filling /\ Pace

-----------------------------------------------------------------------------
(* The counts.                                                             *)

One(b) == IF b THEN 1 ELSE 0
Sent == tally.emitted + foreign
Known(m) == m.format # "none" /\ ~m.odd
AllKnown(q) == \A k \in DOMAIN q : Known(q[k])

WindowsCounted ==
  index = tally.dropped + tally.emitted + Len(jobs) + One(publisher.at = "publish")
CropCounted ==
  /\ crops.received + Len(inbox["crop"]) = Sent
  /\ crops.received = crops.emitted + crops.dropped
ResamplerCounted ==
  /\ resampled.received + Len(inbox["resampler"]) = crops.emitted
  /\ resampled.received = Len(inbox["demod"]) + resampled.dropped
WriterCounted ==
  AllKnown(inbox["tap"]) =>
    /\ AllKnown(inbox["writer"]) /\ AllKnown(ring)
    /\ writer.at \in {"samples", "line"} => Known(writer.msg)
    /\ written.received + Len(inbox["writer"]) = Sent
    /\ written.received = Len(lines) + written.dropped + Len(ring)
                            + One(writer.at \in {"samples", "line"})

Counted == WindowsCounted /\ CropCounted /\ ResamplerCounted /\ WriterCounted

-----------------------------------------------------------------------------
(* The files.                                                              *)

\* A line of the dump, read, names samples of the file, which are those of its
\* window.
Entry(k) == Parsed(lines[k])
LineRead(w, data) ==
  /\ w.n \in Nat /\ w.offset \in Nat /\ w.ws \in Nat /\ w.offset + w.n <= Len(data)
  /\ \A i \in 1..w.n : data[w.offset + i] = w.ws + i - 1

\* The samples that are written and have no line yet
Pending == IF writer.at = "line" THEN Len(writer.msg.iq) ELSE 0

Unwritten(m) == m.format = "sc16" /\ m.odd

\* Every packet that is written is longer than what the stream may hold back: so
\* are the windows of the application, and what its detector captures.
LongPackets ==
  /\ Capacity >= StreamBuffer
  /\ \A p \in Foreign : p.format # "none" /\ ~Unwritten(p) => Len(p.iq) >= StreamBuffer

Written ==
  /\ written.offset = Len(iq) /\ Pending \in Nat /\ Pending <= Len(iq)
  /\ \A k \in DOMAIN lines : LineRead(Entry(k), iq)
  /\ \A k \in DOMAIN lines : Entry(k).offset + Entry(k).n + Pending <= Len(iq)
  /\ \A j, k \in DOMAIN lines : j < k => Entry(j).offset + Entry(j).n <= Entry(k).offset
  /\ writer.at = "line" =>
       /\ ~Unwritten(writer.msg)
       /\ \A i \in 1..Pending : iq[Len(iq) - Pending + i] = writer.msg.iq[i]
  /\ LongPackets => \A k \in DOMAIN lines : Entry(k).n >= StreamBuffer

-----------------------------------------------------------------------------
(* Facts about numbers, queues and dictionaries.                           *)

\* A division rounds down (slot positions and output positions are rounded so).
LEMMA DivBounds ==
  ASSUME NEW a \in Nat, NEW b \in Nat \ {0}
  PROVE  a \div b \in Nat /\ b * (a \div b) <= a /\ a < b * (a \div b) + b
  OBVIOUS

\* A greater number has no lesser quotient.
LEMMA DivMonotone ==
  ASSUME NEW a \in Nat, NEW c \in Nat, a <= c, NEW b \in Nat \ {0}
  PROVE  a \div b <= c \div b
<1> DEFINE u == a \div b
           v == c \div b
<1>1. u \in Nat /\ v \in Nat /\ b * u <= a /\ c < b * v + b
  BY DivBounds
<1> HIDE DEF u, v
<1>2. ASSUME v < u PROVE FALSE
  <2>1. v + 1 <= u
    BY <1>1, <1>2
  <2>2. b * (v + 1) <= b * u
    BY <1>1, <2>1
  <2>3. b * (v + 1) = b * v + b
    BY <1>1
  <2> QED BY <1>1, <2>2, <2>3
<1> QED BY <1>1, <1>2 DEF u, v

\* What Append and Tail do to a queue (an inbox, the writer's ring, the jobs).
LEMMA Appended ==
  ASSUME NEW S, NEW q \in Seq(S), NEW e \in S
  PROVE  /\ Append(q, e) \in Seq(S) /\ Len(Append(q, e)) = Len(q) + 1 /\ Len(q) \in Nat
         /\ \A i \in DOMAIN Append(q, e) :
              \/ i \in DOMAIN q /\ Append(q, e)[i] = q[i]
              \/ i = Len(q) + 1 /\ Append(q, e)[i] = e
  OBVIOUS

LEMMA Taken ==
  ASSUME NEW S, NEW q \in Seq(S), q # <<>>
  PROVE  /\ Tail(q) \in Seq(S) /\ Len(q) = Len(Tail(q)) + 1 /\ Len(Tail(q)) \in Nat
         /\ Head(q) \in S /\ 1 \in DOMAIN q /\ Head(q) = q[1]
         /\ \A i \in DOMAIN Tail(q) : i + 1 \in DOMAIN q /\ i + 1 # 1 /\ Tail(q)[i] = q[i + 1]
  OBVIOUS

\* The lines of the dump are of no set that could be named here.
LEMMA LineAppended ==
  ASSUME NEW q, q \in Seq(Range(q)), NEW e
  PROVE  LET t == Append(q, e)
         IN  /\ t \in Seq(Range(t)) /\ Len(t) = Len(q) + 1 /\ Len(q) \in Nat
             /\ DOMAIN q = 1..Len(q) /\ DOMAIN t = 1..(Len(q) + 1)
             /\ \A i \in 1..Len(q) : t[i] = q[i]
             /\ t[Len(q) + 1] = e
<1> DEFINE S == Range(q) \cup {e}
           t == Append(q, e)
<1>1. q \in Seq(S)
  OBVIOUS
<1> HIDE DEF S
<1>2. e \in S
  BY DEF S
<1>3. /\ t \in Seq(S) /\ Len(t) = Len(q) + 1 /\ Len(q) \in Nat
      /\ DOMAIN q = 1..Len(q) /\ DOMAIN t = 1..(Len(q) + 1)
      /\ (\A i \in 1..Len(q) : t[i] = q[i]) /\ t[Len(q) + 1] = e
  BY <1>1, <1>2
<1> HIDE DEF t
<1>4. t \in Seq(Range(t))
  BY <1>3 DEF Range
<1> QED BY <1>3, <1>4 DEF t

\* Where a message goes that the extractor, the crop or the resampler publishes.
LEMMA PublishedBy ==
  ASSUME NEW box, DOMAIN box = Receivers, NEW m
  PROVE  /\ LET b == Published(box, "extractor", m)
            IN /\ DOMAIN b = Receivers
               /\ b["writer"] = Append(box["writer"], m)
               /\ b["crop"] = Append(box["crop"], m)
               /\ b["tap"] = Append(box["tap"], m)
               /\ b["resampler"] = box["resampler"] /\ b["demod"] = box["demod"]
         /\ LET b == Published(Handled(box, "crop"), "crop", m)
            IN /\ DOMAIN b = Receivers
               /\ b["crop"] = Tail(box["crop"])
               /\ b["resampler"] = Append(box["resampler"], m)
               /\ b["writer"] = box["writer"] /\ b["tap"] = box["tap"]
               /\ b["demod"] = box["demod"]
         /\ LET b == Published(Handled(box, "resampler"), "resampler", m)
            IN /\ DOMAIN b = Receivers
               /\ b["resampler"] = Tail(box["resampler"])
               /\ b["demod"] = Append(box["demod"], m)
               /\ b["writer"] = box["writer"] /\ b["tap"] = box["tap"]
               /\ b["crop"] = box["crop"]
  BY WiresAssumption DEF Published, Handled, Receivers

LEMMA HandledBy ==
  ASSUME NEW box, DOMAIN box = Receivers, NEW b \in Receivers
  PROVE  /\ DOMAIN Handled(box, b) = Receivers /\ Handled(box, b)[b] = Tail(box[b])
         /\ \A c \in Receivers \ {b} : Handled(box, b)[c] = box[c]
  BY DEF Handled

-----------------------------------------------------------------------------
(* The schedule.                                                           *)

\* Predicted starts do not run backwards, so neither do windows: where the next
\* begins is no earlier than where this one begins.
LEMMA WindowsForward ==
  ASSUME NEW s \in Schedules, NEW k \in Nat
  PROVE  /\ predicted_start_sample(s, k) \in Nat
         /\ WindowStart(s, k) \in Nat /\ WindowStart(s, k) <= WindowStart(s, k + 1)
         /\ WindowStart(s, k) = GeoMax(predicted_start_sample(s, k) - Guards.pre, 0)
         /\ window_bounds_for_slot(s, Guards, k).end = WindowStart(s, k) + Capacity
         /\ window_bounds_for_slot(s, Guards, k).predicted = predicted_start_sample(s, k)
         /\ Capacity \in Nat \ {0} /\ Guards.pre \in Nat /\ Guards.pre <= Capacity
         /\ Capacity = Guards.pre + Guards.capture + Guards.post
<1>1. /\ s.first \in Nat /\ s.period \in Nat \ {0} /\ Den \in Nat \ {0}
      /\ Guards.pre \in Nat /\ Guards.capture \in Nat /\ Guards.post \in Nat
  BY ExtractorAssumption, DenAssumption
<1> DEFINE x == s.first + k * s.period
           y == s.first + (k + 1) * s.period
           p == (2 * x + Den) \div (2 * Den)
           q == (2 * y + Den) \div (2 * Den)
<1>2. x \in Nat /\ y \in Nat /\ x <= y
  <2>1. k * s.period \in Nat /\ (k + 1) * s.period = k * s.period + s.period
    BY <1>1
  <2> QED BY <1>1, <2>1
<1>3. predicted_start_sample(s, k) = p /\ predicted_start_sample(s, k + 1) = q
  BY <1>2, k + 1 \in Nat DEF predicted_start_sample, Llround
<1> HIDE DEF x, y
<1>4. p \in Nat /\ q \in Nat /\ p <= q
  <2> DEFINE a == 2 * x + Den
             c == 2 * y + Den
             d == 2 * Den
  <2>1. a \in Nat /\ c \in Nat /\ a <= c /\ d \in Nat \ {0}
    BY <1>1, <1>2
  <2> HIDE DEF a, c, d
  <2>2. a \div d \in Nat /\ c \div d \in Nat /\ a \div d <= c \div d
    BY <2>1, DivBounds, DivMonotone
  <2> QED BY <2>2 DEF a, c, d
<1> HIDE DEF p, q
<1>5. Capacity = Guards.pre + Guards.capture + Guards.post /\ Capacity \in Nat \ {0}
  BY <1>1, ExtractorAssumption DEF Capacity, window_capacity
<1>6. /\ WindowStart(s, k) = GeoMax(p - Guards.pre, 0)
      /\ WindowStart(s, k + 1) = GeoMax(q - Guards.pre, 0)
      /\ window_bounds_for_slot(s, Guards, k).end = WindowStart(s, k) + Capacity
      /\ window_bounds_for_slot(s, Guards, k).predicted = p
  BY <1>3 DEF WindowStart, window_bounds_for_slot, Capacity
<1>7. WindowStart(s, k) \in Nat /\ WindowStart(s, k) <= WindowStart(s, k + 1)
  BY <1>1, <1>4, <1>6 DEF GeoMax
<1> QED BY <1>1, <1>3, <1>4, <1>5, <1>6, <1>7

\* What the extractor publishes for a whole window is the packet of that window.
LEMMA PacketOfWindow ==
  ASSUME schedule \in Schedules, NEW s \in SlotType, Whole(s)
  PROVE  Packet(s) = WindowPacket(schedule, s.index) /\ Packet(s) \in Packets
<1>1. s.index \in Nat
  BY DEF SlotType
<1>2. Capacity \in Nat
  BY <1>1, WindowsForward
<1>3. Len(s.iq) = Capacity
  BY <1>2 DEF Whole, WholeOf
<1>4. /\ window_bounds_for_slot(schedule, Guards, s.index).start = WindowStart(schedule, s.index)
      /\ window_bounds_for_slot(schedule, Guards, s.index).predicted
           = predicted_start_sample(schedule, s.index)
  BY DEF WindowStart, window_bounds_for_slot
<1>5. Packet(s) = WindowPacket(schedule, s.index)
  BY <1>3, <1>4 DEF Packet, WindowPacket, Whole, WholeOf
<1> QED BY <1>1, <1>5 DEF Packets, Extracted

-----------------------------------------------------------------------------
(* The extractor: each step keeps the windows and the count of them.       *)

ExtractorGood == ExtractorType /\ ExtractorInv /\ WindowsCounted
FlowAside == UNCHANGED <<stopping, ended>>

\* A set of naturals has a least element; this is how FirstFree finds its slot.
LEMMA LeastNatural ==
  ASSUME NEW S \in SUBSET Nat, S # {}
  PROVE  \E x \in S : \A y \in S : x <= y
<1> DEFINE R == OpToRel(<, Nat)
<1>1. IsWellFoundedOn(R, Nat)
  BY NatLessThanWellFounded
<1>2. \A x, y \in Nat : <<y, x>> \in R <=> y < x
  BY DEF OpToRel
<1> HIDE DEF R
<1>3. PICK x \in S : \A y \in S : ~ (<<y, x>> \in R)
  BY <1>1, WFMin
<1>4. x \in Nat /\ \A y \in S : y \in Nat
  OBVIOUS
<1>5. \A y \in S : ~ (y < x)
  BY <1>2, <1>3, <1>4, Zenon
<1> QED BY <1>4, <1>5

LEMMA FirstFreeIsFree ==
  ASSUME PoolSize \in Nat, FreeSlots # {}
  PROVE  FirstFree \in 1..PoolSize /\ ~slot[FirstFree].inUse
<1>1. FreeSlots \subseteq Nat /\ FreeSlots \subseteq 1..PoolSize
  BY DEF FreeSlots
<1>2. \E i \in FreeSlots : \A j \in FreeSlots : i <= j
  BY <1>1, LeastNatural
<1>3. FirstFree \in FreeSlots
  BY <1>2 DEF FirstFree
<1> QED BY <1>3 DEF FreeSlots

\* What the proofs below need of the schedule and the window being cut
LEMMA BoundsNow ==
  ASSUME ExtractorType
  PROVE  /\ PoolSize \in Nat \ {0} /\ StreamLength \in Nat \ {0} /\ Grants \subseteq Nat \ {0}
         /\ Bounds.start = WindowStart(schedule, index) /\ Bounds.start \in Nat
         /\ Bounds.end = Bounds.start + Capacity /\ Capacity \in Nat \ {0}
         /\ WindowStart(schedule, index) <= WindowStart(schedule, index + 1)
         /\ WindowStart(schedule, index + 1) \in Nat
<1>1. schedule \in Schedules /\ index \in Nat /\ index + 1 \in Nat
  BY DEF ExtractorType
<1>2. PoolSize \in Nat \ {0} /\ StreamLength \in Nat \ {0} /\ Grants \subseteq Nat \ {0}
  BY ExtractorAssumption
<1> QED BY <1>1, <1>2, WindowsForward DEF Bounds, WindowStart

\* A step to the next index does not move the end of the window back.
LEMMA NextBounds ==
  ASSUME ExtractorType, schedule' = schedule, index' \in {index, index + 1}
  PROVE  /\ Bounds.end <= Bounds'.end /\ Bounds'.end \in Nat
         /\ index' = index => Bounds' = Bounds
<1>1. schedule \in Schedules /\ index \in Nat /\ index + 1 \in Nat
  BY DEF ExtractorType
<1>2. ASSUME NEW k \in Nat
      PROVE  window_bounds_for_slot(schedule, Guards, k).end = WindowStart(schedule, k) + Capacity
  BY <1>1, <1>2, WindowsForward
<1>3. Bounds.end = WindowStart(schedule, index) + Capacity
  BY <1>1, <1>2 DEF Bounds
<1>4. Bounds'.end = WindowStart(schedule, index') + Capacity
  BY <1>1, <1>2 DEF Bounds
<1>5. /\ Capacity \in Nat /\ WindowStart(schedule, index) \in Nat
      /\ WindowStart(schedule, index + 1) \in Nat
      /\ WindowStart(schedule, index) <= WindowStart(schedule, index + 1)
  BY BoundsNow
<1>6. index' = index => Bounds' = Bounds
  BY DEF Bounds
<1>7. CASE index' = index
  BY <1>3, <1>4, <1>5, <1>6, <1>7
<1>8. CASE index' = index + 1
  BY <1>1, <1>3, <1>4, <1>5, <1>8
<1> QED BY <1>7, <1>8

LEMMA WorkKeeps ==
  ASSUME ExtractorGood, work, FlowAside
  PROVE  ExtractorGood'
<1>1. /\ call'.at = "begin" /\ call' \in [at : {"idle", "begin", "advance", "join", "stopped"},
                                          left : Nat, sentinel : BOOLEAN]
      /\ sample + call'.left <= StreamLength
      /\ ~call'.sentinel => sample + call'.left < StreamLength
  <2>1. PICK n \in Grants \cup {1} :
          /\ sample + n <= StreamLength
          /\ call' = [at |-> "begin", left |-> IF n > 1 THEN n - 1 ELSE n, sentinel |-> n = 1]
    BY DEF work
  <2>2. n \in Nat \ {0} /\ sample \in Nat /\ StreamLength \in Nat
    BY BoundsNow, SMTT(30) DEF ExtractorGood, ExtractorType
  <2> DEFINE l == IF n > 1 THEN n - 1 ELSE n
             one == n = 1
  <2>3. /\ l \in Nat /\ one \in BOOLEAN /\ sample + l <= StreamLength
        /\ ~one => sample + l < StreamLength
    BY <2>1, <2>2
  <2>4. call' = [at |-> "begin", left |-> l, sentinel |-> one]
    BY <2>1
  <2> HIDE DEF l, one
  <2> QED BY <2>3, <2>4
<1>2. UNCHANGED <<schedule, sample, index, active, slot, jobs, publisher, tally, stopping, ended>>
  BY DEF work, FlowAside
<1>3. call.at = "idle"
  BY DEF work
<1>4. ExtractorType' /\ WindowsCounted'
  BY <1>1, <1>2 DEF ExtractorGood, ExtractorType, WindowsCounted
<1>5. SlotsOwned' /\ WindowsWhole' /\ Filling'
  BY <1>2 DEF ExtractorGood, ExtractorInv, SlotsOwned, Publishing, WindowsWhole, Whole,
              Filling, Bounds
<1>6. Pace'
  BY <1>1, <1>2, <1>3 DEF ExtractorGood, ExtractorInv, Pace, Bounds
<1> QED BY <1>4, <1>5, <1>6 DEF ExtractorGood, ExtractorInv

\* The counters are counters.
LEMMA Counters ==
  ASSUME ExtractorType
  PROVE  /\ tally.emitted \in Nat /\ tally.dropped \in Nat /\ tally.completed \in Nat
         /\ tally.scheduled \in Nat
  BY DEF ExtractorType

CallType == [at : {"idle", "begin", "advance", "join", "stopped"}, left : Nat,
             sentinel : BOOLEAN]

LEMMA CallAt ==
  ASSUME ExtractorType, NEW p \in {"idle", "begin", "advance", "join", "stopped"}
  PROVE  LET c == [call EXCEPT !.at = p]
         IN  c \in CallType /\ c.at = p /\ c.left = call.left /\ c.sentinel = call.sentinel
  BY DEF ExtractorType, CallType

LEMMA JobSlots ==
  ASSUME ExtractorType
  PROVE  Len(jobs) \in Nat /\ \A k \in DOMAIN jobs : jobs[k] \in 1..PoolSize
<1> DEFINE slots == 1..PoolSize
<1>1. jobs \in Seq(slots)
  BY DEF ExtractorType
<1> HIDE DEF slots
<1>2. Len(jobs) \in Nat /\ \A k \in DOMAIN jobs : jobs[k] \in slots
  BY <1>1
<1> QED BY <1>2 DEF slots

LEMMA ActiveSlot ==
  ASSUME ExtractorType, active # NoSlot
  PROVE  active \in 1..PoolSize /\ slot[active] \in SlotType
<1>1. active \in 0..PoolSize /\ active # 0
  BY DEF ExtractorType, NoSlot
<1>2. PoolSize \in Nat
  BY BoundsNow
<1>3. active \in 1..PoolSize
  BY <1>1, <1>2
<1> QED BY <1>3 DEF ExtractorType

TallyType == [scheduled : Nat, completed : Nat, emitted : Nat, dropped : Nat]

\* A window is dropped, with an index of its own.
LEMMA DropCounted ==
  ASSUME ExtractorType, WindowsCounted, index' = index + 1, UNCHANGED <<jobs, publisher>>,
         tally'.dropped = tally.dropped + 1, tally'.emitted = tally.emitted
  PROVE  WindowsCounted'
<1> DEFINE n == Len(jobs)
           o == One(publisher.at = "publish")
<1>1. /\ index \in Nat /\ n \in Nat /\ tally.dropped \in Nat /\ tally.emitted \in Nat
      /\ o \in Nat
  BY DEF ExtractorType, One
<1>2. index = tally.dropped + tally.emitted + n + o
  BY DEF WindowsCounted
<1> HIDE DEF n, o
<1>3. index' = (tally.dropped + 1) + tally.emitted + n + o
  BY <1>1, <1>2
<1> QED BY <1>3 DEF WindowsCounted, n, o

\* begin_next_window finds a slot, or none.
LEMMA StartKeeps ==
  ASSUME ExtractorGood, StartWindow, call.at = "begin", call' = [call EXCEPT !.at = "advance"],
         UNCHANGED <<schedule, sample, jobs, publisher>>, FlowAside
  PROVE  ExtractorGood'
<1> DEFINE slots == 1..PoolSize
           i == FirstFree
<1>1. ExtractorType /\ SlotsOwned /\ WindowsWhole /\ Filling /\ Pace /\ WindowsCounted
  BY DEF ExtractorGood, ExtractorInv
<1>2. call' \in CallType /\ call'.at = "advance" /\ call'.left = call.left /\ call'.sentinel = call.sentinel
  BY <1>1, CallAt
<1>3. active = NoSlot /\ sample >= Bounds.start /\ sample < Bounds.end
  BY DEF StartWindow
<1>4. /\ PoolSize \in Nat \ {0} /\ index \in Nat /\ sample \in Nat /\ active \in Nat
      /\ index + 1 \in Nat
  <2>1. PoolSize \in Nat \ {0}
    BY <1>1, BoundsNow
  <2>2. index \in Nat /\ sample \in Nat
    BY <1>1 DEF ExtractorType
  <2>3. active \in Nat
    BY <1>3, <2>1 DEF NoSlot
  <2> QED BY <2>1, <2>2, <2>3
<1>5. CASE FreeSlots = {}
  <2>1. /\ tally' = [tally EXCEPT !.scheduled = @ + 1, !.dropped = @ + 1]
        /\ index' = index + 1 /\ UNCHANGED <<slot, active>>
    BY <1>5 DEF StartWindow
  <2>2. /\ tally' \in TallyType
        /\ tally'.dropped = tally.dropped + 1 /\ tally'.emitted = tally.emitted
    <3> DEFINE t == [tally EXCEPT !.scheduled = @ + 1]
    <3>1. t \in TallyType /\ t.dropped = tally.dropped /\ t.emitted = tally.emitted
      BY <1>1, Counters, SMTT(30) DEF ExtractorType, TallyType
    <3>2. tally' = [t EXCEPT !.dropped = @ + 1]
      BY <1>1, <2>1 DEF ExtractorType
    <3> HIDE DEF t
    <3>3. t.dropped \in Nat
      BY <3>1 DEF TallyType
    <3> QED BY <3>1, <3>2, <3>3 DEF TallyType
  <2>3. ExtractorType'
    BY <1>1, <1>2, <1>4, <2>1, <2>2 DEF ExtractorType, CallType, TallyType
  <2>4. WindowsCounted'
    BY <1>1, <2>1, <2>2, DropCounted
  <2>5. SlotsOwned' /\ WindowsWhole' /\ Filling'
    BY <1>1, <1>3, <2>1 DEF SlotsOwned, Publishing, WindowsWhole, Whole, Filling
  <2>6. Bounds.end <= Bounds'.end /\ Bounds'.end \in Nat
    BY <1>1, <2>1, NextBounds
  <2>7. Bounds.end \in Nat
    BY <1>1, BoundsNow
  <2>8. Pace'
    BY <1>1, <1>2, <1>3, <1>4, <2>1, <2>6, <2>7 DEF Pace, FlowAside, Idle
  <2> QED BY <2>3, <2>4, <2>5, <2>8 DEF ExtractorGood, ExtractorInv
<1>6. CASE FreeSlots # {}
  <2>1. /\ active' = i /\ slot' = [slot EXCEPT ![i] = [inUse |-> TRUE, iq |-> <<>>, index |-> index]]
        /\ tally' = [tally EXCEPT !.scheduled = @ + 1] /\ index' = index
    BY <1>6 DEF StartWindow
  <2>2. i \in slots /\ ~slot[i].inUse
    BY <1>4, <1>6, FirstFreeIsFree
  <2> HIDE DEF i
  <2>3. /\ slot \in [slots -> SlotType] /\ slot' \in [slots -> SlotType]
        /\ slot'[i] = [inUse |-> TRUE, iq |-> <<>>, index |-> index]
        /\ \A j \in slots : j # i => slot'[j] = slot[j]
    BY <1>1, <1>4, <2>1, <2>2, SMTT(30) DEF ExtractorType, SlotType
  <2>4. /\ tally' \in TallyType
        /\ tally'.dropped = tally.dropped /\ tally'.emitted = tally.emitted
    BY <1>1, <2>1, SMTT(30) DEF ExtractorType, TallyType
  <2>5. ExtractorType'
    <3>1. active' \in 0..PoolSize
      BY <1>4, <2>1, <2>2
    <3>2. schedule' \in Schedules /\ sample' \in Nat /\ index' \in Nat /\ jobs' \in Seq(1..PoolSize)
      BY <1>1, <2>1 DEF ExtractorType
    <3> HIDE DEF slots
    <3>3. publisher' \in [at : {"wait", "publish", "free", "exit"}, idx : 0..PoolSize]
      BY <1>1 DEF ExtractorType
    <3> QED BY <1>2, <2>3, <2>4, <3>1, <3>2, <3>3 DEF ExtractorType, CallType, TallyType, slots
  <2>6. WindowsCounted'
    BY <1>1, <2>1, <2>4 DEF WindowsCounted
  <2>7. \A k \in DOMAIN jobs : jobs[k] \in slots /\ jobs[k] # i
    <3>1. \A k \in DOMAIN jobs : jobs[k] \in slots
      BY <1>1, JobSlots
    <3>2. \A k \in DOMAIN jobs : slot[jobs[k]].inUse
      BY <1>1 DEF SlotsOwned
    <3> QED BY <2>2, <3>1, <3>2
  <2>8. Publishing => publisher.idx \in slots /\ publisher.idx # i
    BY <1>1, <1>4, <2>2 DEF ExtractorType, SlotsOwned, NoSlot
  <2>9. SlotsOwned'
    BY <1>1, <2>1, <2>2, <2>3, <2>7, <2>8, <1>4 DEF SlotsOwned, Publishing, NoSlot
  <2>10. WindowsWhole'
    BY <1>1, <2>3, <2>7, <2>8 DEF WindowsWhole, Publishing, Whole
  <2>11. Bounds' = Bounds
    BY <2>1 DEF Bounds
  <2>12. Filling'
    <3>1. Len(slot'[i].iq) = 0 /\ slot'[i].iq = <<>> /\ slot'[i].index = index
      BY <2>3
    <3>2. <<>> = [m \in 1..0 |-> sample - 0 + m - 1]
      OBVIOUS
    <3>3. Bounds.start \in Nat
      BY <1>1, BoundsNow
    <3> QED BY <1>3, <1>4, <2>1, <2>11, <3>1, <3>2, <3>3 DEF Filling
  <2>13. Pace'
    BY <1>1, <1>2, <1>3, <1>4, <2>1, <2>11 DEF Pace, FlowAside, Idle
  <2> QED BY <2>5, <2>6, <2>9, <2>10, <2>12, <2>13 DEF ExtractorGood, ExtractorInv
<1> QED BY <1>5, <1>6

LEMMA BeginKeeps ==
  ASSUME ExtractorGood, begin_next_window, FlowAside
  PROVE  ExtractorGood'
<1>1. ExtractorType /\ SlotsOwned /\ WindowsWhole /\ Filling /\ Pace /\ WindowsCounted
  BY DEF ExtractorGood, ExtractorInv
<1>2. /\ call.at = "begin" /\ call' = [call EXCEPT !.at = "advance"]
      /\ UNCHANGED <<schedule, sample, jobs, publisher>>
  BY DEF begin_next_window, Turn
<1>3. call' \in CallType /\ call'.at = "advance" /\ call'.left = call.left /\ call'.sentinel = call.sentinel
  BY <1>1, <1>2, CallAt
<1>4. CASE StartWindow
  BY <1>2, <1>4, StartKeeps
<1>5. CASE MissWindow
  <2>1. /\ active = NoSlot /\ index' = index + 1 /\ tally' = [tally EXCEPT !.dropped = @ + 1]
        /\ UNCHANGED <<slot, active>>
    BY <1>5 DEF MissWindow
  <2>2. /\ tally' \in TallyType
        /\ tally'.dropped = tally.dropped + 1 /\ tally'.emitted = tally.emitted
    BY <1>1, <2>1, SMTT(30) DEF ExtractorType, TallyType
  <2>3. index \in Nat /\ index + 1 \in Nat /\ sample \in Nat
    BY <1>1 DEF ExtractorType
  <2>4. ExtractorType'
    BY <1>1, <1>2, <1>3, <2>1, <2>2, <2>3 DEF ExtractorType, CallType, TallyType
  <2>5. WindowsCounted'
    BY <1>1, <1>2, <2>1, <2>2, DropCounted
  <2>6. SlotsOwned' /\ WindowsWhole' /\ Filling'
    BY <1>1, <1>2, <2>1 DEF SlotsOwned, Publishing, WindowsWhole, Whole, Filling
  <2>7. Bounds.end <= Bounds'.end /\ Bounds'.end \in Nat /\ Bounds.end \in Nat
    BY <1>1, <1>2, <2>1, NextBounds, BoundsNow
  <2>8. Pace'
    BY <1>1, <1>2, <1>3, <2>1, <2>3, <2>7 DEF Pace, FlowAside, Idle
  <2> QED BY <2>4, <2>5, <2>6, <2>8 DEF ExtractorGood, ExtractorInv
<1>6. CASE NothingToBegin
  <2>1. UNCHANGED <<index, slot, active, tally>>
    BY <1>6 DEF NothingToBegin
  <2>2. ExtractorType' /\ WindowsCounted'
    BY <1>1, <1>2, <1>3, <2>1 DEF ExtractorType, WindowsCounted, CallType
  <2>3. SlotsOwned' /\ WindowsWhole' /\ Filling'
    BY <1>1, <1>2, <2>1 DEF SlotsOwned, Publishing, WindowsWhole, Whole, Filling, Bounds
  <2>4. Pace'
    BY <1>1, <1>2, <1>3, <2>1 DEF Pace, FlowAside, Idle, Bounds
  <2> QED BY <2>2, <2>3, <2>4 DEF ExtractorGood, ExtractorInv
<1> QED BY <1>4, <1>5, <1>6 DEF begin_next_window

\* finish_active_window hands a whole window over, with its slot, or frees the slot.
LEMMA FinishedKeeps ==
  ASSUME ExtractorType, SlotsOwned, WindowsWhole, WindowsCounted, active # NoSlot,
         NEW s \in [1..PoolSize -> SlotType], s[active].inUse,
         \A j \in 1..PoolSize : j # active => s[j] = slot[j],
         Len(s[active].iq) = Capacity => Whole(s[active]),
         Finished(s), UNCHANGED <<schedule, publisher>>
  PROVE  /\ active' = NoSlot /\ index' = index + 1 /\ slot' \in [1..PoolSize -> SlotType]
         /\ jobs' \in Seq(1..PoolSize) /\ tally' \in TallyType
         /\ SlotsOwned' /\ WindowsWhole' /\ WindowsCounted'
         /\ Len(s[active].iq) # Capacity => jobs' = jobs
<1> DEFINE slots == 1..PoolSize
<1>1. /\ active \in slots /\ jobs \in Seq(slots) /\ index \in Nat
      /\ \A k \in DOMAIN jobs : jobs[k] \in slots
      /\ publisher.idx \in 0..PoolSize
  <2>1. active \in 0..PoolSize /\ active # 0
    BY DEF ExtractorType, NoSlot
  <2>2. PoolSize \in Nat
    BY BoundsNow
  <2> QED BY <2>1, <2>2, JobSlots DEF ExtractorType
<1>2. active' = NoSlot /\ index' = index + 1
  BY DEF Finished
<1>3. Publishing => publisher.idx \in slots /\ publisher.idx # active
  <2>1. Publishing => publisher.idx # 0 /\ publisher.idx # active
    BY DEF SlotsOwned, NoSlot
  <2>2. PoolSize \in Nat
    BY BoundsNow
  <2> QED BY <1>1, <2>1, <2>2
<1>4. CASE Len(s[active].iq) = Capacity /\ Len(jobs) < PoolSize
  <2>1. jobs' = Append(jobs, active) /\ slot' = s /\ tally' = [tally EXCEPT !.completed = @ + 1]
    BY <1>4 DEF Finished
  <2> DEFINE q == Append(jobs, active)
  <2> HIDE DEF slots
  <2>2. /\ q \in Seq(slots) /\ Len(q) = Len(jobs) + 1 /\ Len(jobs) \in Nat
        /\ \A k \in DOMAIN q : \/ k \in DOMAIN jobs /\ q[k] = jobs[k]
                               \/ k = Len(jobs) + 1 /\ q[k] = active
    BY <1>1, Appended
  <2> HIDE DEF q
  <2>3. \A k \in DOMAIN jobs : jobs[k] # active /\ s[jobs[k]] = slot[jobs[k]]
    BY <1>1 DEF SlotsOwned, slots
  <2>4. Publishing => s[publisher.idx] = slot[publisher.idx]
    BY <1>3 DEF slots
  <2>5. SlotsOwned'
    <3>1. \A k \in DOMAIN q : s[q[k]].inUse /\ q[k] # NoSlot
      BY <1>1, <2>2, <2>3, SMTT(30) DEF SlotsOwned, NoSlot, slots
    <3>2. \A k, l \in DOMAIN q : k # l => q[k] # q[l]
      BY <2>2, <2>3 DEF SlotsOwned
    <3>3. Publishing => /\ publisher.idx # NoSlot /\ s[publisher.idx].inUse
                        /\ \A k \in DOMAIN q : q[k] # publisher.idx
      BY <1>3, <2>2, <2>4 DEF SlotsOwned
    <3>4. ~Publishing => publisher.idx = NoSlot
      BY DEF SlotsOwned
    <3> QED BY <1>2, <2>1, <3>1, <3>2, <3>3, <3>4 DEF SlotsOwned, Publishing, q
  <2>6. WindowsWhole'
    <3>1. \A k \in DOMAIN q : Whole(s[q[k]])
      BY <1>4, <2>2, <2>3 DEF WindowsWhole
    <3>2. publisher.at = "publish" => Whole(s[publisher.idx])
      BY <2>4 DEF WindowsWhole, Publishing
    <3> QED BY <2>1, <3>1, <3>2 DEF WindowsWhole, Whole, q
  <2>7. tally' \in TallyType /\ tally'.dropped = tally.dropped /\ tally'.emitted = tally.emitted
    BY <2>1, SMTT(30) DEF ExtractorType, TallyType
  <2>8. WindowsCounted'
    <3> DEFINE n == Len(jobs)
               m == Len(q)
               o == One(publisher.at = "publish")
    <3>1. /\ n \in Nat /\ m = n + 1 /\ o \in Nat /\ tally.dropped \in Nat /\ tally.emitted \in Nat
      BY <2>2, Counters DEF One
    <3>2. index = tally.dropped + tally.emitted + n + o
      BY DEF WindowsCounted
    <3> HIDE DEF n, m, o
    <3>3. index' = tally.dropped + tally.emitted + m + o
      BY <1>2, <3>1, <3>2
    <3> QED BY <2>1, <2>7, <3>3 DEF WindowsCounted, m, o, q
  <2> QED BY <1>2, <1>4, <2>1, <2>2, <2>5, <2>6, <2>7, <2>8 DEF slots, q
<1>5. CASE ~(Len(s[active].iq) = Capacity /\ Len(jobs) < PoolSize)
  <2>1. /\ jobs' = jobs /\ slot' = [s EXCEPT ![active].inUse = FALSE]
        /\ tally' = [tally EXCEPT !.dropped = @ + 1]
    BY <1>5 DEF Finished
  <2>2. /\ slot' \in [slots -> SlotType]
        /\ \A j \in slots : j # active => slot'[j] = slot[j]
    BY <1>1, <2>1 DEF SlotType
  <2>3. tally' \in TallyType /\ tally'.dropped = tally.dropped + 1 /\ tally'.emitted = tally.emitted
    BY <2>1 DEF ExtractorType, TallyType
  <2>4. WindowsCounted'
    BY <1>2, <2>1, <2>3, DropCounted
  <2>5. \A k \in DOMAIN jobs : jobs[k] # NoSlot /\ slot'[jobs[k]] = slot[jobs[k]]
    BY <1>1, <2>2 DEF SlotsOwned, NoSlot
  <2>6. Publishing => slot'[publisher.idx] = slot[publisher.idx] /\ publisher.idx # NoSlot
    BY <1>3, <2>2 DEF NoSlot
  <2>7. SlotsOwned'
    BY <1>2, <2>1, <2>5, <2>6 DEF SlotsOwned, Publishing
  <2>8. WindowsWhole'
    BY <2>1, <2>5, <2>6 DEF WindowsWhole, Whole, Publishing
  <2> QED BY <1>1, <1>2, <2>1, <2>2, <2>3, <2>4, <2>7, <2>8
<1> QED BY <1>4, <1>5

\* How far a turn of work() moves
LEMMA MoveKeeps ==
  ASSUME ExtractorType, call.left > 0, NEW n \in 0..call.left, Move(n)
  PROVE  /\ sample' = sample + n /\ sample' \in Nat /\ call' \in CallType /\ call'.at = "begin"
         /\ call'.left = call.left - n /\ sample' + call'.left = sample + call.left
         /\ call'.sentinel = call.sentinel
<1> DEFINE l == call.left - n
           c == [call EXCEPT !.left = @ - n]
<1>1. sample \in Nat /\ call \in CallType /\ call.left \in Nat /\ n \in Nat /\ l \in Nat
  BY DEF ExtractorType, CallType
<1>2. c = [call EXCEPT !.left = l] /\ call' = [c EXCEPT !.at = "begin"] /\ sample' = sample + n
  BY <1>1 DEF Move, CallType
<1> HIDE DEF c
<1>3. c \in CallType /\ c.left = l /\ c.sentinel = call.sentinel
  <2> HIDE DEF l
  <2> QED BY <1>1, <1>2 DEF CallType
<1>4. call' \in CallType /\ call'.at = "begin" /\ call'.left = l /\ call'.sentinel = call.sentinel
  <2> HIDE DEF l
  <2> QED BY <1>2, <1>3 DEF CallType
<1> QED BY <1>1, <1>2, <1>4

LEMMA SkipKeeps ==
  ASSUME ExtractorGood, skip, FlowAside
  PROVE  ExtractorGood'
<1>1. ExtractorType /\ SlotsOwned /\ WindowsWhole /\ Filling /\ Pace /\ WindowsCounted
  BY DEF ExtractorGood, ExtractorInv
<1>2. /\ call.at = "advance" /\ call.left > 0
      /\ UNCHANGED <<schedule, index, active, slot, jobs, publisher, tally>>
  BY DEF skip, Turn
<1> DEFINE n == sample' - sample
<1>3. /\ sample \in Nat /\ call.left \in Nat /\ Bounds.start \in Nat /\ Bounds.end \in Nat
      /\ Bounds.start <= Bounds.end /\ sample <= Bounds.end
  <2>1. sample \in Nat /\ call.left \in Nat
    BY <1>1 DEF ExtractorType
  <2>2. sample <= Bounds.end
    BY <1>1 DEF Pace
  <2>3. Bounds.start \in Nat /\ Bounds.end = Bounds.start + Capacity /\ Capacity \in Nat
    BY <1>1, BoundsNow
  <2> QED BY <2>1, <2>2, <2>3
<1>4. active = NoSlot
  <2>1. ASSUME active # NoSlot PROVE sample >= Bounds.start
    <3>1. /\ active \in 1..PoolSize /\ slot[active] \in SlotType
      BY <1>1, <2>1, ActiveSlot
    <3>2. Len(slot[active].iq) \in Nat
      BY <3>1 DEF SlotType
    <3>3. Len(slot[active].iq) <= sample - Bounds.start
      BY <1>1, <2>1 DEF Filling
    <3> QED BY <1>3, <3>2, <3>3
  <2> QED BY <1>3, <2>1 DEF skip
<1>5. n \in 0..call.left /\ Move(n) /\ sample' <= Bounds.end
  <2>1. CASE sample < Bounds.start /\ Move(Stretch(Bounds.start))
    <3>1. Stretch(Bounds.start) \in 0..call.left /\ sample + Stretch(Bounds.start) <= Bounds.start
      BY <1>2, <1>3, <2>1 DEF Stretch, GeoMin
    <3>2. sample' = sample + Stretch(Bounds.start)
      BY <2>1 DEF Move
    <3>3. n = Stretch(Bounds.start)
      BY <1>3, <3>1, <3>2
    <3> QED BY <1>3, <2>1, <3>1, <3>2, <3>3
  <2>2. CASE Move(Stretch(Bounds.end))
    <3>1. Stretch(Bounds.end) \in 0..call.left /\ sample + Stretch(Bounds.end) <= Bounds.end
      BY <1>2, <1>3, <2>2 DEF Stretch, GeoMin
    <3>2. sample' = sample + Stretch(Bounds.end)
      BY <2>2 DEF Move
    <3>3. n = Stretch(Bounds.end)
      BY <1>3, <3>1, <3>2
    <3> QED BY <1>3, <2>2, <3>1, <3>2, <3>3
  <2> QED BY <2>1, <2>2 DEF skip
<1> HIDE DEF n
<1>6. /\ sample' \in Nat /\ call' \in CallType /\ call'.at = "begin"
      /\ sample' + call'.left = sample + call.left /\ call'.sentinel = call.sentinel
      /\ call'.left \in Nat
  <2>1. call' \in CallType => call'.left \in Nat
    BY DEF CallType
  <2> QED BY <1>1, <1>2, <1>5, <2>1, MoveKeeps
<1>7. ExtractorType'
  BY <1>1, <1>2, <1>6 DEF ExtractorType, CallType
<1>8. SlotsOwned' /\ WindowsWhole' /\ WindowsCounted'
  BY <1>1, <1>2 DEF SlotsOwned, Publishing, WindowsWhole, Whole, WindowsCounted
<1>9. Filling'
  BY <1>2, <1>4 DEF Filling
<1>10. Bounds' = Bounds
  BY <1>2 DEF Bounds
<1>11. Pace'
  <2>1. StreamLength \in Nat
    BY <1>1, BoundsNow
  <2> QED BY <1>1, <1>2, <1>3, <1>5, <1>6, <1>10, <2>1 DEF Pace, FlowAside, Idle
<1> QED BY <1>7, <1>8, <1>9, <1>11 DEF ExtractorGood, ExtractorInv

\* The samples of a file or a window, and those added to them
LEMMA Joined ==
  ASSUME NEW S, NEW q \in Seq(S), NEW r \in Seq(S)
  PROVE  /\ q \o r \in Seq(S) /\ Len(q \o r) = Len(q) + Len(r)
         /\ \A i \in 1..(Len(q) + Len(r)) : (q \o r)[i] = IF i <= Len(q) THEN q[i] ELSE r[i - Len(q)]
  OBVIOUS

\* Two stretches of samples end to end are one.
Run(from, n) == [i \in 1..n |-> from + i - 1]

LEMMA RunTyped ==
  ASSUME NEW a \in Int, NEW n \in Nat
  PROVE  Run(a, n) \in Seq(Int) /\ Len(Run(a, n)) = n
  BY DEF Run

LEMMA Stretches ==
  ASSUME NEW a \in Int, NEW l \in Nat, NEW n \in Nat, NEW b \in Int, b = a + l
  PROVE  Run(a, l) \o Run(b, n) = Run(a, l + n)
<1> DEFINE q == Run(a, l)
           r == Run(b, n)
           t == q \o r
           u == Run(a, l + n)
<1>1. r \in Seq(Int) /\ Len(r) = n /\ \A i \in 1..n : r[i] = b + i - 1
  BY DEF Run
<1>2. q \in Seq(Int) /\ Len(q) = l /\ \A i \in 1..l : q[i] = a + i - 1
  BY DEF Run
<1>3. u \in Seq(Int) /\ Len(u) = l + n /\ \A i \in 1..(l + n) : u[i] = a + i - 1
  BY DEF Run
<1> HIDE DEF q, r, u
<1>4. /\ t \in Seq(Int) /\ Len(t) = l + n
      /\ \A i \in 1..(l + n) : t[i] = IF i <= l THEN q[i] ELSE r[i - l]
  <2>1. q \in Seq(Int) /\ r \in Seq(Int)
    BY <1>1, <1>2
  <2>2. /\ q \o r \in Seq(Int) /\ Len(q \o r) = Len(q) + Len(r)
        /\ \A i \in 1..(Len(q) + Len(r)) :
             (q \o r)[i] = IF i <= Len(q) THEN q[i] ELSE r[i - Len(q)]
    BY <2>1, Joined
  <2>3. Len(q) = l /\ Len(r) = n
    BY <1>1, <1>2
  <2> QED BY <2>2, <2>3
<1> HIDE DEF t
<1>5. ASSUME NEW i \in 1..(l + n) PROVE t[i] = u[i]
  <2>1. CASE i <= l
    <3>1. i \in 1..l
      BY <2>1
    <3> QED BY <1>2, <1>3, <1>4, <2>1, <3>1
  <2>2. CASE i > l
    <3>1. i - l \in 1..n
      BY <2>2
    <3>2. t[i] = r[i - l]
      BY <1>4, <2>2
    <3>3. r[i - l] = b + (i - l) - 1
      BY <1>1, <3>1
    <3>4. b + (i - l) - 1 = a + i - 1
      OBVIOUS
    <3> QED BY <1>3, <3>2, <3>3, <3>4
  <2> QED BY <2>1, <2>2
<1>6. t = u
  BY <1>3, <1>4, <1>5
<1> QED BY <1>6 DEF t, q, r, u

LEMMA CopyKeeps ==
  ASSUME ExtractorGood, copy, FlowAside
  PROVE  ExtractorGood'
<1> DEFINE n == Stretch(Bounds.end)
           new == [i \in 1..n |-> sample + i - 1]
           old == slot[active].iq
           l == Len(old)
           s == [slot EXCEPT ![active].iq = @ \o new]
<1>1. ExtractorType /\ SlotsOwned /\ WindowsWhole /\ Filling /\ Pace /\ WindowsCounted
  BY DEF ExtractorGood, ExtractorInv
<1>2. /\ call.at = "advance" /\ call.left > 0 /\ active # NoSlot /\ sample >= Bounds.start
      /\ Move(n) /\ UNCHANGED <<schedule, publisher>>
      /\ IF sample + n = Bounds.end THEN Finished(s)
                                    ELSE slot' = s /\ UNCHANGED <<index, active, jobs, tally>>
  BY DEF copy, Turn
<1>3. /\ sample \in Nat /\ call.left \in Nat /\ Bounds.start \in Nat /\ Capacity \in Nat
      /\ Bounds.end = Bounds.start + Capacity /\ Bounds.start = WindowStart(schedule, index)
      /\ StreamLength \in Nat
  BY <1>1, BoundsNow DEF ExtractorType
<1>4. active \in 1..PoolSize /\ slot[active] \in SlotType /\ slot \in [1..PoolSize -> SlotType]
  BY <1>1, <1>2, ActiveSlot DEF ExtractorType
<1>5. /\ slot[active].index = index /\ sample < Bounds.end /\ l <= sample - Bounds.start
      /\ old = [i \in 1..l |-> sample - l + i - 1] /\ old \in Seq(Int) /\ l \in Nat
  BY <1>1, <1>2, <1>4 DEF Filling, SlotType
<1>6. n \in 1..call.left /\ sample + n <= Bounds.end /\ n \in Nat
  BY <1>2, <1>3, <1>5, SMTT(30) DEF Stretch, GeoMin
<1>7. /\ sample' = sample + n /\ sample' \in Nat /\ call' \in CallType /\ call'.at = "begin"
      /\ sample' + call'.left = sample + call.left /\ call'.sentinel = call.sentinel
      /\ call'.left \in Nat
  <2>1. call' \in CallType => call'.left \in Nat
    BY DEF CallType
  <2>2. n \in 0..call.left
    BY <1>6
  <2> HIDE DEF n
  <2> QED BY <1>1, <1>2, <2>1, <2>2, MoveKeeps
<1> DEFINE t == old \o new
<1>8. /\ t \in Seq(Int) /\ Len(t) = l + n
      /\ t = [i \in 1..(l + n) |-> (sample + n) - (l + n) + i - 1]
  <2>1. n \in Nat /\ l \in Nat /\ sample \in Nat /\ sample - l \in Int /\ l + n \in Nat
    BY <1>3, <1>5, <1>6
  <2>2. old = Run(sample - l, l) /\ new = Run(sample, n)
    BY <1>5 DEF Run
  <2> DEFINE b == sample - l
  <2> HIDE DEF n, old, l, new
  <2>3. t = Run(sample - l, l + n)
    <3>1. b \in Int /\ sample = b + l /\ n \in Nat /\ l \in Nat /\ sample \in Int
      BY <2>1
    <3>2. old = Run(b, l)
      BY <2>2
    <3> HIDE DEF b
    <3>3. Run(b, l) \o Run(sample, n) = Run(b, l + n)
      BY <3>1, Stretches
    <3>4. t = Run(b, l + n)
      BY <2>2, <3>2, <3>3
    <3> QED BY <3>4 DEF b
  <2>4. t \in Seq(Int) /\ Len(t) = l + n
    <3> HIDE DEF t
    <3> QED BY <2>1, <2>3, RunTyped
  <2>5. (sample + n) - (l + n) = sample - l
    BY <2>1
  <2> HIDE DEF t
  <2>6. t = [i \in 1..(l + n) |-> (sample + n) - (l + n) + i - 1]
    BY <2>3, <2>5 DEF Run
  <2> QED BY <2>4, <2>6
<1> HIDE DEF t, n
<1>9. /\ s \in [1..PoolSize -> SlotType] /\ s[active].iq = t /\ s[active].index = index
      /\ s[active].inUse /\ \A j \in 1..PoolSize : j # active => s[j] = slot[j]
  <2>1. s = [slot EXCEPT ![active] = [slot[active] EXCEPT !.iq = t]]
    BY <1>4 DEF t, n
  <2>2. slot[active].inUse
    BY <1>1, <1>2 DEF SlotsOwned
  <2> DEFINE r == [slot[active] EXCEPT !.iq = t]
  <2>3. r \in SlotType /\ r.iq = t /\ r.index = index /\ r.inUse
    BY <1>4, <1>5, <1>8, <2>2 DEF SlotType
  <2> HIDE DEF r, s
  <2> QED BY <1>4, <2>1, <2>3 DEF r
<1> HIDE DEF s, l, old
<1>10. CASE sample + n = Bounds.end
  <2>1. Finished(s)
    BY <1>2, <1>10
  <2>2. Len(s[active].iq) = Capacity => Whole(s[active])
    <3>1. SUFFICES ASSUME l + n = Capacity
                   PROVE  t = [i \in 1..Capacity |-> WindowStart(schedule, index) + i - 1]
      BY <1>8, <1>9 DEF Whole, WholeOf
    <3>2. (sample + n) - (l + n) = Bounds.start
      BY <1>3, <1>10, <3>1, <1>5, <1>6
    <3> QED BY <1>3, <1>8, <3>1, <3>2
  <2>3. /\ active' = NoSlot /\ index' = index + 1 /\ slot' \in [1..PoolSize -> SlotType]
        /\ jobs' \in Seq(1..PoolSize) /\ tally' \in TallyType
        /\ SlotsOwned' /\ WindowsWhole' /\ WindowsCounted'
    BY <1>1, <1>2, <1>9, <2>1, <2>2, FinishedKeeps
  <2>4. ExtractorType'
    <3>1. schedule' \in Schedules /\ index' \in Nat
      BY <1>1, <1>2, <2>3 DEF ExtractorType
    <3>2. active' \in 0..PoolSize
      BY <1>1, <2>3, BoundsNow DEF NoSlot
    <3>3. publisher' \in [at : {"wait", "publish", "free", "exit"}, idx : 0..PoolSize]
      BY <1>1, <1>2 DEF ExtractorType
    <3> QED BY <1>7, <2>3, <3>1, <3>2, <3>3 DEF ExtractorType, CallType, TallyType
  <2>5. Filling'
    BY <2>3 DEF Filling
  <2>6. Bounds.end <= Bounds'.end /\ Bounds'.end \in Nat /\ Bounds.end \in Nat
    BY <1>1, <1>2, <1>3, <2>3, NextBounds
  <2>7. Pace'
    BY <1>1, <1>2, <1>3, <1>7, <1>10, <2>6 DEF Pace, FlowAside
  <2> QED BY <2>3, <2>4, <2>5, <2>7 DEF ExtractorGood, ExtractorInv
<1>11. CASE sample + n # Bounds.end
  <2>1. slot' = s /\ UNCHANGED <<index, active, jobs, tally>>
    BY <1>2, <1>11
  <2>2. ExtractorType'
    BY <1>1, <1>2, <1>7, <1>9, <2>1 DEF ExtractorType, CallType
  <2>3. WindowsCounted'
    BY <1>1, <1>2, <2>1 DEF WindowsCounted
  <2>4. \A k \in DOMAIN jobs : jobs[k] # active /\ s[jobs[k]] = slot[jobs[k]]
    BY <1>1, <1>9, JobSlots DEF SlotsOwned
  <2>5. Publishing => s[publisher.idx] = slot[publisher.idx]
    <3>1. ASSUME Publishing PROVE publisher.idx \in 1..PoolSize /\ publisher.idx # active
      <4>1. publisher.idx \in 0..PoolSize /\ publisher.idx # 0 /\ publisher.idx # active
        BY <1>1, <3>1 DEF SlotsOwned, NoSlot, ExtractorType
      <4>2. PoolSize \in Nat
        BY <1>1, BoundsNow
      <4> QED BY <4>1, <4>2
    <3> QED BY <1>9, <3>1
  <2>6. SlotsOwned'
    BY <1>1, <1>2, <1>9, <2>1, <2>4, <2>5 DEF SlotsOwned, Publishing
  <2>7. WindowsWhole'
    BY <1>1, <1>2, <2>1, <2>4, <2>5 DEF WindowsWhole, Whole, Publishing
  <2>8. Bounds' = Bounds
    BY <1>2, <2>1 DEF Bounds
  <2>9. Filling'
    <3>1. sample' < Bounds.end /\ l + n <= sample' - Bounds.start
      <4> DEFINE b == Bounds.start
                 e == Bounds.end
      <4>1. b \in Nat /\ e \in Nat /\ n \in Nat /\ l \in Nat /\ sample \in Nat
        BY <1>3, <1>5, <1>6
      <4>2. sample' = sample + n /\ l <= sample - b /\ sample + n <= e /\ sample + n # e
        BY <1>5, <1>6, <1>7, <1>11
      <4> HIDE DEF b, e
      <4>3. sample' < e /\ l + n <= sample' - b
        BY <4>1, <4>2
      <4> QED BY <4>3 DEF b, e
    <3>2. t = [i \in 1..Len(t) |-> sample' - Len(t) + i - 1]
      BY <1>7, <1>8
    <3> QED BY <1>8, <1>9, <2>1, <2>8, <3>1, <3>2, ZenonT(40) DEF Filling
  <2>10. Pace'
    <3>1. sample' <= Bounds.end
      BY <1>6, <1>7
    <3> QED BY <1>1, <1>2, <1>3, <1>7, <2>1, <2>8, <3>1 DEF Pace, FlowAside
  <2> QED BY <2>2, <2>3, <2>6, <2>7, <2>9, <2>10 DEF ExtractorGood, ExtractorInv
<1> QED BY <1>10, <1>11

\* A step that leaves the window being filled, the slots and the counts alone
LEMMA QuietKeeps ==
  ASSUME ExtractorGood, UNCHANGED <<schedule, sample, index, active, slot, jobs, publisher, tally>>,
         call' \in CallType, Pace'
  PROVE  ExtractorGood'
<1>1. ExtractorType /\ SlotsOwned /\ WindowsWhole /\ Filling /\ WindowsCounted
  BY DEF ExtractorGood, ExtractorInv
<1>2. ExtractorType' /\ WindowsCounted'
  BY <1>1 DEF ExtractorType, CallType, WindowsCounted
<1>3. SlotsOwned' /\ WindowsWhole' /\ Filling'
  BY <1>1 DEF SlotsOwned, Publishing, WindowsWhole, Whole, Filling, Bounds
<1> QED BY <1>2, <1>3 DEF ExtractorGood, ExtractorInv

LEMMA ReturnsKeeps ==
  ASSUME ExtractorGood, work_returns \/ stopped, FlowAside
  PROVE  ExtractorGood'
<1>1. ExtractorType /\ Pace
  BY DEF ExtractorGood, ExtractorInv
<1>2. UNCHANGED <<schedule, sample, index, active, slot, jobs, publisher, tally>> /\ Bounds' = Bounds
  BY DEF work_returns, stopped, Bounds
<1>3. sample \in Nat /\ StreamLength \in Nat /\ call.left \in Nat
  BY <1>1, BoundsNow DEF ExtractorType
<1>4. CASE work_returns
  <2>1. /\ call.at = "begin" /\ call.left = 0
        /\ call.sentinel => Idle
        /\ call' = [call EXCEPT !.at = "idle"]
    BY <1>4 DEF work_returns
  <2>2. call' \in CallType /\ call'.at = "idle"
    BY <1>1, <2>1, CallAt
  <2>3. sample = StreamLength => Idle
    <3>1. CASE call.sentinel
      BY <2>1, <3>1
    <3>2. CASE ~call.sentinel
      <4>1. sample + call.left < StreamLength
        BY <1>1, <2>1, <3>2 DEF Pace
      <4> QED BY <1>3, <4>1
    <3> QED BY <3>1, <3>2
  <2>4. sample <= Bounds.end /\ sample <= StreamLength /\ "extractor" \notin ended
    BY <1>1, <2>1 DEF Pace
  <2>5. Idle' <=> Idle
    BY <1>2 DEF Idle
  <2>6. Pace'
    BY <1>2, <2>2, <2>3, <2>4, <2>5 DEF Pace, FlowAside
  <2> QED BY <1>2, <2>2, <2>6, QuietKeeps
<1>5. CASE stopped
  <2>1. call.at = "join" /\ call' = [call EXCEPT !.at = "stopped"]
    BY <1>5 DEF stopped
  <2>2. call' \in CallType /\ call'.at = "stopped"
    BY <1>1, <2>1, CallAt
  <2>3. Pace'
    BY <1>1, <1>2, <2>1, <2>2 DEF Pace, FlowAside, Idle
  <2> QED BY <1>2, <2>2, <2>3, QuietKeeps
<1> QED BY <1>4, <1>5

\* The rest of the flowgraph only says that it is stopped or that a block has ended.
LEMMA OutsideKeeps ==
  ASSUME ExtractorGood, UNCHANGED extVars, stopping' = stopping \/ stopping' = TRUE,
         "extractor" \in ended' => "extractor" \in ended
  PROVE  ExtractorGood'
<1>1. ExtractorType /\ Pace
  BY DEF ExtractorGood, ExtractorInv
<1>2. UNCHANGED <<schedule, sample, index, active, slot, jobs, publisher, call, tally>>
  BY DEF extVars
<1>3. call' \in CallType
  BY <1>1, <1>2 DEF ExtractorType, CallType
<1>4. Pace'
  BY <1>1, <1>2 DEF Pace, Idle, Bounds
<1> QED BY <1>2, <1>3, <1>4, QuietKeeps

\* When the stream has ended every window is published, and the one that has begun
\* is not full: stop() drops it, and passes "done" on after the last packet.
LEMMA EndsKeeps ==
  ASSUME ExtractorGood, stop(stopping \/ sample = StreamLength),
         ended' = ended \cup {"extractor"}, stopping' = stopping
  PROVE  ExtractorGood'
<1>1. ExtractorType /\ SlotsOwned /\ WindowsWhole /\ Filling /\ Pace /\ WindowsCounted
  BY DEF ExtractorGood, ExtractorInv
<1>2. /\ call.at = "idle" /\ (stopping \/ sample = StreamLength)
      /\ call' = [call EXCEPT !.at = "join"] /\ UNCHANGED <<schedule, sample, publisher>>
  BY DEF stop
<1>3. call' \in CallType /\ call'.at = "join"
  BY <1>1, <1>2, CallAt
<1>4. ~stopping => Idle
  BY <1>1, <1>2 DEF Pace
<1>5. CASE active = NoSlot
  <2>1. UNCHANGED <<index, active, slot, jobs, tally>>
    BY <1>5 DEF stop
  <2>2. Pace'
    BY <1>1, <1>2, <1>3, <1>4, <2>1 DEF Pace, Idle, Bounds
  <2> QED BY <1>2, <1>3, <2>1, <2>2, QuietKeeps
<1>6. CASE active # NoSlot
  <2>1. Finished(slot)
    BY <1>6 DEF stop
  <2>2. active \in 1..PoolSize /\ slot[active] \in SlotType /\ slot \in [1..PoolSize -> SlotType]
    BY <1>1, <1>6, ActiveSlot DEF ExtractorType
  <2>3. slot[active].inUse
    BY <1>1, <1>6 DEF SlotsOwned
  <2>4. Len(slot[active].iq) # Capacity
    <3> DEFINE l == Len(slot[active].iq)
               b == Bounds.start
    <3>1. l <= sample - b /\ sample < Bounds.end
      BY <1>1, <1>6 DEF Filling
    <3>2. b \in Nat /\ Bounds.end = b + Capacity /\ Capacity \in Nat
      BY <1>1, BoundsNow
    <3>3. l \in Nat /\ sample \in Nat
      BY <1>1, <2>2 DEF SlotType, ExtractorType
    <3> HIDE DEF l, b
    <3>4. l # Capacity
      BY <3>1, <3>2, <3>3
    <3> QED BY <3>4 DEF l
  <2>5. /\ active' = NoSlot /\ index' = index + 1 /\ slot' \in [1..PoolSize -> SlotType]
        /\ jobs' \in Seq(1..PoolSize) /\ tally' \in TallyType
        /\ SlotsOwned' /\ WindowsWhole' /\ WindowsCounted' /\ jobs' = jobs
    BY <1>1, <1>2, <1>6, <2>1, <2>2, <2>3, <2>4, FinishedKeeps
  <2>6. ExtractorType'
    <3>1. schedule' \in Schedules /\ sample' \in Nat /\ index' \in Nat
      BY <1>1, <1>2, <2>5 DEF ExtractorType
    <3>2. active' \in 0..PoolSize
      BY <1>1, <2>5, BoundsNow DEF NoSlot
    <3>3. publisher' \in [at : {"wait", "publish", "free", "exit"}, idx : 0..PoolSize]
      BY <1>1, <1>2 DEF ExtractorType
    <3> QED BY <1>3, <2>5, <3>1, <3>2, <3>3 DEF ExtractorType, CallType, TallyType
  <2>7. Filling'
    BY <2>5 DEF Filling
  <2>8. Bounds.end <= Bounds'.end /\ Bounds'.end \in Nat /\ Bounds.end \in Nat /\ sample \in Nat
    <3>1. Bounds.start \in Nat /\ Bounds.end = Bounds.start + Capacity /\ Capacity \in Nat
      BY <1>1, BoundsNow
    <3>2. sample \in Nat
      BY <1>1 DEF ExtractorType
    <3> QED BY <1>1, <1>2, <2>5, <3>1, <3>2, NextBounds
  <2>9. Pace'
    BY <1>1, <1>2, <1>3, <1>4, <2>5, <2>8 DEF Pace, Idle
  <2> QED BY <2>5, <2>6, <2>7, <2>9 DEF ExtractorGood, ExtractorInv
<1> QED BY <1>5, <1>6

\* The worker owns the slot that it took from the ring.
LEMMA TakeKeeps ==
  ASSUME ExtractorGood, take_job, FlowAside
  PROVE  ExtractorGood'
<1> DEFINE slots == 1..PoolSize
           q == Tail(jobs)
           h == Head(jobs)
<1>1. ExtractorType /\ SlotsOwned /\ WindowsWhole /\ Filling /\ Pace /\ WindowsCounted
  BY DEF ExtractorGood, ExtractorInv
<1>2. /\ publisher.at = "wait" /\ jobs # <<>> /\ publisher' = [at |-> "publish", idx |-> h]
      /\ jobs' = q /\ UNCHANGED <<schedule, sample, index, active, slot, call, tally>>
  BY DEF take_job
<1>3. jobs \in Seq(slots)
  BY <1>1 DEF ExtractorType
<1> HIDE DEF slots
<1>4. /\ q \in Seq(slots) /\ Len(jobs) = Len(q) + 1 /\ Len(q) \in Nat
      /\ h \in slots /\ 1 \in DOMAIN jobs /\ h = jobs[1]
      /\ \A i \in DOMAIN q : i + 1 \in DOMAIN jobs /\ i + 1 # 1 /\ q[i] = jobs[i + 1]
  BY <1>2, <1>3, Taken
<1> HIDE DEF q, h
<1>5. h # NoSlot /\ h # active /\ slot[h].inUse /\ Whole(slot[h])
  BY <1>1, <1>4 DEF SlotsOwned, WindowsWhole, NoSlot, slots
<1>6. ExtractorType'
  <2>1. h \in 0..PoolSize
    BY <1>1, <1>4, BoundsNow DEF slots
  <2>2. publisher' \in [at : {"wait", "publish", "free", "exit"}, idx : 0..PoolSize]
    BY <1>2, <2>1
  <2> QED BY <1>1, <1>2, <1>4, <2>2 DEF ExtractorType, slots
<1>7. SlotsOwned'
  <2>1. \A k \in DOMAIN q : slot[q[k]].inUse /\ q[k] # active /\ q[k] # h
    BY <1>1, <1>4 DEF SlotsOwned
  <2>2. \A k, l \in DOMAIN q : k # l => q[k] # q[l]
    BY <1>1, <1>4 DEF SlotsOwned
  <2>3. publisher'.at = "publish" /\ publisher'.idx = h
    BY <1>2
  <2> QED BY <1>1, <1>2, <1>5, <2>1, <2>2, <2>3 DEF SlotsOwned, Publishing
<1>8. WindowsWhole'
  <2>1. \A k \in DOMAIN q : Whole(slot[q[k]])
    BY <1>1, <1>4 DEF WindowsWhole
  <2> QED BY <1>2, <1>5, <2>1 DEF WindowsWhole, Whole
<1>9. Filling'
  BY <1>1, <1>2 DEF Filling, Bounds
<1>10. Pace'
  BY <1>1, <1>2 DEF Pace, Idle, FlowAside, Bounds
<1>11. WindowsCounted'
  <2> DEFINE n == Len(jobs)
             m == Len(q)
  <2>1. One(publisher.at = "publish") = 0 /\ One(publisher'.at = "publish") = 1
    BY <1>2 DEF One
  <2>2. /\ n = m + 1 /\ m \in Nat /\ tally.dropped \in Nat /\ tally.emitted \in Nat
    BY <1>1, <1>4, Counters
  <2>3. index = tally.dropped + tally.emitted + n + 0
    BY <1>1, <2>1 DEF WindowsCounted
  <2> HIDE DEF n, m
  <2>4. index = tally.dropped + tally.emitted + m + 1
    BY <2>2, <2>3
  <2> QED BY <1>2, <2>1, <2>4 DEF WindowsCounted, m
<1> QED BY <1>6, <1>7, <1>8, <1>9, <1>10, <1>11 DEF ExtractorGood, ExtractorInv

LEMMA PublishKeeps ==
  ASSUME ExtractorGood, publish_slot, FlowAside, DOMAIN inbox = Receivers
  PROVE  /\ ExtractorGood' /\ tally'.emitted = tally.emitted + 1
         /\ \E p \in Extracted : inbox' = Published(inbox, "extractor", p)
<1> DEFINE p == [publisher EXCEPT !.at = "free"]
<1>1. ExtractorType /\ SlotsOwned /\ WindowsWhole /\ Filling /\ Pace /\ WindowsCounted
  BY DEF ExtractorGood, ExtractorInv
<1>2. /\ publisher.at = "publish" /\ publisher' = p
      /\ inbox' = Published(inbox, "extractor", Packet(slot[publisher.idx]))
      /\ tally' = [tally EXCEPT !.emitted = @ + 1]
      /\ UNCHANGED <<schedule, sample, index, active, slot, jobs, call>>
  BY DEF publish_slot
<1>3. /\ p \in [at : {"wait", "publish", "free", "exit"}, idx : 0..PoolSize]
      /\ p.at = "free" /\ p.idx = publisher.idx
  BY <1>1 DEF ExtractorType
<1> HIDE DEF p
<1>4. /\ tally' \in TallyType /\ tally'.emitted = tally.emitted + 1
      /\ tally'.dropped = tally.dropped
  BY <1>1, <1>2 DEF ExtractorType, TallyType
<1>5. slot[publisher.idx] \in SlotType /\ Whole(slot[publisher.idx])
  <2>1. publisher.idx \in 0..PoolSize /\ publisher.idx # 0 /\ PoolSize \in Nat
    BY <1>1, <1>2, BoundsNow DEF ExtractorType, SlotsOwned, Publishing, NoSlot
  <2>2. publisher.idx \in 1..PoolSize
    BY <2>1
  <2> QED BY <1>1, <1>2, <2>2 DEF ExtractorType, WindowsWhole
<1>6. Packet(slot[publisher.idx]) \in Extracted
  <2>1. schedule \in Schedules /\ slot[publisher.idx].index \in Nat
    BY <1>1, <1>5 DEF ExtractorType, SlotType
  <2>2. Packet(slot[publisher.idx]) = WindowPacket(schedule, slot[publisher.idx].index)
    BY <1>5, <2>1, PacketOfWindow
  <2> QED BY <2>1, <2>2 DEF Extracted
<1>7. ExtractorType'
  BY <1>1, <1>2, <1>3, <1>4 DEF ExtractorType, TallyType
<1>8. SlotsOwned' /\ WindowsWhole' /\ Filling'
  BY <1>1, <1>2, <1>3 DEF SlotsOwned, Publishing, WindowsWhole, Whole, Filling, Bounds
<1>9. Pace'
  BY <1>1, <1>2, <1>3 DEF Pace, Idle, FlowAside, Bounds
<1>10. WindowsCounted'
  <2> DEFINE n == Len(jobs)
  <2>1. One(publisher.at = "publish") = 1 /\ One(publisher'.at = "publish") = 0
    BY <1>2, <1>3 DEF One
  <2>2. n \in Nat /\ tally.dropped \in Nat /\ tally.emitted \in Nat
    BY <1>1, JobSlots, Counters
  <2>3. index = tally.dropped + tally.emitted + n + 1
    BY <1>1, <2>1 DEF WindowsCounted
  <2> HIDE DEF n
  <2>4. index = tally.dropped + (tally.emitted + 1) + n + 0
    BY <2>2, <2>3
  <2> QED BY <1>2, <1>4, <2>1, <2>4 DEF WindowsCounted, n
<1> QED BY <1>2, <1>4, <1>6, <1>7, <1>8, <1>9, <1>10 DEF ExtractorGood, ExtractorInv

LEMMA FreeKeeps ==
  ASSUME ExtractorGood, free_slot, FlowAside
  PROVE  ExtractorGood'
<1> DEFINE i == publisher.idx
<1>1. ExtractorType /\ SlotsOwned /\ WindowsWhole /\ Filling /\ Pace /\ WindowsCounted
  BY DEF ExtractorGood, ExtractorInv
<1>2. /\ publisher.at = "free" /\ slot' = [slot EXCEPT ![i].inUse = FALSE]
      /\ publisher' = [at |-> "wait", idx |-> NoSlot]
      /\ UNCHANGED <<schedule, sample, index, active, jobs, call, tally>>
  BY DEF free_slot
<1>3. i \in 1..PoolSize /\ i # active /\ PoolSize \in Nat
  <2>1. i \in 0..PoolSize /\ i # 0 /\ i # active /\ PoolSize \in Nat
    BY <1>1, <1>2, BoundsNow DEF ExtractorType, SlotsOwned, Publishing, NoSlot
  <2> QED BY <2>1
<1> HIDE DEF i
<1>4. slot' \in [1..PoolSize -> SlotType] /\ \A j \in 1..PoolSize : j # i => slot'[j] = slot[j]
  BY <1>1, <1>2, <1>3 DEF ExtractorType, SlotType
<1>5. \A k \in DOMAIN jobs : slot'[jobs[k]] = slot[jobs[k]]
  <2>1. \A k \in DOMAIN jobs : jobs[k] \in 1..PoolSize /\ jobs[k] # i
    BY <1>1, <1>2, JobSlots DEF SlotsOwned, Publishing, i
  <2> QED BY <1>4, <2>1
<1>6. active # NoSlot => slot'[active] = slot[active]
  <2>1. active # NoSlot => active \in 1..PoolSize
    BY <1>1, ActiveSlot
  <2> QED BY <1>3, <1>4, <2>1
<1>7. ExtractorType'
  <2>1. publisher' \in [at : {"wait", "publish", "free", "exit"}, idx : 0..PoolSize]
    BY <1>2, <1>3 DEF NoSlot
  <2> QED BY <1>1, <1>2, <1>4, <2>1 DEF ExtractorType
<1>8. SlotsOwned' /\ WindowsWhole'
  BY <1>1, <1>2, <1>5, <1>6 DEF SlotsOwned, Publishing, WindowsWhole, Whole
<1>9. Filling'
  BY <1>1, <1>2, <1>6 DEF Filling, Bounds
<1>10. i # NoSlot
  BY <1>3 DEF NoSlot
<1>11. Pace'
  BY <1>1, <1>2, <1>10 DEF Pace, Idle, FlowAside, Bounds, i
<1>12. WindowsCounted'
  BY <1>1, <1>2 DEF WindowsCounted
<1> QED BY <1>7, <1>8, <1>9, <1>11, <1>12 DEF ExtractorGood, ExtractorInv

LEMMA ExitKeeps ==
  ASSUME ExtractorGood, worker_exit, FlowAside
  PROVE  ExtractorGood'
<1> DEFINE p == [publisher EXCEPT !.at = "exit"]
<1>1. ExtractorType /\ SlotsOwned /\ WindowsWhole /\ Filling /\ Pace /\ WindowsCounted
  BY DEF ExtractorGood, ExtractorInv
<1>2. /\ publisher.at = "wait" /\ publisher' = p
      /\ UNCHANGED <<schedule, sample, index, active, slot, jobs, call, tally>>
  BY DEF worker_exit
<1>3. /\ p \in [at : {"wait", "publish", "free", "exit"}, idx : 0..PoolSize]
      /\ p.at = "exit" /\ p.idx = publisher.idx
  BY <1>1 DEF ExtractorType
<1> HIDE DEF p
<1>4. ExtractorType'
  BY <1>1, <1>2, <1>3 DEF ExtractorType
<1>5. SlotsOwned' /\ WindowsWhole' /\ Filling' /\ WindowsCounted'
  BY <1>1, <1>2, <1>3 DEF SlotsOwned, Publishing, WindowsWhole, Whole, Filling, Bounds,
                          WindowsCounted
<1>6. Pace'
  BY <1>1, <1>2, <1>3 DEF Pace, Idle, FlowAside, Bounds
<1> QED BY <1>4, <1>5, <1>6 DEF ExtractorGood, ExtractorInv

-----------------------------------------------------------------------------
(* What the messages say of themselves.                                    *)

\* Put reads as the new dictionary where that has a key, as the old one elsewhere.
LEMMA PutReads ==
  ASSUME NEW meta, NEW new
  PROVE  /\ DOMAIN Put(meta, new) = (DOMAIN new) \cup (DOMAIN meta)
         /\ \A k \in DOMAIN new : Put(meta, new)[k] = new[k]
         /\ \A k \in (DOMAIN meta) \ (DOMAIN new) : Put(meta, new)[k] = meta[k]
  BY DEF Put

\* A packet is a stretch of the stream, and its label says where it begins.
Labelled(m) ==
  /\ m.iq \in Seq(Int)
  /\ m.format # "none" =>
       /\ "window_start_sample" \in DOMAIN m.meta
       /\ m.meta["window_start_sample"] \in Nat
       /\ m.iq = Run(m.meta["window_start_sample"], Len(m.iq))
       /\ Get(m.meta, "predicted_start_sample", -1) \in Int
       /\ Get(m.meta, "pre_guard_samples", 0) \in Nat
       /\ Get(m.meta, "capture_samples", 0) \in Nat

LEMMA WindowLabelled ==
  ASSUME NEW s \in Schedules, NEW k \in Nat
  PROVE  LET m == WindowPacket(s, k) IN
           /\ Labelled(m) /\ m.format = "sc16" /\ Len(m.iq) = Capacity
           /\ m.meta["window_start_sample"] = WindowStart(s, k)
           /\ Get(m.meta, "predicted_start_sample", -1) = predicted_start_sample(s, k)
           /\ Get(m.meta, "window_start_sample", 0) = WindowStart(s, k)
           /\ "capture_mode" \notin DOMAIN m.meta
<1> DEFINE m == WindowPacket(s, k)
           ws == WindowStart(s, k)
           pr == predicted_start_sample(s, k)
           c == Capacity
<1>1. /\ pr \in Nat /\ ws \in Nat /\ c \in Nat /\ Guards.pre \in Nat /\ Guards.capture \in Nat
  <2>1. {Guards.pre, Guards.capture, Guards.post} \subseteq Nat
    BY ExtractorAssumption
  <2>2. pr \in Nat /\ ws \in Nat /\ c \in Nat \ {0}
    BY WindowsForward
  <2> QED BY <2>1, <2>2
<1> HIDE DEF ws, pr, c
<1>2. m.format = "sc16" /\ m.iq = Run(ws, c)
  BY DEF WindowPacket, Run, ws, pr, c
<1>3. /\ "window_start_sample" \in DOMAIN m.meta /\ m.meta["window_start_sample"] = ws
      /\ "capture_mode" \notin DOMAIN m.meta
      /\ Get(m.meta, "predicted_start_sample", -1) = pr
      /\ Get(m.meta, "window_start_sample", 0) = ws
      /\ Get(m.meta, "pre_guard_samples", 0) = Guards.pre
      /\ Get(m.meta, "capture_samples", 0) = Guards.capture
  BY DEF WindowPacket, Get, ws, pr, c
<1> HIDE DEF m
<1>4. m.iq \in Seq(Int) /\ Len(m.iq) = c
  BY <1>1, <1>2, RunTyped
<1>5. Labelled(m)
  BY <1>1, <1>2, <1>3, <1>4 DEF Labelled
<1> QED BY <1>2, <1>3, <1>4, <1>5 DEF m, ws, pr, c

LEMMA PacketLabelled ==
  ASSUME NEW m \in Packets
  PROVE  Labelled(m)
<1>1. CASE m \in Extracted
  <2>1. PICK s \in Schedules, k \in Nat : m = WindowPacket(s, k)
    BY <1>1 DEF Extracted
  <2> QED BY <2>1, WindowLabelled
<1>2. CASE m \in Foreign
  BY <1>2, ForeignAssumption DEF Labelled, Run
<1> QED BY <1>1, <1>2 DEF Packets

\* The part that a crop cuts out lies within the window, its label says where it
\* begins, and its three parts add up; the predicted start of a window that has it
\* is where the guard of the crop ends.
LEMMA CropPlan ==
  ASSUME NEW ws \in Nat, NEW n \in Nat, NEW x \in Int, NEW acq \in BOOLEAN
  PROVE  LET p == plan_window_crop(ws, n, x, Geometry, acq)
         IN  /\ p.in_offset \in Nat /\ p.out_count \in Nat
             /\ ~p.empty /\ ~p.passthrough =>
                  /\ p.in_offset + p.out_count <= n /\ p.out_count > 0
                  /\ p.window_start = ws + p.in_offset
                  /\ p.pre \in Nat /\ p.capture \in Nat /\ p.post \in Nat
                  /\ p.pre + p.capture + p.post = p.out_count
                  /\ ws <= x /\ x <= ws + n => p.window_start + p.pre = x
             /\ p.passthrough => x < 0 \/ n = 0 \/ acq
<1> DEFINE g == Geometry
           p == plan_window_crop(ws, n, x, g, acq)
<1>1. /\ ws \in Nat /\ n \in Nat /\ x \in Int /\ acq \in BOOLEAN
      /\ g.pre \in Nat /\ g.capture \in Nat /\ g.post \in Nat
  BY GeometryAssumption
<1>2. p = plan_window_crop(ws, n, x, g, acq)
  OBVIOUS
<1> HIDE DEF p, g
<1> SUFFICES /\ p.in_offset \in Nat /\ p.out_count \in Nat
             /\ ~p.empty /\ ~p.passthrough =>
                  /\ p.in_offset + p.out_count <= n /\ p.out_count > 0
                  /\ p.window_start = ws + p.in_offset
                  /\ p.pre \in Nat /\ p.capture \in Nat /\ p.post \in Nat
                  /\ p.pre + p.capture + p.post = p.out_count
                  /\ ws <= x /\ x <= ws + n => p.window_start + p.pre = x
             /\ p.passthrough => x < 0 \/ n = 0 \/ acq
  BY DEF p, g
<1> DEFINE whole == PassThrough(ws, n)
<1>3. /\ whole.in_offset = 0 /\ whole.out_count = n /\ whole.passthrough
      /\ whole \in [passthrough : BOOLEAN, clamped : BOOLEAN, empty : BOOLEAN, in_offset : Nat,
                    out_count : Nat, window_start : Nat, pre : Nat, capture : Nat, post : Nat]
  <2> DEFINE none == n <= 0
             c == Most(n, 0)
  <2>1. none \in BOOLEAN /\ c \in Nat /\ c = n
    BY <1>1 DEF Most
  <2> HIDE DEF none, c
  <2>2. whole = [passthrough |-> TRUE, clamped |-> FALSE, empty |-> none, in_offset |-> 0,
                 out_count |-> c, window_start |-> ws, pre |-> 0, capture |-> 0, post |-> 0]
    BY DEF PassThrough, none, c
  <2> HIDE DEF whole
  <2> QED BY <1>1, <2>1, <2>2
<1> HIDE DEF whole
<1>4. CASE acq \/ x < 0 \/ n <= 0
  <2>1. p.in_offset = 0 /\ p.out_count = n /\ p.passthrough
    BY <1>2, <1>3, <1>4 DEF plan_window_crop, whole
  <2>2. x < 0 \/ n = 0 \/ acq
    BY <1>1, <1>4
  <2> QED BY <1>1, <2>1, <2>2
<1>5. CASE ~acq /\ x >= 0 /\ n > 0
  <2> DEFINE from == Most(Most(x - g.pre, 0), ws)
             to == Most(Least(x + g.capture + g.post, ws + n), from)
             k == to - from
             pre == Least(Most(x - from, 0), k)
             cap == Least(g.capture, k - pre)
  <2>1. p = Cropped(ws, n, x, g)
    BY <1>1, <1>2, <1>5 DEF plan_window_crop
  <2>2. /\ from \in Nat /\ to \in Nat /\ from <= to /\ ws <= from
        /\ to <= ws + n \/ to = from
    BY <1>1, <1>5 DEF Most, Least
  <2>3. ws <= x /\ x <= ws + n => from <= x /\ x <= to
    BY <1>1, <1>5 DEF Most, Least
  <2>4. /\ p.in_offset = from - ws /\ p.out_count = k /\ p.window_start = from
        /\ p.pre = pre /\ p.capture = cap /\ p.post = k - pre - cap
        /\ (p.empty <=> from = to) /\ p.passthrough = FALSE
    BY <2>1 DEF Cropped, Labels
  <2> HIDE DEF from, to
  <2>5. k \in Nat /\ from - ws \in Nat
    BY <1>1, <2>2
  <2>6. pre \in Nat /\ pre <= k /\ cap \in Nat /\ cap <= k - pre
    BY <1>1, <2>2, <2>5 DEF Most, Least
  <2>7. ws <= x /\ x <= ws + n => pre = x - from
    BY <1>1, <2>2, <2>3 DEF Most, Least
  <2> HIDE DEF pre, cap
  <2>8. from # to => k > 0 /\ (from - ws) + k <= n
    BY <1>1, <2>2
  <2>9. /\ k - pre - cap \in Nat /\ pre + cap + (k - pre - cap) = k
        /\ from = ws + (from - ws)
        /\ ws <= x /\ x <= ws + n => from + pre = x
    BY <1>1, <2>2, <2>5, <2>6, <2>7
  <2> HIDE DEF k
  <2> QED BY <1>1, <2>4, <2>5, <2>6, <2>8, <2>9
<1> QED BY <1>1, <1>4, <1>5

\* The crop of a message
LEMMA PlanFits ==
  ASSUME NEW m, Labelled(m), m.format # "none"
  PROVE  LET p == PlanFor(m)
             ws == m.meta["window_start_sample"]
             x == Get(m.meta, "predicted_start_sample", -1)
         IN  /\ p.in_offset \in Nat /\ p.out_count \in Nat
             /\ ~p.empty /\ ~p.passthrough =>
                  /\ p.in_offset + p.out_count <= Len(m.iq) /\ p.out_count > 0
                  /\ p.window_start = ws + p.in_offset
                  /\ p.pre \in Nat /\ p.capture \in Nat /\ p.post \in Nat
                  /\ p.pre + p.capture + p.post = p.out_count
                  /\ ws <= x /\ x <= ws + Len(m.iq) => p.window_start + p.pre = x
             /\ p.passthrough => x < 0 \/ Len(m.iq) = 0
                                 \/ Get(m.meta, "capture_mode", "") = "acquisition"
<1> DEFINE ws == m.meta["window_start_sample"]
           x == Get(m.meta, "predicted_start_sample", -1)
           n == Len(m.iq)
           acq == Get(m.meta, "capture_mode", "") = "acquisition"
<1>1. ws \in Nat /\ n \in Nat /\ x \in Int /\ acq \in BOOLEAN
  <2>1. m.iq \in Seq(Int) /\ x \in Int /\ ws \in Nat
    BY DEF Labelled
  <2> QED BY <2>1
<1>2. PlanFor(m) = plan_window_crop(ws, n, x, Geometry, acq)
  BY DEF PlanFor, Labelled, Get
<1> HIDE DEF ws, x, n, acq
<1> SUFFICES LET p == plan_window_crop(ws, n, x, Geometry, acq)
             IN  /\ p.in_offset \in Nat /\ p.out_count \in Nat
                 /\ ~p.empty /\ ~p.passthrough =>
                      /\ p.in_offset + p.out_count <= n /\ p.out_count > 0
                      /\ p.window_start = ws + p.in_offset
                      /\ p.pre \in Nat /\ p.capture \in Nat /\ p.post \in Nat
                      /\ p.pre + p.capture + p.post = p.out_count
                      /\ ws <= x /\ x <= ws + n => p.window_start + p.pre = x
                 /\ p.passthrough => x < 0 \/ n = 0 \/ acq
  BY <1>2 DEF ws, x, n, acq
<1> QED BY <1>1, CropPlan

\* A part of a file or of a packet
LEMMA Part ==
  ASSUME NEW S, NEW q \in Seq(S), NEW a \in Nat, NEW k \in Nat, a + k <= Len(q)
  PROVE  /\ SubSeq(q, a + 1, a + k) \in Seq(S) /\ Len(SubSeq(q, a + 1, a + k)) = k
         /\ SubSeq(q, a + 1, a + k) = [i \in 1..k |-> q[a + i]]
<1> DEFINE t == SubSeq(q, a + 1, a + k)
           u == [i \in 1..k |-> q[a + i]]
<1>1. \A i \in 1..k : a + i \in 1..Len(q)
  OBVIOUS
<1>2. u \in Seq(S) /\ Len(u) = k /\ \A i \in 1..k : u[i] = q[a + i]
  BY <1>1
<1>3. t \in Seq(S) /\ Len(t) = k /\ \A i \in 1..k : t[i] = q[a + i]
  <2>1. a + 1 \in Nat /\ a + k \in Nat /\ (a + k) - (a + 1) + 1 = k
    OBVIOUS
  <2>2. t \in Seq(S) /\ Len(t) = k
    BY <1>1, <2>1
  <2>3. ASSUME NEW i \in 1..k PROVE t[i] = q[a + i]
    BY <1>1, <2>1
  <2> QED BY <2>2, <2>3
<1> HIDE DEF t, u
<1>4. t = u
  BY <1>2, <1>3
<1> QED BY <1>3, <1>4 DEF t, u

LEMMA RunPart ==
  ASSUME NEW from \in Nat, NEW n \in Nat, NEW a \in Nat, NEW k \in Nat, a + k <= n
  PROVE  SubSeq(Run(from, n), a + 1, a + k) = Run(from + a, k)
<1> DEFINE q == Run(from, n)
<1>1. q \in Seq(Int) /\ Len(q) = n
  BY RunTyped
<1>2. \A i \in 1..k : q[a + i] = from + a + i - 1
  BY DEF Run
<1> HIDE DEF q
<1>3. SubSeq(q, a + 1, a + k) = [i \in 1..k |-> q[a + i]]
  BY <1>1, Part
<1>4. [i \in 1..k |-> q[a + i]] = [i \in 1..k |-> from + a + i - 1]
  BY <1>2
<1> QED BY <1>3, <1>4 DEF q, Run

\* What the crop emits is labelled as what it received is.
LEMMA CutLabelled ==
  ASSUME NEW m \in Croppable \ PassedOn
  PROVE  LET p == PlanFor(m)
             c == Relabelled(m, p)
         IN  /\ Labelled(c) /\ c.format = m.format /\ c.odd = m.odd
             /\ Len(c.iq) = p.out_count /\ p.out_count \in Nat \ {0}
             /\ "schedule_index" \in DOMAIN c.meta <=> "schedule_index" \in DOMAIN m.meta
             /\ c.meta["window_start_sample"] = p.window_start
             /\ Get(c.meta, "predicted_start_sample", -1) = Get(m.meta, "predicted_start_sample", -1)
             /\ Get(c.meta, "pre_guard_samples", 0) = p.pre
             /\ \A x : Get(c.meta, "capture_samples", x) = p.capture
             /\ \A x : Get(c.meta, "post_guard_samples", x) = p.post
<1> DEFINE p == PlanFor(m)
           c == Relabelled(m, p)
           ws == m.meta["window_start_sample"]
           n == Len(m.iq)
           d1 == Get(m.meta, "window_start_sample", Get(m.meta, "start_sample", 0))
           new == [window_start_sample |-> p.window_start, start_sample |-> p.window_start,
                   pre_guard_samples |-> p.pre, pre_trigger_samples |-> p.pre,
                   capture_samples |-> p.capture, post_guard_samples |-> p.post,
                   sample_count |-> p.out_count, native_dump_window_start |-> d1,
                   native_dump_sample_count |-> n]
           iq2 == SubSeq(m.iq, p.in_offset + 1, p.in_offset + p.out_count)
           meta2 == Put(m.meta, new)
<1>1. m \in Packets /\ ~Malformed(m) /\ ~p.empty /\ ~p.passthrough
  BY DEF Croppable, PassedOn
<1>2. Labelled(m) /\ m.format # "none" /\ DOMAIN m = {"format", "odd", "iq", "meta"}
  <2>1. DOMAIN m = {"format", "odd", "iq", "meta"}
    <3>1. CASE m \in Extracted
      BY <3>1 DEF Extracted, WindowPacket
    <3>2. CASE m \in Foreign
      BY <3>2, ForeignAssumption
    <3> QED BY <1>1, <3>1, <3>2 DEF Packets
  <2> QED BY <1>1, <2>1, PacketLabelled DEF Malformed
<1>3. /\ p.in_offset \in Nat /\ p.out_count \in Nat
      /\ p.in_offset + p.out_count <= n /\ p.out_count > 0
      /\ p.window_start = ws + p.in_offset
      /\ p.pre \in Nat /\ p.capture \in Nat /\ p.post \in Nat
  BY <1>1, <1>2, PlanFits
<1>4. ws \in Nat /\ n \in Nat /\ m.iq = Run(ws, n)
  BY <1>2 DEF Labelled
<1> HIDE DEF p
<1>5. iq2 = Run(p.window_start, p.out_count)
  <2> DEFINE a == p.in_offset
             k == p.out_count
  <2> HIDE DEF n, ws
  <2>1. a \in Nat /\ k \in Nat /\ a + k <= n /\ ws \in Nat /\ n \in Nat
    BY <1>3, <1>4
  <2> HIDE DEF a, k
  <2>2. SubSeq(Run(ws, n), a + 1, a + k) = Run(ws + a, k)
    BY <2>1, RunPart, ZenonT(40)
  <2> QED BY <1>3, <1>4, <2>2 DEF a, k
<1>6. c = [m EXCEPT !.iq = iq2, !.meta = meta2]
  BY DEF Relabelled
<1> HIDE DEF ws, n, d1, iq2
<1>7. /\ {"window_start_sample", "pre_guard_samples", "capture_samples", "post_guard_samples"}
            \subseteq DOMAIN new
      /\ "predicted_start_sample" \notin DOMAIN new /\ "schedule_index" \notin DOMAIN new
      /\ new["window_start_sample"] = p.window_start
      /\ new["pre_guard_samples"] = p.pre /\ new["capture_samples"] = p.capture
      /\ new["post_guard_samples"] = p.post
  OBVIOUS
<1> HIDE DEF new
<1>8. /\ DOMAIN meta2 = (DOMAIN new) \cup (DOMAIN m.meta)
      /\ \A k \in DOMAIN new : meta2[k] = new[k]
      /\ \A k \in (DOMAIN m.meta) \ (DOMAIN new) : meta2[k] = m.meta[k]
  BY PutReads
<1> HIDE DEF meta2, c
<1>9. /\ c.iq = iq2 /\ c.meta = meta2 /\ c.format = m.format /\ c.odd = m.odd
  BY <1>2, <1>6
<1>10. /\ "window_start_sample" \in DOMAIN meta2 /\ meta2["window_start_sample"] = p.window_start
       /\ \A x : Get(meta2, "pre_guard_samples", x) = p.pre
       /\ \A x : Get(meta2, "capture_samples", x) = p.capture
       /\ \A x : Get(meta2, "post_guard_samples", x) = p.post
  <2>1. /\ "window_start_sample" \in DOMAIN new /\ "pre_guard_samples" \in DOMAIN new
        /\ "capture_samples" \in DOMAIN new /\ "post_guard_samples" \in DOMAIN new
    BY <1>7
  <2> QED BY <1>7, <1>8, <2>1 DEF Get
<1>11. Get(meta2, "predicted_start_sample", -1) = Get(m.meta, "predicted_start_sample", -1)
  BY <1>7, <1>8 DEF Get
<1>12. "schedule_index" \in DOMAIN meta2 <=> "schedule_index" \in DOMAIN m.meta
  BY <1>7, <1>8
<1>13. iq2 \in Seq(Int) /\ Len(iq2) = p.out_count
  <2>1. p.window_start \in Int
    BY <1>3, <1>4
  <2> QED BY <1>3, <1>5, <2>1, RunTyped
<1>14. Labelled(c)
  <2>1. p.window_start \in Nat
    BY <1>3, <1>4
  <2>2. Get(m.meta, "predicted_start_sample", -1) \in Int
    BY <1>2 DEF Labelled
  <2> QED BY <1>3, <1>5, <1>9, <1>10, <1>11, <1>13, <2>1, <2>2 DEF Labelled
<1> QED BY <1>3, <1>9, <1>10, <1>11, <1>12, <1>13, <1>14 DEF c, p

LEMMA CropLabelled ==
  ASSUME NEW m \in CropPackets
  PROVE  Labelled(m) /\ m.format # "none" /\ m.iq # <<>>
<1>1. CASE m \in PassedOn
  BY <1>1, PacketLabelled DEF PassedOn, Croppable, Malformed
<1>2. CASE m \in CutOut
  <2>1. PICK x \in Croppable \ PassedOn : m = Relabelled(x, PlanFor(x))
    BY <1>2 DEF CutOut
  <2>2. Labelled(m) /\ m.format = x.format /\ Len(m.iq) # 0
    BY <2>1, CutLabelled
  <2>3. x.format # "none"
    BY DEF Croppable, Malformed
  <2> QED BY <2>2, <2>3
<1> QED BY <1>1, <1>2 DEF CropPackets

-----------------------------------------------------------------------------
(* The crop and the resampler: each packet is counted where it goes.       *)

\* Every one of the queues
LEMMA Queues ==
  ASSUME QueueTypes
  PROVE  /\ Len(inbox["writer"]) \in Nat /\ Len(inbox["crop"]) \in Nat
         /\ Len(inbox["tap"]) \in Nat /\ Len(inbox["resampler"]) \in Nat
         /\ Len(inbox["demod"]) \in Nat
  BY DEF QueueTypes

LEMMA CropsCounters ==
  ASSUME crops \in CropsType
  PROVE  /\ crops.received \in Nat /\ crops.emitted \in Nat /\ crops.dropped \in Nat
         /\ crops.passthrough \in Nat /\ crops.cropped \in Nat /\ crops.clamped \in Nat
         /\ crops.in \in Nat /\ crops.out \in Nat
  BY DEF CropsType

LEMMA CropDrops ==
  ASSUME crops \in CropsType, NEW n \in Nat, Drop(n)
  PROVE  /\ crops' \in CropsType /\ inbox' = Handled(inbox, "crop")
         /\ crops'.received = crops.received + 1 /\ crops'.dropped = crops.dropped + 1
         /\ crops'.emitted = crops.emitted
<1> DEFINE a == crops.received + 1
           b == crops.dropped + 1
           c == crops.in + n
<1>1. a \in Nat /\ b \in Nat /\ c \in Nat
  BY CropsCounters
<1>2. crops' = [crops EXCEPT !.received = a, !.dropped = b, !.in = c]
  BY DEF Drop, CropsType
<1>3. inbox' = Handled(inbox, "crop")
  BY DEF Drop
<1> HIDE DEF a, b, c
<1>4. /\ crops' \in CropsType /\ crops'.received = a /\ crops'.dropped = b
      /\ crops'.emitted = crops.emitted
  BY <1>1, <1>2 DEF CropsType
<1> QED BY <1>3, <1>4 DEF a, b

LEMMA CropPasses ==
  ASSUME crops \in CropsType, NEW m, Len(m.iq) \in Nat, Pass(m)
  PROVE  /\ crops' \in CropsType
         /\ inbox' = Published(Handled(inbox, "crop"), "crop", m)
         /\ crops'.received = crops.received + 1 /\ crops'.emitted = crops.emitted + 1
         /\ crops'.dropped = crops.dropped
<1> DEFINE a == crops.received + 1
           b == crops.passthrough + 1
           c == crops.emitted + 1
           n == Len(m.iq)
           d == crops.in + n
           e == crops.out + n
<1>1. a \in Nat /\ b \in Nat /\ c \in Nat /\ d \in Nat /\ e \in Nat
  <2>1. n \in Nat
    OBVIOUS
  <2> HIDE DEF n
  <2>2. /\ crops.received \in Nat /\ crops.passthrough \in Nat /\ crops.cropped \in Nat
        /\ crops.clamped \in Nat /\ crops.emitted \in Nat
    BY CropsCounters
  <2>3. crops.in \in Nat /\ crops.out \in Nat
    BY CropsCounters
  <2>4. d \in Nat
    BY <2>1, <2>3
  <2>5. e \in Nat
    BY <2>1, <2>3
  <2>6. a \in Nat
    BY <2>2
  <2>7. b \in Nat
    BY <2>2
  <2>8. c \in Nat
    BY <2>2
  <2> QED BY <2>4, <2>5, <2>6, <2>7, <2>8
<1>2. crops' = [crops EXCEPT !.received = a, !.passthrough = b, !.emitted = c, !.in = d,
                             !.out = e]
  BY DEF Pass, CropsType
<1>3. inbox' = Published(Handled(inbox, "crop"), "crop", m)
  BY DEF Pass
<1> HIDE DEF a, b, c, d, e
<1>4. /\ crops' \in CropsType /\ crops'.received = a /\ crops'.emitted = c
      /\ crops'.dropped = crops.dropped
  BY <1>1, <1>2 DEF CropsType
<1> QED BY <1>3, <1>4 DEF a, c

LEMMA CropEmits ==
  ASSUME crops \in CropsType, NEW m, Len(m.iq) \in Nat, NEW p, p.out_count \in Nat, Emit(m, p)
  PROVE  /\ crops' \in CropsType
         /\ inbox' = Published(Handled(inbox, "crop"), "crop", Relabelled(m, p))
         /\ crops'.received = crops.received + 1 /\ crops'.emitted = crops.emitted + 1
         /\ crops'.dropped = crops.dropped
<1> DEFINE a == crops.received + 1
           b == crops.cropped + 1
           l == crops.clamped + (IF p.clamped THEN 1 ELSE 0)
           c == crops.emitted + 1
           n == Len(m.iq)
           o == p.out_count
           d == crops.in + n
           e == crops.out + o
<1>1. a \in Nat /\ b \in Nat /\ l \in Nat /\ c \in Nat /\ d \in Nat /\ e \in Nat
  <2>1. n \in Nat /\ o \in Nat
    OBVIOUS
  <2> HIDE DEF n, o
  <2>2. /\ crops.received \in Nat /\ crops.passthrough \in Nat /\ crops.cropped \in Nat
        /\ crops.clamped \in Nat /\ crops.emitted \in Nat
    BY CropsCounters
  <2>3. crops.in \in Nat /\ crops.out \in Nat
    BY CropsCounters
  <2>4. d \in Nat
    BY <2>1, <2>3
  <2>5. e \in Nat
    BY <2>1, <2>3
  <2>6. a \in Nat
    BY <2>2
  <2>7. b \in Nat
    BY <2>2
  <2>8. c \in Nat
    BY <2>2
  <2>9. l \in Nat
    BY <2>2
  <2> QED BY <2>4, <2>5, <2>6, <2>7, <2>8, <2>9
<1>2. crops' = [crops EXCEPT !.received = a, !.cropped = b, !.clamped = l, !.emitted = c,
                             !.in = d, !.out = e]
  BY DEF Emit, CropsType
<1>3. inbox' = Published(Handled(inbox, "crop"), "crop", Relabelled(m, p))
  BY DEF Emit
<1> HIDE DEF a, b, c, d, e, l
<1>4. /\ crops' \in CropsType /\ crops'.received = a /\ crops'.emitted = c
      /\ crops'.dropped = crops.dropped
  BY <1>1, <1>2 DEF CropsType
<1> QED BY <1>3, <1>4 DEF a, c

\* A packet that the crop takes is passed on, cut or dropped.
LEMMA CropCases ==
  ASSUME QueueTypes, crops \in CropsType, crop_handle_packet
  PROVE  /\ crops' \in CropsType /\ crops'.received = crops.received + 1
         /\ inbox["crop"] # <<>>
         /\ \/ /\ inbox' = Handled(inbox, "crop")
               /\ crops'.dropped = crops.dropped + 1 /\ crops'.emitted = crops.emitted
            \/ /\ \E m \in CropPackets : inbox' = Published(Handled(inbox, "crop"), "crop", m)
               /\ crops'.emitted = crops.emitted + 1 /\ crops'.dropped = crops.dropped
<1> DEFINE m == Head(inbox["crop"])
           p == PlanFor(m)
<1>1. inbox["crop"] # <<>> /\ inbox["crop"] \in Seq(Packets)
  BY DEF crop_handle_packet, QueueTypes
<1>2. m \in Packets
  BY <1>1
<1> HIDE DEF m
<1>3. Labelled(m) /\ Len(m.iq) \in Nat
  BY <1>2, PacketLabelled DEF Labelled
<1>4. \/ Malformed(m) /\ Drop(0)
      \/ ~Malformed(m) /\ p.empty /\ Drop(Len(m.iq))
      \/ ~Malformed(m) /\ ~p.empty /\ p.passthrough /\ Pass(m)
      \/ ~Malformed(m) /\ ~p.empty /\ ~p.passthrough /\ Emit(m, p)
  BY DEF crop_handle_packet, m
<1>5. ASSUME NEW n \in Nat, Drop(n)
      PROVE  /\ crops' \in CropsType /\ crops'.received = crops.received + 1
             /\ inbox' = Handled(inbox, "crop")
             /\ crops'.dropped = crops.dropped + 1 /\ crops'.emitted = crops.emitted
  BY <1>5, CropDrops
<1>6. CASE Malformed(m) /\ Drop(0)
  <2>1. 0 \in Nat
    OBVIOUS
  <2> QED BY <1>1, <1>5, <1>6, <2>1
<1>7. CASE Drop(Len(m.iq))
  BY <1>1, <1>3, <1>5, <1>7
<1>8. CASE ~Malformed(m) /\ ~p.empty /\ p.passthrough /\ Pass(m)
  <2>1. m \in CropPackets
    BY <1>2, <1>8 DEF CropPackets, PassedOn, Croppable
  <2>2. /\ crops' \in CropsType
        /\ inbox' = Published(Handled(inbox, "crop"), "crop", m)
        /\ crops'.received = crops.received + 1 /\ crops'.emitted = crops.emitted + 1
        /\ crops'.dropped = crops.dropped
    BY <1>3, <1>8, CropPasses
  <2> QED BY <1>1, <2>1, <2>2
<1>9. CASE ~Malformed(m) /\ ~p.empty /\ ~p.passthrough /\ Emit(m, p)
  <2>1. m \in Croppable \ PassedOn
    BY <1>2, <1>9 DEF PassedOn, Croppable
  <2>2. Relabelled(m, p) \in CropPackets
    BY <2>1 DEF CropPackets, CutOut
  <2>3. p.out_count \in Nat
    BY <2>1, CutLabelled
  <2> HIDE DEF p
  <2>4. /\ crops' \in CropsType
        /\ inbox' = Published(Handled(inbox, "crop"), "crop", Relabelled(m, p))
        /\ crops'.received = crops.received + 1 /\ crops'.emitted = crops.emitted + 1
        /\ crops'.dropped = crops.dropped
    BY <1>3, <1>9, <2>3, CropEmits
  <2> QED BY <1>1, <2>2, <2>4
<1> QED BY <1>4, <1>6, <1>7, <1>8, <1>9

LEMMA ResamplerRefuses ==
  ASSUME resampled \in ResampledType, NEW n \in Nat, Refuse(n)
  PROVE  /\ resampled' \in ResampledType /\ inbox' = Handled(inbox, "resampler")
         /\ resampled'.received = resampled.received + 1
         /\ resampled'.dropped = resampled.dropped + 1
<1> DEFINE a == resampled.received + 1
           b == resampled.dropped + 1
           c == resampled.resets + n
<1>1. a \in Nat /\ b \in Nat /\ c \in Nat
  BY DEF ResampledType
<1>2. resampled' = [resampled EXCEPT !.received = a, !.dropped = b, !.resets = c]
  BY DEF Refuse, ResampledType
<1>3. inbox' = Handled(inbox, "resampler")
  BY DEF Refuse
<1> HIDE DEF a, b, c
<1>4. resampled' \in ResampledType /\ resampled'.received = a /\ resampled'.dropped = b
  BY <1>1, <1>2 DEF ResampledType
<1> QED BY <1>3, <1>4 DEF a, b

\* The resampler's outputs
Outputs == Int \X Int

LEMMA OneShot ==
  ASSUME NEW q \in Seq(Int), q # <<>>
  PROVE  /\ Length(Len(q)) \in Nat /\ Head(q) \in Int
         /\ resample_oneshot(q) \in Seq(Outputs)
         /\ Len(resample_oneshot(q)) = Length(Len(q))
         /\ \A i \in 1..Length(Len(q)) : resample_oneshot(q)[i] = <<Head(q), i - 1>>
<1> DEFINE n == Len(q)
           o == Length(n)
           h == Head(q)
<1>1. n \in Nat \ {0} /\ h \in Int
  OBVIOUS
<1> HIDE DEF n, h
<1>2. o \in Nat
  <2> DEFINE num == (n - 1) * L + T
  <2>1. L \in Nat \ {0} /\ M \in Nat \ {0} /\ T \in Nat \ {0}
    BY RatioAssumption
  <2>2. (n - 1) * L \in Nat
    BY <1>1, <2>1
  <2>3. num \in Nat
    BY <2>1, <2>2
  <2> HIDE DEF num
  <2>4. num + M - 1 \in Nat
    BY <2>1, <2>3
  <2>5. (num + M - 1) \div M \in Nat
    BY <2>1, <2>4, DivBounds
  <2>6. Length(n) = IF num <= 0 THEN 0 ELSE (num + M - 1) \div M
    BY DEF Length, num
  <2> QED BY <2>5, <2>6
<1> HIDE DEF o
<1>3. resample_oneshot(q) = [j \in 1..o |-> <<h, j - 1>>]
  BY DEF resample_oneshot, o, n, h
<1> DEFINE f == [j \in 1..o |-> <<h, j - 1>>]
<1>4. /\ f \in Seq(Outputs) /\ Len(f) = o /\ \A i \in 1..o : f[i] = <<h, i - 1>>
  <2>1. \A j \in 1..o : <<h, j - 1>> \in Outputs
    BY <1>1, <1>2 DEF Outputs
  <2> QED BY <1>2, <2>1
<1> QED BY <1>1, <1>2, <1>3, <1>4 DEF o, n, h

\* Where a position goes
LEMMA MapOffsetTyped ==
  ASSUME NEW x \in Nat
  PROVE  MapOffset(x) \in Nat /\ MapInput(x) = MapOffset(x)
<1> DEFINE num == 2 * x * L + (T - 1) + M
<1>1. L \in Nat \ {0} /\ M \in Nat \ {0} /\ T \in Nat \ {0}
  BY RatioAssumption
<1>2. 2 * x * L \in Nat
  BY <1>1
<1>3. num \in Nat /\ 2 * M \in Nat \ {0} /\ ~(2 * x * L + (T - 1) < 0)
  BY <1>1, <1>2
<1> HIDE DEF num
<1>4. num \div (2 * M) \in Nat
  BY <1>3, DivBounds
<1> QED BY <1>3, <1>4 DEF MapOffset, MapInput, num

\* The labels of a resampled packet stay within it.
LEMMA OutLabelsFit ==
  ASSUME NEW a \in Nat, NEW b \in Nat, NEW c \in Nat, NEW d, NEW nout \in Nat
  PROVE  LET out == OutLabels([ws |-> a, pre |-> b, cap |-> c, post |-> d], nout)
             pre == Nonnegative(MapInput(a + b) - MapInput(a))
         IN  /\ out.ws = MapInput(a) /\ out.ws \in Nat
             /\ out.pre = (IF pre > nout THEN nout ELSE pre) /\ out.pre \in Nat
             /\ out.cap \in Nat /\ out.pre + out.cap <= nout
             /\ out.post = nout - out.pre - out.cap
<1> DEFINE x == MapInput(a)
           y == MapInput(a + b)
           z == MapInput(a + b + c)
           in == [ws |-> a, pre |-> b, cap |-> c, post |-> d]
           out == OutLabels(in, nout)
           pre == Nonnegative(y - x)
           cap == Nonnegative(z - y)
           fitPre == IF pre > nout THEN nout ELSE pre
           fitCap == IF fitPre + cap > nout THEN nout - fitPre ELSE cap
<1>1. x \in Nat /\ y \in Nat /\ z \in Nat
  <2>1. a + b \in Nat /\ a + b + c \in Nat
    OBVIOUS
  <2> QED BY <2>1, MapOffsetTyped
<1>2. in.ws = a /\ in.pre = b /\ in.cap = c
  OBVIOUS
<1> HIDE DEF in
<1>3. out.ws = x /\ out.pre = fitPre /\ out.cap = fitCap /\ out.post = nout - fitPre - fitCap
  BY <1>2 DEF OutLabels
<1> HIDE DEF x, y, z, out
<1>4. fitPre \in Nat /\ fitCap \in Nat /\ fitPre + fitCap <= nout
  BY <1>1 DEF Nonnegative
<1> QED BY <1>1, <1>3, <1>4 DEF out, in, x, y

LEMMA LabelsRead ==
  ASSUME NEW m, Labelled(m), m.format # "none"
  PROVE  LET in == InLabels(m.meta, Len(m.iq))
         IN  /\ in.ws = m.meta["window_start_sample"]
             /\ in.pre = Get(m.meta, "pre_guard_samples", 0)
             /\ in.ws \in Nat /\ in.pre \in Nat /\ in.cap \in Nat
             /\ in = [ws |-> in.ws, pre |-> in.pre, cap |-> in.cap, post |-> in.post]
<1> DEFINE n == Len(m.iq)
           in == InLabels(m.meta, n)
<1>1. n \in Nat
  BY DEF Labelled
<1> HIDE DEF n
<1>2. Get(m.meta, "window_start_sample", 0) = m.meta["window_start_sample"]
  BY DEF Labelled, Get
<1>3. /\ Get(m.meta, "pre_guard_samples", 0) \in Nat
      /\ Get(m.meta, "capture_samples", 0) \in Nat
      /\ m.meta["window_start_sample"] \in Nat
  BY DEF Labelled
<1>4. Get(m.meta, "capture_samples", n) \in Nat
  BY <1>1, <1>3 DEF Get
<1>5. /\ in.ws = Get(m.meta, "window_start_sample", 0)
      /\ in.pre = Get(m.meta, "pre_guard_samples", 0)
      /\ in.cap = Get(m.meta, "capture_samples", n)
      /\ in = [ws |-> in.ws, pre |-> in.pre, cap |-> in.cap, post |-> in.post]
  BY DEF InLabels
<1> HIDE DEF in
<1> QED BY <1>2, <1>3, <1>4, <1>5 DEF in, n

\* A packet that the resampler does not refuse
LEMMA OutputFits ==
  ASSUME NEW m \in CropPackets, NEW q \in {"FullWindow", "CaptureOnly"}
  PROVE  LET iqs == resample_oneshot(m.iq)
             in == InLabels(m.meta, Len(m.iq))
             out == OutLabels(in, Len(iqs))
             o == OutputUnder(q, m)
         IN  /\ Len(iqs) \in Nat /\ out.pre \in Nat /\ out.cap \in Nat
             /\ out.pre + out.cap <= Len(iqs) /\ iqs \in Seq(Outputs)
             /\ o.iq = (IF q = "CaptureOnly" THEN Slice(iqs, out) ELSE iqs)
             /\ o.iq \in Seq(Outputs) /\ Len(o.iq) \in Nat
             /\ Len(o.iq) = (IF q = "CaptureOnly" THEN out.cap ELSE Len(iqs))
<1> DEFINE iqs == resample_oneshot(m.iq)
           in == InLabels(m.meta, Len(m.iq))
           n == Len(iqs)
           out == OutLabels(in, n)
           o == OutputUnder(q, m)
<1>1. Labelled(m) /\ m.format # "none" /\ m.iq # <<>> /\ m.iq \in Seq(Int)
  BY CropLabelled DEF Labelled
<1>2. n \in Nat /\ iqs \in Seq(Outputs)
  BY <1>1, OneShot
<1>3. in.ws \in Nat /\ in.pre \in Nat /\ in.cap \in Nat
      /\ in = [ws |-> in.ws, pre |-> in.pre, cap |-> in.cap, post |-> in.post]
  BY <1>1, LabelsRead
<1> HIDE DEF in, n
<1>4. out.pre \in Nat /\ out.cap \in Nat /\ out.pre + out.cap <= n
  <2> DEFINE a == in.ws
             b == in.pre
             c == in.cap
             d == in.post
  <2>1. a \in Nat /\ b \in Nat /\ c \in Nat /\ in = [ws |-> a, pre |-> b, cap |-> c, post |-> d]
    BY <1>3
  <2> HIDE DEF a, b, c, d
  <2>2. out = OutLabels([ws |-> a, pre |-> b, cap |-> c, post |-> d], n)
    BY <2>1
  <2> HIDE DEF out
  <2> QED BY <1>2, <2>1, <2>2, OutLabelsFit
<1>5. o.iq = (IF q = "CaptureOnly" THEN Slice(iqs, out) ELSE iqs)
  BY DEF OutputUnder, Resampled, in, n
<1> HIDE DEF out, o, iqs
<1>6. Slice(iqs, out) \in Seq(Outputs) /\ Len(Slice(iqs, out)) = out.cap
  BY <1>2, <1>4, Part DEF Slice, n
<1> QED BY <1>2, <1>4, <1>5, <1>6 DEF out, o, iqs, in, n

\* A packet that the resampler takes is resampled or dropped.
LEMMA ResamplerCases ==
  ASSUME QueueTypes, resampled \in ResampledType, policy \in {"FullWindow", "CaptureOnly"},
         resampler_handle_packet
  PROVE  /\ resampled' \in ResampledType /\ resampled'.received = resampled.received + 1
         /\ inbox["resampler"] # <<>> /\ policy' = policy
         /\ \/ /\ inbox' = Handled(inbox, "resampler")
               /\ resampled'.dropped = resampled.dropped + 1
            \/ /\ \E m \in ResampledPackets(policy) :
                    inbox' = Published(Handled(inbox, "resampler"), "resampler", m)
               /\ resampled'.dropped = resampled.dropped
<1> DEFINE m == Head(inbox["resampler"])
<1>1. inbox["resampler"] # <<>> /\ inbox["resampler"] \in Seq(CropPackets) /\ policy' = policy
  BY DEF resampler_handle_packet, QueueTypes
<1>2. m \in CropPackets
  BY <1>1
<1>3. IF Refused(m) THEN Refuse(0) ELSE Resample(m)
  BY DEF resampler_handle_packet
<1> HIDE DEF m
<1>4. ASSUME NEW k \in {0, 1}, Refuse(k)
      PROVE  /\ resampled' \in ResampledType /\ resampled'.received = resampled.received + 1
             /\ inbox' = Handled(inbox, "resampler")
             /\ resampled'.dropped = resampled.dropped + 1
  <2>1. k \in Nat
    OBVIOUS
  <2> QED BY <1>4, <2>1, ResamplerRefuses
<1> DEFINE iqs == resample_oneshot(m.iq)
           in == InLabels(m.meta, Len(m.iq))
           out == OutLabels(in, Len(iqs))
           packet == Output(m, in, out, iqs)
           n == Len(m.iq)
           k == Len(packet.iq)
<1>5. n \in Nat
  BY <1>2, CropLabelled DEF Labelled
<1>6. packet = OutputUnder(policy, m)
  BY DEF Output, OutputUnder
<1>7. k \in Nat
  BY <1>2, <1>6, OutputFits
<1>8. CASE Refused(m)
  BY <1>1, <1>3, <1>4, <1>8
<1>9. CASE ~Refused(m)
  <2>1. Resample(m)
    BY <1>3, <1>9
  <2>2. CASE iqs = <<>>
    <3>1. Refuse(1)
      BY <2>1, <2>2 DEF Resample
    <3> QED BY <1>1, <1>4, <3>1
  <2>3. CASE iqs # <<>>
    <3> DEFINE a == resampled.received + 1
               b == resampled.emitted + 1
               c == resampled.resets + 1
               d == resampled.short_guard + (IF ShortGuard(in, out) THEN 1 ELSE 0)
               e == resampled.in + n
               f == resampled.out + k
    <3>1. /\ inbox' = Published(Handled(inbox, "resampler"), "resampler", packet)
          /\ resampled' = [resampled EXCEPT !.received = @ + 1, !.emitted = @ + 1,
               !.resets = @ + 1, !.short_guard = @ + (IF ShortGuard(in, out) THEN 1 ELSE 0),
               !.in = @ + n, !.out = @ + k]
      BY <2>1, <2>3 DEF Resample
    <3>2. packet \in ResampledPackets(policy)
      BY <1>2, <1>6, <1>9 DEF ResampledPackets
    <3> HIDE DEF packet, iqs, in, out, n, k
    <3>3. resampled' = [resampled EXCEPT !.received = a, !.emitted = b, !.resets = c,
                          !.short_guard = d, !.in = e, !.out = f]
      BY <3>1 DEF ResampledType
    <3>4. /\ resampled.received \in Nat /\ resampled.emitted \in Nat
          /\ resampled.resets \in Nat /\ resampled.short_guard \in Nat
          /\ resampled.in \in Nat /\ resampled.out \in Nat
      BY DEF ResampledType
    <3>5. a \in Nat /\ b \in Nat /\ c \in Nat
      BY <3>4
    <3>6. d \in Nat
      BY <3>4
    <3>7. e \in Nat
      BY <1>5, <3>4
    <3>8. f \in Nat
      BY <1>7, <3>4
    <3> HIDE DEF a, b, c, d, e, f
    <3>9. /\ resampled' \in ResampledType /\ resampled'.received = a
          /\ resampled'.dropped = resampled.dropped
      BY <3>3, <3>5, <3>6, <3>7, <3>8 DEF ResampledType
    <3> QED BY <1>1, <3>1, <3>2, <3>9 DEF a
  <2> QED BY <2>2, <2>3
<1> QED BY <1>8, <1>9

-----------------------------------------------------------------------------
(* The writer: what it writes reads back, and each packet is counted.      *)

LEMMA AllKnownAppended ==
  ASSUME NEW S, NEW q \in Seq(S), NEW e \in S
  PROVE  AllKnown(Append(q, e)) <=> AllKnown(q) /\ Known(e)
<1> DEFINE t == Append(q, e)
<1>1. /\ t \in Seq(S) /\ Len(t) = Len(q) + 1 /\ Len(q) \in Nat
      /\ \A i \in DOMAIN t : \/ i \in DOMAIN q /\ t[i] = q[i]
                             \/ i = Len(q) + 1 /\ t[i] = e
  BY Appended
<1>2. t[Len(q) + 1] = e /\ \A i \in DOMAIN q : t[i] = q[i]
  OBVIOUS
<1>3. DOMAIN q \subseteq DOMAIN t /\ Len(q) + 1 \in DOMAIN t
  OBVIOUS
<1> HIDE DEF t
<1>4. AllKnown(t) <=> AllKnown(q) /\ Known(e)
  BY <1>1, <1>2, <1>3 DEF AllKnown
<1> QED BY <1>4 DEF t

LEMMA AllKnownTaken ==
  ASSUME NEW S, NEW q \in Seq(S), q # <<>>, AllKnown(q)
  PROVE  AllKnown(Tail(q)) /\ Known(Head(q))
<1>1. /\ 1 \in DOMAIN q /\ Head(q) = q[1]
      /\ \A i \in DOMAIN Tail(q) : i + 1 \in DOMAIN q /\ Tail(q)[i] = q[i + 1]
  BY Taken
<1> QED BY <1>1 DEF AllKnown

LEMMA AllKnownEmpty == AllKnown(<<>>)
  BY DEF AllKnown

\* The lines and the samples are as they were.
LEMMA WrittenKept ==
  ASSUME Written, UNCHANGED <<iq, lines>>, written'.offset = written.offset,
         writer' = writer \/ (writer.at # "line" /\ writer'.at # "line")
  PROVE  Written'
  BY DEF Written, Entry, Pending

\* What was read from the file is read from a longer one.
LEMMA LineReadOn ==
  ASSUME NEW q \in Seq(Int), NEW r \in Seq(Int), NEW w, LineRead(w, q)
  PROVE  LineRead(w, q \o r)
<1> DEFINE t == q \o r
           n == w.n
           o == w.offset
<1>1. /\ Len(t) = Len(q) + Len(r) /\ t \in Seq(Int)
      /\ \A i \in 1..(Len(q) + Len(r)) : t[i] = IF i <= Len(q) THEN q[i] ELSE r[i - Len(q)]
  BY Joined
<1>2. Len(q) \in Nat /\ Len(r) \in Nat
  OBVIOUS
<1> HIDE DEF t
<1>3. /\ n \in Nat /\ o \in Nat /\ w.ws \in Nat /\ o + n <= Len(q)
      /\ \A i \in 1..n : q[o + i] = w.ws + i - 1
  BY DEF LineRead
<1> HIDE DEF n, o
<1>4. o + n <= Len(t)
  BY <1>1, <1>2, <1>3
<1>5. ASSUME NEW i \in 1..n PROVE t[o + i] = w.ws + i - 1
  <2>1. o + i \in 1..(Len(q) + Len(r)) /\ o + i <= Len(q)
    BY <1>2, <1>3
  <2>2. t[o + i] = q[o + i]
    BY <1>1, <2>1
  <2> QED BY <1>3, <2>2
<1> QED BY <1>3, <1>4, <1>5 DEF LineRead, t, n, o

\* What a reader gets from the line that the writer makes.
LEMMA LineOfReads ==
  ASSUME NEW meta, "window_start_sample" \in DOMAIN meta, meta["window_start_sample"] \in Nat,
         NEW n, NEW o
  PROVE  LET w == Parsed(LineOf(meta, n, o))
         IN  w.n = n /\ w.offset = o /\ w.ws = meta["window_start_sample"]
<1> DEFINE scheduled == Get(meta, "window_start_sample", 0)
           start == Get(meta, "start_sample", scheduled)
           optional == {"pre_guard_samples", "capture_samples", "post_guard_samples",
                        "schedule_index", "capture_mode"} \cap DOMAIN meta
           a == Get(meta, "packet_id", written.packets)
           b == Get(meta, "predicted_start_sample", start)
           c == Get(meta, "pre_trigger_samples", Get(meta, "pre_guard_samples", 0))
           d == Get(meta, "window_start_sample", start)
           g == [packet_id |-> a, start_sample |-> start, window_start_sample |-> d,
                 predicted_start_sample |-> b, pre_trigger_samples |-> c,
                 sample_count |-> n, file_offset_samples |-> o]
           f == [k \in optional |-> meta[k]]
           l == Put(f, g)
<1>1. LineOf(meta, n, o) = l
  BY DEF LineOf
<1>2. d = meta["window_start_sample"]
  BY DEF Get
<1> HIDE DEF a, b, c, d, start, scheduled, optional, f
<1>3. /\ "sample_count" \in DOMAIN g /\ "file_offset_samples" \in DOMAIN g
      /\ "window_start_sample" \in DOMAIN g /\ g["sample_count"] = n
      /\ g["file_offset_samples"] = o /\ g["window_start_sample"] = d
  OBVIOUS
<1> HIDE DEF g
<1>4. /\ "sample_count" \in DOMAIN l /\ "file_offset_samples" \in DOMAIN l
      /\ "window_start_sample" \in DOMAIN l
      /\ l["sample_count"] = n /\ l["file_offset_samples"] = o /\ l["window_start_sample"] = d
  <2>1. DOMAIN l = (DOMAIN g) \cup (DOMAIN f) /\ \A k \in DOMAIN g : l[k] = g[k]
    BY PutReads
  <2> HIDE DEF l
  <2> QED BY <1>3, <2>1
<1> HIDE DEF l
<1>5. /\ Get(l, "sample_count", 0) = n /\ Get(l, "file_offset_samples", 0) = o
      /\ Get(l, "window_start_sample", -1) = d
  BY <1>4 DEF Get
<1>6. /\ Parsed(l).n = n /\ Parsed(l).offset = o
      /\ Parsed(l).ws = IF d < 0 THEN Get(l, "start_sample", -1) ELSE d
  BY <1>5 DEF Parsed
<1>7. Parsed(l).ws = d
  BY <1>2, <1>6
<1> QED BY <1>1, <1>2, <1>6, <1>7

LEMMA WritableLabelled ==
  ASSUME NEW m \in Writable
  PROVE  /\ m.iq \in Seq(Int) /\ Len(m.iq) \in Nat
         /\ "window_start_sample" \in DOMAIN m.meta /\ m.meta["window_start_sample"] \in Nat
         /\ m.iq = Run(m.meta["window_start_sample"], Len(m.iq))
         /\ LongPackets /\ ~Unwritten(m) => Len(m.iq) >= StreamBuffer
<1>1. m \in Packets /\ m.format # "none" /\ Labelled(m)
  BY PacketLabelled DEF Writable
<1>2. LongPackets /\ ~Unwritten(m) => Len(m.iq) >= StreamBuffer
  <2>1. CASE m \in Extracted
    <3>1. PICK s \in Schedules, k \in Nat : m = WindowPacket(s, k)
      BY <2>1 DEF Extracted
    <3>2. Len(m.iq) = Capacity
      BY <3>1, WindowLabelled
    <3> QED BY <3>2 DEF LongPackets
  <2>2. CASE m \in Foreign
    BY <1>1, <2>2 DEF LongPackets
  <2> QED BY <1>1, <2>1, <2>2 DEF Packets
<1> QED BY <1>1, <1>2 DEF Labelled

LEMMA WrittenCounters ==
  ASSUME written \in WrittenType
  PROVE  /\ written.received \in Nat /\ written.dropped \in Nat /\ written.packets \in Nat
         /\ written.offset \in Nat /\ written.high \in Nat
  BY DEF WrittenType

WriterGood == WriterType /\ Written /\ WriterCounted

\* The packets that the writer has taken, in numbers
InHand == One(writer.at \in {"samples", "line"})
Numbers ==
  /\ InHand \in Nat /\ Len(ring) \in Nat /\ Len(lines) \in Nat /\ written.received \in Nat
  /\ written.dropped \in Nat /\ tally.emitted \in Nat /\ foreign \in Nat
  /\ Len(inbox["writer"]) \in Nat

LEMMA NumbersTyped ==
  ASSUME WriterType, QueueTypes, tally \in TallyType, foreign \in Nat
  PROVE  Numbers
<1>1. Len(inbox["writer"]) \in Nat
  BY Queues
<1>2. Len(ring) \in Nat /\ Len(lines) \in Nat
  BY DEF WriterType
<1>3. written.received \in Nat /\ written.dropped \in Nat
  BY DEF WriterType, WrittenType
<1> QED BY <1>1, <1>2, <1>3 DEF Numbers, InHand, One, TallyType

LEMMA WriterHandles ==
  ASSUME WriterGood, QueueTypes, tally \in TallyType, foreign \in Nat, writer_handle_packet,
         UNCHANGED <<tally, foreign>>
  PROVE  WriterGood' /\ inbox' = Handled(inbox, "writer") /\ inbox["writer"] # <<>>
<1> DEFINE q == inbox["writer"]
           m == Head(q)
           t == Tail(q)
<1>1. WriterType /\ Written /\ WriterCounted /\ Numbers
  BY NumbersTyped DEF WriterGood
<1>2. /\ q # <<>> /\ inbox' = Handled(inbox, "writer") /\ UNCHANGED <<writer, closing, iq, lines>>
      /\ IF m.format = "none" THEN UNCHANGED <<ring, written>> ELSE Queue(m)
  BY DEF writer_handle_packet
<1>3. q \in Seq(Packets) /\ DOMAIN inbox = Receivers
  BY DEF QueueTypes
<1>4. /\ t \in Seq(Packets) /\ Len(q) = Len(t) + 1 /\ Len(t) \in Nat /\ m \in Packets
  BY <1>2, <1>3, Taken
<1>5. AllKnown(q) => AllKnown(t) /\ Known(m)
  BY <1>2, <1>3, AllKnownTaken
<1>6. inbox'["writer"] = t /\ inbox'["tap"] = inbox["tap"]
  <2>1. "writer" \in Receivers /\ "tap" \in Receivers \ {"writer"}
    BY DEF Receivers
  <2>2. /\ Handled(inbox, "writer")["writer"] = t
        /\ \A c \in Receivers \ {"writer"} : Handled(inbox, "writer")[c] = inbox[c]
    BY <1>3, <2>1, HandledBy
  <2> QED BY <1>2, <2>1, <2>2
<1> HIDE DEF t, m
<1>7. CASE m.format = "none"
  <2>1. UNCHANGED <<ring, written>>
    BY <1>2, <1>7
  <2>2. WriterType'
    BY <1>1, <1>2, <2>1 DEF WriterType
  <2>3. Written'
    BY <1>1, <1>2, <2>1, WrittenKept
  <2>4. WriterCounted'
    BY <1>1, <1>5, <1>6, <1>7 DEF WriterCounted, Known
  <2> QED BY <1>2, <2>2, <2>3, <2>4 DEF WriterGood
<1>8. CASE m.format # "none"
  <2>1. Queue(m) /\ m \in Writable
    BY <1>2, <1>4, <1>8 DEF Writable
  <2> DEFINE a == written.received + 1
  <2>2. a \in Nat /\ written \in WrittenType
    BY <1>1 DEF Numbers, WriterType
  <2>3. ASSUME AllKnown(inbox["tap"])
        PROVE  /\ AllKnown(t) /\ Known(m) /\ AllKnown(ring)
               /\ writer.at \in {"samples", "line"} => Known(writer.msg)
               /\ written.received + Len(q) = Sent
               /\ written.received = Len(lines) + written.dropped + Len(ring) + InHand
    BY <1>1, <1>5, <2>3 DEF WriterCounted, InHand
  <2>4. Sent' = Sent /\ InHand' = InHand
    BY <1>2 DEF Sent, InHand
  <2>5. a + Len(t) = written.received + Len(q)
    <3> DEFINE x == Len(t)
               y == Len(q)
    <3>1. x \in Nat /\ y = x + 1 /\ written.received \in Nat
      BY <1>1, <1>4 DEF Numbers
    <3> HIDE DEF x, y
    <3>2. a + x = written.received + y
      BY <3>1
    <3> QED BY <3>2 DEF x, y
  <2>6. CASE Len(ring) = kQueueCapacity
    <3> DEFINE b == written.dropped + 1
    <3>1. written' = [written EXCEPT !.received = a, !.dropped = b] /\ ring' = ring
      BY <2>1, <2>2, <2>6 DEF Queue, WrittenType
    <3>2. b \in Nat
      BY <1>1 DEF Numbers
    <3> HIDE DEF a, b
    <3>3. /\ written' \in WrittenType /\ written'.received = a /\ written'.dropped = b
          /\ written'.offset = written.offset
      BY <2>2, <3>1, <3>2 DEF WrittenType
    <3>4. WriterType'
      BY <1>1, <1>2, <3>1, <3>3 DEF WriterType
    <3>5. Written'
      BY <1>1, <1>2, <3>3, WrittenKept
    <3>6. ASSUME AllKnown(inbox["tap"])
          PROVE  a + Len(t) = Sent /\ a = Len(lines) + b + Len(ring) + InHand
      <4>1. a + Len(t) = Sent
        BY <2>3, <2>5, <3>6
      <4> DEFINE x == Len(lines)
                 y == Len(ring)
                 z == InHand
      <4>2. /\ x \in Nat /\ y \in Nat /\ z \in Nat /\ written.received \in Nat
            /\ written.dropped \in Nat
            /\ written.received = x + written.dropped + y + z
        BY <1>1, <2>3, <3>6 DEF Numbers
      <4> HIDE DEF x, y, z
      <4>3. a = x + b + y + z
        BY <4>2 DEF a, b
      <4> QED BY <4>1, <4>3 DEF x, y, z
    <3>7. WriterCounted'
      BY <1>2, <1>6, <2>3, <2>4, <3>1, <3>3, <3>6 DEF WriterCounted, InHand
    <3> QED BY <1>2, <3>4, <3>5, <3>7 DEF WriterGood
  <2>7. CASE Len(ring) # kQueueCapacity
    <3> DEFINE h == High(Len(ring) + 1)
               r == Append(ring, m)
    <3>1. written' = [written EXCEPT !.received = a, !.high = h] /\ ring' = r
      BY <2>1, <2>2, <2>7 DEF Queue, WrittenType
    <3>2. h \in Nat
      BY <1>1, <2>2, WrittenCounters DEF High, Numbers
    <3>3. ring \in Seq(Writable)
      BY <1>1 DEF WriterType
    <3>4. r \in Seq(Writable) /\ Len(r) = Len(ring) + 1 /\ (AllKnown(ring) /\ Known(m) => AllKnown(r))
      BY <2>1, <3>3, Appended, AllKnownAppended
    <3> HIDE DEF a, h, r
    <3>5. /\ written' \in WrittenType /\ written'.received = a
          /\ written'.dropped = written.dropped /\ written'.offset = written.offset
      BY <2>2, <3>1, <3>2 DEF WrittenType
    <3>6. WriterType'
      BY <1>1, <1>2, <3>1, <3>4, <3>5 DEF WriterType
    <3>7. Written'
      BY <1>1, <1>2, <3>5, WrittenKept
    <3>8. ASSUME AllKnown(inbox["tap"])
          PROVE  a + Len(t) = Sent /\ a = Len(lines) + written.dropped + Len(r) + InHand
      <4>1. a + Len(t) = Sent
        BY <2>3, <2>5, <3>8
      <4> DEFINE x == Len(lines)
                 y == Len(ring)
                 z == InHand
                 v == Len(r)
                 b == written.dropped
                 c == written.received
      <4>2. x \in Nat /\ y \in Nat /\ z \in Nat /\ c \in Nat /\ v = y + 1 /\ b \in Nat
        BY <1>1, <3>4 DEF Numbers
      <4>3. c = x + b + y + z /\ a = c + 1
        BY <2>3, <3>8 DEF a
      <4> HIDE DEF x, y, z, v, b, c
      <4>4. a = x + b + v + z
        BY <4>2, <4>3
      <4> QED BY <4>1, <4>4 DEF x, y, z, v, b
    <3>9. WriterCounted'
      BY <1>2, <1>6, <2>3, <2>4, <3>1, <3>4, <3>5, <3>8 DEF WriterCounted, InHand
    <3> QED BY <1>2, <3>6, <3>7, <3>9 DEF WriterGood
  <2> QED BY <2>6, <2>7
<1> QED BY <1>7, <1>8

LEMMA WriterTakes ==
  ASSUME WriterGood, Numbers, next_packet, UNCHANGED <<tally, foreign>>
  PROVE  WriterGood'
<1> DEFINE m == Head(ring)
           t == Tail(ring)
<1>1. WriterType /\ Written /\ WriterCounted
  BY DEF WriterGood
<1>2. /\ writer.at = "wait" /\ ring # <<>> /\ writer' = [at |-> "samples", msg |-> m]
      /\ ring' = t /\ UNCHANGED <<closing, iq, lines, written, inbox>>
  BY DEF next_packet
<1>3. ring \in Seq(Writable)
  BY <1>1 DEF WriterType
<1>4. /\ t \in Seq(Writable) /\ Len(ring) = Len(t) + 1 /\ Len(t) \in Nat /\ m \in Writable
      /\ AllKnown(ring) => AllKnown(t) /\ Known(m)
  BY <1>2, <1>3, Taken, AllKnownTaken
<1> HIDE DEF m, t
<1>5. DOMAIN writer' = {"at", "msg"} /\ writer'.at = "samples" /\ writer'.msg = m
  BY <1>2
<1>6. WriterType'
  BY <1>1, <1>2, <1>4, <1>5 DEF WriterType
<1>7. Written'
  BY <1>1, <1>2, <1>5, WrittenKept
<1>8. InHand = 0 /\ InHand' = 1
  BY <1>2, <1>5 DEF InHand, One
<1>9. WriterCounted'
  <2>1. SUFFICES ASSUME AllKnown(inbox["tap"])
                 PROVE  /\ AllKnown(inbox["writer"]) /\ AllKnown(t) /\ Known(m)
                        /\ written.received + Len(inbox["writer"]) = Sent
                        /\ written.received = Len(lines) + written.dropped + Len(t) + InHand'
    BY <1>2, <1>5 DEF WriterCounted, InHand, Sent
  <2>2. /\ AllKnown(inbox["writer"]) /\ AllKnown(ring)
        /\ written.received + Len(inbox["writer"]) = Sent
        /\ written.received = Len(lines) + written.dropped + Len(ring) + InHand
    BY <1>1, <2>1 DEF WriterCounted, InHand
  <2> DEFINE x == Len(lines)
             y == Len(ring)
             v == Len(t)
             b == written.dropped
             c == written.received
  <2>3. x \in Nat /\ y = v + 1 /\ v \in Nat /\ b \in Nat /\ c \in Nat /\ c = x + b + y + 0
    BY <1>4, <1>8, <2>2 DEF Numbers
  <2> HIDE DEF x, y, v, b, c
  <2>4. c = x + b + v + 1
    BY <2>3
  <2> QED BY <1>4, <1>8, <2>2, <2>4 DEF x, v, b, c
<1> QED BY <1>6, <1>7, <1>9 DEF WriterGood

LEMMA WriterSkips ==
  ASSUME WriterGood, Numbers, skip_odd, UNCHANGED <<tally, foreign>>
  PROVE  WriterGood'
<1>1. WriterType /\ Written /\ WriterCounted
  BY DEF WriterGood
<1>2. /\ writer.at = "samples" /\ writer.msg.odd /\ writer' = [at |-> "wait", msg |-> NoPacket]
      /\ UNCHANGED <<ring, closing, iq, lines, written, inbox>>
  BY DEF skip_odd
<1>3. DOMAIN writer' = {"at", "msg"} /\ writer'.at = "wait"
  BY <1>2
<1>4. WriterType'
  BY <1>1, <1>2, <1>3 DEF WriterType
<1>5. Written'
  BY <1>1, <1>2, <1>3, WrittenKept
<1>6. WriterCounted'
  BY <1>1, <1>2 DEF WriterCounted, Known
<1> QED BY <1>4, <1>5, <1>6 DEF WriterGood

\* Two of its steps leave the packet in hand as it is, in the counts.
LEMMA CountedKept ==
  ASSUME WriterCounted, UNCHANGED <<tally, foreign, inbox, ring, lines>>,
         written'.received = written.received, written'.dropped = written.dropped,
         writer'.msg = writer.msg,
         writer'.at \in {"samples", "line"} <=> writer.at \in {"samples", "line"}
  PROVE  WriterCounted'
<1>1. One(writer'.at \in {"samples", "line"}) = One(writer.at \in {"samples", "line"})
  BY DEF One
<1> QED BY <1>1 DEF WriterCounted, Sent

LEMMA WriterAppends ==
  ASSUME WriterGood, Numbers, write_samples, UNCHANGED <<tally, foreign>>
  PROVE  WriterGood'
<1> DEFINE m == writer.msg
           n == Len(m.iq)
           q == iq
           t == iq \o m.iq
           o == written.offset + n
<1>1. WriterType /\ Written /\ WriterCounted
  BY DEF WriterGood
<1>2. /\ writer.at = "samples" /\ ~Unwritten(m) /\ iq' = t
      /\ written' = [written EXCEPT !.offset = o] /\ writer' = [writer EXCEPT !.at = "line"]
      /\ UNCHANGED <<ring, closing, lines, inbox>>
  BY <1>1 DEF write_samples, Unwritten, WriterType, WrittenType
<1>3. m \in Writable /\ iq \in Seq(Int) /\ written \in WrittenType
  BY <1>1, <1>2 DEF WriterType
<1>4. m.iq \in Seq(Int) /\ n \in Nat
  BY <1>3, WritableLabelled
<1>5. DOMAIN writer' = {"at", "msg"} /\ writer'.at = "line" /\ writer'.msg = m
  BY <1>1, <1>2 DEF WriterType
<1>6. /\ t \in Seq(Int) /\ Len(t) = Len(q) + n /\ Len(q) \in Nat
      /\ \A i \in 1..(Len(q) + n) : t[i] = IF i <= Len(q) THEN q[i] ELSE m.iq[i - Len(q)]
  BY <1>3, <1>4, Joined
<1>7. written.offset = Len(q) /\ o = Len(t)
  BY <1>1, <1>6 DEF Written
<1>8. \A k \in DOMAIN lines : LineRead(Entry(k), t)
  BY <1>1, <1>3, <1>4, LineReadOn DEF Written
<1> HIDE DEF m, n, t, o
<1>9. /\ written' \in WrittenType /\ written'.offset = o
      /\ written'.received = written.received /\ written'.dropped = written.dropped
  <2>1. o \in Nat
    BY <1>3, <1>4, WrittenCounters DEF o
  <2> QED BY <1>2, <1>3, <2>1 DEF WrittenType
<1>10. WriterType'
  BY <1>1, <1>2, <1>3, <1>5, <1>6, <1>9 DEF WriterType
<1>11. Written'
  <2>1. Pending' = n /\ Pending = 0
    BY <1>2, <1>5 DEF Pending, n, m
  <2>2. written'.offset = Len(iq') /\ Pending' \in Nat /\ Pending' <= Len(iq')
    BY <1>2, <1>4, <1>6, <1>7, <1>9, <2>1
  <2>3. \A k \in DOMAIN lines' : LineRead(Entry(k)', iq')
    BY <1>2, <1>8 DEF Entry
  <2>4. \A k \in DOMAIN lines' : (Entry(k).offset + Entry(k).n + Pending <= Len(iq))'
    <3>1. SUFFICES ASSUME NEW k \in DOMAIN lines
                   PROVE  Entry(k).offset + Entry(k).n + n <= Len(t)
      BY <1>2, <2>1 DEF Entry
    <3> DEFINE a == Entry(k).offset
               b == Entry(k).n
               l == Len(q)
    <3>2. a \in Nat /\ b \in Nat /\ a + b + 0 <= l
      BY <1>1, <2>1, <3>1 DEF Written, LineRead
    <3>3. Len(t) = l + n /\ l \in Nat
      BY <1>6
    <3> HIDE DEF a, b, l
    <3>4. a + b + n <= Len(t)
      BY <1>4, <3>2, <3>3
    <3> QED BY <3>4 DEF a, b
  <2>5. \A j, k \in DOMAIN lines' : j < k => (Entry(j).offset + Entry(j).n <= Entry(k).offset)'
    BY <1>1, <1>2 DEF Written, Entry
  <2>6. ASSUME NEW i \in 1..n PROVE t[Len(t) - n + i] = m.iq[i]
    <3> DEFINE l == Len(q)
               x == l + i
    <3>1. x \in 1..(l + n) /\ ~(x <= l) /\ x - l = i /\ Len(t) - n + i = x
      BY <1>4, <1>6
    <3> HIDE DEF l, x
    <3>2. t[x] = m.iq[x - l]
      BY <1>6, <3>1 DEF l
    <3> QED BY <3>1, <3>2
  <2>7. (LongPackets => \A k \in DOMAIN lines : Entry(k).n >= StreamBuffer)'
    BY <1>1, <1>2 DEF Written, Entry, LongPackets
  <2> QED BY <1>2, <1>5, <2>1, <2>2, <2>3, <2>4, <2>5, <2>6, <2>7 DEF Written
<1>12. WriterCounted'
  BY <1>1, <1>2, <1>5, <1>9, CountedKept DEF m
<1> QED BY <1>10, <1>11, <1>12 DEF WriterGood

LEMMA WriterEndsLine ==
  ASSUME WriterGood, Numbers, write_line, UNCHANGED <<tally, foreign>>
  PROVE  WriterGood'
<1> DEFINE m == writer.msg
           n == Len(m.iq)
           o == written.offset - n
           e == LineOf(m.meta, n, o)
           w == Parsed(e)
           t == Append(lines, e)
           a == written.packets + 1
           ws == m.meta["window_start_sample"]
<1>1. WriterType /\ Written /\ WriterCounted
  BY DEF WriterGood
<1>2. /\ writer.at = "line" /\ lines' = t /\ written' = [written EXCEPT !.packets = a]
      /\ writer' = [at |-> "wait", msg |-> NoPacket] /\ UNCHANGED <<ring, closing, iq, inbox>>
  BY <1>1 DEF write_line, WriterType, WrittenType
<1>3. m \in Writable /\ iq \in Seq(Int) /\ written \in WrittenType /\ lines \in Seq(Range(lines))
  BY <1>1, <1>2 DEF WriterType
<1>0. PICK K \in Nat : K = Len(lines)
  BY <1>3
<1>4. /\ n \in Nat /\ ws \in Nat /\ "window_start_sample" \in DOMAIN m.meta
      /\ m.iq = Run(ws, n) /\ (LongPackets /\ ~Unwritten(m) => n >= StreamBuffer)
  BY <1>3, WritableLabelled
<1>5. /\ Pending = n /\ written.offset = Len(iq) /\ n <= Len(iq) /\ ~Unwritten(m)
      /\ \A i \in 1..n : iq[Len(iq) - n + i] = m.iq[i]
  BY <1>1, <1>2 DEF Written, Pending
<1>6. w.n = n /\ w.offset = o /\ w.ws = ws
  BY <1>4, LineOfReads
<1>7. /\ t \in Seq(Range(t)) /\ Len(t) = K + 1 /\ K \in Nat
      /\ DOMAIN lines = 1..K /\ DOMAIN t = 1..(K + 1)
      /\ (\A k \in 1..K : t[k] = lines[k]) /\ t[K + 1] = e
  BY <1>0, <1>3, LineAppended
<1>8. DOMAIN writer' = {"at", "msg"} /\ writer'.at = "wait"
  BY <1>2
<1>9. Len(iq) \in Nat /\ o = Len(iq) - n /\ o \in Nat /\ o + n = Len(iq)
  <2> DEFINE l == Len(iq)
  <2>1. l \in Nat
    BY <1>3
  <2>2. n <= l /\ o = l - n
    BY <1>5
  <2> HIDE DEF l, o, n
  <2>3. o \in Nat /\ o + n = l
    BY <1>4, <2>1, <2>2
  <2> QED BY <2>1, <2>2, <2>3 DEF l
<1> HIDE DEF m, n, o, e, w, t, a, ws
<1>10. /\ written' \in WrittenType /\ written'.offset = written.offset
       /\ written'.received = written.received /\ written'.dropped = written.dropped
  <2>1. a \in Nat
    BY <1>3, WrittenCounters DEF a
  <2> QED BY <1>2, <1>3, <2>1 DEF WrittenType
<1>11. WriterType'
  BY <1>1, <1>2, <1>7, <1>8, <1>10 DEF WriterType
<1>12. LineRead(w, iq)
  <2>1. ASSUME NEW i \in 1..n PROVE iq[o + i] = ws + i - 1
    <3>1. iq[o + i] = m.iq[i]
      BY <1>5, <1>9
    <3>2. m.iq[i] = ws + i - 1
      BY <1>4 DEF Run
    <3> QED BY <3>1, <3>2
  <2> QED BY <1>4, <1>6, <1>9, <2>1 DEF LineRead
<1>13. /\ \A k \in 1..K : Entry(k)' = Entry(k)
       /\ Entry(K + 1)' = w /\ DOMAIN lines' = 1..(K + 1)
  BY <1>2, <1>7 DEF Entry, w
<1>14. Written'
  <2>1. Pending' = 0
    BY <1>8 DEF Pending
  <2>2. written'.offset = Len(iq') /\ Pending' \in Nat /\ Pending' <= Len(iq')
    BY <1>2, <1>5, <1>9, <1>10, <2>1
  <2>3. \A k \in 1..K : LineRead(Entry(k), iq) /\ Entry(k).offset + Entry(k).n + n <= Len(iq)
    BY <1>1, <1>5, <1>7 DEF Written
  <2>4. ASSUME NEW k \in 1..(K + 1)
        PROVE  k \in 1..K \/ k = K + 1
    BY <1>7
  <2>5. ASSUME NEW k \in 1..(K + 1)
        PROVE  LineRead(Entry(k)', iq) /\ (Entry(k).offset + Entry(k).n + 0)' <= Len(iq)
    <3>1. CASE k \in 1..K
      <4> DEFINE x == Entry(k).offset
                 y == Entry(k).n
      <4>1. x \in Nat /\ y \in Nat /\ x + y + n <= Len(iq) /\ LineRead(Entry(k), iq)
        BY <2>3, <3>1 DEF LineRead
      <4>2. (Entry(k).offset + Entry(k).n + 0)' = x + y + 0
        BY <1>13, <3>1
      <4> HIDE DEF x, y
      <4>3. x + y + 0 <= Len(iq)
        BY <1>4, <1>9, <4>1
      <4> QED BY <1>13, <3>1, <4>1, <4>2, <4>3
    <3>2. CASE k = K + 1
      <4>1. Entry(k)' = w
        BY <1>13, <3>2
      <4>2. w.offset + w.n + 0 <= Len(iq)
        BY <1>4, <1>6, <1>9
      <4> QED BY <1>12, <4>1, <4>2
    <3> QED BY <2>4, <3>1, <3>2
  <2>6. ASSUME NEW j \in 1..(K + 1), NEW k \in 1..(K + 1), j < k
        PROVE  (Entry(j).offset + Entry(j).n)' <= Entry(k)'.offset
    <3>1. j \in 1..K
      BY <1>7, <2>6
    <3>2. CASE k \in 1..K
      BY <1>1, <1>7, <1>13, <2>6, <3>1, <3>2 DEF Written
    <3>3. CASE k = K + 1
      <4> DEFINE x == Entry(j).offset
                 y == Entry(j).n
      <4>1. x \in Nat /\ y \in Nat /\ x + y + n <= Len(iq)
        BY <2>3, <3>1 DEF LineRead
      <4>2. (Entry(j).offset + Entry(j).n)' = x + y /\ Entry(k)'.offset = o
        BY <1>6, <1>13, <3>1, <3>3
      <4> HIDE DEF x, y
      <4>3. x + y <= o
        BY <1>4, <1>9, <4>1
      <4> QED BY <4>2, <4>3
    <3> QED BY <2>4, <3>2, <3>3
  <2>7. ASSUME LongPackets, NEW k \in 1..(K + 1) PROVE Entry(k)'.n >= StreamBuffer
    <3>1. CASE k \in 1..K
      BY <1>1, <1>7, <1>13, <2>7, <3>1 DEF Written
    <3>2. CASE k = K + 1
      BY <1>4, <1>5, <1>6, <1>13, <2>7, <3>2
    <3> QED BY <2>4, <3>1, <3>2
  <2>8. LongPackets' <=> LongPackets
    BY DEF LongPackets
  <2> QED BY <1>2, <1>8, <1>13, <2>1, <2>2, <2>5, <2>6, <2>7, <2>8 DEF Written
<1>15. WriterCounted'
  <2>1. InHand = 1 /\ InHand' = 0
    BY <1>2, <1>8 DEF InHand, One
  <2>2. SUFFICES ASSUME AllKnown(inbox["tap"])
                 PROVE  /\ AllKnown(inbox["writer"]) /\ AllKnown(ring)
                        /\ written.received + Len(inbox["writer"]) = Sent
                        /\ written.received = Len(t) + written.dropped + Len(ring) + InHand'
    BY <1>2, <1>8, <1>10 DEF WriterCounted, InHand, Sent
  <2>3. /\ AllKnown(inbox["writer"]) /\ AllKnown(ring)
        /\ written.received + Len(inbox["writer"]) = Sent
        /\ written.received = Len(lines) + written.dropped + Len(ring) + InHand
    BY <1>1, <2>2 DEF WriterCounted, InHand
  <2> DEFINE y == Len(ring)
             v == Len(t)
             b == written.dropped
             c == written.received
  <2>4. K \in Nat /\ y \in Nat /\ v = K + 1 /\ b \in Nat /\ c \in Nat /\ c = K + b + y + 1
    BY <1>0, <1>7, <2>1, <2>3 DEF Numbers
  <2> HIDE DEF y, v, b, c
  <2>5. c = v + b + y + 0
    BY <2>4
  <2> QED BY <2>1, <2>3, <2>5 DEF y, v, b, c
<1> QED BY <1>11, <1>14, <1>15 DEF WriterGood

LEMMA WriterEnds ==
  ASSUME WriterGood, writer_exit \/ writer_stop, UNCHANGED <<tally, foreign>>
  PROVE  WriterGood'
<1>1. WriterType /\ Written /\ WriterCounted
  BY DEF WriterGood
<1>2. /\ UNCHANGED <<ring, iq, lines, written, inbox>>
      /\ closing' \in BOOLEAN
      /\ \/ writer' = writer
         \/ writer.at = "wait" /\ writer' = [writer EXCEPT !.at = "exit"]
  BY <1>1 DEF writer_exit, writer_stop, WriterType
<1>3. CASE writer' = writer
  <2>1. WriterType'
    BY <1>1, <1>2, <1>3 DEF WriterType
  <2>2. Written'
    BY <1>1, <1>2, <1>3, WrittenKept
  <2>3. WriterCounted'
    BY <1>1, <1>2, <1>3, CountedKept
  <2> QED BY <2>1, <2>2, <2>3 DEF WriterGood
<1>4. CASE writer.at = "wait" /\ writer' = [writer EXCEPT !.at = "exit"]
  <2>1. DOMAIN writer' = {"at", "msg"} /\ writer'.at = "exit" /\ writer'.msg = writer.msg
    BY <1>1, <1>4 DEF WriterType
  <2>2. WriterType'
    BY <1>1, <1>2, <2>1 DEF WriterType
  <2>3. Written'
    BY <1>1, <1>2, <1>4, <2>1, WrittenKept
  <2>4. WriterCounted'
    BY <1>1, <1>2, <1>4, <2>1, CountedKept
  <2> QED BY <2>2, <2>3, <2>4 DEF WriterGood
<1> QED BY <1>2, <1>3, <1>4

LEMMA WriterThreadKeeps ==
  ASSUME WriterGood, Numbers, WriterThread, UNCHANGED <<tally, foreign>>
  PROVE  WriterGood' /\ inbox' = inbox
<1>1. inbox' = inbox
  BY DEF WriterThread, next_packet, skip_odd, write_samples, write_line, writer_exit
<1> QED BY <1>1, WriterTakes, WriterSkips, WriterAppends, WriterEndsLine, WriterEnds DEF WriterThread

-----------------------------------------------------------------------------
(* The flowgraph.                                                          *)

ChainGood == ChainType /\ WriterGood /\ CropCounted /\ ResamplerCounted

\* A step that only the extractor takes, or that says that blocks end
LEMMA ChainKept ==
  ASSUME ChainGood, UNCHANGED <<inbox, writerVars, crops, resampled, policy, foreign>>,
         tally'.emitted = tally.emitted, stopping' \in BOOLEAN
  PROVE  ChainGood'
<1>1. UNCHANGED <<ring, writer, closing, iq, lines, written>>
  BY DEF writerVars
<1>2. ChainType' /\ WriterType' /\ Written'
  BY <1>1, WrittenKept DEF ChainGood, WriterGood, ChainType, QueueTypes, WriterType
<1>3. CropCounted' /\ ResamplerCounted' /\ WriterCounted'
  BY <1>1 DEF ChainGood, WriterGood, CropCounted, ResamplerCounted, WriterCounted, Sent
<1> QED BY <1>2, <1>3 DEF ChainGood, WriterGood

\* A packet on its way to the writer, the crop and the tap
LEMMA PublisherKeeps ==
  ASSUME ChainGood, tally \in TallyType, NEW m \in Packets,
         inbox' = Published(inbox, "extractor", m),
         UNCHANGED <<writerVars, crops, resampled, policy, stopping>>,
         foreign' \in Nat, Sent' = Sent + 1
  PROVE  ChainGood'
<1>1. UNCHANGED <<ring, writer, closing, iq, lines, written>>
  BY DEF writerVars
<1>2. ChainType /\ QueueTypes /\ WriterType /\ Written /\ WriterCounted /\ CropCounted /\ ResamplerCounted
  BY DEF ChainGood, WriterGood, ChainType
<1>3. /\ DOMAIN inbox' = Receivers
      /\ inbox'["writer"] = Append(inbox["writer"], m)
      /\ inbox'["crop"] = Append(inbox["crop"], m)
      /\ inbox'["tap"] = Append(inbox["tap"], m)
      /\ inbox'["resampler"] = inbox["resampler"] /\ inbox'["demod"] = inbox["demod"]
  <2>1. DOMAIN inbox = Receivers
    BY <1>2 DEF QueueTypes
  <2> DEFINE b == Published(inbox, "extractor", m)
  <2>2. /\ DOMAIN b = Receivers
        /\ b["writer"] = Append(inbox["writer"], m) /\ b["crop"] = Append(inbox["crop"], m)
        /\ b["tap"] = Append(inbox["tap"], m)
        /\ b["resampler"] = inbox["resampler"] /\ b["demod"] = inbox["demod"]
    BY <2>1, PublishedBy, SMTT(30)
  <2>3. inbox' = b
    OBVIOUS
  <2> HIDE DEF b
  <2> QED BY <2>2, <2>3
<1>4. /\ inbox["writer"] \in Seq(Packets) /\ inbox["crop"] \in Seq(Packets)
      /\ inbox["tap"] \in Seq(Packets)
  BY <1>2 DEF QueueTypes
<1>5. /\ inbox'["writer"] \in Seq(Packets) /\ Len(inbox'["writer"]) = Len(inbox["writer"]) + 1
      /\ inbox'["crop"] \in Seq(Packets) /\ Len(inbox'["crop"]) = Len(inbox["crop"]) + 1
      /\ inbox'["tap"] \in Seq(Packets)
  <2>1. ASSUME NEW q \in Seq(Packets)
        PROVE  Append(q, m) \in Seq(Packets) /\ Len(Append(q, m)) = Len(q) + 1
    BY Appended
  <2> QED BY <1>3, <1>4, <2>1
<1>6. /\ AllKnown(inbox'["tap"]) => AllKnown(inbox["tap"]) /\ Known(m)
      /\ AllKnown(inbox["writer"]) /\ Known(m) => AllKnown(inbox'["writer"])
  <2>1. ASSUME NEW q \in Seq(Packets)
        PROVE  AllKnown(Append(q, m)) <=> AllKnown(q) /\ Known(m)
    BY AllKnownAppended
  <2>2. AllKnown(Append(inbox["tap"], m)) <=> AllKnown(inbox["tap"]) /\ Known(m)
    BY <1>4, <2>1
  <2>3. AllKnown(Append(inbox["writer"], m)) <=> AllKnown(inbox["writer"]) /\ Known(m)
    BY <1>4, <2>1
  <2> QED BY <1>3, <2>2, <2>3
<1>7. ChainType'
  BY <1>2, <1>3, <1>5 DEF ChainType, QueueTypes
<1>8. WriterType' /\ Written'
  BY <1>1, <1>2, WrittenKept DEF WriterType
<1>9. /\ Len(inbox["writer"]) \in Nat /\ Len(inbox["crop"]) \in Nat /\ crops.received \in Nat
      /\ written.received \in Nat /\ Sent \in Nat
  <2>1. Len(inbox["writer"]) \in Nat /\ Len(inbox["crop"]) \in Nat
    BY <1>2, Queues
  <2>2. crops.received \in Nat
    BY <1>2, CropsCounters DEF ChainType
  <2>3. written.received \in Nat
    BY <1>2, WrittenCounters DEF WriterType
  <2>4. Sent \in Nat
    BY <1>2 DEF Sent, TallyType, ChainType
  <2> QED BY <2>1, <2>2, <2>3, <2>4
<1>10. CropCounted' /\ ResamplerCounted'
  <2> DEFINE x == Len(inbox["crop"])
             y == Len(inbox'["crop"])
             r == crops.received
  <2>1. x \in Nat /\ r \in Nat /\ y = x + 1 /\ r + x = Sent
    BY <1>2, <1>5, <1>9 DEF CropCounted
  <2> HIDE DEF x, y, r
  <2>2. r + y = Sent + 1
    BY <1>9, <2>1
  <2> QED BY <1>2, <1>3, <2>2 DEF CropCounted, ResamplerCounted, y, r
<1>11. WriterCounted'
  <2>1. SUFFICES ASSUME AllKnown(inbox'["tap"])
                 PROVE  /\ AllKnown(inbox'["writer"]) /\ AllKnown(ring)
                        /\ writer.at \in {"samples", "line"} => Known(writer.msg)
                        /\ written.received + Len(inbox'["writer"]) = Sent + 1
                        /\ written.received = Len(lines) + written.dropped + Len(ring) + InHand
    BY <1>1 DEF WriterCounted, InHand
  <2> DEFINE x == Len(inbox["writer"])
             y == Len(inbox'["writer"])
             r == written.received
  <2>2. x \in Nat /\ r \in Nat /\ y = x + 1 /\ r + x = Sent
    BY <1>2, <1>5, <1>6, <1>9, <2>1 DEF WriterCounted
  <2> HIDE DEF x, y, r
  <2>3. r + y = Sent + 1
    BY <1>9, <2>2
  <2> QED BY <1>2, <1>6, <2>1, <2>3 DEF WriterCounted, InHand, y, r
<1> QED BY <1>7, <1>8, <1>10, <1>11 DEF ChainGood, WriterGood

LEMMA CropKeeps ==
  ASSUME ChainGood, crop_handle_packet,
         UNCHANGED <<tally, writerVars, resampled, policy, foreign, stopping>>
  PROVE  ChainGood'
<1>1. UNCHANGED <<ring, writer, closing, iq, lines, written>>
  BY DEF writerVars
<1>2. /\ ChainType /\ QueueTypes /\ WriterType /\ Written /\ WriterCounted
      /\ CropCounted /\ ResamplerCounted /\ crops \in CropsType /\ DOMAIN inbox = Receivers
  BY DEF ChainGood, WriterGood, ChainType, QueueTypes
<1>3. /\ crops' \in CropsType /\ crops'.received = crops.received + 1 /\ inbox["crop"] # <<>>
      /\ \/ /\ inbox' = Handled(inbox, "crop")
            /\ crops'.dropped = crops.dropped + 1 /\ crops'.emitted = crops.emitted
         \/ /\ \E m \in CropPackets : inbox' = Published(Handled(inbox, "crop"), "crop", m)
            /\ crops'.emitted = crops.emitted + 1 /\ crops'.dropped = crops.dropped
  BY <1>2, CropCases
<1>4. /\ DOMAIN inbox' = Receivers /\ inbox'["crop"] = Tail(inbox["crop"])
      /\ inbox'["writer"] = inbox["writer"] /\ inbox'["tap"] = inbox["tap"]
      /\ inbox'["demod"] = inbox["demod"]
      /\ \/ /\ inbox'["resampler"] = inbox["resampler"]
            /\ crops'.dropped = crops.dropped + 1 /\ crops'.emitted = crops.emitted
         \/ /\ \E m \in CropPackets : inbox'["resampler"] = Append(inbox["resampler"], m)
            /\ crops'.emitted = crops.emitted + 1 /\ crops'.dropped = crops.dropped
  <2>1. CASE inbox' = Handled(inbox, "crop")
    <3>1. "crop" \in Receivers /\ {"writer", "tap", "demod", "resampler"} \subseteq Receivers \ {"crop"}
      BY DEF Receivers
    <3>2. /\ DOMAIN Handled(inbox, "crop") = Receivers
          /\ Handled(inbox, "crop")["crop"] = Tail(inbox["crop"])
          /\ \A c \in Receivers \ {"crop"} : Handled(inbox, "crop")[c] = inbox[c]
      BY <1>2, <3>1, HandledBy
    <3>3. /\ inbox'["writer"] = inbox["writer"] /\ inbox'["tap"] = inbox["tap"]
          /\ inbox'["demod"] = inbox["demod"] /\ inbox'["resampler"] = inbox["resampler"]
      BY <2>1, <3>1, <3>2
    <3>4. DOMAIN inbox' = Receivers /\ inbox'["crop"] = Tail(inbox["crop"])
      BY <2>1, <3>2
    <3>5. \/ crops'.dropped = crops.dropped + 1 /\ crops'.emitted = crops.emitted
          \/ \E m \in CropPackets : inbox' = Published(Handled(inbox, "crop"), "crop", m)
      BY <1>3
    <3>6. \A m : Published(Handled(inbox, "crop"), "crop", m)["resampler"]
                   = Append(inbox["resampler"], m)
      BY <1>2, PublishedBy
    <3>7. CASE crops'.dropped = crops.dropped + 1 /\ crops'.emitted = crops.emitted
      BY <3>3, <3>4, <3>7
    <3>8. CASE /\ \E m \in CropPackets : inbox' = Published(Handled(inbox, "crop"), "crop", m)
               /\ crops'.emitted = crops.emitted + 1 /\ crops'.dropped = crops.dropped
      BY <3>3, <3>4, <3>6, <3>8
    <3> QED BY <1>3, <3>7, <3>8
  <2>2. CASE /\ \E m \in CropPackets : inbox' = Published(Handled(inbox, "crop"), "crop", m)
             /\ crops'.emitted = crops.emitted + 1 /\ crops'.dropped = crops.dropped
    BY <1>2, <2>2, PublishedBy
  <2> QED BY <1>3, <2>1, <2>2
<1>5. /\ inbox["crop"] \in Seq(Packets) /\ inbox["resampler"] \in Seq(CropPackets)
  BY <1>2 DEF QueueTypes
<1>6. /\ inbox'["crop"] \in Seq(Packets) /\ Len(inbox["crop"]) = Len(inbox'["crop"]) + 1
      /\ Len(inbox'["crop"]) \in Nat
  BY <1>3, <1>4, <1>5, Taken
<1> DEFINE d == Len(inbox'["resampler"])
           e == Len(inbox["resampler"])
<1>7. /\ inbox'["resampler"] \in Seq(CropPackets) /\ e \in Nat
      /\ \/ d = e /\ crops'.dropped = crops.dropped + 1 /\ crops'.emitted = crops.emitted
         \/ d = e + 1 /\ crops'.emitted = crops.emitted + 1 /\ crops'.dropped = crops.dropped
  <2>1. CASE inbox'["resampler"] = inbox["resampler"] /\ crops'.dropped = crops.dropped + 1
             /\ crops'.emitted = crops.emitted
    BY <1>5, <2>1
  <2>2. CASE /\ \E m \in CropPackets : inbox'["resampler"] = Append(inbox["resampler"], m)
             /\ crops'.emitted = crops.emitted + 1 /\ crops'.dropped = crops.dropped
    BY <1>5, <2>2, Appended
  <2> QED BY <1>4, <2>1, <2>2
<1>8. ChainType'
  BY <1>2, <1>3, <1>4, <1>6, <1>7 DEF ChainType, QueueTypes
<1>9. WriterType' /\ Written'
  BY <1>1, <1>2, WrittenKept DEF WriterType
<1>10. WriterCounted'
  BY <1>1, <1>2, <1>4 DEF WriterCounted, Sent
<1>11. CropCounted' /\ ResamplerCounted'
  <2> DEFINE x == Len(inbox["crop"])
             y == Len(inbox'["crop"])
  <2> HIDE DEF d, e
  <2>1. /\ y \in Nat /\ x = y + 1 /\ e \in Nat
        /\ crops.received \in Nat /\ crops.emitted \in Nat /\ crops.dropped \in Nat
        /\ resampled.received \in Nat
    BY <1>2, <1>6, <1>7, CropsCounters DEF ChainType, ResampledType
  <2>2. crops.received + x = Sent /\ crops.received = crops.emitted + crops.dropped
    BY <1>2 DEF CropCounted
  <2>3. /\ resampled.received + e = crops.emitted
        /\ resampled.received = Len(inbox["demod"]) + resampled.dropped
    BY <1>2 DEF ResamplerCounted, e
  <2> HIDE DEF x, y
  <2>4. /\ crops'.received + y = Sent /\ crops'.received = crops'.emitted + crops'.dropped
        /\ resampled.received + d = crops'.emitted
    <3> DEFINE a == crops.received
               b == crops.emitted
               c == crops.dropped
               r == resampled.received
               aa == crops'.received
               bb == crops'.emitted
               cc == crops'.dropped
    <3>1. /\ y \in Nat /\ x = y + 1 /\ e \in Nat /\ a \in Nat /\ b \in Nat /\ c \in Nat /\ r \in Nat
          /\ a + x = Sent /\ a = b + c /\ r + e = b
      BY <2>1, <2>2, <2>3
    <3>2. aa = a + 1 /\ ((d = e /\ cc = c + 1 /\ bb = b) \/ (d = e + 1 /\ bb = b + 1 /\ cc = c))
      BY <1>3, <1>7
    <3> HIDE DEF a, b, c, r, aa, bb, cc
    <3>3. aa + y = Sent /\ aa = bb + cc /\ r + d = bb
      BY <3>1, <3>2
    <3> QED BY <3>3 DEF aa, bb, cc, r
  <2>5. Sent' = Sent
    BY DEF Sent
  <2> QED BY <1>4, <2>3, <2>4, <2>5 DEF CropCounted, ResamplerCounted, y, d
<1> QED BY <1>8, <1>9, <1>10, <1>11 DEF ChainGood, WriterGood

LEMMA ResamplerKeeps ==
  ASSUME ChainGood, resampler_handle_packet,
         UNCHANGED <<tally, writerVars, crops, foreign, stopping>>
  PROVE  ChainGood'
<1>1. UNCHANGED <<ring, writer, closing, iq, lines, written>>
  BY DEF writerVars
<1>2. /\ ChainType /\ QueueTypes /\ WriterType /\ Written /\ WriterCounted
      /\ CropCounted /\ ResamplerCounted /\ resampled \in ResampledType
      /\ policy \in {"FullWindow", "CaptureOnly"} /\ DOMAIN inbox = Receivers
  BY DEF ChainGood, WriterGood, ChainType, QueueTypes
<1>3. /\ resampled' \in ResampledType /\ resampled'.received = resampled.received + 1
      /\ inbox["resampler"] # <<>> /\ policy' = policy
      /\ \/ /\ inbox' = Handled(inbox, "resampler")
            /\ resampled'.dropped = resampled.dropped + 1
         \/ /\ \E m \in ResampledPackets(policy) :
                 inbox' = Published(Handled(inbox, "resampler"), "resampler", m)
            /\ resampled'.dropped = resampled.dropped
  BY <1>2, ResamplerCases
<1>4. /\ DOMAIN inbox' = Receivers /\ inbox'["resampler"] = Tail(inbox["resampler"])
      /\ inbox'["writer"] = inbox["writer"] /\ inbox'["tap"] = inbox["tap"]
      /\ inbox'["crop"] = inbox["crop"]
      /\ \/ /\ inbox'["demod"] = inbox["demod"] /\ resampled'.dropped = resampled.dropped + 1
         \/ /\ \E m \in ResampledPackets(policy) : inbox'["demod"] = Append(inbox["demod"], m)
            /\ resampled'.dropped = resampled.dropped
  <2>1. CASE inbox' = Handled(inbox, "resampler") /\ resampled'.dropped = resampled.dropped + 1
    <3>1. /\ "resampler" \in Receivers
          /\ {"writer", "tap", "demod", "crop"} \subseteq Receivers \ {"resampler"}
      BY DEF Receivers
    <3>2. /\ DOMAIN Handled(inbox, "resampler") = Receivers
          /\ Handled(inbox, "resampler")["resampler"] = Tail(inbox["resampler"])
          /\ \A c \in Receivers \ {"resampler"} : Handled(inbox, "resampler")[c] = inbox[c]
      BY <1>2, <3>1, HandledBy
    <3>3. /\ inbox'["writer"] = inbox["writer"] /\ inbox'["tap"] = inbox["tap"]
          /\ inbox'["demod"] = inbox["demod"] /\ inbox'["crop"] = inbox["crop"]
      BY <2>1, <3>1, <3>2
    <3>4. DOMAIN inbox' = Receivers /\ inbox'["resampler"] = Tail(inbox["resampler"])
      BY <2>1, <3>2
    <3> QED BY <2>1, <3>3, <3>4
  <2>2. CASE /\ \E m \in ResampledPackets(policy) :
                  inbox' = Published(Handled(inbox, "resampler"), "resampler", m)
             /\ resampled'.dropped = resampled.dropped
    <3>1. PICK m \in ResampledPackets(policy) :
            inbox' = Published(Handled(inbox, "resampler"), "resampler", m)
      BY <2>2
    <3> DEFINE b == Published(Handled(inbox, "resampler"), "resampler", m)
    <3>2. /\ DOMAIN b = Receivers /\ b["resampler"] = Tail(inbox["resampler"])
          /\ b["demod"] = Append(inbox["demod"], m) /\ b["writer"] = inbox["writer"]
          /\ b["tap"] = inbox["tap"] /\ b["crop"] = inbox["crop"]
      BY <1>2, PublishedBy
    <3>3. inbox' = b
      BY <3>1
    <3> HIDE DEF b
    <3> QED BY <2>2, <3>2, <3>3
  <2> QED BY <1>3, <2>1, <2>2
<1>5. inbox["resampler"] \in Seq(CropPackets) /\ inbox["demod"] \in Seq(ResampledPackets(policy))
  BY <1>2 DEF QueueTypes
<1>6. /\ inbox'["resampler"] \in Seq(CropPackets) /\ Len(inbox'["resampler"]) \in Nat
      /\ Len(inbox["resampler"]) = Len(inbox'["resampler"]) + 1
  BY <1>3, <1>4, <1>5, Taken
<1> DEFINE d == Len(inbox'["demod"])
           e == Len(inbox["demod"])
<1>7. /\ inbox'["demod"] \in Seq(ResampledPackets(policy)) /\ e \in Nat
      /\ \/ d = e /\ resampled'.dropped = resampled.dropped + 1
         \/ d = e + 1 /\ resampled'.dropped = resampled.dropped
  <2>1. CASE inbox'["demod"] = inbox["demod"] /\ resampled'.dropped = resampled.dropped + 1
    BY <1>5, <2>1
  <2>2. CASE /\ \E m \in ResampledPackets(policy) : inbox'["demod"] = Append(inbox["demod"], m)
             /\ resampled'.dropped = resampled.dropped
    <3> DEFINE S == ResampledPackets(policy)
    <3> HIDE DEF S
    <3>1. inbox["demod"] \in Seq(S)
      BY <1>5 DEF S
    <3>2. PICK m \in S : inbox'["demod"] = Append(inbox["demod"], m)
      BY <2>2 DEF S
    <3>3. inbox'["demod"] \in Seq(S) /\ d = e + 1 /\ e \in Nat
      BY <3>1, <3>2, Appended
    <3> QED BY <2>2, <3>3 DEF S
  <2> QED BY <1>4, <2>1, <2>2
<1>8. ResampledPackets(policy)' = ResampledPackets(policy)
  BY <1>3 DEF ResampledPackets, OutputUnder
<1>9. ChainType'
  BY <1>2, <1>3, <1>4, <1>6, <1>7, <1>8 DEF ChainType, QueueTypes
<1>10. WriterType' /\ Written'
  BY <1>1, <1>2, WrittenKept DEF WriterType
<1>11. WriterCounted'
  BY <1>1, <1>2, <1>4 DEF WriterCounted, Sent
<1>12. CropCounted' /\ ResamplerCounted'
  <2> DEFINE x == Len(inbox["resampler"])
             y == Len(inbox'["resampler"])
             a == resampled.received
             c == resampled.dropped
             aa == resampled'.received
             cc == resampled'.dropped
             b == crops.emitted
  <2> HIDE DEF d, e
  <2>1. y \in Nat /\ x = y + 1 /\ e \in Nat /\ a \in Nat /\ c \in Nat /\ b \in Nat
    BY <1>2, <1>6, <1>7, CropsCounters DEF ChainType, ResampledType
  <2>2. a + x = b /\ a = e + c
    BY <1>2 DEF ResamplerCounted, e
  <2>3. aa = a + 1 /\ ((d = e /\ cc = c + 1) \/ (d = e + 1 /\ cc = c))
    BY <1>3, <1>7
  <2> HIDE DEF x, y, a, c, aa, cc, b
  <2>4. aa + y = b /\ aa = d + cc
    BY <2>1, <2>2, <2>3
  <2>5. Sent' = Sent
    BY DEF Sent
  <2> QED BY <1>2, <1>4, <2>4, <2>5 DEF CropCounted, ResamplerCounted, y, d, aa, cc, b
<1> QED BY <1>9, <1>10, <1>11, <1>12 DEF ChainGood, WriterGood

\* Only what the worker publishes is counted as published.
LEMMA EmittedKept ==
  ASSUME tally \in TallyType,
         \/ ExtractorThread \/ take_job \/ free_slot \/ worker_exit
         \/ stop(stopping \/ sample = StreamLength)
  PROVE  tally'.emitted = tally.emitted /\ inbox' = inbox
<1>1. inbox' = inbox
  BY DEF ExtractorThread, work, begin_next_window, skip, copy, work_returns, stopped, take_job,
         free_slot, worker_exit, stop
<1>2. ASSUME NEW s, Finished(s) PROVE tally'.emitted = tally.emitted
  BY <1>2 DEF Finished, TallyType
<1>3. CASE begin_next_window
  BY <1>3 DEF begin_next_window, StartWindow, MissWindow, NothingToBegin, TallyType
<1>4. CASE copy
  BY <1>2, <1>4 DEF copy
<1>5. CASE stop(stopping \/ sample = StreamLength)
  BY <1>2, <1>5 DEF stop
<1>6. CASE work \/ skip \/ work_returns \/ stopped \/ take_job \/ free_slot \/ worker_exit
  BY <1>6 DEF work, skip, work_returns, stopped, take_job, free_slot, worker_exit
<1> QED BY <1>1, <1>3, <1>4, <1>5, <1>6 DEF ExtractorThread

-----------------------------------------------------------------------------
(* The invariant of a capture and its files.                               *)

\* Whoever reads the file up to a line's end gets the samples of its window.
LEMMA WindowRead ==
  ASSUME NEW q \in Seq(Int), NEW w, LineRead(w, q), NEW a \in 0..Len(q)
  PROVE  LET d == SubSeq(q, 1, a)
         IN  /\ Len(d) = a /\ a \in Nat /\ w.offset + w.n \in Nat
             /\ w.offset + w.n <= a =>
                  SubSeq(d, w.offset + 1, w.offset + w.n) = [i \in 1..w.n |-> w.ws + i - 1]
<1> DEFINE d == SubSeq(q, 1, a)
           n == w.n
           o == w.offset
<1>1. /\ n \in Nat /\ o \in Nat /\ a \in Nat /\ a <= Len(q) /\ w.ws \in Nat
      /\ \A i \in 1..n : q[o + i] = w.ws + i - 1
  BY DEF LineRead
<1> HIDE DEF n, o
<1>2. d \in Seq(Int) /\ Len(d) = a /\ \A i \in 1..a : d[i] = q[i]
  <2>1. 0 \in Nat /\ a \in Nat /\ 0 + a <= Len(q) /\ 0 + 1 = 1 /\ 0 + a = a
    BY <1>1
  <2>2. /\ SubSeq(q, 0 + 1, 0 + a) \in Seq(Int) /\ Len(SubSeq(q, 0 + 1, 0 + a)) = a
        /\ SubSeq(q, 0 + 1, 0 + a) = [i \in 1..a |-> q[0 + i]]
    BY <2>1, Part
  <2>3. d = SubSeq(q, 0 + 1, 0 + a)
    BY <2>1
  <2>4. d \in Seq(Int) /\ Len(d) = a /\ d = [i \in 1..a |-> q[0 + i]]
    BY <2>2, <2>3
  <2> HIDE DEF d
  <2>5. ASSUME NEW i \in 1..a PROVE d[i] = q[i]
    BY <2>4, <2>5
  <2> QED BY <2>4, <2>5
<1> HIDE DEF d
<1>3. ASSUME o + n <= a
      PROVE  SubSeq(d, o + 1, o + n) = [i \in 1..n |-> w.ws + i - 1]
  <2>1. SubSeq(d, o + 1, o + n) = [i \in 1..n |-> d[o + i]]
    BY <1>1, <1>2, <1>3, Part
  <2>2. ASSUME NEW i \in 1..n PROVE d[o + i] = w.ws + i - 1
    <3>1. o + i \in 1..a
      BY <1>1, <1>3
    <3> QED BY <1>1, <1>2, <3>1
  <2> QED BY <2>1, <2>2
<1>4. Len(d) = a /\ a \in Nat /\ o + n \in Nat
  BY <1>1, <1>2
<1>5. o + n <= a => SubSeq(d, o + 1, o + n) = [i \in 1..n |-> w.ws + i - 1]
  BY <1>3
<1>6. d = SubSeq(q, 1, a) /\ n = w.n /\ o = w.offset
  BY DEF d, n, o
<1> QED BY <1>4, <1>5, <1>6

\* A line of the files reads back, if its samples are there; and unless the process
\* died they are.
LinesReadBack ==
  phase = "files" =>
    \A k \in DOMAIN disk.lines : LET w == Parsed(disk.lines[k]) IN
      /\ Readable(w) => Read(w) = [i \in 1..w.n |-> w.ws + i - 1]
      /\ ~died => Readable(w)

CaptureInv ==
  /\ phase \in {"live", "files"}
  /\ Live => ExtractorGood /\ ChainGood
  /\ LinesReadBack
  /\ LongPackets => DumpReadsBack

LEMMA EndReadsBack ==
  ASSUME WriterGood, AppEnds
  PROVE  LinesReadBack' /\ DumpReadsBack'
<1>1. Written /\ iq \in Seq(Int)
  BY DEF WriterGood, WriterType
<1>2. disk'.iq = iq /\ disk'.lines = lines
  BY DEF AppEnds
<1>3. SUFFICES ASSUME NEW k \in DOMAIN disk'.lines
               PROVE  /\ Readable(Parsed(disk.lines[k]))'
                      /\ Read(Parsed(disk.lines[k]))'
                           = [i \in 1..Entry(k).n |-> Entry(k).ws + i - 1]
  BY <1>2 DEF LinesReadBack, DumpReadsBack, Entry
<1> DEFINE w == Entry(k)
<1>4. LineRead(w, iq)
  BY <1>1, <1>2 DEF Written
<1>5. Parsed(disk'.lines[k]) = w
  BY <1>2 DEF Entry
<1> HIDE DEF w
<1>6. w.offset + w.n <= Len(iq) /\ Len(iq) \in 0..Len(iq) /\ SubSeq(iq, 1, Len(iq)) = iq
  BY <1>1, <1>4 DEF LineRead
<1>7. SubSeq(iq, w.offset + 1, w.offset + w.n) = [i \in 1..w.n |-> w.ws + i - 1]
  BY <1>1, <1>4, <1>6, WindowRead, ZenonT(40)
<1> QED BY <1>2, <1>5, <1>6, <1>7 DEF Readable, Read, w

LEMMA DeathReadsBack ==
  ASSUME WriterGood, Dies
  PROVE  LinesReadBack' /\ (LongPackets => DumpReadsBack')
<1>1. Written /\ iq \in Seq(Int) /\ lines \in Seq(Range(lines))
  BY DEF WriterGood, WriterType
<1>2. PICK lost \in 0..Least(StreamBuffer, Len(iq)) :
        disk' = [iq |-> SubSeq(iq, 1, Len(iq) - lost), lines |-> lines, results |-> <<>>]
  BY DEF Dies
<1>3. died' = TRUE /\ disk'.lines = lines /\ disk'.iq = SubSeq(iq, 1, Len(iq) - lost)
  BY <1>2 DEF Dies
<1> DEFINE a == Len(iq) - lost
           d == SubSeq(iq, 1, a)
<1>4. /\ StreamBuffer \in Nat /\ Len(iq) \in Nat /\ lost \in Nat /\ lost <= StreamBuffer
      /\ a \in 0..Len(iq)
  BY <1>1, WriterAssumption DEF Least
<1>5. ASSUME NEW k \in DOMAIN lines
      PROVE  LET w == Entry(k)
             IN  /\ Parsed(disk'.lines[k]) = w /\ Len(d) = a
                 /\ w.offset + w.n \in Nat
                 /\ w.offset + w.n <= a =>
                      SubSeq(d, w.offset + 1, w.offset + w.n) = [i \in 1..w.n |-> w.ws + i - 1]
  <2>1. LineRead(Entry(k), iq)
    BY <1>1 DEF Written
  <2>2. Parsed(disk'.lines[k]) = Entry(k)
    BY <1>3 DEF Entry
  <2> QED BY <1>1, <1>4, <2>1, <2>2, WindowRead
<1>6. ASSUME LongPackets, NEW k \in DOMAIN lines, k # Len(lines)
      PROVE  Entry(k).offset + Entry(k).n <= a
  <2> DEFINE j == k + 1
             x == Entry(k).offset + Entry(k).n
             y == Entry(j).offset
             z == Entry(j).n
  <2>1. j \in DOMAIN lines /\ k < j
    BY <1>1, <1>6
  <2> HIDE DEF j
  <2>2. /\ x <= y /\ z >= StreamBuffer
        /\ LineRead(Entry(j), iq) /\ LineRead(Entry(k), iq)
    BY <1>1, <1>6, <2>1 DEF Written
  <2>3. x \in Nat /\ y \in Nat /\ z \in Nat /\ y + z <= Len(iq)
    BY <2>2 DEF LineRead
  <2> HIDE DEF x, y, z
  <2>4. x <= a
    BY <1>4, <2>2, <2>3
  <2> QED BY <2>4 DEF x
<1> HIDE DEF a, d
<1>7. disk'.iq = d
  BY <1>3 DEF d, a
<1>8. LinesReadBack'
  <2>1. SUFFICES ASSUME NEW k \in DOMAIN disk'.lines, Readable(Parsed(disk.lines[k]))'
                 PROVE  Read(Parsed(disk.lines[k]))' = [i \in 1..Entry(k).n |-> Entry(k).ws + i - 1]
    BY <1>3 DEF LinesReadBack, Entry
  <2> QED BY <1>3, <1>5, <1>7, <2>1 DEF Readable, Read
<1>9. ASSUME LongPackets PROVE DumpReadsBack'
  <2>1. SUFFICES ASSUME NEW k \in DOMAIN disk'.lines
                 PROVE  IF Readable(Parsed(disk.lines[k]))'
                          THEN Read(Parsed(disk.lines[k]))'
                                 = [i \in 1..Entry(k).n |-> Entry(k).ws + i - 1]
                          ELSE died' /\ k = Len(disk'.lines)
    BY <1>3 DEF DumpReadsBack, Entry
  <2>2. CASE k = Len(lines)
    BY <1>3, <1>5, <1>7, <2>1, <2>2 DEF Readable, Read
  <2>3. CASE k # Len(lines)
    BY <1>3, <1>5, <1>6, <1>7, <1>9, <2>1, <2>3 DEF Readable, Read
  <2> QED BY <2>2, <2>3
<1> QED BY <1>8, <1>9

-----------------------------------------------------------------------------
(* The steps.                                                              *)

LEMMA CaptureInit ==
  Init => CaptureInv
<1> SUFFICES ASSUME Init PROVE CaptureInv
  OBVIOUS
<1>1. ExtractorInit /\ WriterInit /\ CropInit /\ ResamplerInit
  BY DEF Init
<1>2. /\ inbox = [b \in Receivers |-> <<>>] /\ phase = "live" /\ ended = {}
      /\ stopping = FALSE /\ foreign = 0
  BY DEF Init
<1>3. /\ inbox["writer"] = <<>> /\ inbox["crop"] = <<>> /\ inbox["tap"] = <<>>
      /\ inbox["resampler"] = <<>> /\ inbox["demod"] = <<>> /\ DOMAIN inbox = Receivers
  BY <1>2 DEF Receivers
<1>4. schedule \in Schedules /\ PoolSize \in Nat /\ StreamLength \in Nat
  BY <1>1, ExtractorAssumption DEF ExtractorInit
<1>5. ExtractorType
  <2>1. slot \in [1..PoolSize -> SlotType]
    BY <1>1 DEF ExtractorInit, EmptySlot, SlotType
  <2> QED BY <1>1, <1>4, <2>1 DEF ExtractorInit, ExtractorType, NoSlot
<1>6. ExtractorInv
  <2>1. Bounds.end \in Nat
    BY <1>5, BoundsNow
  <2>2. Pace
    BY <1>1, <1>2, <1>4, <2>1 DEF ExtractorInit, Pace, Idle
  <2> QED BY <1>1, <2>2 DEF ExtractorInit, ExtractorInv, SlotsOwned, WindowsWhole, Filling,
          Publishing
<1>7. WindowsCounted
  BY <1>1 DEF ExtractorInit, WindowsCounted, One
<1>8. ChainType
  <2>1. crops \in CropsType
    BY <1>1 DEF CropInit, CropsType
  <2>2. resampled \in ResampledType /\ policy \in {"FullWindow", "CaptureOnly"}
    BY <1>1, EmitPolicyAssumption DEF ResamplerInit, ResampledType
  <2>3. ASSUME NEW S PROVE <<>> \in Seq(S)
    OBVIOUS
  <2>4. QueueTypes
    BY <1>3, <2>3 DEF QueueTypes
  <2> QED BY <1>2, <2>1, <2>2, <2>4 DEF ChainType
<1>9. WriterType
  <2>1. written \in WrittenType
    BY <1>1 DEF WriterInit, WrittenType
  <2>2. ring \in Seq(Writable) /\ iq \in Seq(Int)
    BY <1>1 DEF WriterInit
  <2>3. lines \in Seq(Range(lines))
    BY <1>1 DEF WriterInit
  <2>4. DOMAIN writer = {"at", "msg"} /\ writer.at = "wait" /\ closing \in BOOLEAN
    BY <1>1 DEF WriterInit
  <2> QED BY <2>1, <2>2, <2>3, <2>4 DEF WriterType
<1>10. Written
  BY <1>1 DEF WriterInit, Written, Pending
<1>11. /\ Sent = 0 /\ WriterCounted /\ CropCounted /\ ResamplerCounted
  <2>1. Sent = 0
    BY <1>1, <1>2 DEF Sent, ExtractorInit
  <2> QED BY <1>1, <1>3, <2>1, AllKnownEmpty DEF WriterInit, CropInit, ResamplerInit,
          WriterCounted, CropCounted, ResamplerCounted, One
<1> QED BY <1>2, <1>5, <1>6, <1>7, <1>8, <1>9, <1>10, <1>11 DEF CaptureInv, Live, LinesReadBack,
        DumpReadsBack, ExtractorGood, ChainGood, WriterGood

\* A live capture: both halves of the invariant.
LiveGood == ExtractorGood /\ ChainGood

LEMMA LiveTyped ==
  ASSUME LiveGood
  PROVE  /\ tally \in TallyType /\ foreign \in Nat /\ DOMAIN inbox = Receivers /\ QueueTypes
         /\ stopping \in BOOLEAN /\ WriterGood /\ Numbers
<1>1. tally \in TallyType
  BY DEF LiveGood, ExtractorGood, ExtractorType, TallyType
<1>2. foreign \in Nat /\ QueueTypes /\ stopping \in BOOLEAN /\ WriterGood
  BY DEF LiveGood, ChainGood, ChainType
<1>3. Numbers
  BY <1>1, <1>2, NumbersTyped DEF WriterGood
<1> QED BY <1>1, <1>2, <1>3 DEF QueueTypes

LEMMA ExtractorStep ==
  ASSUME LiveGood, Extractor
  PROVE  LiveGood'
<1>1. /\ UNCHANGED <<writerVars, crops, resampled, policy, foreign>> /\ FlowAside
      /\ stopping' = stopping
  BY DEF Extractor, OutsideExtractor, flowVars, FlowAside
<1>2. /\ ExtractorGood /\ ChainGood /\ tally \in TallyType /\ foreign \in Nat
      /\ DOMAIN inbox = Receivers /\ stopping' \in BOOLEAN
  BY <1>1, LiveTyped DEF LiveGood
<1>3. ASSUME ExtractorThread \/ take_job \/ free_slot \/ worker_exit PROVE ChainGood'
  BY <1>1, <1>2, <1>3, EmittedKept, ChainKept
<1>4. CASE publish_slot
  <2>1. ExtractorGood' /\ tally'.emitted = tally.emitted + 1
    BY <1>1, <1>2, <1>4, PublishKeeps
  <2>2. PICK p \in Extracted : inbox' = Published(inbox, "extractor", p)
    BY <1>1, <1>2, <1>4, PublishKeeps
  <2>3. p \in Packets
    BY DEF Packets
  <2>4. Sent' = Sent + 1
    <3> DEFINE e == tally.emitted
    <3>1. e \in Nat /\ tally'.emitted = e + 1
      BY <1>2, <2>1 DEF TallyType
    <3> HIDE DEF e
    <3>2. (e + 1) + foreign = (e + foreign) + 1
      BY <1>2, <3>1
    <3> QED BY <1>1, <3>1, <3>2 DEF Sent, e
  <2>5. ChainGood'
    BY <1>1, <1>2, <2>2, <2>3, <2>4, PublisherKeeps
  <2> QED BY <2>1, <2>5 DEF LiveGood
<1>5. CASE work
  BY <1>1, <1>2, <1>3, <1>5, WorkKeeps DEF LiveGood, ExtractorThread
<1>6. CASE begin_next_window
  BY <1>1, <1>2, <1>3, <1>6, BeginKeeps DEF LiveGood, ExtractorThread
<1>7. CASE skip
  BY <1>1, <1>2, <1>3, <1>7, SkipKeeps DEF LiveGood, ExtractorThread
<1>8. CASE copy
  BY <1>1, <1>2, <1>3, <1>8, CopyKeeps DEF LiveGood, ExtractorThread
<1>9. CASE work_returns \/ stopped
  BY <1>1, <1>2, <1>3, <1>9, ReturnsKeeps DEF LiveGood, ExtractorThread
<1>10. CASE take_job
  BY <1>1, <1>2, <1>3, <1>10, TakeKeeps DEF LiveGood
<1>11. CASE free_slot
  BY <1>1, <1>2, <1>3, <1>11, FreeKeeps DEF LiveGood
<1>12. CASE worker_exit
  BY <1>1, <1>2, <1>3, <1>12, ExitKeeps DEF LiveGood
<1> QED BY <1>4, <1>5, <1>6, <1>7, <1>8, <1>9, <1>10, <1>11, <1>12
        DEF Extractor, ExtractorThread, ExtractorWorker

LEMMA ExtractorEndsStep ==
  ASSUME LiveGood, ExtractorEnds
  PROVE  LiveGood'
<1>1. /\ stop(stopping \/ sample = StreamLength) /\ ended' = ended \cup {"extractor"}
      /\ UNCHANGED <<writerVars, crops, resampled, policy, foreign>> /\ stopping' = stopping
  BY DEF ExtractorEnds
<1>2. ExtractorGood'
  BY <1>1, EndsKeeps DEF LiveGood
<1>3. tally'.emitted = tally.emitted /\ inbox' = inbox
  BY <1>1, LiveTyped, EmittedKept
<1> QED BY <1>1, <1>2, <1>3, LiveTyped, ChainKept DEF LiveGood

\* The extractor is not touched by what the others do.
LEMMA OthersStep ==
  ASSUME LiveGood, UNCHANGED extVars, UNCHANGED <<stopping, ended>>
  PROVE  ExtractorGood' /\ UNCHANGED tally
BY OutsideKeeps DEF LiveGood, extVars

LEMMA OtherPublisherStep ==
  ASSUME LiveGood, OtherPublisher
  PROVE  LiveGood'
<1>1. /\ UNCHANGED extVars /\ UNCHANGED <<writerVars, crops, resampled, policy, stopping, ended>>
      /\ foreign' = foreign + 1 /\ \E p \in Foreign : inbox' = Published(inbox, "extractor", p)
  BY DEF OtherPublisher
<1>2. PICK p \in Foreign : inbox' = Published(inbox, "extractor", p)
  BY <1>1
<1>3. p \in Packets
  BY DEF Packets
<1>4. /\ ExtractorGood' /\ tally' = tally /\ tally \in TallyType /\ foreign \in Nat /\ ChainGood
  BY <1>1, OthersStep, LiveTyped DEF LiveGood
<1>5. foreign' \in Nat /\ Sent' = Sent + 1
  <2> DEFINE e == tally.emitted
  <2>1. e \in Nat
    BY <1>4 DEF TallyType
  <2> HIDE DEF e
  <2>2. e + (foreign + 1) = (e + foreign) + 1 /\ foreign + 1 \in Nat
    BY <1>4, <2>1
  <2> QED BY <1>1, <1>4, <2>2 DEF Sent, e
<1>6. ChainGood'
  BY <1>1, <1>2, <1>3, <1>4, <1>5, PublisherKeeps
<1> QED BY <1>4, <1>6 DEF LiveGood

LEMMA CropStep ==
  ASSUME LiveGood, Crop
  PROVE  LiveGood'
<1>1. /\ crop_handle_packet /\ UNCHANGED extVars /\ UNCHANGED <<stopping, ended>>
      /\ UNCHANGED <<writerVars, resampled, policy, foreign>>
  BY DEF Crop, flowVars
<1>2. ExtractorGood' /\ UNCHANGED tally
  BY <1>1, OthersStep
<1>3. ChainGood'
  BY <1>1, <1>2, CropKeeps DEF LiveGood
<1> QED BY <1>2, <1>3 DEF LiveGood

LEMMA ResamplerStep ==
  ASSUME LiveGood, Resampler
  PROVE  LiveGood'
<1>1. /\ resampler_handle_packet /\ UNCHANGED extVars /\ UNCHANGED <<stopping, ended>>
      /\ UNCHANGED <<writerVars, crops, foreign>>
  BY DEF Resampler, flowVars
<1>2. ExtractorGood' /\ UNCHANGED tally
  BY <1>1, OthersStep
<1>3. ChainGood'
  BY <1>1, <1>2, ResamplerKeeps DEF LiveGood
<1> QED BY <1>2, <1>3 DEF LiveGood

LEMMA WriterHandlerStep ==
  ASSUME LiveGood, WriterHandler
  PROVE  LiveGood'
<1>1. /\ writer_handle_packet /\ UNCHANGED extVars /\ UNCHANGED <<stopping, ended>>
      /\ UNCHANGED <<crops, resampled, policy, foreign>>
  BY DEF WriterHandler, OutsideWriter, flowVars
<1>2. /\ ExtractorGood' /\ UNCHANGED tally /\ ChainType /\ CropCounted /\ ResamplerCounted
      /\ WriterGood /\ QueueTypes /\ tally \in TallyType /\ foreign \in Nat
      /\ DOMAIN inbox = Receivers
  BY <1>1, OthersStep, LiveTyped DEF LiveGood, ChainGood
<1>3. WriterGood' /\ inbox' = Handled(inbox, "writer") /\ inbox["writer"] # <<>>
  BY <1>1, <1>2, WriterHandles
<1>4. /\ DOMAIN inbox' = Receivers /\ inbox'["writer"] = Tail(inbox["writer"])
      /\ inbox'["crop"] = inbox["crop"] /\ inbox'["resampler"] = inbox["resampler"]
      /\ inbox'["tap"] = inbox["tap"] /\ inbox'["demod"] = inbox["demod"]
  <2> DEFINE b == Handled(inbox, "writer")
  <2>1. "writer" \in Receivers /\ {"crop", "resampler", "tap", "demod"} \subseteq Receivers \ {"writer"}
    BY DEF Receivers
  <2>2. /\ DOMAIN b = Receivers /\ b["writer"] = Tail(inbox["writer"])
        /\ \A c \in Receivers \ {"writer"} : b[c] = inbox[c]
    BY <1>2, <2>1, HandledBy
  <2>3. inbox' = b
    BY <1>3
  <2> HIDE DEF b
  <2> QED BY <2>1, <2>2, <2>3
<1>5. inbox'["writer"] \in Seq(Packets)
  BY <1>2, <1>3, <1>4, Taken DEF QueueTypes
<1>6. ResampledPackets(policy)' = ResampledPackets(policy)
  BY <1>1 DEF ResampledPackets, OutputUnder
<1>7. ChainType'
  BY <1>1, <1>2, <1>4, <1>5, <1>6 DEF ChainType, QueueTypes
<1>8. CropCounted' /\ ResamplerCounted'
  BY <1>1, <1>2, <1>4 DEF CropCounted, ResamplerCounted, Sent
<1> QED BY <1>2, <1>3, <1>7, <1>8 DEF LiveGood, ChainGood

LEMMA WriterTurn ==
  ASSUME LiveGood, UNCHANGED <<extVars, stopping, ended, crops, resampled, policy, foreign>>,
         inbox' = inbox, WriterGood'
  PROVE  LiveGood'
<1>1. ExtractorGood' /\ UNCHANGED tally
  BY OthersStep
<1>2. ResampledPackets(policy)' = ResampledPackets(policy)
  BY DEF ResampledPackets, OutputUnder
<1>3. ChainType'
  BY <1>2 DEF LiveGood, ChainGood, ChainType, QueueTypes
<1>4. CropCounted' /\ ResamplerCounted'
  BY <1>1 DEF LiveGood, ChainGood, CropCounted, ResamplerCounted, Sent
<1> QED BY <1>1, <1>3, <1>4 DEF LiveGood, ChainGood

LEMMA WriterStep ==
  ASSUME LiveGood, Writer
  PROVE  LiveGood'
<1>1. WriterThread /\ UNCHANGED <<extVars, stopping, ended, crops, resampled, policy, foreign>>
  BY DEF Writer, OutsideWriter, flowVars
<1>2. UNCHANGED tally
  BY <1>1 DEF extVars
<1>3. WriterGood' /\ inbox' = inbox
  BY <1>1, <1>2, LiveTyped, WriterThreadKeeps
<1> QED BY <1>1, <1>3, WriterTurn

LEMMA BlockEndsStep ==
  ASSUME LiveGood, NEW b \in DOMAIN Before, BlockEnds(b)
  PROVE  LiveGood'
<1>1. /\ UNCHANGED extVars /\ UNCHANGED <<crops, resampled, policy, stopping, foreign>>
      /\ ended' = ended \cup {b}
      /\ writer_stop \/ UNCHANGED <<writerVars, inbox>>
  BY DEF BlockEnds
<1>2. b # "extractor"
  BY DEF Before
<1>3. ExtractorGood' /\ UNCHANGED tally
  BY <1>1, <1>2, OutsideKeeps DEF LiveGood, extVars
<1>4. WriterGood' /\ inbox' = inbox
  <2>1. CASE writer_stop
    BY <1>1, <1>3, <2>1, LiveTyped, WriterEnds DEF writer_stop
  <2>2. CASE UNCHANGED <<writerVars, inbox>>
    BY <1>1, <1>3, <2>2, LiveTyped, ChainKept DEF LiveGood, ChainGood
  <2> QED BY <1>1, <2>1, <2>2
<1>5. ResampledPackets(policy)' = ResampledPackets(policy)
  BY <1>1 DEF ResampledPackets, OutputUnder
<1>6. ChainType'
  BY <1>1, <1>4, <1>5 DEF LiveGood, ChainGood, ChainType, QueueTypes
<1>7. CropCounted' /\ ResamplerCounted'
  BY <1>1, <1>3, <1>4 DEF LiveGood, ChainGood, CropCounted, ResamplerCounted, Sent
<1> QED BY <1>3, <1>4, <1>6, <1>7 DEF LiveGood, ChainGood

LEMMA TbStopStep ==
  ASSUME LiveGood, TbStop
  PROVE  LiveGood'
<1>1. /\ UNCHANGED extVars /\ UNCHANGED <<writerVars, crops, resampled, policy, inbox>>
      /\ UNCHANGED <<ended, foreign>> /\ stopping' = TRUE
  BY DEF TbStop, liveVars
<1>2. ExtractorGood' /\ UNCHANGED tally
  BY <1>1, OutsideKeeps DEF LiveGood, extVars
<1>3. ChainGood'
  BY <1>1, <1>2, ChainKept DEF LiveGood
<1> QED BY <1>2, <1>3 DEF LiveGood

\* While the flowgraph lives there are no files to speak of; then they stay as they are.
LEMMA CaptureStep ==
  CaptureInv /\ [Next]_vars => CaptureInv'
<1> SUFFICES ASSUME CaptureInv, [Next]_vars PROVE CaptureInv'
  OBVIOUS
<1>1. Live => LiveGood
  BY DEF CaptureInv, LiveGood
<1>2. ASSUME Live, phase' = phase, LiveGood' PROVE CaptureInv'
  BY <1>2 DEF CaptureInv, Live, LiveGood, LinesReadBack, DumpReadsBack
<1>3. ASSUME phase' = "files", LinesReadBack', LongPackets => DumpReadsBack' PROVE CaptureInv'
  BY <1>3 DEF CaptureInv, Live, LongPackets
<1>4. CASE Extractor
  BY <1>1, <1>2, <1>4, ExtractorStep DEF Extractor, OutsideExtractor, flowVars
<1>5. CASE ExtractorEnds
  BY <1>1, <1>2, <1>5, ExtractorEndsStep DEF ExtractorEnds
<1>6. CASE OtherPublisher
  BY <1>1, <1>2, <1>6, OtherPublisherStep DEF OtherPublisher
<1>7. CASE Crop
  BY <1>1, <1>2, <1>7, CropStep DEF Crop, flowVars
<1>8. CASE Resampler
  BY <1>1, <1>2, <1>8, ResamplerStep DEF Resampler, flowVars
<1>9. CASE WriterHandler
  BY <1>1, <1>2, <1>9, WriterHandlerStep DEF WriterHandler, OutsideWriter, flowVars
<1>10. CASE Writer
  BY <1>1, <1>2, <1>10, WriterStep DEF Writer, OutsideWriter, flowVars
<1>11. CASE \E b \in DOMAIN Before : BlockEnds(b)
  BY <1>1, <1>2, <1>11, BlockEndsStep DEF BlockEnds
<1>12. CASE TbStop
  BY <1>1, <1>2, <1>12, TbStopStep DEF TbStop
<1>13. CASE AppEnds
  BY <1>1, <1>3, <1>13, EndReadsBack, LiveTyped DEF AppEnds, Gone
<1>14. CASE Dies
  BY <1>1, <1>3, <1>14, DeathReadsBack, LiveTyped DEF Dies, Gone
<1>15. CASE Postprocess
  <2>1. phase = "files" /\ UNCHANGED <<phase, died, disk>>
    BY <1>15 DEF Postprocess, flowVars
  <2> QED BY <1>3, <2>1 DEF CaptureInv, LinesReadBack, DumpReadsBack, Readable, Read
<1>16. CASE UNCHANGED vars
  <2>1. UNCHANGED liveVars /\ UNCHANGED <<phase, ended, stopping, foreign, died, disk>>
    BY <1>16 DEF vars, flowVars
  <2>2. CASE Live
    <3>1. /\ UNCHANGED extVars /\ UNCHANGED <<writerVars, crops, resampled, policy, inbox>>
      BY <2>1 DEF liveVars
    <3>2. ExtractorGood' /\ UNCHANGED tally /\ stopping' \in BOOLEAN
      BY <1>1, <2>1, <2>2, <3>1, OthersStep, LiveTyped
    <3>3. ChainGood'
      BY <1>1, <2>1, <2>2, <3>1, <3>2, ChainKept DEF LiveGood
    <3> QED BY <1>2, <2>1, <2>2, <3>2, <3>3 DEF LiveGood
  <2>3. CASE phase = "files"
    BY <1>3, <2>1, <2>3 DEF CaptureInv, LinesReadBack, DumpReadsBack, Readable, Read
  <2> QED BY <2>2, <2>3 DEF CaptureInv, Live
<1> QED BY <1>4, <1>5, <1>6, <1>7, <1>8, <1>9, <1>10, <1>11, <1>12, <1>13, <1>14, <1>15, <1>16
        DEF Next, Threads

\* A reader of the counters of a live capture finds the windows and the packets in
\* them; and when the extractor has ended its stream it has sent its last window.
LEMMA CountedUncut ==
  CaptureInv => NothingLostUncounted
<1> SUFFICES ASSUME CaptureInv, Live, ~stopping
             PROVE  NothingLostUncounted
  BY DEF NothingLostUncounted
<1>1. /\ WindowsCounted /\ CropCounted /\ ResamplerCounted /\ WriterCounted /\ Pace
  BY DEF CaptureInv, ExtractorGood, ExtractorInv, ChainGood, WriterGood
<1>2. "extractor" \in ended => jobs = <<>> /\ publisher.idx = NoSlot
  BY <1>1 DEF Pace, Idle
<1> QED BY <1>1, <1>2 DEF NothingLostUncounted, WindowsCounted, CropCounted, ResamplerCounted,
        WriterCounted, AllKnown, Known, One, Sent

-----------------------------------------------------------------------------
\* A capture is in its invariant: the extractor's slots have one owner each and its
\* windows are whole, every queue holds the packets its port carries, the counters
\* agree with the queues, and every line of the dump names the samples of its window.
THEOREM CaptureInvariant ==
  Spec => []CaptureInv
<1>1. Init => CaptureInv
  BY CaptureInit
<1>2. CaptureInv /\ [Next]_vars => CaptureInv'
  BY CaptureStep
<1> QED BY <1>1, <1>2, PTL DEF Spec

\* While the stream runs to its end no window and no packet disappears without being
\* counted by the block that let it go: the extractor's pool, the crop's and the
\* resampler's refusals, the writer's ring.
THEOREM NothingIsLostUncounted ==
  Spec => []NothingLostUncounted
<1>1. CaptureInv => NothingLostUncounted
  BY CountedUncut
<1> QED BY <1>1, CaptureInvariant, PTL

\* Of a process that stopped every line reads back the samples its window starts with;
\* of one that died every line whose samples reached the file does.
THEOREM LinesReadBackAlways ==
  Spec => []LinesReadBack
<1>1. CaptureInv => LinesReadBack
  BY DEF CaptureInv
<1> QED BY <1>1, CaptureInvariant, PTL

\* Where no packet is shorter than what the sample file's stream may hold back, only
\* the last line of a process that died can be without its samples.
THEOREM DumpAlwaysReadsBack ==
  ASSUME LongPackets
  PROVE  Spec => []DumpReadsBack
<1>1. CaptureInv => DumpReadsBack
  BY DEF CaptureInv
<1> QED BY <1>1, CaptureInvariant, PTL

-----------------------------------------------------------------------------
(* The labels of the packets that are resampled.                           *)

\* Output positions keep the order of input positions, and a stretch of an input
\* is no longer in outputs than all its samples have outputs, unless the filter has
\* less than a tap per arm.
LEMMA MapStretch ==
  ASSUME NEW a \in Nat, NEW d \in Nat
  PROVE  /\ MapOffset(a) \in Nat /\ MapOffset(a + d) \in Nat
         /\ MapOffset(a) <= MapOffset(a + d)
         /\ M * (MapOffset(a + d) - MapOffset(a)) < d * L + M
<1> DEFINE A == 2 * a * L + (T - 1) + M
           B == 2 * (a + d) * L + (T - 1) + M
           b == 2 * M
           u == A \div b
           v == B \div b
           e == d * L
<1>1. L \in Nat \ {0} /\ M \in Nat \ {0} /\ T \in Nat \ {0} /\ e \in Nat
  BY RatioAssumption
<1>2. A \in Nat /\ B \in Nat /\ B = A + 2 * e
  <2>1. 2 * a * L \in Nat
    BY <1>1
  <2>2. 2 * (a + d) * L = 2 * a * L + 2 * e
    BY <1>1
  <2> QED BY <1>1, <2>1, <2>2
<1>3. MapOffset(a) = u /\ MapOffset(a + d) = v
  BY DEF MapOffset
<1> HIDE DEF A, B, e
<1>4. b \in Nat \ {0} /\ A <= B
  BY <1>1, <1>2
<1> HIDE DEF b
<1>5. u \in Nat /\ v \in Nat /\ u <= v /\ A < b * u + b /\ b * v <= B
  BY <1>2, <1>4, DivBounds, DivMonotone
<1> HIDE DEF u, v
<1>6. M * (v - u) < e + M
  <2> DEFINE Mu == M * u
             Mv == M * v
  <2>1. Mu \in Nat /\ Mv \in Nat /\ M * (v - u) = Mv - Mu
    BY <1>1, <1>5
  <2>2. b * u = 2 * Mu /\ b * v = 2 * Mv
    BY <1>1, <1>5 DEF b
  <2> HIDE DEF Mu, Mv
  <2>3. Mv - Mu < e + M
    BY <1>1, <1>2, <1>5, <2>1, <2>2 DEF b
  <2> QED BY <2>1, <2>3
<1> QED BY <1>3, <1>5, <1>6 DEF e

LEMMA StretchFits ==
  ASSUME T >= L, NEW a \in Nat, NEW n \in Nat \ {0}, NEW d \in 0..n
  PROVE  MapOffset(a + d) - MapOffset(a) <= Length(n)
<1> DEFINE s == MapOffset(a + d) - MapOffset(a)
           num == (n - 1) * L + T
           q == (num + M - 1) \div M
           e == d * L
           r == (n - d) * L
<1>1. L \in Nat \ {0} /\ M \in Nat \ {0} /\ T \in Nat \ {0} /\ d \in Nat /\ n - d \in Nat
  BY RatioAssumption
<1>2. s \in Nat /\ M * s < e + M
  BY <1>1, MapStretch
<1> HIDE DEF s
<1>3. e \in Nat /\ r \in Nat /\ num \in Nat \ {0} /\ num >= e
  <2>1. e \in Nat /\ r \in Nat
    BY <1>1
  <2>2. (n - 1) * L = e + r - L
    BY <1>1
  <2>3. (n - 1) * L \in Nat
    BY <1>1
  <2> HIDE DEF e, r
  <2> QED BY <1>1, <2>1, <2>2, <2>3
<1>4. Length(n) = q
  BY <1>3 DEF Length
<1> HIDE DEF num, e, r
<1>5. q \in Nat /\ num + M - 1 < M * q + M
  <2> DEFINE c == num + M - 1
  <2>1. c \in Nat
    BY <1>1, <1>3
  <2> HIDE DEF c
  <2>2. c \div M \in Nat /\ c < M * (c \div M) + M
    BY <1>1, <2>1, DivBounds
  <2> QED BY <2>2 DEF c
<1> HIDE DEF q
<1>6. ASSUME s > q PROVE FALSE
  <2> DEFINE Mq == M * q
             Ms == M * s
  <2>1. s = q + 1 + (s - q - 1) /\ s - q - 1 \in Nat
    BY <1>2, <1>5, <1>6
  <2>2. Mq \in Nat /\ Ms \in Nat /\ M * (s - q - 1) \in Nat
    BY <1>1, <1>2, <1>5, <2>1
  <2>3. Ms = Mq + M + M * (s - q - 1)
    BY <1>1, <1>2, <1>5
  <2> DEFINE x == M * (s - q - 1)
  <2> HIDE DEF Mq, Ms, x
  <2>4. Ms < e + M
    BY <1>2 DEF Ms
  <2>5. num + M - 1 < Mq + M
    BY <1>5 DEF Mq
  <2>6. x \in Nat /\ Ms = Mq + M + x
    BY <2>2, <2>3 DEF x
  <2> QED BY <1>1, <1>3, <2>2, <2>4, <2>5, <2>6
<1> QED BY <1>2, <1>4, <1>5, <1>6 DEF s

\* The crop of a window that an extractor cut puts the predicted start at the end of
\* its guard; the extractor's windows are cropped.
LEMMA CutAtPrediction ==
  ASSUME NEW m \in CropPackets, "schedule_index" \in DOMAIN m.meta
  PROVE  LET ws == m.meta["window_start_sample"]
             x == Get(m.meta, "predicted_start_sample", -1)
             pre == Get(m.meta, "pre_guard_samples", 0)
         IN  x \in Nat /\ ws \in Nat /\ pre \in Nat /\ ws + pre = x /\ pre <= Len(m.iq)
<1>1. ASSUME NEW c \in Packets, "schedule_index" \in DOMAIN c.meta
      PROVE  LET ws == c.meta["window_start_sample"]
                 x == Get(c.meta, "predicted_start_sample", -1)
             IN  /\ x \in Nat /\ ws \in Nat /\ ws <= x /\ x <= ws + Len(c.iq)
                 /\ Len(c.iq) # 0 /\ Get(c.meta, "capture_mode", "") # "acquisition"
                 /\ Labelled(c) /\ c.format # "none"
  <2>1. c \in Extracted
    BY <1>1, ForeignAssumption DEF Packets
  <2>2. PICK s \in Schedules, k \in Nat : c = WindowPacket(s, k)
    BY <2>1 DEF Extracted
  <2>3. /\ Labelled(c) /\ c.format = "sc16" /\ Len(c.iq) = Capacity
        /\ c.meta["window_start_sample"] = WindowStart(s, k)
        /\ Get(c.meta, "predicted_start_sample", -1) = predicted_start_sample(s, k)
        /\ "capture_mode" \notin DOMAIN c.meta
    BY <2>2, WindowLabelled
  <2>4. /\ predicted_start_sample(s, k) \in Nat /\ WindowStart(s, k) \in Nat
        /\ WindowStart(s, k) = GeoMax(predicted_start_sample(s, k) - Guards.pre, 0)
        /\ Capacity \in Nat \ {0} /\ Guards.pre \in Nat /\ Guards.pre <= Capacity
    BY WindowsForward
  <2> DEFINE w == WindowStart(s, k)
             p == predicted_start_sample(s, k)
             g == Guards.pre
             n == Capacity
  <2> HIDE DEF w, p, g, n
  <2>5. p \in Nat /\ w \in Nat /\ w = GeoMax(p - g, 0) /\ n \in Nat \ {0} /\ g \in Nat /\ g <= n
    BY <2>4 DEF w, p, g, n
  <2>6. w <= p /\ p <= w + n
    BY <2>5 DEF GeoMax
  <2>7. Get(c.meta, "capture_mode", "") # "acquisition"
    BY <2>3 DEF Get
  <2> QED BY <2>3, <2>5, <2>6, <2>7 DEF w, p, n
<1>2. CASE m \in PassedOn
  <2>1. m \in Packets /\ PlanFor(m).passthrough
    BY <1>2 DEF PassedOn, Croppable
  <2>2. /\ Labelled(m) /\ m.format # "none" /\ Get(m.meta, "predicted_start_sample", -1) \in Nat
        /\ Len(m.iq) # 0 /\ Get(m.meta, "capture_mode", "") # "acquisition"
    BY <1>1, <2>1
  <2>3. \/ Get(m.meta, "predicted_start_sample", -1) < 0 \/ Len(m.iq) = 0
        \/ Get(m.meta, "capture_mode", "") = "acquisition"
    BY <2>1, <2>2, PlanFits
  <2> DEFINE x == Get(m.meta, "predicted_start_sample", -1)
  <2> HIDE DEF x
  <2>4. x \in Nat => ~(x < 0)
    OBVIOUS
  <2> QED BY <2>2, <2>3, <2>4 DEF x
<1>3. CASE m \in CutOut
  <2>1. PICK c \in Croppable \ PassedOn : m = Relabelled(c, PlanFor(c))
    BY <1>3 DEF CutOut
  <2> DEFINE p == PlanFor(c)
             x == Get(c.meta, "predicted_start_sample", -1)
             ws == c.meta["window_start_sample"]
  <2>2. c \in Packets /\ ~p.empty /\ ~p.passthrough
    BY DEF Croppable, PassedOn
  <2>3. /\ Labelled(m) /\ Len(m.iq) = p.out_count
        /\ "schedule_index" \in DOMAIN c.meta
        /\ m.meta["window_start_sample"] = p.window_start
        /\ Get(m.meta, "predicted_start_sample", -1) = x
        /\ Get(m.meta, "pre_guard_samples", 0) = p.pre
    BY <2>1, CutLabelled
  <2>4. /\ x \in Nat /\ ws \in Nat /\ ws <= x /\ x <= ws + Len(c.iq)
        /\ Labelled(c) /\ c.format # "none"
    BY <1>1, <2>2, <2>3
  <2>5. /\ p.out_count \in Nat /\ p.in_offset \in Nat /\ p.window_start = ws + p.in_offset
        /\ p.pre \in Nat /\ p.capture \in Nat /\ p.post \in Nat
        /\ p.pre + p.capture + p.post = p.out_count
        /\ p.window_start + p.pre = x
    BY <2>2, <2>4, PlanFits
  <2> HIDE DEF x, ws, p
  <2>6. p.window_start \in Nat
    BY <2>4, <2>5, SMTT(30)
  <2> DEFINE i == p.pre
             j == p.capture
             k == p.post
             n == p.out_count
  <2> HIDE DEF i, j, k, n
  <2>7. i \in Nat /\ j \in Nat /\ k \in Nat /\ i + j + k = n
    BY <2>5 DEF i, j, k, n
  <2>8. i <= n
    BY <2>7
  <2> QED BY <2>3, <2>4, <2>5, <2>6, <2>8 DEF i, n
<1> QED BY <1>2, <1>3 DEF CropPackets

\* The keys of a resampled packet
LEMMA OutMetaReads ==
  ASSUME NEW meta, NEW ws, NEW pre, NEW cap, NEW post, NEW n
  PROVE  LET o == OutMeta(meta, ws, pre, cap, post, n)
         IN  /\ o["window_start_sample"] = ws /\ o["pre_guard_samples"] = pre
             /\ "schedule_index" \in DOMAIN o <=> "schedule_index" \in DOMAIN meta
             /\ Get(meta, "predicted_start_sample", -1) >= 0 =>
                  o["predicted_start_sample"] = MapInput(meta["predicted_start_sample"])
<1> DEFINE f == [k \in (Lineage \cap DOMAIN meta) \cup MappedKeys(meta) |->
                   IF k \in Lineage THEN meta[k] ELSE MapInput(meta[k])]
           g == [sample_rate |-> OutputRate, window_start_sample |-> ws,
                 pre_guard_samples |-> pre, capture_samples |-> cap,
                 post_guard_samples |-> post, sample_count |-> n]
           o == Put(f, g)
<1>1. OutMeta(meta, ws, pre, cap, post, n) = o
  BY DEF OutMeta
<1> HIDE DEF f, g
<1>2. /\ DOMAIN o = (DOMAIN g) \cup (DOMAIN f)
      /\ \A k \in DOMAIN g : o[k] = g[k]
      /\ \A k \in (DOMAIN f) \ (DOMAIN g) : o[k] = f[k]
  BY PutReads
<1> HIDE DEF o
<1>3. /\ "window_start_sample" \in DOMAIN g /\ "pre_guard_samples" \in DOMAIN g
      /\ "schedule_index" \notin DOMAIN g /\ "predicted_start_sample" \notin DOMAIN g
      /\ g["window_start_sample"] = ws /\ g["pre_guard_samples"] = pre
  BY DEF g
<1>4. "schedule_index" \in DOMAIN f <=> "schedule_index" \in DOMAIN meta
  BY DEF Lineage, MappedKeys, f
<1>5. ASSUME Get(meta, "predicted_start_sample", -1) >= 0
      PROVE  /\ "predicted_start_sample" \in DOMAIN f
             /\ f["predicted_start_sample"] = MapInput(meta["predicted_start_sample"])
  <2>1. "predicted_start_sample" \in MappedKeys(meta) /\ "predicted_start_sample" \notin Lineage
    BY <1>5 DEF MappedKeys, Lineage
  <2> QED BY <2>1 DEF f
<1> QED BY <1>1, <1>2, <1>3, <1>4, <1>5

\* What the filter makes of samples that begin at ws
LEMMA OneShotOfRun ==
  ASSUME NEW ws \in Nat, NEW n \in Nat \ {0}
  PROVE  LET rs == resample_oneshot(Run(ws, n))
         IN  /\ rs \in Seq(Outputs) /\ Len(rs) = Length(n) /\ Length(n) \in Nat
             /\ \A i \in 1..Length(n) : rs[i] = <<ws, i - 1>>
<1> DEFINE q == Run(ws, n)
<1>1. q \in Seq(Int) /\ Len(q) = n /\ q # <<>>
  BY RunTyped
<1>2. q[1] = ws
  BY DEF Run
<1> HIDE DEF q
<1>3. Head(q) = ws
  BY <1>1, <1>2
<1> QED BY <1>1, <1>3, OneShot DEF q

\* Outputs of one run of the filter, from the first or from where the guard ends
LEMMA LabelledFrom ==
  ASSUME NEW rs \in Seq(Outputs), NEW ws \in Nat,
         \A i \in 1..Len(rs) : rs[i] = <<ws, i - 1>>
  PROVE  /\ SamplesAsLabelled(rs, MapOffset(ws))
         /\ \A a \in Nat, k \in Nat : a + k <= Len(rs) =>
              SamplesAsLabelled(SubSeq(rs, a + 1, a + k), MapOffset(ws) + a)
<1>1. MapOffset(ws) \in Nat /\ Len(rs) \in Nat
  BY MapOffsetTyped
<1>2. SamplesAsLabelled(rs, MapOffset(ws))
  BY <1>1, SMTT(30) DEF SamplesAsLabelled
<1>3. ASSUME NEW a \in Nat, NEW k \in Nat, a + k <= Len(rs)
      PROVE  SamplesAsLabelled(SubSeq(rs, a + 1, a + k), MapOffset(ws) + a)
  <2> DEFINE t == SubSeq(rs, a + 1, a + k)
  <2>1. t \in Seq(Outputs) /\ Len(t) = k /\ t = [i \in 1..k |-> rs[a + i]]
    BY <1>3, Part
  <2> HIDE DEF t
  <2>2. ASSUME NEW i \in DOMAIN t
        PROVE  (MapOffset(ws) + a) + i - 1 = MapOffset(t[i][1]) + t[i][2]
    <3>1. i \in 1..k /\ a + i \in 1..Len(rs)
      BY <1>1, <1>3, <2>1
    <3> DEFINE j == a + i
    <3> HIDE DEF j
    <3>2. rs[j] = <<ws, j - 1>> /\ t[i] = rs[j]
      BY <2>1, <3>1 DEF j
    <3>3. t[i][1] = ws /\ t[i][2] = j - 1
      BY <3>2
    <3>4. j = a + i /\ i \in Nat
      BY <3>1 DEF j
    <3> QED BY <1>1, <3>3, <3>4
  <2>3. SamplesAsLabelled(t, MapOffset(ws) + a)
    BY <2>2 DEF SamplesAsLabelled
  <2> QED BY <2>3 DEF t
<1> QED BY <1>2, <1>3

\* A packet that the demodulator gets: its samples are the outputs that its label
\* counts, and in the packet of a window the guard ends at the predicted start.
LEMMA ResampledAsLabelled ==
  ASSUME T >= L, NEW q \in {"FullWindow", "CaptureOnly"}, NEW o \in ResampledPackets(q)
  PROVE  /\ SamplesAsLabelled(o.iq, o.meta.window_start_sample)
         /\ GuardEndsAtPrediction(o.meta, q = "FullWindow" /\ "schedule_index" \in DOMAIN o.meta)
<1>1. PICK m \in CropPackets : o = OutputUnder(q, m)
  BY DEF ResampledPackets
<1> DEFINE n == Len(m.iq)
           ws == m.meta["window_start_sample"]
           rs == resample_oneshot(m.iq)
           in == InLabels(m.meta, n)
           nout == Len(rs)
           out == OutLabels(in, nout)
           pre == in.pre
           cap == in.cap
<1>2. Labelled(m) /\ m.format # "none" /\ m.iq # <<>> /\ m.iq \in Seq(Int)
  BY CropLabelled DEF Labelled
<1>3. n \in Nat \ {0} /\ ws \in Nat /\ m.iq = Run(ws, n)
  BY <1>2 DEF Labelled
<1>4. /\ rs \in Seq(Outputs) /\ nout = Length(n) /\ nout \in Nat
      /\ \A i \in 1..nout : rs[i] = <<ws, i - 1>>
  <2>1. rs = resample_oneshot(Run(ws, n))
    BY <1>3
  <2> HIDE DEF ws, n, rs
  <2> QED BY <1>3, <2>1, OneShotOfRun
<1>5. /\ in.ws = ws /\ pre = Get(m.meta, "pre_guard_samples", 0)
      /\ pre \in Nat /\ cap \in Nat
      /\ in = [ws |-> in.ws, pre |-> in.pre, cap |-> in.cap, post |-> in.post]
  BY <1>2, LabelsRead
<1>6. /\ SamplesAsLabelled(rs, MapOffset(ws))
      /\ \A a \in Nat, k \in Nat : a + k <= nout =>
           SamplesAsLabelled(SubSeq(rs, a + 1, a + k), MapOffset(ws) + a)
  <2> HIDE DEF rs, ws
  <2> QED BY <1>3, <1>4, LabelledFrom
<1>7. /\ out.ws = MapOffset(ws) /\ out.cap \in Nat /\ out.pre \in Nat /\ out.pre + out.cap <= nout
      /\ out.pre = IF MapOffset(ws + pre) - MapOffset(ws) > nout THEN nout
                   ELSE MapOffset(ws + pre) - MapOffset(ws)
      /\ MapInput(in.ws + in.pre) = MapOffset(ws + pre)
      /\ MapOffset(ws) \in Nat /\ MapOffset(ws + pre) \in Nat
  <2> DEFINE d == in.post
             y == MapOffset(ws + pre)
             x == MapOffset(ws)
  <2> HIDE DEF nout, pre, cap, ws, d
  <2>1. ws + pre \in Nat
    BY <1>3, <1>5
  <2>2. x \in Nat /\ y \in Nat /\ x <= y /\ MapInput(ws) = x /\ MapInput(ws + pre) = y
    BY <1>3, <1>5, <2>1, MapStretch, MapOffsetTyped
  <2>3. in = [ws |-> ws, pre |-> pre, cap |-> cap, post |-> d]
    BY <1>5 DEF pre, cap, d
  <2> HIDE DEF in
  <2> DEFINE w == Nonnegative(MapInput(ws + pre) - MapInput(ws))
  <2>4. /\ out.ws = MapInput(ws) /\ out.pre = (IF w > nout THEN nout ELSE w) /\ out.pre \in Nat
        /\ out.cap \in Nat /\ out.pre + out.cap <= nout
    <3> HIDE DEF w
    <3>1. out = OutLabels([ws |-> ws, pre |-> pre, cap |-> cap, post |-> d], nout)
      BY <2>3
    <3> HIDE DEF out
    <3> QED BY <1>3, <1>4, <1>5, <3>1, OutLabelsFit, SMTT(30) DEF w
  <2> HIDE DEF x, y, out
  <2>5. w = y - x
    BY <2>2 DEF Nonnegative
  <2> HIDE DEF w
  <2>6. MapInput(in.ws + in.pre) = y
    BY <1>5, <2>2 DEF pre
  <2> QED BY <2>2, <2>4, <2>5, <2>6 DEF x, y
<1>8. CASE q = "CaptureOnly"
  <2> DEFINE mo == OutMeta(m.meta, MapInput(in.ws + in.pre), 0, out.cap, 0, out.cap)
  <2>1. o.iq = Slice(rs, out) /\ o.meta = mo
    BY <1>1, <1>8 DEF OutputUnder, Resampled
  <2>2. mo["window_start_sample"] = MapInput(in.ws + in.pre)
    BY OutMetaReads
  <2> HIDE DEF mo
  <2>3. o.meta["window_start_sample"] = MapOffset(ws + pre)
    BY <1>7, <2>1, <2>2
  <2>4. o.iq = SubSeq(rs, out.pre + 1, out.pre + out.cap)
    BY <2>1 DEF Slice
  <2> DEFINE a == out.pre
             k == out.cap
             u == MapOffset(ws)
             v == MapOffset(ws + pre)
  <2> HIDE DEF out, nout, u, v, rs, ws, pre
  <2>5. a \in Nat /\ k \in Nat /\ a + k <= nout /\ nout \in Nat /\ u \in Nat /\ v \in Nat
        /\ a = IF v - u > nout THEN nout ELSE v - u
    BY <1>4, <1>7 DEF u, v
  <2> HIDE DEF a, k
  <2>6. SamplesAsLabelled(SubSeq(rs, a + 1, a + k), u + a)
    BY <1>6, <2>5 DEF u
  <2>7. CASE v - u > nout
    <3>1. k = 0 /\ a = nout
      BY <2>5, <2>7
    <3>2. SubSeq(rs, a + 1, a + k) = [i \in 1..0 |-> rs[a + i]] /\ Len(SubSeq(rs, a + 1, a + k)) = 0
      BY <1>4, <2>5, <3>1, Part DEF nout
    <3>3. SubSeq(rs, a + 1, a + k) \in Seq(Outputs)
      BY <1>4, <2>5, Part DEF nout
    <3> DEFINE t == SubSeq(rs, a + 1, a + k)
    <3> HIDE DEF t
    <3>4. DOMAIN t = {}
      BY <3>2, <3>3 DEF t
    <3>5. SamplesAsLabelled(t, v)
      BY <3>4 DEF SamplesAsLabelled
    <3> QED BY <1>8, <2>3, <2>4, <3>5 DEF t, v, a, k, GuardEndsAtPrediction
  <2>8. CASE ~(v - u > nout)
    <3>1. u + a = v
      BY <2>5, <2>8
    <3> QED BY <1>8, <2>3, <2>4, <2>6, <3>1 DEF v, a, k, GuardEndsAtPrediction
  <2> QED BY <2>7, <2>8
<1>9. CASE q = "FullWindow"
  <2> DEFINE mo == OutMeta(m.meta, out.ws, out.pre, out.cap, out.post, nout)
             x == Get(m.meta, "predicted_start_sample", -1)
  <2>1. o.iq = rs /\ o.meta = mo
    BY <1>1, <1>9 DEF OutputUnder, Resampled
  <2>2. /\ mo["window_start_sample"] = out.ws /\ mo["pre_guard_samples"] = out.pre
        /\ "schedule_index" \in DOMAIN mo <=> "schedule_index" \in DOMAIN m.meta
        /\ x >= 0 => mo["predicted_start_sample"] = MapInput(m.meta["predicted_start_sample"])
    BY OutMetaReads
  <2> HIDE DEF mo
  <2>3. SamplesAsLabelled(o.iq, o.meta.window_start_sample)
    BY <1>6, <1>7, <2>1, <2>2
  <2>4. ASSUME "schedule_index" \in DOMAIN o.meta
        PROVE  o.meta.window_start_sample + o.meta.pre_guard_samples = o.meta.predicted_start_sample
    <3>1. x \in Nat /\ ws + pre = x /\ pre <= n
      BY <1>5, <2>1, <2>2, <2>4, CutAtPrediction
    <3>2. m.meta["predicted_start_sample"] = x
      BY <3>1 DEF Get
    <3> HIDE DEF x
    <3>3. o.meta.predicted_start_sample = MapOffset(x)
      <4>1. x >= 0
        BY <3>1
      <4> QED BY <2>1, <2>2, <3>1, <3>2, <4>1, MapOffsetTyped
    <3> DEFINE u == MapOffset(ws)
               v == MapOffset(ws + pre)
    <3>4. v - u <= nout
      <4>1. pre \in 0..n
        BY <1>3, <1>5, <3>1
      <4> HIDE DEF pre, n, ws
      <4> QED BY <1>3, <1>4, <4>1, StretchFits
    <3>5. out.pre = v - u /\ out.ws = u /\ u \in Nat /\ v \in Nat
      <4> HIDE DEF u, v, out
      <4>1. u \in Nat /\ v \in Nat /\ nout \in Nat /\ out.ws = u
        BY <1>4, <1>7 DEF u, v
      <4>2. out.pre = IF v - u > nout THEN nout ELSE v - u
        BY <1>7 DEF u, v
      <4> HIDE DEF nout
      <4>3. out.pre = v - u
        BY <3>4, <4>1, <4>2
      <4> QED BY <4>1, <4>3
    <3>6. v = MapOffset(x)
      BY <3>1
    <3>7. o.meta.window_start_sample = u /\ o.meta.pre_guard_samples = v - u
      BY <2>1, <2>2, <3>5
    <3> HIDE DEF u, v
    <3>8. u + (v - u) = v
      BY <3>5
    <3> QED BY <3>3, <3>6, <3>7, <3>8
  <2> QED BY <2>3, <2>4 DEF GuardEndsAtPrediction
<1> QED BY <1>8, <1>9

\* Every packet that waits for the demodulator
PacketsNameWindows ==
  \A k \in DOMAIN inbox["demod"] : LET m == inbox["demod"][k] IN
    /\ SamplesAsLabelled(m.iq, m.meta.window_start_sample)
    /\ GuardEndsAtPrediction(m.meta, /\ policy = "FullWindow"
                                     /\ "schedule_index" \in DOMAIN m.meta)

LEMMA QueuedAsLabelled ==
  ASSUME T >= L, ChainType
  PROVE  PacketsNameWindows
<1>1. inbox["demod"] \in Seq(ResampledPackets(policy)) /\ policy \in {"FullWindow", "CaptureOnly"}
  BY DEF ChainType, QueueTypes
<1>2. ASSUME NEW k \in DOMAIN inbox["demod"]
      PROVE  inbox["demod"][k] \in ResampledPackets(policy)
  BY <1>1
<1> QED BY <1>1, <1>2, ResampledAsLabelled DEF PacketsNameWindows

-----------------------------------------------------------------------------
(* The messages of one run of the extractor: they are of its schedule, and *)
(* of windows that begin in the stream.                                    *)

InStream(s) == {k \in Nat : WindowStart(s, k) <= StreamLength}
OwnPackets(s) == {WindowPacket(s, k) : k \in InStream(s)} \cup Foreign
Within(q, S) == \A i \in DOMAIN q : q[i] \in S

\* The prediction that the writer puts into a line: the start, where the packet has none
LinePrediction(m) ==
  Get(m.meta, "predicted_start_sample",
      Get(m.meta, "start_sample", Get(m.meta, "window_start_sample", 0)))

\* What a reader of the dump gets for the line of a packet
Describes(w, m) ==
  /\ w.n = Len(m.iq) /\ w.ws = m.meta["window_start_sample"]
  /\ w.predicted = LinePrediction(m) /\ w.mode = Get(m.meta, "capture_mode", "")
  /\ "packet_id" \in DOMAIN m.meta => w.packet_id = m.meta["packet_id"]
DescribedBy(s, w) == \E m \in OwnPackets(s) : m.format # "none" /\ Describes(w, m)

\* A result that has a prediction has that of a packet of its number.
TellsOf(s, r) ==
  r.native_predicted >= 0 =>
    \E m \in OwnPackets(s) : /\ Get(m.meta, "packet_id", 0) = r.packet_id
                             /\ Get(m.meta, "predicted_start_sample", -1) = r.native_predicted

SlotsInStream ==
  \A i \in 1..PoolSize : slot[i].inUse => WindowStart(schedule, slot[i].index) <= StreamLength
QueuesOwn ==
  /\ Within(inbox["tap"], OwnPackets(schedule)) /\ Within(inbox["writer"], OwnPackets(schedule))
  /\ Within(ring, OwnPackets(schedule))
  /\ writer.at \in {"samples", "line"} => writer.msg \in OwnPackets(schedule)
LinesOwn == \A k \in DOMAIN lines : DescribedBy(schedule, Parsed(lines[k]))
OwnMessages == SlotsInStream /\ QueuesOwn /\ LinesOwn

\* The files are those of one schedule.
FilesOf(s) ==
  /\ Len(disk.lines) \in Nat /\ \E n \in Nat : DOMAIN disk.results = 1..n
  /\ \A k \in DOMAIN disk.lines : DescribedBy(s, Parsed(disk.lines[k]))
  /\ \A k \in DOMAIN disk.results : TellsOf(s, disk.results[k])
FilesOwn == phase = "files" => \E s \in Schedules : FilesOf(s)

\* A slot comes into use at its window's start, in the stream; nothing else uses one.
LEMMA SlotsKept ==
  ASSUME SlotsInStream, schedule' = schedule,
         \A i \in 1..PoolSize : slot'[i].inUse => slot[i].inUse /\ slot'[i].index = slot[i].index
  PROVE  SlotsInStream'
  BY DEF SlotsInStream

LEMMA FinishedKeepsSlots ==
  ASSUME NEW s \in [1..PoolSize -> SlotType], active \in 1..PoolSize, Finished(s)
  PROVE  \A i \in 1..PoolSize : slot'[i].inUse => s[i].inUse /\ slot'[i].index = s[i].index
<1> DEFINE f == [s EXCEPT ![active].inUse = FALSE]
<1>1. slot' = s \/ slot' = f
  BY DEF Finished
<1>2. f = [s EXCEPT ![active] = [s[active] EXCEPT !.inUse = FALSE]]
  OBVIOUS
<1>3. /\ f[active].inUse = FALSE
      /\ \A i \in 1..PoolSize : i # active => f[i] = s[i]
  BY <1>2 DEF SlotType
<1> HIDE DEF f
<1> QED BY <1>1, <1>3

LEMMA ExtractorInStream ==
  ASSUME ExtractorGood, SlotsInStream, ExtractorThread \/ ExtractorWorker
  PROVE  SlotsInStream' /\ schedule' = schedule
<1>1. ExtractorType /\ Pace
  BY DEF ExtractorGood, ExtractorInv
<1>2. slot \in [1..PoolSize -> SlotType] /\ schedule \in Schedules
  BY <1>1 DEF ExtractorType
<1>3. CASE work \/ skip \/ work_returns \/ stopped \/ take_job \/ publish_slot \/ worker_exit
  <2>1. slot' = slot /\ schedule' = schedule
    BY <1>3 DEF work, skip, work_returns, stopped, take_job, publish_slot, worker_exit
  <2> QED BY <2>1 DEF SlotsInStream
<1>4. CASE begin_next_window
  <2>1. schedule' = schedule /\ (StartWindow \/ slot' = slot)
    BY <1>4 DEF begin_next_window, MissWindow, NothingToBegin
  <2>2. CASE StartWindow /\ FreeSlots # {}
    <3>1. sample >= Bounds.start /\ sample <= StreamLength
      BY <1>1, <2>2 DEF StartWindow, Pace
    <3>2. /\ Bounds.start = WindowStart(schedule, index) /\ Bounds.start \in Nat
          /\ StreamLength \in Nat /\ PoolSize \in Nat /\ sample \in Nat
      BY <1>1, BoundsNow DEF ExtractorType
    <3>3. WindowStart(schedule, index) <= StreamLength
      BY <3>1, <3>2
    <3>4. FirstFree \in 1..PoolSize
      BY <2>2, <3>2, FirstFreeIsFree
    <3>5. slot' = [slot EXCEPT ![FirstFree] = [inUse |-> TRUE, iq |-> <<>>, index |-> index]]
      BY <2>2 DEF StartWindow
    <3>6. /\ slot'[FirstFree].index = index
          /\ \A i \in 1..PoolSize : i # FirstFree => slot'[i] = slot[i]
      BY <1>2, <3>4, <3>5
    <3> QED BY <2>1, <3>3, <3>6 DEF SlotsInStream
  <2>3. CASE slot' = slot
    BY <2>1, <2>3 DEF SlotsInStream
  <2>4. StartWindow /\ FreeSlots = {} => slot' = slot
    BY DEF StartWindow
  <2> QED BY <2>1, <2>2, <2>3, <2>4
<1>5. CASE copy
  <2> DEFINE n == Stretch(Bounds.end)
             t == slot[active].iq \o [i \in 1..n |-> sample + i - 1]
             f == [slot EXCEPT ![active].iq = t]
  <2>1. active \in 1..PoolSize /\ schedule' = schedule
    BY <1>1, <1>5, ActiveSlot DEF copy
  <2>2. slot' = f \/ Finished(f)
    BY <1>5 DEF copy
  <2>3. n \in Nat
    <3> DEFINE e == Bounds.end
    <3>1. e = Bounds.start + Capacity /\ Bounds.start \in Nat /\ Capacity \in Nat
      BY <1>1, BoundsNow DEF ExtractorType
    <3>3. sample \in Nat /\ sample <= e /\ call.left \in Nat
      BY <1>1 DEF ExtractorType, Pace
    <3> HIDE DEF e
    <3>2. GeoMin(sample + call.left, e) - sample \in Nat
      BY <3>1, <3>3 DEF GeoMin
    <3> QED BY <3>2 DEF Stretch, e
  <2>4. t \in Seq(Int)
    <3>1. [i \in 1..n |-> sample + i - 1] = Run(sample, n) /\ sample \in Int
      BY <1>1 DEF Run, ExtractorType
    <3>2. Run(sample, n) \in Seq(Int) /\ slot[active].iq \in Seq(Int)
      BY <1>2, <2>1, <2>3, <3>1, RunTyped DEF SlotType
    <3> QED BY <3>1, <3>2, Joined
  <2> HIDE DEF t
  <2>5. f = [slot EXCEPT ![active] = [slot[active] EXCEPT !.iq = t]]
    OBVIOUS
  <2>6. /\ f \in [1..PoolSize -> SlotType]
        /\ \A i \in 1..PoolSize : f[i].inUse = slot[i].inUse /\ f[i].index = slot[i].index
    BY <1>2, <2>1, <2>4, <2>5 DEF SlotType
  <2> HIDE DEF f
  <2>7. \A i \in 1..PoolSize : slot'[i].inUse => f[i].inUse /\ slot'[i].index = f[i].index
    BY <2>1, <2>2, <2>6, FinishedKeepsSlots
  <2> QED BY <2>1, <2>6, <2>7, SlotsKept
<1>6. CASE free_slot
  <2> DEFINE j == publisher.idx
             f == [slot EXCEPT ![j] = [slot[j] EXCEPT !.inUse = FALSE]]
  <2>1. slot' = f /\ schedule' = schedule
    BY <1>6 DEF free_slot
  <2>2. j \in 1..PoolSize
    <3>1. j \in 0..PoolSize /\ j # 0 /\ PoolSize \in Nat
      BY <1>1, <1>6, BoundsNow
         DEF free_slot, ExtractorType, ExtractorGood, ExtractorInv, SlotsOwned, Publishing, NoSlot
    <3> QED BY <3>1
  <2>3. f[j].inUse = FALSE /\ \A i \in 1..PoolSize : i # j => f[i] = slot[i]
    BY <1>2, <2>2 DEF SlotType
  <2> HIDE DEF f
  <2> QED BY <2>1, <2>3, SlotsKept
<1> QED BY <1>3, <1>4, <1>5, <1>6 DEF ExtractorThread, ExtractorWorker

LEMMA EndInStream ==
  ASSUME ExtractorGood, SlotsInStream, NEW e, stop(e)
  PROVE  SlotsInStream' /\ schedule' = schedule
<1>1. slot \in [1..PoolSize -> SlotType] /\ ExtractorType /\ schedule' = schedule
  BY DEF ExtractorGood, ExtractorType, stop
<1>2. CASE active = NoSlot
  BY <1>1, <1>2 DEF stop, SlotsInStream
<1>3. CASE active # NoSlot
  <2>1. active \in 1..PoolSize /\ Finished(slot)
    BY <1>1, <1>3, ActiveSlot DEF stop
  <2> QED BY <1>1, <2>1, FinishedKeepsSlots, SlotsKept
<1> QED BY <1>2, <1>3

LEMMA PublishesOwn ==
  ASSUME ExtractorGood, SlotsInStream, publish_slot
  PROVE  \E p \in OwnPackets(schedule) : inbox' = Published(inbox, "extractor", p)
<1> DEFINE s == slot[publisher.idx]
<1>1. /\ publisher.at = "publish" /\ inbox' = Published(inbox, "extractor", Packet(s))
  BY DEF publish_slot
<1>2. publisher.idx \in 1..PoolSize /\ s.inUse /\ Whole(s) /\ s \in SlotType
      /\ schedule \in Schedules
  <2>1. ExtractorType /\ SlotsOwned /\ WindowsWhole
    BY DEF ExtractorGood, ExtractorInv
  <2>2. publisher.idx \in 0..PoolSize /\ publisher.idx # 0 /\ PoolSize \in Nat /\ s.inUse /\ Whole(s)
    BY <1>1, <2>1, BoundsNow DEF ExtractorType, SlotsOwned, WindowsWhole, Publishing, NoSlot
  <2>3. publisher.idx \in 1..PoolSize
    BY <2>2
  <2> QED BY <2>1, <2>2, <2>3 DEF ExtractorType
<1> HIDE DEF s
<1>3. s.index \in InStream(schedule)
  BY <1>2 DEF SlotsInStream, SlotType, InStream, s
<1>4. Packet(s) = WindowPacket(schedule, s.index)
  BY <1>2, PacketOfWindow
<1>5. Packet(s) \in OwnPackets(schedule)
  BY <1>3, <1>4 DEF OwnPackets
<1> QED BY <1>1, <1>5 DEF s

\* What the writer puts into a line of a packet's labels, and what a reader gets
LEMMA LineOfTells ==
  ASSUME NEW m, "window_start_sample" \in DOMAIN m.meta, m.meta["window_start_sample"] \in Nat,
         NEW o
  PROVE  Describes(Parsed(LineOf(m.meta, Len(m.iq), o)), m)
<1> DEFINE meta == m.meta
           n == Len(m.iq)
           scheduled == Get(meta, "window_start_sample", 0)
           start == Get(meta, "start_sample", scheduled)
           optional == {"pre_guard_samples", "capture_samples", "post_guard_samples",
                        "schedule_index", "capture_mode"} \cap DOMAIN meta
           a == Get(meta, "packet_id", written.packets)
           b == Get(meta, "predicted_start_sample", start)
           c == Get(meta, "pre_trigger_samples", Get(meta, "pre_guard_samples", 0))
           d == Get(meta, "window_start_sample", start)
           g == [packet_id |-> a, start_sample |-> start, window_start_sample |-> d,
                 predicted_start_sample |-> b, pre_trigger_samples |-> c,
                 sample_count |-> n, file_offset_samples |-> o]
           f == [k \in optional |-> meta[k]]
           l == Put(f, g)
<1>1. LineOf(m.meta, Len(m.iq), o) = l
  BY DEF LineOf
<1>2. Parsed(l).n = n /\ Parsed(l).ws = m.meta["window_start_sample"]
  BY <1>1, LineOfReads
<1>3. b = LinePrediction(m)
  BY DEF LinePrediction
<1>4. "packet_id" \in DOMAIN m.meta => a = m.meta["packet_id"]
  BY DEF Get
<1>5. /\ "capture_mode" \in DOMAIN meta <=> "capture_mode" \in DOMAIN f
      /\ "capture_mode" \in DOMAIN meta => f["capture_mode"] = meta["capture_mode"]
  OBVIOUS
<1> HIDE DEF a, b, c, d, start, scheduled, optional, f
<1>6. /\ "packet_id" \in DOMAIN g /\ "predicted_start_sample" \in DOMAIN g
      /\ g["packet_id"] = a /\ g["predicted_start_sample"] = b
      /\ "capture_mode" \notin DOMAIN g
  OBVIOUS
<1> HIDE DEF g
<1>7. /\ DOMAIN l = (DOMAIN g) \cup (DOMAIN f) /\ \A k \in DOMAIN g : l[k] = g[k]
      /\ \A k \in (DOMAIN f) \ (DOMAIN g) : l[k] = f[k]
  BY PutReads, ZenonT(40)
<1> HIDE DEF l
<1>8. /\ "packet_id" \in DOMAIN l /\ l["packet_id"] = a
      /\ "predicted_start_sample" \in DOMAIN l /\ l["predicted_start_sample"] = b
      /\ "capture_mode" \in DOMAIN l <=> "capture_mode" \in DOMAIN meta
      /\ "capture_mode" \in DOMAIN meta => l["capture_mode"] = meta["capture_mode"]
  BY <1>5, <1>6, <1>7
<1>9. /\ Get(l, "packet_id", -1) = a /\ Get(l, "predicted_start_sample", -1) = b
      /\ Get(l, "capture_mode", "") = Get(meta, "capture_mode", "")
  BY <1>8 DEF Get
<1>10. /\ Parsed(l).packet_id = a /\ Parsed(l).predicted = b
       /\ Parsed(l).mode = Get(meta, "capture_mode", "")
  BY <1>9 DEF Parsed
<1> QED BY <1>1, <1>2, <1>3, <1>4, <1>10 DEF Describes

LEMMA WithinAppend ==
  ASSUME NEW S, NEW R, NEW q \in Seq(R), NEW e \in R, Within(q, S), e \in S
  PROVE  Within(Append(q, e), S)
<1> DEFINE t == Append(q, e)
<1>1. \A i \in DOMAIN t : \/ i \in DOMAIN q /\ t[i] = q[i]
                          \/ i = Len(q) + 1 /\ t[i] = e
  BY Appended
<1> HIDE DEF t
<1> QED BY <1>1 DEF Within, t

LEMMA WithinTail ==
  ASSUME NEW S, NEW R, NEW q \in Seq(R), q # <<>>, Within(q, S)
  PROVE  Within(Tail(q), S) /\ Head(q) \in S
<1> DEFINE t == Tail(q)
<1>1. /\ \A i \in DOMAIN t : i + 1 \in DOMAIN q /\ t[i] = q[i + 1]
      /\ 1 \in DOMAIN q /\ Head(q) = q[1]
  BY Taken
<1> HIDE DEF t
<1> QED BY <1>1 DEF Within, t

\* The packets that may be sent do not change while the schedule does not.
LEMMA OwnKept ==
  ASSUME schedule' = schedule
  PROVE  OwnPackets(schedule)' = OwnPackets(schedule)
BY DEF OwnPackets, InStream

LEMMA QueuesKept ==
  ASSUME QueuesOwn, UNCHANGED <<schedule, ring, writer>>,
         inbox'["tap"] = inbox["tap"], inbox'["writer"] = inbox["writer"]
  PROVE  QueuesOwn'
BY OwnKept DEF QueuesOwn, Within

\* A packet of its own, or another publisher's, joins the queues.
LEMMA QueuesGetOwn ==
  ASSUME ChainGood, QueuesOwn, UNCHANGED <<schedule, ring, writer>>,
         NEW p \in Packets, p \in OwnPackets(schedule),
         inbox' = Published(inbox, "extractor", p)
  PROVE  QueuesOwn'
<1>1. /\ DOMAIN inbox = Receivers /\ inbox["tap"] \in Seq(Packets)
      /\ inbox["writer"] \in Seq(Packets)
  BY DEF ChainGood, ChainType, QueueTypes
<1>2. inbox'["tap"] = Append(inbox["tap"], p) /\ inbox'["writer"] = Append(inbox["writer"], p)
  BY <1>1, PublishedBy
<1> DEFINE S == OwnPackets(schedule)
<1>3. Within(inbox["tap"], S) /\ Within(inbox["writer"], S) /\ p \in S
  BY DEF QueuesOwn
<1>4. S' = S
  BY OwnKept
<1> HIDE DEF S
<1>5. Within(Append(inbox["tap"], p), S) /\ Within(Append(inbox["writer"], p), S)
  BY <1>1, <1>3, WithinAppend
<1>6. Within(inbox'["tap"], S) /\ Within(inbox'["writer"], S)
  BY <1>2, <1>5
<1>7. Within(ring', S) /\ (writer'.at \in {"samples", "line"} => writer'.msg \in S)
  BY DEF QueuesOwn, S
<1>8. Within(inbox["tap"], S)' /\ Within(inbox["writer"], S)' /\ Within(ring, S)'
  BY <1>4, <1>6, <1>7 DEF Within
<1> QED BY <1>4, <1>7, <1>8 DEF QueuesOwn, S

\* The writer takes a packet into its ring, or not.
LEMMA HandlerOwn ==
  ASSUME LiveGood, QueuesOwn, writer_handle_packet, schedule' = schedule
  PROVE  QueuesOwn'
<1> DEFINE q == inbox["writer"]
           h == Head(q)
           S == OwnPackets(schedule)
<1>1. /\ q # <<>> /\ inbox' = Handled(inbox, "writer") /\ writer' = writer
      /\ h.format = "none" => ring' = ring
      /\ h.format # "none" => Queue(h)
  BY DEF writer_handle_packet
<1>2. q \in Seq(Packets) /\ ring \in Seq(Writable) /\ DOMAIN inbox = Receivers
  BY LiveTyped DEF QueueTypes, WriterGood, WriterType
<1>3. inbox'["writer"] = Tail(q) /\ inbox'["tap"] = inbox["tap"]
  <2> DEFINE b == Handled(inbox, "writer")
  <2>1. "writer" \in Receivers /\ "tap" \in Receivers \ {"writer"}
    BY DEF Receivers
  <2>2. b["writer"] = Tail(inbox["writer"]) /\ \A c \in Receivers \ {"writer"} : b[c] = inbox[c]
    BY <1>2, <2>1, HandledBy
  <2> HIDE DEF b
  <2> QED BY <1>1, <2>1, <2>2 DEF b
<1>4. h \in Packets
  BY <1>1, <1>2, Taken
<1>5. /\ Within(q, S) /\ Within(ring, S) /\ Within(inbox["tap"], S)
      /\ writer.at \in {"samples", "line"} => writer.msg \in S
  BY DEF QueuesOwn
<1>6. ring' = ring \/ (ring' = Append(ring, h) /\ h.format # "none")
  <2> HIDE DEF h
  <2>1. Queue(h) => ring' = ring \/ ring' = Append(ring, h)
    BY DEF Queue
  <2> QED BY <1>1, <2>1
<1>7. S' = S
  BY OwnKept
<1> HIDE DEF S, q
<1>8. Within(Tail(q), S) /\ h \in S
  BY <1>1, <1>2, <1>5, WithinTail
<1> HIDE DEF h
<1>9. CASE ring' = Append(ring, h) /\ h.format # "none"
  <2>1. h \in Writable
    BY <1>4, <1>9 DEF Writable
  <2>2. Within(ring', S)
    BY <1>2, <1>5, <1>8, <1>9, <2>1, WithinAppend
  <2> QED BY <1>1, <1>3, <1>5, <1>7, <1>8, <2>2 DEF QueuesOwn, S, Within
<1>10. CASE ring' = ring
  BY <1>1, <1>3, <1>5, <1>7, <1>8, <1>10 DEF QueuesOwn, S, Within
<1> QED BY <1>6, <1>9, <1>10

\* The writer's thread takes a packet from its ring, and writes it.
LEMMA ThreadOwn ==
  ASSUME LiveGood, QueuesOwn, LinesOwn, WriterThread, schedule' = schedule
  PROVE  QueuesOwn' /\ LinesOwn'
<1> DEFINE S == OwnPackets(schedule)
<1>1. /\ Within(inbox["writer"], S) /\ Within(ring, S) /\ Within(inbox["tap"], S)
      /\ writer.at \in {"samples", "line"} => writer.msg \in S
  BY DEF QueuesOwn
<1>2. S' = S
  BY OwnKept
<1>3. ring \in Seq(Writable) /\ WriterType
  BY LiveTyped DEF WriterGood, WriterType
<1> HIDE DEF S
<1>5. inbox' = inbox
  BY DEF WriterThread, next_packet, skip_odd, write_samples, write_line, writer_exit
<1>6. ASSUME lines' = lines PROVE LinesOwn'
  BY <1>2, <1>6 DEF LinesOwn, DescribedBy, S
<1>7. ASSUME Within(ring', S), writer'.at \in {"samples", "line"} => writer'.msg \in S
      PROVE  QueuesOwn'
  BY <1>1, <1>2, <1>5, <1>7 DEF QueuesOwn, S, Within
<1>8. CASE next_packet
  <2>1. ring # <<>> /\ ring' = Tail(ring) /\ writer'.msg = Head(ring) /\ lines' = lines
    BY <1>8 DEF next_packet
  <2>2. Within(Tail(ring), S) /\ Head(ring) \in S
    BY <1>1, <1>3, <2>1, WithinTail
  <2> QED BY <1>6, <1>7, <2>1, <2>2
<1>9. CASE skip_odd \/ writer_exit
  <2>1. ring' = ring /\ lines' = lines /\ writer'.at \in {"wait", "exit"}
    BY <1>3, <1>9 DEF skip_odd, writer_exit, WriterType
  <2> QED BY <1>1, <1>6, <1>7, <2>1
<1>10. CASE write_samples
  <2>1. ring' = ring /\ lines' = lines /\ writer'.msg = writer.msg /\ writer.at = "samples"
    BY <1>3, <1>10 DEF write_samples, WriterType
  <2> QED BY <1>1, <1>6, <1>7, <2>1
<1>11. CASE write_line
  <2> DEFINE m == writer.msg
             o == written.offset - Len(m.iq)
             e == LineOf(m.meta, Len(m.iq), o)
             K == Len(lines)
  <2>1. ring' = ring /\ lines' = Append(lines, e) /\ writer'.at = "wait" /\ writer.at = "line"
    BY <1>11 DEF write_line
  <2>2. QueuesOwn'
    BY <1>1, <1>7, <2>1
  <2>3. m \in Writable /\ m \in S /\ m.format # "none" /\ lines \in Seq(Range(lines))
    BY <1>1, <1>3, <2>1 DEF WriterType, Writable
  <2>4. Describes(Parsed(e), m)
    <3>1. "window_start_sample" \in DOMAIN m.meta /\ m.meta["window_start_sample"] \in Nat
      BY <2>3, WritableLabelled
    <3> HIDE DEF m, o
    <3> QED BY <3>1, LineOfTells
  <2> HIDE DEF e
  <2>5. /\ DOMAIN lines = 1..K /\ DOMAIN lines' = 1..(K + 1) /\ lines'[K + 1] = e /\ K \in Nat
        /\ \A i \in 1..K : lines'[i] = lines[i]
    <3> DEFINE t == Append(lines, e)
    <3>1. /\ DOMAIN lines = 1..K /\ DOMAIN t = 1..(K + 1) /\ t[K + 1] = e /\ K \in Nat
          /\ \A i \in 1..K : t[i] = lines[i]
      BY <2>3, LineAppended
    <3> HIDE DEF t
    <3> QED BY <2>1, <3>1 DEF t
  <2>6. DescribedBy(schedule, Parsed(e))
    BY <2>3, <2>4 DEF DescribedBy, S
  <2> HIDE DEF m, K
  <2>7. ASSUME NEW k \in DOMAIN lines' PROVE DescribedBy(schedule, Parsed(lines'[k]))
    <3>1. CASE k \in 1..K
      BY <2>5, <3>1 DEF LinesOwn
    <3>2. CASE k = K + 1
      BY <2>5, <2>6, <3>2
    <3> QED BY <2>5, <2>7, <3>1, <3>2
  <2>8. LinesOwn'
    BY <1>2, <2>7 DEF LinesOwn, DescribedBy, S
  <2> QED BY <2>2, <2>8
<1> QED BY <1>8, <1>9, <1>10, <1>11 DEF WriterThread

\* The crop and the resampler take from their own queues and add to the next ones.
LEMMA ForwardsOnly ==
  ASSUME ChainGood, Crop \/ Resampler
  PROVE  inbox'["tap"] = inbox["tap"] /\ inbox'["writer"] = inbox["writer"]
<1> DEFINE hc == Handled(inbox, "crop")
           hr == Handled(inbox, "resampler")
           Same(box) == box["tap"] = inbox["tap"] /\ box["writer"] = inbox["writer"]
<1>1. DOMAIN inbox = Receivers
  BY DEF ChainGood, ChainType, QueueTypes
<1>2. Same(hc) /\ Same(hr)
  <2>1. /\ "crop" \in Receivers /\ {"tap", "writer"} \subseteq Receivers \ {"crop"}
        /\ "resampler" \in Receivers /\ {"tap", "writer"} \subseteq Receivers \ {"resampler"}
    BY DEF Receivers
  <2>2. \A c \in Receivers \ {"crop"} : hc[c] = inbox[c]
    BY <1>1, <2>1, HandledBy
  <2>3. \A c \in Receivers \ {"resampler"} : hr[c] = inbox[c]
    BY <1>1, <2>1, HandledBy
  <2> HIDE DEF hc, hr
  <2> QED BY <2>1, <2>2, <2>3
<1>3. ASSUME NEW m PROVE Same(Published(hc, "crop", m)) /\ Same(Published(hr, "resampler", m))
  BY <1>1, PublishedBy
<1> HIDE DEF hc, hr
<1>4. CASE Crop
  <2>1. inbox' = hc \/ \E m : inbox' = Published(hc, "crop", m)
    BY <1>4 DEF Crop, crop_handle_packet, Drop, Pass, Emit, hc
  <2> QED BY <1>2, <1>3, <2>1
<1>5. CASE Resampler
  <2>1. inbox' = hr \/ \E m : inbox' = Published(hr, "resampler", m)
    BY <1>5 DEF Resampler, resampler_handle_packet, Refuse, Resample, hr
  <2> QED BY <1>2, <1>3, <2>1
<1> QED BY <1>4, <1>5

\* The greatest of a set of positions
LEMMA Greatest ==
  ASSUME NEW n \in Nat, NEW S \in SUBSET (1..n), S # {}
  PROVE  Max(S) \in S
<1> DEFINE R == {n - x : x \in S}
<1>1. R \in SUBSET Nat /\ R # {}
  <2>1. \A x \in S : n - x \in Nat
    OBVIOUS
  <2> QED BY <2>1
<1>2. PICK z \in R : \A y \in R : z <= y
  BY <1>1, LeastNatural
<1>3. PICK x \in S : z = n - x
  BY <1>2
<1>4. ASSUME NEW y \in S PROVE x >= y
  <2>1. n - y \in R /\ x \in Nat /\ y \in Nat
    OBVIOUS
  <2>2. n - x <= n - y
    BY <1>2, <1>3, <2>1
  <2> QED BY <2>1, <2>2
<1> QED BY <1>4 DEF Max

\* A step of the live flowgraph: its packets stay its own.
LEMMA OwnStep ==
  ASSUME LiveGood, OwnMessages, [Next]_vars, phase' = phase, Live
  PROVE  OwnMessages'
<1>1. ExtractorGood /\ ChainGood /\ SlotsInStream /\ QueuesOwn /\ LinesOwn
  BY DEF LiveGood, OwnMessages
<1>2. ASSUME UNCHANGED lines, schedule' = schedule PROVE LinesOwn'
  BY <1>1, <1>2, OwnKept DEF LinesOwn, DescribedBy
<1>3. ASSUME UNCHANGED extVars PROVE SlotsInStream' /\ schedule' = schedule
  BY <1>1, <1>3 DEF extVars, SlotsInStream
<1>4. CASE Extractor
  <2>1. UNCHANGED <<ring, writer, lines>>
    BY <1>4 DEF Extractor, OutsideExtractor, writerVars
  <2>2. SlotsInStream' /\ schedule' = schedule
    BY <1>1, <1>4, ExtractorInStream DEF Extractor
  <2>3. LinesOwn'
    BY <1>2, <2>1, <2>2
  <2>4. CASE publish_slot
    <3>1. PICK p \in OwnPackets(schedule) : inbox' = Published(inbox, "extractor", p)
      BY <1>1, <2>4, PublishesOwn
    <3>2. p \in Packets
      <4>1. schedule \in Schedules
        BY <1>1 DEF ExtractorGood, ExtractorType
      <4> QED BY <3>1, <4>1 DEF OwnPackets, InStream, Packets, Extracted
    <3>3. QueuesOwn'
      BY <1>1, <2>1, <2>2, <3>1, <3>2, QueuesGetOwn
    <3> QED BY <2>2, <2>3, <3>3 DEF OwnMessages
  <2>5. CASE ~publish_slot
    <3>1. inbox' = inbox
      BY <1>4, <2>5 DEF Extractor, ExtractorThread, ExtractorWorker, work, begin_next_window,
         skip, copy, work_returns, stopped, take_job, free_slot, worker_exit
    <3>2. QueuesOwn'
      BY <1>1, <2>1, <2>2, <3>1, QueuesKept
    <3> QED BY <2>2, <2>3, <3>2 DEF OwnMessages
  <2> QED BY <2>4, <2>5
<1>5. CASE ExtractorEnds
  <2>1. /\ stop(stopping \/ sample = StreamLength) /\ UNCHANGED <<ring, writer, lines>>
    BY <1>5 DEF ExtractorEnds, writerVars
  <2>2. SlotsInStream' /\ schedule' = schedule /\ inbox' = inbox
    BY <1>1, <2>1, EndInStream DEF stop
  <2> QED BY <1>1, <1>2, <2>1, <2>2, QueuesKept DEF OwnMessages
<1>6. CASE OtherPublisher
  <2>1. UNCHANGED extVars /\ UNCHANGED <<ring, writer, lines>>
    BY <1>6 DEF OtherPublisher, writerVars
  <2>2. PICK p \in Foreign : inbox' = Published(inbox, "extractor", p)
    BY <1>6 DEF OtherPublisher
  <2>3. p \in Packets /\ p \in OwnPackets(schedule)
    BY DEF Packets, OwnPackets
  <2>4. SlotsInStream' /\ schedule' = schedule
    BY <1>3, <2>1
  <2>5. QueuesOwn'
    BY <1>1, <2>1, <2>2, <2>3, <2>4, QueuesGetOwn
  <2> QED BY <1>2, <2>1, <2>4, <2>5 DEF OwnMessages
<1>7. CASE Crop \/ Resampler
  <2>1. UNCHANGED extVars /\ UNCHANGED <<ring, writer, lines>>
    BY <1>7 DEF Crop, Resampler, writerVars
  <2>2. inbox'["tap"] = inbox["tap"] /\ inbox'["writer"] = inbox["writer"]
    BY <1>1, <1>7, ForwardsOnly
  <2>3. SlotsInStream' /\ schedule' = schedule
    BY <1>3, <2>1
  <2> QED BY <1>1, <1>2, <2>1, <2>2, <2>3, QueuesKept DEF OwnMessages
<1>8. CASE WriterHandler
  <2>1. writer_handle_packet /\ UNCHANGED extVars /\ UNCHANGED lines
    BY <1>8 DEF WriterHandler, OutsideWriter, writer_handle_packet
  <2>2. SlotsInStream' /\ schedule' = schedule
    BY <1>3, <2>1
  <2> QED BY <1>1, <1>2, <2>1, <2>2, HandlerOwn DEF OwnMessages
<1>9. CASE Writer
  <2>1. WriterThread /\ UNCHANGED extVars
    BY <1>9 DEF Writer, OutsideWriter
  <2>2. SlotsInStream' /\ schedule' = schedule
    BY <1>3, <2>1
  <2> QED BY <1>1, <2>1, <2>2, ThreadOwn DEF OwnMessages
<1>10. ASSUME UNCHANGED extVars, UNCHANGED <<ring, writer, lines, inbox>>
       PROVE  OwnMessages'
  <2>1. SlotsInStream' /\ schedule' = schedule
    BY <1>3, <1>10
  <2> QED BY <1>1, <1>2, <1>10, <2>1, QueuesKept DEF OwnMessages
<1>11. CASE \E b \in DOMAIN Before : BlockEnds(b)
  BY <1>10, <1>11 DEF BlockEnds, writer_stop, writerVars
<1>12. CASE TbStop
  BY <1>10, <1>12 DEF TbStop, liveVars, writerVars
<1>13. CASE UNCHANGED vars
  BY <1>10, <1>13 DEF vars, liveVars, writerVars
<1>14. ~AppEnds /\ ~Dies /\ ~Postprocess
  BY DEF AppEnds, Dies, Gone, Postprocess, Live
<1> QED BY <1>4, <1>5, <1>6, <1>7, <1>8, <1>9, <1>11, <1>12, <1>13, <1>14 DEF Next, Threads

\* The results name packets that the tap has seen.
LEMMA RowTells ==
  ASSUME LiveGood, OwnMessages, NEW msg, NEW pass
  PROVE  TellsOf(schedule, ResultRow(msg, pass))
<1> DEFINE q == inbox["tap"]
           id == Get(msg.meta, "packet_id", 0)
           rows == TapRows(id)
           r == ResultRow(msg, pass)
           p == IF rows = {} THEN -1
                ELSE Get(q[Max(rows)].meta, "predicted_start_sample", -1)
<1>1. q \in Seq(Packets) /\ Within(q, OwnPackets(schedule))
  BY LiveTyped DEF QueueTypes, OwnMessages, QueuesOwn
<1>2. r.packet_id = id /\ r.native_predicted = IF p = 0 THEN -1 ELSE p
  BY DEF ResultRow, NativePredicted
<1>3. rows \in SUBSET (1..Len(q)) /\ Len(q) \in Nat
  BY <1>1 DEF TapRows
<1>4. CASE rows = {}
  <2>1. r.native_predicted = -1
    BY <1>2, <1>4
  <2> HIDE DEF r
  <2>2. TellsOf(schedule, r)
    BY <2>1 DEF TellsOf
  <2> QED BY <2>2 DEF r
<1>5. CASE rows # {}
  <2> DEFINE k == Max(rows)
             m == q[k]
  <2>1. k \in rows
    BY <1>3, <1>5, Greatest
  <2>2. k \in DOMAIN q /\ Get(m.meta, "packet_id", 0) = id
    BY <2>1 DEF TapRows
  <2>3. m \in OwnPackets(schedule)
    BY <1>1, <2>2 DEF Within
  <2>4. p = Get(m.meta, "predicted_start_sample", -1)
    BY <1>5
  <2> HIDE DEF r, p, m, id
  <2>5. r.native_predicted >= 0 => p = r.native_predicted
    BY <1>2
  <2>6. TellsOf(schedule, r)
    BY <1>2, <2>2, <2>3, <2>4, <2>5 DEF TellsOf
  <2> QED BY <2>6 DEF r
<1> QED BY <1>4, <1>5

\* When the process has gone, its files are of the one schedule that it had.
LEMMA EndsWithFiles ==
  ASSUME LiveGood, OwnMessages, AppEnds \/ Dies
  PROVE  FilesOwn'
<1>1. schedule \in Schedules
  BY DEF LiveGood, ExtractorGood, ExtractorType
<1>2. disk'.lines = lines
  BY DEF AppEnds, Dies
<1>3. ASSUME NEW i \in DOMAIN disk'.results PROVE TellsOf(schedule, disk'.results[i])
  <2>1. CASE AppEnds
    <3>0. PICK n \in 0..Len(inbox["demod"]) : \E pass \in [1..n -> BOOLEAN] :
            disk' = [iq |-> iq, lines |-> lines,
                     results |-> [j \in 1..n |-> ResultRow(inbox["demod"][j], pass[j])]]
      BY <2>1 DEF AppEnds
    <3>1. PICK pass \in [1..n -> BOOLEAN] :
            disk' = [iq |-> iq, lines |-> lines,
                     results |-> [j \in 1..n |-> ResultRow(inbox["demod"][j], pass[j])]]
      BY <3>0
    <3>2. disk'.results = [j \in 1..n |-> ResultRow(inbox["demod"][j], pass[j])]
      BY <3>1
    <3>3. disk'.results[i] = ResultRow(inbox["demod"][i], pass[i])
      BY <1>3, <3>2
    <3> QED BY <3>3, RowTells
  <2>2. CASE Dies
    BY <1>3, <2>2 DEF Dies
  <2> QED BY <2>1, <2>2
<1>4. \A i \in DOMAIN disk'.lines : DescribedBy(schedule, Parsed(disk'.lines[i]))
  BY <1>2 DEF OwnMessages, LinesOwn
<1>5. PICK s \in Schedules : s = schedule
  BY <1>1
<1>6. Len(disk'.lines) \in Nat
  BY <1>2, LiveTyped DEF WriterGood, WriterType
<1>7. \E n \in Nat : DOMAIN disk'.results = 1..n
  <2>1. CASE AppEnds
    <3>1. PICK n \in 0..Len(inbox["demod"]) : \E pass \in [1..n -> BOOLEAN] :
            disk' = [iq |-> iq, lines |-> lines,
                     results |-> [j \in 1..n |-> ResultRow(inbox["demod"][j], pass[j])]]
      BY <2>1 DEF AppEnds
    <3>2. DOMAIN disk'.results = 1..n /\ n \in Nat
      BY <3>1
    <3> QED BY <3>2
  <2>2. CASE Dies
    <3>1. disk'.results = <<>>
      BY <2>2 DEF Dies
    <3>2. DOMAIN disk'.results = 1..0
      BY <3>1
    <3> QED BY <3>2
  <2> QED BY <2>1, <2>2
<1>8. FilesOf(s)'
  BY <1>3, <1>4, <1>5, <1>6, <1>7 DEF FilesOf
<1> QED BY <1>8 DEF FilesOwn

\* What the messages of a capture and its files say
QueueGone == phase = "files" => inbox["demod"] = <<>>
OwnInv == (Live => OwnMessages) /\ FilesOwn /\ QueueGone

LEMMA OwnAtStart ==
  Init => OwnInv
<1> SUFFICES ASSUME Init PROVE OwnInv
  OBVIOUS
<1>1. /\ inbox = [b \in Receivers |-> <<>>] /\ phase = "live" /\ ring = <<>> /\ lines = <<>>
      /\ writer.at = "wait"
  BY DEF Init, WriterInit
<1>2. inbox["tap"] = <<>> /\ inbox["writer"] = <<>>
  BY <1>1 DEF Receivers
<1>3. ASSUME NEW S PROVE Within(<<>>, S)
  BY DEF Within
<1>4. QueuesOwn
  BY <1>1, <1>2, <1>3 DEF QueuesOwn
<1>5. LinesOwn
  BY <1>1 DEF LinesOwn
<1>6. SlotsInStream
  BY DEF Init, ExtractorInit, EmptySlot, SlotsInStream
<1> QED BY <1>1, <1>4, <1>5, <1>6 DEF OwnInv, OwnMessages, FilesOwn, QueueGone

LEMMA OwnNext ==
  CaptureInv /\ OwnInv /\ [Next]_vars => OwnInv'
<1> SUFFICES ASSUME CaptureInv, OwnInv, [Next]_vars PROVE OwnInv'
  OBVIOUS
<1>1. Live => LiveGood /\ OwnMessages
  BY DEF CaptureInv, LiveGood, OwnInv
<1>2. CASE AppEnds \/ Dies
  <2>1. Live /\ phase' = "files"
    BY <1>2 DEF AppEnds, Dies, Gone
  <2>2. inbox'["demod"] = <<>>
    BY <1>2 DEF AppEnds, Dies, Gone, Receivers
  <2> QED BY <1>1, <1>2, <2>1, <2>2, EndsWithFiles DEF OwnInv, QueueGone, Live
<1>3. CASE ~(AppEnds \/ Dies)
  <2>1. phase' = phase
    BY <1>3 DEF Next, Threads, Extractor, ExtractorEnds, Crop, Resampler, WriterHandler, Writer,
       Postprocess, BlockEnds, OtherPublisher, TbStop, OutsideExtractor, OutsideWriter,
       flowVars, vars
  <2>2. CASE Live
    <3>1. OwnMessages'
      BY <1>1, <2>1, <2>2, OwnStep
    <3> QED BY <2>1, <2>2, <3>1 DEF OwnInv, FilesOwn, QueueGone, Live
  <2>3. CASE phase = "files"
    <3>1. disk' = disk /\ inbox' = inbox
      BY <1>3, <2>3 DEF Next, Threads, Extractor, ExtractorEnds, Crop, Resampler, WriterHandler,
         Writer, Postprocess, BlockEnds, OtherPublisher, TbStop, Live, vars, liveVars
    <3> QED BY <2>1, <2>3, <3>1 DEF OwnInv, FilesOwn, FilesOf, QueueGone, Live
  <2> QED BY <2>2, <2>3 DEF CaptureInv, Live
<1> QED BY <1>2, <1>3

-----------------------------------------------------------------------------
(* The post-processing tool: the lines that it writes.                     *)

\* A product that is not an error has the outputs of samples that begin where it
\* says; cropped by the tool and of no mode, its guard ends at the prediction.
GoodProduct(p, o) ==
  /\ p.error = FALSE /\ p.ws \in Nat /\ p.rs \in Seq(Outputs)
  /\ \A i \in 1..Len(p.rs) : p.rs[i] = <<p.ws, i - 1>>
  /\ o.emit = "qm35" /\ p.mode = "" =>
       p.pre \in Nat /\ p.cap \in Nat /\ p.predicted = p.ws + p.pre

LineTells(l, q, o) ==
  LET a == l.file_offset_samples
      n == l.sample_count
  IN /\ a \in Nat /\ n \in Nat /\ a + n <= Len(q)
     /\ \A i \in 1..n : l.window_start_sample + i - 1 = MapOffset(q[a + i][1]) + q[a + i][2]
     /\ GuardEndsAtPrediction(l, o.emit = "qm35" /\ l.capture_mode = "")
LinesTell == \A k \in DOMAIN outLines : LineTells(outLines[k], outIq, tool.opt)

Wanted == {Parsed(disk.lines[i]) : i \in Windows}
ToolOff == /\ todo = <<>> /\ next = 1 /\ products = <<>>
           /\ outIq = <<>> /\ outLines = <<>> /\ outOff = 0
ToolTypes ==
  /\ phase = "files" /\ tool.opt \in Options
  /\ todo \in Seq(Wanted) /\ next \in Nat \ {0} /\ DOMAIN products = 1..Len(todo)
  /\ outIq \in Seq(Outputs) /\ outOff = Len(outIq)
  /\ outLines \in Seq(Range(outLines)) /\ Len(outLines) <= Len(todo)

\* A thread that is given a job leaves a product, or has failed at it.
OnPool(i) == \E t \in DOMAIN pool : pool[t].at \in {"process", "failed"} /\ pool[t].job = i
PoolThreads ==
  \A t \in DOMAIN pool :
    /\ DOMAIN pool[t] = {"at", "job"}
    /\ pool[t].at \in {"claim", "process", "failed", "done"}
    /\ pool[t].at \in {"process", "failed"} => pool[t].job \in 1..Len(todo)
    /\ pool[t].at = "done" => next > Len(todo)
Computing ==
  /\ outLines = <<>> /\ \E t : t \in DOMAIN pool
  /\ PoolThreads
  /\ \A i \in 1..Len(todo) : /\ Readable(todo[i])
                             /\ GoodProduct(products[i], tool.opt) \/ i >= next \/ OnPool(i)
Unwritable == \E i \in 1..Len(todo) : i > Len(outLines) /\ ~GoodProduct(products[i], tool.opt)
ToolInv ==
  /\ DOMAIN tool = {"at", "opt", "code"} /\ tool.at \in {"off", "compute", "write", "exit"}
  /\ tool.at = "off" => ToolOff
  /\ tool.at # "off" => ToolTypes /\ LinesTell
  /\ tool.at = "compute" => Computing
  /\ tool.at = "write" => ~Unwritable

\* The lines taken, up to each of the first m: a function defined by its own values
Takes(i, o) == i \in Windows /\ want_window(Parsed(disk.lines[i]), o)
TakenUpTo(f, m, o) ==
  f = [i \in 0..m |-> IF i = 0 THEN <<>>
                      ELSE IF Takes(i, o) THEN Append(f[i - 1], Parsed(disk.lines[i]))
                                          ELSE f[i - 1]]

\* There is such a function: were there none up to some line, there would be one up
\* to the line before the first such, and that has a next value.
LEMMA UpToExists ==
  ASSUME NEW N \in Nat, NEW o
  PROVE  \E f : TakenUpTo(f, N, o)
<1> DEFINE Take(i) == Takes(i, o)
           Item(i) == Parsed(disk.lines[i])
           Ok(m, f) == f = [i \in 0..m |-> IF i = 0 THEN <<>>
                                           ELSE IF Take(i) THEN Append(f[i - 1], Item(i))
                                                           ELSE f[i - 1]]
           S == {m \in Nat : ~ \E f : Ok(m, f)}
<1>1. SUFFICES ASSUME S # {} PROVE FALSE
  <2>1. (\E f : Ok(N, f)) => \E f : TakenUpTo(f, N, o)
    BY DEF TakenUpTo
  <2> HIDE DEF Ok
  <2> QED BY <2>1
<1> HIDE DEF Take, Item
<1>2. PICK m \in S : \A y \in S : m <= y
  BY <1>1, LeastNatural
<1>3. m \in Nat /\ ~ \E f : Ok(m, f)
  OBVIOUS
<1>4. m # 0
  <2>1. Ok(0, [i \in 0..0 |-> <<>>])
    OBVIOUS
  <2> QED BY <1>3, <2>1
<1>5. m - 1 \in Nat /\ m - 1 \notin S
  <2>1. m - 1 \in Nat /\ ~(m <= m - 1)
    BY <1>3, <1>4
  <2> HIDE DEF S
  <2> QED BY <1>2, <2>1
<1>6. PICK f : Ok(m - 1, f)
  BY <1>5
<1> DEFINE g == [i \in 0..m |-> IF i < m THEN f[i]
                                ELSE IF Take(m) THEN Append(f[m - 1], Item(m)) ELSE f[m - 1]]
<1>7. ASSUME NEW i \in 0..m
      PROVE  g[i] = IF i = 0 THEN <<>>
                    ELSE IF Take(i) THEN Append(g[i - 1], Item(i)) ELSE g[i - 1]
  <2>1. \A j \in 0..m : j # m => g[j] = f[j] /\ j \in 0..(m - 1)
    BY <1>3
  <2>2. CASE i = m
    <3>1. m - 1 \in 0..m /\ m - 1 # m
      BY <1>3, <1>5
    <3>2. g[m - 1] = f[m - 1]
      BY <2>1, <3>1
    <3> QED BY <1>4, <2>2, <3>2
  <2>3. CASE i # m /\ i # 0
    <3>1. i - 1 \in 0..m /\ i - 1 # m /\ i \in 0..(m - 1)
      BY <1>3, <1>7, <2>3
    <3>2. g[i] = f[i] /\ g[i - 1] = f[i - 1]
      BY <2>1, <2>3, <3>1
    <3> HIDE DEF g
    <3>3. f[i] = IF Take(i) THEN Append(f[i - 1], Item(i)) ELSE f[i - 1]
      BY <1>6, <2>3, <3>1
    <3> QED BY <2>3, <3>2, <3>3
  <2>4. CASE i = 0
    <3>1. g[0] = f[0]
      BY <1>4, <2>1, <2>4
    <3>2. 0 \in 0..(m - 1)
      BY <1>5
    <3>3. f[0] = <<>>
      BY <1>6, <3>2
    <3> HIDE DEF g
    <3> QED BY <2>4, <3>1, <3>3
  <2> QED BY <2>2, <2>3, <2>4
<1>8. Ok(m, g)
  <2>1. g = [i \in 0..m |-> g[i]]
    OBVIOUS
  <2> HIDE DEF g
  <2> QED BY <1>7, <2>1
<1> QED BY <1>3, <1>8

\* The windows wanted are windows of the dump.
LEMMA SelectedTyped ==
  ASSUME Len(disk.lines) \in Nat, NEW o
  PROVE  Selected(o) \in Seq(Wanted)
<1> DEFINE N == Len(disk.lines)
           c == CHOOSE f : TakenUpTo(f, N, o)
<1>1. TakenUpTo(c, N, o)
  BY UpToExists
<1>2. Selected(o) = c[N]
  BY DEF Selected, TakenUpTo, Takes
<1> HIDE DEF c
<1> DEFINE S == {m \in 0..N : c[m] \notin Seq(Wanted)}
<1>3. ASSUME S # {} PROVE FALSE
  <2>1. S \in SUBSET Nat
    OBVIOUS
  <2>2. PICK m \in S : \A y \in S : m <= y
    BY <1>3, <2>1, LeastNatural
  <2>3. m \in 0..N /\ c[m] \notin Seq(Wanted)
    BY <2>2
  <2>4. c[m] = IF m = 0 THEN <<>> ELSE IF Takes(m, o) THEN Append(c[m - 1], Parsed(disk.lines[m]))
                                                      ELSE c[m - 1]
    BY <1>1, <2>3 DEF TakenUpTo
  <2>5. CASE m = 0
    BY <2>3, <2>4, <2>5
  <2>6. CASE m # 0
    <3>1. m - 1 \in 0..N /\ ~(m <= m - 1)
      BY <2>3, <2>6
    <3>2. c[m - 1] \in Seq(Wanted)
      BY <2>2, <3>1
    <3>3. Takes(m, o) => Parsed(disk.lines[m]) \in Wanted
      BY DEF Takes, Wanted
    <3> QED BY <2>3, <2>4, <2>6, <3>2, <3>3
  <2> QED BY <2>5, <2>6
<1>4. N \in 0..N
  OBVIOUS
<1> QED BY <1>2, <1>3, <1>4

\* What the other publishers are, for the tool to tell their packets from windows:
\* one counter numbers all the packets of a capture, and a packet that is not an
\* acquisition has its prediction in its window or not where the tool crops.
OthersLabelled ==
  /\ \A p \in Foreign : "packet_id" \in DOMAIN p.meta
  /\ \A p \in Foreign : \A s \in Schedules : p.meta["packet_id"] \notin InStream(s)
  /\ \A p, q \in Foreign : p.meta["packet_id"] = q.meta["packet_id"] =>
       Get(p.meta, "predicted_start_sample", -1) = Get(q.meta, "predicted_start_sample", -1)
  /\ \A p \in Foreign : p.format # "none" /\ Get(p.meta, "capture_mode", "") = "" =>
       LET ws == p.meta["window_start_sample"]
           x == LinePrediction(p)
       IN  \/ ws <= x /\ x <= ws + Len(p.iq)
           \/ plan_window_crop(ws, Len(p.iq), x, Geometry, FALSE).empty

\* The result that the tool finds for a line tells of a packet of its number.
LEMMA ResultNamed ==
  ASSUME NEW s, FilesOf(s), NEW id, ResultFor(id).native_predicted >= 0
  PROVE  \E m \in OwnPackets(s) :
           /\ Get(m.meta, "packet_id", 0) = id
           /\ Get(m.meta, "predicted_start_sample", -1) = ResultFor(id).native_predicted
<1> DEFINE S == ResultsOf(id)
           d == disk.results[Max(S)]
<1>1. PICK n \in Nat : DOMAIN disk.results = 1..n
  BY DEF FilesOf
<1>2. S \in SUBSET (1..n)
  BY <1>1 DEF ResultsOf
<1>3. S # {}
  <2>1. NoResult.native_predicted = -1
    BY DEF NoResult
  <2>2. ~(-1 >= 0)
    OBVIOUS
  <2> QED BY <2>1, <2>2 DEF ResultFor
<1>4. Max(S) \in S
  BY <1>2, <1>3, Greatest
<1>5. ResultFor(id) = d /\ d.packet_id = id /\ Max(S) \in DOMAIN disk.results
  BY <1>3, <1>4 DEF ResultFor, ResultsOf
<1>6. TellsOf(s, d)
  BY <1>5 DEF FilesOf
<1> HIDE DEF d
<1> QED BY <1>5, <1>6 DEF TellsOf

\* The window of a schedule contains its prediction.
LEMMA WindowHasPrediction ==
  ASSUME NEW s \in Schedules, NEW k \in Nat
  PROVE  LET m == WindowPacket(s, k)
             x == predicted_start_sample(s, k)
             ws == m.meta["window_start_sample"]
         IN  /\ x \in Nat /\ ws \in Nat /\ ws <= x /\ x <= ws + Len(m.iq) /\ Len(m.iq) \in Nat
             /\ LinePrediction(m) = x /\ Get(m.meta, "predicted_start_sample", -1) = x
             /\ Get(m.meta, "packet_id", 0) = k /\ "packet_id" \in DOMAIN m.meta
             /\ m.meta["packet_id"] = k
<1> DEFINE m == WindowPacket(s, k)
           w == WindowStart(s, k)
           p == predicted_start_sample(s, k)
           g == Guards.pre
           n == Capacity
<1>1. /\ Len(m.iq) = n /\ m.meta["window_start_sample"] = w
      /\ Get(m.meta, "predicted_start_sample", -1) = p
  BY WindowLabelled
<1>2. /\ "packet_id" \in DOMAIN m.meta /\ m.meta["packet_id"] = k
      /\ "predicted_start_sample" \in DOMAIN m.meta /\ m.meta["predicted_start_sample"] = p
  BY DEF WindowPacket
<1>3. p \in Nat /\ w \in Nat /\ w = GeoMax(p - g, 0) /\ n \in Nat \ {0} /\ g \in Nat /\ g <= n
  BY WindowsForward
<1> HIDE DEF m, w, p, g, n
<1>4. w <= p /\ p <= w + n
  BY <1>3 DEF GeoMax
<1>5. LinePrediction(m) = p /\ Get(m.meta, "packet_id", 0) = k
  BY <1>2 DEF LinePrediction, Get
<1> QED BY <1>1, <1>2, <1>3, <1>4, <1>5 DEF m, p

\* The tool crops around the prediction of the line's own packet: what the results
\* tell it of the packet's number is that.
LEMMA PredictionNamed ==
  ASSUME OthersLabelled, NEW s \in Schedules, FilesOf(s), NEW w, DescribedBy(s, w)
  PROVE  LET x == Predicted(w)
         IN  /\ w.ws \in Nat /\ w.n \in Nat /\ x \in Int
             /\ w.mode = "" => \/ w.ws <= x /\ x <= w.ws + w.n
                               \/ plan_window_crop(w.ws, w.n, x, Geometry, FALSE).empty
<1> DEFINE d == ResultFor(w.packet_id).native_predicted
           x == Predicted(w)
<1>1. PICK m \in OwnPackets(s) : m.format # "none" /\ Describes(w, m)
  BY DEF DescribedBy
<1>2. /\ w.n = Len(m.iq) /\ w.ws = m.meta["window_start_sample"]
      /\ w.predicted = LinePrediction(m) /\ w.mode = Get(m.meta, "capture_mode", "")
      /\ "packet_id" \in DOMAIN m.meta => w.packet_id = m.meta["packet_id"]
  BY <1>1 DEF Describes
<1>3. d >= 0 => \E o \in OwnPackets(s) :
                  /\ Get(o.meta, "packet_id", 0) = w.packet_id
                  /\ Get(o.meta, "predicted_start_sample", -1) = d
  BY ResultNamed
<1>4. x = IF d >= 0 THEN d ELSE w.predicted
  BY DEF Predicted
<1>5. x = LinePrediction(m) => /\ w.ws \in Nat /\ w.n \in Nat /\ x \in Int
                               /\ w.mode = "" =>
                                    \/ w.ws <= x /\ x <= w.ws + w.n
                                    \/ plan_window_crop(w.ws, w.n, x, Geometry, FALSE).empty
  <2> HIDE DEF x
  <2>1. CASE m \in Foreign
    <3>1. /\ m.meta["window_start_sample"] \in Nat /\ m.iq \in Seq(Int)
          /\ Get(m.meta, "predicted_start_sample", -1) \in Int
          /\ Get(m.meta, "start_sample", 0) \in Nat
          /\ "window_start_sample" \in DOMAIN m.meta
      BY <1>1, <2>1, ForeignAssumption
    <3>2. LinePrediction(m) \in Int
      BY <3>1 DEF LinePrediction, Get
    <3>3. Len(m.iq) \in Nat
      BY <3>1
    <3>4. Get(m.meta, "capture_mode", "") = "" =>
            LET ws == m.meta["window_start_sample"]
                y == LinePrediction(m)
            IN  \/ ws <= y /\ y <= ws + Len(m.iq)
                \/ plan_window_crop(ws, Len(m.iq), y, Geometry, FALSE).empty
      BY <1>1, <2>1 DEF OthersLabelled
    <3> QED BY <1>2, <3>1, <3>2, <3>3, <3>4
  <2>2. CASE m \notin Foreign
    <3>1. PICK k \in InStream(s) : m = WindowPacket(s, k)
      BY <2>2 DEF OwnPackets
    <3>2. k \in Nat
      BY DEF InStream
    <3> DEFINE y == predicted_start_sample(s, k)
    <3>3. /\ y \in Nat /\ m.meta["window_start_sample"] \in Nat /\ Len(m.iq) \in Nat
          /\ m.meta["window_start_sample"] <= y /\ y <= m.meta["window_start_sample"] + Len(m.iq)
          /\ LinePrediction(m) = y
      BY <3>1, <3>2, WindowHasPrediction
    <3> HIDE DEF y
    <3>4. w.ws = m.meta["window_start_sample"] /\ w.n = Len(m.iq)
      BY <1>2
    <3> DEFINE a == w.ws
               n == w.n
    <3>5. a \in Nat /\ n \in Nat /\ y \in Nat /\ a <= y /\ y <= a + n
      BY <3>3, <3>4
    <3>6. x = LinePrediction(m) => x = y
      BY <3>3
    <3> HIDE DEF a, n
    <3>7. x = LinePrediction(m) => x \in Int /\ a <= x /\ x <= a + n
      BY <3>5, <3>6
    <3> QED BY <3>5, <3>7 DEF a, n
  <2> QED BY <2>1, <2>2
<1>6. CASE ~(d >= 0)
  BY <1>2, <1>4, <1>5, <1>6
<1>7. CASE d >= 0
  <2>1. PICK o \in OwnPackets(s) : /\ Get(o.meta, "packet_id", 0) = w.packet_id
                                   /\ Get(o.meta, "predicted_start_sample", -1) = d
    BY <1>3, <1>7
  <2>2. x = d
    BY <1>4, <1>7
  <2> HIDE DEF x, d
  <2>3. ASSUME NEW p \in Foreign
        PROVE  /\ "packet_id" \in DOMAIN p.meta
               /\ Get(p.meta, "packet_id", 0) = p.meta["packet_id"]
               /\ p.meta["packet_id"] \notin InStream(s)
    BY <2>3 DEF OthersLabelled, Get
  <2>4. ASSUME NEW k \in InStream(s)
        PROVE  /\ Get(WindowPacket(s, k).meta, "packet_id", 0) = k
               /\ "packet_id" \in DOMAIN WindowPacket(s, k).meta
               /\ WindowPacket(s, k).meta["packet_id"] = k
               /\ LinePrediction(WindowPacket(s, k)) = predicted_start_sample(s, k)
               /\ Get(WindowPacket(s, k).meta, "predicted_start_sample", -1)
                    = predicted_start_sample(s, k)
    <3>1. k \in Nat
      BY <2>4 DEF InStream
    <3> QED BY <3>1, WindowHasPrediction
  <2>5. CASE m \in Foreign
    <3>1. w.packet_id = m.meta["packet_id"] /\ w.packet_id \notin InStream(s)
      BY <1>2, <2>3, <2>5
    <3>2. o \in Foreign
      BY <2>1, <2>4, <3>1 DEF OwnPackets
    <3>3. o.meta["packet_id"] = m.meta["packet_id"]
      BY <2>1, <2>3, <3>1, <3>2
    <3>4. Get(m.meta, "predicted_start_sample", -1) = d
      BY <2>1, <2>5, <3>2, <3>3 DEF OthersLabelled
    <3>5. "predicted_start_sample" \in DOMAIN m.meta
      <4>1. d = -1 => ~(d >= 0)
        OBVIOUS
      <4> QED BY <1>7, <3>4, <4>1 DEF Get
    <3>6. LinePrediction(m) = d
      BY <3>4, <3>5 DEF LinePrediction, Get
    <3> QED BY <1>5, <2>2, <3>6 DEF x
  <2>6. CASE m \notin Foreign
    <3>1. PICK k \in InStream(s) : m = WindowPacket(s, k)
      BY <2>6 DEF OwnPackets
    <3>2. w.packet_id = k
      BY <1>2, <2>4, <3>1
    <3>3. o \notin Foreign
      BY <2>1, <2>3, <3>2
    <3>4. PICK j \in InStream(s) : o = WindowPacket(s, j)
      BY <3>3 DEF OwnPackets
    <3>5. j = k
      BY <2>1, <2>4, <3>2, <3>4
    <3>6. LinePrediction(m) = d
      BY <2>1, <2>4, <3>1, <3>4, <3>5
    <3> QED BY <1>5, <2>2, <3>6 DEF x
  <2> QED BY <2>5, <2>6
<1> QED BY <1>6, <1>7

\* What the tool makes of a window that it could read: an error, or a product whose
\* samples and labels agree.
LEMMA ProcessedGood ==
  ASSUME OthersLabelled, phase = "files", LinesReadBack, NEW s \in Schedules, FilesOf(s),
         NEW w \in Wanted, Readable(w)
  PROVE  LET p == process_window(w, tool.opt)
         IN  p = Failed \/ GoodProduct(p, tool.opt)
<1> DEFINE o == tool.opt
           x == Predicted(w)
           c == plan_window_crop(w.ws, w.n, x, Geometry, w.mode = "acquisition")
           whole == Product(w, x, Read(w), w.ws, w.pre, w.cap, w.post)
           cut == CroppedProduct(w, x, Read(w), c)
           p == process_window(w, o)
<1>1. PICK i \in Windows : w = Parsed(disk.lines[i])
  BY DEF Wanted
<1>2. w.n > 0 /\ i \in DOMAIN disk.lines
  BY <1>1 DEF Windows, HasSamples
<1>3. DescribedBy(s, w)
  BY <1>1, <1>2 DEF FilesOf
<1>4. /\ w.ws \in Nat /\ w.n \in Nat \ {0} /\ x \in Int
      /\ w.mode = "" => \/ w.ws <= x /\ x <= w.ws + w.n
                        \/ plan_window_crop(w.ws, w.n, x, Geometry, FALSE).empty
  <2>1. /\ w.ws \in Nat /\ w.n \in Nat /\ x \in Int
        /\ w.mode = "" => \/ w.ws <= x /\ x <= w.ws + w.n
                          \/ plan_window_crop(w.ws, w.n, x, Geometry, FALSE).empty
    BY <1>3, PredictionNamed
  <2> HIDE DEF x
  <2>2. w.n \in Nat \ {0}
    <3> DEFINE n == w.n
    <3>1. n \in Nat /\ n > 0
      BY <1>2, <2>1
    <3> HIDE DEF n
    <3>2. n \in Nat \ {0}
      BY <3>1
    <3> QED BY <3>2 DEF n
  <2> QED BY <2>1, <2>2
<1>5. Read(w) = Run(w.ws, w.n)
  BY <1>1, <1>2 DEF LinesReadBack, Run
<1>6. \/ o.emit = "full" /\ p = whole
      \/ p = Failed
      \/ o.emit # "full" /\ ~(x < 0) /\ ~c.empty /\ c.passthrough /\ p = whole
      \/ ~(x < 0) /\ ~c.empty /\ ~c.passthrough /\ p = cut
  BY DEF process_window
<1>7. /\ c.in_offset \in Nat /\ c.out_count \in Nat
      /\ ~c.empty /\ ~c.passthrough =>
           /\ c.in_offset + c.out_count <= w.n /\ c.out_count > 0
           /\ c.window_start = w.ws + c.in_offset
           /\ c.pre \in Nat /\ c.capture \in Nat /\ c.post \in Nat
           /\ w.ws <= x /\ x <= w.ws + w.n => c.window_start + c.pre = x
      /\ c.passthrough => x < 0 \/ w.n = 0 \/ w.mode = "acquisition"
  <2> DEFINE acq == w.mode = "acquisition"
             a == w.ws
             n == w.n
  <2>1. a \in Nat /\ n \in Nat /\ x \in Int /\ acq \in BOOLEAN
    BY <1>4
  <2>2. c = plan_window_crop(a, n, x, Geometry, acq)
    OBVIOUS
  <2> HIDE DEF x, acq, a, n, c
  <2> DEFINE q == plan_window_crop(a, n, x, Geometry, acq)
  <2>3. /\ q.in_offset \in Nat /\ q.out_count \in Nat
        /\ ~q.empty /\ ~q.passthrough =>
             /\ q.in_offset + q.out_count <= n /\ q.out_count > 0
             /\ q.window_start = a + q.in_offset
             /\ q.pre \in Nat /\ q.capture \in Nat /\ q.post \in Nat
             /\ a <= x /\ x <= a + n => q.window_start + q.pre = x
        /\ q.passthrough => x < 0 \/ n = 0 \/ acq
    BY <2>1, CropPlan
  <2> HIDE DEF q
  <2> QED BY <2>2, <2>3 DEF q, acq, a, n
<1> HIDE DEF x
<1>8. ASSUME NEW ws \in Nat, NEW n \in Nat \ {0}, NEW pre, NEW cap, NEW post,
             o.emit = "qm35" /\ w.mode = "" => pre \in Nat /\ cap \in Nat /\ x = ws + pre
      PROVE  GoodProduct(Product(w, x, Run(ws, n), ws, pre, cap, post), o)
  <2> DEFINE q == Product(w, x, Run(ws, n), ws, pre, cap, post)
             rs == resample_oneshot(Run(ws, n))
  <2>1. /\ rs \in Seq(Outputs) /\ Len(rs) = Length(n)
        /\ \A j \in 1..Length(n) : rs[j] = <<ws, j - 1>>
    BY OneShotOfRun
  <2>2. /\ q.error = FALSE /\ q.ws = ws /\ q.rs = rs /\ q.mode = w.mode
        /\ q.pre = pre /\ q.cap = cap /\ q.predicted = x
    BY DEF Product
  <2> HIDE DEF q, rs
  <2>3. GoodProduct(q, o)
    BY <1>8, <2>1, <2>2 DEF GoodProduct
  <2> QED BY <2>3 DEF q
<1>9. ASSUME o.emit = "qm35" => w.mode # "" PROVE GoodProduct(whole, o)
  BY <1>4, <1>5, <1>8, <1>9
<1>10. ASSUME ~(x < 0), ~c.empty, ~c.passthrough PROVE GoodProduct(cut, o)
  <2> DEFINE a == c.in_offset
             k == c.out_count
             ws == w.ws
             n == w.n
  <2>1. /\ a \in Nat /\ k \in Nat /\ ws \in Nat /\ n \in Nat \ {0} /\ a + k <= n /\ k > 0
        /\ c.window_start = ws + a /\ c.pre \in Nat /\ c.capture \in Nat
        /\ w.mode = "" => c.window_start + c.pre = x
    <3>1. w.mode = "" => w.ws <= x /\ x <= w.ws + w.n
      <4>1. w.mode = "" => c = plan_window_crop(w.ws, w.n, x, Geometry, FALSE)
        <5>1. w.mode = "" => (w.mode = "acquisition") = FALSE
          OBVIOUS
        <5> QED BY <5>1
      <4> HIDE DEF c
      <4> QED BY <1>4, <1>10, <4>1
    <3> HIDE DEF c
    <3> QED BY <1>4, <1>7, <1>10, <3>1
  <2>6. /\ a \in Nat /\ k \in Nat \ {0} /\ ws \in Nat /\ n \in Nat /\ a + k <= n
        /\ c.window_start \in Nat /\ c.window_start = ws + a
    <3>1. /\ a \in Nat /\ k \in Nat /\ ws \in Nat /\ n \in Nat /\ a + k <= n /\ k > 0
          /\ c.window_start = ws + a
      BY <2>1
    <3> HIDE DEF a, k, ws, n, c
    <3> QED BY <3>1
  <2>2. SubSeq(Run(ws, n), a + 1, a + k) = Run(c.window_start, k)
    <3> HIDE DEF a, k, ws, n, c
    <3>1. a \in Nat /\ k \in Nat /\ ws \in Nat /\ n \in Nat /\ a + k <= n
      BY <2>6
    <3>2. SubSeq(Run(ws, n), a + 1, a + k) = Run(ws + a, k)
      BY <3>1, RunPart, ZenonT(40)
    <3> QED BY <2>6, <3>2
  <2>3. cut = Product(w, x, Run(c.window_start, k), c.window_start, c.pre, c.capture, c.post)
    BY <1>5, <2>2 DEF CroppedProduct
  <2>5. x = c.window_start + c.pre \/ w.mode # ""
    BY <2>1
  <2> HIDE DEF c, k, cut
  <2> QED BY <1>8, <2>1, <2>3, <2>5, <2>6
<1> HIDE DEF c, whole, cut, p
<1>11. o.emit # "full" /\ ~(x < 0) /\ ~c.empty /\ c.passthrough => w.mode # ""
  BY <1>4, <1>7
<1> QED BY <1>6, <1>9, <1>10, <1>11 DEF p, o

\* The line of a product tells what its samples are, behind those written so far.
LEMMA OutLineTells ==
  ASSUME NEW p, NEW o, GoodProduct(p, o), NEW q \in Seq(Outputs)
  PROVE  LineTells(OutLine(p, Len(q)), q \o p.rs, o)
<1> DEFINE l == OutLine(p, Len(q))
           n == Len(p.rs)
           a == Len(q)
           t == q \o p.rs
           at == MapInput(p.ws)
           body == MapInput(p.ws + p.pre)
<1>1. /\ p.ws \in Nat /\ p.rs \in Seq(Outputs) /\ \A i \in 1..n : p.rs[i] = <<p.ws, i - 1>>
      /\ o.emit = "qm35" /\ p.mode = "" => p.pre \in Nat /\ p.cap \in Nat
                                           /\ p.predicted = p.ws + p.pre
  BY DEF GoodProduct
<1>2. /\ l.file_offset_samples = a /\ l.sample_count = n /\ l.window_start_sample = at
      /\ l.capture_mode = p.mode
      /\ l.pre_guard_samples = IF p.pre >= 0 /\ p.cap >= 0 THEN Nonnegative(body - at) ELSE 0
      /\ l.predicted_start_sample = IF p.predicted >= 0 THEN MapInput(p.predicted) ELSE -1
  BY DEF OutLine
<1> HIDE DEF l
<1>3. n \in Nat /\ a \in Nat /\ a + n <= Len(t)
      /\ \A i \in 1..(a + n) : t[i] = IF i <= a THEN q[i] ELSE p.rs[i - a]
  <2> DEFINE r == p.rs
  <2>1. r \in Seq(Outputs)
    BY <1>1
  <2> HIDE DEF r
  <2>2. /\ Len(q \o r) = Len(q) + Len(r) /\ Len(q) \in Nat /\ Len(r) \in Nat
        /\ \A i \in 1..(Len(q) + Len(r)) : (q \o r)[i] = IF i <= Len(q) THEN q[i] ELSE r[i - Len(q)]
    BY <2>1, Joined
  <2>3. Len(q) + Len(r) <= Len(q) + Len(r)
    BY <2>2
  <2> QED BY <2>2, <2>3 DEF r
<1>4. at = MapOffset(p.ws) /\ at \in Nat
  BY <1>1, MapOffsetTyped
<1> HIDE DEF t
<1>5. ASSUME NEW i \in 1..n PROVE at + i - 1 = MapOffset(t[a + i][1]) + t[a + i][2]
  <2> DEFINE j == a + i
  <2>1. j \in 1..(a + n) /\ ~(j <= a) /\ j - a = i
    BY <1>3
  <2> HIDE DEF j
  <2>2. t[j] = <<p.ws, i - 1>>
    BY <1>1, <1>3, <2>1
  <2>3. t[j][1] = p.ws /\ t[j][2] = i - 1
    BY <2>2
  <2>4. MapOffset(t[j][1]) + t[j][2] = at + i - 1
    BY <1>4, <2>3
  <2> QED BY <2>4 DEF j
<1>6. ASSUME o.emit = "qm35" /\ l.capture_mode = ""
      PROVE  l.window_start_sample + l.pre_guard_samples = l.predicted_start_sample
  <2> DEFINE ws == p.ws
             pre == p.pre
  <2>1. ws \in Nat /\ pre \in Nat /\ p.cap \in Nat /\ p.predicted = ws + pre
    BY <1>1, <1>2, <1>6
  <2> HIDE DEF ws, pre
  <2>2. ws + pre \in Nat /\ pre >= 0 /\ p.cap >= 0
    BY <2>1
  <2>3. p.predicted >= 0
    BY <2>1, <2>2
  <2>4. /\ MapInput(ws + pre) = MapOffset(ws + pre) /\ MapOffset(ws + pre) \in Nat
    BY <2>2, MapOffsetTyped
  <2>5. MapOffset(ws) <= MapOffset(ws + pre)
    BY <2>1, MapStretch
  <2>6. body = MapOffset(ws + pre)
    BY <2>4 DEF ws, pre
  <2>7. at = MapOffset(ws)
    BY <1>4 DEF ws
  <2> HIDE DEF body, at
  <2>8. l.predicted_start_sample = body
    BY <1>2, <2>1, <2>3, <2>4, <2>6
  <2>9. l.pre_guard_samples = Nonnegative(body - at)
    BY <1>2, <2>2 DEF pre
  <2>10. body \in Nat /\ at \in Nat /\ at <= body
    BY <1>4, <2>4, <2>5, <2>6, <2>7
  <2>11. Nonnegative(body - at) = body - at /\ at + (body - at) = body
    BY <2>10 DEF Nonnegative
  <2> QED BY <1>2, <2>8, <2>9, <2>11
<1>7. LineTells(l, t, o)
  BY <1>2, <1>3, <1>5, <1>6 DEF LineTells, GuardEndsAtPrediction
<1> QED BY <1>7 DEF l, t

\* A line tells no less when samples are added behind its own.
LEMMA LineStillTells ==
  ASSUME NEW q \in Seq(Outputs), NEW r \in Seq(Outputs), NEW l, NEW o, LineTells(l, q, o)
  PROVE  LineTells(l, q \o r, o)
<1> DEFINE t == q \o r
           a == l.file_offset_samples
           n == l.sample_count
           k == Len(q)
           m == Len(r)
<1>1. /\ a \in Nat /\ n \in Nat /\ a + n <= k
      /\ \A i \in 1..n : l.window_start_sample + i - 1 = MapOffset(q[a + i][1]) + q[a + i][2]
      /\ GuardEndsAtPrediction(l, o.emit = "qm35" /\ l.capture_mode = "")
  BY DEF LineTells
<1>2. /\ Len(t) = k + m /\ k \in Nat /\ m \in Nat
      /\ \A i \in 1..(k + m) : t[i] = IF i <= k THEN q[i] ELSE r[i - k]
  BY Joined
<1> HIDE DEF t, a, n, k, m
<1>0. a \in Nat /\ n \in Nat /\ k \in Nat /\ m \in Nat /\ a + n <= k
  BY <1>1, <1>2
<1>3. \A i \in 1..n : a + i \in 1..(k + m) /\ a + i <= k
  BY <1>0
<1>4. \A i \in 1..n : t[a + i] = q[a + i]
  BY <1>2, <1>3
<1>5. a + n <= Len(t)
  <2>1. a + n <= k + m
    BY <1>0
  <2> QED BY <1>2, <2>1
<1>6. LineTells(l, t, o)
  BY <1>1, <1>4, <1>5 DEF LineTells, a, n, k
<1> QED BY <1>6 DEF t

\* The tool runs on files that stay as they are.
LEMMA FilesStay ==
  ASSUME UNCHANGED <<disk, phase>>
  PROVE  Wanted' = Wanted /\ \A w : Readable(w)' = Readable(w)
BY DEF Wanted, Windows, Readable

\* What every step of the tool but its first leaves alone
LEMMA TypesKept ==
  ASSUME UNCHANGED <<disk, phase>>, ToolTypes, tool'.opt = tool.opt, todo' = todo,
         next' \in Nat \ {0}, DOMAIN products' = DOMAIN products,
         UNCHANGED <<outIq, outLines, outOff>>
  PROVE  ToolTypes' /\ (LinesTell => LinesTell')
<1>1. Wanted' = Wanted
  BY FilesStay
<1> QED BY <1>1 DEF ToolTypes, LinesTell

LEMMA LoadKeeps ==
  ASSUME ToolInv, postprocess, UNCHANGED <<disk, phase>>, phase = "files",
         NEW s, FilesOf(s)
  PROVE  ToolInv'
<1>1. /\ tool.at = "off" /\ UNCHANGED <<next, outIq, outLines, outOff>>
      /\ todo = <<>> /\ next = 1 /\ products = <<>>
      /\ outIq = <<>> /\ outLines = <<>> /\ outOff = 0
  BY DEF postprocess, ToolInv, ToolOff
<1>2. PICK o \in Options : Load(o)
  BY DEF postprocess
<1> DEFINE chosen == Selected(o)
           workers == Least(o.workers, Most(Len(chosen), 1))
<1>3. chosen \in Seq(Wanted) /\ Len(chosen) \in Nat
  <2>1. chosen \in Seq(Wanted)
    BY SelectedTyped DEF FilesOf
  <2> HIDE DEF chosen
  <2> QED BY <2>1
<1>4. workers \in Nat /\ 1 \in 1..workers
  <2> HIDE DEF chosen
  <2>1. o.workers \in Nat \ {0}
    BY OptionsAssumption
  <2> QED BY <1>3, <2>1 DEF Least, Most
<1>5. \/ \E code : Exit(o, code)
      \/ /\ tool' = [at |-> "compute", opt |-> o, code |-> 0] /\ todo' = chosen
         /\ \A i \in DOMAIN chosen : Readable(chosen[i])
         /\ products' = [i \in DOMAIN chosen |-> Failed]
         /\ pool' = [t \in 1..workers |-> [at |-> "claim", job |-> 0]]
  BY <1>2 DEF Load
<1>6. Wanted' = Wanted /\ \A w : Readable(w)' = Readable(w)
  BY FilesStay
<1> HIDE DEF chosen, workers
<1>7. outIq' \in Seq(Outputs) /\ outOff' = Len(outIq') /\ outLines' \in Seq(Range(outLines'))
      /\ next' \in Nat \ {0} /\ Len(outLines') = 0 /\ outLines' = <<>> /\ next' = 1
  BY <1>1
<1>8. CASE \E code : Exit(o, code)
  <2>1. /\ DOMAIN tool' = {"at", "opt", "code"} /\ tool'.at = "exit" /\ tool'.opt = o
        /\ todo' = <<>> /\ products' = <<>>
    BY <1>1, <1>8 DEF Exit
  <2>2. todo' \in Seq(Wanted') /\ DOMAIN products' = 1..Len(todo') /\ 0 <= Len(todo')
    BY <2>1
  <2>3. ToolTypes'
    BY <1>7, <2>1, <2>2 DEF ToolTypes
  <2>4. LinesTell'
    BY <1>7 DEF LinesTell
  <2> QED BY <2>1, <2>3, <2>4 DEF ToolInv
<1>9. CASE /\ tool' = [at |-> "compute", opt |-> o, code |-> 0] /\ todo' = chosen
           /\ \A i \in DOMAIN chosen : Readable(chosen[i])
           /\ products' = [i \in DOMAIN chosen |-> Failed]
           /\ pool' = [t \in 1..workers |-> [at |-> "claim", job |-> 0]]
  <2>1. DOMAIN tool' = {"at", "opt", "code"} /\ tool'.at = "compute" /\ tool'.opt = o
    BY <1>9
  <2>2. /\ todo' \in Seq(Wanted') /\ DOMAIN products' = 1..Len(todo') /\ 0 <= Len(todo')
        /\ DOMAIN chosen = 1..Len(todo') /\ todo' = chosen
    BY <1>3, <1>6, <1>9
  <2>3. ToolTypes'
    BY <1>7, <2>1, <2>2 DEF ToolTypes
  <2>4. LinesTell'
    BY <1>7 DEF LinesTell
  <2>5. /\ 1 \in DOMAIN pool'
        /\ \A t \in DOMAIN pool' : pool'[t] = [at |-> "claim", job |-> 0]
    BY <1>4, <1>9
  <2>6. PoolThreads'
    BY <2>5 DEF PoolThreads
  <2>7. \A i \in 1..Len(todo') : Readable(todo[i])' /\ i >= next'
    <3>1. \A i \in 1..Len(todo') : Readable(todo'[i]) /\ i >= 1
      BY <1>9, <2>2
    <3> QED BY <1>6, <1>7, <3>1 DEF Readable
  <2>8. Computing'
    BY <1>7, <2>5, <2>6, <2>7 DEF Computing
  <2> QED BY <2>1, <2>3, <2>4, <2>8 DEF ToolInv
<1> QED BY <1>5, <1>8, <1>9

LEMMA ClaimKeeps ==
  ASSUME ToolInv, NEW t \in DOMAIN pool, claim(t), UNCHANGED <<disk, phase>>
  PROVE  ToolInv'
<1> DEFINE u == IF next > Len(todo) THEN [at |-> "done", job |-> 0]
                                    ELSE [at |-> "process", job |-> next]
<1>1. /\ tool.at = "compute" /\ pool[t].at = "claim" /\ next' = next + 1
      /\ pool' = [pool EXCEPT ![t] = u]
      /\ UNCHANGED <<tool, todo, products, outIq, outLines, outOff>>
  BY DEF claim
<1>2. ToolTypes /\ LinesTell /\ Computing /\ DOMAIN tool = {"at", "opt", "code"}
  BY <1>1 DEF ToolInv
<1>3. next \in Nat \ {0} /\ next' \in Nat \ {0} /\ Len(todo) \in Nat
  BY <1>1, <1>2 DEF ToolTypes
<1>4. ToolTypes' /\ LinesTell'
  BY <1>1, <1>2, <1>3, TypesKept
<1>5. /\ DOMAIN u = {"at", "job"} /\ u.at \in {"done", "process"}
      /\ u.at = "process" => u.job \in 1..Len(todo)
      /\ u.at = "done" => next > Len(todo)
      /\ next <= Len(todo) => u.at = "process" /\ u.job = next
  <2>1. CASE next > Len(todo)
    BY <1>3, <2>1
  <2>2. CASE ~(next > Len(todo))
    <3>1. next \in 1..Len(todo)
      BY <1>3, <2>2
    <3> QED BY <2>2, <3>1
  <2> QED BY <2>1, <2>2
<1> HIDE DEF u
<1>6. /\ DOMAIN pool' = DOMAIN pool /\ pool'[t] = u
      /\ \A x \in DOMAIN pool : x # t => pool'[x] = pool[x]
  BY <1>1
<1>7. PoolThreads'
  <2>1. ASSUME NEW x \in DOMAIN pool
        PROVE  /\ DOMAIN pool'[x] = {"at", "job"}
               /\ pool'[x].at \in {"claim", "process", "failed", "done"}
               /\ pool'[x].at \in {"process", "failed"} => pool'[x].job \in 1..Len(todo)
               /\ pool'[x].at = "done" => next' > Len(todo)
    <3>1. CASE x = t
      <4>1. next > Len(todo) => next' > Len(todo)
        BY <1>1, <1>3
      <4> QED BY <1>5, <1>6, <3>1, <4>1
    <3>2. CASE x # t
      <4>1. next > Len(todo) => next' > Len(todo)
        BY <1>1, <1>3
      <4>2. pool'[x] = pool[x]
        BY <1>6, <3>2
      <4> QED BY <1>2, <4>1, <4>2 DEF Computing, PoolThreads
    <3> QED BY <3>1, <3>2
  <2> QED BY <1>1, <1>6, <2>1 DEF PoolThreads
<1>8. ASSUME NEW i \in 1..Len(todo)
      PROVE  GoodProduct(products[i], tool.opt) \/ i >= next' \/ OnPool(i)'
  <2>1. CASE OnPool(i)
    <3>1. PICK x \in DOMAIN pool : pool[x].at \in {"process", "failed"} /\ pool[x].job = i
      BY <2>1 DEF OnPool
    <3>2. x # t
      BY <1>1, <3>1
    <3>3. pool'[x] = pool[x] /\ x \in DOMAIN pool'
      BY <1>6, <3>2
    <3> QED BY <3>1, <3>3 DEF OnPool
  <2>2. CASE i >= next
    <3>1. CASE i = next
      <4>1. u.at = "process" /\ u.job = i
        <5>1. next <= Len(todo)
          BY <1>3, <3>1
        <5> QED BY <1>5, <3>1, <5>1
      <4>2. t \in DOMAIN pool' /\ pool'[t] = u
        BY <1>6
      <4> QED BY <4>1, <4>2 DEF OnPool
    <3>2. CASE i # next
      BY <1>1, <1>3, <2>2, <3>2
    <3> QED BY <3>1, <3>2
  <2>3. GoodProduct(products[i], tool.opt) \/ i >= next \/ OnPool(i)
    BY <1>2 DEF Computing
  <2> QED BY <2>1, <2>2, <2>3
<1>9. \A i \in 1..Len(todo) : Readable(todo[i])'
  BY <1>1, <1>2 DEF Computing, Readable
<1>10. Computing'
  BY <1>1, <1>2, <1>6, <1>7, <1>8, <1>9 DEF Computing
<1> QED BY <1>1, <1>2, <1>4, <1>10 DEF ToolInv

LEMMA ProcessKeeps ==
  ASSUME OthersLabelled, phase = "files", LinesReadBack, NEW s \in Schedules, FilesOf(s),
         ToolInv, NEW t \in DOMAIN pool, process(t), UNCHANGED <<disk, phase>>
  PROVE  ToolInv'
<1> DEFINE j == pool[t].job
           p == process_window(todo[j], tool.opt)
           a == IF p.error THEN "failed" ELSE "claim"
           u == [pool[t] EXCEPT !.at = a]
<1>1. /\ tool.at = "compute" /\ pool[t].at = "process"
      /\ products' = [products EXCEPT ![j] = p]
      /\ pool' = [pool EXCEPT ![t].at = a]
      /\ UNCHANGED <<tool, todo, next, outIq, outLines, outOff>>
  BY DEF process
<1>2. ToolTypes /\ LinesTell /\ Computing /\ DOMAIN tool = {"at", "opt", "code"}
  BY <1>1 DEF ToolInv
<1>3. /\ j \in 1..Len(todo) /\ DOMAIN pool[t] = {"at", "job"} /\ todo \in Seq(Wanted)
      /\ DOMAIN products = 1..Len(todo) /\ next \in Nat \ {0}
  BY <1>1, <1>2 DEF Computing, PoolThreads, ToolTypes
<1>4. todo[j] \in Wanted /\ Readable(todo[j])
  BY <1>2, <1>3 DEF Computing
<1>5. p = Failed \/ GoodProduct(p, tool.opt)
  BY <1>4, ProcessedGood
<1>6. /\ pool' = [pool EXCEPT ![t] = u]
      /\ u.at = a /\ u.job = j /\ DOMAIN u = {"at", "job"}
  BY <1>1, <1>3
<1>7. a = "failed" \/ (a = "claim" /\ GoodProduct(p, tool.opt))
  <2>1. Failed.error = TRUE
    BY DEF Failed
  <2> HIDE DEF p
  <2>2. p = Failed => a = "failed"
    BY <2>1
  <2>3. GoodProduct(p, tool.opt) => a = "claim"
    BY DEF GoodProduct
  <2> QED BY <1>5, <2>2, <2>3
<1> HIDE DEF u, a, p
<1>8. /\ DOMAIN pool' = DOMAIN pool /\ pool'[t] = u
      /\ \A x \in DOMAIN pool : x # t => pool'[x] = pool[x]
  BY <1>6
<1>9. /\ DOMAIN products' = DOMAIN products /\ products'[j] = p
      /\ \A i \in 1..Len(todo) : i # j => products'[i] = products[i]
  BY <1>1, <1>3
<1>10. ToolTypes' /\ LinesTell'
  BY <1>1, <1>2, <1>3, <1>9, TypesKept
<1>11. PoolThreads'
  <2>1. ASSUME NEW x \in DOMAIN pool
        PROVE  /\ DOMAIN pool'[x] = {"at", "job"}
               /\ pool'[x].at \in {"claim", "process", "failed", "done"}
               /\ pool'[x].at \in {"process", "failed"} => pool'[x].job \in 1..Len(todo)
               /\ pool'[x].at = "done" => next > Len(todo)
    <3>1. CASE x = t
      BY <1>3, <1>6, <1>7, <1>8, <3>1
    <3>2. CASE x # t
      <4>1. pool'[x] = pool[x]
        BY <1>8, <3>2
      <4> QED BY <1>2, <4>1 DEF Computing, PoolThreads
    <3> QED BY <3>1, <3>2
  <2> QED BY <1>1, <1>8, <2>1 DEF PoolThreads
<1>12. ASSUME NEW i \in 1..Len(todo)
       PROVE  GoodProduct(products'[i], tool.opt) \/ i >= next \/ OnPool(i)'
  <2>1. CASE i = j /\ a = "failed"
    <3>1. t \in DOMAIN pool' /\ pool'[t].at = "failed" /\ pool'[t].job = i
      BY <1>6, <1>8, <2>1
    <3> QED BY <3>1 DEF OnPool
  <2>2. CASE i = j /\ a # "failed"
    BY <1>7, <1>9, <2>2
  <2>3. CASE i # j
    <3>1. products'[i] = products[i]
      BY <1>9, <2>3
    <3>2. CASE OnPool(i)
      <4>1. PICK x \in DOMAIN pool : pool[x].at \in {"process", "failed"} /\ pool[x].job = i
        BY <3>2 DEF OnPool
      <4>2. x # t
        BY <2>3, <4>1
      <4>3. pool'[x] = pool[x] /\ x \in DOMAIN pool'
        BY <1>8, <4>2
      <4> QED BY <4>1, <4>3 DEF OnPool
    <3>3. GoodProduct(products[i], tool.opt) \/ i >= next \/ OnPool(i)
      BY <1>2 DEF Computing
    <3> QED BY <3>1, <3>2, <3>3
  <2> QED BY <2>1, <2>2, <2>3
<1>13. \A i \in 1..Len(todo) : Readable(todo[i])'
  BY <1>1, <1>2 DEF Computing, Readable
<1>14. Computing'
  BY <1>1, <1>2, <1>8, <1>11, <1>12, <1>13 DEF Computing
<1> QED BY <1>1, <1>2, <1>10, <1>14 DEF ToolInv

\* The threads are joined: with no error, every line wanted has its product.
LEMMA JoinKeeps ==
  ASSUME ToolInv, join, UNCHANGED <<disk, phase>>
  PROVE  ToolInv'
<1>1. /\ tool.at = "compute" /\ \A t \in DOMAIN pool : pool[t].at \in {"done", "failed"}
      /\ UNCHANGED <<todo, next, pool, products, outIq, outLines, outOff>>
      /\ IF \E t \in DOMAIN pool : pool[t].at = "failed"
           THEN tool' = [tool EXCEPT !.at = "exit", !.code = 2]
           ELSE tool' = [tool EXCEPT !.at = "write"]
  BY DEF join
<1>2. ToolTypes /\ LinesTell /\ Computing /\ DOMAIN tool = {"at", "opt", "code"}
  BY <1>1 DEF ToolInv
<1>3. /\ DOMAIN tool' = {"at", "opt", "code"} /\ tool'.opt = tool.opt
      /\ tool'.at = IF \E t \in DOMAIN pool : pool[t].at = "failed" THEN "exit" ELSE "write"
  BY <1>1, <1>2
<1>4. ToolTypes' /\ LinesTell'
  <2>1. next' \in Nat \ {0}
    BY <1>1, <1>2 DEF ToolTypes
  <2> QED BY <1>1, <1>2, <1>3, <2>1, TypesKept
<1>5. ASSUME tool'.at = "write" PROVE ~Unwritable'
  <2>1. \A t \in DOMAIN pool : pool[t].at = "done"
    BY <1>1, <1>3, <1>5
  <2>2. next > Len(todo)
    BY <1>2, <2>1 DEF Computing, PoolThreads
  <2>3. ASSUME NEW i \in 1..Len(todo) PROVE GoodProduct(products[i], tool.opt)
    <3>1. ~OnPool(i)
      BY <2>1 DEF OnPool
    <3>2. ~(i >= next)
      BY <1>2, <2>2 DEF ToolTypes
    <3> QED BY <1>2, <3>1, <3>2 DEF Computing
  <2> QED BY <1>1, <1>3, <2>3 DEF Unwritable
<1> QED BY <1>3, <1>4, <1>5 DEF ToolInv

LEMMA WriteKeeps ==
  ASSUME ToolInv, write_product, UNCHANGED <<disk, phase>>
  PROVE  ToolInv'
<1> DEFINE n == Len(outLines)
           i == n + 1
           p == products[i]
           e == OutLine(p, outOff)
           t == Append(outLines, e)
           N == Len(todo)
<1>1. /\ tool.at = "write" /\ i <= N /\ outIq' = outIq \o p.rs /\ outLines' = t
      /\ outOff' = outOff + Len(p.rs) /\ products' = [products EXCEPT ![i].rs = <<>>]
      /\ UNCHANGED <<tool, todo, next, pool>>
  BY DEF write_product
<1>2. /\ ToolTypes /\ LinesTell /\ ~Unwritable /\ DOMAIN tool = {"at", "opt", "code"}
  BY <1>1 DEF ToolInv
<1>3. /\ outIq \in Seq(Outputs) /\ outOff = Len(outIq) /\ outLines \in Seq(Range(outLines))
      /\ n \in Nat /\ N \in Nat /\ DOMAIN products = 1..N
  BY <1>2 DEF ToolTypes
<1>4. i \in 1..N /\ i > n /\ n + 1 = i
  BY <1>1, <1>3
<1>5. GoodProduct(p, tool.opt)
  BY <1>2, <1>4 DEF Unwritable
<1>6. p.rs \in Seq(Outputs)
  BY <1>5 DEF GoodProduct
<1>7. LineTells(e, outIq', tool.opt)
  BY <1>1, <1>3, <1>5, OutLineTells
<1>8. /\ t \in Seq(Range(t)) /\ Len(t) = n + 1 /\ DOMAIN outLines = 1..n /\ DOMAIN t = 1..(n + 1)
      /\ (\A k \in 1..n : t[k] = outLines[k]) /\ t[n + 1] = e
  <2> HIDE DEF e
  <2> QED BY <1>3, LineAppended
<1>9. /\ outIq' \in Seq(Outputs) /\ outOff' = Len(outIq')
  <2> DEFINE r == p.rs
  <2> HIDE DEF r
  <2>1. outIq \o r \in Seq(Outputs) /\ Len(outIq \o r) = Len(outIq) + Len(r)
    BY <1>3, <1>6, Joined DEF r
  <2> QED BY <1>1, <1>3, <2>1 DEF r
<1> HIDE DEF e, t, p
<1>10. ToolTypes'
  <2>1. Wanted' = Wanted
    BY FilesStay
  <2>2. DOMAIN products' = DOMAIN products
    BY <1>1
  <2>3. Len(outLines') <= Len(todo')
    BY <1>1, <1>4, <1>8
  <2> QED BY <1>1, <1>2, <1>8, <1>9, <2>1, <2>2, <2>3 DEF ToolTypes
<1>11. LinesTell'
  <2>1. ASSUME NEW k \in 1..(n + 1) PROVE LineTells(t[k], outIq', tool.opt)
    <3>1. CASE k = n + 1
      BY <1>7, <1>8, <3>1
    <3>2. CASE k # n + 1
      <4>1. k \in 1..n
        BY <1>3, <3>2
      <4>2. LineTells(outLines[k], outIq, tool.opt)
        BY <1>2, <1>8, <4>1 DEF LinesTell
      <4> QED BY <1>1, <1>3, <1>6, <1>8, <4>1, <4>2, LineStillTells
    <3> QED BY <3>1, <3>2
  <2> QED BY <1>1, <1>8, <2>1 DEF LinesTell
<1>12. ~Unwritable'
  <2>1. ASSUME NEW k \in 1..N, k > n + 1 PROVE GoodProduct(products'[k], tool.opt)
    <3>1. k # i /\ k > n
      BY <1>3, <2>1
    <3>2. products'[k] = products[k]
      BY <1>1, <1>3, <3>1
    <3> QED BY <1>2, <3>1, <3>2 DEF Unwritable
  <2> QED BY <1>1, <1>8, <2>1 DEF Unwritable
<1> QED BY <1>1, <1>2, <1>10, <1>11, <1>12 DEF ToolInv

LEMMA AllWrittenKeeps ==
  ASSUME ToolInv, all_written, UNCHANGED <<disk, phase>>
  PROVE  ToolInv'
<1>1. /\ tool.at = "write" /\ tool' = [tool EXCEPT !.at = "exit"]
      /\ UNCHANGED <<todo, next, pool, products, outIq, outLines, outOff>>
  BY DEF all_written
<1>2. ToolTypes /\ LinesTell /\ DOMAIN tool = {"at", "opt", "code"}
  BY <1>1 DEF ToolInv
<1>3. DOMAIN tool' = {"at", "opt", "code"} /\ tool'.opt = tool.opt /\ tool'.at = "exit"
  BY <1>1, <1>2
<1>4. ToolTypes' /\ LinesTell'
  <2>1. next' \in Nat \ {0}
    BY <1>1, <1>2 DEF ToolTypes
  <2> QED BY <1>1, <1>2, <1>3, <2>1, TypesKept
<1> QED BY <1>3, <1>4 DEF ToolInv

LEMMA ToolAtStart ==
  Init => ToolInv
<1> SUFFICES ASSUME Init PROVE ToolInv
  OBVIOUS
<1>1. ToolInit
  BY DEF Init
<1> QED BY <1>1 DEF ToolInit, ToolInv, ToolOff

LEMMA ToolNext ==
  ASSUME OthersLabelled
  PROVE  CaptureInv /\ OwnInv /\ ToolInv /\ [Next]_vars => ToolInv'
<1> SUFFICES ASSUME CaptureInv, OwnInv, ToolInv, [Next]_vars PROVE ToolInv'
  OBVIOUS
<1>1. CASE Live
  <2>1. tool.at = "off"
    BY <1>1 DEF ToolInv, ToolTypes, Live
  <2>2. UNCHANGED toolVars
    BY <1>1 DEF Next, Threads, Extractor, ExtractorEnds, Crop, Resampler, WriterHandler, Writer,
       Postprocess, BlockEnds, OtherPublisher, TbStop, AppEnds, Dies, Gone, OutsideExtractor,
       OutsideWriter, Live, vars
  <2> QED BY <2>1, <2>2 DEF ToolInv, ToolOff, toolVars
<1>2. CASE phase = "files"
  <2>1. PICK s \in Schedules : FilesOf(s)
    BY <1>2 DEF OwnInv, FilesOwn
  <2>2. LinesReadBack
    BY DEF CaptureInv
  <2>3. Postprocess \/ UNCHANGED vars
    BY <1>2 DEF Next, Threads, Extractor, ExtractorEnds, Crop, Resampler, WriterHandler, Writer,
       BlockEnds, OtherPublisher, TbStop, AppEnds, Dies, Live
  <2>4. UNCHANGED <<disk, phase>>
    BY <2>3 DEF Postprocess, flowVars, vars
  <2>5. CASE UNCHANGED vars
    BY <2>5 DEF vars, flowVars, toolVars, ToolInv, ToolOff, ToolTypes, LinesTell, Computing,
       PoolThreads, OnPool, Unwritable, Readable, Wanted, Windows
  <2>6. CASE postprocess
    BY <1>2, <2>1, <2>4, <2>6, LoadKeeps
  <2>7. ASSUME NEW t \in DOMAIN pool, claim(t) PROVE ToolInv'
    BY <2>4, <2>7, ClaimKeeps
  <2>8. ASSUME NEW t \in DOMAIN pool, process(t) PROVE ToolInv'
    BY <1>2, <2>1, <2>2, <2>4, <2>8, ProcessKeeps
  <2>9. CASE join
    BY <2>4, <2>9, JoinKeeps
  <2>10. CASE write_product
    BY <2>4, <2>10, WriteKeeps
  <2>11. CASE all_written
    BY <2>4, <2>11, AllWrittenKeeps
  <2> QED BY <2>3, <2>5, <2>6, <2>7, <2>8, <2>9, <2>10, <2>11 DEF Postprocess, Tool, Writing
<1> QED BY <1>1, <1>2 DEF CaptureInv, Live

\* A reader of the tool's files finds the lines to tell what the samples are.
LEMMA ToolTells ==
  ToolInv => \A k \in DOMAIN outLines : LET l == outLines[k] IN
    /\ SamplesAsLabelled(SubSeq(outIq, l.file_offset_samples + 1,
                                l.file_offset_samples + l.sample_count),
                         l.window_start_sample)
    /\ GuardEndsAtPrediction(l, tool.opt.emit = "qm35" /\ l.capture_mode = "")
<1> SUFFICES ASSUME ToolInv, NEW k \in DOMAIN outLines
             PROVE  LET l == outLines[k] IN
                    /\ SamplesAsLabelled(SubSeq(outIq, l.file_offset_samples + 1,
                                                l.file_offset_samples + l.sample_count),
                                         l.window_start_sample)
                    /\ GuardEndsAtPrediction(l, tool.opt.emit = "qm35" /\ l.capture_mode = "")
  OBVIOUS
<1> DEFINE l == outLines[k]
           a == l.file_offset_samples
           n == l.sample_count
           t == SubSeq(outIq, a + 1, a + n)
<1>1. tool.at # "off"
  BY DEF ToolInv, ToolOff
<1>2. outIq \in Seq(Outputs) /\ LineTells(l, outIq, tool.opt)
  BY <1>1 DEF ToolInv, ToolTypes, LinesTell
<1> HIDE DEF l
<1>3. /\ a \in Nat /\ n \in Nat /\ a + n <= Len(outIq)
      /\ \A i \in 1..n : l.window_start_sample + i - 1 = MapOffset(outIq[a + i][1]) + outIq[a + i][2]
      /\ GuardEndsAtPrediction(l, tool.opt.emit = "qm35" /\ l.capture_mode = "")
  BY <1>2 DEF LineTells
<1>4. t = [i \in 1..n |-> outIq[a + i]]
  <2> HIDE DEF a, n
  <2>1. outIq \in Seq(Outputs) /\ a \in Nat /\ n \in Nat /\ a + n <= Len(outIq)
    BY <1>2, <1>3
  <2> QED BY <2>1, Part
<1> HIDE DEF a, n, t
<1>5. SamplesAsLabelled(t, l.window_start_sample)
  BY <1>3, <1>4 DEF SamplesAsLabelled
<1> QED BY <1>3, <1>5 DEF l, t, a, n

\* Every packet of the demodulator's queue, and every line of the tool's, says which
\* outputs of the filter its samples are, and where the guard was to end at the
\* predicted start, it does.  The filter has at least a tap per arm, as the code's
\* has; and the packets of a capture are numbered by one counter.
THEOREM ProductsNameTheirWindows ==
  ASSUME T >= L, OthersLabelled
  PROVE  Spec => []ProductsNameWindows
<1> DEFINE Inv == CaptureInv /\ OwnInv /\ ToolInv
<1>1. Init => Inv
  BY CaptureInit, OwnAtStart, ToolAtStart
<1>2. Inv /\ [Next]_vars => Inv'
  BY CaptureStep, OwnNext, ToolNext
<1>3. Inv => ProductsNameWindows
  <2> SUFFICES ASSUME CaptureInv, OwnInv, ToolInv PROVE ProductsNameWindows
    OBVIOUS
  <2>1. PacketsNameWindows
    <3>1. CASE Live
      BY <3>1, QueuedAsLabelled DEF CaptureInv, ChainGood
    <3>2. CASE phase = "files"
      BY <3>2 DEF OwnInv, QueueGone, PacketsNameWindows
    <3> QED BY <3>1, <3>2 DEF CaptureInv, Live
  <2> QED BY <2>1, ToolTells DEF ProductsNameWindows, PacketsNameWindows
<1> QED BY <1>1, <1>2, <1>3, PTL DEF Spec

=============================================================================
