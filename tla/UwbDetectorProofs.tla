------------------------- MODULE UwbDetectorProofs -------------------------
(***************************************************************************)
(* The detectors' regions, for any signal, any chunks, any sizes of gate,  *)
(* history, capture and pool: every opening of the gate is accounted for,  *)
(* and a finished region is the unbroken stream from its trigger on.       *)
(*                                                                         *)
(* The state machine's methods are functions of its record, so there is    *)
(* one lemma per method.  What the energy gate decides plays no part: the  *)
(* regions are whole whenever it opens and closes.                         *)
(***************************************************************************)
EXTENDS DetectorBlocks, TLAPS

-----------------------------------------------------------------------------
(* Queues: sequences without repetitions that are pushed at one end and      *)
(* popped at the other.                                                      *)

\* What Append does to the elements of a sequence without repetitions.
LEMMA AppendRange ==
  ASSUME NEW S, NEW s \in Seq(S), NEW e \in S, e \notin Range(s),
         \A i, j \in DOMAIN s : i # j => s[i] # s[j]
  PROVE  /\ Append(s, e) \in Seq(S)
         /\ Range(Append(s, e)) = Range(s) \cup {e}
         /\ \A i, j \in DOMAIN Append(s, e) : i # j => Append(s, e)[i] # Append(s, e)[j]
<1> DEFINE t == Append(s, e)
<1>1. t \in Seq(S) /\ Len(t) = Len(s) + 1 /\ DOMAIN t = 1..(Len(s) + 1)
  OBVIOUS
<1>2. DOMAIN s = 1..Len(s) /\ Len(s) \in Nat
  OBVIOUS
<1>3. \A i \in 1..Len(s) : t[i] = s[i]
  OBVIOUS
<1>4. t[Len(s) + 1] = e
  OBVIOUS
<1>5. Range(t) = Range(s) \cup {e}
  <2>1. Range(t) \subseteq Range(s) \cup {e}
    BY <1>1, <1>2, <1>3, <1>4 DEF Range
  <2>2. Range(s) \subseteq Range(t)
    BY <1>1, <1>2, <1>3 DEF Range
  <2>3. e \in Range(t)
    BY <1>1, <1>2, <1>4 DEF Range
  <2> QED BY <2>1, <2>2, <2>3
<1>6. \A i \in 1..Len(s) : s[i] # e
  BY <1>2 DEF Range
<1>7. \A i, j \in DOMAIN t : i # j => t[i] # t[j]
  BY <1>1, <1>2, <1>3, <1>4, <1>6
<1> QED BY <1>1, <1>5, <1>7

\* What Tail does to them.
LEMMA TailRange ==
  ASSUME NEW S, NEW s \in Seq(S), s # <<>>,
         \A i, j \in DOMAIN s : i # j => s[i] # s[j]
  PROVE  /\ Tail(s) \in Seq(S) /\ Head(s) \in Range(s) /\ Range(s) \subseteq S
         /\ Range(Tail(s)) = Range(s) \ {Head(s)}
         /\ \A i, j \in DOMAIN Tail(s) : i # j => Tail(s)[i] # Tail(s)[j]
<1> DEFINE t == Tail(s)
<1>1. t \in Seq(S) /\ DOMAIN t = 1..(Len(s) - 1) /\ Len(s) \in Nat \ {0}
  OBVIOUS
<1>2. DOMAIN s = 1..Len(s) /\ Head(s) = s[1]
  OBVIOUS
<1>3. \A i \in 1..(Len(s) - 1) : t[i] = s[i + 1]
  OBVIOUS
<1>4. Head(s) \in Range(s) /\ Range(s) \subseteq S
  BY <1>1, <1>2 DEF Range
<1>5. Range(t) \subseteq Range(s) \ {Head(s)}
  <2> SUFFICES ASSUME NEW i \in DOMAIN t PROVE t[i] \in Range(s) /\ t[i] # s[1]
    BY <1>2 DEF Range
  <2>1. i + 1 \in DOMAIN s /\ i + 1 # 1 /\ t[i] = s[i + 1] /\ 1 \in DOMAIN s
    BY <1>1, <1>2, <1>3
  <2> QED BY <2>1 DEF Range
<1>6. Range(s) \ {Head(s)} \subseteq Range(t)
  <2> SUFFICES ASSUME NEW i \in DOMAIN s, s[i] # s[1] PROVE s[i] \in Range(t)
    BY <1>2 DEF Range
  <2>1. i - 1 \in 1..(Len(s) - 1) /\ i = (i - 1) + 1
    BY <1>1, <1>2
  <2>2. t[i - 1] = s[i]
    BY <2>1, <1>3
  <2> QED BY <2>1, <2>2, <1>1 DEF Range
<1>7. \A i, j \in DOMAIN t : i # j => t[i] # t[j]
  BY <1>1, <1>2, <1>3
<1> QED BY <1>1, <1>4, <1>5, <1>6, <1>7

\* Two sequences end to end, and one more element at the end of both.
LEMMA ConcatSeq ==
  ASSUME NEW S, NEW s \in Seq(S), NEW t \in Seq(S)
  PROVE  /\ s \o t \in Seq(S) /\ Len(s \o t) = Len(s) + Len(t)
         /\ \A i \in 1..(Len(s) + Len(t)) :
              (s \o t)[i] = IF i <= Len(s) THEN s[i] ELSE t[i - Len(s)]
  OBVIOUS

LEMMA ConcatAppend ==
  ASSUME NEW S, NEW s \in Seq(S), NEW t \in Seq(S), NEW e \in S
  PROVE  s \o Append(t, e) = Append(s \o t, e)
  OBVIOUS

LEMMA ConcatThree ==
  ASSUME NEW S, NEW s \in Seq(S), NEW t \in Seq(S), NEW u \in Seq(S)
  PROVE  (s \o t) \o u = s \o (t \o u)
  OBVIOUS

LEMMA ConcatEmpty ==
  ASSUME NEW S, NEW s \in Seq(S)
  PROVE  s \o <<>> = s /\ <<>> \o s = s /\ <<>> \in Seq(S)
  OBVIOUS

LEMMA ConcatHead ==
  ASSUME NEW S, NEW s \in Seq(S), NEW e \in S
  PROVE  LET t == <<e>> \o s IN
           /\ <<e>> \in Seq(S) /\ t # <<>> /\ Head(t) = e /\ Tail(t) = s
  OBVIOUS

LEMMA HeadTail ==
  ASSUME NEW S, NEW s \in Seq(S), s # <<>>
  PROVE  Head(s) \in S /\ Tail(s) \in Seq(S) /\ s = <<Head(s)>> \o Tail(s)
  OBVIOUS

-----------------------------------------------------------------------------
\* What a slot of d_region_pool_ holds.
Region == [start : Nat, offset : Nat, samples : Seq(Int), flushed : BOOLEAN]

\* The state machine's fields; the gate's sums are whatever they are.
Machine(m) ==
  m \in [state : {"Search", "InRegion", "Capture"}, low : Nat, phase : 0..(D - 1),
         end : Int, gate : {m.gate}, active : Handle \cup {kInvalid},
         free : SUBSET Handle, ready : Seq(Handle), dropped : Nat,
         region : [Handle -> Region]]

\* The samples of a region from its trigger on are consecutive positions, the
\* first of them t.
Consecutive(r, t) ==
  /\ r.offset = History - 1 /\ History <= Len(r.samples)
  /\ \A k \in History..Len(r.samples) : r.samples[k] = t + (k - History)

Finished(r) ==
  /\ Consecutive(r, r.samples[History])
  /\ r.flushed \/ Len(r.samples) >= History + Capture

\* A region that is being copied reaches to the position p, and its capture
\* ends at m.end.
Growing(m, p) ==
  LET r == m.region[m.active] IN
    /\ Consecutive(r, m.end - Capture - 1)
    /\ m.end - Capture <= p /\ Len(r.samples) = History + (p - (m.end - Capture))

\* The slots: none is in two places.  q is what lies between the machine and
\* the publisher, the jobs.
Disjoint(m, q) ==
  /\ q \in Seq(Handle)
  /\ \A i, j \in DOMAIN (q \o m.ready) : i # j => (q \o m.ready)[i] # (q \o m.ready)[j]
  /\ Range(q \o m.ready) \cap m.free = {}
  /\ m.active \notin m.free /\ m.active \notin Range(q \o m.ready)

\* The machine at the position p of the stream, c openings of the gate not yet
\* published.
MachineInv(m, q, p, c) ==
  /\ Machine(m)
  /\ Disjoint(m, q)
  /\ \A h \in Range(q \o m.ready) : Finished(m.region[h])
  /\ m.active # kInvalid => Growing(m, p)
  /\ m.state = "Search" => m.active = kInvalid
  /\ c = m.dropped + Len(q \o m.ready) + IF m.active = kInvalid THEN 0 ELSE 1

\* The block's and the worker's threads.
ThreadsInv ==
  /\ pos \in Nat /\ left \in Nat
  /\ ring \in Seq(Int) /\ Len(ring) = History
  /\ pc \in {"idle", "process", "last", "drain", "join", "stopped"}
  /\ jobs \in Seq(Handle)
  /\ worker \in [at : {"wait", "publish", "done", "exit"}, handle : Handle \cup {kInvalid}]
  /\ worker.at = "publish" => worker.handle \in Handle
  /\ worker.at = "exit" => jobs = <<>> /\ pc \in {"join", "stopped"}
  /\ stopping <=> pc \in {"join", "stopped"}
  /\ pc = "stopped" => worker.at = "exit"
  /\ crossings \in Nat /\ published \in Nat

\* A capture has something left to copy.
CaptureAhead == sm.state = "Capture" => pos < sm.end

DetectorInv ==
  /\ ThreadsInv
  /\ MachineInv(sm, AtWorker \o jobs, pos, crossings - published)
  /\ CaptureAhead

-----------------------------------------------------------------------------
LEMMA Sizes ==
  /\ D \in Nat \ {0} /\ Capture \in Nat \ {0} /\ PreTrigger \in Nat
  /\ History \in Nat \ {0} /\ kInvalid \notin Handle
<1>1. Template \in Seq(Int) /\ Template # <<>>
  BY SearchAssumption
<1>2. template_len \in Nat \ {0}
  BY <1>1 DEF template_len
<1>3. D \in Nat \ {0} /\ GateWindow \in Nat \ {0} /\ Capture \in Nat \ {0}
      /\ PreTrigger \in Nat /\ kInvalid \notin Handle
      /\ History = PreTrigger + GateWindow * D + template_len
  BY DetectorAssumption
<1>4. GateWindow * D \in Nat
  BY <1>3
<1> QED BY <1>2, <1>3, <1>4

(* A change of the gate's state, of the counters or of the name of the     *)
(* state alone leaves the regions as they were.                            *)
LEMMA SameRegions ==
  ASSUME NEW m, NEW w, NEW q, NEW p, NEW c, MachineInv(m, q, p, c), Machine(w),
         w.end = m.end, w.active = m.active, w.free = m.free, w.ready = m.ready,
         w.dropped = m.dropped, w.region = m.region,
         w.state = "Search" => w.active = kInvalid
  PROVE  MachineInv(w, q, p, c)
<1>1. Disjoint(w, q)
  BY DEF MachineInv, Disjoint
<1>2. w.active # kInvalid => Growing(w, p)
  BY DEF MachineInv, Growing
<1> QED BY <1>1, <1>2 DEF MachineInv

(* The gate.                                                               *)
LEMMA FedFrame ==
  ASSUME NEW m, NEW n \in Nat, Machine(m)
  PROVE  LET w == Fed(m, n) IN
           /\ Machine(w) /\ w.state = m.state /\ w.low = m.low
           /\ w.end = m.end /\ w.active = m.active /\ w.free = m.free
           /\ w.ready = m.ready /\ w.dropped = m.dropped /\ w.region = m.region
<1> DEFINE e == Energy(Received(Taken(Lesser(n, Less(NeighLen, m.phase)))))
           a == [m EXCEPT !.gate = [m.gate EXCEPT !.acc = @ + e]]
           x == (m.phase + n) % D
           f == [a EXCEPT !.phase = x]
           g == IF CompletesBlock(m, n) THEN [f EXCEPT !.gate = finish_block(f.gate)] ELSE f
<1>1. a = accumulate(m, n)
  BY DEF accumulate, Machine
<1>2. x \in 0..(D - 1)
  BY Sizes DEF Machine
<1>3. f = [accumulate(m, n) EXCEPT !.phase = (@ + n) % D]
  <2>1. a.phase = m.phase
    BY DEF Machine
  <2> QED BY <1>1, <2>1
<1> HIDE DEF e, x
<1>4. /\ Machine(a) /\ a.state = m.state /\ a.low = m.low /\ a.end = m.end
      /\ a.active = m.active /\ a.free = m.free /\ a.ready = m.ready
      /\ a.dropped = m.dropped /\ a.region = m.region
  BY DEF Machine
<1> HIDE DEF a
<1>5. /\ Machine(f) /\ f.state = m.state /\ f.low = m.low /\ f.end = m.end
      /\ f.active = m.active /\ f.free = m.free /\ f.ready = m.ready
      /\ f.dropped = m.dropped /\ f.region = m.region
  BY <1>2, <1>4 DEF Machine
<1> HIDE DEF f
<1>6. /\ Machine(g) /\ g.state = m.state /\ g.low = m.low /\ g.end = m.end
      /\ g.active = m.active /\ g.free = m.free /\ g.ready = m.ready
      /\ g.dropped = m.dropped /\ g.region = m.region
  BY <1>5 DEF Machine
<1>7. g = Fed(m, n)
  BY <1>3 DEF Fed
<1> HIDE DEF g
<1> QED BY <1>6, <1>7

LEMMA FedKeeps ==
  ASSUME NEW m, NEW n \in Nat, NEW q, NEW p, NEW c, MachineInv(m, q, p, c)
  PROVE  MachineInv(Fed(m, n), q, p, c)
<1>1. Machine(m) /\ (m.state = "Search" => m.active = kInvalid)
  BY DEF MachineInv
<1> QED BY <1>1, FedFrame, SameRegions

(* The samples the machine is given.                                       *)
LEMMA TakenSamples ==
  ASSUME pos \in Nat, NEW n \in Nat
  PROVE  /\ Taken(n) \in Seq(Int) /\ Len(Taken(n)) = n
         /\ \A i \in 1..n : Taken(n)[i] = pos + i - 1
<1>1. \A i \in 1..n : pos + i - 1 \in Int
  OBVIOUS
<1> QED BY <1>1 DEF Taken

LEMMA EmptyRegion == NoRegion \in Region
<1>1. <<>> \in Seq(Int)
  OBVIOUS
<1> QED BY <1>1 DEF NoRegion, Region

\* The next n samples appended to a growing region.
LEMMA GrownRegion ==
  ASSUME pos \in Nat, NEW n \in Nat, NEW r \in Region, NEW t \in Int, Consecutive(r, t),
         t + 1 <= pos, Len(r.samples) = History + (pos - (t + 1))
  PROVE  LET w == [r EXCEPT !.samples = @ \o Taken(n)] IN
           /\ w \in Region /\ w.flushed = r.flushed /\ Consecutive(w, t)
           /\ Len(w.samples) = History + (pos + n - (t + 1))
<1> DEFINE s == r.samples
           v == Taken(n)
           u == s \o v
           w == [r EXCEPT !.samples = u]
<1>1. s \in Seq(Int) /\ Len(s) \in Nat /\ v \in Seq(Int) /\ Len(v) = n
  BY TakenSamples DEF Region
<1> HIDE DEF v
<1>2. u \in Seq(Int) /\ Len(u) = Len(s) + n
  BY <1>1, ConcatSeq
<1>3. \A k \in 1..(Len(s) + n) : u[k] = IF k <= Len(s) THEN s[k] ELSE v[k - Len(s)]
  BY <1>1, ConcatSeq
<1> HIDE DEF u
<1>4. w \in Region /\ w.samples = u /\ w.offset = r.offset /\ w.flushed = r.flushed
  BY <1>2 DEF Region
<1>5. ASSUME NEW k \in History..Len(u) PROVE u[k] = t + (k - History)
  <2>1. k \in Int /\ k \in 1..(Len(s) + n)
    BY <1>1, <1>2, Sizes
  <2>2. CASE k <= Len(s)
    BY <1>3, <2>1, <2>2, Sizes DEF Consecutive
  <2>3. CASE ~(k <= Len(s))
    <3>1. k - Len(s) \in 1..n /\ u[k] = v[k - Len(s)]
      BY <1>1, <1>3, <2>1, <2>3, SMTT(30)
    <3>2. u[k] = pos + (k - Len(s)) - 1
      BY <3>1, TakenSamples DEF v
    <3> QED BY <1>1, <2>1, <3>2, Sizes
  <2> QED BY <2>2, <2>3
<1> HIDE DEF w
<1>6. Consecutive(w, t)
  BY <1>1, <1>2, <1>4, <1>5, Sizes, SMTT(30) DEF Consecutive
<1>7. Len(w.samples) = History + (pos + n - (t + 1))
  BY <1>1, <1>2, <1>4, Sizes
<1> QED BY <1>4, <1>6, <1>7 DEF w, u, v

LEMMA KeepKeeps ==
  ASSUME NEW m, NEW n \in Nat, NEW q, NEW c, pos \in Nat, MachineInv(m, q, pos, c)
  PROVE  LET w == Keep(m, n) IN
           /\ MachineInv(w, q, pos + n, c)
           /\ w.state = m.state /\ w.phase = m.phase /\ w.low = m.low /\ w.end = m.end
<1>1. Machine(m) /\ Disjoint(m, q)
  BY DEF MachineInv
<1>2. CASE m.active = kInvalid
  <2>1. Keep(m, n) = m
    BY <1>2 DEF Keep
  <2> QED BY <1>2, <2>1 DEF MachineInv
<1>3. CASE m.active # kInvalid /\ Overflows(m, n)
  <2> DEFINE h == m.active
             x == [m EXCEPT !.free = m.free \cup {h}, !.region = [m.region EXCEPT ![h] = NoRegion]]
             w == [x EXCEPT !.active = kInvalid, !.dropped = m.dropped + 1]
  <2>1. Keep(m, n) = w
    <3>1. x = release_region(m, h)
      BY DEF release_region
    <3>2. x.dropped = m.dropped
      BY <1>1 DEF Machine
    <3> QED BY <1>3, <3>1, <3>2 DEF Keep, GiveUp
  <2>2. h \in Handle /\ h \notin Range(q \o m.ready) /\ m.dropped + 1 \in Nat
    BY <1>1, <1>3 DEF Machine, Disjoint
  <2>3. /\ Machine(x) /\ x.free = m.free \cup {h} /\ x.ready = m.ready
        /\ x.region = [m.region EXCEPT ![h] = NoRegion] /\ x.state = m.state
        /\ x.phase = m.phase /\ x.low = m.low /\ x.end = m.end
    BY <1>1, <2>2, EmptyRegion DEF Machine
  <2> HIDE DEF x
  <2>4. /\ Machine(w) /\ w.free = m.free \cup {h} /\ w.ready = m.ready
        /\ w.region = [m.region EXCEPT ![h] = NoRegion] /\ w.state = m.state
        /\ w.phase = m.phase /\ w.low = m.low /\ w.end = m.end
        /\ w.active = kInvalid /\ w.dropped = m.dropped + 1
    BY <2>2, <2>3 DEF Machine
  <2> HIDE DEF w
  <2>5. Range(q \o m.ready) \subseteq Handle
    <3>1. q \o m.ready \in Seq(Handle)
      BY <1>1 DEF Machine, Disjoint
    <3> QED BY <3>1 DEF Range
  <2>6. Disjoint(w, q)
    <3>1. kInvalid \notin w.free /\ kInvalid \notin Range(q \o m.ready)
      BY <1>1, <2>2, <2>4, <2>5, Sizes DEF Machine
    <3> QED BY <1>1, <2>2, <2>4, <3>1 DEF Disjoint
  <2>7. ASSUME NEW g \in Range(q \o m.ready) PROVE w.region[g] = m.region[g]
    BY <1>1, <2>2, <2>4, <2>5 DEF Machine
  <2>8. m.dropped \in Nat /\ Len(q \o m.ready) \in Nat
    BY <1>1 DEF Machine, Disjoint
  <2> HIDE DEF h
  <2>9. MachineInv(w, q, pos + n, c)
    BY <1>3, <2>4, <2>6, <2>7, <2>8 DEF MachineInv
  <2> QED BY <2>1, <2>4, <2>9
<1>4. CASE m.active # kInvalid /\ ~Overflows(m, n)
  <2> DEFINE h == m.active
             r == m.region[h]
             s == [r EXCEPT !.samples = @ \o Taken(n)]
             w == [m EXCEPT !.region = [m.region EXCEPT ![h] = s]]
             t == m.end - Capture - 1
  <2>1. Keep(m, n) = w
    BY <1>4 DEF Keep
  <2>2. h \in Handle /\ r \in Region /\ m.end \in Int /\ h \notin Range(q \o m.ready)
    BY <1>1, <1>4 DEF Machine, Disjoint
  <2>3. Growing(m, pos)
    BY <1>4 DEF MachineInv
  <2>4. /\ t \in Int /\ Consecutive(r, t) /\ t + 1 <= pos
        /\ Len(r.samples) = History + (pos - (t + 1))
    BY <2>2, <2>3, Sizes DEF Growing
  <2>5. s \in Region /\ Consecutive(s, t) /\ Len(s.samples) = History + (pos + n - (t + 1))
    <3> HIDE DEF r, t
    <3> QED BY <2>2, <2>4, GrownRegion
  <2> HIDE DEF s
  <2>6. /\ Machine(w) /\ w.free = m.free /\ w.ready = m.ready /\ w.active = m.active
        /\ w.region = [m.region EXCEPT ![h] = s] /\ w.state = m.state
        /\ w.phase = m.phase /\ w.low = m.low /\ w.end = m.end /\ w.dropped = m.dropped
    BY <1>1, <2>2, <2>5 DEF Machine
  <2> HIDE DEF w
  <2>7. Disjoint(w, q)
    BY <1>1, <2>6 DEF Disjoint
  <2>8. w.region[h] = s /\ \A g \in Handle \ {h} : w.region[g] = m.region[g]
    BY <1>1, <2>2, <2>6 DEF Machine
  <2>9. Range(q \o m.ready) \subseteq Handle
    <3>1. q \o m.ready \in Seq(Handle)
      BY <1>1 DEF Machine, Disjoint
    <3> QED BY <3>1 DEF Range
  <2>10. Growing(w, pos + n)
    <3> DEFINE x == m.end - Capture
    <3>1. t + 1 = x /\ x \in Int
      BY <2>2, Sizes
    <3>2. Len(s.samples) = History + ((pos + n) - x) /\ x <= pos + n
      <4> HIDE DEF t, x
      <4>1. pos + n - (t + 1) = (pos + n) - x
        BY <2>4, <3>1
      <4>2. t + 1 <= pos + n
        BY <2>4
      <4> QED BY <2>5, <3>1, <4>1, <4>2
    <3> QED BY <2>5, <2>6, <2>8, <3>2 DEF Growing
  <2>11. \A g \in Range(q \o w.ready) : Finished(w.region[g])
    BY <2>2, <2>6, <2>8, <2>9 DEF MachineInv
  <2>12. MachineInv(w, q, pos + n, c)
    BY <1>4, <2>6, <2>7, <2>10, <2>11 DEF MachineInv
  <2> QED BY <2>1, <2>6, <2>12
<1> QED BY <1>2, <1>3, <1>4

-----------------------------------------------------------------------------
(* A region is over.                                                       *)

LEMMA Queued ==
  ASSUME NEW m, NEW q, Machine(m), Disjoint(m, q)
  PROVE  /\ q \o m.ready \in Seq(Handle) /\ q \in Seq(Handle) /\ m.ready \in Seq(Handle)
         /\ Range(q \o m.ready) \subseteq Handle /\ Len(q \o m.ready) \in Nat
<1>1. q \in Seq(Handle) /\ m.ready \in Seq(Handle)
  BY DEF Machine, Disjoint
<1>2. q \o m.ready \in Seq(Handle)
  BY <1>1
<1> QED BY <1>1, <1>2 DEF Range

\* A region that reaches to the end of its capture, or was flushed, is finished.
LEMMA GrownFinished ==
  ASSUME NEW m, NEW p \in Int, Machine(m), m.active \in Handle, Growing(m, p),
         p >= m.end \/ m.region[m.active].flushed
  PROVE  Finished(m.region[m.active])
<1> DEFINE r == m.region[m.active]
           t == m.end - Capture - 1
<1>1. r \in Region /\ m.end \in Int
  BY DEF Machine
<1>2. Consecutive(r, t) /\ Len(r.samples) = History + (p - (m.end - Capture)) /\ t \in Int
  BY <1>1, Sizes DEF Growing
<1>3. Len(r.samples) \in Nat
  BY <1>1 DEF Region
<1> HIDE DEF r, t
<1>4. r.samples[History] = t
  <2>1. History \in History..Len(r.samples)
    BY <1>2, <1>3, Sizes DEF Consecutive
  <2>2. r.samples[History] = t + (History - History)
    BY <1>2, <2>1 DEF Consecutive
  <2> QED BY <1>2, <2>2, Sizes
<1>5. Consecutive(r, r.samples[History])
  BY <1>2, <1>4
<1>6. p >= m.end => Len(r.samples) >= History + Capture
  BY <1>1, <1>2, Sizes
<1> QED BY <1>5, <1>6 DEF Finished, r

LEMMA FinishKeeps ==
  ASSUME NEW m, NEW q, NEW p \in Int, NEW c, MachineInv(m, q, p, c),
         m.active # kInvalid => p >= m.end \/ m.region[m.active].flushed
  PROVE  LET w == finish_region(m) IN
           /\ MachineInv(w, q, p, c) /\ w.active = kInvalid /\ w.state = m.state
<1>1. Machine(m) /\ Disjoint(m, q)
  BY DEF MachineInv
<1>2. CASE m.active = kInvalid
  BY <1>2 DEF finish_region
<1>3. CASE m.active # kInvalid
  <2> DEFINE h == m.active
             out == q \o m.ready
             ready == Append(m.ready, h)
             w == [[m EXCEPT !.ready = ready] EXCEPT !.active = kInvalid]
  <2>1. w = finish_region(m)
    BY <1>3 DEF finish_region
  <2>2. h \in Handle /\ h \notin Range(out) /\ h \notin m.free /\ out \in Seq(Handle)
        /\ Range(out) \subseteq Handle /\ q \in Seq(Handle) /\ m.ready \in Seq(Handle)
    BY <1>1, <1>3, Queued DEF Machine, Disjoint
  <2>3. q \o ready = Append(out, h) /\ ready \in Seq(Handle)
    BY <2>2, ConcatAppend
  <2>4. Finished(m.region[h])
    BY <1>1, <1>3, <2>2, GrownFinished DEF MachineInv
  <2> HIDE DEF h, ready
  <2>5. /\ Machine(w) /\ w.free = m.free /\ w.ready = ready /\ w.active = kInvalid
        /\ w.region = m.region /\ w.state = m.state /\ w.dropped = m.dropped
    BY <1>1, <2>3 DEF Machine
  <2> HIDE DEF w
  <2>6. /\ Range(Append(out, h)) = Range(out) \cup {h} /\ Append(out, h) \in Seq(Handle)
        /\ \A i, j \in DOMAIN Append(out, h) : i # j => Append(out, h)[i] # Append(out, h)[j]
    <3> HIDE DEF out
    <3>1. \A i, j \in DOMAIN out : i # j => out[i] # out[j]
      BY <1>1 DEF Disjoint, out
    <3> QED BY <2>2, <3>1, AppendRange
  <2>7. Disjoint(w, q)
    <3>1. kInvalid \notin Range(out) \cup {h} /\ kInvalid \notin w.free
      BY <2>2, <2>5, Sizes DEF Machine
    <3>2. (Range(out) \cup {h}) \cap w.free = {}
      BY <1>1, <2>2, <2>5 DEF Disjoint
    <3> QED BY <2>2, <2>3, <2>5, <2>6, <3>1, <3>2 DEF Disjoint
  <2>8. \A g \in Range(q \o w.ready) : Finished(w.region[g])
    BY <2>3, <2>4, <2>5, <2>6 DEF MachineInv
  <2>9. Len(Append(out, h)) = Len(out) + 1 /\ Len(out) \in Nat /\ m.dropped \in Nat
    BY <1>1, <2>2 DEF Machine
  <2>10. c = w.dropped + Len(q \o w.ready) + IF w.active = kInvalid THEN 0 ELSE 1
    <3>1. c = m.dropped + Len(out) + 1
      BY <1>3 DEF MachineInv
    <3>2. Len(q \o w.ready) = Len(out) + 1 /\ w.active = kInvalid /\ w.dropped = m.dropped
      BY <2>3, <2>5, <2>9
    <3> DEFINE x == Len(out)
               y == Len(q \o w.ready)
    <3>3. y = x + 1 /\ c = m.dropped + x + 1 /\ x \in Nat /\ m.dropped \in Nat
      BY <2>9, <3>1, <3>2
    <3> HIDE DEF x, y
    <3>4. c = w.dropped + y + 0
      BY <3>2, <3>3
    <3> QED BY <3>2, <3>4 DEF y
  <2>11. MachineInv(w, q, p, c)
    BY <2>5, <2>7, <2>8, <2>10 DEF MachineInv
  <2> QED BY <2>1, <2>5, <2>11
<1> QED BY <1>2, <1>3

\* Then the search begins again.
Searching(m) == [finish_region(m) EXCEPT !.state = "Search", !.low = 0]
Captured(m) == [finish_region(m) EXCEPT !.state = "Search"]

LEMMA SearchKeeps ==
  ASSUME NEW m, NEW q, NEW p \in Int, NEW c, MachineInv(m, q, p, c),
         m.active # kInvalid => p >= m.end \/ m.region[m.active].flushed
  PROVE  /\ MachineInv(Captured(m), q, p, c) /\ Captured(m).state = "Search"
         /\ MachineInv(Searching(m), q, p, c) /\ Searching(m).state = "Search"
<1> DEFINE f == finish_region(m)
           s == "Search"
           z == 0
           w == [f EXCEPT !.state = s]
           v == [w EXCEPT !.low = z]
<1>1. MachineInv(f, q, p, c) /\ f.active = kInvalid
  BY FinishKeeps
<1>2. v = Searching(m) /\ w = Captured(m)
  BY DEF Searching, Captured
<1>3. Machine(f) /\ s \in {"Search", "InRegion", "Capture"} /\ z \in Nat
  BY <1>1 DEF MachineInv
<1> HIDE DEF f, s, z
<1>4. /\ Machine(w) /\ w.end = f.end /\ w.active = f.active /\ w.free = f.free
      /\ w.ready = f.ready /\ w.dropped = f.dropped /\ w.region = f.region
      /\ w.state = s
  BY <1>3 DEF Machine
<1> HIDE DEF w
<1>5. /\ Machine(v) /\ v.end = f.end /\ v.active = f.active /\ v.free = f.free
      /\ v.ready = f.ready /\ v.dropped = f.dropped /\ v.region = f.region
      /\ v.state = s
  BY <1>3, <1>4 DEF Machine
<1> HIDE DEF v
<1>6. MachineInv(w, q, p, c) /\ MachineInv(v, q, p, c)
  BY <1>1, <1>4, <1>5, SameRegions
<1> QED BY <1>2, <1>4, <1>5, <1>6 DEF f, s

-----------------------------------------------------------------------------
(* The gate opens; the samples of the ring end at the trigger.             *)

LEMMA OpenedRegion ==
  ASSUME NEW history \in Seq(Int), Len(history) = History, NEW at \in Nat,
         history[History] = at, NEW begin \in Nat
  PROVE  LET r == [start |-> begin, offset |-> History - 1, samples |-> history,
                   flushed |-> FALSE]
         IN  r \in Region /\ Consecutive(r, at) /\ Len(r.samples) = History
<1> DEFINE no == FALSE
           r == [start |-> begin, offset |-> History - 1, samples |-> history, flushed |-> no]
<1>1. History - 1 \in Nat /\ no \in BOOLEAN
  BY Sizes
<1> HIDE DEF no
<1>2. r \in Region /\ r.offset = History - 1 /\ r.samples = history
  BY <1>1 DEF Region
<1> HIDE DEF r
<1>3. \A k \in History..Len(history) : history[k] = at + (k - History)
  <2> SUFFICES ASSUME NEW k \in History..Len(history) PROVE history[k] = at + (k - History)
    OBVIOUS
  <2>1. k = History
    BY Sizes
  <2> QED BY <2>1, Sizes
<1>4. Consecutive(r, at)
  BY <1>2, <1>3, Sizes DEF Consecutive
<1> QED BY <1>2, <1>4 DEF r, no

LEMMA OpenKeeps ==
  ASSUME NEW m, NEW q, NEW p, NEW c, MachineInv(m, q, p, c), m.active = kInvalid,
         NEW h \in Acquired(m), NEW at \in Nat,
         NEW history \in Seq(Int), Len(history) = History, history[History] = at
  PROVE  LET w == Open(m, h, history, at) IN
           MachineInv(w, q, at + 1, c + 1) /\ w.state = "InRegion"
<1>1. Machine(m) /\ Disjoint(m, q)
  BY DEF MachineInv
<1> DEFINE out == q \o m.ready
           s == "InRegion"
           z == 0
           opened == [[m EXCEPT !.state = s] EXCEPT !.low = z]
<1>2. s \in {"Search", "InRegion", "Capture"} /\ z \in Nat /\ s # "Search"
  OBVIOUS
<1>3. opened = [m EXCEPT !.state = "InRegion", !.low = 0]
  OBVIOUS
<1>4. /\ out \in Seq(Handle) /\ Range(out) \subseteq Handle
      /\ Len(out) \in Nat /\ m.dropped \in Nat /\ m.free \subseteq Handle
  BY <1>1, Queued DEF Machine
<1>5. c = m.dropped + Len(out)
  <2>1. c = m.dropped + Len(out) + 0
    BY DEF MachineInv
  <2> HIDE DEF out
  <2> QED BY <1>4, <2>1
<1> HIDE DEF s, z
<1>6. /\ Machine(opened) /\ opened.free = m.free /\ opened.ready = m.ready
      /\ opened.active = m.active /\ opened.region = m.region /\ opened.state = s
      /\ opened.dropped = m.dropped /\ opened.end = m.end
  BY <1>1, <1>2 DEF Machine
<1> HIDE DEF opened
<1>7. CASE h = kInvalid
  <2> DEFINE d == m.dropped + 1
             w == [opened EXCEPT !.dropped = d]
  <2>1. w = Open(m, h, history, at)
    BY <1>3, <1>6, <1>7 DEF Open, NoSlot
  <2>2. d \in Nat
    BY <1>4
  <2> HIDE DEF d
  <2>3. /\ Machine(w) /\ w.free = m.free /\ w.ready = m.ready /\ w.active = kInvalid
        /\ w.region = m.region /\ w.state = s /\ w.dropped = d
    BY <1>6, <2>2 DEF Machine
  <2> HIDE DEF w
  <2>4. Disjoint(w, q)
    BY <1>1, <2>3 DEF Disjoint
  <2>5. c + 1 = w.dropped + Len(q \o w.ready) + 0
    <3> HIDE DEF out
    <3>1. c + 1 = d + Len(out) + 0
      BY <1>4, <1>5 DEF d
    <3> QED BY <2>3, <3>1 DEF out
  <2>6. MachineInv(w, q, at + 1, c + 1)
    BY <2>3, <2>4, <2>5 DEF MachineInv
  <2> QED BY <1>2, <2>1, <2>3, <2>6 DEF s
<1>8. CASE h # kInvalid
  <2> DEFINE off == History - 1
             begin == IF at >= off THEN at - off ELSE 0
             r == [start |-> begin, offset |-> off, samples |-> history, flushed |-> FALSE]
             free == m.free \ {h}
             end == at + 1 + Capture
             w1 == [opened EXCEPT !.active = h]
             w2 == [w1 EXCEPT !.free = free]
             w3 == [w2 EXCEPT !.end = end]
             w == [w3 EXCEPT !.region = [m.region EXCEPT ![h] = r]]
  <2>1. h \in m.free /\ h \in Handle
    BY <1>4, <1>8 DEF Acquired
  <2>2. begin \in Nat /\ off = History - 1 /\ end \in Int /\ free \subseteq Handle
    BY <1>4, Sizes
  <2>3. r \in Region /\ Consecutive(r, at) /\ Len(r.samples) = History
    <3> HIDE DEF begin
    <3> QED BY <2>2, OpenedRegion
  <2>4. w = Open(m, h, history, at)
    BY <1>3, <1>6, <1>8 DEF Open
  <2> HIDE DEF r, free, end
  <2>5. /\ Machine(w1) /\ w1.free = m.free /\ w1.ready = m.ready /\ w1.active = h
        /\ w1.region = m.region /\ w1.state = s /\ w1.dropped = m.dropped
    BY <1>6, <2>1 DEF Machine
  <2> HIDE DEF w1
  <2>6. /\ Machine(w2) /\ w2.free = free /\ w2.ready = m.ready /\ w2.active = h
        /\ w2.region = m.region /\ w2.state = s /\ w2.dropped = m.dropped
    BY <2>2, <2>5 DEF Machine
  <2> HIDE DEF w2
  <2>7. /\ Machine(w3) /\ w3.free = free /\ w3.ready = m.ready /\ w3.active = h
        /\ w3.region = m.region /\ w3.state = s /\ w3.dropped = m.dropped
        /\ w3.end = end
    BY <2>2, <2>6 DEF Machine
  <2> HIDE DEF w3
  <2>8. /\ Machine(w) /\ w.free = free /\ w.ready = m.ready /\ w.active = h
        /\ w.region = [m.region EXCEPT ![h] = r] /\ w.state = s
        /\ w.dropped = m.dropped /\ w.end = end
    BY <1>1, <2>1, <2>3, <2>7 DEF Machine
  <2> HIDE DEF w
  <2>9. h \notin Range(out)
    BY <1>1, <2>1 DEF Disjoint
  <2>10. Disjoint(w, q)
    <3>1. h \notin free /\ Range(out) \cap free = {}
      BY <1>1 DEF Disjoint, free
    <3> QED BY <1>1, <2>8, <2>9, <3>1 DEF Disjoint
  <2>11. w.region[h] = r /\ \A g \in Range(out) : w.region[g] = m.region[g]
    BY <1>1, <1>4, <2>1, <2>8, <2>9 DEF Machine
  <2>12. Growing(w, at + 1)
    <3>1. end - Capture = at + 1 /\ end - Capture - 1 = at
      BY Sizes DEF end
    <3>2. Len(r.samples) = History + ((at + 1) - (end - Capture)) /\ end - Capture <= at + 1
      BY <2>3, <3>1, Sizes
    <3> QED BY <2>3, <2>8, <2>11, <3>1, <3>2 DEF Growing
  <2>13. c + 1 = w.dropped + Len(q \o w.ready) + 1
    <3> HIDE DEF out
    <3>1. c + 1 = m.dropped + Len(out) + 1
      BY <1>4, <1>5
    <3> QED BY <2>8, <3>1 DEF out
  <2>14. w.active # kInvalid /\ \A g \in Range(q \o w.ready) : Finished(w.region[g])
    BY <1>8, <2>8, <2>11 DEF MachineInv
  <2>15. MachineInv(w, q, at + 1, c + 1)
    BY <1>2, <2>8, <2>10, <2>12, <2>13, <2>14 DEF MachineInv
  <2> QED BY <2>4, <2>8, <2>15 DEF s
<1> QED BY <1>7, <1>8

-----------------------------------------------------------------------------
(* The gate in a region, the end of the stream, the queue and the release. *)

\* The state and the holdoff's count may change while a region is open.
Low(m, x) == [m EXCEPT !.low = x]
Copying(m, x) == [m EXCEPT !.state = "Capture", !.low = x]

LEMMA LowKeeps ==
  ASSUME NEW m, NEW q, NEW p, NEW c, MachineInv(m, q, p, c), m.state = "InRegion",
         NEW x \in Nat
  PROVE  /\ MachineInv(Low(m, x), q, p, c) /\ Low(m, x).state = "InRegion"
         /\ MachineInv(Copying(m, x), q, p, c) /\ Copying(m, x).end = m.end
<1> DEFINE s == "Capture"
           u == [m EXCEPT !.state = s]
           v == [m EXCEPT !.low = x]
           w == [u EXCEPT !.low = x]
<1>1. w = Copying(m, x) /\ v = Low(m, x)
  BY DEF Copying, Low
<1>2. Machine(m) /\ s # "Search" /\ s \in {"Search", "InRegion", "Capture"}
  BY DEF MachineInv
<1> HIDE DEF s
<1>3. /\ Machine(u) /\ u.end = m.end /\ u.active = m.active /\ u.free = m.free
      /\ u.ready = m.ready /\ u.dropped = m.dropped /\ u.region = m.region /\ u.state = s
  BY <1>2 DEF Machine
<1> HIDE DEF u
<1>4. /\ Machine(w) /\ w.end = m.end /\ w.active = m.active /\ w.free = m.free
      /\ w.ready = m.ready /\ w.dropped = m.dropped /\ w.region = m.region /\ w.state = s
  BY <1>3 DEF Machine
<1>5. /\ Machine(v) /\ v.end = m.end /\ v.active = m.active /\ v.free = m.free
      /\ v.ready = m.ready /\ v.dropped = m.dropped /\ v.region = m.region
      /\ v.state = m.state
  BY <1>2 DEF Machine
<1> HIDE DEF v, w
<1>6. MachineInv(v, q, p, c)
  BY <1>5, SameRegions
<1>7. MachineInv(w, q, p, c)
  BY <1>2, <1>4, SameRegions
<1> QED BY <1>1, <1>4, <1>5, <1>6, <1>7

LEMMA LapseKeeps ==
  ASSUME NEW m, NEW q, NEW at \in Int, NEW c, MachineInv(m, q, at + 1, c),
         m.state = "InRegion"
  PROVE  LET w == Lapse(m, at) IN
           /\ MachineInv(w, q, at + 1, c)
           /\ w.state = "Capture" => at + 1 < w.end
<1>1. m.low \in Nat /\ m.low + 1 \in Nat /\ m.end \in Int /\ at + 1 \in Int
  BY DEF MachineInv, Machine
<1>2. CASE Above(m)
  <2>1. Lapse(m, at) = Low(m, 0)
    BY <1>2 DEF Lapse, Low
  <2>2. MachineInv(Low(m, 0), q, at + 1, c) /\ Low(m, 0).state = "InRegion"
    BY LowKeeps
  <2> QED BY <2>1, <2>2
<1>3. CASE ~Above(m) /\ m.low + 1 < Holdoff
  <2>1. Lapse(m, at) = Low(m, m.low + 1)
    BY <1>3 DEF Lapse, Low
  <2>2. MachineInv(Low(m, m.low + 1), q, at + 1, c) /\ Low(m, m.low + 1).state = "InRegion"
    BY <1>1, LowKeeps
  <2> QED BY <2>1, <2>2
<1>4. CASE ~Above(m) /\ ~(m.low + 1 < Holdoff) /\ at + 1 < m.end
  <2>1. Lapse(m, at) = Copying(m, 0)
    BY <1>4 DEF Lapse, Close, Copying
  <2>2. MachineInv(Copying(m, 0), q, at + 1, c) /\ Copying(m, 0).end = m.end
    BY LowKeeps
  <2> QED BY <1>4, <2>1, <2>2
<1>5. CASE ~Above(m) /\ ~(m.low + 1 < Holdoff) /\ ~(at + 1 < m.end)
  <2>1. at + 1 >= m.end
    BY <1>1, <1>5
  <2>2. Lapse(m, at) = Searching(m)
    BY <1>5 DEF Lapse, Close, Searching
  <2>3. MachineInv(Searching(m), q, at + 1, c) /\ Searching(m).state = "Search"
    BY <1>1, <2>1, SearchKeeps
  <2> QED BY <2>2, <2>3
<1> QED BY <1>2, <1>3, <1>4, <1>5

LEMMA FlushKeeps ==
  ASSUME NEW m, NEW q, NEW p \in Int, NEW c, MachineInv(m, q, p, c)
  PROVE  /\ MachineInv(flush_region(m), q, p, c)
         /\ flush_region(m).state = "Capture" => m.state = "Capture" /\ flush_region(m) = m
<1>1. Machine(m) /\ Disjoint(m, q)
  BY DEF MachineInv
<1>2. CASE m.state # "InRegion"
  BY <1>2 DEF flush_region
<1>3. CASE m.state = "InRegion" /\ m.active = kInvalid
  <2>1. flush_region(m) = Searching(m)
    BY <1>3 DEF flush_region, Searching
  <2>2. MachineInv(Searching(m), q, p, c) /\ Searching(m).state = "Search"
    BY <1>3, SearchKeeps
  <2> QED BY <2>1, <2>2
<1>4. CASE m.state = "InRegion" /\ m.active # kInvalid
  <2> DEFINE h == m.active
             r == m.region[h]
             yes == TRUE
             s == [r EXCEPT !.flushed = yes]
             w == [m EXCEPT !.region = [m.region EXCEPT ![h] = s]]
  <2>1. flush_region(m) = Searching(w)
    BY <1>4 DEF flush_region, Searching
  <2>2. h \in Handle /\ r \in Region /\ h \notin Range(q \o m.ready) /\ yes \in BOOLEAN
    BY <1>1, <1>4 DEF Machine, Disjoint
  <2> HIDE DEF r, yes
  <2>3. s \in Region /\ s.samples = r.samples /\ s.offset = r.offset /\ s.flushed = yes
    BY <2>2 DEF Region
  <2> HIDE DEF s
  <2>4. /\ Machine(w) /\ w.free = m.free /\ w.ready = m.ready /\ w.active = h
        /\ w.region = [m.region EXCEPT ![h] = s] /\ w.state = m.state
        /\ w.end = m.end /\ w.dropped = m.dropped
    BY <1>1, <2>2, <2>3 DEF Machine
  <2> HIDE DEF w
  <2>5. w.region[h] = s /\ \A g \in Handle \ {h} : w.region[g] = m.region[g]
    BY <1>1, <2>2, <2>4 DEF Machine
  <2>6. Disjoint(w, q)
    BY <1>1, <2>4 DEF Disjoint
  <2>7. Growing(w, p)
    <3>1. Growing(m, p)
      BY <1>4 DEF MachineInv
    <3> QED BY <2>3, <2>4, <2>5, <3>1 DEF Growing, Consecutive, r
  <2>8. \A g \in Range(q \o w.ready) : Finished(w.region[g])
    BY <1>1, <2>2, <2>4, <2>5, Queued DEF MachineInv
  <2>9. MachineInv(w, q, p, c)
    BY <1>4, <2>4, <2>6, <2>7, <2>8 DEF MachineInv
  <2>10. w.region[w.active].flushed
    BY <2>3, <2>4, <2>5 DEF yes
  <2>11. MachineInv(Searching(w), q, p, c) /\ Searching(w).state = "Search"
    BY <2>9, <2>10, SearchKeeps
  <2> QED BY <2>1, <2>11
<1> QED BY <1>2, <1>3, <1>4

\* enqueue_ready_regions moves the finished regions on.
LEMMA EnqueueKeeps ==
  ASSUME NEW m, NEW q, NEW p, NEW c, MachineInv(m, q, p, c)
  PROVE  LET w == [m EXCEPT !.ready = <<>>] IN
           /\ MachineInv(w, q \o m.ready, p, c) /\ w.state = m.state /\ w.end = m.end
<1> DEFINE none == <<>>
           w == [m EXCEPT !.ready = none]
           out == q \o m.ready
<1>1. Machine(m) /\ Disjoint(m, q)
  BY DEF MachineInv
<1>2. none \in Seq(Handle)
  OBVIOUS
<1>3. out \in Seq(Handle) /\ out \o none = out
  <2>1. out \in Seq(Handle)
    BY <1>1, Queued
  <2> HIDE DEF out
  <2> QED BY <2>1, ConcatEmpty DEF none
<1> HIDE DEF none
<1>4. /\ Machine(w) /\ w.free = m.free /\ w.ready = none /\ w.active = m.active
      /\ w.region = m.region /\ w.state = m.state /\ w.end = m.end
      /\ w.dropped = m.dropped
  BY <1>1, <1>2 DEF Machine
<1> HIDE DEF w
<1>5. out \o w.ready = q \o m.ready
  BY <1>3, <1>4
<1>6. Disjoint(w, out)
  BY <1>1, <1>3, <1>4, <1>5 DEF Disjoint
<1>7. w.active # kInvalid => Growing(w, p)
  BY <1>4 DEF MachineInv, Growing
<1>8. MachineInv(w, out, p, c)
  BY <1>4, <1>5, <1>6, <1>7 DEF MachineInv
<1> QED BY <1>4, <1>8 DEF w, none

\* release_region of the oldest region, published.
LEMMA ReleaseKeeps ==
  ASSUME NEW m, NEW j \in Seq(Handle), NEW h \in Handle, NEW p, NEW c,
         MachineInv(m, <<h>> \o j, p, c)
  PROVE  LET w == release_region(m, h) IN
           /\ MachineInv(w, j, p, c - 1) /\ w.state = m.state /\ w.end = m.end
<1> DEFINE q == <<h>> \o j
           out == q \o m.ready
           rest == j \o m.ready
           w1 == [m EXCEPT !.free = m.free \cup {h}]
           w == [w1 EXCEPT !.region = [m.region EXCEPT ![h] = NoRegion]]
<1>1. Machine(m) /\ Disjoint(m, q) /\ m.ready \in Seq(Handle)
  BY DEF MachineInv, Machine
<1>2. /\ <<h>> \in Seq(Handle) /\ rest \in Seq(Handle) /\ out = <<h>> \o rest
      /\ out \in Seq(Handle) /\ q \in Seq(Handle)
  <2>1. <<h>> \in Seq(Handle)
    BY ConcatHead
  <2>2. out = <<h>> \o rest
    <3> DEFINE x == <<h>>
               y == m.ready
    <3>1. x \in Seq(Handle) /\ y \in Seq(Handle)
      BY <1>1, <2>1
    <3> HIDE DEF x, y
    <3>2. (x \o j) \o y = x \o (j \o y)
      BY <3>1, ConcatThree
    <3> QED BY <3>2 DEF x, y
  <2>3. rest \in Seq(Handle) /\ q \in Seq(Handle)
    BY <1>1, <2>1, ConcatSeq
  <2> QED BY <1>1, <2>1, <2>2, <2>3, ConcatSeq
<1>3. out # <<>> /\ Head(out) = h /\ Tail(out) = rest
  <2> HIDE DEF rest
  <2> QED BY <1>2, ConcatHead
<1>4. \A i, k \in DOMAIN out : i # k => out[i] # out[k]
  BY <1>1 DEF Disjoint
<1>5. /\ h \in Range(out) /\ Range(rest) = Range(out) \ {h} /\ Range(out) \subseteq Handle
      /\ \A i, k \in DOMAIN rest : i # k => rest[i] # rest[k]
  <2> HIDE DEF out, rest
  <2>1. out \in Seq(Handle) /\ out # <<>>
    BY <1>2, <1>3
  <2>2. /\ Tail(out) \in Seq(Handle) /\ Head(out) \in Range(out) /\ Range(out) \subseteq Handle
        /\ Range(Tail(out)) = Range(out) \ {Head(out)}
        /\ \A i, k \in DOMAIN Tail(out) : i # k => Tail(out)[i] # Tail(out)[k]
    BY <1>4, <2>1, TailRange
  <2> QED BY <1>3, <2>2
<1>6. m.active # h /\ m.dropped \in Nat /\ Range(out) \cap m.free = {}
      /\ m.active \notin m.free /\ m.active \notin Range(out)
  BY <1>1, <1>5 DEF Machine, Disjoint
<1>7. w = release_region(m, h)
  BY DEF release_region
<1>8. /\ Machine(w1) /\ w1.free = m.free \cup {h} /\ w1.ready = m.ready
      /\ w1.active = m.active /\ w1.region = m.region /\ w1.state = m.state
      /\ w1.end = m.end /\ w1.dropped = m.dropped
  BY <1>1 DEF Machine
<1> HIDE DEF w1
<1>9. /\ Machine(w) /\ w.free = m.free \cup {h} /\ w.ready = m.ready
      /\ w.active = m.active /\ w.region = [m.region EXCEPT ![h] = NoRegion]
      /\ w.state = m.state /\ w.end = m.end /\ w.dropped = m.dropped
  BY <1>1, <1>8, EmptyRegion DEF Machine
<1> HIDE DEF w
<1>10. \A g \in (Handle \ {h}) : w.region[g] = m.region[g]
  BY <1>1, <1>9 DEF Machine
<1>11. Disjoint(w, j)
  <2>1. Range(rest) \cap w.free = {} /\ w.active \notin w.free /\ w.active \notin Range(rest)
    BY <1>5, <1>6, <1>9
  <2> QED BY <1>5, <1>9, <2>1 DEF Disjoint
<1>12. \A g \in Range(j \o w.ready) : Finished(w.region[g])
  BY <1>5, <1>9, <1>10 DEF MachineInv
<1>13. w.active # kInvalid => Growing(w, p)
  <2>1. ASSUME w.active # kInvalid PROVE w.region[w.active] = m.region[m.active]
    BY <1>1, <1>6, <1>9, <1>10, <2>1 DEF Machine
  <2> QED BY <1>9, <2>1 DEF MachineInv, Growing
<1>14. Len(out) = Len(rest) + 1 /\ Len(rest) \in Nat
  <2> HIDE DEF out, rest
  <2> QED BY <1>2, <1>3
<1>15. c - 1 = w.dropped + Len(rest) + IF w.active = kInvalid THEN 0 ELSE 1
  <2> DEFINE one == IF m.active = kInvalid THEN 0 ELSE 1
  <2>1. c = m.dropped + Len(out) + one /\ one \in Nat /\ w.dropped = m.dropped
        /\ one = IF w.active = kInvalid THEN 0 ELSE 1
    BY <1>9 DEF MachineInv
  <2> HIDE DEF one, out, rest
  <2> DEFINE x == Len(out)
             y == Len(rest)
             d == m.dropped
  <2>2. c - 1 = d + y + one
    <3>1. d \in Nat /\ x = y + 1 /\ y \in Nat /\ c = d + x + one /\ one \in Nat
      BY <1>6, <1>14, <2>1
    <3> HIDE DEF d, x, y
    <3> QED BY <3>1
  <2> QED BY <2>1, <2>2
<1>16. MachineInv(w, j, p, c - 1)
  BY <1>9, <1>11, <1>12, <1>13, <1>15 DEF MachineInv
<1> QED BY <1>7, <1>9, <1>16

-----------------------------------------------------------------------------
(* The steps.                                                              *)

LEMMA Worker ==
  ASSUME ThreadsInv
  PROVE  /\ AtWorker \in Seq(Handle)
         /\ worker.at # "publish" => AtWorker = <<>> /\ AtWorker \o jobs = jobs
<1>1. jobs \in Seq(Handle)
  BY DEF ThreadsInv
<1>2. CASE worker.at = "publish"
  BY <1>2 DEF ThreadsInv, AtWorker
<1>3. CASE worker.at # "publish"
  <2> DEFINE a == AtWorker
  <2>1. a = <<>>
    BY <1>3 DEF AtWorker
  <2>2. <<>> \in Seq(Handle) /\ <<>> \o jobs = jobs
    BY <1>1, ConcatEmpty
  <2> QED BY <1>3, <2>1, <2>2
<1> QED BY <1>2, <1>3

LEMMA DetectorInit == Init => DetectorInv
<1> SUFFICES ASSUME Init PROVE DetectorInv
  OBVIOUS
<1> DEFINE none == <<>>
           q == AtWorker \o jobs
<1>1. none \in Seq(Handle) /\ Len(none) = 0 /\ Range(none) = {} /\ DOMAIN none = {}
      /\ none \o none = none
  BY DEF Range
<1>2. ThreadsInv
  <2>1. ring \in Seq(Int) /\ Len(ring) = History
    <3>1. \A i \in 1..History : Zero \in Int
      BY DEF Zero
    <3> QED BY <3>1, Sizes DEF Init
  <2>2. jobs \in Seq(Handle)
    BY DEF Init
  <2> QED BY <2>1, <2>2 DEF Init, ThreadsInv
<1>3. q = none
  BY DEF Init, AtWorker
<1>4. sm.active = kInvalid /\ sm.free = Handle /\ sm.ready = none /\ sm.dropped = 0
      /\ sm.state = "Search"
  BY DEF Init, NewMachine
<1>5. Machine(sm)
  <2> DEFINE z == 0
             s == "Search"
             rs == [h \in Handle |-> NoRegion]
             g == [blocks |-> <<>>, acc |-> 0]
  <2>1. z \in Nat /\ z \in Int /\ z \in 0..(D - 1) /\ rs \in [Handle -> Region]
        /\ s \in {"Search", "InRegion", "Capture"}
    BY Sizes, EmptyRegion
  <2>2. sm = [state |-> s, low |-> z, phase |-> z, end |-> z, gate |-> g,
              active |-> kInvalid, free |-> Handle, ready |-> none, dropped |-> z,
              region |-> rs]
    BY DEF Init, NewMachine
  <2> HIDE DEF z, s, rs, g, none
  <2> QED BY <1>1, <2>1, <2>2 DEF Machine
<1>6. q \o sm.ready = none /\ q \in Seq(Handle)
  BY <1>1, <1>3, <1>4
<1>7. Disjoint(sm, q)
  <2> HIDE DEF none, q
  <2> QED BY <1>1, <1>4, <1>6, Sizes DEF Disjoint
<1>8. MachineInv(sm, q, pos, crossings - published)
  <2>1. crossings - published = sm.dropped + Len(none) + 0
    BY <1>1, <1>4 DEF Init
  <2> HIDE DEF none, q
  <2> QED BY <1>1, <1>4, <1>5, <1>6, <1>7, <2>1 DEF MachineInv
<1> QED BY <1>2, <1>4, <1>8 DEF DetectorInv, CaptureAhead

\* The last History samples of the ring and the new ones.
LEMMA LastSamples ==
  ASSUME NEW S, NEW x \in Seq(S), x # <<>>, NEW y \in Seq(S)
  PROVE  LET w == LastOf(x \o y, Len(x)) IN
           /\ w \in Seq(S) /\ Len(w) = Len(x)
           /\ y # <<>> => w[Len(x)] = y[Len(y)]
<1> DEFINE s == x \o y
           n == Len(y)
           l == Len(x)
           w == SubSeq(s, n + 1, n + l)
<1>1. s \in Seq(S) /\ Len(s) = l + n
      /\ \A i \in 1..(l + n) : s[i] = IF i <= l THEN x[i] ELSE y[i - l]
  BY ConcatSeq
<1>2. n \in Nat /\ l \in Nat \ {0} /\ (y # <<>> => n > 0)
  OBVIOUS
<1> HIDE DEF s, n, l
<1>3. LastOf(s, l) = w
  BY <1>1, <1>2 DEF LastOf
<1>4. w = [i \in 1..l |-> s[n + i]]
  <2>1. n + l - (n + 1) + 1 = l
    BY <1>2
  <2>2. \A i \in 1..l : n + 1 + i - 1 = n + i
    BY <1>2
  <2> QED BY <1>1, <1>2, <2>1, <2>2
<1> HIDE DEF w
<1>5. \A i \in 1..l : s[n + i] \in S
  <2>1. \A i \in 1..l : n + i \in 1..Len(s)
    BY <1>1, <1>2
  <2> QED BY <1>1, <2>1
<1>6. w \in Seq(S) /\ Len(w) = l
  BY <1>2, <1>4, <1>5
<1>7. ASSUME n > 0 PROVE w[l] = y[n]
  <2>1. w[l] = s[n + l]
    BY <1>2, <1>4
  <2>2. n + l \in 1..(l + n) /\ ~(n + l <= l) /\ (n + l) - l = n
    BY <1>2, <1>7
  <2> QED BY <1>1, <2>1, <2>2
<1> QED BY <1>2, <1>3, <1>6, <1>7 DEF s, n, l

LEMMA RingSamples ==
  ASSUME ThreadsInv, NEW n \in Nat
  PROVE  LET w == LastOf(ring \o Taken(n), History) IN
           /\ w \in Seq(Int) /\ Len(w) = History
           /\ n > 0 => w[History] = pos + n - 1
<1> DEFINE v == Taken(n)
           w == LastOf(ring \o v, History)
<1>1. ring \in Seq(Int) /\ Len(ring) = History /\ v \in Seq(Int) /\ Len(v) = n
  BY TakenSamples DEF ThreadsInv
<1>2. n > 0 => v # <<>> /\ v[n] = pos + n - 1
  <2>1. pos \in Nat
    BY DEF ThreadsInv
  <2>2. \A i \in 1..n : v[i] = pos + i - 1
    BY <2>1, TakenSamples
  <2>3. n > 0 => n \in 1..n
    OBVIOUS
  <2> HIDE DEF v
  <2> QED BY <1>1, <2>2, <2>3
<1> HIDE DEF v
<1>3. w \in Seq(Int) /\ Len(w) = History /\ (v # <<>> => w[History] = v[Len(v)])
  <2> DEFINE x == ring
             l == Len(x)
             u == LastOf(x \o v, l)
  <2>1. x \in Seq(Int) /\ x # <<>> /\ v \in Seq(Int) /\ l = History
    BY <1>1, Sizes
  <2>2. w = u
    BY <2>1
  <2> HIDE DEF x
  <2>3. u \in Seq(Int) /\ Len(u) = l /\ (v # <<>> => u[l] = v[Len(v)])
    BY <2>1, LastSamples
  <2> HIDE DEF u, l, w
  <2> QED BY <2>1, <2>2, <2>3
<1> HIDE DEF w
<1>4. n > 0 => w[History] = pos + n - 1
  BY <1>1, <1>2, <1>3
<1> QED BY <1>3, <1>4 DEF w, v

\* The next piece is at least a sample, and no more than is left.
LEMMA PartLength ==
  ASSUME ThreadsInv, Machine(sm), Processing
  PROVE  BlockPart \in Nat /\ BlockPart > 0 /\ BlockPart <= left
<1>1. sm.phase \in 0..(D - 1) /\ left \in Nat /\ left > 0
  BY DEF ThreadsInv, Machine, Processing
<1> QED BY <1>1, Sizes DEF BlockPart, Lesser

\* What the threads' invariant needs of a step of the state machine.
LEMMA Consumed ==
  ASSUME ThreadsInv, NEW n \in Nat, n <= left, Consume(n),
         ring' \in Seq(Int), Len(ring') = History, crossings' \in Nat
  PROVE  ThreadsInv' /\ (AtWorker \o jobs)' = AtWorker \o jobs
<1>1. pos' \in Nat /\ left' \in Nat
  BY DEF ThreadsInv, Consume
<1> QED BY <1>1 DEF ThreadsInv, Consume, workerVars, AtWorker

LEMMA SearchStep ==
  ASSUME DetectorInv, process_search
  PROVE  DetectorInv'
<1> DEFINE n == BlockPart
           at == pos + n - 1
           history == LastOf(ring \o Taken(n), History)
           fed == Fed(sm, n)
           q == AtWorker \o jobs
           c == crossings - published
<1>1. ThreadsInv /\ MachineInv(sm, q, pos, c) /\ Machine(sm) /\ Processing
      /\ sm.state = "Search" /\ pos \in Nat /\ crossings \in Nat /\ published \in Nat
  BY DEF DetectorInv, MachineInv, process_search, ThreadsInv
<1>2. n \in Nat /\ n > 0 /\ n <= left
  BY <1>1, PartLength
<1>3. Consume(n) /\ ring' = history /\ crossings' \in {crossings, crossings + 1}
  BY DEF process_search
<1> HIDE DEF n
<1>4. history \in Seq(Int) /\ Len(history) = History /\ history[History] = at
  BY <1>1, <1>2, RingSamples
<1> HIDE DEF history, at, fed
<1>5. ThreadsInv' /\ (AtWorker \o jobs)' = q /\ pos' = pos + n /\ published' = published
  <2>1. ring' \in Seq(Int) /\ Len(ring') = History /\ crossings' \in Nat
    BY <1>1, <1>3, <1>4
  <2> QED BY <1>1, <1>2, <1>3, <2>1, Consumed DEF Consume, workerVars
<1>6. /\ MachineInv(fed, q, pos, c) /\ fed.state = "Search" /\ fed.active = kInvalid
      /\ fed.free = sm.free
  <2> HIDE DEF q, c
  <2>1. MachineInv(fed, q, pos, c)
    BY <1>1, <1>2, FedKeeps DEF fed
  <2>2. fed.state = sm.state /\ fed.active = sm.active /\ fed.free = sm.free
    BY <1>1, <1>2, FedFrame DEF fed
  <2> QED BY <1>1, <2>1, <2>2 DEF MachineInv
<1>7. CASE sm' = fed /\ crossings' = crossings
  <2>1. MachineInv(fed, q, pos + n, c)
    BY <1>6 DEF MachineInv
  <2> QED BY <1>5, <1>6, <1>7, <2>1 DEF DetectorInv, CaptureAhead
<1>8. ASSUME NEW h \in Acquired(sm), sm' = Open(fed, h, history, at),
             crossings' = crossings + 1
      PROVE  DetectorInv'
  <2>1. h \in Acquired(fed) /\ at \in Nat /\ at + 1 = pos + n
    BY <1>1, <1>2, <1>6, <1>8 DEF Acquired, at
  <2>2. /\ MachineInv(Open(fed, h, history, at), q, at + 1, c + 1)
        /\ Open(fed, h, history, at).state = "InRegion"
    BY <1>4, <1>6, <2>1, OpenKeeps
  <2>3. crossings' - published' = c + 1
    BY <1>1, <1>5, <1>8
  <2> QED BY <1>5, <1>8, <2>1, <2>2, <2>3 DEF DetectorInv, CaptureAhead
<1>9. \/ sm' = fed /\ crossings' = crossings
      \/ \E h \in Acquired(sm) : sm' = Open(fed, h, history, at) /\ crossings' = crossings + 1
  BY DEF process_search, fed, history, n, at
<1> QED BY <1>7, <1>8, <1>9

LEMMA RegionStep ==
  ASSUME DetectorInv, process_region
  PROVE  DetectorInv'
<1> DEFINE n == BlockPart
           at == pos + n - 1
           history == LastOf(ring \o Taken(n), History)
           kept == Keep(sm, n)
           fed == Fed(kept, n)
           q == AtWorker \o jobs
           c == crossings - published
<1>1. ThreadsInv /\ MachineInv(sm, q, pos, c) /\ Machine(sm) /\ Processing
      /\ sm.state = "InRegion" /\ pos \in Nat /\ crossings \in Nat
  BY DEF DetectorInv, MachineInv, process_region, ThreadsInv
<1>2. n \in Nat /\ n > 0 /\ n <= left
  BY <1>1, PartLength
<1>3. Consume(n) /\ ring' = history /\ crossings' = crossings
      /\ sm' = IF CompletesBlock(sm, n) THEN Lapse(fed, at) ELSE fed
  BY DEF process_region
<1> HIDE DEF n
<1>4. history \in Seq(Int) /\ Len(history) = History
  BY <1>1, <1>2, RingSamples
<1>5. ThreadsInv' /\ (AtWorker \o jobs)' = q /\ pos' = pos + n /\ published' = published
  BY <1>1, <1>2, <1>3, <1>4, Consumed DEF Consume, workerVars
<1>6. MachineInv(kept, q, pos + n, c) /\ kept.state = "InRegion"
  BY <1>1, <1>2, KeepKeeps
<1> HIDE DEF kept
<1>7. MachineInv(fed, q, pos + n, c) /\ fed.state = "InRegion"
  BY <1>2, <1>6, FedKeeps, FedFrame, ZenonT(40) DEF MachineInv
<1> HIDE DEF fed
<1>8. at \in Int /\ at + 1 = pos + n
  BY <1>1, <1>2
<1> HIDE DEF at
<1>9. MachineInv(Lapse(fed, at), q, at + 1, c)
      /\ (Lapse(fed, at).state = "Capture" => at + 1 < Lapse(fed, at).end)
  BY <1>7, <1>8, LapseKeeps
<1>10. MachineInv(sm', q, pos', c) /\ (sm'.state = "Capture" => pos' < sm'.end)
  BY <1>3, <1>5, <1>7, <1>8, <1>9
<1> QED BY <1>3, <1>5, <1>10 DEF DetectorInv, CaptureAhead

LEMMA CaptureStep ==
  ASSUME DetectorInv, process_capture
  PROVE  DetectorInv'
<1> DEFINE n == Lesser(sm.end - pos, left)
           kept == Keep(sm, n)
           q == AtWorker \o jobs
           c == crossings - published
<1>1. ThreadsInv /\ MachineInv(sm, q, pos, c) /\ Machine(sm) /\ left > 0
      /\ sm.state = "Capture" /\ pos \in Nat /\ left \in Nat /\ pos < sm.end
      /\ sm.end \in Int
  BY DEF DetectorInv, CaptureAhead, MachineInv, process_capture, ThreadsInv, Processing, Machine
<1>2. n \in Nat /\ n <= left
  BY <1>1 DEF Lesser
<1>3. Consume(n) /\ UNCHANGED <<ring, crossings>>
      /\ sm' = IF pos + n >= sm.end THEN Captured(kept) ELSE kept
  BY DEF process_capture, Captured
<1> HIDE DEF n
<1>4. ThreadsInv' /\ (AtWorker \o jobs)' = q /\ pos' = pos + n /\ published' = published
  <2>1. ring' \in Seq(Int) /\ Len(ring') = History /\ crossings' \in Nat
    BY <1>1, <1>3 DEF ThreadsInv
  <2> QED BY <1>1, <1>2, <1>3, <2>1, Consumed DEF Consume, workerVars
<1>5. MachineInv(kept, q, pos + n, c) /\ kept.end = sm.end
  BY <1>1, <1>2, KeepKeeps
<1> HIDE DEF kept
<1>6. pos + n \in Int
  BY <1>1, <1>2
<1>7. CASE pos + n >= sm.end
  <2>1. MachineInv(Captured(kept), q, pos + n, c) /\ Captured(kept).state = "Search"
    BY <1>5, <1>6, <1>7, SearchKeeps
  <2> QED BY <1>3, <1>4, <1>7, <2>1 DEF DetectorInv, CaptureAhead
<1>8. CASE ~(pos + n >= sm.end)
  <2>1. pos + n < kept.end
    BY <1>1, <1>5, <1>6, <1>8
  <2> QED BY <1>3, <1>4, <1>5, <1>8, <2>1 DEF DetectorInv, CaptureAhead
<1> QED BY <1>7, <1>8

\* Steps that do not move the state machine and leave what is outgoing.
LEMMA QuietStep ==
  ASSUME DetectorInv, UNCHANGED <<sm, pos, crossings, published>>, ThreadsInv',
         (AtWorker \o jobs)' = AtWorker \o jobs
  PROVE  DetectorInv'
BY DEF DetectorInv, CaptureAhead

\* The block's other steps.
LEMMA BlockStep ==
  ASSUME DetectorInv, work \/ wait_for_worker_idle \/ joined
  PROVE  DetectorInv'
<1>1. UNCHANGED <<sm, pos, crossings, published, jobs, worker, stopping, ring>>
  BY DEF work, wait_for_worker_idle, joined, workerVars
<1>2. ThreadsInv
  BY DEF DetectorInv
<1>3. (AtWorker \o jobs)' = AtWorker \o jobs
  BY <1>1 DEF AtWorker
<1>4. CASE work
  <2>1. left' \in Nat /\ pc = "idle" /\ pc' \in {"process", "last"}
    BY <1>4, DetectorAssumption DEF work
  <2>2. ThreadsInv'
    BY <1>1, <1>2, <2>1 DEF ThreadsInv
  <2> QED BY <1>1, <1>3, <2>2, QuietStep
<1>5. CASE wait_for_worker_idle \/ joined
  <2>1. ThreadsInv'
    BY <1>1, <1>2, <1>5 DEF ThreadsInv, wait_for_worker_idle, joined
  <2> QED BY <1>1, <1>3, <2>1, QuietStep
<1> QED BY <1>4, <1>5

\* enqueue_ready_regions at the end of work and in stop.
LEMMA EnqueueStep ==
  ASSUME ThreadsInv, NEW m, MachineInv(m, AtWorker \o jobs, pos, crossings - published),
         m.state = "Capture" => pos < m.end, Enqueue(m),
         UNCHANGED <<ring, pos, left, worker, crossings, published>>,
         worker.at # "exit", pc' \in {"idle", "drain", "join"}, (stopping' <=> pc' = "join")
  PROVE  DetectorInv'
<1>1. jobs \in Seq(Handle) /\ AtWorker \in Seq(Handle) /\ m.ready \in Seq(Handle)
  BY Worker DEF ThreadsInv, MachineInv, Machine
<1>2. jobs' = jobs \o m.ready /\ jobs' \in Seq(Handle) /\ AtWorker' = AtWorker
  BY <1>1, ConcatSeq DEF Enqueue, AtWorker
<1>3. (AtWorker \o jobs)' = (AtWorker \o jobs) \o m.ready
  <2> DEFINE x == AtWorker
             y == jobs
             z == m.ready
  <2>1. x \in Seq(Handle) /\ y \in Seq(Handle) /\ z \in Seq(Handle)
    BY <1>1
  <2>2. (x \o y) \o z = x \o (y \o z)
    <3> HIDE DEF x, y, z
    <3> QED BY <2>1, ConcatThree
  <2> QED BY <1>2, <2>2
<1>4. ThreadsInv'
  <2>1. stopping' <=> pc' \in {"join", "stopped"}
    OBVIOUS
  <2> QED BY <1>2, <2>1 DEF ThreadsInv
<1>5. /\ MachineInv(sm', (AtWorker \o jobs) \o m.ready, pos, crossings - published)
      /\ sm'.state = m.state /\ sm'.end = m.end
  BY EnqueueKeeps DEF Enqueue
<1>6. MachineInv(sm', (AtWorker \o jobs)', pos', crossings' - published')
  BY <1>3, <1>5
<1> QED BY <1>4, <1>5, <1>6 DEF DetectorInv, CaptureAhead

LEMMA EndStep ==
  ASSUME DetectorInv, end_work
  PROVE  DetectorInv'
<1>1. /\ ThreadsInv /\ MachineInv(sm, AtWorker \o jobs, pos, crossings - published)
      /\ sm.state = "Capture" => pos < sm.end
  BY DEF DetectorInv, CaptureAhead
<1>2. /\ Enqueue(sm) /\ UNCHANGED <<ring, pos, left, worker, crossings, published, stopping>>
      /\ pc \in {"process", "last"} /\ pc' \in {"idle", "drain"}
  BY DEF end_work
<1>3. worker.at # "exit" /\ (stopping' <=> pc' = "join")
  BY <1>1, <1>2 DEF ThreadsInv
<1> QED BY <1>1, <1>2, <1>3, EnqueueStep

LEMMA StopStep ==
  ASSUME DetectorInv, stop
  PROVE  DetectorInv'
<1> DEFINE m == flush_region(sm)
           c == crossings - published
           q == AtWorker \o jobs
<1>1. /\ ThreadsInv /\ MachineInv(sm, q, pos, c) /\ pos \in Int
      /\ sm.state = "Capture" => pos < sm.end
  BY DEF DetectorInv, CaptureAhead, ThreadsInv
<1>2. /\ Enqueue(m) /\ UNCHANGED <<ring, pos, left, worker, crossings, published>>
      /\ pc = "idle" /\ pc' = "join" /\ stopping' = TRUE
  BY DEF stop
<1>3. worker.at # "exit" /\ (stopping' <=> pc' = "join")
  BY <1>1, <1>2 DEF ThreadsInv
<1>4. MachineInv(m, q, pos, c) /\ (m.state = "Capture" => sm.state = "Capture" /\ m = sm)
  BY <1>1, FlushKeeps
<1> HIDE DEF m
<1>5. m.state = "Capture" => pos < m.end
  BY <1>1, <1>4
<1> QED BY <1>1, <1>2, <1>3, <1>4, <1>5, EnqueueStep

LEMMA StartStep ==
  ASSUME DetectorInv, start
  PROVE  DetectorInv'
<1>1. ThreadsInv
  BY DEF DetectorInv
<1>2. /\ pc = "stopped" /\ pc' = "idle" /\ jobs' = <<>> /\ stopping' = FALSE
      /\ worker' = [at |-> "wait", handle |-> kInvalid]
      /\ UNCHANGED <<sm, ring, pos, left, crossings, published>>
  BY DEF start
<1>3. worker.at = "exit" /\ jobs = <<>>
  BY <1>1, <1>2 DEF ThreadsInv
<1>4. (AtWorker \o jobs)' = AtWorker \o jobs
  BY <1>2, <1>3 DEF AtWorker
<1>5. jobs' \in Seq(Handle)
  BY <1>1, <1>2, <1>3 DEF ThreadsInv
<1>6. /\ worker' \in [at : {"wait", "publish", "done", "exit"}, handle : Handle \cup {kInvalid}]
      /\ worker'.at = "wait"
  BY <1>2
<1>7. ThreadsInv'
  BY <1>1, <1>2, <1>5, <1>6 DEF ThreadsInv
<1> QED BY <1>2, <1>4, <1>7, QuietStep

LEMMA TakeStep ==
  ASSUME DetectorInv, worker_take
  PROVE  DetectorInv'
<1>1. ThreadsInv
  BY DEF DetectorInv
<1>2. /\ worker.at = "wait" /\ jobs # <<>> /\ jobs' = Tail(jobs)
      /\ worker' = [at |-> "publish", handle |-> Head(jobs)]
      /\ UNCHANGED <<sm, ring, pos, left, pc, stopping, crossings, published>>
  BY DEF worker_take, blockVars
<1>3. jobs \in Seq(Handle)
  BY <1>1 DEF ThreadsInv
<1>4. Head(jobs) \in Handle /\ Tail(jobs) \in Seq(Handle) /\ jobs = <<Head(jobs)>> \o Tail(jobs)
  BY <1>2, <1>3, HeadTail
<1>5. (AtWorker \o jobs)' = <<Head(jobs)>> \o Tail(jobs)
  BY <1>2 DEF AtWorker
<1>6. AtWorker \o jobs = jobs
  BY <1>1, <1>2, Worker
<1>7. /\ worker' \in [at : {"wait", "publish", "done", "exit"}, handle : Handle \cup {kInvalid}]
      /\ worker'.at = "publish" /\ worker'.handle \in Handle
  BY <1>2, <1>4
<1>8. jobs' \in Seq(Handle)
  BY <1>2, <1>4
<1>9. ThreadsInv'
  BY <1>1, <1>2, <1>7, <1>8 DEF ThreadsInv
<1> QED BY <1>2, <1>4, <1>5, <1>6, <1>9, QuietStep

LEMMA PublishStep ==
  ASSUME DetectorInv, publish_packet
  PROVE  DetectorInv'
<1> DEFINE h == worker.handle
           c == crossings - published
<1>1. ThreadsInv /\ MachineInv(sm, AtWorker \o jobs, pos, c)
      /\ (sm.state = "Capture" => pos < sm.end)
  BY DEF DetectorInv, CaptureAhead
<1>2. /\ worker.at = "publish" /\ sm' = release_region(sm, h)
      /\ worker' = [worker EXCEPT !.at = "done"] /\ published' = published + 1
      /\ UNCHANGED <<ring, pos, left, pc, stopping, crossings, jobs>>
  BY DEF publish_packet, blockVars
<1>3. /\ h \in Handle /\ jobs \in Seq(Handle) /\ crossings \in Nat /\ published \in Nat
      /\ worker \in [at : {"wait", "publish", "done", "exit"}, handle : Handle \cup {kInvalid}]
  BY <1>1, <1>2 DEF ThreadsInv
<1>4. AtWorker = <<h>>
  BY <1>2 DEF AtWorker
<1>5. /\ worker' \in [at : {"wait", "publish", "done", "exit"}, handle : Handle \cup {kInvalid}]
      /\ worker'.at = "done"
  BY <1>2, <1>3
<1>6. ThreadsInv'
  BY <1>1, <1>2, <1>3, <1>5 DEF ThreadsInv
<1>7. (AtWorker \o jobs)' = jobs
  BY <1>2, <1>5, <1>6, Worker DEF AtWorker
<1>8. /\ MachineInv(sm', jobs, pos, c - 1) /\ sm'.state = sm.state /\ sm'.end = sm.end
  <2> HIDE DEF h, c
  <2> QED BY <1>1, <1>2, <1>3, <1>4, ReleaseKeeps
<1>9. crossings' - published' = c - 1
  BY <1>2, <1>3
<1> QED BY <1>1, <1>2, <1>6, <1>7, <1>8, <1>9 DEF DetectorInv, CaptureAhead

LEMMA WorkerStep ==
  ASSUME DetectorInv, worker_done \/ worker_exit
  PROVE  DetectorInv'
<1>1. ThreadsInv
  BY DEF DetectorInv
<1>2. /\ UNCHANGED <<sm, ring, pos, left, pc, stopping, crossings, published, jobs>>
      /\ worker.at # "publish"
      /\ \/ worker' = [at |-> "wait", handle |-> kInvalid]
         \/ worker' = [worker EXCEPT !.at = "exit"] /\ stopping /\ jobs = <<>>
  BY DEF worker_done, worker_exit, blockVars
<1>3. worker \in [at : {"wait", "publish", "done", "exit"}, handle : Handle \cup {kInvalid}]
  BY <1>1 DEF ThreadsInv
<1>4. /\ worker' \in [at : {"wait", "publish", "done", "exit"}, handle : Handle \cup {kInvalid}]
      /\ worker'.at \in {"wait", "exit"}
      /\ worker'.at = "exit" => stopping /\ jobs = <<>>
  BY <1>2, <1>3
<1>5. (AtWorker \o jobs)' = AtWorker \o jobs
  BY <1>2, <1>4 DEF AtWorker
<1>6. pc = "stopped" => worker'.at = "exit"
  <2>1. pc = "stopped" => worker.at = "exit"
    BY <1>1 DEF ThreadsInv
  <2>2. worker.at \in {"done", "wait"}
    BY DEF worker_done, worker_exit
  <2> QED BY <2>1, <2>2
<1>7. ThreadsInv'
  BY <1>1, <1>2, <1>4, <1>6 DEF ThreadsInv
<1> QED BY <1>2, <1>5, <1>7, QuietStep

LEMMA DetectorStep == DetectorInv /\ [Next]_vars => DetectorInv'
<1> SUFFICES ASSUME DetectorInv, [Next]_vars PROVE DetectorInv'
  OBVIOUS
<1>1. CASE UNCHANGED vars
  <2>1. ThreadsInv' /\ (AtWorker \o jobs)' = AtWorker \o jobs
    BY <1>1 DEF vars, DetectorInv, ThreadsInv, AtWorker
  <2> QED BY <1>1, <2>1, QuietStep DEF vars
<1> QED BY <1>1, SearchStep, RegionStep, CaptureStep, BlockStep, EndStep, StopStep,
           StartStep, TakeStep, PublishStep, WorkerStep DEF Next

LEMMA AlwaysDetector == Spec => []DetectorInv
BY DetectorInit, DetectorStep, PTL DEF Spec

-----------------------------------------------------------------------------
\* A finished region is whole.
LEMMA WholeRegion ==
  ASSUME NEW r \in Region, Finished(r)
  PROVE  /\ FromTrigger(r) = [j \in DOMAIN FromTrigger(r) |-> Trigger(r) + j - 1]
         /\ r.flushed \/ \A e \in 0..r.offset : PduTo(r, e) >= e + Capture
<1> DEFINE s == r.samples
           l == Len(s)
           t == s[History]
           n == l - History + 1
<1>1. /\ s \in Seq(Int) /\ l \in Nat /\ r.start \in Nat /\ r.offset = History - 1
      /\ History <= l /\ \A k \in History..l : s[k] = t + (k - History)
      /\ r.flushed \/ l >= History + Capture
  BY DEF Region, Finished, Consecutive
<1>2. r.offset + 1 = History /\ n \in Nat
  BY <1>1, Sizes
<1>3. FromTrigger(r) = SubSeq(s, History, l) /\ Trigger(r) = t
  BY <1>2 DEF FromTrigger, Trigger
<1>4. t \in Int
  BY <1>1, Sizes
<1> HIDE DEF s, l, t
<1>5. SubSeq(s, History, l) = [j \in 1..n |-> s[History + j - 1]]
  BY <1>1, Sizes
<1>6. \A j \in 1..n : s[History + j - 1] = t + j - 1
  <2> SUFFICES ASSUME NEW j \in 1..n PROVE s[History + j - 1] = t + j - 1
    OBVIOUS
  <2>1. History + j - 1 \in History..l
    BY <1>1, Sizes
  <2>2. s[History + j - 1] = t + ((History + j - 1) - History)
    BY <1>1, <2>1
  <2> QED BY <1>4, <2>2, Sizes
<1>7. FromTrigger(r) = [j \in 1..n |-> t + j - 1]
  <2> HIDE DEF n
  <2> QED BY <1>3, <1>5, <1>6
<1>8. FromTrigger(r) = [j \in DOMAIN FromTrigger(r) |-> Trigger(r) + j - 1]
  <2> HIDE DEF n
  <2> QED BY <1>3, <1>7
<1>9. ASSUME ~r.flushed, NEW e \in 0..r.offset PROVE PduTo(r, e) >= e + Capture
  <2> DEFINE w == WindowStart(r, e)
             f == PduFrom(r, e)
  <2>1. e \in Nat /\ e <= History - 1 /\ r.start \in Nat /\ l >= History + Capture
    BY <1>1, <1>9, Sizes
  <2>2. w \in Nat /\ w >= r.start + e - PreTrigger
    BY <2>1, Sizes DEF WindowStart, Greater
  <2> HIDE DEF w
  <2>3. f \in Nat /\ f >= w - r.start
    BY <2>1, <2>2 DEF PduFrom, Greater, w
  <2>4. f >= e - PreTrigger
    BY <2>1, <2>2, <2>3, Sizes
  <2> HIDE DEF f
  <2>5. PduTo(r, e) = f + Lesser(PreTrigger + Capture, l - f)
    BY DEF PduTo, f, s, l
  <2>6. CASE PreTrigger + Capture < l - f
    BY <1>1, <2>1, <2>3, <2>4, <2>5, <2>6, Sizes DEF Lesser
  <2>7. CASE ~(PreTrigger + Capture < l - f)
    BY <1>1, <2>1, <2>3, <2>5, <2>7, Sizes DEF Lesser
  <2> QED BY <2>6, <2>7
<1> QED BY <1>8, <1>9

LEMMA InvWhole == DetectorInv => RegionWhole
<1> SUFFICES ASSUME DetectorInv, NEW i \in DOMAIN Outgoing
             PROVE  LET r == sm.region[Outgoing[i]] IN
                      /\ FromTrigger(r) = [j \in DOMAIN FromTrigger(r) |-> Trigger(r) + j - 1]
                      /\ r.flushed \/ \A e \in 0..r.offset : PduTo(r, e) >= e + Capture
  BY DEF RegionWhole, Regions
<1> DEFINE q == AtWorker \o jobs
           r == sm.region[Outgoing[i]]
<1>1. MachineInv(sm, q, pos, crossings - published) /\ Outgoing = q \o sm.ready
  BY DEF DetectorInv, Outgoing
<1>2. Outgoing[i] \in Range(q \o sm.ready)
  BY <1>1 DEF Range
<1>3. r \in Region /\ Finished(r)
  <2>1. Outgoing[i] \in Handle
    BY <1>1, <1>2, Queued DEF MachineInv
  <2>2. sm.region \in [Handle -> Region]
    BY <1>1 DEF MachineInv, Machine
  <2> QED BY <1>1, <1>2, <2>1, <2>2 DEF MachineInv
<1> HIDE DEF r
<1>4. /\ FromTrigger(r) = [j \in DOMAIN FromTrigger(r) |-> Trigger(r) + j - 1]
      /\ r.flushed \/ \A e \in 0..r.offset : PduTo(r, e) >= e + Capture
  BY <1>3, WholeRegion
<1> QED BY <1>4 DEF r

LEMMA InvCounted == DetectorInv => CrossingsAccounted
<1> SUFFICES ASSUME DetectorInv PROVE CrossingsAccounted
  OBVIOUS
<1> DEFINE q == AtWorker \o jobs
           x == Len(q \o sm.ready)
           one == IF sm.active = kInvalid THEN 0 ELSE 1
           d == sm.dropped
<1>1. MachineInv(sm, q, pos, crossings - published) /\ crossings \in Nat /\ published \in Nat
  BY DEF DetectorInv, ThreadsInv
<1>2. crossings - published = d + x + one /\ d \in Nat /\ x \in Nat /\ one \in Nat
  BY <1>1, Queued DEF MachineInv, Machine
<1>3. crossings = published + d + x + one
  <2> HIDE DEF d, x, one
  <2> QED BY <1>1, <1>2
<1> QED BY <1>3 DEF CrossingsAccounted, Outgoing

\* The stream blocks of the flow graph keep nothing of a packet detector's.
LEMMA AlwaysInBlocks == BlocksSpec => []DetectorInv
<1>1. BlocksInit => DetectorInv
  BY DetectorInit DEF BlocksInit
<1>2. DetectorInv /\ [BlocksNext]_<<vars, streamVars>> => DetectorInv'
  <2>1. [BlocksNext]_<<vars, streamVars>> => [Next]_vars
    BY DEF BlocksNext, preamble_work, energy_work
  <2> QED BY <2>1, DetectorStep
<1> QED BY <1>1, <1>2, PTL DEF BlocksSpec

(* Wherever the chunks end and whenever the worker runs, a region on its   *)
(* way to the worker is the unbroken stream from its trigger on and holds  *)
(* the whole capture of a packet found before the trigger, unless the      *)
(* stream ended (process, append_chunk, finish_region, update_gate).       *)
THEOREM RegionsWhole == Spec => []RegionWhole
BY InvWhole, AlwaysDetector, PTL

(* Every opening of the gate is published, on its way, being copied or     *)
(* counted as dropped, once: no slot is lost in GiveUp, flush_region, the  *)
(* queue or a restart.                                                     *)
THEOREM CrossingsCounted == Spec => []CrossingsAccounted
BY InvCounted, AlwaysDetector, PTL

(* Both, in a flow graph that runs one of the library's four detection     *)
(* blocks.                                                                 *)
THEOREM BlocksRegions == BlocksSpec => [](RegionWhole /\ CrossingsAccounted)
<1>1. DetectorInv => RegionWhole /\ CrossingsAccounted
  BY InvWhole, InvCounted
<1> QED BY <1>1, AlwaysInBlocks, PTL
=============================================================================
