--------------------- MODULE RealtimeDemodulatorProofs ---------------------
(***************************************************************************)
(* For any number of workers, any queue capacity, any number of packets    *)
(* and of threads calling drain(): the demodulator's types, one result per *)
(* accepted job, "drained means flushed" and "stop flushes".               *)
(***************************************************************************)
EXTENDS RealtimeDemodulator, TLAPS, FiniteSetTheorems

-----------------------------------------------------------------------------
(* Queues: sequences without repetitions that are pushed at one end and      *)
(* popped at the other.                                                      *)

\* What Append does to the elements of a sequence without repetitions.
LEMMA AppendRange ==
  ASSUME NEW S, NEW s \in Seq(S), NEW e \in S, e \notin Range(s),
         \A i, j \in DOMAIN s : i # j => s[i] # s[j]
  PROVE  /\ Append(s, e) \in Seq(S)
         /\ Range(Append(s, e)) = Range(s) \cup {e}
         /\ \A i, j \in DOMAIN Append(s, e) : i # j => Append(s, e)[i] # Append(s, e)[j]
<1> DEFINE t == Append(s, e)
<1>1. t \in Seq(S) /\ Len(t) = Len(s) + 1 /\ DOMAIN t = 1..(Len(s) + 1)
  OBVIOUS
<1>2. DOMAIN s = 1..Len(s) /\ Len(s) \in Nat
  OBVIOUS
<1>3. \A i \in 1..Len(s) : t[i] = s[i]
  OBVIOUS
<1>4. t[Len(s) + 1] = e
  OBVIOUS
<1>5. Range(t) = Range(s) \cup {e}
  <2>1. Range(t) \subseteq Range(s) \cup {e}
    BY <1>1, <1>2, <1>3, <1>4 DEF Range
  <2>2. Range(s) \subseteq Range(t)
    BY <1>1, <1>2, <1>3 DEF Range
  <2>3. e \in Range(t)
    BY <1>1, <1>2, <1>4 DEF Range
  <2> QED BY <2>1, <2>2, <2>3
<1>6. \A i \in 1..Len(s) : s[i] # e
  BY <1>2 DEF Range
<1>7. \A i, j \in DOMAIN t : i # j => t[i] # t[j]
  BY <1>1, <1>2, <1>3, <1>4, <1>6
<1> QED BY <1>1, <1>5, <1>7

\* What Tail does to them.
LEMMA TailRange ==
  ASSUME NEW S, NEW s \in Seq(S), s # <<>>,
         \A i, j \in DOMAIN s : i # j => s[i] # s[j]
  PROVE  /\ Tail(s) \in Seq(S) /\ Head(s) \in Range(s) /\ Range(s) \subseteq S
         /\ Range(Tail(s)) = Range(s) \ {Head(s)}
         /\ \A i, j \in DOMAIN Tail(s) : i # j => Tail(s)[i] # Tail(s)[j]
<1> DEFINE t == Tail(s)
<1>1. t \in Seq(S) /\ DOMAIN t = 1..(Len(s) - 1) /\ Len(s) \in Nat \ {0}
  OBVIOUS
<1>2. DOMAIN s = 1..Len(s) /\ Head(s) = s[1]
  OBVIOUS
<1>3. \A i \in 1..(Len(s) - 1) : t[i] = s[i + 1]
  OBVIOUS
<1>4. Head(s) \in Range(s) /\ Range(s) \subseteq S
  BY <1>1, <1>2 DEF Range
<1>5. Range(t) \subseteq Range(s) \ {Head(s)}
  <2> SUFFICES ASSUME NEW i \in DOMAIN t PROVE t[i] \in Range(s) /\ t[i] # s[1]
    BY <1>2 DEF Range
  <2>1. i + 1 \in DOMAIN s /\ i + 1 # 1 /\ t[i] = s[i + 1] /\ 1 \in DOMAIN s
    BY <1>1, <1>2, <1>3
  <2> QED BY <2>1 DEF Range
<1>6. Range(s) \ {Head(s)} \subseteq Range(t)
  <2> SUFFICES ASSUME NEW i \in DOMAIN s, s[i] # s[1] PROVE s[i] \in Range(t)
    BY <1>2 DEF Range
  <2>1. i - 1 \in 1..(Len(s) - 1) /\ i = (i - 1) + 1
    BY <1>1, <1>2
  <2>2. t[i - 1] = s[i]
    BY <2>1, <1>3
  <2> QED BY <2>1, <2>2, <1>1 DEF Range
<1>7. \A i, j \in DOMAIN t : i # j => t[i] # t[j]
  BY <1>1, <1>2, <1>3
<1> QED BY <1>1, <1>4, <1>5, <1>6, <1>7

-----------------------------------------------------------------------------
\* The workers the idle counter counts.
Parked == {w \in Workers : wpc[w] \in {"wait", "exited"}}

\* No worker exists before start() has spawned them or after stop() has
\* joined them; while they exist the idle counter is exact; and a worker
\* leaves only once stop() was called and the queue is empty.
NoPool == hpc \in {"stopped", "start_notify", "start_join"}
PhaseInv ==
  /\ NoPool => queue = <<>> /\ \A w \in Workers : wpc[w] = "none"
  /\ ~NoPool => idle = Cardinality(Parked) /\ \A w \in Workers : wpc[w] # "none"
  /\ hpc \in {"running", "notify", "reset_completed", "reset_failed"} => ~stopFlag
  /\ (\E w \in Workers : wpc[w] = "exited") => queue = <<>> /\ stopFlag

\* Where every accepted packet is; a worker past its publication holds a
\* published packet; ids are handed out in order.
PlaceInv ==
  /\ OneResultPerJob
  /\ \A w \in Workers : wpc[w] \in {"feedback", "notify"} => job[w] \in Published
  /\ \A w \in Working : job[w] \in Packets
  /\ \A p \in accepted : p <= sent

\* Every timed result has its feedback out, or a worker about to send it.
FeedbackInv ==
  /\ \A p \in feedback : result[p] \in Timed
  /\ \A w \in Workers : wpc[w] = "feedback" => result[job[w]] \in Timed
  /\ \A p \in Packets : result[p] \in Timed =>
       p \in feedback \/ \E w \in Workers : wpc[w] = "feedback" /\ job[w] = p

DemodInv == TypeOK /\ PhaseInv /\ PlaceInv /\ FeedbackInv

Threads == Workers \cup Callers \cup {Handler}

-----------------------------------------------------------------------------
\* Counting the parked workers.
LEMMA WorkersFinite ==
  ASSUME NEW S, S \subseteq Workers
  PROVE  /\ IsFiniteSet(S) /\ NumWorkers \in Nat /\ Cardinality(S) \in 0..NumWorkers
         /\ Cardinality(S) = NumWorkers => S = Workers
<1>1. IsFiniteSet(Workers)
  BY PoolAssumption
<1> QED
  BY <1>1, FS_Subset, FS_CardinalityType DEF NumWorkers

LEMMA ParkOne ==
  ASSUME NEW w \in Workers
  PROVE  /\ Cardinality(Parked \cup {w}) = IF w \in Parked THEN Cardinality(Parked) ELSE Cardinality(Parked) + 1
         /\ Cardinality(Parked \cup {w}) - 1 = Cardinality(Parked \ {w})
<1>1. IsFiniteSet(Parked) /\ Cardinality(Parked) \in Nat
  BY WorkersFinite DEF Parked
<1>2. CASE w \in Parked
  <2>1. Parked \cup {w} = Parked
    BY <1>2
  <2>2. Cardinality(Parked \ {w}) = Cardinality(Parked) - 1
    BY <1>1, <1>2, FS_RemoveElement
  <2> QED BY <1>1, <1>2, <2>1, <2>2
<1>3. CASE w \notin Parked
  <2>1. Parked \ {w} = Parked
    BY <1>3
  <2>2. Cardinality(Parked \cup {w}) = Cardinality(Parked) + 1
    BY <1>1, <1>3, FS_AddElement
  <2>3. Cardinality(Parked \ {w}) = Cardinality(Parked)
    BY <2>1
  <2> QED BY <1>1, <1>3, <2>2, <2>3
<1> QED BY <1>2, <1>3

-----------------------------------------------------------------------------
\* The counters stay natural numbers.
LEMMA StatsUpdate ==
  ASSUME NEW s \in Stats, NEW m \in Nat, NEW n \in Nat
  PROVE  /\ [s EXCEPT !.received = m] \in Stats /\ [s EXCEPT !.completed = m] \in Stats
         /\ [s EXCEPT !.failed = m] \in Stats
         /\ [s EXCEPT !.received = m, !.dropped = n] \in Stats
         /\ [s EXCEPT !.failed = m, !.dropped = n] \in Stats
<1>1. /\ [s EXCEPT !.received = m] \in Stats /\ [s EXCEPT !.completed = m] \in Stats
      /\ [s EXCEPT !.failed = m] \in Stats
  BY DEF Stats
<1>2. ASSUME NEW t \in Stats PROVE [t EXCEPT !.dropped = n] \in Stats
  BY DEF Stats
<1>3. [s EXCEPT !.received = m, !.dropped = n] = [[s EXCEPT !.received = m] EXCEPT !.dropped = n]
  BY Zenon
<1>4. [s EXCEPT !.failed = m, !.dropped = n] = [[s EXCEPT !.failed = m] EXCEPT !.dropped = n]
  BY Zenon
<1> QED BY <1>1, <1>2, <1>3, <1>4

\* A worker's wait, on arrival or after a wakeup: i is the number of parked
\* workers once it is counted among them.
LEMMA WaitStep ==
  ASSUME DemodInv, NEW w \in Workers, wpc[w] \in {"top", "wait"},
         NEW s, s \subseteq Threads,
         TakeOrWait(w, Cardinality(Parked \cup {w}), s),
         UNCHANGED <<stopFlag, hpc, draining, stats, sent, accepted, outVars, bounds>>
  PROVE  DemodInv'
<1> DEFINE i == Cardinality(Parked \cup {w})
<1>u. UNCHANGED <<stopFlag, hpc, draining, stats, sent, accepted, result, feedback, starts, resets>>
  BY DEF outVars, bounds
<1>t. TypeOK /\ PhaseInv /\ PlaceInv /\ FeedbackInv
  BY DEF DemodInv
<1>n. ~NoPool /\ ~NoPool'
  BY <1>t, <1>u DEF PhaseInv, NoPool
<1>1. CASE /\ queue # <<>>
           /\ idle' = i - 1 /\ asleep' = s
           /\ job' = [job EXCEPT ![w] = Head(queue)]
           /\ queue' = Tail(queue)
           /\ wpc' = [wpc EXCEPT ![w] = "decode"]
  <2> DEFINE h == Head(queue)
  <2>1. /\ queue' \in Seq(Packets) /\ h \in Range(queue) /\ Range(queue) \subseteq Packets
        /\ Range(queue') = Range(queue) \ {h} /\ IsInjective(queue')
        /\ Len(queue') = Len(queue) - 1
    <3>1. queue \in Seq(Packets) /\ IsInjective(queue)
      BY <1>t DEF TypeOK, PlaceInv, OneResultPerJob
    <3>2. \A a, b \in DOMAIN queue : a # b => queue[a] # queue[b]
      BY <3>1 DEF IsInjective
    <3>3. /\ queue' \in Seq(Packets) /\ h \in Range(queue) /\ Range(queue) \subseteq Packets
          /\ Range(queue') = Range(queue) \ {h}
          /\ \A a, b \in DOMAIN queue' : a # b => queue'[a] # queue'[b]
      BY <1>1, <3>1, <3>2, TailRange
    <3>4. Len(queue') = Len(queue) - 1
      BY <1>1, <3>1
    <3> QED BY <3>3, <3>4 DEF IsInjective
  <2>2. /\ wpc' \in [Workers -> {"none", "top", "wait", "decode", "feedback", "notify", "exited"}]
        /\ job' \in [Workers -> Packets \cup {NoPacket}]
        /\ wpc'[w] = "decode" /\ job'[w] = h
        /\ \A v \in Workers : v # w => wpc'[v] = wpc[v] /\ job'[v] = job[v]
    BY <1>1, <1>t, <2>1 DEF TypeOK
  <2>3. Parked' = Parked \ {w}
    BY <2>2 DEF Parked
  <2>4. idle' = Cardinality(Parked') /\ idle' \in 0..NumWorkers
    <3>1. idle' = Cardinality(Parked')
      BY <1>1, <2>3, ParkOne
    <3>2. Parked' \subseteq Workers
      BY DEF Parked
    <3>3. Cardinality(Parked') \in 0..NumWorkers
      BY <3>2, WorkersFinite
    <3> QED BY <3>1, <3>3
  <2>5. TypeOK'
    BY <1>t, <1>u, <1>1, <2>1, <2>2, <2>4, PoolAssumption DEF TypeOK, Threads
  <2>6. PhaseInv'
    BY <1>t, <1>u, <1>n, <1>1, <2>2, <2>4 DEF PhaseInv, NoPool
  <2>7. PlaceInv'
    <3>1. h \in accepted /\ h \notin Unpublished /\ h \notin Published /\ h \in Packets
      BY <1>t, <2>1 DEF PlaceInv, OneResultPerJob, Queued
    <3>2. wpc[w] \notin {"decode", "feedback", "notify"} /\ w \notin Working /\ Working \subseteq Workers
      BY DEF Working
    <3>3. Working' = Working \cup {w} /\ Published' = Published
      BY <1>u, <2>2 DEF Working, Published
    <3>4. Unpublished' = Unpublished \cup {h}
      BY <2>2, <3>2 DEF Unpublished
    <3>5. \A v \in Working : job[v] # h
      BY <1>t, <3>1 DEF PlaceInv, Working, Unpublished
    <3>6. OneResultPerJob'
      <4>1. accepted' = Queued' \cup Unpublished' \cup Published'
        BY <1>t, <1>u, <2>1, <3>3, <3>4 DEF PlaceInv, OneResultPerJob, Queued
      <4>2. Queued' \cap Unpublished' = {} /\ (Queued' \cup Unpublished') \cap Published' = {}
        BY <1>t, <2>1, <3>1, <3>3, <3>4 DEF PlaceInv, OneResultPerJob, Queued
      <4>3. \A u, v \in Working' : job'[u] = job'[v] => u = v
        BY <1>t, <2>2, <3>2, <3>3, <3>5 DEF PlaceInv, OneResultPerJob
      <4> QED BY <2>1, <4>1, <4>2, <4>3 DEF OneResultPerJob
    <3>7. \A v \in Workers : wpc'[v] \in {"feedback", "notify"} => job'[v] \in Published'
      BY <1>t, <2>2, <3>3 DEF PlaceInv
    <3>8. \A v \in Working' : job'[v] \in Packets
      BY <1>t, <2>2, <3>1, <3>2, <3>3 DEF PlaceInv
    <3> QED BY <1>t, <1>u, <3>6, <3>7, <3>8 DEF PlaceInv
  <2>8. FeedbackInv'
    BY <1>t, <1>u, <2>2 DEF FeedbackInv
  <2> QED BY <2>5, <2>6, <2>7, <2>8 DEF DemodInv
<1>2. ASSUME NEW pc \in {"exited", "wait"}, queue = <<>>,
             pc = "exited" <=> stopFlag,
             idle' = i, asleep' \subseteq s \cup {w},
             wpc' = [wpc EXCEPT ![w] = pc], UNCHANGED <<job, queue>>
      PROVE DemodInv'
  <2>2. /\ wpc' \in [Workers -> {"none", "top", "wait", "decode", "feedback", "notify", "exited"}]
        /\ wpc'[w] = pc
        /\ \A v \in Workers : v # w => wpc'[v] = wpc[v]
    BY <1>2, <1>t DEF TypeOK
  <2>3. Parked' = Parked \cup {w}
    BY <1>2, <2>2 DEF Parked
  <2>4. idle' = Cardinality(Parked') /\ idle' \in 0..NumWorkers
    <3>1. idle' = Cardinality(Parked')
      BY <1>2, <2>3
    <3>2. Parked' \subseteq Workers
      BY DEF Parked
    <3>3. Cardinality(Parked') \in 0..NumWorkers
      BY <3>2, WorkersFinite
    <3> QED BY <3>1, <3>3
  <2>5. TypeOK'
    BY <1>t, <1>u, <1>2, <2>2, <2>4 DEF TypeOK, Threads
  <2>6. PhaseInv'
    BY <1>t, <1>u, <1>n, <1>2, <2>2, <2>4 DEF PhaseInv, NoPool
  <2>7. Working' = Working /\ Published' = Published /\ Unpublished' = Unpublished /\ Queued' = Queued
    BY <1>u, <1>2, <2>2 DEF Working, Published, Unpublished, Queued
  <2>8. PlaceInv'
    BY <1>t, <1>u, <1>2, <2>2, <2>7 DEF PlaceInv, OneResultPerJob
  <2>9. FeedbackInv'
    BY <1>t, <1>u, <1>2, <2>2 DEF FeedbackInv
  <2> QED BY <2>5, <2>6, <2>8, <2>9 DEF DemodInv
<1>3. CASE /\ queue = <<>> /\ stopFlag
           /\ idle' = i /\ asleep' = s
           /\ wpc' = [wpc EXCEPT ![w] = "exited"]
           /\ UNCHANGED <<job, queue>>
  BY <1>2, <1>3
<1>4. CASE /\ queue = <<>> /\ ~stopFlag
           /\ idle' = i /\ asleep' = s \cup {w}
           /\ wpc' = [wpc EXCEPT ![w] = "wait"]
           /\ UNCHANGED <<job, queue>>
  BY <1>2, <1>4
<1> QED BY <1>1, <1>3, <1>4 DEF TakeOrWait

\* Facts about one worker that moves from one busy position to another.
LEMMA WorkerMoves ==
  ASSUME DemodInv, NEW w \in Workers, wpc[w] \in {"decode", "feedback", "notify"},
         NEW pc \in {"feedback", "notify", "top"},
         wpc' = [wpc EXCEPT ![w] = pc],
         UNCHANGED <<queue, stopFlag, idle, hpc>>
  PROVE  /\ wpc' \in [Workers -> {"none", "top", "wait", "decode", "feedback", "notify", "exited"}]
         /\ wpc'[w] = pc /\ \A v \in Workers : v # w => wpc'[v] = wpc[v]
         /\ PhaseInv'
<1>1. /\ wpc' \in [Workers -> {"none", "top", "wait", "decode", "feedback", "notify", "exited"}]
      /\ wpc'[w] = pc /\ \A v \in Workers : v # w => wpc'[v] = wpc[v]
  BY DEF DemodInv, TypeOK
<1>2. Parked' = Parked
  BY <1>1 DEF Parked
<1>3. PhaseInv'
  BY <1>1, <1>2 DEF DemodInv, PhaseInv, NoPool
<1> QED BY <1>1, <1>3

LEMMA DecodeStep ==
  ASSUME DemodInv, NEW w \in Workers, Decode(w) PROVE DemodInv'
<1>t. TypeOK /\ PhaseInv /\ PlaceInv /\ FeedbackInv
  BY DEF DemodInv
<1>u. UNCHANGED <<queue, stopFlag, idle, asleep, job, hpc, draining, sent, accepted, feedback, starts, resets>>
  BY DEF Decode, poolVars, bounds
<1> DEFINE p == job[w]
<1>1. PICK o \in Outcomes :
        /\ result' = [result EXCEPT ![p] = o]
        /\ stats' = IF o = "success" THEN [stats EXCEPT !.completed = @ + 1]
                                     ELSE [stats EXCEPT !.failed = @ + 1]
        /\ wpc' = [wpc EXCEPT ![w] = IF o \in Timed THEN "feedback" ELSE "notify"]
  BY DEF Decode
<1>2. wpc[w] = "decode" /\ w \in Working /\ p \in Packets /\ o # "none"
  BY <1>t DEF Decode, Working, PlaceInv, Outcomes, Timed
<1>3. p \in Unpublished /\ p \notin Published /\ p \notin Queued
  BY <1>t, <1>2 DEF PlaceInv, OneResultPerJob, Unpublished
<1>4. /\ wpc' \in [Workers -> {"none", "top", "wait", "decode", "feedback", "notify", "exited"}]
      /\ wpc'[w] = (IF o \in Timed THEN "feedback" ELSE "notify")
      /\ \A v \in Workers : v # w => wpc'[v] = wpc[v]
      /\ PhaseInv'
  BY <1>1, <1>2, <1>u, WorkerMoves
<1>5. /\ result' \in [Packets -> Outcomes \cup {"none"}]
      /\ result'[p] = o /\ \A q \in Packets : q # p => result'[q] = result[q]
  BY <1>1, <1>2, <1>t DEF TypeOK
<1>6. stats' \in Stats
  <2>1. stats \in Stats /\ stats.completed + 1 \in Nat /\ stats.failed + 1 \in Nat
    BY <1>t DEF TypeOK, Stats
  <2>2. /\ [stats EXCEPT !.completed = stats.completed + 1] \in Stats
        /\ [stats EXCEPT !.failed = stats.failed + 1] \in Stats
    BY <2>1, StatsUpdate
  <2> QED BY <1>1, <2>2
<1>7. TypeOK'
  BY <1>t, <1>u, <1>4, <1>5, <1>6 DEF TypeOK
<1>8. Working' = Working /\ Working \subseteq Workers
  BY <1>2, <1>4 DEF Working
<1>9. Published' = Published \cup {p}
  BY <1>2, <1>5 DEF Published
<1>10. \A v \in Workers : wpc[v] = "decode" /\ v # w => job[v] # p
  BY <1>t, <1>2 DEF PlaceInv, OneResultPerJob, Working
<1>11. Unpublished' = Unpublished \ {p}
  BY <1>2, <1>4, <1>10, <1>u DEF Unpublished
<1>12. OneResultPerJob'
  BY <1>t, <1>u, <1>3, <1>8, <1>9, <1>11 DEF PlaceInv, OneResultPerJob, Queued
<1>13. PlaceInv'
  BY <1>t, <1>u, <1>2, <1>4, <1>8, <1>9, <1>12 DEF PlaceInv
<1>14. FeedbackInv'
  <2>1. \A q \in feedback : result'[q] \in Timed
    <3>1. p \notin feedback
      BY <1>t, <1>2, <1>3 DEF FeedbackInv, Published, Timed
    <3> QED BY <3>1, <1>t, <1>5 DEF FeedbackInv, TypeOK
  <2>2. \A v \in Workers : wpc'[v] = "feedback" => result'[job[v]] \in Timed
    <3> SUFFICES ASSUME NEW v \in Workers, wpc'[v] = "feedback" PROVE result'[job[v]] \in Timed
      OBVIOUS
    <3>1. CASE v = w
      BY <3>1, <1>4, <1>5
    <3>2. CASE v # w
      <4>1. wpc[v] = "feedback" /\ v \in Working
        BY <3>2, <1>4 DEF Working
      <4>2. job[v] # p /\ job[v] \in Packets
        BY <4>1, <3>2, <1>2, <1>t DEF PlaceInv, OneResultPerJob
      <4> QED BY <4>1, <4>2, <1>5, <1>t DEF FeedbackInv
    <3> QED BY <3>1, <3>2
  <2>3. \A q \in Packets : result'[q] \in Timed =>
          q \in feedback \/ \E v \in Workers : wpc'[v] = "feedback" /\ job[v] = q
    <3> SUFFICES ASSUME NEW q \in Packets, result'[q] \in Timed, q \notin feedback
                 PROVE \E v \in Workers : wpc'[v] = "feedback" /\ job[v] = q
      OBVIOUS
    <3>1. CASE q = p
      BY <3>1, <1>4, <1>5
    <3>2. CASE q # p
      <4>1. PICK v \in Workers : wpc[v] = "feedback" /\ job[v] = q
        BY <3>2, <1>5, <1>t DEF FeedbackInv
      <4> QED BY <4>1, <1>2, <1>4
    <3> QED BY <3>1, <3>2
  <2> QED BY <1>u, <2>1, <2>2, <2>3 DEF FeedbackInv
<1> QED BY <1>4, <1>7, <1>13, <1>14 DEF DemodInv

LEMMA PublishFeedbackStep ==
  ASSUME DemodInv, NEW w \in Workers, PublishFeedback(w) PROVE DemodInv'
<1>t. TypeOK /\ PhaseInv /\ PlaceInv /\ FeedbackInv
  BY DEF DemodInv
<1>u. UNCHANGED <<queue, stopFlag, idle, asleep, job, hpc, draining, stats, sent, accepted, result, starts, resets>>
  BY DEF PublishFeedback, poolVars, bounds
<1>1. /\ wpc[w] = "feedback" /\ feedback' = feedback \cup {job[w]}
      /\ wpc' = [wpc EXCEPT ![w] = "notify"]
  BY DEF PublishFeedback
<1>2. w \in Working /\ job[w] \in Packets /\ result[job[w]] \in Timed
  BY <1>t, <1>1 DEF Working, PlaceInv, FeedbackInv
<1>3. /\ wpc' \in [Workers -> {"none", "top", "wait", "decode", "feedback", "notify", "exited"}]
      /\ wpc'[w] = "notify" /\ \A v \in Workers : v # w => wpc'[v] = wpc[v]
      /\ PhaseInv'
  BY <1>1, <1>u, WorkerMoves
<1>4. TypeOK'
  BY <1>t, <1>u, <1>1, <1>2, <1>3 DEF TypeOK
<1>5. Working' = Working /\ Published' = Published /\ Unpublished' = Unpublished /\ Queued' = Queued
  BY <1>u, <1>1, <1>3 DEF Working, Published, Unpublished, Queued
<1>6. PlaceInv'
  BY <1>t, <1>u, <1>1, <1>3, <1>5 DEF PlaceInv, OneResultPerJob
<1>7. FeedbackInv'
  BY <1>t, <1>u, <1>1, <1>2, <1>3 DEF FeedbackInv
<1> QED BY <1>3, <1>4, <1>6, <1>7 DEF DemodInv

LEMMA FinishJobStep ==
  ASSUME DemodInv, NEW w \in Workers, FinishJob(w) PROVE DemodInv'
<1>t. TypeOK /\ PhaseInv /\ PlaceInv /\ FeedbackInv
  BY DEF DemodInv
<1>u. UNCHANGED <<queue, stopFlag, idle, hpc, draining, stats, sent, accepted, result, feedback, starts, resets>>
  BY DEF FinishJob, outVars, bounds
<1>1. /\ wpc[w] = "notify" /\ asleep' = {} /\ wpc' = [wpc EXCEPT ![w] = "top"]
      /\ job' = [job EXCEPT ![w] = NoPacket]
  BY DEF FinishJob
<1>2. /\ wpc' \in [Workers -> {"none", "top", "wait", "decode", "feedback", "notify", "exited"}]
      /\ wpc'[w] = "top" /\ \A v \in Workers : v # w => wpc'[v] = wpc[v]
      /\ PhaseInv'
  BY <1>1, <1>u, WorkerMoves
<1>3. /\ job' \in [Workers -> Packets \cup {NoPacket}]
      /\ \A v \in Workers : v # w => job'[v] = job[v]
  BY <1>1, <1>t DEF TypeOK
<1>4. TypeOK'
  BY <1>t, <1>u, <1>1, <1>2, <1>3 DEF TypeOK
<1>5. /\ Working' = Working \ {w} /\ Working \subseteq Workers /\ Published' = Published
      /\ Unpublished' = Unpublished /\ Queued' = Queued
  BY <1>u, <1>1, <1>2, <1>3 DEF Working, Published, Unpublished, Queued
<1>6. PlaceInv'
  BY <1>t, <1>u, <1>2, <1>3, <1>5 DEF PlaceInv, OneResultPerJob
<1>7. FeedbackInv'
  BY <1>t, <1>u, <1>1, <1>2, <1>3 DEF FeedbackInv
<1> QED BY <1>2, <1>4, <1>6, <1>7 DEF DemodInv

-----------------------------------------------------------------------------
\* Steps that move no packet and no worker: drain() callers, wakeups, and
\* the block's thread between its calls.
LEMMA QuietStep ==
  ASSUME DemodInv, UNCHANGED <<queue, idle, wpc, job, sent, accepted, result, feedback>>, TypeOK',
         NoPool <=> NoPool',
         hpc' \in {"running", "notify", "reset_completed", "reset_failed"} => ~stopFlag',
         stopFlag => stopFlag'
  PROVE  DemodInv'
<1>1. Working' = Working /\ Published' = Published /\ Unpublished' = Unpublished /\ Queued' = Queued /\ Parked' = Parked
  BY DEF Working, Published, Unpublished, Queued, Parked
<1>2. PhaseInv'
  BY <1>1 DEF DemodInv, PhaseInv
<1>3. PlaceInv'
  BY <1>1 DEF DemodInv, PlaceInv, OneResultPerJob
<1>4. FeedbackInv'
  BY DEF DemodInv, FeedbackInv
<1> QED BY <1>2, <1>3, <1>4 DEF DemodInv

LEMMA HandleSamplesStep ==
  ASSUME DemodInv, HandleSamples PROVE DemodInv'
<1>t. TypeOK /\ PhaseInv /\ PlaceInv /\ FeedbackInv
  BY DEF DemodInv
<1>u. UNCHANGED <<stopFlag, idle, asleep, wpc, job, draining, result, feedback, starts, resets>>
  BY DEF HandleSamples, workerVars, outVars, bounds
<1> DEFINE p == sent + 1
<1>1. hpc = "running" /\ ~NoPool /\ sent' = p /\ p \in Packets /\ sent' \in 0..MaxPackets /\ p \notin accepted
  BY <1>t, PoolAssumption DEF HandleSamples, Ready, NoPool, TypeOK, Packets, PlaceInv
<1>2. /\ Working' = Working /\ Working \subseteq Workers /\ Published' = Published
      /\ Unpublished' = Unpublished /\ Parked' = Parked
  BY <1>u DEF Working, Published, Unpublished, Parked
<1>3. \A q \in accepted : q <= p
  BY <1>t DEF PlaceInv, TypeOK, Packets
<1>4. CASE Len(queue) >= QueueCapacity
  <2>1. /\ UNCHANGED <<queue, accepted, hpc>>
        /\ stats' = [stats EXCEPT !.received = @ + 1, !.dropped = @ + 1]
    BY <1>4 DEF HandleSamples
  <2>2. stats' \in Stats
    <3>1. stats \in Stats /\ stats.received + 1 \in Nat /\ stats.dropped + 1 \in Nat
      BY <1>t DEF TypeOK, Stats
    <3> QED BY <2>1, <3>1, StatsUpdate
  <2>3. TypeOK'
    BY <1>t, <1>u, <1>1, <2>1, <2>2 DEF TypeOK
  <2>4. PhaseInv'
    BY <1>t, <1>u, <1>2, <2>1 DEF PhaseInv, NoPool
  <2>5. PlaceInv'
    BY <1>t, <1>u, <1>1, <1>2, <1>3, <2>1 DEF PlaceInv, OneResultPerJob, Queued
  <2>6. FeedbackInv'
    BY <1>t, <1>u DEF FeedbackInv
  <2> QED BY <2>3, <2>4, <2>5, <2>6 DEF DemodInv
<1>5. CASE ~(Len(queue) >= QueueCapacity)
  <2>1. /\ stats' = [stats EXCEPT !.received = @ + 1] /\ queue' = Append(queue, p)
        /\ accepted' = accepted \cup {p} /\ hpc' = "notify"
    BY <1>5 DEF HandleSamples
  <2>2. stats' \in Stats
    <3>1. stats \in Stats /\ stats.received + 1 \in Nat /\ stats.dropped + 1 \in Nat
      BY <1>t DEF TypeOK, Stats
    <3> QED BY <2>1, <3>1, StatsUpdate
  <2>3. p \notin Range(queue) /\ p \notin Unpublished /\ p \notin Published
    BY <1>1, <1>t DEF PlaceInv, OneResultPerJob, Queued
  <2>4. queue' \in Seq(Packets) /\ Range(queue') = Range(queue) \cup {p} /\ IsInjective(queue')
    <3>1. queue \in Seq(Packets) /\ \A a, b \in DOMAIN queue : a # b => queue[a] # queue[b]
      BY <1>t DEF TypeOK, PlaceInv, OneResultPerJob, IsInjective
    <3>2. /\ queue' \in Seq(Packets) /\ Range(queue') = Range(queue) \cup {p}
          /\ \A a, b \in DOMAIN queue' : a # b => queue'[a] # queue'[b]
      BY <3>1, <2>1, <2>3, <1>1, AppendRange
    <3> QED BY <3>2 DEF IsInjective
  <2>5. Len(queue') <= QueueCapacity
    BY <1>5, <1>t, <2>1, PoolAssumption DEF TypeOK
  <2>6. TypeOK'
    BY <1>t, <1>u, <1>1, <2>1, <2>2, <2>4, <2>5 DEF TypeOK
  <2>7. \A w \in Workers : wpc[w] # "exited"
    BY <1>t, <1>1 DEF PhaseInv
  <2>8. PhaseInv'
    BY <1>t, <1>u, <1>1, <1>2, <2>1, <2>7 DEF PhaseInv, NoPool
  <2>9. OneResultPerJob'
    BY <1>t, <1>u, <1>2, <2>1, <2>3, <2>4 DEF PlaceInv, OneResultPerJob, Queued
  <2>10. \A q \in accepted' : q <= sent'
    BY <1>1, <1>3, <2>1 DEF Packets
  <2>11. PlaceInv'
    BY <1>t, <1>u, <1>2, <2>9, <2>10 DEF PlaceInv
  <2>12. FeedbackInv'
    BY <1>t, <1>u DEF FeedbackInv
  <2> QED BY <2>6, <2>8, <2>11, <2>12 DEF DemodInv
<1> QED BY <1>4, <1>5

LEMMA FinishStartStep ==
  ASSUME DemodInv, FinishStart PROVE DemodInv'
<1>t. TypeOK /\ PhaseInv /\ PlaceInv /\ FeedbackInv
  BY DEF DemodInv
<1>u. UNCHANGED <<queue, asleep, job, draining, stats, sent, accepted, result, feedback, starts, resets>>
  BY DEF FinishStart, outVars, bounds
<1>1. /\ hpc = "start_join" /\ stopFlag' = FALSE /\ idle' = 0 /\ hpc' = "running"
      /\ \A w \in Workers : wpc[w] = "none" /\ wpc'[w] = "top"
      /\ wpc' \in [Workers -> {"top"}]
  BY <1>t DEF FinishStart, PhaseInv, NoPool
<1>2. Parked' = {} /\ Cardinality(Parked') = 0
  BY <1>1, FS_EmptySet DEF Parked
<1>3. TypeOK'
  <2>1. NumWorkers \in Nat
    BY WorkersFinite
  <2>2. stopFlag' \in BOOLEAN
    BY <1>1
  <2>3. wpc' \in [Workers -> {"none", "top", "wait", "decode", "feedback", "notify", "exited"}]
    BY <1>1
  <2>4. idle' \in 0..NumWorkers
    BY <1>1, <2>1
  <2> QED BY <1>t, <1>u, <1>1, <2>2, <2>3, <2>4 DEF TypeOK
<1>4. PhaseInv'
  BY <1>1, <1>2 DEF PhaseInv, NoPool
<1>5. /\ Working' = {} /\ Working = {} /\ Unpublished' = {} /\ Unpublished = {}
      /\ Published' = Published /\ Queued' = Queued
  BY <1>u, <1>1 DEF Working, Unpublished, Published, Queued
<1>6. PlaceInv'
  BY <1>t, <1>u, <1>1, <1>5 DEF PlaceInv, OneResultPerJob
<1>7. FeedbackInv'
  BY <1>t, <1>u, <1>1 DEF FeedbackInv
<1> QED BY <1>3, <1>4, <1>6, <1>7 DEF DemodInv

LEMMA FinishStopStep ==
  ASSUME DemodInv, FinishStop PROVE DemodInv'
<1>t. TypeOK /\ PhaseInv /\ PlaceInv /\ FeedbackInv
  BY DEF DemodInv
<1>u. UNCHANGED <<queue, stopFlag, idle, asleep, job, draining, stats, sent, accepted, result, feedback, starts, resets>>
  BY DEF FinishStop, poolVars, outVars, bounds
<1>1. /\ hpc = "stop_join" /\ hpc' = "stopped" /\ wpc' \in [Workers -> {"none"}]
      /\ \A w \in Workers : wpc[w] = "exited" /\ wpc'[w] = "none"
  BY <1>t DEF FinishStop, Joined, PhaseInv, NoPool
<1>2. queue = <<>>
  BY <1>t, <1>1, PoolAssumption DEF PhaseInv
<1>3. TypeOK'
  BY <1>t, <1>u, <1>1 DEF TypeOK
<1>4. PhaseInv'
  BY <1>u, <1>1, <1>2 DEF PhaseInv, NoPool
<1>5. /\ Working' = {} /\ Working = {} /\ Unpublished' = {} /\ Unpublished = {}
      /\ Published' = Published /\ Queued' = Queued
  BY <1>u, <1>1 DEF Working, Unpublished, Published, Queued
<1>6. PlaceInv'
  BY <1>t, <1>u, <1>1, <1>5 DEF PlaceInv, OneResultPerJob
<1>7. FeedbackInv'
  BY <1>t, <1>u, <1>1 DEF FeedbackInv
<1> QED BY <1>3, <1>4, <1>6, <1>7 DEF DemodInv

-----------------------------------------------------------------------------
LEMMA DemodInit == Init => DemodInv
<1> SUFFICES ASSUME Init PROVE DemodInv
  OBVIOUS
<1>1. /\ Range(queue) = {} /\ IsInjective(queue) /\ Published = {} /\ Unpublished = {} /\ Working = {}
  BY DEF Init, Range, IsInjective, Published, Unpublished, Working
<1>2. TypeOK
  <2>1. NumWorkers \in Nat
    BY WorkersFinite
  <2>2. stopFlag \in BOOLEAN
    BY DEF Init
  <2>3. /\ queue \in Seq(Packets) /\ Len(queue) <= QueueCapacity /\ idle \in 0..NumWorkers
        /\ sent \in 0..MaxPackets /\ starts \in 0..MaxStarts /\ resets \in 0..MaxResets
    BY <2>1, PoolAssumption DEF Init
  <2>4. stats \in Stats
    BY DEF Init, Stats
  <2>5. /\ wpc \in [Workers -> {"none", "top", "wait", "decode", "feedback", "notify", "exited"}]
        /\ job \in [Workers -> Packets \cup {NoPacket}]
        /\ result \in [Packets -> Outcomes \cup {"none"}]
    BY DEF Init
  <2> QED BY <2>2, <2>3, <2>4, <2>5 DEF Init, TypeOK
<1>3. PhaseInv
  BY DEF Init, PhaseInv, NoPool
<1>4. PlaceInv
  BY <1>1 DEF Init, PlaceInv, OneResultPerJob, Queued
<1>5. FeedbackInv
  BY DEF Init, FeedbackInv, Timed
<1> QED BY <1>2, <1>3, <1>4, <1>5 DEF DemodInv

LEMMA DemodStep == DemodInv /\ [Next]_vars => DemodInv'
<1> SUFFICES ASSUME DemodInv, [Next]_vars PROVE DemodInv'
  OBVIOUS
<1>t. TypeOK /\ PhaseInv /\ PlaceInv /\ FeedbackInv
  BY DEF DemodInv
<1>1. ASSUME NEW w \in Workers, Arrive(w) PROVE DemodInv'
  <2>1. w \notin Parked /\ idle = Cardinality(Parked)
    BY <1>1, <1>t DEF Arrive, Parked, PhaseInv
  <2>2. TakeOrWait(w, Cardinality(Parked \cup {w}), {})
    BY <1>1, <2>1, ParkOne DEF Arrive
  <2> QED BY <1>1, <2>2, WaitStep DEF Arrive
<1>2. ASSUME NEW w \in Workers, Recheck(w) PROVE DemodInv'
  <2>1. w \in Parked /\ idle = Cardinality(Parked) /\ asleep \subseteq Threads
    BY <1>2, <1>t DEF Recheck, Parked, PhaseInv, TypeOK, Threads
  <2>2. TakeOrWait(w, Cardinality(Parked \cup {w}), asleep)
    BY <1>2, <2>1, ParkOne DEF Recheck
  <2> QED BY <1>2, <2>1, <2>2, WaitStep DEF Recheck
<1>3. ASSUME NEW w \in Workers, WorkerStep(w) PROVE DemodInv'
  BY <1>3, <1>1, <1>2, DecodeStep, PublishFeedbackStep, FinishJobStep DEF WorkerStep
<1>4. ASSUME NEW t \in Callers \cup {Handler}, DrainCall(t) \/ DrainRecheck(t) PROVE DemodInv'
  <2>1. /\ UNCHANGED <<queue, stopFlag, idle, wpc, job, hpc, stats, sent, accepted, result, feedback, starts, resets>>
        /\ DrainCheck(t)
    BY <1>4 DEF DrainCall, DrainRecheck, workerVars, outVars, bounds
  <2>2. draining' \subseteq Callers \cup {Handler} /\ asleep' \subseteq Workers \cup Callers \cup {Handler}
    BY <2>1, <1>t DEF DrainCheck, TypeOK
  <2>3. TypeOK'
    BY <1>t, <2>1, <2>2 DEF TypeOK
  <2> QED BY <1>t, <2>1, <2>3, QuietStep DEF NoPool, PhaseInv
<1>5. ASSUME NEW t \in asleep, SpuriousWakeup(t) PROVE DemodInv'
  <2>1. /\ UNCHANGED <<queue, stopFlag, idle, wpc, job, hpc, draining, stats, sent, accepted, result, feedback, starts, resets>>
        /\ asleep' = asleep \ {t}
    BY <1>5 DEF SpuriousWakeup, workerVars, outVars, bounds
  <2>2. TypeOK'
    BY <1>t, <2>1 DEF TypeOK
  <2> QED BY <1>t, <2>1, <2>2, QuietStep DEF NoPool, PhaseInv
<1>6. ASSUME BeginStart \/ BeginStop PROVE DemodInv'
  <2>1. /\ UNCHANGED <<queue, idle, asleep, wpc, job, draining, stats, sent, accepted, result, feedback, resets>>
        /\ stopFlag' = TRUE /\ starts' \in 0..MaxStarts
        /\ \/ hpc = "stopped" /\ hpc' = "start_notify"
           \/ hpc = "running" /\ hpc' = "stop_notify"
    <3>1. starts \in 0..MaxStarts /\ MaxStarts \in Nat
      BY <1>t, PoolAssumption DEF TypeOK
    <3>2. CASE BeginStart
      <4>1. starts' \in 0..MaxStarts
        BY <3>1, <3>2 DEF BeginStart
      <4> QED BY <3>2, <4>1 DEF BeginStart, workerVars, outVars
    <3>3. CASE BeginStop
      BY <3>1, <3>3 DEF BeginStop, Ready, workerVars, outVars, bounds
    <3> QED BY <1>6, <3>2, <3>3
  <2>2. TypeOK'
    <3>1. stopFlag' \in BOOLEAN
      BY <2>1
    <3> QED BY <1>t, <2>1, <3>1 DEF TypeOK
  <2> QED BY <1>t, <2>1, <2>2, QuietStep DEF NoPool
<1>7. ASSUME NotifyStop \/ NotifyOne PROVE DemodInv'
  <2>1. /\ UNCHANGED <<queue, stopFlag, idle, wpc, job, draining, stats, sent, accepted, result, feedback, starts, resets>>
        /\ asleep' \subseteq asleep
        /\ \/ hpc = "start_notify" /\ hpc' = "start_join"
           \/ hpc = "stop_notify" /\ hpc' = "stop_join"
           \/ hpc = "notify" /\ hpc' = "running"
    BY <1>7 DEF NotifyStop, NotifyOne, workerVars, outVars, bounds
  <2>2. TypeOK'
    BY <1>t, <2>1 DEF TypeOK
  <2> QED BY <1>t, <2>1, <2>2, QuietStep DEF NoPool, PhaseInv
<1>8. ASSUME BeginReset \/ ResetCompleted \/ ResetFailed PROVE DemodInv'
  <2>1. /\ UNCHANGED <<queue, stopFlag, idle, asleep, wpc, job, draining, sent, accepted, result, feedback, starts>>
        /\ resets' \in 0..MaxResets
        /\ hpc \in {"running", "reset_completed", "reset_failed"}
        /\ hpc' \in {"running", "reset_completed", "reset_failed"}
    BY <1>8, <1>t, PoolAssumption
       DEF BeginReset, ResetCompleted, ResetFailed, Ready, poolVars, workerVars, outVars, bounds, TypeOK
  <2>2. stats' \in Stats
    <3>1. stats \in Stats /\ 0 \in Nat
      BY <1>t DEF TypeOK
    <3>2. /\ [stats EXCEPT !.received = 0] \in Stats /\ [stats EXCEPT !.completed = 0] \in Stats
          /\ [stats EXCEPT !.failed = 0, !.dropped = 0] \in Stats
      BY <3>1, StatsUpdate
    <3> QED BY <1>8, <3>2 DEF BeginReset, ResetCompleted, ResetFailed
  <2>3. TypeOK'
    BY <1>t, <2>1, <2>2 DEF TypeOK
  <2> QED BY <1>t, <2>1, <2>3, QuietStep DEF NoPool, PhaseInv
<1>9. ASSUME HandlerStep PROVE DemodInv'
  BY <1>9, <1>7, <1>8, FinishStartStep, FinishStopStep DEF HandlerStep
<1>10. ASSUME UNCHANGED vars PROVE DemodInv'
  <2>1. /\ UNCHANGED <<queue, stopFlag, idle, asleep, wpc, job, hpc, draining, stats, sent, accepted, result, feedback, starts, resets>>
    BY <1>10 DEF vars, poolVars, workerVars, outVars, bounds
  <2>2. TypeOK'
    BY <1>t, <2>1 DEF TypeOK
  <2> QED BY <1>t, <2>1, <2>2, QuietStep DEF NoPool, PhaseInv
<1> QED
  BY <1>3, <1>4, <1>5, <1>6, <1>8, <1>9, <1>10, HandleSamplesStep DEF Next

\* The inductive invariant: types, phases, places and feedback together.
THEOREM DemodInvariant == Spec => []DemodInv
  BY DemodInit, DemodStep, PTL DEF Spec

\* The type invariant; the bound on the idle counter is what drain() needs.
THEOREM DemodTypes == Spec => []TypeOK
<1>1. DemodInv => TypeOK
  BY DEF DemodInv
<1> QED BY <1>1, DemodInvariant, PTL

\* One result per accepted job, none lost and none decoded twice.
THEOREM ResultsUnique == Spec => []OneResultPerJob
<1>1. DemodInv => OneResultPerJob
  BY DEF DemodInv, PlaceInv
<1> QED BY <1>1, DemodInvariant, PTL

\* When drained() is true, or drain() returns, everything accepted is out:
\* an idle counter that has reached the number of workers leaves no worker
\* between taking a job and publishing its messages.
THEOREM DrainFlushes == Spec => []DrainedMeansFlushed
<1>1. DemodInv => DrainedMeansFlushed
  <2> SUFFICES ASSUME DemodInv, Drained
               PROVE  /\ accepted = Published
                      /\ feedback = {p \in Packets : result[p] \in Timed}
    BY DEF DrainedMeansFlushed
  <2>t. TypeOK /\ PhaseInv /\ PlaceInv /\ FeedbackInv
    BY DEF DemodInv
  <2>1. \A w \in Workers : wpc[w] \in {"none", "wait", "exited"}
    <3>1. CASE NoPool
      BY <3>1, <2>t DEF PhaseInv
    <3>2. CASE ~NoPool
      <4>1. Parked \subseteq Workers /\ Cardinality(Parked) = NumWorkers
        BY <3>2, <2>t DEF PhaseInv, Drained, Parked
      <4>2. Parked = Workers
        BY <4>1, WorkersFinite
      <4> QED BY <4>2 DEF Parked
    <3> QED BY <3>1, <3>2
  <2>2. Queued = {} /\ Unpublished = {}
    BY <2>1 DEF Drained, Queued, Range, Unpublished
  <2>3. accepted = Published
    BY <2>2, <2>t DEF PlaceInv, OneResultPerJob
  <2>4. feedback = {p \in Packets : result[p] \in Timed}
    BY <2>1, <2>t DEF FeedbackInv, TypeOK
  <2> QED BY <2>3, <2>4
<1> QED BY <1>1, DemodInvariant, PTL

\* stop() returns with nothing accepted left behind.
THEOREM StopLeavesNothing == Spec => []StopFlushes
<1>1. DemodInv => StopFlushes
  <2> SUFFICES ASSUME DemodInv, hpc = "stopped" PROVE accepted = Published
    BY DEF StopFlushes
  <2>1. Queued = {} /\ Unpublished = {}
    BY DEF DemodInv, PhaseInv, NoPool, Queued, Range, Unpublished
  <2> QED BY <2>1 DEF DemodInv, PlaceInv, OneResultPerJob
<1> QED BY <1>1, DemodInvariant, PTL

-----------------------------------------------------------------------------
\* No lost wakeup, when drain() is called by the block's own thread only.
\* Besides DemodInv the argument needs to know who may be asleep: workers at
\* their wait, and the block's thread inside drain(), never while it owes a
\* notification.
Live  == {w \in Workers : wpc[w] \notin {"none", "exited"}}
Awake == Live \ asleep
Owed  == IF hpc = "notify" THEN 1 ELSE 0
Covered == Live \cap asleep # {} => Len(queue) <= Cardinality(Awake) + Owed

SleepInv ==
  /\ \A w \in Workers : w \in asleep => wpc[w] = "wait"
  /\ Handler \in asleep => Handler \in draining
  /\ Handler \in draining => hpc = "running"

WakeInv == DemodInv /\ SleepInv /\ Covered

LEMMA AwakeFinite ==
  /\ IsFiniteSet(Awake) /\ Cardinality(Awake) \in Nat
  /\ IsFiniteSet(Awake)' /\ Cardinality(Awake)' \in Nat
<1>1. Awake \subseteq Workers /\ Awake' \subseteq Workers
  BY DEF Awake, Live
<1> QED BY <1>1, WorkersFinite

\* An empty wait set, an empty queue, or nothing but more workers awake.
LEMMA CoveredStep ==
  ASSUME DemodInv, DemodInv', Covered,
         \/ Live' \cap asleep' = {}
         \/ queue' = <<>>
         \/ /\ Live' \cap asleep' \subseteq Live \cap asleep /\ Awake \subseteq Awake'
            /\ Len(queue') + Owed <= Len(queue) + Owed'
  PROVE  Covered'
<1>1. Len(queue) \in Nat /\ Len(queue') \in Nat /\ Owed \in 0..1 /\ Owed' \in 0..1
  BY DEF DemodInv, TypeOK, Owed
<1>2. CASE Awake \subseteq Awake'
  <2>1. Cardinality(Awake) <= Cardinality(Awake')
    BY <1>2, AwakeFinite, FS_Subset
  <2> QED BY <1>1, <2>1, AwakeFinite DEF Covered
<1>3. CASE queue' = <<>>
  <2>1. Len(queue') = 0
    BY <1>3
  <2> QED BY <1>1, <2>1, AwakeFinite DEF Covered
<1> QED BY <1>2, <1>3 DEF Covered

LEMMA WakeWorker ==
  ASSUME Callers = {}, WakeInv, DemodInv', NEW w \in Workers, WorkerStep(w)
  PROVE  WakeInv'
<1>t. TypeOK /\ SleepInv /\ Covered /\ DemodInv
  BY DEF WakeInv, DemodInv
<1>u. UNCHANGED <<hpc, draining>>
  BY DEF WorkerStep, Arrive, Recheck, Decode, PublishFeedback, FinishJob
<1>1. ASSUME NEW i, NEW s, s \subseteq asleep, w \notin s, TakeOrWait(w, i, s),
             wpc[w] \in {"top", "wait"}, s = {} \/ s = asleep
      PROVE  WakeInv'
  <2>1. \A v \in Workers : v # w => wpc'[v] = wpc[v]
    BY <1>1, <1>t DEF TakeOrWait, TypeOK
  <2>2. /\ asleep' = s \/ (asleep' = s \cup {w} /\ wpc'[w] = "wait")
        /\ w \in asleep' => queue' = <<>>
    BY <1>1, <1>t DEF TakeOrWait, TypeOK
  <2>3. SleepInv'
    BY <2>1, <2>2, <1>1, <1>t, <1>u, PoolAssumption DEF SleepInv
  <2>4. Covered'
    <3>1. CASE queue' = <<>>
      BY <3>1, <1>t, CoveredStep
    <3>2. CASE queue' # <<>> /\ s = {}
      <4>1. Live' \cap asleep' = {}
        BY <3>2, <2>2 DEF Live
      <4> QED BY <4>1, <1>t, CoveredStep
    <3>3. CASE queue' # <<>> /\ s = asleep
      <4>1. queue # <<>> /\ queue' = Tail(queue) /\ asleep' = asleep /\ wpc'[w] = "decode"
        BY <3>3, <1>1, <1>t DEF TakeOrWait, TypeOK
      <4>2. Live' = Live
        BY <4>1, <2>1, <1>1 DEF Live
      <4>3. Len(queue') + Owed <= Len(queue) + Owed'
        BY <4>1, <1>t, <1>u DEF TypeOK, Owed
      <4> QED BY <4>1, <4>2, <4>3, <1>t, CoveredStep DEF Awake
    <3> QED BY <1>1, <3>1, <3>2, <3>3
  <2> QED BY <2>3, <2>4 DEF WakeInv
<1>2. CASE Arrive(w)
  BY <1>2, <1>1 DEF Arrive
<1>3. CASE Recheck(w)
  BY <1>3, <1>1 DEF Recheck
<1>4. CASE Decode(w) \/ PublishFeedback(w) \/ FinishJob(w)
  <2>1. /\ queue' = queue /\ asleep' \in {asleep, {}}
        /\ wpc[w] \in {"decode", "feedback", "notify"} /\ wpc'[w] \notin {"none", "exited"}
        /\ \A v \in Workers : v # w => wpc'[v] = wpc[v]
    BY <1>4, <1>t DEF Decode, PublishFeedback, FinishJob, poolVars, TypeOK
  <2>2. Live' = Live
    BY <2>1 DEF Live
  <2>3. SleepInv'
    BY <2>1, <1>t, <1>u, PoolAssumption DEF SleepInv
  <2>4. Live' \cap asleep' \subseteq Live \cap asleep /\ Awake \subseteq Awake'
    BY <2>1, <2>2 DEF Awake
  <2>5. Len(queue') + Owed <= Len(queue) + Owed'
    BY <2>1, <1>t, <1>u DEF TypeOK, Owed
  <2>6. Covered'
    BY <2>4, <2>5, <1>t, CoveredStep
  <2> QED BY <2>3, <2>6 DEF WakeInv
<1> QED BY <1>2, <1>3, <1>4 DEF WorkerStep

LEMMA WakeNotify ==
  ASSUME Callers = {}, WakeInv, DemodInv', NotifyOne
  PROVE  WakeInv'
<1>t. TypeOK /\ SleepInv /\ Covered /\ DemodInv
  BY DEF WakeInv, DemodInv
<1>1. /\ UNCHANGED <<queue, wpc, draining>> /\ hpc = "notify" /\ hpc' = "running"
      /\ Handler \notin draining
  BY <1>t DEF NotifyOne, workerVars, SleepInv
<1>2. CASE asleep = {}
  <2>1. asleep' = {}
    BY <1>2 DEF NotifyOne
  <2>2. Covered'
    BY <2>1, <1>t, CoveredStep
  <2>3. SleepInv'
    BY <2>1, <1>1, <1>t DEF SleepInv
  <2> QED BY <2>2, <2>3 DEF WakeInv
<1>3. CASE asleep # {}
  <2>1. PICK t \in asleep : asleep' = asleep \ {t}
    BY <1>3 DEF NotifyOne
  <2>2. t \in Workers /\ wpc[t] = "wait" /\ t \in Live \cap asleep
    BY <1>t, <1>1 DEF TypeOK, SleepInv, Live
  <2>3. Live' = Live /\ Awake' = Awake \cup {t} /\ t \notin Awake
    BY <2>1, <2>2, <1>1 DEF Live, Awake
  <2>4. Cardinality(Awake') = Cardinality(Awake) + 1
    BY <2>3, AwakeFinite, FS_AddElement
  <2>5. Len(queue) <= Cardinality(Awake) + 1
    BY <2>2, <1>t, <1>1 DEF Covered, Owed
  <2>6. Covered'
    BY <2>4, <2>5, <1>1, AwakeFinite DEF Covered, Owed
  <2>7. SleepInv'
    BY <2>1, <1>1, <1>t DEF SleepInv
  <2> QED BY <2>6, <2>7 DEF WakeInv
<1> QED BY <1>2, <1>3

LEMMA WakeHandler ==
  ASSUME Callers = {}, WakeInv, DemodInv',
         \/ BeginStart \/ BeginStop \/ HandleSamples \/ BeginReset
         \/ NotifyStop \/ FinishStart \/ FinishStop \/ ResetCompleted \/ ResetFailed
  PROVE  WakeInv'
<1>t. TypeOK /\ SleepInv /\ Covered /\ DemodInv /\ PhaseInv
  BY DEF WakeInv, DemodInv
<1>1. CASE FinishStart \/ FinishStop
  <2>1. asleep' = asleep /\ draining' = draining /\ Handler \notin draining
    BY <1>1, <1>t DEF FinishStart, FinishStop, poolVars, SleepInv
  <2>2. \A w \in Workers : w \notin asleep
    BY <1>1, <1>t DEF FinishStart, FinishStop, Joined, SleepInv
  <2>3. Live' \cap asleep' = {}
    BY <2>1, <2>2 DEF Live
  <2>4. Covered'
    BY <2>3, <1>t, CoveredStep
  <2>5. SleepInv'
    BY <2>1, <2>2, <1>t DEF SleepInv
  <2> QED BY <2>4, <2>5 DEF WakeInv
<1>2. CASE HandleSamples
  <2>1. /\ UNCHANGED <<asleep, wpc, draining>> /\ Handler \notin draining /\ hpc = "running"
        /\ \/ UNCHANGED <<queue, hpc>>
           \/ hpc' = "notify" /\ Len(queue') = Len(queue) + 1
    BY <1>2, <1>t DEF HandleSamples, Ready, workerVars, TypeOK
  <2>2. Live' = Live /\ Awake' = Awake
    BY <2>1 DEF Live, Awake
  <2>3. Len(queue') + Owed <= Len(queue) + Owed'
    BY <2>1, <1>t DEF Owed, TypeOK
  <2>4. Covered'
    BY <2>1, <2>2, <2>3, <1>t, CoveredStep
  <2>5. SleepInv'
    BY <2>1, <1>t DEF SleepInv
  <2> QED BY <2>4, <2>5 DEF WakeInv
<1>3. CASE BeginStart \/ BeginStop \/ BeginReset \/ NotifyStop \/ ResetCompleted \/ ResetFailed
  <2>1. /\ UNCHANGED <<queue, wpc, draining>> /\ asleep' \in {asleep, {}}
        /\ Handler \notin draining /\ hpc # "notify" /\ hpc' # "notify"
    BY <1>3, <1>t DEF BeginStart, BeginStop, BeginReset, NotifyStop, ResetCompleted, ResetFailed,
                      Ready, SleepInv, poolVars, workerVars
  <2>2. Live' = Live
    BY <2>1 DEF Live
  <2>3. Live' \cap asleep' \subseteq Live \cap asleep /\ Awake \subseteq Awake'
    BY <2>1, <2>2 DEF Awake
  <2>4. Len(queue') + Owed <= Len(queue) + Owed'
    BY <2>1, <1>t DEF Owed, TypeOK
  <2>5. Covered'
    BY <2>3, <2>4, <1>t, CoveredStep
  <2>6. SleepInv'
    BY <2>1, <1>t DEF SleepInv
  <2> QED BY <2>5, <2>6 DEF WakeInv
<1> QED BY <1>1, <1>2, <1>3

LEMMA WakeStep == Callers = {} /\ WakeInv /\ [Next]_vars => WakeInv'
<1> SUFFICES ASSUME Callers = {}, WakeInv, [Next]_vars PROVE WakeInv'
  OBVIOUS
<1>t. TypeOK /\ SleepInv /\ Covered /\ DemodInv /\ DemodInv'
  BY DemodStep DEF WakeInv, DemodInv
<1>1. ASSUME UNCHANGED <<queue, wpc, hpc>>, SleepInv',
             Live \cap asleep' \subseteq Live \cap asleep, Awake \subseteq Live \ asleep'
      PROVE  WakeInv'
  <2>1. Live' = Live /\ Awake' = Live \ asleep' /\ Owed' = Owed
    BY <1>1 DEF Live, Awake, Owed
  <2>2. Len(queue') + Owed <= Len(queue) + Owed'
    BY <2>1, <1>1, <1>t DEF TypeOK, Owed
  <2>3. Covered'
    BY <2>1, <2>2, <1>1, <1>t, CoveredStep
  <2> QED BY <2>3, <1>1, <1>t DEF WakeInv
<1>2. ASSUME NEW t \in Callers \cup {Handler}, DrainCall(t) \/ DrainRecheck(t) PROVE WakeInv'
  <2>1. /\ t = Handler /\ UNCHANGED <<queue, wpc, hpc>> /\ DrainCheck(t) /\ hpc = "running"
    BY <1>2, <1>t DEF DrainCall, DrainRecheck, Ready, workerVars, SleepInv
  <2>2. SleepInv'
    BY <2>1, <1>2, <1>t, PoolAssumption DEF SleepInv, DrainCheck, DrainCall, DrainRecheck
  <2>3. Live \cap asleep' \subseteq Live \cap asleep /\ Awake \subseteq Live \ asleep'
    BY <2>1, PoolAssumption DEF DrainCheck, Live, Awake
  <2> QED BY <2>1, <2>2, <2>3, <1>1
<1>3. ASSUME NEW t \in asleep, SpuriousWakeup(t) PROVE WakeInv'
  <2>1. UNCHANGED <<queue, wpc, hpc, draining>> /\ asleep' = asleep \ {t}
    BY <1>3 DEF SpuriousWakeup, workerVars
  <2>2. SleepInv'
    BY <2>1, <1>t DEF SleepInv
  <2>3. Live \cap asleep' \subseteq Live \cap asleep /\ Awake \subseteq Live \ asleep'
    BY <2>1 DEF Awake
  <2> QED BY <2>1, <2>2, <2>3, <1>1
<1>4. ASSUME UNCHANGED vars PROVE WakeInv'
  <2>1. UNCHANGED <<queue, wpc, hpc, draining, asleep>>
    BY <1>4 DEF vars, poolVars, workerVars
  <2>2. SleepInv'
    BY <2>1, <1>t DEF SleepInv
  <2>3. Live \cap asleep' \subseteq Live \cap asleep /\ Awake \subseteq Live \ asleep'
    BY <2>1 DEF Awake
  <2> QED BY <2>1, <2>2, <2>3, <1>1
<1> QED
  BY <1>t, <1>2, <1>3, <1>4, WakeWorker, WakeNotify, WakeHandler DEF Next, HandlerStep

\* Work conservation, for a block that only its own thread drains: while a
\* worker sleeps there are no more queued packets than workers awake, the
\* notification still owed counted in.
THEOREM NoLostWakeup == Callers = {} => (Spec => []NoStrandedJob)
<1> SUFFICES ASSUME Callers = {} PROVE Spec => []NoStrandedJob
  OBVIOUS
<1>1. Init => WakeInv
  <2> SUFFICES ASSUME Init PROVE SleepInv /\ Covered
    BY DemodInit DEF WakeInv
  <2> QED BY DEF Init, SleepInv, Covered, Live
<1>2. WakeInv /\ [Next]_vars => WakeInv'
  BY WakeStep
<1>3. WakeInv => NoStrandedJob
  BY DEF WakeInv, Covered, Awake, Live, Owed, NoStrandedJob
<1> QED BY <1>1, <1>2, <1>3, PTL DEF Spec

-----------------------------------------------------------------------------
\* The pool as its clients see it.  Where a packet is held does not show: a
\* packet accepted or a result published is a step of the abstract pool, and
\* nothing else is.
Held == Queued \cup Unpublished

\* WorkPool counts with the Cardinality of its own FiniteSets.
LEMMA SameCount == \A S : Pool!Cardinality(S) = Cardinality(S)
BY DEF Pool!Cardinality, Cardinality, Pool!IsFiniteSet, IsFiniteSet

LEMMA HeldBounded ==
  ASSUME DemodInv
  PROVE  IsFiniteSet(Held) /\ Cardinality(Held) <= Len(queue) + NumWorkers
<1> DEFINE busy == {w \in Workers : wpc[w] = "decode"}
           S == 1..Len(queue)
<1>1. queue \in Seq(Packets) /\ Len(queue) \in Nat /\ DOMAIN queue = S
  BY DEF DemodInv, TypeOK
<1>2. /\ IsFiniteSet(S) /\ Cardinality(S) = Len(queue)
  BY <1>1, FS_Interval
<1>3. Queued = {queue[i] : i \in S}
  BY <1>1 DEF Queued, Range
<1>4. IsFiniteSet(Queued) /\ Cardinality(Queued) <= Len(queue)
  <2> DEFINE f == [i \in S |-> queue[i]]
  <2>1. f \in Surjection(S, Queued)
    BY <1>3 DEF Surjection
  <2> QED BY <1>2, <2>1, FS_Surjection
<1>5. busy \subseteq Workers /\ IsFiniteSet(busy) /\ Cardinality(busy) <= NumWorkers
  BY WorkersFinite
<1>6. IsFiniteSet(Unpublished) /\ Cardinality(Unpublished) <= NumWorkers
  <2> DEFINE f == [w \in busy |-> job[w]]
  <2>1. f \in Surjection(busy, Unpublished)
    BY DEF Surjection, Unpublished
  <2>2. IsFiniteSet(Unpublished) /\ Cardinality(Unpublished) <= Cardinality(busy)
    BY <1>5, <2>1, FS_Surjection
  <2>3. Cardinality(busy) \in Nat /\ Cardinality(Unpublished) \in Nat /\ NumWorkers \in Nat
    BY <1>5, <2>2, FS_CardinalityType, WorkersFinite
  <2> QED BY <1>5, <2>2, <2>3
<1>7. IsFiniteSet(Held) /\ Cardinality(Held) = Cardinality(Queued) + Cardinality(Unpublished)
                                              - Cardinality(Queued \cap Unpublished)
  BY <1>4, <1>6, FS_Union DEF Held
<1>8. /\ Cardinality(Queued) \in Nat /\ Cardinality(Unpublished) \in Nat /\ NumWorkers \in Nat
      /\ Cardinality(Queued \cap Unpublished) \in Nat
  <2>1. IsFiniteSet(Queued \cap Unpublished)
    BY <1>4, FS_Subset
  <2> QED BY <1>4, <1>6, <2>1, FS_CardinalityType, WorkersFinite
<1> QED BY <1>1, <1>4, <1>6, <1>7, <1>8

\* Between the acceptance of a packet and its result nothing shows.
LEMMA PoolQuiet ==
  ASSUME Held' = Held, Published' = Published
  PROVE  [Pool!Next]_(Pool!vars)
BY DEF Pool!vars, Held

LEMMA PoolTakes ==
  ASSUME DemodInv, NEW w \in Workers, wpc[w] \in {"top", "wait"}, NEW i, NEW s,
         TakeOrWait(w, i, s), result' = result
  PROVE  Held' = Held /\ Published' = Published
<1>t. TypeOK /\ PlaceInv
  BY DEF DemodInv
<1>1. Published' = Published
  BY DEF Published
<1>2. \A v \in Workers : v # w => wpc'[v] = wpc[v] /\ job'[v] = job[v]
  BY <1>t DEF TakeOrWait, TypeOK
<1>3. CASE queue # <<>> /\ job' = [job EXCEPT ![w] = Head(queue)] /\ queue' = Tail(queue)
           /\ wpc' = [wpc EXCEPT ![w] = "decode"]
  <2>1. wpc'[w] = "decode" /\ job'[w] = Head(queue)
    BY <1>3, <1>t DEF TypeOK
  <2>2. queue \in Seq(Packets) /\ \A a, b \in DOMAIN queue : a # b => queue[a] # queue[b]
    BY <1>t DEF TypeOK, PlaceInv, OneResultPerJob, IsInjective
  <2>3. Head(queue) \in Range(queue) /\ Range(queue') = Range(queue) \ {Head(queue)}
    BY <1>3, <2>2, TailRange
  <2>4. Unpublished' = Unpublished \cup {Head(queue)}
    BY <1>2, <2>1 DEF Unpublished
  <2> QED BY <1>1, <2>3, <2>4 DEF Held, Queued
<1>4. CASE queue' = queue /\ job' = job /\ wpc'[w] # "decode"
  <2>1. Unpublished' = Unpublished
    BY <1>2, <1>4 DEF Unpublished
  <2> QED BY <1>1, <1>4, <2>1 DEF Held, Queued
<1>5. TakeOrWait(w, i, s) => \/ queue # <<>> /\ job' = [job EXCEPT ![w] = Head(queue)]
                                 /\ queue' = Tail(queue) /\ wpc' = [wpc EXCEPT ![w] = "decode"]
                             \/ queue' = queue /\ job' = job /\ wpc'[w] # "decode"
  BY <1>t DEF TakeOrWait, TypeOK
<1> QED BY <1>3, <1>4, <1>5

\* A result published is the end of a held packet.
LEMMA PoolDecodes ==
  ASSUME DemodInv, NEW w \in Workers, Decode(w)
  PROVE  [Pool!Next]_(Pool!vars)
<1> DEFINE p == job[w]
<1>t. TypeOK /\ PlaceInv
  BY DEF DemodInv
<1>1. PICK o \in Outcomes :
        /\ result' = [result EXCEPT ![p] = o]
        /\ wpc' = [wpc EXCEPT ![w] = IF o \in Timed THEN "feedback" ELSE "notify"]
  BY DEF Decode
<1>2. wpc[w] = "decode" /\ p \in Packets /\ o # "none" /\ job' = job /\ queue' = queue
  BY <1>t DEF Decode, Working, PlaceInv, Outcomes, Timed, poolVars
<1>3. p \in Unpublished /\ p \notin Published /\ p \notin Queued
  BY <1>t, <1>2 DEF PlaceInv, OneResultPerJob, Unpublished
<1>4. wpc'[w] # "decode" /\ \A v \in Workers : v # w => wpc'[v] = wpc[v]
  BY <1>t, <1>1 DEF TypeOK
<1>5. Published' = Published \cup {p}
  <2>1. result'[p] = o /\ \A q \in Packets : q # p => result'[q] = result[q]
    BY <1>t, <1>1, <1>2 DEF TypeOK
  <2> QED BY <1>2, <2>1 DEF Published
<1>6. \A v \in Workers : wpc[v] = "decode" /\ v # w => job[v] # p
  BY <1>t, <1>2 DEF PlaceInv, OneResultPerJob, Working
<1>7. Unpublished' = Unpublished \ {p}
  BY <1>2, <1>4, <1>6 DEF Unpublished
<1>8. Held' = Held \ {p} /\ p \in Held
  BY <1>2, <1>3, <1>7 DEF Held, Queued
<1>9. Pool!Finish(p)
  BY <1>5, <1>8 DEF Pool!Finish, Held
<1> QED BY <1>2, <1>9 DEF Pool!Next

\* A packet the queue takes was never held, and there is room for it.
LEMMA PoolAccepts ==
  ASSUME DemodInv, HandleSamples
  PROVE  [Pool!Next]_(Pool!vars)
<1> DEFINE p == sent + 1
<1>t. TypeOK /\ PlaceInv
  BY DEF DemodInv
<1>1. UNCHANGED <<wpc, job, result>>
  BY DEF HandleSamples, workerVars, outVars
<1>2. Unpublished' = Unpublished /\ Published' = Published
  BY <1>1 DEF Unpublished, Published
<1>3. CASE Len(queue) >= QueueCapacity
  <2>1. Held' = Held
    BY <1>2, <1>3 DEF HandleSamples, Held, Queued
  <2> QED BY <1>2, <2>1, PoolQuiet
<1>4. CASE ~(Len(queue) >= QueueCapacity)
  <2>1. p \in Packets /\ p \notin accepted
    BY <1>t, PoolAssumption DEF HandleSamples, TypeOK, Packets, PlaceInv
  <2>2. p \notin Queued /\ p \notin Unpublished /\ p \notin Published
    BY <1>t, <2>1 DEF PlaceInv, OneResultPerJob
  <2>3. Range(queue') = Range(queue) \cup {p}
    <3>1. queue' = Append(queue, p) /\ queue \in Seq(Packets)
      BY <1>4, <1>t DEF HandleSamples, TypeOK
    <3>2. \A a, b \in DOMAIN queue : a # b => queue[a] # queue[b]
      BY <1>t DEF PlaceInv, OneResultPerJob, IsInjective
    <3> QED BY <2>1, <2>2, <3>1, <3>2, AppendRange DEF Queued
  <2>4. Held' = Held \cup {p} /\ p \notin Held \cup Published
    BY <1>2, <2>2, <2>3 DEF Held, Queued
  <2>5. Cardinality(Held) < QueueCapacity + NumWorkers
    <3>1. Len(queue) \in Nat /\ QueueCapacity \in Nat /\ NumWorkers \in Nat /\ Cardinality(Held) \in Nat
      BY <1>t, PoolAssumption, WorkersFinite, HeldBounded, FS_CardinalityType DEF TypeOK
    <3> QED BY <1>4, <3>1, HeldBounded
  <2>6. Pool!Accept(p)
    <3>1. Cardinality(Queued \cup Unpublished) < QueueCapacity + NumWorkers
      BY <2>5 DEF Held
    <3>2. /\ (Queued \cup Unpublished)' = (Queued \cup Unpublished) \cup {p}
          /\ p \notin (Queued \cup Unpublished) \cup Published
      BY <2>4 DEF Held
    <3>3. Published' = Published
      BY <1>2
    <3> QED BY <3>1, <3>2, <3>3, SameCount DEF Pool!Accept
  <2> QED BY <2>1, <2>6 DEF Pool!Next
<1> QED BY <1>3, <1>4

LEMMA PoolStep ==
  ASSUME DemodInv, DemodInv', [Next]_vars
  PROVE  [Pool!Next]_(Pool!vars)
<1>t. TypeOK /\ PhaseInv
  BY DEF DemodInv
<1>0. ASSUME UNCHANGED <<queue, wpc, job, result>> PROVE [Pool!Next]_(Pool!vars)
  <2>1. Held' = Held /\ Published' = Published
    BY <1>0 DEF Held, Queued, Unpublished, Published
  <2> QED BY <2>1, PoolQuiet
<1>1. ASSUME NEW w \in Workers, WorkerStep(w) PROVE [Pool!Next]_(Pool!vars)
  <2>1. CASE Arrive(w)
    <3>1. result' = result /\ wpc[w] = "top" /\ TakeOrWait(w, idle + 1, {})
      BY <2>1 DEF Arrive, outVars
    <3> QED BY <3>1, PoolTakes, PoolQuiet
  <2>2. CASE Recheck(w)
    <3>1. result' = result /\ wpc[w] = "wait" /\ TakeOrWait(w, idle, asleep)
      BY <2>2 DEF Recheck, outVars
    <3> QED BY <3>1, PoolTakes, PoolQuiet
  <2>3. CASE PublishFeedback(w) \/ FinishJob(w)
    <3>1. UNCHANGED <<queue, result>>
      BY <2>3 DEF PublishFeedback, FinishJob, poolVars, outVars
    <3>2. /\ wpc[w] # "decode" /\ wpc'[w] # "decode"
          /\ \A v \in Workers : v # w => wpc'[v] = wpc[v] /\ job'[v] = job[v]
      BY <2>3, <1>t DEF PublishFeedback, FinishJob, TypeOK
    <3>3. Unpublished' = Unpublished
      BY <3>2 DEF Unpublished
    <3>4. Held' = Held /\ Published' = Published
      BY <3>1, <3>3 DEF Held, Queued, Published
    <3> QED BY <3>4, PoolQuiet
  <2> QED BY <1>1, <2>1, <2>2, <2>3, PoolDecodes DEF WorkerStep
<1>2. ASSUME \E t \in Callers \cup {Handler} : DrainCall(t) \/ DrainRecheck(t)
      PROVE  [Pool!Next]_(Pool!vars)
  BY <1>0, <1>2 DEF DrainCall, DrainRecheck, workerVars, outVars
<1>3. ASSUME NEW t \in asleep, SpuriousWakeup(t) PROVE [Pool!Next]_(Pool!vars)
  BY <1>0, <1>3 DEF SpuriousWakeup, workerVars, outVars
<1>4. ASSUME \/ BeginStart \/ BeginStop \/ BeginReset \/ NotifyStop \/ NotifyOne
             \/ ResetCompleted \/ ResetFailed
      PROVE  [Pool!Next]_(Pool!vars)
  BY <1>0, <1>4 DEF BeginStart, BeginStop, BeginReset, NotifyStop, NotifyOne, ResetCompleted,
                    ResetFailed, poolVars, workerVars, outVars
<1>5. ASSUME FinishStart \/ FinishStop PROVE [Pool!Next]_(Pool!vars)
  <2>1. UNCHANGED <<queue, job, result>>
    BY <1>5 DEF FinishStart, FinishStop, poolVars, outVars
  <2>2. \A w \in Workers : wpc[w] # "decode" /\ wpc'[w] # "decode"
    BY <1>5 DEF FinishStart, FinishStop, Joined
  <2>3. Unpublished' = Unpublished
    BY <2>2 DEF Unpublished
  <2>4. Held' = Held /\ Published' = Published
    BY <2>1, <2>3 DEF Held, Queued, Published
  <2> QED BY <2>4, PoolQuiet
<1>6. ASSUME UNCHANGED vars PROVE [Pool!Next]_(Pool!vars)
  BY <1>0, <1>6 DEF vars, poolVars, workerVars, outVars
<1> QED BY <1>1, <1>2, <1>3, <1>4, <1>5, <1>6, PoolAccepts DEF Next, HandlerStep

\* The demodulator, whatever its threads do and however they are woken, is a
\* bounded work pool: a packet is refused at once or held, at most the queue
\* and one per worker are held, and a held packet gets one result.  (That it
\* gets one at last is fairness, which the run checks.)
THEOREM PoolImplemented == Spec => Pool!Spec
<1>1. Init => Pool!Init
  <2> SUFFICES ASSUME Init PROVE Held = {} /\ Published = {}
    BY DEF Pool!Init, Held
  <2> QED BY DEF Init, Held, Queued, Range, Unpublished, Published
<1>2. DemodInv /\ DemodInv' /\ [Next]_vars => [Pool!Next]_(Pool!vars)
  BY PoolStep
<1> QED BY <1>1, <1>2, DemodInvariant, PTL DEF Spec, Pool!Spec

=============================================================================
