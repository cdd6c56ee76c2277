---------------------- MODULE ScheduledExtractorProofs ----------------------
(***************************************************************************)
(* For every pool, every queue and any number of control calls: nobody     *)
(* touches a slot that is with the worker, a configuration that was asked  *)
(* for is in force once nothing is pending, and a lock update is applied   *)
(* only to the schedule it was learned under.                              *)
(***************************************************************************)
EXTENDS ScheduledExtractor, TLAPS

-----------------------------------------------------------------------------
(* Queues: sequences without repetitions that are pushed at one end and      *)
(* popped at the other.                                                      *)

\* What Append does to the elements of a sequence without repetitions.
LEMMA AppendRange ==
  ASSUME NEW S, NEW s \in Seq(S), NEW e \in S, e \notin Range(s),
         \A i, j \in DOMAIN s : i # j => s[i] # s[j]
  PROVE  /\ Append(s, e) \in Seq(S)
         /\ Range(Append(s, e)) = Range(s) \cup {e}
         /\ \A i, j \in DOMAIN Append(s, e) : i # j => Append(s, e)[i] # Append(s, e)[j]
<1> DEFINE t == Append(s, e)
<1>1. t \in Seq(S) /\ Len(t) = Len(s) + 1 /\ DOMAIN t = 1..(Len(s) + 1)
  OBVIOUS
<1>2. DOMAIN s = 1..Len(s) /\ Len(s) \in Nat
  OBVIOUS
<1>3. \A i \in 1..Len(s) : t[i] = s[i]
  OBVIOUS
<1>4. t[Len(s) + 1] = e
  OBVIOUS
<1>5. Range(t) = Range(s) \cup {e}
  <2>1. Range(t) \subseteq Range(s) \cup {e}
    BY <1>1, <1>2, <1>3, <1>4 DEF Range
  <2>2. Range(s) \subseteq Range(t)
    BY <1>1, <1>2, <1>3 DEF Range
  <2>3. e \in Range(t)
    BY <1>1, <1>2, <1>4 DEF Range
  <2> QED BY <2>1, <2>2, <2>3
<1>6. \A i \in 1..Len(s) : s[i] # e
  BY <1>2 DEF Range
<1>7. \A i, j \in DOMAIN t : i # j => t[i] # t[j]
  BY <1>1, <1>2, <1>3, <1>4, <1>6
<1> QED BY <1>1, <1>5, <1>7

\* What Tail does to them.
LEMMA TailRange ==
  ASSUME NEW S, NEW s \in Seq(S), s # <<>>,
         \A i, j \in DOMAIN s : i # j => s[i] # s[j]
  PROVE  /\ Tail(s) \in Seq(S) /\ Head(s) \in Range(s) /\ Range(s) \subseteq S
         /\ Range(Tail(s)) = Range(s) \ {Head(s)}
         /\ \A i, j \in DOMAIN Tail(s) : i # j => Tail(s)[i] # Tail(s)[j]
<1> DEFINE t == Tail(s)
<1>1. t \in Seq(S) /\ DOMAIN t = 1..(Len(s) - 1) /\ Len(s) \in Nat \ {0}
  OBVIOUS
<1>2. DOMAIN s = 1..Len(s) /\ Head(s) = s[1]
  OBVIOUS
<1>3. \A i \in 1..(Len(s) - 1) : t[i] = s[i + 1]
  OBVIOUS
<1>4. Head(s) \in Range(s) /\ Range(s) \subseteq S
  BY <1>1, <1>2 DEF Range
<1>5. Range(t) \subseteq Range(s) \ {Head(s)}
  <2> SUFFICES ASSUME NEW i \in DOMAIN t PROVE t[i] \in Range(s) /\ t[i] # s[1]
    BY <1>2 DEF Range
  <2>1. i + 1 \in DOMAIN s /\ i + 1 # 1 /\ t[i] = s[i + 1] /\ 1 \in DOMAIN s
    BY <1>1, <1>2, <1>3
  <2> QED BY <2>1 DEF Range
<1>6. Range(s) \ {Head(s)} \subseteq Range(t)
  <2> SUFFICES ASSUME NEW i \in DOMAIN s, s[i] # s[1] PROVE s[i] \in Range(t)
    BY <1>2 DEF Range
  <2>1. i - 1 \in 1..(Len(s) - 1) /\ i = (i - 1) + 1
    BY <1>1, <1>2
  <2>2. t[i - 1] = s[i]
    BY <2>1, <1>3
  <2> QED BY <2>1, <2>2, <1>1 DEF Range
<1>7. \A i, j \in DOMAIN t : i # j => t[i] # t[j]
  BY <1>1, <1>2, <1>3
<1> QED BY <1>1, <1>4, <1>5, <1>6, <1>7

\* The first n elements of a sequence without repetitions (the windows that
\* the worker's queue still has room for).
LEMMA PrefixRange ==
  ASSUME NEW S, NEW s \in Seq(S), NEW n \in 0..Len(s),
         \A i, j \in DOMAIN s : i # j => s[i] # s[j]
  PROVE  LET t == SubSeq(s, 1, n)
         IN  /\ t \in Seq(S) /\ Len(t) = n /\ Range(t) \subseteq Range(s)
             /\ \A i, j \in DOMAIN t : i # j => t[i] # t[j]
<1> DEFINE t == SubSeq(s, 1, n)
<1>1. Len(s) \in Nat /\ DOMAIN s = 1..Len(s) /\ \A i \in 1..Len(s) : s[i] \in S
  OBVIOUS
<1>2. t = [i \in 1..n |-> s[i]]
  BY <1>1
<1>3. \A i \in 1..n : i \in 1..Len(s)
  BY <1>1
<1>4. t \in Seq(S) /\ Len(t) = n
  BY <1>1, <1>2, <1>3
<1> QED BY <1>1, <1>2, <1>3, <1>4 DEF Range

\* Two sequences without repetitions that share no element, end to end.
LEMMA ConcatRange ==
  ASSUME NEW S, NEW s \in Seq(S), NEW t \in Seq(S), Range(s) \cap Range(t) = {},
         \A i, j \in DOMAIN s : i # j => s[i] # s[j],
         \A i, j \in DOMAIN t : i # j => t[i] # t[j]
  PROVE  LET u == s \o t
         IN  /\ u \in Seq(S) /\ Len(u) = Len(s) + Len(t) /\ Range(u) = Range(s) \cup Range(t)
             /\ \A i, j \in DOMAIN u : i # j => u[i] # u[j]
<1> DEFINE u == s \o t
<1>1. /\ u \in Seq(S) /\ Len(u) = Len(s) + Len(t) /\ DOMAIN u = 1..(Len(s) + Len(t))
      /\ Len(s) \in Nat /\ Len(t) \in Nat /\ DOMAIN s = 1..Len(s) /\ DOMAIN t = 1..Len(t)
  OBVIOUS
<1>2. \A i \in 1..(Len(s) + Len(t)) : u[i] = IF i <= Len(s) THEN s[i] ELSE t[i - Len(s)]
  OBVIOUS
<1> HIDE DEF u
<1>3. \A i \in DOMAIN u : \/ i \in DOMAIN s /\ u[i] = s[i]
                          \/ i - Len(s) \in DOMAIN t /\ u[i] = t[i - Len(s)]
  BY <1>1, <1>2
<1>4. Range(u) \subseteq Range(s) \cup Range(t)
  BY <1>3 DEF Range
<1>5. Range(s) \subseteq Range(u)
  <2>1. \A i \in DOMAIN s : i \in DOMAIN u /\ u[i] = s[i]
    BY <1>1, <1>2
  <2> QED BY <2>1 DEF Range
<1>6. Range(t) \subseteq Range(u)
  <2>1. ASSUME NEW i \in DOMAIN t PROVE i + Len(s) \in DOMAIN u /\ u[i + Len(s)] = t[i]
    <3>1. i + Len(s) \in 1..(Len(s) + Len(t)) /\ ~(i + Len(s) <= Len(s)) /\ (i + Len(s)) - Len(s) = i
      BY <1>1
    <3> QED BY <1>1, <1>2, <3>1
  <2> QED BY <2>1 DEF Range
<1>7. ASSUME NEW i \in DOMAIN u, NEW j \in DOMAIN u, i # j PROVE u[i] # u[j]
  <2>1. \A a \in DOMAIN s, b \in DOMAIN t : s[a] # t[b]
    BY DEF Range
  <2>2. i \in Int /\ j \in Int /\ i - Len(s) # j - Len(s)
    BY <1>1, <1>7
  <2> QED BY <1>3, <1>7, <2>1, <2>2
<1> QED BY <1>1, <1>4, <1>5, <1>6, <1>7 DEF u

-----------------------------------------------------------------------------
(* Types.  A grid is any pair of integers here: what the fit may yield is  *)
(* no concern of the invariants below.                                     *)

AnyGrid == [t0 : Int, T : Int]
AnyConfig == [grid : AnyGrid, eos : Policy]
CoreState == {"Unlocked", "WaitWindow", "CopyWindow", "Paused"}
CoreRecord ==
  [config : AnyConfig, k : Int, state : CoreState, paused : BOOLEAN,
   free : SUBSET Handle, ready : Seq(Handle), out : SUBSET Handle,
   active : Handle \cup {kInvalid}, slot : [Handle -> Int]]

Observation == [k : Int, det : Int]
TrackerRecord ==
  [enabled : BOOLEAN, state : {"Searching", "Learning", "Hold"},
   nominal : AnyGrid, est : AnyGrid, buf : Seq(Observation), outliers : Int]

PendingRecord ==
  [reset : BOOLEAN, cfg : BOOLEAN, pause : BOOLEAN, resume : BOOLEAN,
   lock : BOOLEAN, force : BOOLEAN, config : AnyConfig, update : AnyGrid, era : Int]

-----------------------------------------------------------------------------
(* The tracker keeps its type.                                             *)

LEMMA AtTyped ==
  ASSUME NEW g \in AnyGrid, NEW k \in Int
  PROVE  At(g, k) \in Int
BY DEF At, AnyGrid

LEMMA ResetTyped ==
  ASSUME NEW t, t.enabled \in BOOLEAN, NEW g \in AnyGrid
  PROVE  reset(t, g) \in TrackerRecord
<1>1. <<>> \in Seq(Observation)
  OBVIOUS
<1> QED BY <1>1 DEF reset, TrackerRecord

LEMMA BufferedTyped ==
  ASSUME NEW buf \in Seq(Observation), NEW k \in Int, NEW det \in Int
  PROVE  Buffered(buf, k, det) \in Seq(Observation)
<1> DEFINE new == [k |-> k, det |-> det]
<1>1. new \in Observation
  BY DEF Observation
<1> HIDE DEF new
<1>2. CASE \E i \in DOMAIN buf : buf[i].k = k
  <2> DEFINE b == [i \in DOMAIN buf |-> IF buf[i].k = k THEN new ELSE buf[i]]
  <2>1. Buffered(buf, k, det) = b
    BY <1>2 DEF Buffered, new
  <2>2. DOMAIN buf = 1..Len(buf) /\ Len(buf) \in Nat
    OBVIOUS
  <2>3. \A i \in 1..Len(buf) : buf[i] \in Observation
    OBVIOUS
  <2>4. b \in Seq(Observation)
    BY <1>1, <2>2, <2>3
  <2> QED BY <2>1, <2>4
<1>3. CASE ~(\E i \in DOMAIN buf : buf[i].k = k)
  <2> DEFINE kept == IF Len(buf) >= MaxBuffer THEN Tail(buf) ELSE buf
  <2>1. Buffered(buf, k, det) = Append(kept, new)
    BY <1>3 DEF Buffered, new
  <2>2. kept \in Seq(Observation)
    <3>1. Len(buf) >= MaxBuffer => buf # <<>>
      BY TrackerAssumption
    <3> QED BY <3>1
  <2> HIDE DEF kept
  <2> QED BY <1>1, <2>1, <2>2
<1> QED BY <1>2, <1>3

LEMMA FitsTyped ==
  ASSUME NEW t \in TrackerRecord, NEW buf \in Seq(Observation), Len(buf) >= 2
  PROVE  Fits(t, buf) \subseteq AnyGrid
<1>1. buf[1] \in Observation /\ t.nominal.T \in Int
  BY DEF TrackerRecord, AnyGrid
<1>2. buf[1].k \in Int /\ buf[1].det \in Int /\ MaxPeriodErr \in Int
  BY <1>1, TrackerAssumption DEF Observation
<1>3. \A T \in Int : [t0 |-> buf[1].det - buf[1].k * T, T |-> T] \in AnyGrid
  BY <1>2 DEF AnyGrid
<1>4. \A T \in t.nominal.T - MaxPeriodErr .. t.nominal.T + MaxPeriodErr : T \in Int
  OBVIOUS
<1> QED BY <1>3, <1>4 DEF Fits

\* A field at a time, so that each is easy.
LEMMA TrackerUpdates ==
  ASSUME NEW t \in TrackerRecord
  PROVE  /\ \A s \in {"Searching", "Learning", "Hold"} : [t EXCEPT !.state = s] \in TrackerRecord
         /\ \A b \in Seq(Observation) : [t EXCEPT !.buf = b] \in TrackerRecord
         /\ \A g \in AnyGrid : [t EXCEPT !.est = g] \in TrackerRecord
         /\ \A n \in Int : [t EXCEPT !.outliers = n] \in TrackerRecord
         /\ \A e \in BOOLEAN : [t EXCEPT !.enabled = e] \in TrackerRecord
         /\ [t EXCEPT !.outliers = 0] \in TrackerRecord
         /\ [t EXCEPT !.state = "Hold"] \in TrackerRecord
<1>1. \A s \in {"Searching", "Learning", "Hold"} : [t EXCEPT !.state = s] \in TrackerRecord
  BY DEF TrackerRecord
<1>2. \A b \in Seq(Observation) : [t EXCEPT !.buf = b] \in TrackerRecord
  BY DEF TrackerRecord
<1>3. \A g \in AnyGrid : [t EXCEPT !.est = g] \in TrackerRecord
  BY DEF TrackerRecord
<1>4. \A n \in Int : [t EXCEPT !.outliers = n] \in TrackerRecord
  BY DEF TrackerRecord
<1>5. \A e \in BOOLEAN : [t EXCEPT !.enabled = e] \in TrackerRecord
  BY DEF TrackerRecord
<1>6. [t EXCEPT !.outliers = 0] \in TrackerRecord /\ [t EXCEPT !.state = "Hold"] \in TrackerRecord
  BY DEF TrackerRecord
<1> QED BY <1>1, <1>2, <1>3, <1>4, <1>5, <1>6

SeenRecord == [tracker : TrackerRecord, apply : BOOLEAN]

LEMMA LearnTyped ==
  ASSUME NEW t \in TrackerRecord, NEW k \in Int, NEW det \in Int
  PROVE  Learn(t, k, det) \in SeenRecord
<1> DEFINE buf == Buffered(t.buf, k, det)
           learning == [[t EXCEPT !.state = "Learning"] EXCEPT !.buf = buf]
           fit == CHOOSE g \in Fits(t, buf) : TRUE
           staged == [learning EXCEPT !.est = fit]
           held == [[staged EXCEPT !.state = "Hold"] EXCEPT !.outliers = 0]
<1>1. t.buf \in Seq(Observation)
  BY DEF TrackerRecord
<1>2. buf \in Seq(Observation) /\ Len(buf) \in Nat
  BY <1>1, BufferedTyped
<1>a. [t EXCEPT !.state = "Learning", !.buf = buf] = learning
  BY DEF TrackerRecord
<1>b. [staged EXCEPT !.state = "Hold", !.outliers = 0] = held
  BY DEF TrackerRecord
<1>c. Learn(t, k, det) = IF Len(buf) < 2 \/ Fits(t, buf) = {} THEN Ignored(learning)
                         ELSE IF Len(buf) < MinObservations THEN Ignored(staged)
                         ELSE Applied(held)
  BY <1>a, <1>b DEF Learn
<1> HIDE DEF buf
<1>3. learning \in TrackerRecord
  BY <1>2, TrackerUpdates
<1> HIDE DEF learning
<1>4. CASE Len(buf) < 2 \/ Fits(t, buf) = {}
  BY <1>3, <1>4, <1>c DEF Ignored, SeenRecord
<1>5. CASE ~(Len(buf) < 2 \/ Fits(t, buf) = {})
  <2>1. Fits(t, buf) \subseteq AnyGrid /\ Fits(t, buf) # {}
    BY <1>2, <1>5, FitsTyped
  <2>2. fit \in AnyGrid
    BY <2>1
  <2> HIDE DEF fit
  <2>3. staged \in TrackerRecord
    BY <1>3, <2>2, TrackerUpdates
  <2> HIDE DEF staged
  <2>4. held \in TrackerRecord
    <3> DEFINE holding == [staged EXCEPT !.state = "Hold"]
    <3>1. holding \in TrackerRecord
      BY <2>3, TrackerUpdates
    <3> HIDE DEF holding
    <3>2. [holding EXCEPT !.outliers = 0] \in TrackerRecord
      BY <3>1, TrackerUpdates
    <3> QED BY <3>2 DEF holding
  <2> HIDE DEF held
  <2> QED BY <1>5, <1>c, <2>3, <2>4 DEF Ignored, Applied, SeenRecord
<1> QED BY <1>4, <1>5

LEMMA ObserveTyped ==
  ASSUME NEW t \in TrackerRecord, NEW k \in Int, NEW det \in Int
  PROVE  observe(t, k, det) \in SeenRecord
<1>1. CASE observe(t, k, det) = Applied(Nudge(t, k, det))
  <2> DEFINE resid == det - At(t.est, k)
             est == [t.est EXCEPT !.t0 = @ + resid \div GainDivisor]
  <2>1. t.est \in AnyGrid /\ t.est.t0 \in Int
    BY DEF TrackerRecord, AnyGrid
  <2>2. resid \in Int /\ GainDivisor \in Nat \ {0}
    BY <2>1, AtTyped, TrackerAssumption
  <2>3. resid \div GainDivisor \in Int
    BY <2>2
  <2>4. est \in AnyGrid
    BY <2>1, <2>3 DEF AnyGrid
  <2>5. Nudge(t, k, det) = [[t EXCEPT !.est = est] EXCEPT !.outliers = 0]
    BY DEF Nudge, TrackerRecord
  <2> HIDE DEF est
  <2> DEFINE moved == [t EXCEPT !.est = est]
  <2>7. moved \in TrackerRecord
    BY <2>4, TrackerUpdates
  <2> HIDE DEF moved
  <2>8. [moved EXCEPT !.outliers = 0] \in TrackerRecord
    BY <2>7, TrackerUpdates
  <2>6. Nudge(t, k, det) \in TrackerRecord
    BY <2>5, <2>8 DEF moved
  <2> QED BY <1>1, <2>6 DEF Applied, SeenRecord
<1>2. CASE observe(t, k, det) = Ignored([t EXCEPT !.outliers = @ + 1])
  <2>1. t.outliers + 1 \in Int
    BY DEF TrackerRecord
  <2>2. [t EXCEPT !.outliers = t.outliers + 1] \in TrackerRecord
    BY <2>1, TrackerUpdates
  <2> QED BY <1>2, <2>2 DEF Ignored, SeenRecord
<1>3. CASE observe(t, k, det) = Learn([t EXCEPT !.buf = <<>>, !.outliers = 0], k, det)
  <2>1. <<>> \in Seq(Observation)
    OBVIOUS
  <2>2. [t EXCEPT !.buf = <<>>, !.outliers = 0] = [[t EXCEPT !.buf = <<>>] EXCEPT !.outliers = 0]
    BY DEF TrackerRecord
  <2> DEFINE cleared == [t EXCEPT !.buf = <<>>]
  <2>4. cleared \in TrackerRecord
    BY <2>1, TrackerUpdates
  <2> HIDE DEF cleared
  <2>5. [cleared EXCEPT !.outliers = 0] \in TrackerRecord
    BY <2>4, TrackerUpdates
  <2>3. [t EXCEPT !.buf = <<>>, !.outliers = 0] \in TrackerRecord
    BY <2>2, <2>5 DEF cleared
  <2> QED BY <1>3, <2>3, LearnTyped
<1>4. CASE observe(t, k, det) = Learn(t, k, det)
  BY <1>4, LearnTyped
<1> QED BY <1>1, <1>2, <1>3, <1>4 DEF observe

-----------------------------------------------------------------------------
(* The window core: who owns a slot, and what an operation on the core may *)
(* do to the slots that are out.                                           *)

Owned(c) ==
  /\ c.free \cap c.out = {}
  /\ Range(c.ready) \cap (c.free \cup c.out) = {}
  /\ c.active \notin c.free \cup c.out \cup Range(c.ready)
  /\ \A i, j \in DOMAIN c.ready : i # j => c.ready[i] # c.ready[j]
  /\ (c.state = "CopyWindow") <=> (c.active # kInvalid)

Good(c) == c \in CoreRecord /\ Owned(c)

\* d is c after an operation that leaves the slots that are out alone.
Spares(c, d) ==
  /\ Good(d)
  /\ d.out = c.out
  /\ \A h \in c.out : d.slot[h] = c.slot[h]

LEMMA SparesChain ==
  ASSUME NEW a, NEW b, NEW c, Spares(a, b), Spares(b, c)
  PROVE  Spares(a, c)
BY DEF Spares

LEMMA SparesSelf == ASSUME NEW c, Good(c) PROVE Spares(c, c)
BY DEF Spares

LEMMA Fields ==
  ASSUME NEW c \in CoreRecord
  PROVE  /\ c.config \in AnyConfig /\ c.k \in Int /\ c.state \in CoreState
         /\ c.paused \in BOOLEAN /\ c.free \subseteq Handle /\ c.ready \in Seq(Handle)
         /\ c.out \subseteq Handle /\ c.active \in Handle \cup {kInvalid}
         /\ c.slot \in [Handle -> Int] /\ Range(c.ready) \subseteq Handle
<1>1. c.ready \in Seq(Handle)
  BY DEF CoreRecord
<1>2. Range(c.ready) \subseteq Handle
  BY <1>1 DEF Range
<1> QED BY <1>1, <1>2 DEF CoreRecord

\* release_to_free: what it does field by field.
LEMMA ReleaseFields ==
  ASSUME NEW c \in CoreRecord, NEW hs \in SUBSET Handle
  PROVE  LET d == release(c, hs)
         IN /\ d \in CoreRecord
            /\ d.free = c.free \cup hs /\ d.out = c.out \ hs
            /\ d.config = c.config /\ d.k = c.k /\ d.state = c.state /\ d.paused = c.paused
            /\ d.ready = c.ready /\ d.active = c.active
            /\ \A h \in Handle \ hs : d.slot[h] = c.slot[h]
<1> DEFINE F == c.free \cup hs
           O == c.out \ hs
           S == [h \in Handle |-> IF h \in hs THEN Empty ELSE c.slot[h]]
           d == [c EXCEPT !.free = F, !.out = O, !.slot = S]
<1>1. release(c, hs) = d
  BY DEF release
<1>2. F \in SUBSET Handle /\ O \in SUBSET Handle /\ S \in [Handle -> Int]
      /\ \A h \in Handle \ hs : S[h] = c.slot[h]
  BY Fields DEF Empty
<1> HIDE DEF F, O, S
<1>3. d \in CoreRecord
  BY <1>2 DEF CoreRecord
<1>4. /\ d.free = F /\ d.out = O /\ d.slot = S
      /\ d.config = c.config /\ d.k = c.k /\ d.state = c.state /\ d.paused = c.paused
      /\ d.ready = c.ready /\ d.active = c.active
  BY DEF CoreRecord
<1> QED BY <1>1, <1>2, <1>3, <1>4 DEF F, O

\* The active window given up, in whatever state that leaves the core.
LEMMA AbortSpares ==
  ASSUME NEW c, Good(c), NEW s \in CoreState \ {"CopyWindow"}, NEW p \in BOOLEAN
  PROVE  LET d == [abort_active_window(c) EXCEPT !.paused = p, !.state = s]
         IN  Spares(c, d) /\ d.config = c.config /\ d.state = s
<1> DEFINE hs == {c.active} \ {kInvalid}
           r == release(c, hs)
           a == abort_active_window(c)
           d == [a EXCEPT !.paused = p, !.state = s]
<1>1. /\ c \in CoreRecord /\ Owned(c) /\ hs \in SUBSET Handle
  BY Fields DEF Good
<1>2. /\ r \in CoreRecord
      /\ r.free = c.free \cup hs /\ r.out = c.out \ hs
      /\ r.config = c.config /\ r.k = c.k /\ r.state = c.state /\ r.paused = c.paused
      /\ r.ready = c.ready /\ r.active = c.active
      /\ \A h \in Handle \ hs : r.slot[h] = c.slot[h]
  BY <1>1, ReleaseFields
<1>3. a = [r EXCEPT !.active = kInvalid]
  BY DEF abort_active_window
<1> HIDE DEF r
<1>4. /\ a \in CoreRecord /\ a.free = r.free /\ a.out = r.out /\ a.config = r.config
      /\ a.ready = r.ready /\ a.active = kInvalid /\ a.slot = r.slot
  BY <1>2, <1>3 DEF CoreRecord
<1> HIDE DEF a
<1>5. s \in CoreState
  OBVIOUS
<1>6. /\ d \in CoreRecord /\ d.free = a.free /\ d.out = a.out /\ d.config = a.config
      /\ d.ready = a.ready /\ d.active = kInvalid /\ d.slot = a.slot /\ d.state = s
  BY <1>4, <1>5 DEF CoreRecord
<1> HIDE DEF d
<1>7. d.out = c.out /\ \A h \in c.out : d.slot[h] = c.slot[h]
  BY <1>1, <1>2, <1>4, <1>6, Fields DEF Owned
<1>8. Owned(d)
  <2>1. kInvalid \notin Handle /\ Range(c.ready) \subseteq Handle /\ c.free \subseteq Handle
        /\ c.out \subseteq Handle /\ d.ready = c.ready /\ d.free = c.free \cup hs
    BY <1>1, <1>2, <1>4, <1>6, ExtractorAssumption, Fields
  <2> QED BY <1>1, <1>6, <1>7, <2>1 DEF Owned
<1> QED BY <1>2, <1>4, <1>6, <1>7, <1>8 DEF Spares, Good, a, d

\* reset and configure leave only what is out.
LEMMA RebuiltSpares ==
  ASSUME NEW c, Good(c)
  PROVE  LET d == Rebuilt(c)
         IN  Spares(c, d) /\ d.config = c.config /\ d.active = kInvalid /\ d.ready = <<>>
             /\ d.free = Handle \ c.out
<1> DEFINE F == Handle \ c.out
           S == [h \in Handle |-> IF h \in Handle \ c.out THEN Empty ELSE c.slot[h]]
           N == <<>>
           d == [c EXCEPT !.free = F, !.ready = N, !.active = kInvalid, !.slot = S,
                          !.k = 0, !.state = "Unlocked", !.paused = FALSE]
<1>1. Rebuilt(c) = d
  BY DEF Rebuilt, rebuild_free, Wiped
<1>2. c \in CoreRecord /\ c.out \subseteq Handle
  BY Fields DEF Good
<1>3. F \in SUBSET Handle /\ S \in [Handle -> Int] /\ \A h \in c.out : S[h] = c.slot[h]
  BY <1>2, Fields DEF Empty
<1>4. N \in Seq(Handle) /\ Range(N) = {} /\ DOMAIN N = {}
  BY DEF Range
<1>f. F \cap c.out = {}
  OBVIOUS
<1> HIDE DEF F, S, N
<1>5. d \in CoreRecord
  <2> DEFINE e == [c EXCEPT !.free = F, !.ready = N, !.active = kInvalid, !.slot = S]
  <2>1. e \in CoreRecord
    BY <1>2, <1>3, <1>4 DEF CoreRecord
  <2> DEFINE u == [e EXCEPT !.k = 0, !.state = "Unlocked"]
  <2>2. d = [u EXCEPT !.paused = FALSE]
    BY <1>2 DEF CoreRecord
  <2> HIDE DEF e
  <2>3. u \in CoreRecord
    <3> DEFINE zero == 0
               unlocked == "Unlocked"
    <3>0. zero \in Int /\ unlocked \in CoreState
      BY DEF CoreState
    <3>3. u = [[e EXCEPT !.k = zero] EXCEPT !.state = unlocked]
      BY <2>1 DEF CoreRecord
    <3> HIDE DEF zero, unlocked, u
    <3>1. \A x \in CoreRecord : [x EXCEPT !.k = zero] \in CoreRecord
      BY <3>0 DEF CoreRecord
    <3>2. \A x \in CoreRecord : [x EXCEPT !.state = unlocked] \in CoreRecord
      BY <3>0 DEF CoreRecord
    <3> QED BY <2>1, <3>1, <3>2, <3>3
  <2> HIDE DEF u
  <2>4. FALSE \in BOOLEAN
    OBVIOUS
  <2> QED BY <2>2, <2>3, <2>4 DEF CoreRecord
<1>6. /\ d.free = F /\ d.ready = N /\ d.active = kInvalid /\ d.slot = S /\ d.out = c.out
      /\ d.config = c.config /\ d.state = "Unlocked"
  BY <1>2 DEF CoreRecord
<1> HIDE DEF d
<1>7. Owned(d)
  <2>1. d.active = kInvalid /\ kInvalid \notin Handle /\ d.free \subseteq Handle
        /\ d.out \subseteq Handle /\ d.free \cap d.out = {} /\ d.ready = N
    BY <1>2, <1>3, <1>6, <1>f, ExtractorAssumption
  <2> QED BY <1>4, <1>6, <2>1 DEF Owned
<1> QED BY <1>1, <1>3, <1>5, <1>6, <1>7 DEF Spares, Good, N, F

LEMMA ConfigureSpares ==
  ASSUME NEW c, Good(c), NEW config \in AnyConfig, NEW k \in Int
  PROVE  LET d == core_configure(c, config, k) IN Spares(c, d) /\ d.config = config
<1> DEFINE r == Rebuilt(c)
           d == [r EXCEPT !.config = config, !.k = k, !.state = "WaitWindow"]
<1>1. core_configure(c, config, k) = d
  BY DEF core_configure
<1>2. Spares(c, r) /\ r.active = kInvalid /\ r \in CoreRecord
  BY RebuiltSpares DEF Spares, Good
<1> HIDE DEF r
<1>3. /\ d \in CoreRecord /\ d.config = config /\ d.state = "WaitWindow" /\ d.out = r.out
      /\ d.free = r.free /\ d.ready = r.ready /\ d.active = r.active /\ d.slot = r.slot
  BY <1>2 DEF CoreRecord, CoreState
<1> HIDE DEF d
<1>4. Owned(d)
  BY <1>2, <1>3 DEF Owned, Spares, Good
<1> QED BY <1>1, <1>2, <1>3, <1>4 DEF Spares, Good

\* Steps that move the schedule but no slot.
LEMMA SameSlotsSpare ==
  ASSUME NEW c, Good(c), NEW d \in CoreRecord,
         d.free = c.free, d.ready = c.ready, d.out = c.out, d.active = c.active,
         d.slot = c.slot, (d.state = "CopyWindow") <=> (c.state = "CopyWindow")
  PROVE  Spares(c, d)
BY DEF Good, Owned, Spares

LEMMA LockedSpares ==
  ASSUME NEW c, Good(c), NEW update \in AnyGrid, NEW fit \in {"absolute", "continuous", "late"},
         NEW e, e = update_locked_params(c, update, fit)
  PROVE  /\ Spares(c, e) /\ e.config \in AnyConfig
         /\ e.config = [c.config EXCEPT !.grid = e.config.grid]
<1>1. /\ c \in CoreRecord /\ c.config \in AnyConfig /\ c.k \in Int /\ c.config.grid \in AnyGrid
  BY Fields DEF Good, AnyConfig
<1>2. ASSUME NEW g \in AnyGrid
      PROVE  LET d == [c EXCEPT !.config.grid = g]
             IN  /\ Spares(c, d) /\ d.config \in AnyConfig
                 /\ d.config = [c.config EXCEPT !.grid = d.config.grid]
  <2> DEFINE config == [c.config EXCEPT !.grid = g]
             d == [c EXCEPT !.config = config]
  <2>1. [c EXCEPT !.config.grid = g] = d
    BY DEF CoreRecord
  <2>2. config \in AnyConfig /\ config.grid = g
    BY <1>1 DEF AnyConfig
  <2>3. config = [c.config EXCEPT !.grid = config.grid]
    BY <2>2
  <2> HIDE DEF config
  <2>4. /\ d \in CoreRecord /\ d.config = config /\ d.state = c.state /\ d.out = c.out
        /\ d.free = c.free /\ d.ready = c.ready /\ d.active = c.active /\ d.slot = c.slot
    BY <1>1, <2>2 DEF CoreRecord
  <2> HIDE DEF d
  <2>5. Spares(c, d)
    BY <2>4, SameSlotsSpare
  <2> QED BY <2>1, <2>2, <2>3, <2>4, <2>5
<1>3. CASE fit = "absolute"
  BY <1>2, <1>3 DEF update_locked_params
<1>4. CASE fit = "continuous"
  <2>1. Continuous(c, update) \in AnyGrid
    <3>1. At(c.config.grid, c.k) \in Int /\ update.T \in Int
      BY <1>1, AtTyped DEF AnyGrid
    <3>2. At(c.config.grid, c.k) - c.k * update.T \in Int
      BY <1>1, <3>1
    <3> QED BY <3>1, <3>2 DEF Continuous, AnyGrid
  <2> QED BY <1>2, <1>4, <2>1 DEF update_locked_params
<1>5. CASE fit = "late"
  <2>1. update_locked_params(c, update, fit) = c
    BY <1>5 DEF update_locked_params
  <2>2. c.config = [c.config EXCEPT !.grid = c.config.grid]
    BY <1>1 DEF AnyConfig
  <2> QED BY <1>1, <2>1, <2>2, SparesSelf
<1> QED BY <1>3, <1>4, <1>5

LEMMA PauseSpares ==
  ASSUME NEW c, Good(c)
  PROVE  Spares(c, core_pause(c)) /\ core_pause(c).config = c.config
<1> DEFINE s == "Paused"
           p == TRUE
<1>1. core_pause(c) = [abort_active_window(c) EXCEPT !.paused = p, !.state = s]
  BY DEF core_pause
<1>2. s \in CoreState \ {"CopyWindow"} /\ p \in BOOLEAN
  BY DEF CoreState
<1> HIDE DEF s, p
<1>3. \A x \in CoreState \ {"CopyWindow"}, y \in BOOLEAN :
        LET d == [abort_active_window(c) EXCEPT !.paused = y, !.state = x]
        IN  Spares(c, d) /\ d.config = c.config /\ d.state = x
  BY AbortSpares
<1> DEFINE d == [abort_active_window(c) EXCEPT !.paused = p, !.state = s]
<1>4. Spares(c, d) /\ d.config = c.config
  BY <1>2, <1>3, Zenon
<1> HIDE DEF d
<1>5. core_pause(c) = d
  BY <1>1 DEF d
<1> QED BY <1>4, <1>5

LEMMA ResumeSpares ==
  ASSUME NEW c, Good(c), NEW k \in Int
  PROVE  Spares(c, core_resume(c, k)) /\ core_resume(c, k).config = c.config
<1> DEFINE s == "WaitWindow"
           p == FALSE
           woken == [c EXCEPT !.paused = p]
           moved == [c EXCEPT !.paused = p, !.k = k, !.state = s]
<1>1. core_resume(c, k) = IF c.state \in {"Paused", "Unlocked"} THEN moved ELSE woken
  BY DEF core_resume
<1>2. c \in CoreRecord /\ s \in CoreState /\ p \in BOOLEAN /\ s # "CopyWindow"
  BY DEF CoreState, Good
<1> HIDE DEF s, p
<1>3. /\ woken \in CoreRecord /\ woken.free = c.free /\ woken.ready = c.ready
      /\ woken.out = c.out /\ woken.active = c.active /\ woken.slot = c.slot
      /\ woken.state = c.state /\ woken.config = c.config
  BY <1>2 DEF CoreRecord
<1>4. /\ moved \in CoreRecord /\ moved.free = c.free /\ moved.ready = c.ready
      /\ moved.out = c.out /\ moved.active = c.active /\ moved.slot = c.slot
      /\ moved.state = s /\ moved.config = c.config
  <2> DEFINE m1 == [c EXCEPT !.k = k]
             m2 == [m1 EXCEPT !.state = s]
  <2>1. moved = [m2 EXCEPT !.paused = p]
    BY <1>2 DEF CoreRecord
  <2>2. m1 \in CoreRecord
    BY <1>2 DEF CoreRecord
  <2>3. m2 \in CoreRecord
    <3> HIDE DEF m1
    <3> QED BY <1>2, <2>2 DEF CoreRecord
  <2>4. moved \in CoreRecord
    <3> HIDE DEF m2, moved
    <3> QED BY <1>2, <2>1, <2>3 DEF CoreRecord
  <2>5. /\ moved.free = c.free /\ moved.ready = c.ready
        /\ moved.out = c.out /\ moved.active = c.active /\ moved.slot = c.slot
        /\ moved.state = s /\ moved.config = c.config
    BY <1>2 DEF CoreRecord
  <2> QED BY <2>4, <2>5
<1> HIDE DEF woken, moved
<1>5. Spares(c, woken)
  BY <1>3, SameSlotsSpare
<1>6. CASE c.state \in {"Paused", "Unlocked"}
  <2>1. (moved.state = "CopyWindow") <=> (c.state = "CopyWindow")
    BY <1>2, <1>4, <1>6
  <2> QED BY <1>1, <1>4, <1>6, <2>1, SameSlotsSpare
<1> QED BY <1>1, <1>3, <1>5, <1>6

\* A completed window joins the ready ring.
LEMMA FinishSpares ==
  ASSUME NEW c, Good(c), c.active # kInvalid
  PROVE  Spares(c, finish_active_window(c)) /\ finish_active_window(c).config = c.config
<1> DEFINE R == Append(c.ready, c.active)
           k == c.k + 1
           s == "WaitWindow"
           d == [c EXCEPT !.ready = R, !.active = kInvalid, !.k = k, !.state = s]
<1>1. finish_active_window(c) = d
  BY DEF finish_active_window
<1>2. /\ c \in CoreRecord /\ Owned(c) /\ c.active \in Handle /\ c.ready \in Seq(Handle)
      /\ c.free \subseteq Handle /\ c.out \subseteq Handle /\ c.k \in Int
  BY Fields DEF Good
<1>3. /\ R \in Seq(Handle) /\ Range(R) = Range(c.ready) \cup {c.active}
      /\ \A i, j \in DOMAIN R : i # j => R[i] # R[j]
  BY <1>2, AppendRange DEF Owned
<1>4. k \in Int /\ s \in CoreState /\ s # "CopyWindow"
  BY <1>2 DEF CoreState
<1> HIDE DEF R, k, s
<1>5. d \in CoreRecord
  <2> DEFINE e == [c EXCEPT !.ready = R, !.active = kInvalid]
             f == [e EXCEPT !.k = k]
  <2>1. e \in CoreRecord
    BY <1>2, <1>3 DEF CoreRecord
  <2>2. d = [f EXCEPT !.state = s]
    BY <1>2 DEF CoreRecord
  <2> HIDE DEF e, d
  <2>3. f \in CoreRecord
    BY <1>4, <2>1 DEF CoreRecord
  <2> HIDE DEF f
  <2> QED BY <1>4, <2>2, <2>3 DEF CoreRecord
<1>6. /\ d.free = c.free /\ d.ready = R /\ d.out = c.out /\ d.active = kInvalid
      /\ d.slot = c.slot /\ d.state = s /\ d.config = c.config
  BY <1>2 DEF CoreRecord
<1> HIDE DEF d
<1>7. Owned(d)
  <2>1. kInvalid \notin Handle /\ Range(R) \subseteq Handle
    BY <1>2, <1>3, ExtractorAssumption DEF Range
  <2> QED BY <1>2, <1>3, <1>4, <1>6, <2>1 DEF Owned
<1> QED BY <1>1, <1>5, <1>6, <1>7 DEF Spares, Good

LEMMA FlushSpares ==
  ASSUME NEW c, Good(c)
  PROVE  Spares(c, flush_eos(c)) /\ flush_eos(c).config = c.config
<1>1. CASE c.active = kInvalid
  BY <1>1, SparesSelf DEF flush_eos
<1>2. CASE c.active # kInvalid /\ c.config.eos = "Drop"
  <2> DEFINE s == "WaitWindow"
             p == c.paused
             a == abort_active_window(c)
             d == [a EXCEPT !.paused = p, !.state = s]
  <2>1. s \in CoreState \ {"CopyWindow"} /\ p \in BOOLEAN
    BY Fields DEF CoreState, Good
  <2>2. Spares(c, d) /\ d.config = c.config
    <3> HIDE DEF s, p
    <3> QED BY <2>1, AbortSpares
  <2>3. a.paused = c.paused /\ DOMAIN a = DOMAIN c /\ "paused" \in DOMAIN a
    BY DEF abort_active_window, release, Good, CoreRecord
  <2>4. flush_eos(c) = [a EXCEPT !.state = s]
    BY <1>2 DEF flush_eos
  <2>5. d = [a EXCEPT !.state = s]
    <3>1. \E b : a = [b EXCEPT !.active = kInvalid]
      BY DEF abort_active_window
    <3>2. a = [x \in DOMAIN a |-> a[x]]
      BY DEF abort_active_window
    <3> HIDE DEF a
    <3> QED BY <2>3, <3>2
  <2> QED BY <2>2, <2>4, <2>5
<1>3. CASE c.active # kInvalid /\ c.config.eos # "Drop"
  BY <1>3, FinishSpares DEF flush_eos
<1> QED BY <1>1, <1>2, <1>3

-----------------------------------------------------------------------------
(* The invariant.                                                          *)

WorkerRecord == [at : {"wait", "publish", "release", "done", "exit"},
                 handle : Handle \cup {kInvalid}]

QueueTyped == jobs \in Seq(Handle) /\ Len(jobs) <= kJobQueueSize
NoJobTwice == \A i, j \in DOMAIN jobs : i # j => jobs[i] # jobs[j]

Typed ==
  /\ core \in CoreRecord /\ tracker \in TrackerRecord /\ pending \in PendingRecord
  /\ worker \in WorkerRecord /\ QueueTyped
  /\ asked \in AnyConfig /\ era \in [now : Int, learned : Int]

\* What is queued or with the worker is checked out of the pool, once.
InHand ==
  /\ Range(jobs) \cup AtWorker \subseteq core.out
  /\ Range(jobs) \cap AtWorker = {}
  /\ NoJobTwice

ConfigKept == IF pending.cfg THEN pending.config = asked ELSE core.config = asked

LockFresh == era.learned = era.now /\ (pending.lock => pending.era = era.now)

ExtractorInv == Typed /\ Owned(core) /\ InHand /\ ConfigKept /\ LockFresh

Held == \A h \in core.out : h \in core'.out => core'.slot[h] = core.slot[h]

LEMMA GridTyped ==
  /\ Grid \subseteq AnyGrid /\ FirstSeed \in AnyGrid /\ Seeds \subseteq AnyGrid
  /\ Truth \in AnyGrid /\ Index \subseteq Int
<1>1. Grid \subseteq AnyGrid
  BY DEF Grid, AnyGrid
<1>2. Index \subseteq Int
  BY ExtractorAssumption DEF Index
<1> QED BY <1>1, <1>2, ExtractorAssumption

LEMMA InitHolds == Init => ExtractorInv
<1> SUFFICES ASSUME Init PROVE ExtractorInv
  OBVIOUS
<1> DEFINE config == [grid |-> FirstSeed, eos |-> "Drop"]
           S == [h \in Handle |-> Empty]
           N == <<>>
<1>1. config \in AnyConfig /\ FirstSeed \in AnyGrid /\ S \in [Handle -> Int]
  BY GridTyped DEF AnyConfig, Policy, Empty
<1>2. N \in Seq(Handle) /\ DOMAIN N = {} /\ Range(N) = {} /\ Len(N) = 0
      /\ N \in Seq(Observation)
  BY DEF Range
<1>3. /\ core = [config |-> config, k |-> 0, state |-> "WaitWindow", paused |-> FALSE,
                 free |-> Handle, ready |-> N, out |-> {}, active |-> kInvalid, slot |-> S]
      /\ jobs = N /\ asked = config
  BY DEF Init
<1> HIDE DEF config, S, N
<1>4. core \in CoreRecord
  BY <1>1, <1>2, <1>3 DEF CoreRecord, CoreState
<1>5. tracker \in TrackerRecord
  <2>1. tracker = NewTracker(FirstSeed)
    BY DEF Init
  <2> DEFINE t == [enabled |-> FALSE]
  <2>2. t.enabled \in BOOLEAN /\ tracker = reset(t, FirstSeed)
    BY <2>1 DEF NewTracker
  <2> HIDE DEF t
  <2> QED BY <1>1, <2>2, ResetTyped
<1>6. pending \in PendingRecord /\ pending.cfg = FALSE /\ pending.lock = FALSE
  BY <1>1, <1>3 DEF Init, NoPending, PendingRecord, config
<1>7. worker \in WorkerRecord /\ AtWorker = {}
  BY DEF Init, WorkerRecord, AtWorker
<1>8. era \in [now : Int, learned : Int] /\ era.learned = era.now
  BY DEF Init
<1>9. Owned(core)
  BY <1>2, <1>3, ExtractorAssumption DEF Owned
<1>10. QueueTyped
  BY <1>2, <1>3, ExtractorAssumption DEF QueueTyped
<1>11. InHand
  BY <1>2, <1>3, <1>7 DEF InHand, NoJobTwice
<1>12. core.config = asked
  BY <1>3
<1>13. asked \in AnyConfig
  BY <1>1, <1>3
<1> QED BY <1>4, <1>5, <1>6, <1>7, <1>8, <1>9, <1>10, <1>11, <1>12, <1>13
        DEF ExtractorInv, Typed, ConfigKept, LockFresh

-----------------------------------------------------------------------------
(* Steps that leave the pool and the worker alone.                         *)

LEMMA QuietStep ==
  ASSUME ExtractorInv, UNCHANGED <<core, jobs, worker, era>>,
         tracker' \in TrackerRecord, pending' \in PendingRecord, asked' \in AnyConfig,
         ConfigKept', pending'.lock => pending'.era = era.now
  PROVE  ExtractorInv' /\ Held
<1>1. Typed'
  BY DEF ExtractorInv, Typed, QueueTyped
<1>2. InHand'
  BY DEF ExtractorInv, InHand, NoJobTwice, AtWorker
<1>3. Owned(core)' /\ LockFresh' /\ Held
  BY DEF ExtractorInv, LockFresh, Held
<1> QED BY <1>1, <1>2, <1>3 DEF ExtractorInv

LEMMA PendingUpdates ==
  ASSUME NEW p \in PendingRecord
  PROVE  /\ \A config \in AnyConfig : [p EXCEPT !.cfg = TRUE, !.config = config] \in PendingRecord
         /\ [p EXCEPT !.pause = TRUE] \in PendingRecord
         /\ [p EXCEPT !.resume = TRUE] \in PendingRecord
         /\ [p EXCEPT !.reset = TRUE] \in PendingRecord
         /\ [p EXCEPT !.lock = FALSE] \in PendingRecord
<1>t. TRUE \in BOOLEAN /\ FALSE \in BOOLEAN
  OBVIOUS
<1>1. \A config \in AnyConfig : [p EXCEPT !.cfg = TRUE, !.config = config] \in PendingRecord
  <2> SUFFICES ASSUME NEW config \in AnyConfig
               PROVE  [p EXCEPT !.cfg = TRUE, !.config = config] \in PendingRecord
    OBVIOUS
  <2> DEFINE a == [p EXCEPT !.cfg = TRUE]
  <2>1. a \in PendingRecord
    BY <1>t DEF PendingRecord
  <2>2. [p EXCEPT !.cfg = TRUE, !.config = config] = [a EXCEPT !.config = config]
    BY DEF PendingRecord
  <2> HIDE DEF a
  <2>3. [a EXCEPT !.config = config] \in PendingRecord
    BY <2>1 DEF PendingRecord
  <2> QED BY <2>2, <2>3
<1>2. [p EXCEPT !.pause = TRUE] \in PendingRecord
  BY <1>t DEF PendingRecord
<1>3. [p EXCEPT !.resume = TRUE] \in PendingRecord
  BY <1>t DEF PendingRecord
<1>4. [p EXCEPT !.reset = TRUE] \in PendingRecord
  BY <1>t DEF PendingRecord
<1>5. [p EXCEPT !.lock = FALSE] \in PendingRecord
  BY <1>t DEF PendingRecord
<1> QED BY <1>1, <1>2, <1>3, <1>4, <1>5

\* What an observation leaves pending.
LockLeft(p, f, g, n) == [p EXCEPT !.lock = TRUE, !.force = f, !.update = g, !.era = n]

LEMMA LockUpdate ==
  ASSUME NEW p \in PendingRecord, NEW f \in BOOLEAN, NEW g \in AnyGrid, NEW n \in Int,
         NEW d, d = LockLeft(p, f, g, n)
  PROVE  d \in PendingRecord /\ d.cfg = p.cfg /\ d.config = p.config /\ d.era = n
<1> DEFINE a == [p EXCEPT !.lock = TRUE]
           b == [a EXCEPT !.force = f]
           c == [b EXCEPT !.update = g]
           e == [c EXCEPT !.era = n]
<1>1. d = e /\ d.cfg = p.cfg /\ d.config = p.config /\ d.era = n
  BY DEF PendingRecord, LockLeft
<1>2. a \in PendingRecord
  <2>1. TRUE \in BOOLEAN
    OBVIOUS
  <2> QED BY <2>1 DEF PendingRecord
<1> HIDE DEF a
<1>3. b \in PendingRecord
  BY <1>2 DEF PendingRecord
<1> HIDE DEF b
<1>4. c \in PendingRecord
  BY <1>3 DEF PendingRecord
<1> HIDE DEF c
<1>5. e \in PendingRecord
  BY <1>4 DEF PendingRecord
<1> QED BY <1>1, <1>5

\* An observation moves the tracker and may leave a lock update pending,
\* which bears the configuration in force.
LEMMA NoteStep ==
  ASSUME ExtractorInv, NEW k \in Int, NEW det \in Int, note_lock_observation(k, det)
  PROVE  /\ tracker' \in TrackerRecord /\ pending' \in PendingRecord
         /\ pending'.cfg = pending.cfg /\ pending'.config = pending.config
         /\ pending'.lock => pending'.era = era.now
<1> DEFINE seen == observe(tracker, k, det)
           force == tracker.state # "Hold" /\ seen.tracker.state = "Hold"
           g == seen.tracker.est
<1>1. /\ tracker \in TrackerRecord /\ pending \in PendingRecord /\ era.now \in Int
      /\ pending.lock => pending.era = era.now
  BY DEF ExtractorInv, Typed, LockFresh
<1>2. seen \in SeenRecord
  BY <1>1, ObserveTyped
<1>3. seen.tracker \in TrackerRecord /\ g \in AnyGrid /\ force \in BOOLEAN
  BY <1>2 DEF SeenRecord, TrackerRecord
<1>4. \/ UNCHANGED <<tracker, pending>>
      \/ /\ tracker' = seen.tracker
         /\ \/ pending' = pending
            \/ pending' = [pending EXCEPT !.lock = TRUE, !.force = force, !.update = g,
                                          !.era = era.now]
  BY DEF note_lock_observation
<1> HIDE DEF seen, force, g
<1>5. CASE UNCHANGED <<tracker, pending>>
  BY <1>1, <1>5
<1>6. CASE tracker' = seen.tracker /\ pending' = pending
  BY <1>1, <1>3, <1>6
<1>7. CASE /\ tracker' = seen.tracker
           /\ pending' = [pending EXCEPT !.lock = TRUE, !.force = force, !.update = g,
                                         !.era = era.now]
  <2>1. pending' = LockLeft(pending, force, g, era.now)
    BY <1>7 DEF LockLeft
  <2>2. /\ pending' \in PendingRecord
        /\ pending'.cfg = pending.cfg /\ pending'.config = pending.config
        /\ pending'.era = era.now
    BY <1>1, <1>3, <2>1, LockUpdate
  <2> QED BY <1>3, <1>7, <2>2
<1> QED BY <1>4, <1>5, <1>6, <1>7

LEMMA DetectionTyped ==
  ASSUME NEW k \in Int, NEW det \in Detections(k)
  PROVE  det \in Int
<1>1. At(Truth, k) \in Int
  BY GridTyped, AtTyped
<1>2. PICK e \in Errors : det = At(Truth, k) + e
  BY DEF Detections
<1> QED BY <1>1, <1>2, ExtractorAssumption

LEMMA ObserveStep == ExtractorInv /\ observe_detection => ExtractorInv' /\ Held
<1> SUFFICES ASSUME ExtractorInv, observe_detection PROVE ExtractorInv' /\ Held
  OBVIOUS
<1>0. PICK k \in Index : \E det \in Detections(k) : note_lock_observation(k, det)
  BY DEF observe_detection
<1>1. PICK det \in Detections(k) : note_lock_observation(k, det)
  BY <1>0
<1>2. k \in Int /\ det \in Int
  BY GridTyped, DetectionTyped
<1>3. UNCHANGED <<core, jobs, worker, era, asked>>
  BY DEF observe_detection, blockVars
<1>4. asked \in AnyConfig /\ ConfigKept
  BY DEF ExtractorInv, Typed
<1>5. /\ tracker' \in TrackerRecord /\ pending' \in PendingRecord
      /\ pending'.cfg = pending.cfg /\ pending'.config = pending.config
      /\ pending'.lock => pending'.era = era.now
  BY <1>1, <1>2, NoteStep
<1>6. ConfigKept' /\ asked' \in AnyConfig
  BY <1>3, <1>4, <1>5 DEF ConfigKept
<1> QED BY <1>3, <1>5, <1>6, QuietStep

LEMMA ControlStep == ExtractorInv /\ Control => ExtractorInv' /\ Held
<1> SUFFICES ASSUME ExtractorInv, Control PROVE ExtractorInv' /\ Held
  OBVIOUS
<1>1. /\ core \in CoreRecord /\ tracker \in TrackerRecord /\ pending \in PendingRecord
      /\ asked \in AnyConfig /\ ConfigKept /\ (pending.lock => pending.era = era.now)
  BY DEF ExtractorInv, Typed, LockFresh
<1>2. UNCHANGED <<core, jobs, worker, era>>
  BY DEF Control, set_schedule, set_partial_eos_policy, pause_schedule, resume_schedule,
         reset_schedule, set_schedule_lock_enabled, Ask, Call, blockVars
<1>3. core.config \in AnyConfig /\ core.config.grid \in AnyGrid
  BY <1>1, Fields DEF AnyConfig
<1>4. ASSUME NEW config \in AnyConfig, Ask(config) PROVE ExtractorInv' /\ Held
  <2>1. /\ pending' = [pending EXCEPT !.cfg = TRUE, !.config = config]
        /\ asked' = config /\ tracker' = tracker
    BY <1>4 DEF Ask
  <2>2. pending' \in PendingRecord
    BY <1>1, <2>1, PendingUpdates
  <2>3. pending'.cfg = TRUE /\ pending'.config = config /\ pending'.lock = pending.lock
        /\ pending'.era = pending.era
    BY <1>1, <2>1 DEF PendingRecord
  <2>4. ConfigKept'
    BY <2>1, <2>3 DEF ConfigKept
  <2> QED BY <1>1, <1>2, <1>4, <2>1, <2>2, <2>3, <2>4, QuietStep
<1>5. CASE set_schedule
  <2>1. PICK s \in Seeds : Ask([core.config EXCEPT !.grid = s])
    BY <1>5 DEF set_schedule
  <2>2. [core.config EXCEPT !.grid = s] \in AnyConfig
    BY <1>3, GridTyped DEF AnyConfig
  <2> QED BY <1>4, <2>1, <2>2
<1>6. CASE set_partial_eos_policy
  <2>1. PICK p \in Policy : Ask([core.config EXCEPT !.eos = p])
    BY <1>6 DEF set_partial_eos_policy
  <2>2. [core.config EXCEPT !.eos = p] \in AnyConfig
    BY <1>3 DEF AnyConfig
  <2> QED BY <1>4, <2>1, <2>2
<1>7. CASE \/ pause_schedule \/ resume_schedule \/ reset_schedule
           \/ set_schedule_lock_enabled /\ tracker'.enabled = TRUE
              /\ tracker' = [tracker EXCEPT !.enabled = TRUE] /\ pending' = pending
  <2>1. pending' \in PendingRecord
    BY <1>1, <1>7, PendingUpdates DEF pause_schedule, resume_schedule, reset_schedule
  <2>2. asked' = asked
    BY <1>7 DEF pause_schedule, resume_schedule, reset_schedule, set_schedule_lock_enabled
  <2>3. pending'.cfg = pending.cfg /\ pending'.config = pending.config
        /\ pending'.lock = pending.lock /\ pending'.era = pending.era
    BY <1>1, <1>7 DEF pause_schedule, resume_schedule, reset_schedule, PendingRecord
  <2>4. tracker' \in TrackerRecord
    <3>1. [tracker EXCEPT !.enabled = TRUE] \in TrackerRecord
      BY <1>1, TrackerUpdates
    <3> QED BY <1>1, <1>7, <3>1 DEF pause_schedule, resume_schedule, reset_schedule
  <2>5. ConfigKept'
    BY <1>1, <1>2, <2>2, <2>3 DEF ConfigKept
  <2> QED BY <1>1, <1>2, <2>1, <2>2, <2>3, <2>4, <2>5, QuietStep
<1>8. CASE /\ set_schedule_lock_enabled
           /\ tracker' = [reset(tracker, core.config.grid) EXCEPT !.enabled = FALSE]
           /\ pending' = [pending EXCEPT !.lock = FALSE]
  <2>1. pending' \in PendingRecord
    BY <1>1, <1>8, PendingUpdates
  <2>2. asked' = asked
    BY <1>8 DEF set_schedule_lock_enabled
  <2>3. pending'.cfg = pending.cfg /\ pending'.config = pending.config /\ pending'.lock = FALSE
    BY <1>1, <1>8 DEF PendingRecord
  <2>4. tracker' \in TrackerRecord
    <3> DEFINE e == FALSE
               r == reset(tracker, core.config.grid)
    <3>1. e \in BOOLEAN /\ tracker.enabled \in BOOLEAN /\ tracker' = [r EXCEPT !.enabled = e]
      BY <1>1, <1>8 DEF TrackerRecord
    <3>2. r \in TrackerRecord
      BY <1>3, <3>1, ResetTyped
    <3> HIDE DEF e, r
    <3> QED BY <3>1, <3>2, TrackerUpdates
  <2>5. ConfigKept'
    BY <1>1, <1>2, <2>2, <2>3 DEF ConfigKept
  <2> QED BY <1>1, <1>2, <2>1, <2>2, <2>3, <2>4, <2>5, QuietStep
<1>9. set_schedule_lock_enabled =>
        \/ tracker' = [tracker EXCEPT !.enabled = TRUE] /\ pending' = pending
           /\ tracker'.enabled = TRUE
        \/ /\ tracker' = [reset(tracker, core.config.grid) EXCEPT !.enabled = FALSE]
           /\ pending' = [pending EXCEPT !.lock = FALSE]
  BY <1>1 DEF set_schedule_lock_enabled, TrackerRecord
<1> QED BY <1>5, <1>6, <1>7, <1>8, <1>9 DEF Control

-----------------------------------------------------------------------------
(* Steps of the block's thread.                                            *)

\* enqueue_ready_windows: completed windows go to the queue, in order, and
\* those it has no room for go back to the pool; no other slot is touched.
LEMMA EnqueueFacts ==
  ASSUME NEW c, Good(c), QueueTyped, NoJobTwice, Range(jobs) \subseteq c.out, Enqueue(c)
  PROVE  /\ Good(core') /\ core'.config = c.config /\ c.out \subseteq core'.out
         /\ \A h \in c.out : core'.slot[h] = c.slot[h]
         /\ QueueTyped' /\ NoJobTwice'
         /\ Range(jobs') \subseteq core'.out
         /\ Range(jobs') \subseteq Range(jobs) \cup Range(c.ready)
<1> DEFINE room == kJobQueueSize - Len(jobs)
           fits == IF Len(c.ready) <= room THEN c.ready ELSE SubSeq(c.ready, 1, room)
           rest == Range(c.ready) \ Range(fits)
           O == c.out \cup Range(fits)
           N == <<>>
           e == [c EXCEPT !.ready = N, !.out = O]
           r == release(e, rest)
<1>1. /\ c \in CoreRecord /\ Owned(c) /\ c.ready \in Seq(Handle)
      /\ Range(c.ready) \subseteq Handle /\ c.out \subseteq Handle /\ c.free \subseteq Handle
      /\ Len(jobs) \in Nat /\ Len(c.ready) \in Nat /\ kJobQueueSize \in Nat
      /\ jobs \in Seq(Handle) /\ Len(jobs) <= kJobQueueSize
  BY Fields, ExtractorAssumption DEF Good, QueueTyped
<1>2. jobs' = jobs \o fits /\ core' = r
  BY DEF Enqueue
<1>3. /\ fits \in Seq(Handle) /\ Len(fits) <= room /\ Range(fits) \subseteq Range(c.ready)
      /\ \A i, j \in DOMAIN fits : i # j => fits[i] # fits[j]
  <2>1. \A i, j \in DOMAIN c.ready : i # j => c.ready[i] # c.ready[j]
    BY <1>1 DEF Owned
  <2>2. CASE Len(c.ready) <= room
    BY <1>1, <2>1, <2>2
  <2>3. CASE ~(Len(c.ready) <= room)
    <3>1. room \in 0..Len(c.ready) /\ fits = SubSeq(c.ready, 1, room)
      BY <1>1, <2>3
    <3> HIDE DEF room, fits
    <3> QED BY <1>1, <2>1, <3>1, PrefixRange
  <2> QED BY <2>2, <2>3
<1> HIDE DEF fits
<1>4. /\ O \in SUBSET Handle /\ rest \in SUBSET Handle /\ rest \cap O = {}
      /\ c.out \subseteq O /\ Range(fits) \subseteq O /\ rest \cup Range(fits) = Range(c.ready)
      /\ c.free \cap O = {} /\ c.active \notin O \cup rest
  BY <1>1, <1>3 DEF Owned
<1>5. N \in Seq(Handle) /\ Range(N) = {} /\ DOMAIN N = {}
  BY DEF Range
<1> HIDE DEF rest, O, N
<1>6. /\ e \in CoreRecord /\ e.config = c.config /\ e.state = c.state /\ e.free = c.free
      /\ e.ready = N /\ e.out = O /\ e.active = c.active /\ e.slot = c.slot
  BY <1>1, <1>4, <1>5 DEF CoreRecord
<1> HIDE DEF e
<1>7. /\ r \in CoreRecord /\ r.config = c.config /\ r.state = c.state
      /\ r.free = c.free \cup rest /\ r.ready = N /\ r.out = O \ rest
      /\ r.active = c.active /\ \A h \in Handle \ rest : r.slot[h] = c.slot[h]
  BY <1>4, <1>6, ReleaseFields
<1> HIDE DEF r
<1>8. r.out = O
  BY <1>4, <1>7
<1>9. Owned(r)
  BY <1>1, <1>4, <1>5, <1>7, <1>8 DEF Owned
<1>10. \A h \in c.out : r.slot[h] = c.slot[h]
  BY <1>1, <1>4, <1>7
<1>11. /\ jobs' \in Seq(Handle) /\ Len(jobs') = Len(jobs) + Len(fits)
       /\ Range(jobs') = Range(jobs) \cup Range(fits) /\ NoJobTwice'
  <2>1. Range(jobs) \cap Range(fits) = {}
    BY <1>1, <1>3 DEF Owned
  <2>2. \A i, j \in DOMAIN jobs : i # j => jobs[i] # jobs[j]
    BY DEF NoJobTwice
  <2> QED BY <1>1, <1>2, <1>3, <2>1, <2>2, ConcatRange DEF NoJobTwice
<1>12. QueueTyped'
  <2>1. Len(fits) \in Nat
    BY <1>3
  <2>2. Len(jobs) + Len(fits) <= kJobQueueSize
    BY <1>1, <1>3, <2>1
  <2> QED BY <1>11, <2>2 DEF QueueTyped
<1> QED BY <1>2, <1>3, <1>4, <1>7, <1>8, <1>9, <1>10, <1>11, <1>12 DEF Good

\* The chunk is cut into windows, the queue is filled: what is in hand stays.
LEMMA HandOver ==
  ASSUME ExtractorInv, NEW c, Spares(core, c), c.config = core.config, Enqueue(c),
         UNCHANGED <<tracker, pending, worker, era, asked>>
  PROVE  ExtractorInv' /\ Held
<1>1. /\ Good(c) /\ QueueTyped /\ NoJobTwice /\ Range(jobs) \subseteq c.out
      /\ AtWorker \subseteq c.out /\ Range(jobs) \cap AtWorker = {}
  BY DEF ExtractorInv, Typed, InHand, Spares
<1>2. /\ Good(core') /\ core'.config = c.config /\ c.out \subseteq core'.out
      /\ \A h \in c.out : core'.slot[h] = c.slot[h]
      /\ QueueTyped' /\ NoJobTwice'
      /\ Range(jobs') \subseteq core'.out
      /\ Range(jobs') \subseteq Range(jobs) \cup Range(c.ready)
  BY <1>1, EnqueueFacts
<1>3. Range(jobs') \cap AtWorker = {}
  BY <1>1, <1>2 DEF Good, Owned
<1>4. AtWorker' = AtWorker
  BY DEF AtWorker
<1>5. InHand'
  BY <1>1, <1>2, <1>3, <1>4 DEF InHand
<1>6. Typed'
  BY <1>2 DEF ExtractorInv, Typed, Good
<1>7. ConfigKept' /\ LockFresh'
  BY <1>2 DEF ExtractorInv, ConfigKept, LockFresh
<1>8. Held
  BY <1>2 DEF Held, Spares
<1> QED BY <1>2, <1>5, <1>6, <1>7, <1>8 DEF ExtractorInv, Good

\* Steps of the core between two queue operations.
LEMMA CoreStep ==
  ASSUME ExtractorInv, Spares(core, core'), core'.config = core.config,
         UNCHANGED <<tracker, pending, worker, jobs, era, asked>>
  PROVE  ExtractorInv' /\ Held
<1>1. Typed'
  BY DEF ExtractorInv, Typed, QueueTyped, Spares, Good
<1>2. InHand'
  BY DEF ExtractorInv, InHand, NoJobTwice, AtWorker, Spares
<1>3. ConfigKept' /\ LockFresh' /\ Owned(core)'
  BY DEF ExtractorInv, ConfigKept, LockFresh, Spares, Good
<1>4. Held
  BY DEF Held, Spares
<1> QED BY <1>1, <1>2, <1>3, <1>4 DEF ExtractorInv

LEMMA CoreGood == ExtractorInv => Good(core) /\ Spares(core, core)
BY SparesSelf DEF ExtractorInv, Typed, Good

LEMMA WorkStep == ExtractorInv /\ work => ExtractorInv' /\ Held
<1> SUFFICES ASSUME ExtractorInv, work PROVE ExtractorInv' /\ Held
  OBVIOUS
<1>1. UNCHANGED <<tracker, pending, worker, era, asked>>
  BY DEF work, others
<1>2. CASE Enqueue(core)
  BY <1>1, <1>2, CoreGood, HandOver
<1>3. CASE UNCHANGED <<core, jobs>>
  <2>1. Spares(core, core')
    BY <1>3, CoreGood
  <2> QED BY <1>1, <1>3, <2>1, CoreStep
<1> QED BY <1>2, <1>3 DEF work

LEMMA EndStep == ExtractorInv /\ (end_chunk \/ stop) => ExtractorInv' /\ Held
<1> SUFFICES ASSUME ExtractorInv, end_chunk \/ stop PROVE ExtractorInv' /\ Held
  OBVIOUS
<1>1. UNCHANGED <<tracker, pending, worker, era, asked>>
  BY DEF end_chunk, stop, others
<1>2. CASE Enqueue(core)
  BY <1>1, <1>2, CoreGood, HandOver
<1>3. CASE Enqueue(flush_eos(core))
  BY <1>1, <1>3, CoreGood, FlushSpares, HandOver
<1> QED BY <1>2, <1>3 DEF end_chunk, stop

LEMMA BeginStep == ASSUME ExtractorInv, NEW h \in Handle, begin_window(h)
                   PROVE  ExtractorInv' /\ Held
<1> DEFINE F == core.free \ {h}
           s == "CopyWindow"
           S == [core.slot EXCEPT ![h] = core.k]
           d == [core EXCEPT !.free = F, !.active = h, !.state = s, !.slot = S]
<1>1. /\ Good(core) /\ core \in CoreRecord /\ Owned(core) /\ core.k \in Int
      /\ core.slot \in [Handle -> Int] /\ core.free \subseteq Handle
      /\ h \in core.free /\ core.active = kInvalid
  <2>1. Good(core) /\ core.state = "WaitWindow"
    BY CoreGood DEF begin_window
  <2> QED BY <2>1, Fields DEF Good, Owned, begin_window
<1>2. core' = d
  BY <1>1 DEF begin_window, CoreRecord
<1>3. F \in SUBSET Handle /\ s \in CoreState /\ S \in [Handle -> Int]
      /\ \A g \in Handle : g # h => S[g] = core.slot[g]
  BY <1>1 DEF CoreState
<1> HIDE DEF F, S, s
<1>4. d \in CoreRecord
  <2> DEFINE a == [core EXCEPT !.free = F, !.active = h]
             b == [a EXCEPT !.state = s]
  <2>1. a \in CoreRecord
    BY <1>1, <1>3 DEF CoreRecord
  <2>2. d = [b EXCEPT !.slot = S]
    BY <1>1 DEF CoreRecord
  <2> HIDE DEF a, d
  <2>3. b \in CoreRecord
    BY <1>3, <2>1 DEF CoreRecord
  <2> HIDE DEF b
  <2> QED BY <1>3, <2>2, <2>3 DEF CoreRecord
<1>5. /\ d.free = F /\ d.ready = core.ready /\ d.out = core.out /\ d.active = h
      /\ d.state = s /\ d.slot = S /\ d.config = core.config
  BY <1>1 DEF CoreRecord
<1> HIDE DEF d
<1>6. Owned(d)
  <2>1. h # kInvalid
    BY ExtractorAssumption
  <2> QED BY <1>1, <1>5, <2>1 DEF Owned, F, s
<1>7. \A g \in core.out : d.slot[g] = core.slot[g]
  BY <1>1, <1>3, <1>5, Fields DEF Owned
<1>8. Spares(core, core') /\ core'.config = core.config
  BY <1>2, <1>4, <1>5, <1>6, <1>7 DEF Spares, Good
<1>9. UNCHANGED <<tracker, pending, worker, jobs, era, asked>>
  BY DEF begin_window, others
<1> QED BY <1>8, <1>9, CoreStep

LEMMA PassStep ==
  ExtractorInv /\ (starve_window \/ finish_window \/ wait_for_worker_idle \/ joined)
    => ExtractorInv' /\ Held
<1> SUFFICES ASSUME ExtractorInv, starve_window \/ finish_window \/ wait_for_worker_idle \/ joined
             PROVE  ExtractorInv' /\ Held
  OBVIOUS
<1>1. UNCHANGED <<tracker, pending, worker, jobs, era, asked>>
  BY DEF starve_window, finish_window, wait_for_worker_idle, joined, others
<1>2. Good(core) /\ core \in CoreRecord /\ core.k + 1 \in Int /\ Spares(core, core)
  BY CoreGood, Fields DEF Good
<1>3. CASE starve_window
  <2> DEFINE k == core.k + 1
             d == [core EXCEPT !.k = k]
  <2>1. core' = d
    BY <1>3 DEF starve_window
  <2>2. k \in Int
    BY <1>2
  <2> HIDE DEF k
  <2>3. /\ d \in CoreRecord /\ d.free = core.free /\ d.ready = core.ready
        /\ d.out = core.out /\ d.active = core.active /\ d.slot = core.slot
        /\ d.state = core.state /\ d.config = core.config
    BY <1>2, <2>2 DEF CoreRecord
  <2> HIDE DEF d
  <2>4. Spares(core, d)
    BY <1>2, <2>3, SameSlotsSpare
  <2> QED BY <1>1, <2>1, <2>3, <2>4, CoreStep
<1>4. CASE finish_window
  <2>1. core' = finish_active_window(core) /\ core.active # kInvalid
    BY <1>2, <1>4 DEF finish_window, Good, Owned
  <2> QED BY <1>1, <1>2, <2>1, FinishSpares, CoreStep
<1>5. CASE wait_for_worker_idle \/ joined
  <2>1. core' = core
    BY <1>5 DEF wait_for_worker_idle, joined
  <2> QED BY <1>1, <1>2, <2>1, CoreStep
<1> QED BY <1>3, <1>4, <1>5

\* The pending calls are applied, in the code's order.
LEMMA ApplyStep == ExtractorInv /\ apply_pending_config => ExtractorInv' /\ Held
<1> SUFFICES ASSUME ExtractorInv, apply_pending_config PROVE ExtractorInv' /\ Held
  OBVIOUS
<1>1. PICK k \in Index, resumed \in Index, fit \in LockOutcomes(pending.force) :
        LET p == pending
            c == Configured(p, k)
            locked == update_locked_params(c, p.update, fit)
            seeded == IF HasConfig(p) THEN reset(tracker, p.config.grid) ELSE tracker
            now == IF HasConfig(p) THEN era.now + 1 ELSE era.now
        IN \/ /\ HasLock(p) /\ fit # "late"
              /\ core' = Paused(locked, p, resumed)
              /\ tracker' = [seeded EXCEPT !.est = locked.config.grid]
              /\ asked' = [asked EXCEPT !.grid = locked.config.grid]
              /\ era' = [now |-> now, learned |-> p.era]
           \/ /\ ~(HasLock(p) /\ fit # "late")
              /\ core' = Paused(c, p, resumed)
              /\ tracker' = seeded /\ UNCHANGED asked
              /\ era' = [now |-> now, learned |-> IF HasConfig(p) THEN now ELSE era.learned]
  BY DEF apply_pending_config
<1> DEFINE p == pending
           c == Configured(p, k)
           locked == update_locked_params(c, p.update, fit)
           seeded == IF HasConfig(p) THEN reset(tracker, p.config.grid) ELSE tracker
           now == IF HasConfig(p) THEN era.now + 1 ELSE era.now
<1>2. /\ Good(core) /\ tracker \in TrackerRecord /\ tracker.enabled \in BOOLEAN
      /\ p \in PendingRecord /\ asked \in AnyConfig /\ era.now \in Int /\ era.learned \in Int
      /\ p.config \in AnyConfig /\ p.config.grid \in AnyGrid /\ p.update \in AnyGrid
      /\ p.era \in Int /\ ConfigKept /\ era.learned = era.now
      /\ (p.lock => p.era = era.now)
  <2>1. /\ Good(core) /\ tracker \in TrackerRecord /\ pending \in PendingRecord
        /\ asked \in AnyConfig /\ era \in [now : Int, learned : Int] /\ ConfigKept /\ LockFresh
    BY CoreGood DEF ExtractorInv, Typed
  <2>2. tracker.enabled \in BOOLEAN
    BY <2>1 DEF TrackerRecord
  <2>3. p.config \in AnyConfig /\ p.update \in AnyGrid /\ p.era \in Int
    BY <2>1 DEF PendingRecord
  <2> QED BY <2>1, <2>2, <2>3 DEF LockFresh, AnyConfig
<1>3. k \in Int /\ resumed \in Int /\ fit \in {"absolute", "continuous", "late"}
  BY GridTyped DEF LockOutcomes
<1>4. Spares(core, c) /\ c.config \in AnyConfig /\ c.config = asked
  <2> DEFINE b == IF p.reset THEN core_reset(core) ELSE core
  <2>1. Spares(core, b) /\ b.config = core.config
    BY <1>2, SparesSelf, RebuiltSpares DEF core_reset
  <2>2. c = IF HasConfig(p) THEN core_configure(b, p.config, k) ELSE b
    BY DEF Configured
  <2> HIDE DEF b, c, p
  <2>3. Good(b)
    BY <2>1 DEF Spares
  <2>4. CASE HasConfig(p)
    <3>1. Spares(b, c) /\ c.config = p.config
      BY <1>2, <1>3, <2>2, <2>3, <2>4, ConfigureSpares
    <3>2. p.config = asked
      BY <1>2, <2>4 DEF HasConfig, ConfigKept, p
    <3> QED BY <1>2, <2>1, <3>1, <3>2, SparesChain
  <2>5. CASE ~HasConfig(p)
    <3>1. core.config = asked
      BY <1>2, <2>5 DEF HasConfig, ConfigKept, p
    <3> QED BY <1>2, <2>1, <2>2, <2>5, <3>1
  <2> QED BY <2>4, <2>5
<1>5. Good(c)
  BY <1>4 DEF Spares
<1>6. /\ Spares(c, locked) /\ locked.config \in AnyConfig
      /\ locked.config = [c.config EXCEPT !.grid = locked.config.grid]
  <2> DEFINE u == p.update
  <2>1. u \in AnyGrid
    BY <1>2
  <2> HIDE DEF c, p, u
  <2>2. locked = update_locked_params(c, u, fit)
    BY DEF u
  <2> HIDE DEF locked
  <2> QED BY <1>3, <1>5, <2>1, <2>2, LockedSpares
<1>7. seeded \in TrackerRecord
  BY <1>2, ResetTyped
<1>8. now \in Int /\ (HasLock(p) => now = era.now /\ p.era = era.now)
  BY <1>2 DEF HasLock
<1>9. ASSUME NEW x, Good(x)
      PROVE  Spares(x, Paused(x, p, resumed)) /\ Paused(x, p, resumed).config = x.config
  <2> DEFINE y == IF p.pause THEN core_pause(x) ELSE x
             z == IF p.resume THEN core_resume(y, resumed) ELSE y
  <2>1. Paused(x, p, resumed) = z
    BY DEF Paused
  <2>2. Spares(x, y) /\ y.config = x.config
    BY <1>9, SparesSelf, PauseSpares
  <2> HIDE DEF y
  <2>3. Spares(y, z) /\ z.config = y.config
    BY <1>3, <2>2, SparesSelf, ResumeSpares DEF Spares
  <2> HIDE DEF z
  <2> QED BY <2>1, <2>2, <2>3, SparesChain
<1>10. UNCHANGED <<jobs, worker>> /\ pending' = NoPending
  BY DEF apply_pending_config
<1>11. pending' \in PendingRecord /\ pending'.cfg = FALSE /\ pending'.lock = FALSE
  <2>1. FirstSeed \in AnyGrid
    BY GridTyped
  <2> QED BY <1>10, <2>1 DEF NoPending, PendingRecord, AnyConfig, Policy
<1>12. /\ Spares(core, core') /\ core'.config = asked' /\ asked' \in AnyConfig
       /\ tracker' \in TrackerRecord /\ era' \in [now : Int, learned : Int]
       /\ era'.learned = era'.now
  <2>1. CASE HasLock(p) /\ fit # "late"
    <3>1. /\ core' = Paused(locked, p, resumed)
          /\ tracker' = [seeded EXCEPT !.est = locked.config.grid]
          /\ asked' = [asked EXCEPT !.grid = locked.config.grid]
          /\ era' = [now |-> now, learned |-> p.era]
      BY <1>1, <2>1
    <3> HIDE DEF locked, seeded, now, c, p
    <3>2. Good(locked)
      BY <1>6 DEF Spares
    <3>3. Spares(locked, core') /\ core'.config = locked.config
      BY <1>9, <3>1, <3>2
    <3>4. Spares(core, core')
      BY <1>4, <1>6, <3>3, SparesChain
    <3>5. asked' = locked.config
      BY <1>4, <1>6, <3>1
    <3>6. locked.config.grid \in AnyGrid
      BY <1>6 DEF AnyConfig
    <3>7. tracker' \in TrackerRecord
      BY <1>7, <3>1, <3>6, TrackerUpdates
    <3> QED BY <1>2, <1>6, <1>8, <2>1, <3>1, <3>3, <3>4, <3>5, <3>7
  <2>2. CASE ~(HasLock(p) /\ fit # "late")
    <3>1. /\ core' = Paused(c, p, resumed)
          /\ tracker' = seeded /\ UNCHANGED asked
          /\ era' = [now |-> now, learned |-> IF HasConfig(p) THEN now ELSE era.learned]
      BY <1>1, <2>2
    <3>2. ~HasConfig(p) => now = era.now
      OBVIOUS
    <3> HIDE DEF locked, seeded, now, c, p
    <3>3. Spares(c, core') /\ core'.config = c.config
      BY <1>5, <1>9, <3>1
    <3>4. Spares(core, core')
      BY <1>4, <3>3, SparesChain
    <3> QED BY <1>2, <1>4, <1>7, <1>8, <3>1, <3>2, <3>3, <3>4
  <2> QED BY <2>1, <2>2
<1>13. Typed'
  BY <1>10, <1>11, <1>12 DEF ExtractorInv, Typed, QueueTyped, Spares, Good
<1>14. InHand'
  BY <1>10, <1>12 DEF ExtractorInv, InHand, NoJobTwice, AtWorker, Spares
<1>15. ConfigKept' /\ LockFresh' /\ Owned(core)'
  BY <1>11, <1>12 DEF ConfigKept, LockFresh, Spares, Good
<1>16. Held
  BY <1>12 DEF Held, Spares
<1> QED BY <1>13, <1>14, <1>15, <1>16 DEF ExtractorInv

LEMMA StartStep == ExtractorInv /\ start => ExtractorInv' /\ Held
<1> SUFFICES ASSUME ExtractorInv, start PROVE ExtractorInv' /\ Held
  OBVIOUS
<1> DEFINE N == <<>>
<1>1. N \in Seq(Handle) /\ Range(N) = {} /\ DOMAIN N = {} /\ Len(N) = 0
  BY DEF Range
<1>2. /\ jobs' = N /\ worker' = [at |-> "wait", handle |-> kInvalid]
      /\ UNCHANGED <<core, tracker, pending, era, asked>>
  BY DEF start
<1> HIDE DEF N
<1>3. worker' \in WorkerRecord /\ AtWorker' = {}
  BY <1>2 DEF WorkerRecord, AtWorker
<1>4. QueueTyped' /\ NoJobTwice'
  BY <1>1, <1>2, ExtractorAssumption DEF QueueTyped, NoJobTwice
<1>5. Typed'
  BY <1>2, <1>3, <1>4 DEF ExtractorInv, Typed
<1>6. InHand'
  BY <1>1, <1>2, <1>3, <1>4 DEF InHand
<1>7. ConfigKept' /\ LockFresh' /\ Owned(core)' /\ Held
  BY <1>2 DEF ExtractorInv, ConfigKept, LockFresh, Held
<1> QED BY <1>5, <1>6, <1>7 DEF ExtractorInv

-----------------------------------------------------------------------------
(* Steps of the worker.                                                    *)

\* Steps that take nothing from the pool and give nothing back.
LEMMA WorkerMoves ==
  ASSUME ExtractorInv, UNCHANGED <<core, era, asked>>,
         tracker' \in TrackerRecord, pending' \in PendingRecord,
         pending'.cfg = pending.cfg, pending'.config = pending.config,
         pending'.lock => pending'.era = era.now,
         worker' \in WorkerRecord, QueueTyped', InHand'
  PROVE  ExtractorInv' /\ Held
<1>1. Typed'
  BY DEF ExtractorInv, Typed
<1>2. ConfigKept' /\ LockFresh' /\ Owned(core)' /\ Held
  BY DEF ExtractorInv, ConfigKept, LockFresh, Held
<1> QED BY <1>1, <1>2 DEF ExtractorInv

LEMMA WorkerTypes ==
  ASSUME ExtractorInv
  PROVE  /\ worker \in WorkerRecord /\ QueueTyped /\ InHand
         /\ \A a \in {"wait", "publish", "release", "done", "exit"} :
              [worker EXCEPT !.at = a] \in WorkerRecord
         /\ tracker \in TrackerRecord /\ pending \in PendingRecord
         /\ pending.lock => pending.era = era.now
         /\ core \in CoreRecord /\ core.out \subseteq Handle
<1>1. worker \in WorkerRecord /\ core \in CoreRecord
  BY DEF ExtractorInv, Typed
<1>2. \A a \in {"wait", "publish", "release", "done", "exit"} :
        [worker EXCEPT !.at = a] \in WorkerRecord
  BY <1>1 DEF WorkerRecord
<1> QED BY <1>1, <1>2, Fields DEF ExtractorInv, Typed, LockFresh

LEMMA TakeStep == ExtractorInv /\ worker_take => ExtractorInv' /\ Held
<1> SUFFICES ASSUME ExtractorInv, worker_take PROVE ExtractorInv' /\ Held
  OBVIOUS
<1>1. /\ worker.at = "wait" /\ jobs # <<>>
      /\ worker' = [at |-> "publish", handle |-> Head(jobs)] /\ jobs' = Tail(jobs)
      /\ UNCHANGED <<core, tracker, pending, era, asked>>
  BY DEF worker_take, workVars
<1>2. jobs \in Seq(Handle) /\ Len(jobs) <= kJobQueueSize /\ InHand /\ NoJobTwice
  BY WorkerTypes DEF QueueTyped, InHand
<1>3. /\ Tail(jobs) \in Seq(Handle) /\ Head(jobs) \in Range(jobs) /\ Range(jobs) \subseteq Handle
      /\ Range(Tail(jobs)) = Range(jobs) \ {Head(jobs)}
      /\ \A i, j \in DOMAIN Tail(jobs) : i # j => Tail(jobs)[i] # Tail(jobs)[j]
  BY <1>1, <1>2, TailRange DEF NoJobTwice
<1>4. worker' \in WorkerRecord /\ AtWorker' = {Head(jobs)}
  BY <1>1, <1>3 DEF WorkerRecord, AtWorker
<1>5. QueueTyped'
  <2>1. Len(Tail(jobs)) <= Len(jobs) /\ Len(jobs) \in Nat /\ Len(Tail(jobs)) \in Nat
    BY <1>1, <1>2
  <2>2. Len(Tail(jobs)) <= kJobQueueSize
    BY <1>2, <2>1, ExtractorAssumption
  <2> QED BY <1>1, <1>3, <2>2 DEF QueueTyped
<1>6. InHand'
  BY <1>1, <1>2, <1>3, <1>4 DEF InHand, NoJobTwice
<1>7. /\ tracker' \in TrackerRecord /\ pending' \in PendingRecord
      /\ pending'.cfg = pending.cfg /\ pending'.config = pending.config
      /\ pending'.lock => pending'.era = era.now
  BY <1>1, WorkerTypes
<1> QED BY <1>1, <1>4, <1>5, <1>6, <1>7, WorkerMoves

LEMMA PublishStep == ExtractorInv /\ publish_window => ExtractorInv' /\ Held
<1> SUFFICES ASSUME ExtractorInv, publish_window PROVE ExtractorInv' /\ Held
  OBVIOUS
<1>1. /\ worker.at = "publish" /\ worker' = [worker EXCEPT !.at = "release"]
      /\ UNCHANGED <<core, jobs, era, asked>>
  BY DEF publish_window, workVars
<1>2. worker' \in WorkerRecord /\ worker'.at = "release" /\ worker'.handle = worker.handle
  BY <1>1, WorkerTypes DEF WorkerRecord
<1>3. AtWorker' = AtWorker
  BY <1>1, <1>2 DEF AtWorker
<1>4. QueueTyped' /\ InHand'
  BY <1>1, <1>3, WorkerTypes DEF QueueTyped, InHand, NoJobTwice
<1>5. /\ tracker' \in TrackerRecord /\ pending' \in PendingRecord
      /\ pending'.cfg = pending.cfg /\ pending'.config = pending.config
      /\ pending'.lock => pending'.era = era.now
  <2>1. CASE UNCHANGED <<tracker, pending>>
    BY <2>1, WorkerTypes
  <2>2. CASE \E det \in Detections(core.slot[worker.handle]) :
               note_lock_observation(core.slot[worker.handle], det)
    <3>1. PICK det \in Detections(core.slot[worker.handle]) :
            note_lock_observation(core.slot[worker.handle], det)
      BY <2>2
    <3>2. worker.handle \in Handle
      BY <1>1, WorkerTypes DEF InHand, AtWorker
    <3>3. core.slot[worker.handle] \in Int
      BY <3>2, WorkerTypes, Fields
    <3>4. det \in Int
      BY <3>3, DetectionTyped
    <3> QED BY <3>1, <3>3, <3>4, NoteStep
  <2> QED BY <2>1, <2>2 DEF publish_window
<1> QED BY <1>1, <1>2, <1>4, <1>5, WorkerMoves

LEMMA ReleaseStep == ExtractorInv /\ release_window => ExtractorInv' /\ Held
<1> SUFFICES ASSUME ExtractorInv, release_window PROVE ExtractorInv' /\ Held
  OBVIOUS
<1> DEFINE h == worker.handle
           r == release(core, {h})
<1>1. /\ worker.at = "release" /\ worker' = [worker EXCEPT !.at = "done"] /\ core' = r
      /\ UNCHANGED <<tracker, pending, jobs, era, asked>>
  BY DEF release_window, workVars
<1>2. /\ h \in core.out /\ h \notin Range(jobs) /\ h \in Handle /\ Range(jobs) \subseteq core.out
  BY <1>1, WorkerTypes DEF InHand, AtWorker
<1>3. /\ r \in CoreRecord
      /\ r.free = core.free \cup {h} /\ r.out = core.out \ {h}
      /\ r.config = core.config /\ r.state = core.state
      /\ r.ready = core.ready /\ r.active = core.active
      /\ \A g \in Handle \ {h} : r.slot[g] = core.slot[g]
  BY <1>2, WorkerTypes, ReleaseFields
<1> HIDE DEF r
<1>4. Owned(r)
  <2>1. Owned(core)
    BY DEF ExtractorInv
  <2> HIDE DEF h
  <2> QED BY <1>2, <1>3, <2>1 DEF Owned
<1>5. worker' \in WorkerRecord /\ AtWorker' = {}
  BY <1>1, WorkerTypes DEF WorkerRecord, AtWorker
<1>6. InHand'
  BY <1>1, <1>2, <1>3, <1>5, WorkerTypes DEF InHand, NoJobTwice
<1>7. Typed'
  BY <1>1, <1>3, <1>5 DEF ExtractorInv, Typed, QueueTyped
<1>8. ConfigKept' /\ LockFresh'
  BY <1>1, <1>3 DEF ExtractorInv, ConfigKept, LockFresh
<1>9. Held
  BY <1>1, <1>3, WorkerTypes DEF Held
<1> QED BY <1>1, <1>4, <1>6, <1>7, <1>8, <1>9 DEF ExtractorInv

LEMMA RestStep == ExtractorInv /\ (worker_done \/ worker_exit) => ExtractorInv' /\ Held
<1> SUFFICES ASSUME ExtractorInv, worker_done \/ worker_exit PROVE ExtractorInv' /\ Held
  OBVIOUS
<1>1. UNCHANGED <<core, tracker, pending, jobs, era, asked>>
  BY DEF worker_done, worker_exit, workVars
<1>2. worker' \in WorkerRecord /\ AtWorker' = {}
  <2>1. CASE worker_done
    BY <2>1 DEF worker_done, Done, WorkerRecord, AtWorker
  <2>2. CASE worker_exit
    BY <2>2, WorkerTypes DEF worker_exit, WorkerRecord, AtWorker
  <2> QED BY <2>1, <2>2
<1>3. QueueTyped' /\ InHand'
  BY <1>1, <1>2, WorkerTypes DEF QueueTyped, InHand, NoJobTwice
<1>4. /\ tracker' \in TrackerRecord /\ pending' \in PendingRecord
      /\ pending'.cfg = pending.cfg /\ pending'.config = pending.config
      /\ pending'.lock => pending'.era = era.now
  BY <1>1, WorkerTypes
<1> QED BY <1>1, <1>2, <1>3, <1>4, WorkerMoves

-----------------------------------------------------------------------------
LEMMA StutterStep == ExtractorInv /\ UNCHANGED vars => ExtractorInv' /\ Held
<1> SUFFICES ASSUME ExtractorInv, UNCHANGED vars PROVE ExtractorInv' /\ Held
  OBVIOUS
<1>1. UNCHANGED <<core, tracker, pending, worker, jobs, era, asked>>
  BY DEF vars
<1> QED BY <1>1, CoreGood, CoreStep

LEMMA NextHolds == ExtractorInv /\ [Next]_vars => ExtractorInv' /\ Held
BY ObserveStep, ControlStep, WorkStep, EndStep, BeginStep, PassStep, ApplyStep, StartStep,
   TakeStep, PublishStep, ReleaseStep, RestStep, StutterStep
DEF Next, BlockStep, WorkerStep

LEMMA AlwaysHolds == Spec => []ExtractorInv
<1>1. ExtractorInv /\ [Next]_vars => ExtractorInv'
  BY NextHolds
<1> QED BY <1>1, InitHolds, PTL DEF Spec

\* While a window is with the worker nobody touches its slot: reset,
\* configure, the cutting of new windows and the hand-over go on beside it.
THEOREM HeldWindowsSafe == Spec => HeldWindowIntact
<1>1. ExtractorInv /\ [Next]_vars => [Held]_vars
  BY NextHolds
<1>2. [Held]_vars => [\A h \in core.out : h \in core'.out => core'.slot[h] = core.slot[h]]_vars
  BY DEF Held
<1> QED BY <1>1, <1>2, AlwaysHolds, PTL DEF Spec, HeldWindowIntact

\* A configuration that was asked for is in force as soon as none is pending,
\* whatever calls came between the two looks at the pending flags.
THEOREM ConfigsArrive == Spec => []ConfigNotLost
<1>1. ExtractorInv => ConfigNotLost
  BY DEF ExtractorInv, ConfigKept, ConfigNotLost
<1> QED BY <1>1, AlwaysHolds, PTL

\* What was learned under one configuration is not applied to the next.
THEOREM LocksFresh == Spec => []StaleLockNeverApplied
<1>1. ExtractorInv => StaleLockNeverApplied
  BY DEF ExtractorInv, LockFresh, StaleLockNeverApplied
<1> QED BY <1>1, AlwaysHolds, PTL

\* The queue never holds more than kJobQueueSize windows, none twice, and
\* what it or the worker holds is checked out of the pool.
THEOREM JobsOwnedOnce == Spec => [](QueueTyped /\ InHand)
<1>1. ExtractorInv => QueueTyped /\ InHand
  BY DEF ExtractorInv, Typed
<1> QED BY <1>1, AlwaysHolds, PTL
=============================================================================
