-------------------- MODULE AutoScheduledExtractorProofs --------------------
(***************************************************************************)
(* For every tracker threshold, every queue length and any interleaving of *)
(* the work thread, the worker and the other threads: the cores are only   *)
(* reconfigured when they are drained, the verification counter is the     *)
(* truth, windows are cut on the schedule the tracker follows, and no      *)
(* label crosses a break of the stream.  What is known of the tracker's    *)
(* methods is taken from its own proofs.                                   *)
(***************************************************************************)
EXTENDS AutoScheduledExtractor, FiniteSetTheorems, TLAPS

\* The tracker's proofs, with every slot a position.
P == INSTANCE Qm35AcquisitionTrackerProofs WITH
       Origin <- Nat, NoOrigin <- NoOrigin, MaxGeneration <- 0, history <- {}

-----------------------------------------------------------------------------
(* The tracker's methods, as the extractor calls them.                     *)

LEMMA MethodsSame ==
  ASSUME NEW tr
  PROVE  /\ T!configure(tr) = P!configure(tr)
         /\ T!note_discontinuity(tr) = P!note_discontinuity(tr)
         /\ T!note_candidate_emitted(tr) = P!note_candidate_emitted(tr)
         /\ T!scheduled_path_active(tr) <=> P!scheduled_path_active(tr)
         /\ T!energy_path_active(tr) <=> P!energy_path_active(tr)
         /\ \A obs : /\ T!on_lock_obs(tr, obs) = P!on_lock_obs(tr, obs)
                     /\ T!on_lock_obs_action(tr, obs) = P!on_lock_obs_action(tr, obs)
<1>1. T!configure(tr) = P!configure(tr)
  BY DEF P!configure, T!configure, P!reset_acquire, T!reset_acquire
<1>2. T!note_discontinuity(tr) = P!note_discontinuity(tr)
  BY DEF P!note_discontinuity, T!note_discontinuity, P!enter_reacquire, T!enter_reacquire
<1>3. T!scheduled_path_active(tr) <=> P!scheduled_path_active(tr)
  BY DEF P!scheduled_path_active, T!scheduled_path_active
<1>4. T!energy_path_active(tr) <=> P!energy_path_active(tr)
  BY DEF P!energy_path_active, T!energy_path_active
<1>5. T!note_candidate_emitted(tr) = P!note_candidate_emitted(tr)
  BY DEF P!note_candidate_emitted, T!note_candidate_emitted,
         P!energy_path_active, T!energy_path_active
<1>6. T!note_miss(tr) = P!note_miss(tr)
  BY DEF P!note_miss, T!note_miss, P!enter_reacquire, T!enter_reacquire,
         P!scheduled_path_active, T!scheduled_path_active,
         P!holdover_miss_count, T!holdover_miss_count,
         P!reacquire_miss_count, T!reacquire_miss_count
<1>7. T!note_timing(tr) = P!note_timing(tr)
  BY DEF P!note_timing, T!note_timing, P!lock_observations, T!lock_observations
<1>8. T!reject_identity(tr) = P!reject_identity(tr)
  BY DEF P!reject_identity, T!reject_identity
<1>9. \A obs : T!on_lock_obs_action(tr, obs) = P!on_lock_obs_action(tr, obs)
  BY DEF P!on_lock_obs_action, T!on_lock_obs_action, P!StaleObs, T!StaleObs
<1>10. \A o : T!confirm_identity(tr, o) = P!confirm_identity(tr, o)
  BY DEF P!confirm_identity, T!confirm_identity
<1>11. \A obs : T!on_lock_obs(tr, obs) = P!on_lock_obs(tr, obs)
  BY <1>6, <1>7, <1>8, <1>9, <1>10 DEF P!on_lock_obs, T!on_lock_obs
<1> QED BY <1>1, <1>2, <1>3, <1>4, <1>5, <1>9, <1>11

LEMMA Assumed == P!TrackerAssumption
BY ExtractorAssumption DEF P!TrackerAssumption, NoOrigin

Followed(tr) == T!scheduled_path_active(tr)

\* A step that neither takes up a schedule nor changes the one followed.
Keeps(tr, next) ==
  Followed(next) => Followed(tr) /\ next.first_start = tr.first_start

LEMMA GoodFields ==
  ASSUME NEW tr, P!Good(tr)
  PROVE  /\ tr \in P!Tracker /\ tr.generation \in Nat /\ tr.epoch \in Nat
         /\ tr.first_start \in Int
         /\ Followed(tr) => tr.identity_confirmed /\ tr.first_start # NoOrigin
         /\ tr.identity_confirmed => Followed(tr)
<1>1. tr \in P!Tracker /\ P!PathOK(tr)
  BY DEF P!Good
<1>2. tr.generation \in Nat /\ tr.epoch \in Nat /\ tr.first_start \in Int
  BY <1>1 DEF P!Tracker, NoOrigin
<1>3. Followed(tr) <=> P!scheduled_path_active(tr)
  BY MethodsSame DEF Followed
<1> QED BY <1>1, <1>2, <1>3 DEF P!PathOK

\* Nothing but a confirmation takes up a schedule.
LEMMA LeaseKeeps ==
  ASSUME NEW tr, P!Good(tr), NEW next, P!StepOK(tr, next),
         next.identity_confirmed => tr.identity_confirmed
  PROVE  P!Good(next) /\ next.generation >= tr.generation /\ Keeps(tr, next)
<1>1. P!Good(next) /\ P!LeaseOK(tr, next)
  BY DEF P!StepOK
<1>2. next.generation >= tr.generation
  BY <1>1, GoodFields DEF P!LeaseOK
<1>3. Keeps(tr, next)
  <2> SUFFICES ASSUME Followed(next) PROVE Followed(tr) /\ next.first_start = tr.first_start
    BY DEF Keeps
  <2>1. next.identity_confirmed /\ next.first_start # NoOrigin
    BY <1>1, GoodFields
  <2>2. tr.identity_confirmed /\ Followed(tr) /\ tr.first_start # NoOrigin
    BY <2>1, GoodFields
  <2> QED BY <1>1, <2>1, <2>2 DEF P!LeaseOK, P!Holder
<1> QED BY <1>1, <1>2, <1>3

LEMMA ConfigureMethod ==
  ASSUME NEW tr, P!Good(tr)
  PROVE  LET next == T!configure(tr)
         IN  P!Good(next) /\ next.generation = tr.generation + 1 /\ ~Followed(next)
<1> DEFINE next == P!configure(tr)
<1>1. P!StepOK(tr, next)
  BY Assumed, GoodFields, P!ResetStep
<1>2. next.generation = tr.generation + 1 /\ next.state = "UnlockedAcquire"
  BY GoodFields DEF P!configure, P!reset_acquire, P!Tracker
<1>3. ~P!scheduled_path_active(next)
  BY <1>2 DEF P!scheduled_path_active
<1> QED BY <1>1, <1>2, <1>3, MethodsSame DEF P!StepOK, Followed

LEMMA DiscontinuityMethod ==
  ASSUME NEW tr, P!Good(tr)
  PROVE  LET next == T!note_discontinuity(tr)
         IN  P!Good(next) /\ next.generation = tr.generation + 2 /\ ~Followed(next)
<1> DEFINE next == P!note_discontinuity(tr)
<1>1. P!StepOK(tr, next)
  BY Assumed, GoodFields, P!DiscontinuityStep
<1>2. tr \in P!Tracker /\ tr.generation \in Nat
  BY GoodFields
<1>3. /\ next.generation = (tr.generation + 1) + 1 /\ next.state = "Reacquire"
      /\ next.global_energy = TRUE
  BY <1>2 DEF P!note_discontinuity, P!enter_reacquire, P!Tracker
<1>4. ~P!scheduled_path_active(next) /\ next.generation = tr.generation + 2
  BY <1>2, <1>3 DEF P!scheduled_path_active
<1> QED BY <1>1, <1>4, MethodsSame DEF P!StepOK, Followed

LEMMA CandidateMethod ==
  ASSUME NEW tr, P!Good(tr)
  PROVE  LET next == T!note_candidate_emitted(tr)
         IN  P!Good(next) /\ next.generation >= tr.generation /\ Keeps(tr, next)
<1> DEFINE next == P!note_candidate_emitted(tr)
<1>1. P!StepOK(tr, next)
  BY Assumed, P!CandidateStep
<1>2. next.identity_confirmed = tr.identity_confirmed
  BY GoodFields DEF P!note_candidate_emitted, P!Tracker
<1> QED BY <1>1, <1>2, LeaseKeeps, MethodsSame

LEMMA ObsMethod ==
  ASSUME NEW tr, P!Good(tr), NEW obs \in P!Observation
  PROVE  LET next == T!on_lock_obs(tr, obs)
         IN  /\ P!Good(next) /\ next.generation >= tr.generation
             /\ T!on_lock_obs_action(tr, obs) # "ConfirmedIdentity" => Keeps(tr, next)
<1> DEFINE next == P!on_lock_obs(tr, obs)
           action == P!on_lock_obs_action(tr, obs)
<1>1. P!StepOK(tr, next)
  BY Assumed, P!ObserveStep
<1>2. P!Good(next) /\ next.generation >= tr.generation
  BY <1>1, GoodFields DEF P!StepOK, P!LeaseOK
<1>3. ASSUME action # "ConfirmedIdentity" PROVE Keeps(tr, next)
  <2>1. tr \in P!Tracker
    BY GoodFields
  <2>2. next.identity_confirmed => tr.identity_confirmed
    <3>1. action = "RejectedIdentity" => next.identity_confirmed = tr.identity_confirmed
      BY <2>1 DEF P!on_lock_obs, P!reject_identity, P!Tracker
    <3>2. action \in {"TimingUpdate", "TimingMiss"} => tr.identity_confirmed
      BY DEF P!on_lock_obs_action
    <3>3. action \notin {"RejectedIdentity", "TimingUpdate", "TimingMiss"} => next = tr
      BY <1>3 DEF P!on_lock_obs
    <3> QED BY <3>1, <3>2, <3>3
  <2> QED BY <1>1, <2>2, LeaseKeeps
<1> QED BY <1>2, <1>3, MethodsSame

-----------------------------------------------------------------------------
(* The script of a call.                                                   *)

JobRecord == [kind : {"Acquisition", "Scheduled"}, slot : Nat, index : Int, segment : Nat]
Packet == [slot : Nat, index : Int, epoch : Nat, generation : Nat, segment : Nat]
Feedback == [packet : Packet, timing_ok : BOOLEAN, identity : BOOLEAN]

Critical == {"reset", "discontinuity", "identity"}
PlainName == {"apply", "tags", "process", "enqueue", "idle", "idle if hunting", "flush", "join"}
Op == {<<n>> : n \in Critical \cup PlainName} \cup {<<"obs", o>> : o \in Feedback}

\* In a script every operation that reconfigures the cores comes after an
\* enqueue and a wait.
Guarded(s) ==
  \A i \in DOMAIN s : s[i][1] \in Critical =>
    i >= 3 /\ s[i - 1][1] = "idle" /\ s[i - 2][1] = "enqueue"
Script(s) == s \in Seq(Op) /\ Guarded(s)

LEMMA OpNames ==
  /\ \A n \in Critical \cup PlainName : <<n>> \in Op /\ <<n>>[1] = n
  /\ \A o \in Feedback : <<"obs", o>> \in Op /\ <<"obs", o>>[1] = "obs"
BY DEF Op

LEMMA EmptyScript == Script(<<>>)
<1>1. <<>> \in Seq(Op) /\ DOMAIN <<>> = {}
  OBVIOUS
<1> QED BY <1>1 DEF Script, Guarded

LEMMA ScriptConcat ==
  ASSUME NEW a, NEW b, Script(a), Script(b)
  PROVE  Script(a \o b)
<1> DEFINE s == a \o b
<1>1. a \in Seq(Op) /\ b \in Seq(Op) /\ Guarded(a) /\ Guarded(b)
  BY DEF Script
<1>2. /\ s \in Seq(Op) /\ DOMAIN s = 1..(Len(a) + Len(b)) /\ Len(a) \in Nat /\ Len(b) \in Nat
      /\ DOMAIN a = 1..Len(a) /\ DOMAIN b = 1..Len(b)
  BY <1>1
<1>3. \A i \in 1..(Len(a) + Len(b)) : s[i] = IF i <= Len(a) THEN a[i] ELSE b[i - Len(a)]
  BY <1>1
<1> HIDE DEF s
<1>4. ASSUME NEW i \in DOMAIN s, s[i][1] \in Critical
      PROVE  i >= 3 /\ s[i - 1][1] = "idle" /\ s[i - 2][1] = "enqueue"
  <2>1. CASE i <= Len(a)
    <3>1. i \in DOMAIN a /\ s[i] = a[i]
      BY <1>2, <1>3, <2>1
    <3>2. i >= 3 /\ a[i - 1][1] = "idle" /\ a[i - 2][1] = "enqueue"
      BY <1>1, <1>4, <3>1 DEF Guarded
    <3>3. s[i - 1] = a[i - 1] /\ s[i - 2] = a[i - 2]
      BY <1>2, <1>3, <2>1, <3>2
    <3> QED BY <3>2, <3>3
  <2>2. CASE ~(i <= Len(a))
    <3> DEFINE k == i - Len(a)
    <3>1. k \in DOMAIN b /\ s[i] = b[k]
      BY <1>2, <1>3, <2>2
    <3>2. k >= 3 /\ b[k - 1][1] = "idle" /\ b[k - 2][1] = "enqueue"
      BY <1>1, <1>4, <3>1 DEF Guarded
    <3>3. s[i - 1] = b[k - 1] /\ s[i - 2] = b[k - 2] /\ i >= 3
      <4>1. /\ i - 1 \in 1..(Len(a) + Len(b)) /\ ~(i - 1 <= Len(a)) /\ (i - 1) - Len(a) = k - 1
            /\ i - 2 \in 1..(Len(a) + Len(b)) /\ ~(i - 2 <= Len(a)) /\ (i - 2) - Len(a) = k - 2
            /\ i >= 3
        BY <1>2, <3>1, <3>2
      <4> HIDE DEF k
      <4> QED BY <1>3, <4>1
    <3> QED BY <3>2, <3>3
  <2> QED BY <2>1, <2>2
<1> QED BY <1>2, <1>4 DEF Script, Guarded, s

LEMMA ScriptOf ==
  /\ \A n \in PlainName : Script(<< <<n>> >>)
  /\ \A n \in Critical : Script(<< <<"enqueue">>, <<"idle">>, <<n>> >>)
<1>1. ASSUME NEW n \in PlainName PROVE Script(<< <<n>> >>)
  <2> DEFINE s == << <<n>> >>
  <2>1. s \in Seq(Op) /\ DOMAIN s = {1} /\ s[1] = <<n>>
    <3>1. <<n>> \in Op
      BY OpNames
    <3> QED BY <3>1
  <2>2. s[1][1] \notin Critical
    BY <2>1 DEF PlainName, Critical
  <2> HIDE DEF s
  <2>3. Guarded(s)
    BY <2>1, <2>2 DEF Guarded
  <2> QED BY <2>1, <2>3 DEF Script, s
<1>2. ASSUME NEW n \in Critical PROVE Script(<< <<"enqueue">>, <<"idle">>, <<n>> >>)
  <2> DEFINE s == << <<"enqueue">>, <<"idle">>, <<n>> >>
  <2>1. /\ <<n>> \in Op /\ <<"enqueue">> \in Op /\ <<"idle">> \in Op
    BY OpNames DEF PlainName
  <2>2. s \in Seq(Op)
    BY <2>1
  <2>3. /\ DOMAIN s = 1..3 /\ s[1] = <<"enqueue">> /\ s[2] = <<"idle">> /\ s[3] = <<n>>
    OBVIOUS
  <2>4. s[1][1] = "enqueue" /\ s[2][1] = "idle"
    BY <2>3
  <2> HIDE DEF s
  <2>5. Guarded(s)
    BY <2>3, <2>4 DEF Guarded, Critical
  <2> QED BY <2>2, <2>5 DEF Script, s
<1> QED BY <1>1, <1>2

LEMMA WorkScripted ==
  ASSUME NEW size \in WorkSizes
  PROVE  Script(WorkScript(size))
<1> DEFINE a == << <<"apply">>, <<"tags">>, <<"process">>, <<"enqueue">> >>
           b == IF size # "live" THEN << <<"idle if hunting">> >> ELSE <<>>
           c == << <<"apply">> >>
           d == IF size = "sentinel" THEN << <<"idle">>, <<"apply">> >> ELSE <<>>
<1>1. Script(a)
  <2>1. /\ <<"apply">> \in Op /\ <<"tags">> \in Op /\ <<"process">> \in Op /\ <<"enqueue">> \in Op
    BY OpNames DEF PlainName
  <2>2. a \in Seq(Op)
    BY <2>1
  <2>3. /\ DOMAIN a = 1..4 /\ a[1][1] = "apply" /\ a[2][1] = "tags" /\ a[3][1] = "process"
        /\ a[4][1] = "enqueue"
    OBVIOUS
  <2> HIDE DEF a
  <2>4. Guarded(a)
    BY <2>3 DEF Guarded, Critical
  <2> QED BY <2>2, <2>4 DEF Script
<1>2. Script(b) /\ Script(c)
  BY ScriptOf, EmptyScript DEF PlainName
<1>3. Script(d)
  <2> DEFINE e == << <<"idle">>, <<"apply">> >>
  <2>1. <<"apply">> \in Op /\ <<"idle">> \in Op
    BY OpNames DEF PlainName
  <2>2. e \in Seq(Op)
    BY <2>1
  <2>3. DOMAIN e = 1..2 /\ e[1][1] = "idle" /\ e[2][1] = "apply"
    OBVIOUS
  <2> HIDE DEF e
  <2>4. Guarded(e)
    BY <2>3 DEF Guarded, Critical
  <2> QED BY <2>2, <2>4, EmptyScript DEF Script, e
<1>4. WorkScript(size) = ((a \o b) \o c) \o d
  BY DEF WorkScript
<1> HIDE DEF a, b, c, d
<1> QED BY <1>1, <1>2, <1>3, <1>4, ScriptConcat

LEMMA StopScripted == Script(StopScript)
<1> DEFINE a == << <<"apply">>, <<"flush">>, <<"enqueue">>, <<"idle">> >>
           b == [i \in 1..DrainRounds |-> <<"apply">>]
           c == << <<"join">> >>
<1>0. /\ <<"apply">> \in Op /\ <<"flush">> \in Op /\ <<"idle">> \in Op /\ <<"enqueue">> \in Op
      /\ <<"join">> \in Op
  BY OpNames DEF PlainName
<1>1. Script(a)
  <2>2. a \in Seq(Op)
    BY <1>0
  <2>3. /\ DOMAIN a = 1..4 /\ a[1][1] = "apply" /\ a[2][1] = "flush" /\ a[3][1] = "enqueue"
        /\ a[4][1] = "idle"
    OBVIOUS
  <2> HIDE DEF a
  <2>4. Guarded(a)
    BY <2>3 DEF Guarded, Critical
  <2> QED BY <2>2, <2>4 DEF Script
<1>2. Script(b)
  <2>1. b \in Seq(Op) /\ \A i \in DOMAIN b : b[i][1] = "apply"
    BY <1>0 DEF DrainRounds
  <2> HIDE DEF b
  <2>2. Guarded(b)
    BY <2>1 DEF Guarded, Critical
  <2> QED BY <2>1, <2>2 DEF Script
<1>3. Script(c)
  BY ScriptOf DEF PlainName
<1>4. StopScript = (a \o b) \o c
  BY DEF StopScript
<1> HIDE DEF a, b, c
<1> QED BY <1>1, <1>2, <1>3, <1>4, ScriptConcat

LEMMA SnapshotScripted ==
  ASSUME pending.obs \in Seq(Feedback)
  PROVE  Script(Snapshot)
<1> DEFINE a == IF pending.reset THEN << <<"enqueue">>, <<"idle">>, <<"reset">> >> ELSE <<>>
           b == << <<"enqueue">>, <<"idle">>, <<"discontinuity">> >>
           c == [i \in DOMAIN pending.obs |-> <<"obs", pending.obs[i]>>]
           d == IF pending.disc THEN b ELSE c
<1>1. Script(a) /\ Script(b)
  BY ScriptOf, EmptyScript DEF Critical
<1>2. Script(c)
  <2>1. \A i \in DOMAIN pending.obs : pending.obs[i] \in Feedback
    OBVIOUS
  <2>2. DOMAIN pending.obs = 1..Len(pending.obs) /\ Len(pending.obs) \in Nat
    OBVIOUS
  <2>3. \A i \in DOMAIN pending.obs : c[i] \in Op /\ c[i][1] = "obs"
    BY <2>1, OpNames
  <2>4. DOMAIN c = DOMAIN pending.obs
    OBVIOUS
  <2>a. c = [i \in 1..Len(pending.obs) |-> c[i]]
    BY <2>2
  <2> HIDE DEF c
  <2>5. c \in Seq(Op)
    <3> DEFINE n == Len(pending.obs)
    <3>1. n \in Nat /\ c = [i \in 1..n |-> c[i]] /\ \A i \in 1..n : c[i] \in Op
      BY <2>2, <2>3, <2>a
    <3> HIDE DEF n
    <3> QED BY <3>1
  <2>6. Guarded(c)
    BY <2>3, <2>4 DEF Guarded, Critical
  <2> QED BY <2>5, <2>6 DEF Script
<1>3. Script(d)
  BY <1>1, <1>2
<1>4. Snapshot = a \o d
  BY DEF Snapshot
<1> HIDE DEF a, d
<1> QED BY <1>1, <1>3, <1>4, ScriptConcat

-----------------------------------------------------------------------------
(* The invariant.                                                          *)

WorkerAt == {"wait", "verify", "epoch", "publish", "done", "exited"}

Typed ==
  /\ P!Good(tracker)
  /\ sched \in [live : BOOLEAN, origin : Int]
  /\ ready \in Seq(JobRecord) /\ jobs \in Seq(JobRecord)
  /\ inflight \in JobRecord \cup {NoJob} /\ worker \in WorkerAt /\ label \in Nat
  /\ acquire \in [outstanding : Nat, next : Int]
  /\ pending \in [obs : Seq(Feedback), disc : BOOLEAN, reset : BOOLEAN]
  /\ todo \in Seq(Op)
  /\ now \in Nat /\ segment \in Nat /\ segmentGen \in Nat
  /\ packets \subseteq Packet

\* The worker has a job between taking it and being done with it.
Busy == worker \in {"verify", "epoch", "publish", "done"} <=> inflight # NoJob

\* An operation that reconfigures the cores comes up only drained.
Drained ==
  \A i \in DOMAIN todo : todo[i][1] \in Critical =>
    \/ i >= 3 /\ todo[i - 1][1] = "idle" /\ todo[i - 2][1] = "enqueue"
    \/ i = 2 /\ todo[1][1] = "idle" /\ ready = <<>>
    \/ i = 1 /\ ready = <<>> /\ WorkerIdle

\* While a schedule is followed the core is on it, or is about to be put on
\* it before anything else happens.
Due == \E i \in 1..3 : i \in DOMAIN todo /\ todo[i][1] = "identity"
OnSchedule ==
  Followed(tracker) => \/ sched.live /\ sched.origin = tracker.first_start
                       \/ Due

\* Whatever was captured and has not been published is of the segment.
Uniform(s, g) == \A i \in DOMAIN s : s[i].segment = g
InSegment ==
  /\ Uniform(ready, segment) /\ Uniform(jobs, segment)
  /\ inflight # NoJob => inflight.segment = segment

Fresh(p, latest, first, s) ==
  p.generation <= latest /\ (p.generation >= first => p.segment = s)
AllFresh(latest, first, s) ==
  /\ first <= latest
  /\ \A p \in packets : Fresh(p, latest, first, s)
  /\ \A i \in DOMAIN pending.obs : Fresh(pending.obs[i].packet, latest, first, s)
Labels == AllFresh(tracker.generation, segmentGen, segment)

\* Who the one verification that may be outstanding is with.
IsAcquisition(j) == j.kind = "Acquisition"
NoneQueued(s) == \A i \in DOMAIN s : ~IsAcquisition(s[i])
OneQueued(s) == \E i \in DOMAIN s : /\ IsAcquisition(s[i])
                                    /\ \A j \in DOMAIN s : IsAcquisition(s[j]) => j = i
Throttled ==
  \/ acquire.outstanding = 0 /\ ~IsAcquisition(inflight) /\ NoneQueued(jobs)
  \/ acquire.outstanding = 1 /\ IsAcquisition(inflight) /\ NoneQueued(jobs)
  \/ acquire.outstanding = 1 /\ ~IsAcquisition(inflight) /\ OneQueued(jobs)

AutoInv == Typed /\ Busy /\ Drained /\ OnSchedule /\ InSegment /\ Labels /\ Throttled

-----------------------------------------------------------------------------
(* What an operation leaves of the script.                                 *)

LEMMA HeadTail ==
  ASSUME NEW S, NEW s \in Seq(S), s # <<>>
  PROVE  /\ 1 \in DOMAIN s /\ s[1] = Head(s) /\ Head(s) \in S /\ Tail(s) \in Seq(S)
         /\ \A i \in DOMAIN Tail(s) : i + 1 \in DOMAIN s /\ Tail(s)[i] = s[i + 1] /\ i >= 1
         /\ \A i \in DOMAIN s : i = 1 \/ (i - 1 \in DOMAIN Tail(s) /\ Tail(s)[i - 1] = s[i] /\ i >= 2)
<1>1. /\ DOMAIN s = 1..Len(s) /\ Len(s) \in Nat \ {0} /\ DOMAIN Tail(s) = 1..(Len(s) - 1)
      /\ Head(s) = s[1] /\ Tail(s) \in Seq(S)
  OBVIOUS
<1>2. \A i \in 1..(Len(s) - 1) : Tail(s)[i] = s[i + 1]
  OBVIOUS
<1>3. ASSUME NEW i \in DOMAIN s, i # 1 PROVE i - 1 \in DOMAIN Tail(s) /\ Tail(s)[i - 1] = s[i] /\ i >= 2
  <2>1. i - 1 \in 1..(Len(s) - 1) /\ (i - 1) + 1 = i /\ i >= 2
    BY <1>1, <1>3
  <2> QED BY <1>1, <1>2, <2>1
<1>4. \A i \in DOMAIN Tail(s) : i + 1 \in DOMAIN s /\ Tail(s)[i] = s[i + 1] /\ i >= 1
  BY <1>1, <1>2
<1>5. s[1] \in S
  BY <1>1
<1> QED BY <1>1, <1>3, <1>4, <1>5

LEMMA TailScript ==
  ASSUME todo \in Seq(Op), todo # <<>>, Drained, Head(todo)[1] \notin {"idle", "enqueue"}
  PROVE  Script(Tail(todo)) /\ (Due => Head(todo)[1] = "identity")
<1> DEFINE t == Tail(todo)
<1>1. /\ 1 \in DOMAIN todo /\ todo[1] = Head(todo) /\ t \in Seq(Op)
      /\ \A i \in DOMAIN t : i + 1 \in DOMAIN todo /\ t[i] = todo[i + 1] /\ i >= 1
      /\ \A i \in DOMAIN todo : i = 1 \/ (i - 1 \in DOMAIN t /\ t[i - 1] = todo[i] /\ i >= 2)
  BY HeadTail
<1>2. DOMAIN t \subseteq Int /\ DOMAIN todo = 1..Len(todo) /\ Len(todo) \in Nat
  BY <1>1
<1> HIDE DEF t
<1>3. ASSUME NEW i \in DOMAIN t, t[i][1] \in Critical
      PROVE  i >= 3 /\ t[i - 1][1] = "idle" /\ t[i - 2][1] = "enqueue"
  <2>1. i + 1 \in DOMAIN todo /\ todo[i + 1][1] \in Critical /\ i >= 1 /\ i \in Int
    BY <1>1, <1>2, <1>3
  <2>2. /\ i + 1 >= 3 /\ todo[(i + 1) - 1][1] = "idle" /\ todo[(i + 1) - 2][1] = "enqueue"
    BY <1>1, <2>1 DEF Drained
  <2>3. (i + 1) - 1 = i /\ (i + 1) - 2 = i - 1 /\ i >= 2
    BY <2>1, <2>2
  <2>4. i - 1 # 1
    BY <1>1, <2>2, <2>3
  <2>5. i \in DOMAIN todo /\ i - 1 \in DOMAIN todo
    BY <1>2, <2>1, <2>3
  <2>6. t[i - 1] = todo[i] /\ t[(i - 1) - 1] = todo[i - 1]
    <3>1. \A n \in DOMAIN todo : n # 1 => t[n - 1] = todo[n]
      BY <1>1
    <3>2. i # 1
      BY <2>1, <2>3
    <3>3. t[i - 1] = todo[i]
      BY <2>5, <3>1, <3>2
    <3>4. t[(i - 1) - 1] = todo[i - 1]
      BY <2>4, <2>5, <3>1
    <3> QED BY <3>3, <3>4
  <2>7. (i - 1) - 1 = i - 2 /\ i >= 3
    BY <2>1, <2>3, <2>4
  <2> QED BY <2>2, <2>3, <2>6, <2>7
<1>4. Due => Head(todo)[1] = "identity"
  <2> SUFFICES ASSUME NEW i \in 1..3, i \in DOMAIN todo, todo[i][1] = "identity"
               PROVE  Head(todo)[1] = "identity"
    BY DEF Due
  <2>1. \/ i >= 3 /\ todo[i - 1][1] = "idle" /\ todo[i - 2][1] = "enqueue"
        \/ i = 2 /\ todo[1][1] = "idle" /\ ready = <<>>
        \/ i = 1 /\ ready = <<>> /\ WorkerIdle
    BY DEF Drained, Critical
  <2>2. i >= 3 => i - 2 = 1
    OBVIOUS
  <2> QED BY <1>1, <2>1, <2>2
<1> QED BY <1>1, <1>3, <1>4 DEF Script, Guarded, t

LEMMA ScriptDrained ==
  ASSUME Script(todo')
  PROVE  todo' \in Seq(Op) /\ Drained'
BY DEF Script, Guarded, Drained

\* An operation other than an enqueue or a wait puts its script in front.
LEMMA ContinueScript ==
  ASSUME todo \in Seq(Op), todo # <<>>, Drained, Head(todo)[1] \notin {"idle", "enqueue"},
         NEW ops, Script(ops), Continue(ops)
  PROVE  todo' \in Seq(Op) /\ Drained'
<1>1. Script(ops \o Tail(todo))
  BY TailScript, ScriptConcat
<1> QED BY <1>1, ScriptDrained DEF Continue

LEMMA ContinueNone ==
  ASSUME todo \in Seq(Op), todo # <<>>, Continue(<<>>)
  PROVE  todo' = Tail(todo)
<1>1. Tail(todo) \in Seq(Op)
  BY HeadTail
<1>2. <<>> \o Tail(todo) = Tail(todo)
  BY <1>1
<1> QED BY <1>2 DEF Continue

\* An enqueue is over when nothing is ready, a wait when the worker is idle:
\* what comes next comes up drained.
LEMMA PopDrained ==
  ASSUME todo \in Seq(Op), todo # <<>>, Drained, todo' = Tail(todo), ready' = ready,
         \/ Head(todo)[1] = "enqueue" /\ ready = <<>>
         \/ Head(todo)[1] = "idle" /\ WorkerIdle'
  PROVE  todo' \in Seq(Op) /\ Drained' /\ (Due => Due')
<1> DEFINE t == todo'
<1>1. /\ 1 \in DOMAIN todo /\ todo[1] = Head(todo) /\ t \in Seq(Op)
      /\ \A i \in DOMAIN t : i + 1 \in DOMAIN todo /\ t[i] = todo[i + 1] /\ i >= 1
      /\ \A i \in DOMAIN todo : i = 1 \/ (i - 1 \in DOMAIN t /\ t[i - 1] = todo[i] /\ i >= 2)
  BY HeadTail
<1>2. DOMAIN t \subseteq Int /\ DOMAIN todo = 1..Len(todo) /\ Len(todo) \in Nat
  BY <1>1
<1>3. ASSUME NEW i \in DOMAIN t, t[i][1] \in Critical
      PROVE  \/ i >= 3 /\ t[i - 1][1] = "idle" /\ t[i - 2][1] = "enqueue"
             \/ i = 2 /\ t[1][1] = "idle" /\ ready' = <<>>
             \/ i = 1 /\ ready' = <<>> /\ WorkerIdle'
  <2>0. i \in Int /\ i >= 1 /\ i + 1 \in DOMAIN todo /\ todo[i + 1][1] \in Critical /\ i + 1 # 1
    BY <1>1, <1>2, <1>3
  <2>1. CASE i + 1 >= 3 /\ todo[(i + 1) - 1][1] = "idle" /\ todo[(i + 1) - 2][1] = "enqueue"
    <3>1. (i + 1) - 1 = i /\ (i + 1) - 2 = i - 1 /\ i >= 2 /\ i \in DOMAIN todo /\ i - 1 \in DOMAIN todo
      BY <1>2, <2>0, <2>1
    <3>2. t[i - 1] = todo[i]
      <4>1. \A n \in DOMAIN todo : n # 1 => t[n - 1] = todo[n]
        BY <1>1
      <4>2. i # 1
        BY <2>0, <3>1
      <4> QED BY <3>1, <4>1, <4>2
    <3>3. CASE i = 2
      <4>1. i - 1 = 1 /\ Head(todo)[1] = "enqueue"
        BY <1>1, <2>1, <3>1, <3>3
      <4> QED BY <2>1, <3>1, <3>2, <3>3, <4>1
    <3>4. CASE i # 2
      <4>1. i >= 3 /\ i - 1 # 1 /\ (i - 1) - 1 = i - 2
        BY <2>0, <3>1, <3>4
      <4>2. t[i - 2] = todo[i - 1]
        BY <1>1, <3>1, <4>1
      <4> QED BY <2>1, <3>1, <3>2, <4>1, <4>2
    <3> QED BY <3>3, <3>4
  <2>2. CASE i + 1 = 2 /\ todo[1][1] = "idle" /\ ready = <<>>
    <3>1. i = 1 /\ WorkerIdle'
      BY <1>1, <2>0, <2>2
    <3> QED BY <2>2, <3>1
  <2> QED BY <2>0, <2>1, <2>2 DEF Drained
<1>4. Due => Due'
  <2> SUFFICES ASSUME NEW i \in 1..3, i \in DOMAIN todo, todo[i][1] = "identity"
               PROVE  Due'
    BY DEF Due
  <2>1. i # 1
    BY <1>1
  <2>2. i - 1 \in 1..3 /\ i - 1 \in DOMAIN t /\ t[i - 1][1] = "identity"
    BY <1>1, <2>1
  <2> QED BY <2>2 DEF Due
<1> QED BY <1>1, <1>3, <1>4 DEF Drained

-----------------------------------------------------------------------------
(* What Append and Tail do to the queues.                                  *)

LEMMA AppendFacts ==
  ASSUME NEW S, NEW s \in Seq(S), NEW e \in S
  PROVE  /\ Append(s, e) \in Seq(S)
         /\ \A i \in DOMAIN s : i \in DOMAIN Append(s, e) /\ Append(s, e)[i] = s[i]
         /\ \A i \in DOMAIN Append(s, e) : \/ i \in DOMAIN s /\ Append(s, e)[i] = s[i]
                                           \/ i \notin DOMAIN s /\ i = Len(s) + 1 /\ Append(s, e)[i] = e
         /\ Len(s) + 1 \in DOMAIN Append(s, e) /\ Append(s, e)[Len(s) + 1] = e
<1> DEFINE t == Append(s, e)
<1>1. t \in Seq(S) /\ DOMAIN t = 1..(Len(s) + 1) /\ DOMAIN s = 1..Len(s) /\ Len(s) \in Nat
  OBVIOUS
<1>2. (\A i \in 1..Len(s) : t[i] = s[i]) /\ t[Len(s) + 1] = e
  OBVIOUS
<1> HIDE DEF t
<1> QED BY <1>1, <1>2 DEF t

LEMMA FrontOfConcat ==
  ASSUME NEW S, NEW a \in Seq(S), NEW b \in Seq(S), NEW i \in DOMAIN a
  PROVE  i \in DOMAIN (a \o b) /\ (a \o b)[i] = a[i]
<1> DEFINE u == a \o b
<1>1. /\ DOMAIN u = 1..(Len(a) + Len(b)) /\ Len(a) \in Nat /\ Len(b) \in Nat /\ DOMAIN a = 1..Len(a)
      /\ \A k \in 1..Len(a) : u[k] = a[k]
  OBVIOUS
<1> HIDE DEF u
<1>2. i \in DOMAIN u /\ u[i] = a[i]
  BY <1>1
<1> QED BY <1>2 DEF u

LEMMA UniformFacts ==
  ASSUME NEW S, NEW s \in Seq(S), NEW g, Uniform(s, g)
  PROVE  /\ \A e \in S : e.segment = g => Append(s, e) \in Seq(S) /\ Uniform(Append(s, e), g)
         /\ s # <<>> => Uniform(Tail(s), g) /\ Head(s).segment = g /\ Head(s) \in S /\ Tail(s) \in Seq(S)
         /\ \A t \in Seq(S) : Uniform(t, g) => s \o t \in Seq(S) /\ Uniform(s \o t, g)
<1>1. ASSUME NEW e \in S, e.segment = g
      PROVE  Append(s, e) \in Seq(S) /\ Uniform(Append(s, e), g)
  BY <1>1, AppendFacts DEF Uniform
<1>2. ASSUME s # <<>>
      PROVE  Uniform(Tail(s), g) /\ Head(s).segment = g /\ Head(s) \in S /\ Tail(s) \in Seq(S)
  BY <1>2, HeadTail DEF Uniform
<1>3. ASSUME NEW t \in Seq(S), Uniform(t, g)
      PROVE  s \o t \in Seq(S) /\ Uniform(s \o t, g)
  <2> DEFINE u == s \o t
  <2>1. /\ u \in Seq(S) /\ DOMAIN u = 1..(Len(s) + Len(t)) /\ Len(s) \in Nat /\ Len(t) \in Nat
        /\ DOMAIN s = 1..Len(s) /\ DOMAIN t = 1..Len(t)
    OBVIOUS
  <2>2. \A i \in 1..(Len(s) + Len(t)) : u[i] = IF i <= Len(s) THEN s[i] ELSE t[i - Len(s)]
    OBVIOUS
  <2> HIDE DEF u
  <2>3. \A i \in DOMAIN u : \/ i \in DOMAIN s /\ u[i] = s[i]
                            \/ i - Len(s) \in DOMAIN t /\ u[i] = t[i - Len(s)]
    BY <2>1, <2>2
  <2>4. Uniform(u, g)
    BY <1>3, <2>3 DEF Uniform
  <2> QED BY <2>1, <2>4 DEF u
<1> QED BY <1>1, <1>2, <1>3

LEMMA QueuedAppend ==
  ASSUME NEW S, NEW s \in Seq(S), NEW e \in S
  PROVE  /\ NoneQueued(s) /\ ~IsAcquisition(e) => NoneQueued(Append(s, e))
         /\ NoneQueued(s) /\ IsAcquisition(e) => OneQueued(Append(s, e))
         /\ OneQueued(s) /\ ~IsAcquisition(e) => OneQueued(Append(s, e))
<1> DEFINE t == Append(s, e)
           n == Len(s) + 1
<1>1. /\ \A i \in DOMAIN s : i \in DOMAIN t /\ t[i] = s[i]
      /\ \A i \in DOMAIN t : \/ i \in DOMAIN s /\ t[i] = s[i]
                             \/ i \notin DOMAIN s /\ i = n /\ t[i] = e
      /\ n \in DOMAIN t /\ t[n] = e
  BY AppendFacts
<1> HIDE DEF t, n
<1>2. NoneQueued(s) /\ ~IsAcquisition(e) => NoneQueued(t)
  BY <1>1 DEF NoneQueued
<1>3. NoneQueued(s) /\ IsAcquisition(e) => OneQueued(t)
  <2> SUFFICES ASSUME NoneQueued(s), IsAcquisition(e) PROVE OneQueued(t)
    OBVIOUS
  <2>1. \A j \in DOMAIN t : IsAcquisition(t[j]) => j = n
    BY <1>1 DEF NoneQueued
  <2> QED BY <1>1, <2>1 DEF OneQueued
<1>4. OneQueued(s) /\ ~IsAcquisition(e) => OneQueued(t)
  <2> SUFFICES ASSUME OneQueued(s), ~IsAcquisition(e) PROVE OneQueued(t)
    OBVIOUS
  <2>1. PICK i \in DOMAIN s : IsAcquisition(s[i]) /\ \A j \in DOMAIN s : IsAcquisition(s[j]) => j = i
    BY DEF OneQueued
  <2>2. i \in DOMAIN t /\ IsAcquisition(t[i]) /\ \A j \in DOMAIN t : IsAcquisition(t[j]) => j = i
    BY <1>1, <2>1
  <2> QED BY <2>2 DEF OneQueued
<1> QED BY <1>2, <1>3, <1>4 DEF t

LEMMA QueuedTail ==
  ASSUME NEW S, NEW s \in Seq(S), s # <<>>
  PROVE  /\ NoneQueued(s) => NoneQueued(Tail(s)) /\ ~IsAcquisition(Head(s))
         /\ OneQueued(s) => \/ IsAcquisition(Head(s)) /\ NoneQueued(Tail(s))
                            \/ ~IsAcquisition(Head(s)) /\ OneQueued(Tail(s))
<1> DEFINE t == Tail(s)
<1>1. /\ 1 \in DOMAIN s /\ s[1] = Head(s)
      /\ \A i \in DOMAIN t : i + 1 \in DOMAIN s /\ t[i] = s[i + 1] /\ i >= 1
      /\ \A i \in DOMAIN s : i = 1 \/ (i - 1 \in DOMAIN t /\ t[i - 1] = s[i] /\ i >= 2)
  BY HeadTail
<1>2. DOMAIN t \subseteq Int /\ DOMAIN s \subseteq Int
  OBVIOUS
<1> HIDE DEF t
<1>3. NoneQueued(s) => NoneQueued(t) /\ ~IsAcquisition(Head(s))
  BY <1>1 DEF NoneQueued
<1>4. ASSUME OneQueued(s)
      PROVE  \/ IsAcquisition(Head(s)) /\ NoneQueued(t)
             \/ ~IsAcquisition(Head(s)) /\ OneQueued(t)
  <2>1. PICK i \in DOMAIN s : IsAcquisition(s[i]) /\ \A j \in DOMAIN s : IsAcquisition(s[j]) => j = i
    BY <1>4 DEF OneQueued
  <2>2. CASE i = 1
    <3>1. \A j \in DOMAIN t : ~IsAcquisition(t[j])
      <4> SUFFICES ASSUME NEW j \in DOMAIN t PROVE ~IsAcquisition(t[j])
        OBVIOUS
      <4>1. j + 1 \in DOMAIN s /\ t[j] = s[j + 1] /\ j + 1 # 1
        BY <1>1, <1>2
      <4> QED BY <2>1, <2>2, <4>1
    <3> QED BY <1>1, <2>1, <2>2, <3>1 DEF NoneQueued
  <2>3. CASE i # 1
    <3>1. i - 1 \in DOMAIN t /\ t[i - 1] = s[i]
      BY <1>1, <2>3
    <3>2. ASSUME NEW j \in DOMAIN t, IsAcquisition(t[j]) PROVE j = i - 1
      <4>1. j + 1 \in DOMAIN s /\ t[j] = s[j + 1] /\ j \in Int /\ i \in Int
        BY <1>1, <1>2
      <4>2. j + 1 = i
        BY <2>1, <3>2, <4>1
      <4> QED BY <4>1, <4>2
    <3>3. ~IsAcquisition(Head(s))
      BY <1>1, <2>1, <2>3
    <3> QED BY <2>1, <3>1, <3>2, <3>3 DEF OneQueued
  <2> QED BY <2>2, <2>3
<1> QED BY <1>3, <1>4 DEF t

-----------------------------------------------------------------------------
(* What each part of the invariant depends on.                             *)

LEMMA Frames ==
  /\ Busy /\ UNCHANGED <<worker, inflight>> => Busy'
  /\ Throttled /\ UNCHANGED <<acquire, jobs, inflight>> => Throttled'
  /\ Labels /\ UNCHANGED <<tracker, segment, segmentGen, packets, pending>> => Labels'
  /\ InSegment /\ UNCHANGED <<ready, jobs, inflight, segment>> => InSegment'
  /\ OnSchedule /\ UNCHANGED <<tracker, sched, todo>> => OnSchedule'
  /\ Drained /\ UNCHANGED <<todo, ready, jobs, inflight>> => Drained'
<1>1. Busy /\ UNCHANGED <<worker, inflight>> => Busy'
  BY DEF Busy
<1>2. Throttled /\ UNCHANGED <<acquire, jobs, inflight>> => Throttled'
  BY DEF Throttled, NoneQueued, OneQueued, IsAcquisition
<1>3. Labels /\ UNCHANGED <<tracker, segment, segmentGen, packets, pending>> => Labels'
  BY DEF Labels, AllFresh, Fresh
<1>4. InSegment /\ UNCHANGED <<ready, jobs, inflight, segment>> => InSegment'
  BY DEF InSegment, Uniform
<1>5. OnSchedule /\ UNCHANGED <<tracker, sched, todo>> => OnSchedule'
  BY DEF OnSchedule, Followed, Due
<1>6. Drained /\ UNCHANGED <<todo, ready, jobs, inflight>> => Drained'
  BY DEF Drained, WorkerIdle
<1> QED BY <1>1, <1>2, <1>3, <1>4, <1>5, <1>6

LEMMA NoJobFacts ==
  /\ NoJob \notin JobRecord /\ ~IsAcquisition(NoJob)
  /\ \A s : s = <<>> => NoneQueued(s) /\ \A g : Uniform(s, g)
<1>1. NoJob.kind = "none"
  BY DEF NoJob
<1>2. NoJob \notin JobRecord
  BY <1>1 DEF JobRecord
<1>3. \A s : s = <<>> => DOMAIN s = {}
  OBVIOUS
<1> QED BY <1>1, <1>2, <1>3 DEF IsAcquisition, NoneQueued, Uniform

\* Nothing new is heard, and the tracker's labels only go on.
LEMMA LabelsGoOn ==
  ASSUME Typed, Labels, tracker'.generation \in Nat, tracker'.generation >= tracker.generation,
         UNCHANGED <<segment, segmentGen>>, packets' \subseteq packets,
         \A i \in DOMAIN pending'.obs :
           (\E j \in DOMAIN pending.obs : pending'.obs[i].packet = pending.obs[j].packet)
           \/ pending'.obs[i].packet \in packets
  PROVE  Labels'
<1>1. /\ tracker.generation \in Nat /\ segmentGen \in Nat /\ packets \subseteq Packet
      /\ \A i \in DOMAIN pending.obs : pending.obs[i].packet \in Packet
  <2>1. pending.obs \in Seq(Feedback)
    BY DEF Typed
  <2>2. \A i \in DOMAIN pending.obs : pending.obs[i] \in Feedback
    BY <2>1
  <2> QED BY <2>2, GoodFields DEF Typed, Feedback
<1> DEFINE latest == tracker'.generation
<1>2. ASSUME NEW p \in Packet, Fresh(p, tracker.generation, segmentGen, segment)
      PROVE  Fresh(p, latest, segmentGen, segment)
  <2>1. p.generation \in Nat
    BY DEF Packet
  <2> QED BY <1>1, <1>2, <2>1 DEF Fresh
<1>3. \A p \in packets' : Fresh(p, latest, segmentGen, segment)
  BY <1>1, <1>2 DEF Labels, AllFresh
<1>4. \A i \in DOMAIN pending'.obs : Fresh(pending'.obs[i].packet, latest, segmentGen, segment)
  <2> SUFFICES ASSUME NEW i \in DOMAIN pending'.obs
               PROVE  /\ pending'.obs[i].packet \in Packet
                      /\ Fresh(pending'.obs[i].packet, tracker.generation, segmentGen, segment)
    BY <1>2
  <2> QED BY <1>1 DEF Labels, AllFresh
<1>5. segmentGen <= latest
  BY <1>1 DEF Labels, AllFresh
<1> QED BY <1>3, <1>4, <1>5 DEF Labels, AllFresh

-----------------------------------------------------------------------------
(* The steps.                                                              *)

LEMMA InitHolds == Init => AutoInv
<1> SUFFICES ASSUME Init PROVE AutoInv
  OBVIOUS
<1> DEFINE blank ==
      [state |-> "UnlockedAcquire", identity_confirmed |-> FALSE,
       global_energy |-> TRUE, first_start |-> NoOrigin, generation |-> 0,
       epoch |-> 0, timing_ok_count |-> 0, consecutive_misses |-> 0,
       neighborhood_tries |-> 0, require_obs_provenance |-> FALSE]
           new == T!NewTracker
<1>1. new = P!configure(blank)
  BY DEF T!NewTracker, T!reset_acquire, P!configure, P!reset_acquire
<1>2. blank \in P!Tracker
  BY Assumed, P!FieldTypes DEF P!Tracker
<1> HIDE DEF blank, new
<1>3. P!Good(new)
  BY <1>1, <1>2, Assumed, P!ResetStep DEF P!StepOK
<1>4. P!Good(tracker) /\ ~Followed(tracker) /\ segmentGen = tracker.generation
  <2>1. tracker = T!configure(new) /\ segmentGen = tracker.generation
    BY DEF Init, new
  <2> QED BY <1>3, <2>1, ConfigureMethod
<1> DEFINE N == <<>>
<1>5. /\ ready = N /\ jobs = N /\ todo = N /\ pending = [obs |-> N, disc |-> FALSE, reset |-> FALSE]
      /\ inflight = NoJob /\ worker = "wait" /\ label = 0 /\ packets = {} /\ now = 0 /\ segment = 0
      /\ acquire = [outstanding |-> 0, next |-> 0] /\ sched = [live |-> TRUE, origin |-> 0]
  BY DEF Init, NoPending
<1>6. N \in Seq(JobRecord) /\ N \in Seq(Op) /\ N \in Seq(Feedback) /\ DOMAIN N = {}
  OBVIOUS
<1>7. NoneQueued(N) /\ Uniform(N, segment)
  BY NoJobFacts
<1> HIDE DEF N
<1>8. Typed
  BY <1>4, <1>5, <1>6, GoodFields DEF Typed, WorkerAt
<1>9. Busy
  BY <1>5 DEF Busy
<1>10. Drained /\ OnSchedule
  BY <1>4, <1>5, <1>6 DEF Drained, OnSchedule
<1>11. InSegment /\ Throttled
  BY <1>5, <1>7, NoJobFacts DEF InSegment, Throttled
<1>12. Labels
  BY <1>4, <1>5, <1>6, GoodFields DEF Labels, AllFresh
<1> QED BY <1>8, <1>9, <1>10, <1>11, <1>12 DEF AutoInv

LEMMA Facts ==
  ASSUME AutoInv
  PROVE  /\ Typed /\ Busy /\ Drained /\ OnSchedule /\ InSegment /\ Labels /\ Throttled
         /\ P!Good(tracker) /\ tracker.generation \in Nat /\ tracker.epoch \in Nat
         /\ tracker.first_start \in Int
         /\ ready \in Seq(JobRecord) /\ jobs \in Seq(JobRecord) /\ todo \in Seq(Op)
         /\ pending.obs \in Seq(Feedback) /\ pending.disc \in BOOLEAN /\ pending.reset \in BOOLEAN
         /\ \A i \in DOMAIN pending.obs : pending.obs[i] \in Feedback
         /\ sched.live \in BOOLEAN /\ sched.origin \in Int
         /\ acquire.outstanding \in Nat /\ acquire.next \in Int
         /\ now \in Nat /\ segment \in Nat /\ segmentGen \in Nat /\ packets \subseteq Packet
         /\ inflight \in JobRecord \cup {NoJob}
<1>1. Typed
  BY DEF AutoInv
<1>2. pending.obs \in Seq(Feedback) /\ pending.disc \in BOOLEAN /\ pending.reset \in BOOLEAN
  BY <1>1 DEF Typed
<1>3. \A i \in DOMAIN pending.obs : pending.obs[i] \in Feedback
  BY <1>2
<1>4. acquire.outstanding \in Nat /\ acquire.next \in Int /\ sched.live \in BOOLEAN /\ sched.origin \in Int
  BY <1>1 DEF Typed
<1> QED BY <1>1, <1>2, <1>3, <1>4, GoodFields DEF AutoInv, Typed

\* The head of the script, for an operation that is no enqueue and no wait.
LEMMA AtFacts ==
  ASSUME AutoInv, NEW op, At(op), op \notin {"idle", "enqueue"}
  PROVE  /\ todo # <<>> /\ Head(todo)[1] = op /\ Head(todo)[1] \notin {"idle", "enqueue"}
         /\ op # "identity" => ~Due
         /\ op \in Critical => ready = <<>> /\ WorkerIdle
<1>1. todo # <<>> /\ Head(todo)[1] = op
  BY DEF At
<1>2. op # "identity" => ~Due
  BY <1>1, Facts, TailScript
<1>3. 1 \in DOMAIN todo /\ todo[1] = Head(todo)
  BY <1>1, Facts, HeadTail
<1>4. op \in Critical => ready = <<>> /\ WorkerIdle
  BY <1>1, <1>3, Facts DEF Drained
<1> QED BY <1>1, <1>2, <1>4

\* A call begins.
LEMMA CallStep == AutoInv /\ (work \/ stop) => AutoInv'
<1> SUFFICES ASSUME AutoInv, work \/ stop PROVE AutoInv'
  OBVIOUS
<1>1. /\ todo = <<>> /\ Script(todo')
      /\ UNCHANGED <<tracker, sched, ready, jobs, inflight, worker, label, acquire,
                     pending, now, segment, segmentGen, packets>>
  BY WorkScripted, StopScripted DEF work, stop
<1>2. todo' \in Seq(Op) /\ Drained'
  BY <1>1, ScriptDrained
<1>3. ~Due
  BY <1>1 DEF Due
<1>4. OnSchedule'
  BY <1>1, <1>3, Facts DEF OnSchedule, Followed
<1>5. Typed'
  BY <1>1, <1>2, Facts DEF Typed
<1> QED BY <1>1, <1>2, <1>4, <1>5, Facts, Frames DEF AutoInv

LEMMA StartStep == AutoInv /\ start => AutoInv'
<1> SUFFICES ASSUME AutoInv, start PROVE AutoInv'
  OBVIOUS
<1> DEFINE N == <<>>
<1>1. /\ jobs' = N /\ inflight' = NoJob /\ worker' = "wait"
      /\ acquire' = [outstanding |-> 0, next |-> 0]
      /\ UNCHANGED <<tracker, sched, ready, label, pending, todo, now, segment,
                     segmentGen, packets>>
  BY DEF start
<1>2. N \in Seq(JobRecord) /\ NoneQueued(N) /\ Uniform(N, segment)
  BY NoJobFacts
<1>3. WorkerIdle'
  BY <1>1 DEF WorkerIdle
<1> HIDE DEF N
<1>4. Drained'
  BY <1>1, <1>3, Facts DEF Drained
<1>5. Typed'
  BY <1>1, <1>2, Facts DEF Typed, WorkerAt
<1>6. Busy' /\ Throttled'
  BY <1>1, <1>2, NoJobFacts DEF Busy, Throttled
<1>7. InSegment'
  BY <1>1, <1>2, Facts DEF InSegment
<1> QED BY <1>1, <1>4, <1>5, <1>6, <1>7, Facts, Frames DEF AutoInv

LEMMA ApplyStep == AutoInv /\ apply_pending => AutoInv'
<1> SUFFICES ASSUME AutoInv, apply_pending PROVE AutoInv'
  OBVIOUS
<1>1. /\ At("apply") /\ Continue(Snapshot) /\ pending' = NoPending
      /\ UNCHANGED <<tracker, sched, segment, segmentGen, ready, jobs, inflight, worker, label,
                     acquire, now, packets>>
  BY DEF apply_pending, coreVars, workerVars, outside
<1>2. todo # <<>> /\ Head(todo)[1] \notin {"idle", "enqueue"} /\ ~Due
  BY <1>1, AtFacts
<1>3. todo' \in Seq(Op) /\ Drained'
  BY <1>1, <1>2, Facts, SnapshotScripted, ContinueScript
<1>4. OnSchedule'
  BY <1>1, <1>2, Facts DEF OnSchedule, Followed
<1>5. pending' \in [obs : Seq(Feedback), disc : BOOLEAN, reset : BOOLEAN] /\ DOMAIN pending'.obs = {}
  <2>1. <<>> \in Seq(Feedback) /\ DOMAIN <<>> = {}
    OBVIOUS
  <2> QED BY <1>1, <2>1 DEF NoPending
<1>6. Labels'
  BY <1>1, <1>5, Facts DEF Labels, AllFresh
<1>7. Typed'
  BY <1>1, <1>3, <1>5, Facts DEF Typed
<1> QED BY <1>1, <1>3, <1>4, <1>6, <1>7, Facts, Frames DEF AutoInv

\* A reset and a discontinuity begin a new segment, under a generation that
\* no packet has.
LEMMA BreakStep == AutoInv /\ (apply_reset \/ handle_discontinuity) => AutoInv'
<1> SUFFICES ASSUME AutoInv, apply_reset \/ handle_discontinuity PROVE AutoInv'
  OBVIOUS
<1> DEFINE N == <<>>
<1>1. /\ At("reset") \/ At("discontinuity")
      /\ Continue(<<>>) /\ ready' = N /\ acquire' = [outstanding |-> 0, next |-> 0]
      /\ NewSegment(tracker')
      /\ UNCHANGED <<jobs, inflight, worker, label, now, packets>>
  BY DEF apply_reset, handle_discontinuity, workerVars, outside
<1>2. /\ P!Good(tracker') /\ tracker'.generation > tracker.generation /\ ~Followed(tracker')
  <2>1. tracker' = T!configure(tracker) \/ tracker' = T!note_discontinuity(tracker)
    BY DEF apply_reset, handle_discontinuity
  <2> QED BY <2>1, Facts, ConfigureMethod, DiscontinuityMethod
<1>3. /\ todo # <<>> /\ Head(todo)[1] \notin {"idle", "enqueue"} /\ ready = N /\ WorkerIdle
  BY <1>1, AtFacts DEF Critical
<1>4. todo' \in Seq(Op) /\ Drained'
  BY <1>1, <1>3, Facts, EmptyScript, ContinueScript
<1>5. N \in Seq(JobRecord) /\ N \in Seq(Feedback) /\ DOMAIN N = {} /\ NoneQueued(N)
      /\ \A g : Uniform(N, g)
  BY NoJobFacts
<1>6. /\ pending' \in [obs : Seq(Feedback), disc : BOOLEAN, reset : BOOLEAN]
      /\ \/ pending' = pending
         \/ DOMAIN pending'.obs = {}
  <2>1. CASE apply_reset
    BY <2>1, Facts DEF apply_reset, Typed
  <2>2. CASE handle_discontinuity
    <3>1. pending' = [pending EXCEPT !.obs = N] /\ pending \in [obs : Seq(Feedback), disc : BOOLEAN, reset : BOOLEAN]
      BY <2>2, Facts DEF handle_discontinuity, Typed
    <3> HIDE DEF N
    <3> QED BY <1>5, <3>1
  <2> QED BY <2>1, <2>2
<1>7. sched' \in [live : BOOLEAN, origin : Int]
  <2>1. sched \in [live : BOOLEAN, origin : Int]
    BY Facts DEF Typed
  <2> QED BY <2>1 DEF apply_reset, handle_discontinuity
<1>8. jobs = N /\ inflight = NoJob
  BY <1>3 DEF WorkerIdle
<1> HIDE DEF N
<1>9. segment' = segment + 1 /\ segmentGen' = tracker'.generation /\ tracker'.generation \in Nat
  BY <1>1, <1>2, GoodFields DEF NewSegment
<1>10. Typed'
  <2>1. acquire' \in [outstanding : Nat, next : Int]
    BY <1>1
  <2>2. segment' \in Nat /\ segmentGen' \in Nat /\ pending' \in [obs : Seq(Feedback), disc : BOOLEAN, reset : BOOLEAN]
    BY <1>6, <1>9, Facts, SMTT(30)
  <2>3. ready' \in Seq(JobRecord)
    BY <1>1, <1>5
  <2> QED BY <1>1, <1>2, <1>4, <1>7, <2>1, <2>2, <2>3, Facts DEF Typed
<1>11. Busy' /\ Throttled'
  BY <1>1, <1>5, <1>8, Facts, NoJobFacts DEF Busy, Throttled
<1>12. OnSchedule'
  BY <1>2 DEF OnSchedule, Followed
<1>13. InSegment'
  BY <1>1, <1>5, <1>8 DEF InSegment
<1>14. Labels'
  <2> DEFINE latest == tracker'.generation
             s == segment'
  <2>1. ASSUME NEW p \in Packet, Fresh(p, tracker.generation, segmentGen, segment)
        PROVE  Fresh(p, latest, latest, s)
    <3>1. p.generation \in Nat
      BY DEF Packet
    <3>2. p.generation <= latest /\ ~(p.generation >= latest)
      BY <1>2, <1>9, <2>1, <3>1, Facts, SMTT(30) DEF Fresh
    <3> QED BY <3>2 DEF Fresh
  <2>2. \A p \in packets' : Fresh(p, latest, latest, s)
    BY <1>1, <2>1, Facts DEF Labels, AllFresh
  <2>3. \A i \in DOMAIN pending'.obs : Fresh(pending'.obs[i].packet, latest, latest, s)
    <3>1. \A i \in DOMAIN pending.obs :
            /\ pending.obs[i].packet \in Packet
            /\ Fresh(pending.obs[i].packet, tracker.generation, segmentGen, segment)
      BY Facts DEF Labels, AllFresh, Feedback
    <3> QED BY <1>6, <2>1, <3>1
  <2>4. latest <= latest
    BY <1>9
  <2> QED BY <1>9, <2>2, <2>3, <2>4 DEF Labels, AllFresh
<1> QED BY <1>4, <1>10, <1>11, <1>12, <1>13, <1>14 DEF AutoInv

LEMMA IdentityStep == AutoInv /\ apply_identity_schedule => AutoInv'
<1> SUFFICES ASSUME AutoInv, apply_identity_schedule PROVE AutoInv'
  OBVIOUS
<1> DEFINE N == <<>>
<1>1. /\ At("identity") /\ Continue(<<>>) /\ sched' = IdentitySchedule /\ ready' = N
      /\ UNCHANGED <<tracker, segment, segmentGen, jobs, inflight, worker, label, acquire,
                     pending, now, packets>>
  BY DEF apply_identity_schedule, workerVars, outside
<1>2. /\ todo # <<>> /\ Head(todo)[1] \notin {"idle", "enqueue"} /\ ready = N
  BY <1>1, AtFacts DEF Critical
<1>3. todo' \in Seq(Op) /\ Drained'
  BY <1>1, <1>2, Facts, EmptyScript, ContinueScript
<1>4. sched' = [live |-> TRUE, origin |-> tracker.first_start]
  BY <1>1 DEF IdentitySchedule
<1>5. sched' \in [live : BOOLEAN, origin : Int] /\ OnSchedule'
  BY <1>1, <1>4, Facts DEF OnSchedule, Followed
<1>6. Typed'
  BY <1>1, <1>2, <1>3, <1>5, Facts DEF Typed
<1> QED BY <1>1, <1>2, <1>3, <1>5, <1>6, Facts, Frames DEF AutoInv

\* An observation: only a confirmation takes up a schedule, and its script
\* puts the core on it at once; a schedule lost pauses the core.
LEMMA ObservationTyped ==
  ASSUME AutoInv, At("obs")
  PROVE  AsObservation(Head(todo)[2]) \in P!Observation
<1>1. Head(todo) \in Op /\ Head(todo)[1] = "obs"
  BY Facts, HeadTail DEF At
<1>2. \A n \in Critical \cup PlainName : <<n>>[1] # "obs"
  BY DEF Critical, PlainName
<1>3. PICK o \in Feedback : Head(todo) = <<"obs", o>>
  BY <1>1, <1>2 DEF Op
<1>4. /\ Head(todo)[2] = o /\ o.packet \in Packet /\ o.timing_ok \in BOOLEAN /\ o.identity \in BOOLEAN
  BY <1>3 DEF Feedback
<1>5. o.packet.slot \in Nat /\ o.packet.epoch \in Nat /\ o.packet.generation \in Nat
  BY <1>4 DEF Packet
<1> QED BY <1>4, <1>5 DEF AsObservation, P!Observation

LEMMA AfterObsScript ==
  ASSUME NEW action
  PROVE  Script(AfterObs(tracker, action))
BY ScriptOf, EmptyScript DEF AfterObs, IdentityScript, Critical

LEMMA ObsStep == AutoInv /\ apply_one_obs => AutoInv'
<1> SUFFICES ASSUME AutoInv, apply_one_obs PROVE AutoInv'
  OBVIOUS
<1> DEFINE obs == AsObservation(Head(todo)[2])
           action == T!on_lock_obs_action(tracker, obs)
           next == T!on_lock_obs(tracker, obs)
           ops == AfterObs(tracker, action)
           paused == [sched EXCEPT !.live = FALSE]
           N == <<>>
<1>1. /\ At("obs") /\ tracker' = next /\ Continue(ops)
      /\ \/ sched' = sched /\ ready' = ready
         \/ tracker'.state = "Reacquire" /\ tracker'.global_energy /\ sched' = paused /\ ready' = N
      /\ UNCHANGED <<segment, segmentGen, jobs, inflight, worker, label, acquire, pending, now,
                     packets>>
  BY DEF apply_one_obs, workerVars, outside
<1>2. obs \in P!Observation
  BY <1>1, ObservationTyped
<1>3. /\ P!Good(next) /\ next.generation >= tracker.generation
      /\ action # "ConfirmedIdentity" => Keeps(tracker, next)
  BY <1>2, Facts, ObsMethod
<1>4. /\ todo # <<>> /\ Head(todo)[1] \notin {"idle", "enqueue"} /\ ~Due
  BY <1>1, AtFacts
<1>5. Script(ops)
  BY AfterObsScript
<1>6. todo' \in Seq(Op) /\ Drained'
  BY <1>1, <1>4, <1>5, Facts, ContinueScript
<1>7. sched' \in [live : BOOLEAN, origin : Int] /\ ready' \in Seq(JobRecord)
      /\ Uniform(ready', segment)
  <2>1. N \in Seq(JobRecord) /\ Uniform(N, segment)
    BY NoJobFacts
  <2>2. sched \in [live : BOOLEAN, origin : Int] /\ paused \in [live : BOOLEAN, origin : Int]
    BY Facts DEF Typed
  <2> QED BY <1>1, <2>1, <2>2, Facts DEF InSegment
<1>8. ASSUME action = "ConfirmedIdentity" PROVE Due'
  <2> DEFINE id == << <<"enqueue">>, <<"idle">>, <<"identity">> >>
  <2>1. ops = id /\ Tail(todo) \in Seq(Op)
    BY <1>4, <1>8, Facts, HeadTail DEF AfterObs, IdentityScript
  <2>2. id \in Seq(Op) /\ Len(id) = 3 /\ id[3] = <<"identity">>
    <3>1. /\ <<"identity">> \in Op /\ <<"enqueue">> \in Op /\ <<"idle">> \in Op
      BY OpNames DEF PlainName, Critical
    <3> QED BY <3>1
  <2>3. todo' = id \o Tail(todo)
    BY <1>1, <2>1 DEF Continue
  <2> HIDE DEF id
  <2>4. 3 \in DOMAIN todo' /\ todo'[3] = <<"identity">>
    <3>1. 3 \in DOMAIN id
      BY <2>2
    <3> QED BY <2>1, <2>2, <2>3, <3>1, FrontOfConcat
  <2>5. todo'[3][1] = "identity"
    BY <2>4
  <2> QED BY <2>4, <2>5 DEF Due
<1>9. ASSUME action # "ConfirmedIdentity", Followed(next)
      PROVE  sched'.live /\ sched'.origin = next.first_start
  <2>1. Keeps(tracker, next)
    BY <1>3, <1>9
  <2>2. ~(tracker'.state = "Reacquire" /\ tracker'.global_energy)
    BY <1>1, <1>9 DEF Followed, T!scheduled_path_active
  <2>3. sched' = sched
    BY <1>1, <2>2
  <2>4. sched.live /\ sched.origin = next.first_start
    BY <1>4, <1>9, <2>1, Facts DEF OnSchedule, Keeps
  <2> QED BY <2>3, <2>4
<1> HIDE DEF next, ops, action, obs
<1>10. OnSchedule'
  BY <1>1, <1>8, <1>9 DEF OnSchedule, Followed
<1>11. Typed'
  BY <1>1, <1>3, <1>6, <1>7, Facts DEF Typed
<1>12. Labels'
  <2>1. tracker'.generation \in Nat
    BY <1>1, <1>3, GoodFields
  <2> QED BY <1>1, <1>3, <2>1, Facts, LabelsGoOn
<1>13. InSegment'
  BY <1>1, <1>7, Facts DEF InSegment
<1> QED BY <1>1, <1>6, <1>10, <1>11, <1>12, <1>13, Facts, Frames DEF AutoInv

\* An operation that only goes on with the script, and puts a guarded one in
\* front of it.
LEMMA OnwardStep ==
  ASSUME AutoInv, NEW op, At(op), op \notin {"idle", "enqueue", "identity"},
         NEW ops, Script(ops), Continue(ops),
         UNCHANGED <<tracker, sched>>
  PROVE  todo' \in Seq(Op) /\ Drained' /\ OnSchedule'
<1>1. todo # <<>> /\ Head(todo)[1] \notin {"idle", "enqueue"} /\ ~Due
  BY AtFacts
<1>2. todo' \in Seq(Op) /\ Drained'
  BY <1>1, Facts, ContinueScript
<1>3. OnSchedule'
  BY <1>1, Facts DEF OnSchedule, Followed
<1> QED BY <1>2, <1>3

LEMMA TagsStep == AutoInv /\ scan_rx_time_tags => AutoInv'
<1> SUFFICES ASSUME AutoInv, scan_rx_time_tags PROVE AutoInv'
  OBVIOUS
<1>1. /\ At("tags")
      /\ Continue(<<>>) \/ Continue(<< <<"enqueue">>, <<"idle">>, <<"discontinuity">> >>)
      /\ UNCHANGED <<tracker, sched, segment, segmentGen, ready, jobs, inflight, worker, label,
                     acquire, pending, now, packets>>
  BY DEF scan_rx_time_tags, coreVars, workerVars
<1>2. Script(<<>>) /\ Script(<< <<"enqueue">>, <<"idle">>, <<"discontinuity">> >>)
  BY EmptyScript, ScriptOf DEF Critical
<1>3. todo' \in Seq(Op) /\ Drained' /\ OnSchedule'
  BY <1>1, <1>2, OnwardStep
<1>4. Typed'
  BY <1>1, <1>3, Facts DEF Typed
<1> QED BY <1>1, <1>3, <1>4, Facts, Frames DEF AutoInv

LEMMA CapturedJobs ==
  ASSUME AutoInv
  PROVE  /\ Region \in JobRecord /\ Region.segment = segment
         /\ Window \in JobRecord /\ Window.segment = segment
<1>1. now \in Nat /\ segment \in Nat /\ sched.origin \in Int
  BY Facts
<1>2. 0 \in Int /\ now - sched.origin \in Int
  BY <1>1
<1> QED BY <1>1, <1>2 DEF Region, Window, JobRecord

\* Capturing leaves the script drained: nothing critical comes before the
\* next enqueue and wait.
LEMMA CaptureStep == AutoInv /\ (process \/ flush) => AutoInv'
<1> SUFFICES ASSUME AutoInv, process \/ flush PROVE AutoInv'
  OBVIOUS
<1>1. /\ At("process") \/ At("flush")
      /\ Continue(<<>>) /\ now' \in {now, now + 1}
      /\ \/ ready' = ready
         \/ \E n \in Nat : ready' = ready \o [i \in 1..n |-> Region]
         \/ ready' = Append(ready, Region)
         \/ ready' = Append(ready, Window)
      /\ UNCHANGED <<tracker, sched, segment, segmentGen, jobs, inflight, worker, label,
                     acquire, pending, packets>>
  <2>1. 0..MaxBursts \subseteq Nat
    BY ExtractorAssumption
  <2> QED BY <2>1 DEF process, flush, coreVars, workerVars, outside
<1>2. /\ Script(<<>>) /\ todo # <<>> /\ Head(todo)[1] \notin {"idle", "enqueue"}
  BY <1>1, EmptyScript, AtFacts
<1>3. todo' \in Seq(Op) /\ Drained' /\ OnSchedule'
  BY <1>1, <1>2, OnwardStep
<1>4. ready' \in Seq(JobRecord) /\ Uniform(ready', segment)
  <2>1. ready \in Seq(JobRecord) /\ Uniform(ready, segment)
    BY Facts DEF InSegment
  <2>2. ASSUME NEW n \in Nat, ready' = ready \o [i \in 1..n |-> Region]
        PROVE  ready' \in Seq(JobRecord) /\ Uniform(ready', segment)
    <3> DEFINE burst == [i \in 1..n |-> Region]
    <3>1. burst \in Seq(JobRecord) /\ Uniform(burst, segment)
      BY CapturedJobs DEF Uniform
    <3> HIDE DEF burst
    <3> QED BY <2>1, <2>2, <3>1, UniformFacts, SMTT(30) DEF burst
  <2>3. /\ Append(ready, Region) \in Seq(JobRecord) /\ Uniform(Append(ready, Region), segment)
        /\ Append(ready, Window) \in Seq(JobRecord) /\ Uniform(Append(ready, Window), segment)
    BY <2>1, CapturedJobs, UniformFacts
  <2> QED BY <1>1, <2>1, <2>2, <2>3
<1>5. now' \in Nat
  BY <1>1, Facts
<1>6. Typed'
  BY <1>1, <1>3, <1>4, <1>5, Facts DEF Typed
<1>7. InSegment'
  BY <1>1, <1>4, Facts DEF InSegment
<1> QED BY <1>1, <1>3, <1>6, <1>7, Facts, Frames DEF AutoInv

\* enqueue, with nothing ready: what follows finds nothing ready.
LEMMA EnqueuedStep == AutoInv /\ enqueue_ready_jobs /\ ready = <<>> => AutoInv'
<1> SUFFICES ASSUME AutoInv, enqueue_ready_jobs, ready = <<>> PROVE AutoInv'
  OBVIOUS
<1>1. /\ todo # <<>> /\ Head(todo)[1] = "enqueue" /\ Continue(<<>>)
      /\ UNCHANGED <<tracker, sched, segment, segmentGen, ready, jobs, inflight, worker, label,
                     acquire, pending, now, packets>>
  BY DEF enqueue_ready_jobs, At, coreVars, workerVars, outside
<1>2. todo' = Tail(todo)
  BY <1>1, Facts, ContinueNone
<1>3. todo' \in Seq(Op) /\ Drained' /\ (Due => Due')
  BY <1>1, <1>2, Facts, PopDrained
<1>4. OnSchedule'
  BY <1>1, <1>3, Facts DEF OnSchedule, Followed
<1>5. Typed'
  BY <1>1, <1>3, Facts DEF Typed
<1> QED BY <1>1, <1>3, <1>4, <1>5, Facts, Frames DEF AutoInv

\* One job of enqueue: a region is queued only with no verification
\* outstanding, so that the queue and the worker have one at most.
LEMMA EnqueueStep == AutoInv /\ enqueue_ready_jobs => AutoInv'
<1> SUFFICES ASSUME AutoInv, enqueue_ready_jobs, ready # <<>> PROVE AutoInv'
  BY EnqueuedStep
<1> DEFINE j == Head(ready)
           queued == ~RateLimited(j) /\ Len(jobs) < JobQueueSize
           raised == [outstanding |-> acquire.outstanding + 1, next |-> j.slot + 1]
<1>1. /\ todo # <<>> /\ Head(todo)[1] = "enqueue"
      /\ ready' = Tail(ready)
      /\ jobs' = IF queued THEN Append(jobs, j) ELSE jobs
      /\ acquire' = IF queued /\ IsAcquisition(j) THEN raised ELSE acquire
      /\ UNCHANGED <<todo, tracker, sched, segment, segmentGen, inflight, worker, label,
                     pending, now, packets>>
  BY DEF enqueue_ready_jobs, At, coreVars, workerVars, outside, IsAcquisition
<1>2. /\ j \in JobRecord /\ j.segment = segment /\ ready' \in Seq(JobRecord) /\ Uniform(ready', segment)
  BY <1>1, Facts, UniformFacts DEF InSegment
<1>3. /\ Append(jobs, j) \in Seq(JobRecord) /\ Uniform(Append(jobs, j), segment)
  BY <1>2, Facts, UniformFacts DEF InSegment
<1>4. jobs' \in Seq(JobRecord) /\ Uniform(jobs', segment)
  BY <1>1, <1>3, Facts DEF InSegment
<1>5. raised \in [outstanding : Nat, next : Int] /\ raised.outstanding = acquire.outstanding + 1
  <2>1. j.slot \in Nat
    BY <1>2 DEF JobRecord
  <2>2. acquire.outstanding + 1 \in Nat /\ j.slot + 1 \in Int
    BY <2>1, Facts, SMTT(30)
  <2> QED BY <2>2
<1>6. queued /\ IsAcquisition(j) => ~(acquire.outstanding > 0)
  BY DEF RateLimited, IsAcquisition
<1> HIDE DEF j, queued, raised
<1>7. Drained'
  <2>1. ASSUME NEW i \in DOMAIN todo, todo[i][1] \in Critical
        PROVE  i >= 3 /\ todo[i - 1][1] = "idle" /\ todo[i - 2][1] = "enqueue"
    <3>1. 1 \in DOMAIN todo /\ todo[1][1] = "enqueue"
      BY <1>1, Facts, HeadTail
    <3>2. i # 1 /\ todo[1][1] # "idle"
      BY <2>1, <3>1 DEF Critical
    <3> QED BY <2>1, <3>2, Facts DEF Drained
  <2> QED BY <1>1, <2>1 DEF Drained
<1>8. Throttled'
  <2>1. CASE queued /\ IsAcquisition(j)
    <3>1. acquire.outstanding = 0 /\ ~IsAcquisition(inflight) /\ NoneQueued(jobs)
      <4>1. acquire.outstanding # 1
        BY <1>6, <2>1, Facts
      <4> QED BY <4>1, Facts DEF Throttled
    <3>2. OneQueued(Append(jobs, j))
      BY <1>2, <2>1, <3>1, Facts, QueuedAppend
    <3>3. acquire'.outstanding = 1 /\ jobs' = Append(jobs, j)
      BY <1>1, <1>5, <2>1, <3>1
    <3> QED BY <1>1, <3>1, <3>2, <3>3 DEF Throttled
  <2>2. CASE queued /\ ~IsAcquisition(j)
    <3>1. /\ NoneQueued(jobs) => NoneQueued(Append(jobs, j))
          /\ OneQueued(jobs) => OneQueued(Append(jobs, j))
      BY <1>2, <2>2, Facts, QueuedAppend
    <3> QED BY <1>1, <2>2, <3>1, Facts DEF Throttled
  <2>3. CASE ~queued
    BY <1>1, <2>3, Facts DEF Throttled
  <2> QED BY <2>1, <2>2, <2>3
<1>9. Typed'
  <2>1. acquire' \in [outstanding : Nat, next : Int]
    BY <1>1, <1>5, Facts DEF Typed
  <2> QED BY <1>1, <1>2, <1>4, <2>1, Facts DEF Typed
<1>10. InSegment'
  BY <1>1, <1>2, <1>4, Facts DEF InSegment
<1> QED BY <1>1, <1>7, <1>8, <1>9, <1>10, Facts, Frames DEF AutoInv

\* A wait that is over: the worker is idle, and what follows finds it so.
LEMMA WaitStep == AutoInv /\ wait_for_worker_idle => AutoInv'
<1> SUFFICES ASSUME AutoInv, wait_for_worker_idle PROVE AutoInv'
  OBVIOUS
<1>1. /\ (At("idle") /\ WorkerIdle) \/ At("idle if hunting")
      /\ Continue(<<>>)
      /\ UNCHANGED <<tracker, sched, segment, segmentGen, ready, jobs, inflight, worker, label,
                     acquire, pending, now, packets>>
  BY DEF wait_for_worker_idle, coreVars, workerVars, outside
<1>2. CASE At("idle") /\ WorkerIdle
  <2>1. todo # <<>> /\ Head(todo)[1] = "idle" /\ todo' = Tail(todo)
    BY <1>1, <1>2, Facts, ContinueNone DEF At
  <2>2. WorkerIdle'
    BY <1>1, <1>2 DEF WorkerIdle
  <2>3. todo' \in Seq(Op) /\ Drained' /\ (Due => Due')
    BY <1>1, <2>1, <2>2, Facts, PopDrained
  <2>4. OnSchedule'
    BY <1>1, <2>3, Facts DEF OnSchedule, Followed
  <2>5. Typed'
    BY <1>1, <2>3, Facts DEF Typed
  <2> QED BY <1>1, <2>3, <2>4, <2>5, Facts, Frames DEF AutoInv
<1>3. CASE At("idle if hunting")
  <2>1. todo' \in Seq(Op) /\ Drained' /\ OnSchedule'
    BY <1>1, <1>3, EmptyScript, OnwardStep
  <2>2. Typed'
    BY <1>1, <2>1, Facts DEF Typed
  <2> QED BY <1>1, <2>1, <2>2, Facts, Frames DEF AutoInv
<1> QED BY <1>1, <1>2, <1>3

LEMMA ShutdownStep == AutoInv /\ shutdown_worker => AutoInv'
<1> SUFFICES ASSUME AutoInv, shutdown_worker PROVE AutoInv'
  OBVIOUS
<1>1. /\ At("join") /\ Continue(<<>>)
      /\ UNCHANGED <<tracker, sched, segment, segmentGen, ready, jobs, inflight, worker, label,
                     acquire, pending, now, packets>>
  BY DEF shutdown_worker, coreVars, workerVars
<1>2. todo' \in Seq(Op) /\ Drained' /\ OnSchedule'
  BY <1>1, EmptyScript, OnwardStep
<1>3. Typed'
  BY <1>1, <1>2, Facts DEF Typed
<1> QED BY <1>1, <1>2, <1>3, Facts, Frames DEF AutoInv

-----------------------------------------------------------------------------
(* The worker's steps, and the other threads'.                             *)

\* What a step leaves alone when the work thread makes none.
LEMMA ScriptKept ==
  ASSUME AutoInv, UNCHANGED <<sched, todo, ready>>, Keeps(tracker, tracker')
  PROVE  OnSchedule'
<1>1. Due' <=> Due
  BY DEF Due
<1>2. Followed(tracker') => (sched'.live /\ sched'.origin = tracker'.first_start) \/ Due'
  BY <1>1, Facts DEF OnSchedule, Keeps
<1> QED BY <1>2 DEF OnSchedule, Followed

LEMMA KeepsSame == \A tr : Keeps(tr, tr)
BY DEF Keeps

\* A step of a worker that is not idle disturbs nothing that is drained.
LEMMA DrainedKept ==
  ASSUME AutoInv, ~WorkerIdle, UNCHANGED <<todo, ready>>
  PROVE  Drained'
BY Facts DEF Drained

LEMMA TakeStep == AutoInv /\ worker_take => AutoInv'
<1> SUFFICES ASSUME AutoInv, worker_take PROVE AutoInv'
  OBVIOUS
<1> DEFINE j == Head(jobs)
<1>1. /\ worker = "wait" /\ jobs # <<>> /\ inflight' = j /\ jobs' = Tail(jobs)
      /\ worker' \in {"verify", "epoch"}
      /\ UNCHANGED <<tracker, sched, segment, segmentGen, ready, pending, todo, now, label,
                     acquire, packets>>
  BY DEF worker_take, workVars, coreVars
<1>2. /\ j \in JobRecord /\ j.segment = segment /\ jobs' \in Seq(JobRecord)
      /\ Uniform(jobs', segment)
  BY <1>1, Facts, UniformFacts DEF InSegment
<1>3. inflight = NoJob /\ j # NoJob
  <2>1. worker \notin {"verify", "epoch", "publish", "done"}
    BY <1>1
  <2> QED BY <1>2, <2>1, Facts, NoJobFacts DEF Busy
<1> HIDE DEF j
<1>4. Drained'
  BY <1>1, DrainedKept DEF WorkerIdle
<1>5. Throttled'
  <2>1. ~IsAcquisition(inflight)
    BY <1>3, NoJobFacts
  <2>2. /\ NoneQueued(jobs) => NoneQueued(jobs') /\ ~IsAcquisition(j)
        /\ OneQueued(jobs) => \/ IsAcquisition(j) /\ NoneQueued(jobs')
                              \/ ~IsAcquisition(j) /\ OneQueued(jobs')
    BY <1>1, Facts, QueuedTail DEF j
  <2> QED BY <1>1, <2>1, <2>2, Facts DEF Throttled
<1>6. Typed' /\ Busy'
  BY <1>1, <1>2, <1>3, Facts DEF Typed, WorkerAt, Busy
<1>7. InSegment'
  BY <1>1, <1>2, <1>3, Facts DEF InSegment
<1> QED BY <1>1, <1>4, <1>5, <1>6, <1>7, Facts, Frames DEF AutoInv

LEMMA ExitStep == AutoInv /\ worker_exit => AutoInv'
<1> SUFFICES ASSUME AutoInv, worker_exit PROVE AutoInv'
  OBVIOUS
<1>1. /\ worker = "wait" /\ worker' = "exited"
      /\ UNCHANGED <<tracker, sched, segment, segmentGen, ready, pending, todo, now, jobs,
                     inflight, label, acquire, packets>>
  BY DEF worker_exit, workVars, coreVars
<1>2. Typed' /\ Busy'
  BY <1>1, Facts DEF Typed, WorkerAt, Busy
<1> QED BY <1>1, <1>2, Facts, Frames DEF AutoInv

\* The tracker hears of a candidate from the worker, between any two steps
\* of the work thread.
LEMMA VerifyStep == AutoInv /\ publish_acquisition => AutoInv'
<1> SUFFICES ASSUME AutoInv, publish_acquisition PROVE AutoInv'
  OBVIOUS
<1>1. /\ worker = "verify" /\ worker' \in {"done", "epoch"}
      /\ tracker' = tracker \/ tracker' = T!note_candidate_emitted(tracker)
      /\ UNCHANGED <<sched, segment, segmentGen, ready, pending, todo, now, jobs, inflight,
                     label, acquire, packets>>
  BY DEF publish_acquisition, AfterReject
<1>2. P!Good(tracker') /\ tracker'.generation >= tracker.generation /\ Keeps(tracker, tracker')
  BY <1>1, Facts, CandidateMethod, KeepsSame
<1>3. tracker'.generation \in Nat
  BY <1>2, GoodFields
<1>4. OnSchedule'
  BY <1>1, <1>2, ScriptKept
<1>5. Labels'
  BY <1>1, <1>2, <1>3, Facts, LabelsGoOn
<1>6. Typed' /\ Busy'
  BY <1>1, <1>2, Facts DEF Typed, WorkerAt, Busy
<1> QED BY <1>1, <1>4, <1>5, <1>6, Facts, Frames DEF AutoInv

LEMMA ReadStep == AutoInv /\ read_epoch => AutoInv'
<1> SUFFICES ASSUME AutoInv, read_epoch PROVE AutoInv'
  OBVIOUS
<1>1. /\ worker = "epoch" /\ worker' = "publish" /\ label' = tracker.epoch
      /\ UNCHANGED <<tracker, sched, segment, segmentGen, ready, pending, todo, now, jobs,
                     inflight, acquire, packets>>
  BY DEF read_epoch, workVars, coreVars
<1>2. Typed' /\ Busy'
  BY <1>1, Facts DEF Typed, WorkerAt, Busy
<1> QED BY <1>1, <1>2, Facts, Frames DEF AutoInv

\* A packet is published under the tracker's present generation: the reset
\* that ends the segment waits until the worker is done with it.
LEMMA PublishStep == AutoInv /\ publish => AutoInv'
<1> SUFFICES ASSUME AutoInv, publish PROVE AutoInv'
  OBVIOUS
<1> DEFINE p == [slot |-> inflight.slot, index |-> inflight.index, epoch |-> label,
                 generation |-> tracker.generation, segment |-> inflight.segment]
<1>1. /\ worker = "publish" /\ worker' = "done" /\ label' = 0 /\ packets' = packets \cup {p}
      /\ UNCHANGED <<tracker, sched, segment, segmentGen, ready, pending, todo, now, jobs,
                     inflight, acquire>>
  BY DEF publish, workVars, coreVars
<1>2. inflight \in JobRecord /\ inflight.segment = segment
  BY <1>1, Facts DEF Busy, InSegment
<1>3. p \in Packet
  <2>1. inflight.slot \in Nat /\ inflight.index \in Int /\ inflight.segment \in Nat
    BY <1>2 DEF JobRecord
  <2>2. label \in Nat
    BY Facts DEF Typed
  <2> QED BY <2>1, <2>2, Facts DEF Packet
<1>4. p.generation = tracker.generation /\ p.segment = segment
  BY <1>2
<1> HIDE DEF p
<1>5. Fresh(p, tracker.generation, segmentGen, segment)
  <2>1. p.generation <= tracker.generation
    BY <1>4, Facts
  <2> QED BY <1>4, <2>1 DEF Fresh
<1>6. Labels'
  BY <1>1, <1>5, Facts DEF Labels, AllFresh
<1>7. Typed' /\ Busy'
  BY <1>1, <1>3, Facts DEF Typed, WorkerAt, Busy
<1> QED BY <1>1, <1>6, <1>7, Facts, Frames DEF AutoInv

LEMMA DoneStep == AutoInv /\ worker_done => AutoInv'
<1> SUFFICES ASSUME AutoInv, worker_done PROVE AutoInv'
  OBVIOUS
<1> DEFINE n == Outstanding(inflight.kind)
<1>1. /\ worker = "done" /\ worker' = "wait" /\ inflight' = NoJob
      /\ acquire' = [acquire EXCEPT !.outstanding = n]
      /\ UNCHANGED <<tracker, sched, segment, segmentGen, ready, pending, todo, now, jobs,
                     label, packets>>
  BY DEF worker_done, workVars, coreVars
<1>2. inflight # NoJob
  BY <1>1, Facts DEF Busy
<1>3. /\ n \in Nat
      /\ n = IF IsAcquisition(inflight) /\ acquire.outstanding > 0
             THEN acquire.outstanding - 1 ELSE acquire.outstanding
  BY Facts DEF Outstanding, IsAcquisition
<1> HIDE DEF n
<1>4. acquire' \in [outstanding : Nat, next : Int] /\ acquire'.outstanding = n
  <2>1. acquire \in [outstanding : Nat, next : Int]
    BY Facts DEF Typed
  <2> QED BY <1>1, <1>3, <2>1
<1>5. Drained'
  BY <1>1, <1>2, DrainedKept DEF WorkerIdle
<1>6. Throttled'
  <2>1. ~IsAcquisition(inflight')
    BY <1>1, NoJobFacts
  <2>2. CASE IsAcquisition(inflight)
    <3>1. acquire.outstanding = 1 /\ NoneQueued(jobs)
      BY <2>2, Facts DEF Throttled
    <3>2. n = 0
      BY <1>3, <2>2, <3>1
    <3> QED BY <1>1, <1>4, <2>1, <3>1, <3>2 DEF Throttled
  <2>3. CASE ~IsAcquisition(inflight)
    <3>1. n = acquire.outstanding
      BY <1>3, <2>3
    <3> QED BY <1>1, <1>4, <2>1, <2>3, <3>1, Facts DEF Throttled
  <2> QED BY <2>2, <2>3
<1>7. Typed' /\ Busy'
  BY <1>1, <1>4, Facts DEF Typed, WorkerAt, Busy
<1>8. InSegment'
  BY <1>1, Facts DEF InSegment
<1> QED BY <1>1, <1>5, <1>6, <1>7, <1>8, Facts, Frames DEF AutoInv

\* Feedback carries the label of the packet it is about.
LEMMA FeedbackStep ==
  ASSUME AutoInv, NEW p \in packets, NEW ok \in BOOLEAN, NEW pass \in BOOLEAN,
         handle_lock_obs_msg([packet |-> p, timing_ok |-> ok, identity |-> pass]),
         packets' = packets \ {p},
         others' = others
  PROVE  AutoInv'
<1> DEFINE o == [packet |-> p, timing_ok |-> ok, identity |-> pass]
           obs == Append(pending.obs, o)
<1>1. /\ pending' = IF Len(pending.obs) < PendingObsCap
                    THEN [pending EXCEPT !.obs = obs] ELSE pending
      /\ UNCHANGED <<tracker, sched, segment, segmentGen, ready, jobs, inflight, worker, label,
                     acquire, todo, now>>
  BY DEF handle_lock_obs_msg, others, workerVars
<1>2. o \in Feedback /\ o.packet = p
  BY Facts DEF Feedback
<1> HIDE DEF o
<1>3. /\ obs \in Seq(Feedback)
      /\ \A i \in DOMAIN obs : \/ i \in DOMAIN pending.obs /\ obs[i] = pending.obs[i]
                               \/ obs[i] = o
  BY <1>2, Facts, AppendFacts
<1> HIDE DEF obs
<1>4. /\ pending' \in [obs : Seq(Feedback), disc : BOOLEAN, reset : BOOLEAN]
      /\ pending'.obs \in {pending.obs, obs}
  <2>1. pending \in [obs : Seq(Feedback), disc : BOOLEAN, reset : BOOLEAN]
    BY Facts DEF Typed
  <2> QED BY <1>1, <1>3, <2>1
<1>5. \A i \in DOMAIN pending'.obs :
        (\E j \in DOMAIN pending.obs : pending'.obs[i].packet = pending.obs[j].packet)
        \/ pending'.obs[i].packet \in packets
  BY <1>2, <1>3, <1>4
<1>6. Labels'
  <2>1. tracker'.generation \in Nat /\ tracker'.generation >= tracker.generation
    BY <1>1, Facts
  <2>2. packets' \subseteq packets
    OBVIOUS
  <2> QED BY <1>1, <1>5, <2>1, <2>2, Facts, LabelsGoOn
<1>7. Typed'
  BY <1>1, <1>4, Facts DEF Typed
<1> QED BY <1>1, <1>6, <1>7, Facts, Frames DEF AutoInv

LEMMA OtherStep == AutoInv /\ (DemodFeedback \/ ReportMiss \/ handle_control_msg) => AutoInv'
<1> SUFFICES ASSUME AutoInv, DemodFeedback \/ ReportMiss \/ handle_control_msg PROVE AutoInv'
  OBVIOUS
<1>1. CASE DemodFeedback
  <2>1. others' = others
    BY <1>1 DEF DemodFeedback
  <2>2. PICK p \in packets, pass \in BOOLEAN :
          /\ handle_lock_obs_msg([packet |-> p, timing_ok |-> TRUE, identity |-> pass])
          /\ packets' = packets \ {p}
    BY <1>1 DEF DemodFeedback
  <2> QED BY <2>1, <2>2, FeedbackStep
<1>2. CASE ReportMiss
  <2>1. others' = others
    BY <1>2 DEF ReportMiss
  <2>2. PICK p \in packets :
          /\ handle_lock_obs_msg([packet |-> p, timing_ok |-> FALSE, identity |-> FALSE])
          /\ packets' = packets \ {p}
    BY <1>2 DEF ReportMiss
  <2> QED BY <2>1, <2>2, FeedbackStep
<1>3. CASE handle_control_msg
  <2>1. /\ UNCHANGED <<tracker, sched, segment, segmentGen, ready, jobs, inflight, worker, label,
                       acquire, todo, now, packets>>
        /\ pending' = [pending EXCEPT !.disc = TRUE] \/ pending' = [pending EXCEPT !.reset = TRUE]
    BY <1>3 DEF handle_control_msg, others, workerVars
  <2>2. /\ pending' \in [obs : Seq(Feedback), disc : BOOLEAN, reset : BOOLEAN]
        /\ pending'.obs = pending.obs
    <3>1. pending \in [obs : Seq(Feedback), disc : BOOLEAN, reset : BOOLEAN]
      BY Facts DEF Typed
    <3> QED BY <2>1, <3>1
  <2>3. Labels'
    BY <2>1, <2>2, Facts DEF Labels, AllFresh
  <2>4. Typed'
    BY <2>1, <2>2, Facts DEF Typed
  <2> QED BY <2>1, <2>3, <2>4, Facts, Frames DEF AutoInv
<1> QED BY <1>1, <1>2, <1>3

LEMMA StutterStep == AutoInv /\ UNCHANGED vars => AutoInv'
<1> SUFFICES ASSUME AutoInv, UNCHANGED vars PROVE AutoInv'
  OBVIOUS
<1>1. UNCHANGED <<tracker, sched, ready, jobs, inflight, worker, label, acquire, pending, todo,
                  now, segment, segmentGen, packets>>
  BY DEF vars
<1>2. Typed'
  BY <1>1, Facts DEF Typed
<1> QED BY <1>1, <1>2, Facts, Frames DEF AutoInv

LEMMA NextHolds == AutoInv /\ [Next]_vars => AutoInv'
<1> SUFFICES ASSUME AutoInv, [Next]_vars PROVE AutoInv'
  OBVIOUS
<1>1. CASE work \/ stop
  BY <1>1, CallStep
<1>2. CASE start
  BY <1>2, StartStep
<1>3. CASE WorkStep
  BY <1>3, ApplyStep, BreakStep, IdentityStep, ObsStep, TagsStep, CaptureStep, EnqueueStep,
     WaitStep, ShutdownStep DEF WorkStep
<1>4. CASE WorkerStep
  BY <1>4, TakeStep, ExitStep, VerifyStep, ReadStep, PublishStep, DoneStep DEF WorkerStep
<1>5. CASE DemodFeedback \/ ReportMiss \/ handle_control_msg
  BY <1>5, OtherStep
<1>6. CASE UNCHANGED vars
  BY <1>6, StutterStep
<1> QED BY <1>1, <1>2, <1>3, <1>4, <1>5, <1>6 DEF Next

LEMMA AlwaysHolds == Spec => []AutoInv
<1> QED BY InitHolds, NextHolds, PTL DEF Spec

-----------------------------------------------------------------------------
(* What follows.                                                           *)

LEMMA CountQueued ==
  ASSUME NEW s
  PROVE  /\ NoneQueued(s) => Cardinality(Acquisitions(s)) = 0
         /\ OneQueued(s) => Cardinality(Acquisitions(s)) = 1
<1>1. NoneQueued(s) => Acquisitions(s) = {}
  BY DEF NoneQueued, Acquisitions, IsAcquisition
<1>2. OneQueued(s) => \E i : Acquisitions(s) = {i}
  BY DEF OneQueued, Acquisitions, IsAcquisition
<1> QED BY <1>1, <1>2, FS_EmptySet, FS_Singleton

\* The counter that limits the rate of verification, raised by work() and
\* lowered by the worker, is at every moment the number of regions queued or
\* being verified, and never more than one.
THEOREM ThrottleHolds == Spec => []VerifyThrottle
<1>1. AutoInv => VerifyThrottle
  <2> SUFFICES ASSUME AutoInv PROVE VerifyThrottle
    OBVIOUS
  <2> DEFINE queued == Cardinality(Acquisitions(jobs))
             held == IF inflight.kind = "Acquisition" THEN 1 ELSE 0
  <2>1. /\ NoneQueued(jobs) => queued = 0
        /\ OneQueued(jobs) => queued = 1
    BY CountQueued
  <2> HIDE DEF queued
  <2>2. /\ IsAcquisition(inflight) => held = 1
        /\ ~IsAcquisition(inflight) => held = 0
    BY DEF IsAcquisition
  <2> HIDE DEF held
  <2>3. acquire.outstanding = queued + held /\ acquire.outstanding <= 1
    BY <2>1, <2>2, Facts DEF Throttled
  <2> QED BY <2>3 DEF VerifyThrottle, queued, held
<1> QED BY <1>1, AlwaysHolds, PTL

\* configure and reset find every handle back: when an operation that calls
\* them comes up, the queue is empty, the worker idle and nothing is ready,
\* in whatever order resets, discontinuities and confirmations were nested.
THEOREM ResetsDrained == Spec => []DrainedBeforeReset
<1>1. AutoInv => DrainedBeforeReset
  <2> SUFFICES ASSUME AutoInv, NEW op \in Critical, At(op) PROVE WorkerIdle /\ ready = <<>>
    BY DEF DrainedBeforeReset, Critical
  <2>1. op \notin {"idle", "enqueue"}
    BY DEF Critical
  <2> QED BY <2>1, AtFacts
<1> QED BY <1>1, AlwaysHolds, PTL

\* Samples are cut on the schedule the tracker follows: a confirmation's
\* new schedule is in the core before process comes up, and no loss, reset
\* or discontinuity leaves the core on one the tracker has given up.
THEOREM CutsOnSchedule == Spec => []ScheduleFollowsTracker
<1>1. AutoInv => ScheduleFollowsTracker
  <2> SUFFICES ASSUME AutoInv, At("process"), Followed(tracker)
               PROVE  sched.live /\ sched.origin = tracker.first_start
    BY DEF ScheduleFollowsTracker, Followed
  <2>1. ~Due
    BY AtFacts
  <2> QED BY <2>1, Facts DEF OnSchedule
<1> QED BY <1>1, AlwaysHolds, PTL

\* A label that counts in the present segment was given in it: no packet and
\* no pending feedback from before a discontinuity or a reset passes for new.
THEOREM LabelsStayInSegment == Spec => []SegmentsNeverMix
<1>1. AutoInv => SegmentsNeverMix
  <2> SUFFICES ASSUME AutoInv PROVE SegmentsNeverMix
    OBVIOUS
  <2> DEFINE heard == packets \cup {o.packet : o \in ToSet(pending.obs)}
  <2>1. \A o \in ToSet(pending.obs) : \E i \in DOMAIN pending.obs : pending.obs[i] = o
    BY DEF ToSet
  <2>2. \A p \in heard : Fresh(p, tracker.generation, segmentGen, segment)
    BY <2>1, Facts DEF Labels, AllFresh
  <2> QED BY <2>2 DEF SegmentsNeverMix, Fresh
<1> QED BY <1>1, AlwaysHolds, PTL

\* The tracker's own invariant survives its composition: whatever the work
\* thread and the worker do to it and when, a schedule is followed only with
\* a confirmed identity and a start, and misses stay within their budget.
THEOREM TrackerComposes == Spec => []P!Good(tracker)
<1>1. AutoInv => P!Good(tracker)
  BY DEF AutoInv, Typed
<1> QED BY <1>1, AlwaysHolds, PTL

=============================================================================
