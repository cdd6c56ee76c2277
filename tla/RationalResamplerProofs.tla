---------------------- MODULE RationalResamplerProofs ----------------------
(***************************************************************************)
(* The resampler's worker pool, for any number of workers and any length   *)
(* of batch: when pool_parallel_for returns, each item has been computed   *)
(* exactly once and no worker is still at work.                            *)
(*                                                                         *)
(* The resampler on it, for every ratio L/M, every number of taps and of   *)
(* workers: however the stream is cut into calls and whichever loop        *)
(* computes it, the outputs are those of the definition.  The next output, *)
(* made, needs the samples up to position (made * M) div L with the arm    *)
(* (made * M) % L; ctr and the position the loops keep are the remainder   *)
(* and the quotient of that division, through every return and re-entry.   *)
(*                                                                         *)
(* The stream block around it: its calls, flushes and resets keep all that *)
(* for the outputs it hands on, and the tags stay in order.                *)
(***************************************************************************)
EXTENDS UwbRationalResampler, FiniteSetTheorems, TLAPS

(***************************************************************************)
(* The pool.                                                               *)
(***************************************************************************)

(* Division: chunk = (n + Workers - 1) / Workers is large enough.          *)
Chunk(n) == (n + Workers - 1) \div Workers

LEMMA DivBounds ==
  ASSUME NEW a \in Nat, NEW b \in Nat \ {0}
  PROVE  /\ a \div b \in Nat
         /\ b * (a \div b) <= a
         /\ a < b * (a \div b) + b
  OBVIOUS

LEMMA ChunkCovers ==
  ASSUME NEW n \in Nat
  PROVE  /\ Chunk(n) \in Nat
         /\ n <= Workers * Chunk(n)
         /\ n > 0 => Chunk(n) > 0
<1>1. Workers \in Nat \ {0} /\ n + Workers - 1 \in Nat
  BY WorkersAssumption
<1>2. /\ Chunk(n) \in Nat
      /\ n + Workers - 1 < Workers * Chunk(n) + Workers
  BY <1>1, DivBounds DEF Chunk
<1>3. n <= Workers * Chunk(n)
  <2> DEFINE c == Workers * Chunk(n)
  <2>1. c \in Int /\ n + Workers - 1 < c + Workers
    BY <1>1, <1>2
  <2> HIDE DEF c
  <2>2. n <= c
    BY <1>1, <2>1
  <2> QED BY <2>2 DEF c
<1>4. Chunk(n) = 0 => Workers * Chunk(n) = 0
  BY <1>1, <1>2
<1> QED BY <1>2, <1>3, <1>4

(* The slices of the workers cover the batch, ...                          *)
LEMMA SlicesCover ==
  ASSUME NEW n \in Nat, NEW i \in 1 .. n
  PROVE  \E w \in Worker : i \in SliceOf(w, n)
<1> DEFINE c == Chunk(n)
           w == (i - 1) \div c
<1>1. c \in Nat \ {0} /\ n <= Workers * c
  BY ChunkCovers
<1>2. w \in Nat /\ c * w <= i - 1 /\ i - 1 < c * w + c
  BY <1>1, DivBounds, i - 1 \in Nat
<1>3. w < Workers
  <2>1. SUFFICES ASSUME Workers <= w PROVE FALSE
    BY <1>2, WorkersAssumption
  <2>2. Workers * c <= c * w
    BY <1>1, <1>2, <2>1, WorkersAssumption
  <2> QED BY <1>1, <1>2, <2>2, WorkersAssumption, Workers * c \in Int, c * w \in Int
<1>4. w \in Worker
  BY <1>2, <1>3, WorkersAssumption DEF Worker
<1>5. w * c + 1 <= i /\ i <= (w + 1) * c
  BY <1>1, <1>2, w * c = c * w, (w + 1) * c = c * w + c
<1>6. i \in SliceOf(w, n)
  <2>1. w * c \in Int /\ (w + 1) * c \in Int
    BY <1>1, <1>2
  <2> HIDE DEF w
  <2> QED BY <1>5, <2>1 DEF SliceOf, MinOf, Chunk
<1> QED BY <1>4, <1>6

(* ... and do not overlap.                                                 *)
LEMMA SlicesDisjoint ==
  ASSUME NEW n \in Nat, NEW v \in Worker, NEW w \in Worker, NEW i \in SliceOf(v, n),
         i \in SliceOf(w, n)
  PROVE  v = w
<1> DEFINE c == Chunk(n)
<1>1. c \in Nat /\ v \in Nat /\ w \in Nat /\ n \in Nat
  BY ChunkCovers, WorkersAssumption DEF Worker
<1>2. \A u \in {v, w} : u * c + 1 <= i /\ i <= (u + 1) * c /\ i \in Int
  <2> SUFFICES ASSUME NEW u \in {v, w}
               PROVE  u * c + 1 <= i /\ i <= (u + 1) * c /\ i \in Int
    OBVIOUS
  <2>1. u * c \in Int /\ (u + 1) * c \in Int
    BY <1>1
  <2> QED BY <1>1, <2>1 DEF SliceOf, MinOf, Chunk
<1>3. ASSUME NEW x \in {v, w}, NEW y \in {v, w}, x < y PROVE FALSE
  <2>1. (x + 1) * c <= y * c
    BY <1>1, <1>3
  <2> QED BY <1>1, <1>2, <2>1, (x + 1) * c \in Int, y * c \in Int
<1> QED BY <1>1, <1>3

-----------------------------------------------------------------------------
(* The invariant.                                                          *)

Active == main \in {"posted", "test", "tested", "asleep"}
Idle == main \in {"returned", "free", "join"}

PoolTypes ==
  /\ epoch \in Nat /\ done \in Nat /\ items \in Nat
  /\ posted \in BOOLEAN /\ stop \in BOOLEAN
  /\ seen \in [Worker -> Nat]
  /\ slice \in [Worker -> SUBSET Int]
  /\ at \in [Worker -> {"look", "asleep", "run", "count", "ring", "gone"}]
  /\ Active \/ Idle
  /\ runs \in [1 .. items -> Nat]

\* The workers that have raised done in this epoch, and the ones whose slice of
\* the batch is computed.
Counted == {w \in Worker : seen[w] = epoch /\ at[w] \notin {"run", "count"}}
Ran(w) == seen[w] = epoch /\ at[w] # "run"

\* A worker at work is at work on the batch in hand, ...
WorkersInv ==
  \A w \in Worker :
    /\ seen[w] <= epoch
    /\ at[w] \in {"run", "count"} => Active /\ seen[w] = epoch
    /\ at[w] = "run" => slice[w] = SliceOf(w, items)

\* ... done counts the ones that have finished, and an item has been computed as
\* often as its worker has run; between batches all of them have.
BatchInv ==
  /\ Active => posted /\ done = Cardinality(Counted)
  /\ Active => \A w \in Worker : \A i \in SliceOf(w, items) :
                 runs[i] = IF Ran(w) THEN 1 ELSE 0
  /\ Idle => Counted = Worker /\ \A i \in DOMAIN runs : runs[i] = 1

PoolInv == PoolTypes /\ WorkersInv /\ BatchInv

LEMMA WorkersFinite == IsFiniteSet(Worker) /\ Cardinality(Worker) = Workers
BY FS_Interval, WorkersAssumption, Workers - 1 \in Int DEF Worker

LEMMA SliceInBatch ==
  ASSUME NEW n \in Nat, NEW w \in Worker
  PROVE  SliceOf(w, n) \subseteq 1 .. n
<1>1. w * Chunk(n) \in Nat /\ (w + 1) * Chunk(n) \in Nat
  BY ChunkCovers, WorkersAssumption DEF Worker
<1> QED BY <1>1 DEF SliceOf, MinOf, Chunk

LEMMA CountedFinite == IsFiniteSet(Counted) /\ Cardinality(Counted) <= Workers
BY WorkersFinite, FS_Subset, Counted \in SUBSET Worker DEF Counted

LEMMA PoolInitial == PoolInit => PoolInv
<1> SUFFICES ASSUME PoolInit PROVE PoolInv
  OBVIOUS
<1>1. 1 .. 0 = {}
  OBVIOUS
<1>2. PoolTypes
  BY <1>1 DEF PoolInit, PoolTypes, Active, Idle
<1>3. WorkersInv
  BY DEF PoolInit, WorkersInv
<1>4. BatchInv
  BY DEF PoolInit, BatchInv, Active, Idle, Counted
<1> QED BY <1>2, <1>3, <1>4 DEF PoolInv

-----------------------------------------------------------------------------
(* One lemma for each step that moves the batch.                           *)

\* A batch is posted: nobody has run or counted himself.
LEMMA PostKeeps ==
  ASSUME PoolInv, NEW n \in Nat, Post(n)
  PROVE  PoolInv'
<1>1. /\ main = "free" /\ Idle /\ ~Active
      /\ \A w \in Worker : seen[w] = epoch /\ at[w] \notin {"run", "count"}
  BY DEF PoolInv, BatchInv, Counted, Post, Idle, Active
<1>2. PoolTypes'
  BY DEF PoolInv, PoolTypes, Post, Active
<1>3. \A w \in Worker : seen'[w] < epoch' /\ at'[w] \notin {"run", "count"}
  BY <1>1 DEF Post, PoolInv, PoolTypes
<1>4. WorkersInv'
  BY <1>2, <1>3 DEF WorkersInv, PoolTypes
<1>5. Counted' = {}
  BY <1>2, <1>3 DEF Counted, PoolTypes
<1>6. \A w \in Worker : ~Ran(w)'
  BY <1>2, <1>3 DEF Ran, PoolTypes
<1>7. BatchInv'
  <2>1. posted' /\ done' = Cardinality(Counted') /\ ~Idle'
    BY <1>5, FS_EmptySet DEF Post, Idle
  <2>2. \A w \in Worker : \A i \in SliceOf(w, items') : runs'[i] = 0
    BY SliceInBatch DEF Post
  <2> QED BY <1>6, <2>1, <2>2 DEF BatchInv
<1> QED BY <1>2, <1>4, <1>7 DEF PoolInv

\* The caller finds that all workers have counted themselves: all slices are
\* computed, and the slices are the whole batch.
LEMMA TestDoneKeeps ==
  ASSUME PoolInv, TestDone
  PROVE  PoolInv'
<1>1. /\ Active /\ ~Idle
      /\ UNCHANGED <<epoch, done, items, stop, seen, slice, at, runs>>
  BY DEF TestDone, Active, Idle
<1>2. PoolTypes'
  BY <1>1 DEF PoolInv, PoolTypes, TestDone, Active, Idle
<1>3. Counted' = Counted /\ \A w \in Worker : Ran(w)' <=> Ran(w)
  BY <1>1 DEF Counted, Ran
<1>4. CASE done < Workers
  <2>1. main' = "tested" /\ posted' = posted
    BY <1>4, WorkersAssumption DEF TestDone, PoolInv, PoolTypes
  <2>2. WorkersInv'
    BY <1>1, <2>1 DEF PoolInv, WorkersInv, Active
  <2>3. BatchInv'
    BY <1>1, <1>3, <2>1 DEF PoolInv, BatchInv, Active, Idle
  <2> QED BY <1>2, <2>2, <2>3 DEF PoolInv
<1>5. CASE done >= Workers
  <2>1. main' = "returned"
    BY <1>5 DEF TestDone
  <2>2. Counted = Worker
    <3>1. done = Cardinality(Counted)
      BY <1>1 DEF PoolInv, BatchInv
    <3>2. Cardinality(Counted) = Cardinality(Worker)
      BY <1>5, <3>1, CountedFinite, WorkersFinite, WorkersAssumption DEF PoolInv, PoolTypes
    <3> QED BY <3>2, WorkersFinite, FS_Subset, Counted \in SUBSET Worker DEF Counted
  <2>3. \A w \in Worker : at[w] \notin {"run", "count"} /\ Ran(w)
    BY <2>2 DEF Counted, Ran
  <2>4. WorkersInv'
    BY <1>1, <2>3 DEF PoolInv, WorkersInv
  <2>5. ASSUME NEW i \in DOMAIN runs PROVE runs[i] = 1
    <3>1. i \in 1 .. items /\ items \in Nat
      BY DEF PoolInv, PoolTypes
    <3>2. PICK w \in Worker : i \in SliceOf(w, items)
      BY <3>1, SlicesCover
    <3> QED BY <1>1, <2>3, <3>2 DEF PoolInv, BatchInv
  <2>6. BatchInv'
    BY <1>1, <1>3, <2>1, <2>2, <2>5 DEF BatchInv, Active, Idle
  <2> QED BY <1>2, <2>4, <2>6 DEF PoolInv
<1> QED BY <1>4, <1>5, WorkersAssumption DEF PoolInv, PoolTypes

\* A worker that has not seen the epoch takes its slice; between batches there is none.
LEMMA LookKeeps ==
  ASSUME PoolInv, NEW w \in Worker, Look(w)
  PROVE  PoolInv'
<1>1. UNCHANGED <<epoch, done, items, posted, stop, main, runs>> /\ at[w] = "look"
  BY DEF Look
<1>2. CASE epoch > seen[w]
  <2>1. /\ at' = [at EXCEPT ![w] = "run"] /\ seen' = [seen EXCEPT ![w] = epoch]
        /\ slice' = [slice EXCEPT ![w] = IF posted THEN SliceOf(w, items) ELSE {}]
    BY <1>2 DEF Look
  <2>2. w \notin Counted
    BY <1>2 DEF Counted, PoolInv, PoolTypes
  <2>3. Active /\ ~Idle /\ posted
    BY <2>2 DEF PoolInv, PoolTypes, BatchInv
  <2>4. SliceOf(w, items) \in SUBSET Int
    BY SliceInBatch DEF PoolInv, PoolTypes
  <2>5. PoolTypes'
    BY <1>1, <2>1, <2>3, <2>4 DEF PoolInv, PoolTypes, Active, Idle
  <2>6. WorkersInv'
    BY <1>1, <2>1, <2>3 DEF PoolInv, WorkersInv, PoolTypes, Active
  <2>7. Counted' = Counted
    BY <1>1, <2>1, <2>2 DEF PoolInv, PoolTypes, Counted
  <2>8. \A v \in Worker : Ran(v)' <=> Ran(v)
    BY <1>1, <1>2, <2>1 DEF PoolInv, PoolTypes, Ran
  <2>9. BatchInv'
    BY <1>1, <2>3, <2>7, <2>8 DEF PoolInv, BatchInv, Active, Idle
  <2> QED BY <2>5, <2>6, <2>9 DEF PoolInv
<1>3. CASE ~(epoch > seen[w])
  <2>1. /\ at' = [at EXCEPT ![w] = IF stop THEN "gone" ELSE "asleep"]
        /\ UNCHANGED <<seen, slice>>
    BY <1>3 DEF Look
  <2>2. PoolTypes'
    BY <1>1, <2>1 DEF PoolInv, PoolTypes, Active, Idle
  <2>3. \A v \in Worker : \A s \in {"run", "count"} : at'[v] = s <=> at[v] = s
    BY <1>1, <2>1 DEF PoolInv, PoolTypes
  <2>4. WorkersInv'
    BY <1>1, <2>1, <2>3 DEF PoolInv, WorkersInv, Active
  <2>5. Counted' = Counted /\ \A v \in Worker : Ran(v)' <=> Ran(v)
    BY <1>1, <2>1, <2>3 DEF Counted, Ran
  <2>6. BatchInv'
    BY <1>1, <2>5 DEF PoolInv, BatchInv, Active, Idle
  <2> QED BY <2>2, <2>4, <2>6 DEF PoolInv
<1> QED BY <1>2, <1>3

\* A worker computes its slice, which is nobody else's.
LEMMA RunKeeps ==
  ASSUME PoolInv, NEW w \in Worker, Run(w)
  PROVE  PoolInv'
<1>1. /\ UNCHANGED <<epoch, done, items, posted, stop, seen, slice, main>>
      /\ at[w] = "run" /\ at' = [at EXCEPT ![w] = "count"]
  BY DEF Run
<1>2. Active /\ ~Idle /\ seen[w] = epoch /\ slice[w] = SliceOf(w, items)
  BY <1>1 DEF PoolInv, WorkersInv, Active, Idle
<1>3. runs' = [i \in DOMAIN runs |-> runs[i] + IF i \in SliceOf(w, items) THEN 1 ELSE 0]
  BY <1>2 DEF Run
<1>4. PoolTypes'
  BY <1>1, <1>3 DEF PoolInv, PoolTypes, Active, Idle
<1>5. WorkersInv'
  BY <1>1, <1>2 DEF PoolInv, WorkersInv, PoolTypes, Active
<1>6. Counted' = Counted
  BY <1>1 DEF PoolInv, PoolTypes, Counted
<1>7. ASSUME NEW v \in Worker, NEW i \in SliceOf(v, items)
      PROVE  runs'[i] = IF Ran(v)' THEN 1 ELSE 0
  <2>1. i \in DOMAIN runs /\ items \in Nat
    BY SliceInBatch DEF PoolInv, PoolTypes
  <2>2. runs[i] = IF Ran(v) THEN 1 ELSE 0
    BY <1>2 DEF PoolInv, BatchInv
  <2>3. CASE v = w
    BY <1>1, <1>2, <1>3, <2>1, <2>2, <2>3 DEF Ran, PoolInv, PoolTypes
  <2>4. CASE v # w
    <3>1. i \notin SliceOf(w, items)
      BY <2>1, <2>4, SlicesDisjoint
    <3>2. Ran(v)' <=> Ran(v)
      BY <1>1, <2>4 DEF Ran, PoolInv, PoolTypes
    <3> QED BY <1>3, <2>1, <2>2, <3>1, <3>2
  <2> QED BY <2>3, <2>4
<1>8. BatchInv'
  <2>1. ~Idle' /\ items' = items /\ posted' = posted /\ done' = done
    BY <1>1, <1>2 DEF Idle
  <2>2. \A v \in Worker : \A i \in SliceOf(v, items') : runs'[i] = IF Ran(v)' THEN 1 ELSE 0
    BY <1>7, <2>1
  <2>3. posted /\ done = Cardinality(Counted)
    BY <1>2 DEF PoolInv, BatchInv
  <2> QED BY <1>6, <2>1, <2>2, <2>3 DEF BatchInv
<1> QED BY <1>4, <1>5, <1>8 DEF PoolInv

\* A worker counts itself.
LEMMA CountDoneKeeps ==
  ASSUME PoolInv, NEW w \in Worker, CountDone(w)
  PROVE  PoolInv'
<1>1. /\ UNCHANGED <<epoch, items, posted, stop, seen, slice, main, runs>>
      /\ at[w] = "count" /\ done' = done + 1
  BY DEF CountDone
<1>2. Active /\ ~Idle /\ seen[w] = epoch
  BY <1>1 DEF PoolInv, WorkersInv, Active, Idle
<1>3. PICK s \in {"ring", "look"} : at' = [at EXCEPT ![w] = s]
  BY DEF CountDone
<1>4. PoolTypes'
  BY <1>1, <1>3 DEF PoolInv, PoolTypes, Active, Idle
<1>5. WorkersInv'
  BY <1>1, <1>3 DEF PoolInv, WorkersInv, PoolTypes, Active
<1>6. w \notin Counted /\ Counted' = Counted \cup {w}
  BY <1>1, <1>2, <1>3 DEF PoolInv, PoolTypes, Counted
<1>7. Cardinality(Counted') = Cardinality(Counted) + 1
  BY <1>6, CountedFinite, FS_AddElement
<1>8. \A v \in Worker : Ran(v)' <=> Ran(v)
  BY <1>1, <1>3 DEF PoolInv, PoolTypes, Ran
<1>9. BatchInv'
  BY <1>1, <1>2, <1>7, <1>8 DEF PoolInv, BatchInv, Active, Idle
<1> QED BY <1>4, <1>5, <1>9 DEF PoolInv

\* What else happens leaves the batch alone: the main thread moves on within an
\* epoch, and threads that do not compute change places.
LEMMA QuietKeeps ==
  ASSUME PoolInv, UNCHANGED <<epoch, done, items, posted, seen, slice, runs>>,
         stop' \in BOOLEAN, Active' <=> Active, Idle' <=> Idle,
         at' \in [Worker -> {"look", "asleep", "run", "count", "ring", "gone"}],
         \A w \in Worker : \A s \in {"run", "count"} : at'[w] = s <=> at[w] = s
  PROVE  PoolInv'
<1>1. PoolTypes'
  BY DEF PoolInv, PoolTypes
<1>2. WorkersInv'
  BY DEF PoolInv, WorkersInv
<1>3. Counted' = Counted /\ \A w \in Worker : Ran(w)' <=> Ran(w)
  BY DEF Counted, Ran
<1>4. BatchInv'
  BY <1>3 DEF PoolInv, BatchInv
<1> QED BY <1>1, <1>2, <1>4 DEF PoolInv

\* The pool is started again: every worker has seen epoch 0.
LEMMA RestartKeeps ==
  ASSUME PoolInv, RestartPool
  PROVE  PoolInv'
<1>1. PoolTypes'
  BY DEF RestartPool, PoolInv, PoolTypes, Idle
<1>2. Idle /\ Idle' /\ ~Active'
  BY DEF RestartPool, Idle, Active
<1>3. WorkersInv'
  BY DEF RestartPool, WorkersInv
<1>4. BatchInv'
  BY <1>2 DEF RestartPool, PoolInv, BatchInv, Counted
<1> QED BY <1>1, <1>3, <1>4 DEF PoolInv

-----------------------------------------------------------------------------
LEMMA PoolStepKeeps == PoolInv /\ [PoolNext]_poolVars => PoolInv'
<1> SUFFICES ASSUME PoolInv, [PoolNext]_poolVars PROVE PoolInv'
  OBVIOUS
<1> USE DEF Active, Idle
<1>1. CASE \E n \in Nat \ {0} : Post(n)
  BY <1>1, PostKeeps
<1>2. CASE NotifyWorkers
  BY <1>2, QuietKeeps DEF NotifyWorkers, WakeWorkers, PoolInv, PoolTypes
<1>3. CASE TestDone
  BY <1>3, TestDoneKeeps
<1>4. CASE SleepUntilDone \/ SpuriousWake \/ Return
  BY <1>4, QuietKeeps DEF SleepUntilDone, SpuriousWake, Return, PoolInv, PoolTypes
<1>5. CASE StopPool
  BY <1>5, QuietKeeps DEF StopPool, WakeWorkers, PoolInv, PoolTypes
<1>6. CASE RestartPool
  BY <1>6, RestartKeeps
<1>7. ASSUME NEW w \in Worker, WorkerStep(w) PROVE PoolInv'
  <2>1. CASE Ring(w)
    BY <2>1, QuietKeeps DEF Ring, PoolInv, PoolTypes
  <2> QED BY <1>7, <2>1, LookKeeps, RunKeeps, CountDoneKeeps DEF WorkerStep
<1>8. CASE UNCHANGED poolVars
  BY <1>8, QuietKeeps DEF poolVars, PoolInv, PoolTypes
<1> QED
  BY <1>1, <1>2, <1>3, <1>4, <1>5, <1>6, <1>7, <1>8 DEF PoolNext, Main

(* pool_parallel_for returns a finished batch: each item has been computed *)
(* once, by the worker whose slice it is in, and no worker will write into *)
(* the caller's buffers any more (uwb_rational_resampler_core.h, the epoch *)
(* protocol).                                                              *)
THEOREM BatchesComplete == PoolSpec => []BatchComplete
<1>1. PoolInv => BatchComplete
  BY DEF PoolInv, BatchInv, Idle, Counted, BatchComplete
<1> QED BY <1>1, PoolInitial, PoolStepKeeps, PTL DEF PoolSpec

(***************************************************************************)
(* The resampler.                                                          *)
(***************************************************************************)
Pos(m) == (m * M) \div L
Arm(m) == (m * M) % L

LEMMA Ratio == /\ L \in Nat \ {0} /\ M \in Nat \ {0} /\ M <= L
               /\ H \in Nat \ {0} /\ Past \in Nat /\ Past + 1 = H
<1>1. L \in Nat \ {0} /\ M \in Nat \ {0} /\ M <= L /\ T \in Nat \ {0}
  BY RatioAssumption
<1>2. H \in Nat \ {0}
  <2>1. T + L - 1 \in Nat /\ T + L - 1 >= L
    BY <1>1
  <2>2. /\ H \in Nat /\ T + L - 1 < L * H + L
    BY <1>1, <2>1, DivBounds DEF H
  <2>3. H = 0 => L * H = 0
    BY <1>1
  <2> QED BY <1>1, <2>1, <2>2, <2>3
<1> QED BY <1>1, <1>2 DEF Past

(* Quotient and remainder are unique.                                      *)
LEMMA Division ==
  ASSUME NEW a \in Int, NEW p \in Int, NEW c \in 0 .. L - 1, a = c + L * p
  PROVE  a \div L = p /\ a % L = c
BY Ratio

LEMMA PosArm ==
  ASSUME NEW m \in Int, NEW p \in Int, NEW c \in 0 .. L - 1, c + L * p = M * m
  PROVE  Pos(m) = p /\ Arm(m) = c
<1>1. m * M = M * m /\ m * M \in Int
  BY Ratio
<1> QED BY <1>1, Division DEF Pos, Arm

LEMMA PosArmOf ==
  ASSUME NEW m \in Nat
  PROVE  /\ Pos(m) \in Nat /\ Arm(m) \in 0 .. L - 1
         /\ Arm(m) + L * Pos(m) = M * m
<1>1. m * M \in Nat /\ m * M = M * m
  BY Ratio
<1>2. (m * M) \div L \in Nat /\ (m * M) % L \in 0 .. L - 1
  BY <1>1, Ratio, DivBounds
<1>3. ((m * M) % L) + L * ((m * M) \div L) = m * M
  BY <1>1, Ratio
<1> QED BY <1>1, <1>2, <1>3 DEF Pos, Arm

(* One output further.                                                     *)
LEMMA Further ==
  ASSUME NEW m \in Int, NEW p \in Int, NEW c \in 0 .. L - 1, c + L * p = M * m
  PROVE  /\ c + M >= L => c + M - L \in 0 .. M - 1 /\ (c + M - L) + L * (p + 1) = M * (m + 1)
         /\ ~(c + M >= L) => c + M \in 0 .. L - 1 /\ (c + M) + L * p = M * (m + 1)
<1>1. M * (m + 1) = M * m + M /\ L * (p + 1) = L * p + L /\ M * m \in Int /\ L * p \in Int
  BY Ratio
<1> QED BY <1>1, Ratio

(* Earlier outputs end earlier.                                            *)
LEMMA Earlier ==
  ASSUME NEW m \in Nat, NEW k \in Nat, k < m,
         NEW p \in Int, NEW c \in 0 .. L - 1, c + L * p = M * m
  PROVE  Pos(k) <= p /\ (c < M => Pos(k) < p)
<1>1. Pos(k) \in Nat /\ Arm(k) \in 0 .. L - 1 /\ Arm(k) + L * Pos(k) = M * k
  BY PosArmOf
<1>2. M * k + M <= M * m
  <2>1. M * k + M = M * (k + 1) /\ M * (k + 1) <= M * m
    BY Ratio
  <2> QED BY <2>1
<1>3. ASSUME Pos(k) > p PROVE FALSE
  <2>1. L * Pos(k) >= L * p + L
    <3>1. L * p + L = L * (p + 1) /\ L * (p + 1) <= L * Pos(k)
      BY <1>1, <1>3, Ratio
    <3> QED BY <3>1
  <2>2. L * Pos(k) \in Int /\ L * p \in Int /\ M * k \in Int /\ M * m \in Int
    BY <1>1, Ratio
  <2> QED BY <1>1, <1>2, <2>1, <2>2, Ratio
<1>4. ASSUME Pos(k) = p, c < M PROVE FALSE
  <2>1. L * p \in Int /\ M * k \in Int /\ M * m \in Int
    BY Ratio
  <2> QED BY <1>1, <1>2, <1>4, <2>1, Ratio
<1> QED BY <1>1, <1>3, <1>4

(* The outputs of n inputs and the silence that follows them.              *)
LEMMA LengthBound ==
  ASSUME NEW n \in Nat, NEW m \in Nat, T >= L, M * m <= (n - 1) * L + T + M - 1
  PROVE  m <= Length(n) /\ Length(n) \in Nat
<1> DEFINE num == (n - 1) * L + T
<1>1. num \in Nat
  <2>1. (n - 1) * L + L = n * L /\ n * L \in Nat /\ (n - 1) * L \in Int
    BY Ratio
  <2> QED BY <2>1, RatioAssumption
<1> HIDE DEF num
<1>2. M * m <= num + M - 1
  BY DEF num
<1>3. CASE num <= 0
  <2>1. num = 0 /\ Length(n) = 0
    BY <1>1, <1>3 DEF Length, num
  <2>2. m >= 1 => M * m >= M
    BY Ratio
  <2> QED BY <1>2, <2>1, <2>2, Ratio
<1>4. CASE num > 0
  <2> DEFINE len == (num + M - 1) \div M
  <2>1. Length(n) = len
    <3>1. ~(num <= 0)
      BY <1>1, <1>4
    <3> QED BY <3>1 DEF Length, num
  <2>2. num + M - 1 \in Nat
    BY <1>1, <1>4, Ratio
  <2>3. len \in Nat /\ num + M - 1 < M * len + M
    BY <2>2, Ratio, DivBounds
  <2> HIDE DEF len
  <2>4. ASSUME m > len PROVE FALSE
    <3>1. M * m >= M * (len + 1) /\ M * (len + 1) = M * len + M
      BY <2>3, <2>4, Ratio
    <3> QED BY <1>1, <1>2, <2>3, <3>1, Ratio, M * m \in Int, M * len \in Int
  <2> QED BY <2>1, <2>3, <2>4
<1> QED BY <1>1, <1>3, <1>4

-----------------------------------------------------------------------------
(* The invariant.                                                          *)

Sample == Int \cup {Zero}
Output == [arm : Int, window : [1 .. H -> Sample]]

\* Sample j since the last reset, as long as the input lasts, and among n; output m
\* of either.  (All for a stream whose first sample is o.)
S(o, j) == IF j >= 0 THEN o + j ELSE Zero
Sn(o, j, n) == IF j \in 0 .. n - 1 THEN o + j ELSE Zero
Ideal(o, m) == Filtered(Arm(m), [q \in 1 .. H |-> S(o, Pos(m) - H + q)])
Defined(o, m, n) == Filtered(Arm(m), [q \in 1 .. H |-> Sn(o, Pos(m) - H + q, n)])

InProcess == loop \in {"each", "block", "schedule", "last"}
AtRest == loop \in {"idle", "flush"}

CoreTypes ==
  /\ held \in BOOLEAN /\ flushMode \in BOOLEAN
  /\ ctr \in 0 .. L - 1
  /\ taken \in Nat /\ made \in Nat /\ origin \in Nat
  /\ current \in Sample
  /\ hist \in [1 .. Past -> Sample]
  /\ InProcess \/ AtRest
  /\ work \in Seq(Sample)
  /\ post \in Nat /\ room \in Nat
  /\ fresh \in [held : BOOLEAN, ninput : Nat]
  /\ batch \in Seq([arm : Int, post : Int])
  /\ out \in Seq(Output)

\* Between the loops: the phase is made's, the history ends before made's
\* position, and the sample there is the one held, if any; else the input ends
\* right before it.
RestInv == AtRest =>
  /\ ctr = Arm(made)
  /\ hist = [j \in 1 .. Past |-> Sn(origin, Pos(made) - H + j, taken)]
  /\ (IF held THEN current ELSE Zero) = Sn(origin, Pos(made), taken)
  /\ Pos(made) >= taken - 1
  /\ ~flushMode => /\ Pos(made) = IF held THEN taken - 1 ELSE taken
                   /\ ~held => ctr < M
  /\ batch = <<>>
  /\ Len(out) <= made
  /\ \A i \in DOMAIN out : out[i] = Defined(origin, made - Len(out) + i - 1, taken)

\* In process(): Base is the position of the first sample after the history.
Base == IF fresh.held THEN taken - 1 ELSE taken
CallWork ==
  /\ ~flushMode
  /\ Base \in Nat
  /\ Posts = (IF fresh.held THEN 1 ELSE 0) + fresh.ninput
  /\ Posts \in Nat /\ Len(work) = Past + Posts
  /\ work = [j \in 1 .. Len(work) |-> S(origin, Base - H + j)]

\* The next output is computed at post, with arm ctr; ...
CallPos ==
  /\ IF loop = "last" THEN post = Posts /\ ctr < M ELSE post < Posts
  /\ ctr + L * (Base + post) = M * (made + Len(batch))
  /\ Len(batch) <= room
  /\ loop \in {"each", "block"} => batch = <<>>

\* ... the scheduled ones and the ones computed are as they should be.
CallBatch ==
  \A i \in DOMAIN batch :
    /\ batch[i].post \in 0 .. Posts - 1
    /\ batch[i].arm \in 0 .. L - 1
    /\ batch[i].arm + L * (Base + batch[i].post) = M * (made + i - 1)
CallOut ==
  /\ Len(out) <= made
  /\ \A i \in DOMAIN out : out[i] = Ideal(origin, made - Len(out) + i - 1)

CallInv == InProcess => CallWork /\ CallPos /\ CallBatch /\ CallOut

FlushInv ==
  /\ loop = "flush" => flushMode
  /\ flushMode => made <= Length(taken)
  /\ loop = "idle" /\ flushMode /\ room > 0 => made >= Length(taken)

\* The pool is at work only on the batch of a run_mt that waits for it.
LinkInv == main \notin {"free", "join"} => BatchReady /\ items = Len(batch)

Inv == CoreTypes /\ RestInv /\ CallInv /\ FlushInv /\ LinkInv /\ PoolInv

LEMMA IdealTyped ==
  ASSUME NEW o \in Nat, NEW m \in Nat
  PROVE  Ideal(o, m) \in Output
BY PosArmOf, Ratio DEF Ideal, Output, Filtered, S, Sample

LEMMA NothingYet ==
  /\ <<>> \in Seq([arm : Int, post : Int])
  /\ <<>> \in Seq(Output) /\ <<>> \in Seq(Sample)
OBVIOUS

\* What a window of the work buffer gives is the output of its position.
LEMMA WindowIdeal ==
  ASSUME CoreTypes, CallInv, InProcess,
         NEW p \in 0 .. Posts - 1, NEW c \in 0 .. L - 1, NEW m \in Nat,
         c + L * (Base + p) = M * m
  PROVE  Filtered(c, Window(p)) = Ideal(origin, m) /\ Filtered(c, Window(p)) \in Output
<1>1. Base \in Nat /\ Posts \in Nat /\ Len(work) = Past + Posts
      /\ work = [j \in 1 .. Len(work) |-> S(origin, Base - H + j)]
  BY DEF CallInv, CallWork
<1>2. Pos(m) = Base + p /\ Arm(m) = c
  BY <1>1, PosArm
<1>3. \A q \in 1 .. H : p + q \in 1 .. Len(work) /\ Base - H + (p + q) = (Base + p) - H + q
  BY <1>1, Ratio
<1>4. ASSUME NEW q \in 1 .. H PROVE work[p + q] = S(origin, Pos(m) - H + q)
  <2>1. work[p + q] = S(origin, Base - H + (p + q))
    BY <1>1, <1>3
  <2> QED BY <1>2, <1>3, <2>1
<1>5. Window(p) = [q \in 1 .. H |-> S(origin, Pos(m) - H + q)]
  BY <1>4 DEF Window
<1>6. Filtered(c, Window(p)) = Ideal(origin, m)
  BY <1>2, <1>5 DEF Ideal
<1> QED BY <1>6, IdealTyped DEF CoreTypes

\* An output that ends within the input is the definition's.
LEMMA IdealIsUpfirdn ==
  ASSUME NEW o, NEW m \in Nat, NEW n \in Nat, Pos(m) < n
  PROVE  Ideal(o, m) = Defined(o, m, n)
<1>1. Pos(m) \in Nat
  BY PosArmOf
<1>2. \A q \in 1 .. H : Pos(m) - H + q \in Int /\ Pos(m) - H + q <= n - 1
  BY <1>1, Ratio
<1>3. \A q \in 1 .. H : S(o, Pos(m) - H + q) = Sn(o, Pos(m) - H + q, n)
  BY <1>2 DEF S, Sn
<1> QED BY <1>3 DEF Ideal, Defined

\* process() never runs ahead of the length of its output.
LEMMA NotAhead ==
  ASSUME CoreTypes, RestInv, AtRest, ~flushMode, T >= L
  PROVE  made <= Length(taken)
<1>1. ctr + L * Pos(made) = M * made /\ made \in Nat /\ taken \in Nat
  BY PosArmOf DEF CoreTypes, RestInv
<1>2. CASE held
  <2>1. Pos(made) = taken - 1
    BY <1>2 DEF RestInv
  <2>2. M * made <= (taken - 1) * L + T + M - 1
    <3>1. L * (taken - 1) = (taken - 1) * L /\ L * (taken - 1) \in Int
      BY <1>1, Ratio
    <3> QED BY <1>1, <2>1, <3>1, Ratio, RatioAssumption DEF CoreTypes
  <2> QED BY <1>1, <2>2, LengthBound
<1>3. CASE ~held
  <2>1. Pos(made) = taken /\ ctr < M
    BY <1>3 DEF RestInv
  <2>2. M * made <= (taken - 1) * L + T + M - 1
    <3>1. L * taken = (taken - 1) * L + L /\ (taken - 1) * L \in Int
      BY <1>1, Ratio
    <3> QED BY <1>1, <2>1, <3>1, Ratio, RatioAssumption DEF CoreTypes
  <2> QED BY <1>1, <2>2, LengthBound
<1> QED BY <1>2, <1>3 DEF CoreTypes

LEMMA InvImplies == T >= L /\ Inv => OutputsAreUpfirdn
<1> SUFFICES ASSUME T >= L, Inv, loop = "idle"
             PROVE  /\ \A i \in 1 .. Len(out) :
                          out[i] = Upfirdn(made - Len(out) + i - 1, taken)
                    /\ made <= Length(taken)
                    /\ flushMode /\ room > 0 => made = Length(taken)
  BY DEF OutputsAreUpfirdn
<1>1. AtRest /\ CoreTypes /\ RestInv
  BY DEF AtRest, Inv
<1>2. \A i \in 1 .. Len(out) : out[i] = Upfirdn(made - Len(out) + i - 1, taken)
  <2>1. DOMAIN out = 1 .. Len(out)
    BY <1>1 DEF CoreTypes
  <2>2. \A m : Defined(origin, m, taken) = Upfirdn(m, taken)
    BY DEF Defined, Upfirdn, Sn, SampleAt, Pos, Arm
  <2> QED BY <1>1, <2>1, <2>2 DEF RestInv
<1>3. made <= Length(taken)
  BY <1>1, NotAhead DEF Inv, FlushInv
<1>4. Length(taken) \in Int /\ made \in Nat
  BY <1>1, Ratio, RatioAssumption DEF Length, CoreTypes
<1> QED BY <1>2, <1>3, <1>4 DEF Inv, FlushInv

-----------------------------------------------------------------------------
(* The two ways process() returns.                                         *)

\* All input used: what is left is the history, and made's position follows it.
LEMMA ExhaustedRest ==
  ASSUME CoreTypes, CallInv, InProcess,
         NEW total \in Nat, ReturnExhausted(total), origin' = origin, batch' = <<>>,
         ctr' \in 0 .. M - 1, ctr' + L * (Base + Posts) = M * total,
         out' \in Seq(Output), Len(out') <= total,
         \A i \in DOMAIN out' : out'[i] = Ideal(origin, total - Len(out') + i - 1)
  PROVE  RestInv' /\ hist' \in [1 .. Past -> Sample] /\ taken' \in Nat
<1>1. /\ Base \in Nat /\ Posts \in Nat /\ Len(work) = Past + Posts
      /\ work = [j \in 1 .. Len(work) |-> S(origin, Base - H + j)]
      /\ Posts = (IF fresh.held THEN 1 ELSE 0) + fresh.ninput
  BY DEF CallInv, CallWork
<1>2. taken' = Base + Posts /\ taken' \in Nat
  BY <1>1, SMTT(30) DEF ReturnExhausted, Base, CoreTypes
<1>3. made' = total /\ held' = FALSE
  BY DEF ReturnExhausted
<1>4. Pos(made') = taken' /\ Arm(made') = ctr'
      /\ ctr' \in 0 .. L - 1 /\ ctr' + L * taken' = M * total
  <2>1. ctr' \in 0 .. L - 1 /\ ctr' + L * taken' = M * total
    BY <1>2, Ratio
  <2> QED BY <1>2, <1>3, <2>1, PosArm
<1>5. \A j \in 1 .. Past : S(origin, taken' - H + j) = Sn(origin, taken' - H + j, taken')
  BY <1>2, Ratio, SMTT(30) DEF S, Sn
<1>6. hist' = [j \in 1 .. Past |-> S(origin, taken' - H + j)]
  <2>1. \A j \in 1 .. Past : work[Len(work) - Past + j] = work[Posts + j]
    BY DEF Posts
  <2>2. \A j \in 1 .. Past : /\ Posts + j \in 1 .. Len(work)
                             /\ Base - H + (Posts + j) = taken' - H + j
    <3>1. /\ Base \in Int /\ Posts \in Nat /\ H \in Int /\ Past \in Nat
          /\ taken' = Base + Posts /\ Len(work) = Past + Posts
      BY <1>1, <1>2, Ratio
    <3> QED BY <3>1
  <2>3. \A j \in 1 .. Past : work[Len(work) - Past + j] = S(origin, taken' - H + j)
    <3> SUFFICES ASSUME NEW j \in 1 .. Past
                 PROVE  work[Posts + j] = S(origin, taken' - H + j)
      BY <2>1
    <3>1. work[Posts + j] = S(origin, Base - H + (Posts + j))
      BY <1>1, <2>2
    <3> QED BY <2>2, <3>1
  <2> QED BY <2>3 DEF ReturnExhausted
<1>7. hist' = [j \in 1 .. Past |-> Sn(origin, taken' - H + j, taken')]
  BY <1>5, <1>6
<1>8. Sn(origin, taken', taken') = Zero
  BY <1>2 DEF Sn
<1>9. \A i \in DOMAIN out' : out'[i] = Defined(origin, total - Len(out') + i - 1, taken')
  <2> SUFFICES ASSUME NEW i \in DOMAIN out'
               PROVE  out'[i] = Defined(origin, total - Len(out') + i - 1, taken')
    OBVIOUS
  <2>1. i \in 1 .. Len(out') /\ Len(out') \in Nat
    OBVIOUS
  <2> DEFINE k == total - Len(out') + i - 1
  <2>2. k \in Nat /\ k < total
    BY <2>1
  <2>3. Pos(k) < taken'
    <3> HIDE DEF k
    <3>1. ctr' < M /\ ctr' \in 0 .. L - 1 /\ ctr' + L * taken' = M * total /\ taken' \in Int
      BY <1>2, <1>4, Ratio
    <3> QED BY <2>2, <3>1, Earlier
  <2> QED BY <1>2, <2>2, <2>3, IdealIsUpfirdn
<1>10. hist' \in [1 .. Past -> Sample]
  <2>1. \A j \in Int : S(origin, j) \in Sample
    BY DEF S, Sample, CoreTypes
  <2>2. \A j \in 1 .. Past : taken' - H + j \in Int
    BY <1>2, Ratio
  <2> QED BY <1>6, <2>1, <2>2
<1> QED BY <1>2, <1>3, <1>4, <1>7, <1>8, <1>9, <1>10, Ratio DEF RestInv

\* The output is full: the sample at made's position is held.
LEMMA FullRest ==
  ASSUME CoreTypes, CallInv, InProcess, post < Posts,
         ReturnFull, origin' = origin, batch' = <<>>, ctr' = ctr,
         made' \in Nat, ctr + L * (Base + post) = M * made',
         out' \in Seq(Output), Len(out') <= made',
         \A i \in DOMAIN out' : out'[i] = Ideal(origin, made' - Len(out') + i - 1)
  PROVE  /\ RestInv' /\ hist' \in [1 .. Past -> Sample] /\ taken' \in Nat
         /\ current' \in Sample
<1>1. /\ Base \in Nat /\ Posts \in Nat /\ Len(work) = Past + Posts
      /\ work = [j \in 1 .. Len(work) |-> S(origin, Base - H + j)] /\ post \in Nat
      /\ ctr \in 0 .. L - 1
  BY DEF CallInv, CallWork, CoreTypes
<1> DEFINE p == Base + post
<1>2. p \in Nat /\ taken' = p + 1
  BY <1>1 DEF ReturnFull, Base, CoreTypes
<1>3. Pos(made') = p /\ Arm(made') = ctr'
  BY <1>1, <1>2, PosArm
<1>4. \A j \in 1 .. H : S(origin, p - H + j) = Sn(origin, p - H + j, taken')
  BY <1>2, Ratio DEF S, Sn
<1>5. \A j \in 1 .. H : work[post + j] = S(origin, p - H + j)
  <2>1. \A j \in 1 .. H : post + j \in 1 .. Len(work) /\ Base - H + (post + j) = p - H + j
    BY <1>1, Ratio
  <2> QED BY <1>1, <2>1
<1>6. hist' = [j \in 1 .. Past |-> Sn(origin, p - H + j, taken')]
  <2>1. 1 .. Past \subseteq 1 .. H
    BY Ratio
  <2>2. hist' = [j \in 1 .. Past |-> work[post + j]]
    BY DEF ReturnFull
  <2> QED BY <1>4, <1>5, <2>1, <2>2
<1>7. current' = Sn(origin, p, taken') /\ held' = TRUE
  <2>1. H \in 1 .. H /\ Past + post + 1 = post + H /\ p - H + H = p
    BY <1>1, <1>2, Ratio
  <2>2. current' = work[post + H]
    BY <2>1 DEF ReturnFull
  <2>3. current' = Sn(origin, p - H + H, taken')
    BY <1>4, <1>5, <2>1, <2>2
  <2> QED BY <2>1, <2>3 DEF ReturnFull
<1>8. \A j \in Int : Sn(origin, j, taken') \in Sample
  BY <1>2 DEF Sn, Sample, CoreTypes
<1>9. \A i \in DOMAIN out' : out'[i] = Defined(origin, made' - Len(out') + i - 1, taken')
  <2> SUFFICES ASSUME NEW i \in DOMAIN out'
               PROVE  out'[i] = Defined(origin, made' - Len(out') + i - 1, taken')
    OBVIOUS
  <2>1. i \in 1 .. Len(out') /\ Len(out') \in Nat
    OBVIOUS
  <2> DEFINE k == made' - Len(out') + i - 1
  <2>2. k \in Nat /\ k < made'
    BY <2>1
  <2>3. Pos(k) < taken'
    <3>1. Pos(k) <= p
      <4> HIDE DEF k
      <4> QED BY <1>1, <1>2, <2>2, Earlier
    <3>2. Pos(k) \in Nat
      BY <2>2, PosArmOf
    <3> QED BY <1>2, <3>1, <3>2
  <2> QED BY <1>2, <2>2, <2>3, IdealIsUpfirdn
<1>10. hist' \in [1 .. Past -> Sample] /\ current' \in Sample
  <2>1. \A j \in 1 .. Past : p - H + j \in Int
    BY <1>2, Ratio
  <2> QED BY <1>2, <1>6, <1>7, <1>8, <2>1
<1> HIDE DEF p
<1> QED BY <1>2, <1>3, <1>6, <1>7, <1>9, <1>10 DEF RestInv

-----------------------------------------------------------------------------
(* One lemma for each step.                                                *)

LEMMA PoolAside ==
  ASSUME PoolInv, main \in {"free", "join"}, UNCHANGED poolVars
  PROVE  PoolInv' /\ LinkInv'
BY PoolStepKeeps DEF poolVars, LinkInv

\* A call begins: the work buffer is the history, the sample held and the input.
LEMMA ProcessKeeps ==
  ASSUME Inv, NEW n \in Nat, NEW space \in Nat, Process(n, space)
  PROVE  Inv'
<1> DEFINE h == IF held THEN 1 ELSE 0
           lead == Past + h
<1>1. /\ loop = "idle" /\ main = "free" /\ ~flushMode /\ n + h > 0 /\ h \in 0 .. 1
      /\ UNCHANGED <<hist, ctr, taken, made, flushMode, origin, poolVars>>
  BY DEF Process, Inv, CoreTypes
<1>2. /\ CoreTypes /\ RestInv /\ AtRest
  BY <1>1 DEF Inv, AtRest
<1>3. /\ Past \in Nat /\ H = Past + 1 /\ taken \in Nat /\ made \in Nat /\ origin \in Nat
      /\ held \in BOOLEAN
  BY <1>2, Ratio DEF CoreTypes
<1>4. /\ Pos(made) = taken - h /\ Pos(made) \in Nat
      /\ ctr = Arm(made) /\ ctr \in 0 .. L - 1 /\ ctr + L * Pos(made) = M * made
      /\ hist = [j \in 1 .. Past |-> Sn(origin, Pos(made) - H + j, taken)]
      /\ held => current = Sn(origin, Pos(made), taken)
  BY <1>1, <1>2, <1>3, PosArmOf DEF RestInv
<1>5. /\ loop' \in {"each", "block", "schedule"} /\ post' = 0 /\ room' = space
      /\ out' = <<>> /\ batch' = <<>> /\ held' = TRUE /\ current' = work'[Past + 1]
      /\ fresh' = [held |-> held, ninput |-> n]
  BY DEF Process, Loops
<1>6. work' = [j \in 1 .. lead + n |->
                 IF j <= Past THEN hist[j] ELSE IF j <= lead THEN current
                 ELSE origin + taken + (j - lead - 1)]
  BY DEF Process
<1>7. Base' = Pos(made) /\ Base' \in Nat
  BY <1>1, <1>3, <1>4, <1>5 DEF Base
<1>8. ASSUME NEW j \in 1 .. lead + n
      PROVE  /\ work'[j] = S(origin, Pos(made) - H + j)
             /\ S(origin, Pos(made) - H + j) \in Sample
  <2>1. CASE j <= Past
    <3>1. j \in 1 .. Past /\ Pos(made) - H + j \in Int /\ Pos(made) - H + j <= taken - 1
      BY <1>1, <1>3, <1>4, <2>1
    <3>2. work'[j] = Sn(origin, Pos(made) - H + j, taken)
      BY <1>4, <1>6, <2>1, <3>1
    <3> HIDE DEF lead
    <3> QED BY <1>3, <3>1, <3>2 DEF S, Sn, Sample
  <2>2. CASE j > Past /\ j <= lead
    <3>1. j = H /\ held /\ Pos(made) - H + j = Pos(made) /\ Pos(made) \in 0 .. taken - 1
      BY <1>1, <1>3, <1>4, <2>2
    <3>2. work'[j] = current
      BY <1>3, <1>6, <2>2
    <3> HIDE DEF lead
    <3> QED BY <1>3, <1>4, <3>1, <3>2 DEF S, Sn, Sample
  <2>3. CASE j > lead
    <3>1. Pos(made) - H + j = taken + (j - lead - 1) /\ taken + (j - lead - 1) \in Nat
      BY <1>1, <1>3, <1>4, <2>3
    <3>2. work'[j] = origin + taken + (j - lead - 1)
      BY <1>1, <1>3, <1>6, <2>3
    <3> QED BY <1>1, <1>3, <3>1, <3>2 DEF S, Sample
  <2> QED BY <1>1, <1>3, <2>1, <2>2, <2>3
<1>9. /\ work' \in Seq(Sample) /\ Len(work') = lead + n
      /\ work' = [j \in 1 .. Len(work') |-> S(origin, Pos(made) - H + j)]
  <2>1. lead + n \in Nat
    BY <1>1, <1>3
  <2>2. work' = [j \in 1 .. lead + n |-> S(origin, Pos(made) - H + j)]
    BY <1>6, <1>8
  <2>3. \A j \in 1 .. lead + n : S(origin, Pos(made) - H + j) \in Sample
    BY <1>8
  <2> HIDE DEF lead
  <2> QED BY <2>1, <2>2, <2>3
<1>10. Posts' = h + n /\ Posts' \in Nat /\ Posts' > 0 /\ Len(work') = Past + Posts'
  BY <1>1, <1>3, <1>9 DEF Posts
<1>11. current' \in Sample
  <2>1. Past + 1 \in 1 .. lead + n
    BY <1>1, <1>3
  <2> HIDE DEF lead
  <2> QED BY <1>5, <1>8, <2>1
<1>12. InProcess' /\ ~AtRest' /\ loop' # "last"
  BY <1>5 DEF InProcess, AtRest
<1>13. CoreTypes'
  BY <1>1, <1>2, <1>5, <1>9, <1>11, <1>12 DEF CoreTypes
<1>14. CallInv'
  <2>1. CallWork'
    <3>1. Posts' = (IF fresh'.held THEN 1 ELSE 0) + fresh'.ninput
      BY <1>5, <1>10
    <3>2. work' = [j \in 1 .. Len(work') |-> S(origin', Base' - H + j)]
      BY <1>1, <1>7, <1>9
    <3> HIDE DEF h, lead
    <3> QED BY <1>1, <1>7, <1>10, <3>1, <3>2 DEF CallWork
  <2>2. CallPos'
    <3>1. ctr' + L * (Base' + post') = M * (made' + Len(batch'))
      BY <1>1, <1>3, <1>4, <1>5, <1>7
    <3> HIDE DEF h, lead
    <3> QED BY <1>5, <1>10, <1>12, <3>1 DEF CallPos
  <2>3. CallBatch' /\ CallOut'
    BY <1>1, <1>3, <1>5 DEF CallBatch, CallOut
  <2> QED BY <2>1, <2>2, <2>3 DEF CallInv
<1>15. FlushInv'
  BY <1>1, <1>5 DEF FlushInv
<1>16. PoolInv' /\ LinkInv'
  BY <1>1, PoolAside DEF Inv
<1> QED BY <1>12, <1>13, <1>14, <1>15, <1>16 DEF Inv, RestInv


\* While the pool has no batch in hand, the steps of the call are the caller's alone.
LEMMA NotReady ==
  ASSUME Inv, ~BatchReady
  PROVE  main \in {"free", "join"} /\ PoolInv
BY DEF Inv, LinkInv

\* ctr_ and post_i after one output are the division of the next position.
LEMMA AdvanceOne ==
  ASSUME CoreTypes, CallWork, NEW m \in Nat, ctr + L * (Base + post) = M * m,
         post < Posts, Advance
  PROVE  /\ ctr' \in 0 .. L - 1 /\ post' \in Nat
         /\ ctr' + L * (Base + post') = M * (m + 1)
         /\ Exhausted => post' = Posts /\ ctr' \in 0 .. M - 1
         /\ ~Exhausted => post' < Posts
<1>1. Base \in Nat /\ Posts \in Nat /\ post \in Nat /\ ctr \in 0 .. L - 1
  BY DEF CoreTypes, CallWork
<1> DEFINE p == Base + post
<1>2. p \in Nat /\ ctr + L * p = M * m
  BY <1>1
<1>3. /\ ctr + M >= L => /\ ctr + M - L \in 0 .. M - 1
                         /\ (ctr + M - L) + L * (p + 1) = M * (m + 1)
      /\ ~(ctr + M >= L) => /\ ctr + M \in 0 .. L - 1
                            /\ (ctr + M) + L * p = M * (m + 1)
  <2> HIDE DEF p
  <2> QED BY <1>1, <1>2, Further
<1>4. CASE Wraps
  <2>1. ctr' = ctr + M - L /\ post' = post + 1 /\ Base + post' = p + 1
    BY <1>1, <1>4 DEF Advance
  <2> HIDE DEF p
  <2> QED BY <1>1, <1>3, <1>4, <2>1, Ratio DEF Wraps, Exhausted
<1>5. CASE ~Wraps
  <2>1. ctr' = ctr + M /\ post' = post /\ Base + post' = p
    BY <1>1, <1>5 DEF Advance
  <2> HIDE DEF p
  <2> QED BY <1>1, <1>3, <1>5, <2>1, Ratio DEF Wraps, Exhausted
<1> QED BY <1>4, <1>5

\* Outputs that are appended in order.
LEMMA OutGrows ==
  ASSUME CoreTypes, CallOut, NEW rs \in Seq(Output), out' = out \o rs,
         \A i \in 1 .. Len(rs) : rs[i] = Ideal(origin, made + i - 1)
  PROVE  /\ out' \in Seq(Output) /\ Len(out') = Len(out) + Len(rs)
         /\ Len(out') <= made + Len(rs)
         /\ \A i \in DOMAIN out' :
               out'[i] = Ideal(origin, (made + Len(rs)) - Len(out') + i - 1)
<1>1. /\ out \in Seq(Output) /\ made \in Nat /\ Len(out) \in Nat /\ Len(rs) \in Nat
      /\ Len(out) <= made
      /\ \A i \in 1 .. Len(out) : out[i] = Ideal(origin, made - Len(out) + i - 1)
  BY DEF CoreTypes, CallOut
<1>2. out' \in Seq(Output) /\ Len(out') = Len(out) + Len(rs)
  BY <1>1
<1>3. ASSUME NEW i \in 1 .. Len(out')
      PROVE  out'[i] = Ideal(origin, (made + Len(rs)) - Len(out') + i - 1)
  <2>1. (made + Len(rs)) - Len(out') + i - 1 = made - Len(out) + i - 1
    BY <1>1, <1>2
  <2>2. CASE i <= Len(out)
    <3>1. i \in 1 .. Len(out) /\ out'[i] = out[i]
      BY <1>1, <1>2, <2>2
    <3> QED BY <1>1, <2>1, <3>1
  <2>3. CASE i > Len(out)
    <3>1. i - Len(out) \in 1 .. Len(rs) /\ out'[i] = rs[i - Len(out)]
      BY <1>1, <1>2, <2>3
    <3>2. made + (i - Len(out)) - 1 = made - Len(out) + i - 1
      BY <1>1, <1>2
    <3> QED BY <2>1, <3>1, <3>2
  <2> QED BY <1>1, <1>2, <2>2, <2>3
<1> QED BY <1>1, <1>2, <1>3

LEMMA OneOutputKeeps ==
  ASSUME Inv, OneOutput
  PROVE  Inv'
<1> DEFINE F == Filtered(ctr, Window(post))
<1>1. /\ loop = "each" /\ room > 0 /\ out' = Append(out, F) /\ room' = room - 1
      /\ Advance
      /\ UNCHANGED <<flushMode, origin, work, fresh, batch, poolVars>>
  BY DEF OneOutput
<1>2. CoreTypes /\ InProcess /\ ~AtRest /\ ~BatchReady
  BY <1>1 DEF Inv, InProcess, AtRest, BatchReady
<1>3. CallInv /\ CallWork /\ CallPos /\ CallBatch /\ CallOut
  BY <1>2 DEF Inv, CallInv
<1>4. /\ batch = <<>> /\ post < Posts /\ ctr + L * (Base + post) = M * made
      /\ Base \in Nat /\ Posts \in Nat /\ post \in Nat /\ made \in Nat /\ room \in Nat
      /\ ctr \in 0 .. L - 1
  BY <1>1, <1>2, <1>3 DEF CallPos, CoreTypes, CallWork
<1>5. F = Ideal(origin, made) /\ F \in Output
  <2>1. post \in 0 .. Posts - 1
    BY <1>4
  <2> QED BY <1>2, <1>3, <1>4, <2>1, WindowIdeal
<1>6. /\ out' \in Seq(Output) /\ Len(out') <= made + 1
      /\ \A i \in DOMAIN out' : out'[i] = Ideal(origin, (made + 1) - Len(out') + i - 1)
  <2> HIDE DEF F
  <2>1. <<F>> \in Seq(Output) /\ Len(<<F>>) = 1 /\ <<F>>[1] = F /\ out' = out \o <<F>>
    BY <1>1, <1>2, <1>5 DEF CoreTypes
  <2>2. \A i \in 1 .. Len(<<F>>) : <<F>>[i] = Ideal(origin, made + i - 1)
    BY <1>4, <1>5, <2>1, made + 1 - 1 = made
  <2> QED BY <1>2, <1>3, <2>1, <2>2, OutGrows
<1> HIDE DEF F
<1>7. /\ ctr' \in 0 .. L - 1 /\ post' \in Nat
      /\ ctr' + L * (Base + post') = M * (made + 1)
      /\ Exhausted => post' = Posts /\ ctr' \in 0 .. M - 1
      /\ ~Exhausted => post' < Posts
  BY <1>1, <1>2, <1>3, <1>4, AdvanceOne
<1>8. PoolInv' /\ LinkInv'
  BY <1>1, <1>2, NotReady, PoolAside
<1>9. FlushInv'
  BY <1>1, <1>3 DEF FlushInv, CallWork, OneOutput, ReturnExhausted
<1>10. CASE Exhausted
  <2>1. ReturnExhausted(made + 1)
    BY <1>10 DEF OneOutput
  <2>2. RestInv' /\ hist' \in [1 .. Past -> Sample] /\ taken' \in Nat
    BY <1>1, <1>2, <1>3, <1>4, <1>6, <1>7, <1>10, <2>1, ExhaustedRest, SMTT(30)
  <2>3. /\ made' = made + 1 /\ held' = FALSE /\ loop' = "idle" /\ current' = current
    BY <2>1 DEF ReturnExhausted
  <2>4. CoreTypes'
    <3>1. AtRest'
      BY <2>3 DEF AtRest
    <3>2. room' \in Nat /\ made' \in Nat
      BY <1>1, <1>4, <2>3
    <3> QED BY <1>1, <1>2, <1>6, <1>7, <2>2, <2>3, <3>1, <3>2 DEF CoreTypes
  <2>5. CallInv'
    BY <2>3 DEF CallInv, InProcess
  <2> QED BY <1>8, <1>9, <2>2, <2>4, <2>5 DEF Inv
<1>11. CASE ~Exhausted
  <2>1. made' = made + 1 /\ UNCHANGED <<hist, held, current, taken, loop>>
    BY <1>11 DEF OneOutput
  <2>2. CoreTypes'
    BY <1>1, <1>2, <1>4, <1>6, <1>7, <2>1 DEF CoreTypes, InProcess
  <2>3. Posts' = Posts /\ Base' = Base
    BY <1>1, <2>1 DEF Posts, Base
  <2>4. CallWork'
    BY <1>1, <1>3, <2>3 DEF CallWork
  <2>5. CallPos'
    <3>1. Len(batch') = 0 /\ made' + Len(batch') = made + 1 /\ room' \in Nat
      BY <1>1, <1>4, <2>1
    <3> QED BY <1>1, <1>4, <1>7, <1>11, <2>1, <2>3, <3>1 DEF CallPos
  <2>6. CallBatch' /\ CallOut'
    BY <1>1, <1>4, <1>6, <2>1 DEF CallBatch, CallOut
  <2>7. ~AtRest'
    BY <1>1, <2>1 DEF AtRest
  <2> QED BY <1>8, <1>9, <2>2, <2>4, <2>5, <2>6, <2>7 DEF Inv, CallInv, RestInv
<1> QED BY <1>10, <1>11

LEMMA OutputFullKeeps ==
  ASSUME Inv, OutputFull
  PROVE  Inv'
<1>1. /\ loop = "each" /\ ReturnFull
      /\ UNCHANGED <<ctr, made, flushMode, origin, work, post, fresh, room, batch, out, poolVars>>
  BY DEF OutputFull
<1>2. CoreTypes /\ InProcess /\ ~BatchReady
  BY <1>1 DEF Inv, InProcess, BatchReady
<1>3. CallInv /\ CallWork /\ CallPos /\ CallBatch /\ CallOut
  BY <1>2 DEF Inv, CallInv
<1>4. /\ batch = <<>> /\ post < Posts /\ ctr + L * (Base + post) = M * made
  <2>1. batch = <<>> /\ post < Posts /\ made + 0 = made
    BY <1>1, <1>2, <1>3 DEF CallPos, CoreTypes
  <2> QED BY <1>3, <2>1 DEF CallPos
<1>5. PoolInv' /\ LinkInv'
  BY <1>1, <1>2, NotReady, PoolAside
<1>6. /\ RestInv' /\ hist' \in [1 .. Past -> Sample] /\ taken' \in Nat
      /\ current' \in Sample
  BY <1>1, <1>2, <1>3, <1>4, FullRest DEF CallOut, CoreTypes
<1>7. CoreTypes'
  BY <1>1, <1>2, <1>6 DEF CoreTypes, ReturnFull, AtRest
<1>8. CallInv' /\ FlushInv'
  BY <1>1, <1>3 DEF CallInv, InProcess, FlushInv, CallWork, ReturnFull
<1> QED BY <1>5, <1>6, <1>7, <1>8 DEF Inv


\* Output k of a macro block, from the schedule of the block's first phase.
LEMMA ScheduleArms ==
  ASSUME CoreTypes, CallWork, ctr + L * (Base + post) = M * made,
         NEW k \in 0 .. L - 1
  PROVE  /\ ScheduleArm(ctr, k) \in 0 .. L - 1
         /\ ScheduleAdvance(ctr, k) \in 0 .. M
         /\ ScheduleArm(ctr, k) + L * (Base + (post + ScheduleAdvance(ctr, k)))
              = M * (made + k)
<1> DEFINE a == ctr + k * M
           adv == a \div L
           arm == a % L
<1>1. /\ Base \in Nat /\ post \in Nat /\ ctr \in 0 .. L - 1 /\ made \in Nat
      /\ k \in Nat /\ k * M \in Nat /\ a \in Nat
  <2>1. Base \in Nat /\ post \in Nat /\ ctr \in 0 .. L - 1 /\ made \in Nat
    BY DEF CoreTypes, CallWork
  <2>2. k \in Nat /\ k * M \in Nat
    BY Ratio
  <2> QED BY <2>1, <2>2, Ratio
<1>2. adv \in Nat /\ arm \in 0 .. L - 1 /\ arm + L * adv = a /\ L * adv <= a
  <2> HIDE DEF a
  <2>1. adv \in Nat /\ L * adv <= a
    BY <1>1, Ratio, DivBounds
  <2>2. arm \in 0 .. L - 1 /\ arm + L * adv = a
    BY <1>1, Ratio
  <2> QED BY <2>1, <2>2
<1>3. adv <= M
  <2>1. SUFFICES ASSUME adv >= M + 1 PROVE FALSE
    BY <1>2, Ratio
  <2>2. L * adv >= L * (M + 1)
    <3> HIDE DEF adv
    <3> QED BY <1>2, <2>1, Ratio
  <2>3. k * M <= (L - 1) * M
    BY <1>1, Ratio
  <2>4. L * (M + 1) = L * M + L /\ (L - 1) * M = L * M - M /\ L * M \in Int
    BY Ratio
  <2>5. L * adv \in Int
    BY <1>2, Ratio
  <2>6. a <= L - 1 + (L * M - M)
    BY <1>1, <2>3, <2>4, Ratio
  <2> HIDE DEF adv, a
  <2> QED BY <1>1, <1>2, <2>2, <2>4, <2>5, <2>6, Ratio
<1>4. arm + L * (Base + (post + adv)) = M * (made + k)
  <2>1. L * (Base + (post + adv)) = L * (Base + post) + L * adv
    <3> HIDE DEF adv
    <3> QED BY <1>1, <1>2, Ratio
  <2>2. M * (made + k) = M * made + k * M
    BY <1>1, Ratio
  <2>3. L * (Base + post) \in Int /\ L * adv \in Int /\ M * made \in Int
    BY <1>1, <1>2, Ratio
  <2> HIDE DEF adv, arm
  <2> QED BY <1>1, <1>2, <2>1, <2>2, <2>3
<1> QED BY <1>2, <1>3, <1>4 DEF ScheduleArm, ScheduleAdvance

LEMMA MacroBlockKeeps ==
  ASSUME Inv, MacroBlock
  PROVE  Inv'
<1> DEFINE rs == [o \in 1 .. L |->
                    Filtered(ScheduleArm(ctr, o - 1),
                             Window(post + ScheduleAdvance(ctr, o - 1)))]
           full == room >= L /\ post + M < Posts
<1>1. /\ loop = "block"
      /\ UNCHANGED <<hist, held, current, ctr, taken, flushMode, origin, work, fresh,
                     batch, poolVars>>
  BY DEF MacroBlock
<1>2. CoreTypes /\ InProcess /\ ~BatchReady
  BY <1>1 DEF Inv, InProcess, BatchReady
<1>3. CallInv /\ CallWork /\ CallPos /\ CallBatch /\ CallOut
  BY <1>2 DEF Inv, CallInv
<1>4. /\ batch = <<>> /\ post < Posts /\ ctr + L * (Base + post) = M * made
      /\ Base \in Nat /\ Posts \in Nat /\ post \in Nat /\ made \in Nat /\ room \in Nat
      /\ ctr \in 0 .. L - 1
  BY <1>1, <1>2, <1>3 DEF CallPos, CoreTypes, CallWork
<1>5. PoolInv' /\ LinkInv'
  BY <1>1, <1>2, NotReady, PoolAside
<1>6. loop' \in {"block", "each"} /\ InProcess' /\ ~AtRest'
  BY <1>1 DEF MacroBlock, InProcess, AtRest
<1>7. FlushInv'
  BY <1>1, <1>3, <1>6 DEF FlushInv, CallWork
<1>8. Posts' = Posts /\ Base' = Base /\ CallWork' /\ CallBatch'
  <2>1. Posts' = Posts /\ Base' = Base
    BY <1>1 DEF Posts, Base
  <2> QED BY <1>1, <1>3, <1>4, <2>1 DEF CallWork, CallBatch
<1>9. CASE full
  <2>1. out' = out \o rs /\ made' = made + L /\ room' = room - L /\ post' = post + M
    BY <1>9 DEF MacroBlock
  <2>2. ASSUME NEW o \in 1 .. L
        PROVE  rs[o] = Ideal(origin, made + o - 1) /\ rs[o] \in Output
    <3> DEFINE p == post + ScheduleAdvance(ctr, o - 1)
               c == ScheduleArm(ctr, o - 1)
    <3>1. o - 1 \in 0 .. L - 1 /\ made + (o - 1) = made + o - 1 /\ made + o - 1 \in Nat
      BY <1>4, Ratio
    <3>2. /\ c \in 0 .. L - 1 /\ ScheduleAdvance(ctr, o - 1) \in 0 .. M
          /\ c + L * (Base + p) = M * (made + o - 1)
      BY <1>2, <1>3, <1>4, <3>1, ScheduleArms
    <3>3. p \in 0 .. Posts - 1
      BY <1>4, <1>9, <3>2, Ratio
    <3>4. rs[o] = Filtered(c, Window(p))
      OBVIOUS
    <3> HIDE DEF p, c, rs
    <3> QED BY <1>2, <1>3, <3>1, <3>2, <3>3, <3>4, WindowIdeal
  <2>3. rs \in Seq(Output) /\ Len(rs) = L
    <3>1. rs = [o \in 1 .. L |-> rs[o]]
      OBVIOUS
    <3> HIDE DEF rs
    <3> QED BY <2>2, <3>1, Ratio
  <2> HIDE DEF rs
  <2>4. /\ out' \in Seq(Output) /\ Len(out') <= made + L
        /\ \A i \in DOMAIN out' : out'[i] = Ideal(origin, (made + L) - Len(out') + i - 1)
    BY <1>2, <1>3, <2>1, <2>2, <2>3, OutGrows
  <2>5. CoreTypes'
    <3>1. room' \in Nat /\ post' \in Nat /\ made' \in Nat
      BY <1>4, <1>9, <2>1, Ratio
    <3> QED BY <1>1, <1>2, <1>6, <2>4, <3>1 DEF CoreTypes
  <2>6. CallPos'
    <3>1. ctr + L * (Base + (post + M)) = M * (made + L)
      <4>1. L * (Base + (post + M)) = L * (Base + post) + L * M
        BY <1>4, Ratio
      <4>2. M * (made + L) = M * made + L * M
        BY <1>4, Ratio
      <4>3. L * (Base + post) \in Int /\ M * made \in Int /\ L * M \in Int
        BY <1>4, Ratio
      <4> QED BY <1>4, <4>1, <4>2, <4>3
    <3>2. Len(batch') = 0 /\ made' + Len(batch') = made + L /\ room' \in Nat
      BY <1>1, <1>4, <1>9, <2>1, Ratio
    <3> QED BY <1>1, <1>4, <1>6, <1>8, <1>9, <2>1, <3>1, <3>2 DEF CallPos
  <2>7. CallOut'
    BY <1>1, <2>1, <2>4 DEF CallOut
  <2> QED BY <1>5, <1>6, <1>7, <1>8, <2>5, <2>6, <2>7 DEF Inv, CallInv, RestInv
<1>10. CASE ~full
  <2>1. loop' = "each" /\ UNCHANGED <<out, made, room, post>>
    BY <1>10 DEF MacroBlock
  <2>2. CoreTypes'
    BY <1>1, <1>2, <1>6, <2>1 DEF CoreTypes
  <2>3. CallPos' /\ CallOut'
    BY <1>1, <1>3, <1>4, <1>8, <2>1 DEF CallPos, CallOut
  <2> QED BY <1>5, <1>6, <1>7, <1>8, <2>2, <2>3 DEF Inv, CallInv, RestInv
<1> QED BY <1>9, <1>10

LEMMA ScheduleKeeps ==
  ASSUME Inv, Schedule
  PROVE  Inv'
<1> DEFINE item == [arm |-> ctr, post |-> post]
<1>1. /\ loop = "schedule" /\ Len(batch) < Scratch /\ room - Len(batch) > 0
      /\ batch' = Append(batch, item) /\ Advance
      /\ loop' = IF Exhausted THEN "last" ELSE "schedule"
      /\ UNCHANGED <<hist, held, current, taken, made, flushMode, origin, work, fresh,
                     room, out, poolVars>>
  BY DEF Schedule
<1>2. CoreTypes /\ InProcess /\ InProcess' /\ ~AtRest'
  BY <1>1 DEF Inv, InProcess, AtRest
<1>3. CallWork /\ CallPos /\ CallBatch /\ CallOut
  BY <1>2 DEF Inv, CallInv
<1>4. /\ post < Posts /\ ctr + L * (Base + post) = M * (made + Len(batch))
      /\ Base \in Nat /\ Posts \in Nat /\ post \in Nat /\ made \in Nat /\ room \in Nat
      /\ ctr \in 0 .. L - 1 /\ Len(batch) \in Nat /\ batch \in Seq([arm : Int, post : Int])
  BY <1>1, <1>2, <1>3 DEF CallPos, CoreTypes, CallWork
<1>5. ~BatchReady
  BY <1>1, <1>4, ScratchAssumption DEF BatchReady, MinOf
<1>6. PoolInv' /\ LinkInv'
  BY <1>1, <1>5, NotReady, PoolAside
<1>7. /\ ctr' \in 0 .. L - 1 /\ post' \in Nat
      /\ ctr' + L * (Base + post') = M * ((made + Len(batch)) + 1)
      /\ Exhausted => post' = Posts /\ ctr' \in 0 .. M - 1
      /\ ~Exhausted => post' < Posts
  BY <1>1, <1>2, <1>3, <1>4, AdvanceOne
<1>8. /\ item \in [arm : Int, post : Int]
      /\ batch' \in Seq([arm : Int, post : Int]) /\ Len(batch') = Len(batch) + 1
      /\ \A i \in 1 .. Len(batch) : batch'[i] = batch[i]
      /\ batch'[Len(batch) + 1] = item
  <2>1. item \in [arm : Int, post : Int]
    BY <1>4, Ratio
  <2> HIDE DEF item
  <2> QED BY <1>1, <1>4, <2>1
<1>9. Posts' = Posts /\ Base' = Base /\ CallWork'
  <2>1. Posts' = Posts /\ Base' = Base
    BY <1>1 DEF Posts, Base
  <2> QED BY <1>1, <1>3, <2>1 DEF CallWork
<1>10. CoreTypes'
  <2> HIDE DEF item
  <2> QED BY <1>1, <1>2, <1>7, <1>8 DEF CoreTypes
<1>11. CallPos'
  <2>1. made' + Len(batch') = (made + Len(batch)) + 1
    BY <1>1, <1>4, <1>8
  <2>2. Len(batch') <= room'
    BY <1>1, <1>4, <1>8
  <2> HIDE DEF item
  <2> QED BY <1>1, <1>7, <1>9, <2>1, <2>2, Ratio DEF CallPos
<1>12. CallBatch'
  <2> SUFFICES ASSUME NEW i \in DOMAIN batch'
               PROVE  /\ batch'[i].post \in 0 .. Posts - 1
                      /\ batch'[i].arm \in 0 .. L - 1
                      /\ batch'[i].arm + L * (Base + batch'[i].post) = M * (made + i - 1)
    BY <1>1, <1>9 DEF CallBatch
  <2>1. i \in 1 .. Len(batch) + 1
    BY <1>8
  <2>2. CASE i \in 1 .. Len(batch)
    <3>1. i \in DOMAIN batch /\ batch'[i] = batch[i]
      <4>1. DOMAIN batch = 1 .. Len(batch)
        BY <1>4
      <4> HIDE DEF item
      <4> QED BY <1>8, <2>2, <4>1
    <3>2. /\ batch[i].post \in 0 .. Posts - 1
          /\ batch[i].arm \in 0 .. L - 1
          /\ batch[i].arm + L * (Base + batch[i].post) = M * (made + i - 1)
      BY <1>3, <3>1 DEF CallBatch
    <3> HIDE DEF item
    <3> QED BY <3>1, <3>2
  <2>3. CASE i = Len(batch) + 1
    <3>1. batch'[i].arm = ctr /\ batch'[i].post = post
      BY <1>8, <2>3
    <3>2. made + i - 1 = made + Len(batch)
      BY <1>4, <2>3
    <3> HIDE DEF item
    <3> QED BY <1>4, <3>1, <3>2
  <2> QED BY <1>4, <2>1, <2>2, <2>3
<1>13. CallOut' /\ FlushInv'
  BY <1>1, <1>2, <1>3 DEF CallOut, FlushInv, CallWork
<1> QED BY <1>2, <1>6, <1>9, <1>10, <1>11, <1>12, <1>13 DEF Inv, CallInv, RestInv


\* What the batch computes is the next outputs, in order.
LEMMA ComputedIdeal ==
  ASSUME CoreTypes, CallInv, InProcess
  PROVE  /\ Computed \in Seq(Output) /\ Len(Computed) = Len(batch)
         /\ \A i \in 1 .. Len(batch) : Computed[i] = Ideal(origin, made + i - 1)
<1>1. /\ Len(batch) \in Nat /\ DOMAIN batch = 1 .. Len(batch) /\ made \in Nat
      /\ CallBatch
  BY DEF CoreTypes, CallInv
<1>2. ASSUME NEW i \in 1 .. Len(batch)
      PROVE  Computed[i] = Ideal(origin, made + i - 1) /\ Computed[i] \in Output
  <2>1. /\ batch[i].post \in 0 .. Posts - 1
        /\ batch[i].arm \in 0 .. L - 1
        /\ batch[i].arm + L * (Base + batch[i].post) = M * (made + i - 1)
    BY <1>1 DEF CallBatch
  <2>2. made + i - 1 \in Nat
    BY <1>1
  <2>3. Computed[i] = Filtered(batch[i].arm, Window(batch[i].post))
    BY DEF Computed
  <2> QED BY <2>1, <2>2, <2>3, WindowIdeal
<1>3. Computed = [i \in 1 .. Len(batch) |-> Computed[i]]
  BY DEF Computed
<1> QED BY <1>1, <1>2, <1>3

\* The batch is computed: its outputs are appended and process() goes on or returns.
LEMMA CollectKeeps ==
  ASSUME Inv, BatchReady, Collect(Computed), main' = "free", PoolInv'
  PROVE  Inv'
<1> DEFINE total == made + Len(batch)
<1>1. loop \in {"last", "schedule"} /\ InProcess
  BY DEF BatchReady, InProcess
<1>2. CoreTypes /\ CallInv /\ CallWork /\ CallPos /\ CallBatch /\ CallOut
  BY <1>1 DEF Inv, CallInv
<1>3. /\ out' = out \o Computed /\ room' = room - Len(batch) /\ batch' = <<>>
      /\ made' = total
      /\ UNCHANGED <<ctr, flushMode, origin, work, post, fresh>>
  BY DEF Collect, ReturnExhausted
<1>4. /\ made \in Nat /\ Len(batch) \in Nat /\ room \in Nat /\ Len(batch) <= room
      /\ total \in Nat /\ room' \in Nat /\ ctr \in 0 .. L - 1
      /\ ctr + L * (Base + post) = M * total
  BY <1>2, <1>3, SMTT(30) DEF CoreTypes, CallPos
<1>5. /\ out' \in Seq(Output) /\ Len(out') <= total
      /\ \A i \in DOMAIN out' : out'[i] = Ideal(origin, total - Len(out') + i - 1)
  <2>1. /\ Computed \in Seq(Output) /\ Len(Computed) = Len(batch)
        /\ \A i \in 1 .. Len(batch) : Computed[i] = Ideal(origin, made + i - 1)
    BY <1>1, <1>2, ComputedIdeal
  <2> QED BY <1>2, <1>3, <2>1, OutGrows
<1> HIDE DEF total
<1>6. LinkInv' /\ FlushInv'
  <2>1. ~flushMode' /\ loop' # "flush"
    BY <1>1, <1>2, <1>3 DEF CallWork, Collect, ReturnExhausted, ReturnFull
  <2> QED BY <2>1 DEF LinkInv, FlushInv
<1>7. CASE loop = "last"
  <2>1. ReturnExhausted(total)
    BY <1>7 DEF Collect, total
  <2>2. /\ held' = FALSE /\ current' = current /\ loop' = "idle"
    BY <2>1 DEF ReturnExhausted
  <2>3. post = Posts /\ ctr' \in 0 .. M - 1
    BY <1>2, <1>3, <1>4, <1>7, Ratio DEF CallPos
  <2>4. RestInv' /\ hist' \in [1 .. Past -> Sample] /\ taken' \in Nat
    BY <1>1, <1>2, <1>3, <1>4, <1>5, <2>1, <2>3, ExhaustedRest
  <2>5. CoreTypes'
    <3>1. AtRest'
      BY <2>2 DEF AtRest
    <3>2. /\ made' \in Nat /\ ctr' \in 0 .. L - 1 /\ room' \in Nat /\ held' \in BOOLEAN
          /\ batch' \in Seq([arm : Int, post : Int])
      BY <1>3, <1>4, <2>2, NothingYet
    <3>3. /\ flushMode' \in BOOLEAN /\ origin' \in Nat /\ current' \in Sample
          /\ work' \in Seq(Sample) /\ post' \in Nat
          /\ fresh' \in [held : BOOLEAN, ninput : Nat]
      BY <1>2, <1>3, <2>2 DEF CoreTypes
    <3> QED BY <1>5, <2>4, <3>1, <3>2, <3>3 DEF CoreTypes
  <2>6. CallInv'
    BY <2>2 DEF CallInv, InProcess
  <2> QED BY <1>6, <2>4, <2>5, <2>6 DEF Inv
<1>8. CASE loop = "schedule" /\ room' = 0
  <2>1. ReturnFull
    BY <1>8 DEF Collect
  <2>2. held' = TRUE /\ loop' = "idle"
    BY <2>1 DEF ReturnFull
  <2>3. post < Posts
    BY <1>2, <1>8 DEF CallPos
  <2>4. /\ RestInv' /\ hist' \in [1 .. Past -> Sample] /\ taken' \in Nat
        /\ current' \in Sample
    BY <1>1, <1>2, <1>3, <1>4, <1>5, <2>1, <2>3, FullRest
  <2>5. CoreTypes'
    <3>1. AtRest'
      BY <2>2 DEF AtRest
    <3> QED BY <1>2, <1>3, <1>4, <1>5, <2>2, <2>4, <3>1 DEF CoreTypes
  <2>6. CallInv'
    BY <2>2 DEF CallInv, InProcess
  <2> QED BY <1>6, <2>4, <2>5, <2>6 DEF Inv
<1>9. CASE loop = "schedule" /\ room' # 0
  <2>1. UNCHANGED <<hist, held, current, taken, loop>>
    BY <1>9 DEF Collect
  <2>2. InProcess' /\ ~AtRest'
    BY <1>9, <2>1 DEF InProcess, AtRest
  <2>3. CoreTypes'
    BY <1>2, <1>3, <1>4, <1>5, <2>1, <2>2 DEF CoreTypes
  <2>4. Posts' = Posts /\ Base' = Base
    BY <1>3, <2>1 DEF Posts, Base
  <2>5. CallWork'
    BY <1>2, <1>3, <2>1, <2>4 DEF CallWork
  <2>6. CallPos'
    <3>1. Len(batch') = 0 /\ made' + Len(batch') = total
      BY <1>3, <1>4
    <3>2. post' < Posts' /\ loop' = "schedule"
      BY <1>2, <1>3, <1>9, <2>1, <2>4 DEF CallPos
    <3> QED BY <1>3, <1>4, <2>4, <3>1, <3>2 DEF CallPos
  <2>7. CallBatch' /\ CallOut'
    BY <1>3, <1>5 DEF CallBatch, CallOut
  <2> QED BY <1>6, <2>2, <2>3, <2>5, <2>6, <2>7 DEF Inv, CallInv, RestInv
<1> QED BY <1>1, <1>7, <1>8, <1>9

LEMMA ComputeAloneKeeps ==
  ASSUME Inv, ComputeAlone
  PROVE  Inv'
<1>1. BatchReady /\ Collect(Computed) /\ main = "free" /\ UNCHANGED poolVars
  BY DEF ComputeAlone
<1>2. PoolInv' /\ main' = "free"
  BY <1>1, PoolAside DEF Inv, poolVars
<1> QED BY <1>1, <1>2, CollectKeeps

\* pool_parallel_for returns: the pool's invariant says that every item is computed.
LEMMA TakeBackKeeps ==
  ASSUME Inv, TakeBack
  PROVE  Inv'
<1>1. Return /\ main = "returned" /\ main' = "free"
  BY DEF TakeBack, Return
<1>2. BatchReady /\ items = Len(batch)
  BY <1>1 DEF Inv, LinkInv
<1>3. \A i \in 1 .. Len(batch) : runs[i] = 1
  BY <1>1, <1>2 DEF Inv, PoolInv, PoolTypes, BatchInv, Idle
<1>4. [i \in 1 .. Len(batch) |-> IF runs[i] = 1 THEN Computed[i] ELSE Filtered(Zero, <<>>)]
        = Computed
  BY <1>3 DEF Computed
<1>5. Collect(Computed)
  BY <1>4 DEF TakeBack
<1>6. PoolInv'
  BY <1>1, PoolStepKeeps DEF Inv, PoolNext
<1> QED BY <1>1, <1>2, <1>5, <1>6, CollectKeeps

\* A step that leaves the core and the call alone.
LEMMA CoreAside ==
  ASSUME Inv, UNCHANGED <<coreVars, callVars>>
  PROVE  CoreTypes' /\ RestInv' /\ CallInv' /\ FlushInv' /\ (BatchReady' <=> BatchReady)
<1> USE DEF coreVars, callVars
<1>1. CoreTypes' /\ FlushInv'
  BY DEF Inv, CoreTypes, FlushInv, InProcess, AtRest
<1>2. RestInv'
  BY DEF Inv, RestInv, AtRest
<1>3. CallInv'
  BY DEF Inv, CallInv, InProcess, CallWork, CallPos, CallBatch, CallOut, Base, Posts
<1>4. BatchReady' <=> BatchReady
  BY DEF BatchReady
<1> QED BY <1>1, <1>2, <1>3, <1>4

LEMMA HandOutKeeps ==
  ASSUME Inv, HandOut
  PROVE  Inv'
<1>1. BatchReady /\ Post(Len(batch)) /\ UNCHANGED <<coreVars, callVars>>
  BY DEF HandOut
<1>2. Len(batch) \in Nat
  BY DEF Inv, CoreTypes
<1>3. PoolInv'
  BY <1>1, <1>2, PostKeeps DEF Inv
<1>4. LinkInv'
  BY <1>1, CoreAside DEF Post, LinkInv, callVars
<1> QED BY <1>1, <1>3, <1>4, CoreAside DEF Inv

\* The pool's own steps: the batch it is at work on stays the one posted.
LEMMA PoolStepAside ==
  ASSUME Inv, PoolStep \/ Resize
  PROVE  Inv'
<1>1. UNCHANGED <<coreVars, callVars>>
  BY DEF PoolStep, Resize
<1>2. PoolInv'
  BY PoolStepKeeps DEF Inv, PoolStep, Resize, PoolNext
<1>3. LinkInv'
  <2>1. CASE Resize
    BY <2>1 DEF Resize, StopPool, RestartPool, LinkInv
  <2>2. CASE PoolStep
    <3>1. items' = items /\ (main' \notin {"free", "join"} => main \notin {"free", "join"})
      BY <2>2 DEF PoolStep, Main, NotifyWorkers, TestDone, SleepUntilDone, SpuriousWake,
                  WorkerStep, Look, Run, CountDone, Ring
    <3> QED BY <1>1, <3>1, CoreAside DEF Inv, LinkInv, callVars
  <2> QED BY <2>1, <2>2
<1> QED BY <1>1, <1>2, <1>3, CoreAside DEF Inv


-----------------------------------------------------------------------------
(* flush() and reset().                                                    *)

LEMMA FlushKeeps ==
  ASSUME T >= L, Inv, NEW space \in Nat, Flush(space)
  PROVE  Inv'
<1>1. /\ loop = "idle" /\ main = "free" /\ flushMode' = TRUE /\ room' = space
      /\ out' = <<>> /\ loop' = "flush"
      /\ UNCHANGED <<hist, held, current, ctr, taken, made, origin, work, post, fresh,
                     batch, poolVars>>
  BY DEF Flush
<1>2. CoreTypes /\ RestInv /\ AtRest /\ AtRest'
  BY <1>1 DEF Inv, AtRest
<1>3. CoreTypes'
  BY <1>1, <1>2 DEF CoreTypes
<1>4. RestInv'
  <2>1. Len(out') = 0 /\ DOMAIN out' = {} /\ made \in Nat
    BY <1>1, <1>2 DEF CoreTypes
  <2> QED BY <1>1, <1>2, <2>1 DEF RestInv
<1>5. FlushInv'
  <2>1. made <= Length(taken)
    <3>1. CASE flushMode
      BY <3>1 DEF Inv, FlushInv
    <3>2. CASE ~flushMode
      BY <1>2, <3>2, NotAhead
    <3> QED BY <3>1, <3>2
  <2> QED BY <1>1, <2>1 DEF FlushInv, Length
<1>6. PoolInv' /\ LinkInv'
  BY <1>1, PoolAside DEF Inv
<1>7. CallInv'
  BY <1>1 DEF CallInv, InProcess
<1> QED BY <1>3, <1>4, <1>5, <1>6, <1>7 DEF Inv

\* One more output of silence: the window is made's position, whatever is held.
LEMMA FlushOneKeeps ==
  ASSUME Inv, FlushOne
  PROVE  Inv'
<1> DEFINE now == IF held THEN current ELSE Zero
           next == [j \in 1 .. H |-> IF j <= Past THEN hist[j] ELSE now]
           p == Pos(made)
<1>1. /\ loop = "flush" /\ room > 0 /\ made < Length(taken)
      /\ out' = Append(out, Filtered(ctr, next))
      /\ held' = TRUE /\ ctr' = (IF Wraps THEN ctr + M - L ELSE ctr + M)
      /\ made' = made + 1 /\ room' = room - 1
      /\ UNCHANGED <<taken, flushMode, origin, loop, work, post, fresh, batch, poolVars>>
  BY DEF FlushOne
<1>2. CoreTypes /\ RestInv /\ AtRest /\ AtRest' /\ flushMode
  BY <1>1 DEF Inv, AtRest, FlushInv
<1>3. /\ made \in Nat /\ taken \in Nat /\ room \in Nat /\ origin \in Nat
      /\ ctr = Arm(made) /\ ctr \in 0 .. L - 1 /\ p \in Nat /\ ctr + L * p = M * made
      /\ hist = [j \in 1 .. Past |-> Sn(origin, p - H + j, taken)]
      /\ now = Sn(origin, p, taken)
      /\ p >= taken - 1
      /\ batch = <<>>
  BY <1>2, PosArmOf DEF RestInv, CoreTypes
<1>4. next = [j \in 1 .. H |-> Sn(origin, p - H + j, taken)]
  <2> SUFFICES ASSUME NEW j \in 1 .. H
               PROVE  (IF j <= Past THEN hist[j] ELSE now) = Sn(origin, p - H + j, taken)
    OBVIOUS
  <2>1. CASE j <= Past
    BY <1>3, <2>1, Ratio
  <2>2. CASE ~(j <= Past)
    <3> HIDE DEF now, p
    <3>1. j = H
      BY <2>2, Ratio
    <3>2. p - H + j = p
      BY <1>3, <3>1, Ratio
    <3> QED BY <1>3, <2>2, <3>2
  <2> QED BY <2>1, <2>2
<1>5. \A j \in Int : Sn(origin, j, taken) \in Sample
  BY <1>3 DEF Sn, Sample
<1>6. /\ Filtered(ctr, next) = Defined(origin, made, taken)
      /\ Filtered(ctr, next) \in Output
  <2>1. \A j \in 1 .. H : p - H + j \in Int
    BY <1>3, Ratio
  <2>2. next \in [1 .. H -> Sample]
    <3> HIDE DEF next
    <3> QED BY <1>4, <1>5, <2>1
  <2>3. Filtered(ctr, next) = Defined(origin, made, taken)
    <3> HIDE DEF next
    <3> QED BY <1>3, <1>4 DEF Defined
  <2> HIDE DEF next
  <2> QED BY <1>3, <2>2, <2>3 DEF Filtered, Output
<1>7. /\ out' \in Seq(Output) /\ Len(out') <= made'
      /\ \A i \in DOMAIN out' : out'[i] = Defined(origin, made' - Len(out') + i - 1, taken)
  <2> HIDE DEF next
  <2>1. /\ out \in Seq(Output) /\ Len(out) \in Nat /\ Len(out) <= made
        /\ DOMAIN out = 1 .. Len(out)
        /\ \A i \in 1 .. Len(out) : out[i] = Defined(origin, made - Len(out) + i - 1, taken)
    BY <1>2 DEF CoreTypes, RestInv
  <2>2. /\ out' \in Seq(Output) /\ Len(out') = Len(out) + 1
        /\ \A i \in 1 .. Len(out) : out'[i] = out[i]
        /\ out'[Len(out) + 1] = Defined(origin, made, taken)
    BY <1>1, <1>6, <2>1
  <2>3. ASSUME NEW i \in 1 .. Len(out) + 1
        PROVE  out'[i] = Defined(origin, made' - Len(out') + i - 1, taken)
    <3>1. made' - Len(out') + i - 1 = made - Len(out) + i - 1
      BY <1>1, <1>3, <2>1, <2>2
    <3>2. CASE i <= Len(out)
      <4>1. i \in 1 .. Len(out)
        BY <2>1, <3>2
      <4> QED BY <2>1, <2>2, <3>1, <4>1
    <3>3. CASE i > Len(out)
      <4>1. i = Len(out) + 1 /\ made - Len(out) + i - 1 = made
        BY <1>3, <2>1, <3>3
      <4> QED BY <2>2, <3>1, <4>1
    <3> QED BY <2>1, <3>2, <3>3
  <2> QED BY <1>1, <1>3, <2>1, <2>2, <2>3
<1>8. /\ Wraps => /\ ctr' \in 0 .. M - 1 /\ ctr' + L * (p + 1) = M * made'
      /\ ~Wraps => /\ ctr' \in 0 .. L - 1 /\ ctr' + L * p = M * made'
  <2> HIDE DEF p
  <2> QED BY <1>1, <1>3, Further DEF Wraps
<1>9. /\ ctr' = Arm(made') /\ ctr' \in 0 .. L - 1
      /\ Pos(made') = IF Wraps THEN p + 1 ELSE p
  <2> HIDE DEF p
  <2>1. CASE Wraps
    <3>1. ctr' \in 0 .. L - 1 /\ p + 1 \in Int /\ made' \in Int
      BY <1>1, <1>3, <1>8, <2>1, Ratio
    <3> QED BY <1>8, <2>1, <3>1, PosArm
  <2>2. CASE ~Wraps
    BY <1>1, <1>3, <1>8, <2>2, PosArm
  <2> QED BY <2>1, <2>2
<1>10. /\ hist' = [j \in 1 .. Past |-> Sn(origin, Pos(made') - H + j, taken)]
       /\ current' = Sn(origin, Pos(made'), taken)
  <2>1. CASE Wraps
    <3>1. hist' = [j \in 1 .. Past |-> next[j + 1]] /\ current' = Zero
      BY <2>1 DEF FlushOne
    <3>2. \A j \in 1 .. Past : j + 1 \in 1 .. H /\ p - H + (j + 1) = (p + 1) - H + j
      BY <1>3, Ratio, SMTT(30)
    <3>3. \A j \in 1 .. Past : next[j + 1] = Sn(origin, (p + 1) - H + j, taken)
      <4> HIDE DEF next
      <4> QED BY <1>4, <3>2
    <3>4. Sn(origin, p + 1, taken) = Zero
      BY <1>3 DEF Sn
    <3> HIDE DEF next, p
    <3> QED BY <1>9, <2>1, <3>1, <3>3, <3>4
  <2>2. CASE ~Wraps
    <3>1. hist' = hist /\ current' = now
      BY <2>2 DEF FlushOne
    <3> HIDE DEF now, p
    <3> QED BY <1>3, <1>9, <2>2, <3>1
  <2> QED BY <2>1, <2>2
<1>11. Pos(made') \in Nat /\ Pos(made') >= taken - 1
  BY <1>3, <1>9
<1> HIDE DEF now, next, p
<1>12. RestInv'
  BY <1>1, <1>2, <1>3, <1>7, <1>9, <1>10, <1>11 DEF RestInv
<1>13. CoreTypes'
  <2>1. hist' \in [1 .. Past -> Sample] /\ current' \in Sample
    <3>1. \A j \in 1 .. Past : Pos(made') - H + j \in Int
      BY <1>11, Ratio
    <3> QED BY <1>5, <1>10, <1>11, <3>1
  <2>2. made' \in Nat /\ room' \in Nat
    BY <1>1, <1>3
  <2> QED BY <1>1, <1>2, <1>7, <1>9, <2>1, <2>2 DEF CoreTypes
<1>14. FlushInv'
  <2>1. made' <= Length(taken')
    <3>1. Length(taken) \in Int
      BY <1>3, Ratio, RatioAssumption DEF Length
    <3> QED BY <1>1, <1>3, <3>1
  <2> QED BY <1>1, <1>2, <2>1 DEF FlushInv
<1>15. PoolInv' /\ LinkInv'
  <2>1. ~BatchReady
    BY <1>1 DEF BatchReady
  <2> QED BY <1>1, <2>1, NotReady, PoolAside
<1>16. CallInv'
  BY <1>1 DEF CallInv, InProcess
<1> QED BY <1>12, <1>13, <1>14, <1>15, <1>16 DEF Inv

LEMMA FlushEndKeeps ==
  ASSUME Inv, FlushEnd
  PROVE  Inv'
<1>1. /\ loop = "flush" /\ loop' = "idle" /\ (room = 0 \/ made >= Length(taken))
      /\ UNCHANGED <<coreVars, work, post, fresh, room, batch, out, poolVars>>
  BY DEF FlushEnd
<1>2. CoreTypes /\ RestInv /\ AtRest /\ AtRest'
  BY <1>1 DEF Inv, AtRest
<1>3. CoreTypes'
  BY <1>1, <1>2 DEF CoreTypes, coreVars
<1>4. RestInv'
  BY <1>1, <1>2 DEF RestInv, coreVars
<1>5. FlushInv'
  BY <1>1 DEF Inv, FlushInv, coreVars
<1>6. PoolInv' /\ LinkInv'
  <2>1. ~BatchReady
    BY <1>1 DEF BatchReady
  <2> QED BY <1>1, <2>1, NotReady, PoolAside
<1>7. CallInv'
  BY <1>1 DEF CallInv, InProcess
<1> QED BY <1>3, <1>4, <1>5, <1>6, <1>7 DEF Inv

\* What a stream starts from: the initial state and the state after reset().
LEMMA StartRest ==
  /\ Pos(0) = 0 /\ Arm(0) = 0
  /\ \A o : \A j : Sn(o, j, 0) = Zero
  /\ Silence = [j \in 1 .. Past |-> Zero] /\ Zero \in Sample
  /\ 0 \in 0 .. L - 1 /\ 0 < M
<1>1. Pos(0) = 0 /\ Arm(0) = 0
  BY PosArm, Ratio
<1>2. \A o : \A j : Sn(o, j, 0) = Zero
  BY DEF Sn
<1> QED BY <1>1, <1>2, Ratio DEF Silence, Sample

LEMMA ResetKeeps ==
  ASSUME Inv, loop = "idle", ResetCore, out' = <<>>,
         UNCHANGED <<loop, work, post, fresh, room, batch, poolVars>>
  PROVE  Inv'
<1>1. /\ loop = "idle" /\ main \in {"free", "join"} /\ out' = <<>>
      /\ hist' = Silence /\ held' = FALSE /\ current' = Zero
      /\ ctr' = 0 /\ taken' = 0 /\ made' = 0 /\ flushMode' = FALSE
      /\ origin' = origin + taken
      /\ UNCHANGED <<loop, work, post, fresh, room, batch, poolVars>>
  BY DEF ResetCore, Inv, LinkInv, BatchReady
<1>2. CoreTypes /\ RestInv /\ AtRest /\ AtRest' /\ batch = <<>>
  BY <1>1 DEF Inv, AtRest, RestInv
<1>3. CoreTypes'
  <2>1. /\ hist' \in [1 .. Past -> Sample] /\ current' \in Sample
        /\ ctr' \in 0 .. L - 1 /\ origin' \in Nat
    BY <1>1, <1>2, StartRest DEF CoreTypes
  <2> QED BY <1>1, <1>2, <2>1, NothingYet DEF CoreTypes
<1>4. RestInv'
  <2>1. Len(out') = 0 /\ DOMAIN out' = {}
    BY <1>1
  <2> QED BY <1>1, <1>2, <2>1, StartRest DEF RestInv
<1>5. FlushInv' /\ CallInv'
  BY <1>1 DEF FlushInv, CallInv, InProcess
<1>6. PoolInv' /\ LinkInv'
  BY <1>1, PoolAside DEF Inv
<1> QED BY <1>3, <1>4, <1>5, <1>6 DEF Inv

-----------------------------------------------------------------------------
LEMMA ResamplerInitial == ResamplerInit => Inv
<1> SUFFICES ASSUME ResamplerInit PROVE Inv
  OBVIOUS
<1>1. /\ hist = Silence /\ held = FALSE /\ current = Zero
      /\ ctr = 0 /\ taken = 0 /\ made = 0 /\ flushMode = FALSE /\ origin = 0
      /\ loop = "idle" /\ work = <<>> /\ post = 0
      /\ fresh = [held |-> FALSE, ninput |-> 0]
      /\ room = 0 /\ batch = <<>> /\ out = <<>> /\ PoolInit
  BY DEF ResamplerInit
<1>2. AtRest
  BY <1>1 DEF AtRest
<1>3. CoreTypes
  <2>1. /\ hist \in [1 .. Past -> Sample] /\ current \in Sample
        /\ ctr \in 0 .. L - 1
    BY <1>1, StartRest
  <2>2. fresh \in [held : BOOLEAN, ninput : Nat]
    BY <1>1
  <2> QED BY <1>1, <1>2, <2>1, <2>2, NothingYet DEF CoreTypes
<1>4. RestInv
  <2>1. Len(out) = 0 /\ DOMAIN out = {}
    BY <1>1
  <2> QED BY <1>1, <2>1, StartRest DEF RestInv
<1>5. FlushInv /\ CallInv
  BY <1>1 DEF FlushInv, CallInv, InProcess
<1>6. PoolInv /\ LinkInv
  BY <1>1, PoolInitial DEF PoolInit, LinkInv
<1> QED BY <1>3, <1>4, <1>5, <1>6 DEF Inv

LEMMA ResamplerStepKeeps == T >= L /\ Inv /\ [Next]_resamplerVars => Inv'
<1> SUFFICES ASSUME T >= L, Inv, [Next]_resamplerVars PROVE Inv'
  OBVIOUS
<1>1. CASE \E n \in Nat, space \in Nat : Process(n, space)
  BY <1>1, ProcessKeeps
<1>2. CASE \E space \in Nat : Flush(space)
  BY <1>2, FlushKeeps
<1>3. CASE CallStep
  BY <1>3, OneOutputKeeps, OutputFullKeeps, MacroBlockKeeps, ScheduleKeeps,
     ComputeAloneKeeps, HandOutKeeps, TakeBackKeeps, FlushOneKeeps, FlushEndKeeps DEF CallStep
<1>4. CASE UNCHANGED resamplerVars
  <2>1. UNCHANGED <<coreVars, callVars>> /\ UNCHANGED poolVars
    BY <1>4 DEF resamplerVars
  <2>2. PoolInv'
    BY <2>1, PoolStepKeeps DEF Inv
  <2>3. LinkInv'
    BY <2>1, CoreAside DEF Inv, LinkInv, poolVars, callVars
  <2> QED BY <2>1, <2>2, <2>3, CoreAside DEF Inv
<1>5. CASE Reset
  BY <1>5, ResetKeeps DEF Reset
<1> QED BY <1>1, <1>2, <1>3, <1>4, <1>5, PoolStepAside DEF Next

(* However the stream is cut into calls of process() and flush(), whichever *)
(* of the three loops computes an output and however many workers share a   *)
(* batch, the outputs are those of the definition (upfirdn), in order and   *)
(* without a gap, for every ratio and any filter of at least one tap per    *)
(* arm (uwb_rational_resampler_core.h, process() and flush()).              *)
THEOREM OutputsDefined == T >= L => (Spec => []OutputsAreUpfirdn)
<1> SUFFICES ASSUME T >= L PROVE Spec => []OutputsAreUpfirdn
  OBVIOUS
<1>1. Inv => OutputsAreUpfirdn
  BY InvImplies
<1>2. Inv /\ [Next]_resamplerVars => Inv'
  BY ResamplerStepKeeps
<1> QED BY <1>1, <1>2, ResamplerInitial, PTL DEF Spec

(***************************************************************************)
(* The stream block.  The core's invariant holds in it too: each of its    *)
(* steps that touches the core is one of the core's, except the end of a   *)
(* call, which gives the outputs away and may reset the core.              *)
(***************************************************************************)
LEMMA OutputsTaken ==
  ASSUME Inv, loop = "idle", out' = <<>>,
         UNCHANGED <<coreVars, loop, work, post, fresh, room, batch, poolVars>>
  PROVE  Inv'
<1>1. /\ UNCHANGED <<hist, held, current, ctr, taken, made, flushMode, origin>>
      /\ main \in {"free", "join"}
  BY DEF coreVars, Inv, LinkInv, BatchReady
<1>2. CoreTypes /\ RestInv /\ AtRest /\ AtRest'
  BY DEF Inv, AtRest
<1>3. CoreTypes'
  BY <1>1, <1>2, NothingYet DEF CoreTypes
<1>4. RestInv'
  <2>1. Len(out') = 0 /\ DOMAIN out' = {} /\ made \in Nat
    BY <1>2 DEF CoreTypes
  <2> QED BY <1>1, <1>2, <2>1 DEF RestInv
<1>5. FlushInv' /\ CallInv'
  BY <1>1 DEF FlushInv, CallInv, InProcess, Inv, Length
<1>6. PoolInv' /\ LinkInv'
  BY <1>1, PoolAside DEF Inv
<1> QED BY <1>3, <1>4, <1>5, <1>6 DEF Inv

\* The stream position after the samples consumed never goes back, not at a reset.
LEMMA PositionGrows ==
  ASSUME Inv, [Next]_resamplerVars
  PROVE  origin' + taken' >= origin + taken
<1>1. /\ taken \in Nat /\ origin \in Nat /\ post \in Nat /\ fresh.ninput \in Nat
      /\ fresh.held \in BOOLEAN
  BY DEF Inv, CoreTypes
<1>2. CASE Reset
  BY <1>1, <1>2 DEF Reset, ResetCore
<1>3. CASE CallStep
  <2>1. origin' = origin
    BY <1>3 DEF CallStep, OneOutput, OutputFull, MacroBlock, Schedule, ComputeAlone, HandOut,
                TakeBack, Collect, FlushOne, FlushEnd, coreVars
  <2>2. \/ taken' = taken \/ taken' = taken + fresh.ninput
        \/ taken' = taken + post \/ taken' = taken + (post + 1)
    BY <1>1, <1>3
       DEF CallStep, OneOutput, OutputFull, MacroBlock, Schedule, ComputeAlone, HandOut,
           TakeBack, Collect, FlushOne, FlushEnd, coreVars, ReturnExhausted, ReturnFull
  <2> QED BY <1>1, <2>1, <2>2
<1>4. CASE ~Reset /\ ~CallStep
  <2>1. origin' = origin /\ taken' = taken
    BY <1>4 DEF Next, Process, Flush, PoolStep, Resize, coreVars, resamplerVars
  <2> QED BY <1>1, <2>1
<1> QED BY <1>2, <1>3, <1>4

(* The law of the tags is monotone.                                        *)
LEMMA MapOffsetMonotone ==
  ASSUME NEW a \in Nat, NEW b \in Nat, a <= b
  PROVE  MapOffset(a) <= MapOffset(b) /\ MapOffset(a) \in Nat /\ MapOffset(b) \in Nat
<1> DEFINE x == 2 * a * L + (T - 1) + M
           y == 2 * b * L + (T - 1) + M
           D == 2 * M
<1>1. D \in Nat \ {0}
  BY Ratio
<1>2. x \in Nat /\ y \in Nat /\ x <= y
  <2>1. 2 * a * L \in Nat /\ 2 * b * L \in Nat /\ 2 * a * L <= 2 * b * L
    BY Ratio
  <2> QED BY <2>1, Ratio, RatioAssumption
<1>3. MapOffset(a) = x \div D /\ MapOffset(b) = y \div D
  BY DEF MapOffset
<1> HIDE DEF x, y, D
<1>4. /\ x \div D \in Nat /\ y \div D \in Nat
      /\ D * (x \div D) <= x /\ y < D * (y \div D) + D
  BY <1>1, <1>2, DivBounds
<1>5. x \div D <= y \div D
  <2> DEFINE u == x \div D
             v == y \div D
  <2>1. u \in Nat /\ v \in Nat /\ D * u <= x /\ y < D * v + D
    BY <1>4
  <2> HIDE DEF u, v
  <2>2. SUFFICES ASSUME v + 1 <= u PROVE FALSE
    BY <2>1 DEF u, v
  <2>3. D * (v + 1) <= D * u /\ D * (v + 1) = D * v + D
    BY <1>1, <2>1, <2>2
  <2> QED BY <1>1, <1>2, <2>1, <2>3, D * v \in Int, D * u \in Int
<1> QED BY <1>3, <1>4, <1>5

BlockTypes ==
  /\ nread \in Nat /\ nwritten \in Nat /\ absIn \in Nat /\ absOut \in Nat
  /\ written \in Int
  /\ grant \in [ninput : Int, done : BOOLEAN, noutput : Nat]
  /\ upstreamDone \in BOOLEAN
  /\ tagged \subseteq Nat

\* A tag that has been passed on was read before nread and lies before nwritten, so
\* that those of the present call can only follow it.
MarksBehind ==
  \A p \in DOMAIN marks : p \in Nat /\ p < nread /\ marks[p] \in Nat /\ marks[p] < nwritten

MarksInv == nread <= origin + taken /\ MarksBehind /\ TagsInOrder

BlockInv == Inv /\ BlockTypes /\ MarksInv

LEMMA BlockInitial == Init => BlockInv
<1> SUFFICES ASSUME Init PROVE BlockInv
  OBVIOUS
<1>1. Inv
  BY ResamplerInitial DEF Init
<1>2. BlockTypes
  <2>1. tagged \subseteq Nat
    BY BlockAssumption DEF Init
  <2>2. grant \in [ninput : Int, done : BOOLEAN, noutput : Nat]
    BY DEF Init
  <2> QED BY <2>1, <2>2 DEF Init, BlockTypes
<1>3. MarksInv
  BY <1>1 DEF Init, ResamplerInit, MarksInv, MarksBehind, TagsInOrder
<1> QED BY <1>1, <1>2, <1>3 DEF BlockInv

\* Steps that pass no tag on and consume nothing.
LEMMA MarksStay ==
  ASSUME BlockInv, UNCHANGED <<nread, marks>>, nwritten' \in Nat, nwritten <= nwritten',
         origin' + taken' >= origin + taken, origin' \in Nat, taken' \in Nat
  PROVE  MarksInv'
<1>1. nread \in Nat /\ nwritten \in Nat /\ origin \in Nat /\ taken \in Nat
  BY DEF BlockInv, BlockTypes, Inv, CoreTypes
<1>2. nread' <= origin' + taken'
  <2>1. nread' = nread /\ nread <= origin + taken
    BY DEF BlockInv, MarksInv
  <2> DEFINE a == origin + taken
             b == origin' + taken'
  <2>2. a \in Int /\ b \in Int
    BY <1>1
  <2>3. b >= a
    OBVIOUS
  <2>4. nread <= a
    BY <2>1
  <2> HIDE DEF a, b
  <2>5. nread <= b
    BY <1>1, <2>2, <2>3, <2>4
  <2> QED BY <2>1, <2>5 DEF b
<1>3. MarksBehind'
  BY <1>1 DEF BlockInv, MarksInv, MarksBehind
<1>4. TagsInOrder'
  BY DEF BlockInv, MarksInv, TagsInOrder
<1> QED BY <1>2, <1>3, <1>4 DEF MarksInv

\* The steps of the core's own.
LEMMA CoreStepKeeps ==
  ASSUME T >= L, BlockInv, [Next]_resamplerVars,
         UNCHANGED <<nread, marks>>, nwritten' \in Nat, nwritten <= nwritten', BlockTypes'
  PROVE  BlockInv'
<1>1. Inv'
  BY ResamplerStepKeeps DEF BlockInv
<1>2. origin' + taken' >= origin + taken
  BY PositionGrows DEF BlockInv
<1>3. origin' \in Nat /\ taken' \in Nat
  BY <1>1 DEF Inv, CoreTypes
<1> QED BY <1>1, <1>2, <1>3, MarksStay DEF BlockInv

\* Where the tags of this call go: among its outputs, in the order they came in.
LEMMA MarksOfCall ==
  ASSUME BlockInv, out # <<>>, NEW p \in TagsIn
  PROVE  /\ p \in Nat /\ nread <= p /\ p < nread + Consumed
         /\ MarkOf(p) \in Nat /\ nwritten <= MarkOf(p) /\ MarkOf(p) < nwritten + Len(out)
         /\ \A q \in TagsIn : p <= q => MarkOf(p) <= MarkOf(q)
<1>1. /\ nread \in Nat /\ nwritten \in Nat /\ absIn \in Nat /\ absOut \in Nat
      /\ tagged \subseteq Nat /\ out \in Seq(Output)
  BY DEF BlockInv, BlockTypes, Inv, CoreTypes
<1>2. Len(out) \in Nat /\ Len(out) > 0
  BY <1>1
<1>3. \A q \in TagsIn : q \in Nat /\ nread <= q /\ q < nread + Consumed /\ absIn + (q - nread) \in Nat
  BY <1>1 DEF TagsIn
<1> DEFINE Clamp(x) == IF x < 0 THEN 0 ELSE MinOf(x, Len(out) - 1)
<1>4. \A q \in TagsIn : MarkOf(q) = nwritten + Clamp(MapOffset(absIn + (q - nread)) - absOut)
  BY DEF MarkOf
<1>5. \A x \in Int : Clamp(x) \in Nat /\ Clamp(x) < Len(out)
  BY <1>2 DEF MinOf
<1>6. \A x, y \in Int : x <= y => Clamp(x) <= Clamp(y)
  BY <1>2 DEF MinOf
<1> HIDE DEF Clamp
<1>7. \A q \in TagsIn : MapOffset(absIn + (q - nread)) - absOut \in Int
  <2>1. \A a \in Nat : MapOffset(a) \in Nat
    BY MapOffsetMonotone, \A a \in Nat : a <= a
  <2>2. ASSUME NEW q \in TagsIn PROVE MapOffset(absIn + (q - nread)) - absOut \in Int
    <3> DEFINE m == MapOffset(absIn + (q - nread))
    <3>1. m \in Nat
      BY <1>3, <2>1
    <3> HIDE DEF m
    <3>2. m - absOut \in Int
      BY <1>1, <3>1
    <3> QED BY <3>2 DEF m
  <2> QED BY <2>2
<1>8. MarkOf(p) \in Nat /\ nwritten <= MarkOf(p) /\ MarkOf(p) < nwritten + Len(out)
  <2> DEFINE x == MapOffset(absIn + (p - nread)) - absOut
             c == Clamp(x)
  <2>1. MarkOf(p) = nwritten + c /\ x \in Int
    BY <1>4, <1>7
  <2>2. c \in Nat /\ c < Len(out)
    BY <1>5, <2>1
  <2> HIDE DEF c
  <2> QED BY <1>1, <1>2, <2>1, <2>2
<1>9. ASSUME NEW q \in TagsIn, p <= q PROVE MarkOf(p) <= MarkOf(q)
  <2> DEFINE a == MapOffset(absIn + (p - nread))
             b == MapOffset(absIn + (q - nread))
  <2>1. a <= b /\ a \in Nat /\ b \in Nat
    <3>1. absIn + (p - nread) <= absIn + (q - nread)
      BY <1>1, <1>3, <1>9
    <3> QED BY <1>3, <3>1, MapOffsetMonotone
  <2>2. MarkOf(p) = nwritten + Clamp(a - absOut) /\ MarkOf(q) = nwritten + Clamp(b - absOut)
    BY <1>4
  <2> HIDE DEF a, b
  <2>3. a - absOut \in Int /\ b - absOut \in Int /\ a - absOut <= b - absOut
    BY <1>1, <2>1
  <2>4. Clamp(a - absOut) <= Clamp(b - absOut) /\ Clamp(a - absOut) \in Nat /\ Clamp(b - absOut) \in Nat
    BY <1>5, <1>6, <2>3
  <2> QED BY <1>1, <2>2, <2>4
<1> QED BY <1>3, <1>8, <1>9

\* The end of a call: outputs, tags, and maybe a reset.
LEMMA WorkProcessedKeeps ==
  ASSUME BlockInv, WorkProcessed
  PROVE  BlockInv'
<1>1. /\ loop = "idle" /\ PropagateTags
      /\ nread' = nread + Consumed /\ absIn' = absIn + Consumed
      /\ absOut' = absOut + Len(out) /\ nwritten' = nwritten + Len(out)
      /\ out' = <<>>
      /\ UNCHANGED <<loop, work, post, fresh, room, batch, poolVars, upstreamVars, grant, resets>>
  BY DEF WorkProcessed
<1>2. /\ nread \in Nat /\ nwritten \in Nat /\ absIn \in Nat /\ absOut \in Nat
      /\ out \in Seq(Output) /\ origin \in Nat /\ taken \in Nat
      /\ nread <= origin + taken /\ MarksBehind /\ TagsInOrder
  BY DEF BlockInv, BlockTypes, Inv, CoreTypes, MarksInv
<1>3. Len(out) \in Nat /\ Consumed \in Nat /\ nread + Consumed = origin + taken
  BY <1>2 DEF Consumed
<1>4. BlockTypes'
  BY <1>1, <1>2, <1>3 DEF BlockInv, BlockTypes, upstreamVars
<1>5. Inv' /\ origin' + taken' = origin + taken
  <2>1. CASE TagsIn = {}
    BY <1>1, <2>1, OutputsTaken DEF PropagateTags, BlockInv, coreVars
  <2>2. CASE TagsIn # {}
    <3>1. ResetCore
      BY <1>1, <2>2 DEF PropagateTags
    <3>2. Inv'
      BY <1>1, <3>1, ResetKeeps DEF BlockInv
    <3> QED BY <1>2, <3>1, <3>2 DEF ResetCore
  <2> QED BY <2>1, <2>2
<1>6. MarksBehind' /\ TagsInOrder'
  <2>1. CASE marks' = marks
    <3>1. nread <= nread' /\ nwritten <= nwritten' /\ nread' \in Nat /\ nwritten' \in Nat
      BY <1>1, <1>2, <1>3
    <3> QED BY <1>2, <2>1, <3>1 DEF MarksBehind, TagsInOrder
  <2>2. CASE marks' # marks
    <3>1. /\ out # <<>>
          /\ marks' = [p \in DOMAIN marks \cup TagsIn |-> IF p \in TagsIn THEN MarkOf(p) ELSE marks[p]]
      BY <1>1, <2>2 DEF PropagateTags
    <3>2. \A p \in TagsIn :
             /\ p \in Nat /\ nread <= p /\ p < nread'
             /\ marks'[p] = MarkOf(p)
             /\ marks'[p] \in Nat /\ nwritten <= marks'[p] /\ marks'[p] < nwritten'
             /\ \A q \in TagsIn : p <= q => marks'[p] <= marks'[q]
      BY <1>1, <3>1, MarksOfCall
    <3>3. \A p \in DOMAIN marks :
             /\ p \in Nat /\ p < nread
             /\ p \notin TagsIn
             /\ marks'[p] = marks[p] /\ marks[p] \in Nat /\ marks[p] < nwritten
      BY <1>2, <3>1, <3>2 DEF MarksBehind
    <3>4. DOMAIN marks' = DOMAIN marks \cup TagsIn
      BY <3>1
    <3>5. MarksBehind'
      <4>1. \A p \in DOMAIN marks : p < nread' /\ marks'[p] < nwritten'
        BY <1>1, <1>2, <1>3, <3>3
      <4> QED BY <3>2, <3>3, <3>4, <4>1 DEF MarksBehind
    <3>6. TagsInOrder'
      <4>1. SUFFICES ASSUME NEW p \in DOMAIN marks', NEW q \in DOMAIN marks', p <= q
                     PROVE  marks'[p] <= marks'[q]
        BY DEF TagsInOrder
      <4>2. CASE p \in TagsIn /\ q \in TagsIn
        BY <3>2, <4>1, <4>2
      <4>3. CASE p \in TagsIn /\ q \in DOMAIN marks
        BY <1>2, <3>2, <3>3, <4>1, <4>3
      <4>4. CASE p \in DOMAIN marks /\ q \in TagsIn
        BY <1>2, <3>2, <3>3, <4>4
      <4>5. CASE p \in DOMAIN marks /\ q \in DOMAIN marks
        BY <1>2, <3>3, <4>1, <4>5 DEF TagsInOrder
      <4> QED BY <3>4, <4>2, <4>3, <4>4, <4>5
    <3> QED BY <3>5, <3>6
  <2> QED BY <2>1, <2>2
<1>7. nread' <= origin' + taken'
  BY <1>1, <1>2, <1>3, <1>5
<1> QED BY <1>4, <1>5, <1>6, <1>7 DEF BlockInv, MarksInv

\* A step that leaves the core alone.
LEMMA CoreUntouched ==
  ASSUME T >= L, BlockInv, UNCHANGED resamplerVars, UNCHANGED <<nread, marks>>,
         nwritten' \in Nat, nwritten <= nwritten', BlockTypes'
  PROVE  BlockInv'
BY CoreStepKeeps

\* Upstream, the scheduler, and the calls that end at once.
LEMMA OutsideKeeps ==
  ASSUME T >= L, BlockInv,
         Write \/ Finish \/ Snapshot \/ Ask \/ WorkDone \/ WorkThrows
  PROVE  BlockInv'
<1>1. BlockTypes
  BY DEF BlockInv
<1>2. UNCHANGED resamplerVars /\ UNCHANGED <<nread, nwritten, absIn, absOut, marks, tagged>>
  BY DEF Write, Finish, Snapshot, Ask, WorkDone, WorkThrows, positionVars, upstreamVars
<1>3. BlockTypes'
  <2>1. CASE Write
    <3>1. PICK n \in 1 .. Total - written : written' = written + n
      BY <2>1 DEF Write
    <3>2. written' \in Int /\ UNCHANGED <<grant, upstreamDone>>
      BY <1>1, <2>1, <3>1, BlockAssumption DEF Write, BlockTypes
    <3> QED BY <1>1, <1>2, <3>2 DEF BlockTypes
  <2>2. CASE Snapshot
    <3>1. PICK n \in OutputGrants :
             grant' = [ninput |-> written - nread, done |-> upstreamDone, noutput |-> n]
      BY <2>2 DEF Snapshot
    <3>2. grant' \in [ninput : Int, done : BOOLEAN, noutput : Nat]
      BY <1>1, <3>1, BlockAssumption DEF BlockTypes
    <3>3. UNCHANGED <<written, upstreamDone>>
      BY <2>2 DEF Snapshot, upstreamVars
    <3> QED BY <1>1, <1>2, <3>2, <3>3 DEF BlockTypes
  <2>3. CASE Finish
    BY <1>1, <1>2, <2>3 DEF Finish, BlockTypes
  <2>4. CASE Ask \/ WorkDone \/ WorkThrows
    BY <1>1, <1>2, <2>4 DEF Ask, WorkDone, WorkThrows, BlockTypes, upstreamVars
  <2> QED BY <2>1, <2>2, <2>3, <2>4
<1>4. nwritten' \in Nat /\ nwritten <= nwritten'
  BY <1>1, <1>2 DEF BlockTypes
<1> QED BY <1>2, <1>3, <1>4, CoreUntouched

\* A call begins: process() or flush() of the core.
LEMMA CallBegins ==
  ASSUME T >= L, BlockInv, WorkFlush \/ WorkProcess \/ WorkTail
  PROVE  BlockInv'
<1>1. BlockTypes /\ room \in Nat /\ grant.ninput \in Int /\ grant.noutput \in Nat
      /\ upstreamDone \in BOOLEAN
  BY DEF BlockInv, Inv, CoreTypes, BlockTypes
<1>2. Next
  <2>1. CASE WorkFlush
    BY <1>1, <2>1 DEF WorkFlush, Next
  <2>2. CASE WorkTail
    BY <1>1, <2>2 DEF WorkTail, Next
  <2>3. CASE WorkProcess
    <3>1. grant.ninput \in Nat /\ Process(grant.ninput, grant.noutput)
      BY <1>1, <2>3 DEF WorkProcess
    <3> QED BY <1>1, <3>1 DEF Next
  <2> QED BY <2>1, <2>2, <2>3
<1>3. UNCHANGED <<nread, nwritten, absIn, absOut, marks, written, upstreamDone, tagged>>
  BY DEF WorkFlush, WorkProcess, WorkTail, upstreamVars, positionVars
<1>4. grant' \in [ninput : Int, done : BOOLEAN, noutput : Nat]
  <2>1. CASE WorkProcess
    BY <1>1, <2>1 DEF WorkProcess, BlockTypes
  <2>2. CASE ~WorkProcess
    BY <1>1, <2>2 DEF WorkFlush, WorkTail, BlockTypes
  <2> QED BY <2>1, <2>2
<1>5. BlockTypes' /\ nwritten' \in Nat /\ nwritten <= nwritten'
  BY <1>1, <1>3, <1>4 DEF BlockTypes
<1> QED BY <1>2, <1>3, <1>5, CoreStepKeeps

\* A flush ends: its outputs count, nothing else.
LEMMA FlushEnds ==
  ASSUME T >= L, BlockInv, WorkFlushed \/ WorkTailed
  PROVE  BlockInv'
<1>1. BlockTypes /\ Len(out) \in Nat
  BY DEF BlockInv, Inv, CoreTypes
<1>2. /\ absOut' = absOut + Len(out) /\ nwritten' = nwritten + Len(out)
      /\ UNCHANGED resamplerVars
      /\ UNCHANGED <<nread, absIn, marks, written, upstreamDone, tagged, grant>>
  BY DEF WorkFlushed, WorkTailed, upstreamVars
<1>3. BlockTypes' /\ nwritten' \in Nat /\ nwritten <= nwritten'
  BY <1>1, <1>2 DEF BlockTypes
<1> QED BY <1>2, <1>3, CoreUntouched

\* reset(): the output positions start again, the marks do not.
LEMMA BlockResetKeeps ==
  ASSUME T >= L, BlockInv, BlockReset
  PROVE  BlockInv'
<1>1. BlockTypes
  BY DEF BlockInv
<1>2. /\ Reset /\ absIn' = 0 /\ absOut' = 0
      /\ UNCHANGED <<nread, nwritten, marks, written, upstreamDone, tagged, grant>>
  BY DEF BlockReset, upstreamVars
<1>3. BlockTypes' /\ nwritten' \in Nat /\ nwritten <= nwritten'
  BY <1>1, <1>2 DEF BlockTypes
<1>4. Next
  BY <1>2 DEF Next
<1> QED BY <1>2, <1>3, <1>4, CoreStepKeeps

LEMMA BlockStepKeeps == T >= L /\ BlockInv /\ [BlockNext]_vars => BlockInv'
<1> SUFFICES ASSUME T >= L, BlockInv, [BlockNext]_vars PROVE BlockInv'
  OBVIOUS
<1>1. CASE UNCHANGED blockVars /\ [Next]_resamplerVars
  <2>1. BlockTypes' /\ nwritten' \in Nat /\ nwritten <= nwritten'
    BY <1>1 DEF BlockInv, BlockTypes, blockVars, upstreamVars, positionVars
  <2>2. UNCHANGED <<nread, marks>>
    BY <1>1 DEF blockVars, positionVars
  <2> QED BY <1>1, <2>1, <2>2, CoreStepKeeps
<1>2. CASE UNCHANGED vars
  BY <1>1, <1>2 DEF vars
<1>3. CASE Work
  BY <1>3, OutsideKeeps, CallBegins, FlushEnds, WorkProcessedKeeps DEF Work
<1>4. CASE BlockNext /\ ~Work
  BY <1>1, <1>4, OutsideKeeps, BlockResetKeeps DEF BlockNext, Next
<1> QED BY <1>2, <1>3, <1>4

(* In the block as in the core alone: however the scheduler cuts the stream *)
(* into calls, whatever the tags and the resets between them, and however   *)
(* late upstream is seen to be done, each call's outputs are those of the   *)
(* definition (uwb_rational_resampler_ccf_65_48.cc, general_work).          *)
THEOREM BlockOutputs == T >= L => (BlockSpec => []OutputsAreUpfirdn)
<1> SUFFICES ASSUME T >= L PROVE BlockSpec => []OutputsAreUpfirdn
  OBVIOUS
<1>1. BlockInv => OutputsAreUpfirdn
  BY InvImplies DEF BlockInv
<1>2. BlockInv /\ [BlockNext]_vars => BlockInv'
  BY BlockStepKeeps
<1> QED BY <1>1, <1>2, BlockInitial, PTL DEF BlockSpec

(* Tags come out in the order they went in: the law that places a tag is    *)
(* monotone, a call clamps it among its own outputs, and a reset moves the  *)
(* law's origin but never nitems_written (propagate_tags).                  *)
THEOREM TagsOrdered == T >= L => (BlockSpec => []TagsInOrder)
<1> SUFFICES ASSUME T >= L PROVE BlockSpec => []TagsInOrder
  OBVIOUS
<1>1. BlockInv => TagsInOrder
  BY DEF BlockInv, MarksInv
<1>2. BlockInv /\ [BlockNext]_vars => BlockInv'
  BY BlockStepKeeps
<1> QED BY <1>1, <1>2, BlockInitial, PTL DEF BlockSpec

(* The pool under the block, which hands it the batches of process(): when  *)
(* it returns, each item has been computed once and no worker is at work.   *)
THEOREM BlockBatches == T >= L => (BlockSpec => []BatchComplete)
<1> SUFFICES ASSUME T >= L PROVE BlockSpec => []BatchComplete
  OBVIOUS
<1>1. BlockInv => BatchComplete
  BY DEF BlockInv, Inv, PoolInv, BatchInv, Idle, Counted, BatchComplete
<1>2. BlockInv /\ [BlockNext]_vars => BlockInv'
  BY BlockStepKeeps
<1> QED BY <1>1, <1>2, BlockInitial, PTL DEF BlockSpec

=============================================================================
