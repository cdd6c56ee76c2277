--------------------------- MODULE ResamplerPool ---------------------------
(***************************************************************************)
(* The resampler core's persistent worker pool: pool_parallel_for splits a *)
(* batch of outputs into slices, one per worker, and returns when every    *)
(* worker has counted itself done.  The calling thread is "main".          *)
(*                                                                         *)
(* A condition variable is the set of threads asleep on it: testing the    *)
(* predicate and going to sleep are one step for a worker, which holds the *)
(* mutex over both, and so they are for main; but a worker raises done and *)
(* notifies WITHOUT the mutex, so that it can do both between main's test  *)
(* and main's sleep: the state "tested" makes that visible.                *)
(***************************************************************************)
EXTENDS Integers, FiniteSets

CONSTANT Workers        \* how many workers the pool has (set_num_workers)

ASSUME WorkersAssumption == Workers \in Nat \ {0}

Worker == 0 .. Workers - 1

VARIABLES
    epoch,      \* pool_epoch_
    done,       \* pool_done_
    items,      \* pool_job_n_
    posted,     \* pool_job_ is not null
    stop,       \* pool_stop_
    seen,       \* seen[w]: local_seen
    slice,      \* slice[w]: the indices of the job that w has copied
    at,         \* at[w]: where worker w is
    main,       \* where the calling thread is
    runs        \* runs[i]: how often item i of the batch has been computed

poolVars == <<epoch, done, items, posted, stop, seen, slice, at, main, runs>>

MinOf(a, b) == IF a <= b THEN a ELSE b

\* (Fault...: what a plausible bug would make of the definition that follows;
\* the specification does not use it.)  The chunk is rounded down.
FaultSliceOf(w, n) ==
    LET chunk == n \div Workers
    IN  (w * chunk + 1) .. MinOf(n, (w + 1) * chunk)

\* [lo, hi) of worker w in a job of n items, counted from 1
SliceOf(w, n) ==
    LET chunk == (n + Workers - 1) \div Workers
    IN  (w * chunk + 1) .. MinOf(n, (w + 1) * chunk)

PoolInit ==
    /\ epoch = 0 /\ done = 0 /\ items = 0
    /\ posted = FALSE /\ stop = FALSE
    /\ seen = [w \in Worker |-> 0]
    /\ slice = [w \in Worker |-> {}]
    /\ at = [w \in Worker |-> "look"]
    /\ main = "free"
    /\ runs = [i \in {} |-> 0]

WakeWorkers == [w \in Worker |-> IF at[w] = "asleep" THEN "look" ELSE at[w]]

---------------------------------------------------------------------------
(* pool_parallel_for, on the thread that calls process() *)

Post(n) ==
    /\ main = "free"
    /\ items' = n
    /\ posted' = TRUE
    /\ done' = 0
    /\ epoch' = epoch + 1
    /\ runs' = [i \in 1 .. n |-> 0]
    /\ main' = "posted"
    /\ UNCHANGED <<stop, seen, slice, at>>

NotifyWorkers ==
    /\ main = "posted"
    /\ at' = WakeWorkers
    /\ main' = "test"
    /\ UNCHANGED <<epoch, done, items, posted, stop, seen, slice, runs>>

\* wait(): the mutex is taken and the predicate evaluated ...
TestDone ==
    /\ main = "test"
    /\ IF done >= Workers
         THEN main' = "returned" /\ posted' = FALSE
         ELSE main' = "tested" /\ UNCHANGED posted
    /\ UNCHANGED <<epoch, done, items, stop, seen, slice, at, runs>>

\* ... and if it is false the thread goes to sleep and gives the mutex up.
SleepUntilDone ==
    /\ main = "tested"
    /\ main' = "asleep"
    /\ UNCHANGED <<epoch, done, items, posted, stop, seen, slice, at, runs>>

SpuriousWake ==
    /\ main = "asleep"
    /\ main' = "test"
    /\ UNCHANGED <<epoch, done, items, posted, stop, seen, slice, at, runs>>

Main == NotifyWorkers \/ TestDone \/ SleepUntilDone

---------------------------------------------------------------------------
(* A worker *)

MutexFree == main # "tested"

\* The predicate under the mutex: sleep, leave, or copy the job.
Look(w) ==
    /\ at[w] = "look"
    /\ MutexFree
    /\ IF epoch > seen[w]
         THEN /\ at' = [at EXCEPT ![w] = "run"]
              /\ seen' = [seen EXCEPT ![w] = epoch]
              /\ slice' = [slice EXCEPT ![w] = IF posted THEN SliceOf(w, items) ELSE {}]
         ELSE /\ at' = [at EXCEPT ![w] = IF stop THEN "gone" ELSE "asleep"]
              /\ UNCHANGED <<seen, slice>>
    /\ UNCHANGED <<epoch, done, items, posted, stop, main, runs>>

Run(w) ==
    /\ at[w] = "run"
    /\ runs' = [i \in DOMAIN runs |-> runs[i] + IF i \in slice[w] THEN 1 ELSE 0]
    /\ at' = [at EXCEPT ![w] = "count"]
    /\ UNCHANGED <<epoch, done, items, posted, stop, seen, slice, main>>

CountDone(w) ==
    /\ at[w] = "count"
    /\ done' = done + 1
    /\ at' = [at EXCEPT ![w] = IF done + 1 >= Workers THEN "ring" ELSE "look"]
    /\ UNCHANGED <<epoch, items, posted, stop, seen, slice, main, runs>>

\* notify_one without the mutex: it is lost unless main sleeps already
Ring(w) ==
    /\ at[w] = "ring"
    /\ at' = [at EXCEPT ![w] = "look"]
    /\ main' = IF main = "asleep" THEN "test" ELSE main
    /\ UNCHANGED <<epoch, done, items, posted, stop, seen, slice, runs>>

WorkerStep(w) == Look(w) \/ Run(w) \/ CountDone(w) \/ Ring(w)

---------------------------------------------------------------------------
(* set_num_workers, with process() not running: stop_pool, start_pool *)

StopPool ==
    /\ main = "free"
    /\ stop' = TRUE
    /\ at' = WakeWorkers
    /\ main' = "join"
    /\ UNCHANGED <<epoch, done, items, posted, seen, slice, runs>>

RestartPool ==
    /\ main = "join"
    /\ \A w \in Worker : at[w] = "gone"
    /\ stop' = FALSE
    /\ epoch' = 0
    /\ seen' = [w \in Worker |-> 0]
    /\ at' = [w \in Worker |-> "look"]
    /\ main' = "free"
    /\ UNCHANGED <<done, items, posted, slice, runs>>

---------------------------------------------------------------------------
\* Whoever uses the pool takes the result with this step.
Return ==
    /\ main = "returned"
    /\ main' = "free"
    /\ UNCHANGED <<epoch, done, items, posted, stop, seen, slice, at, runs>>

PoolNext ==
    \/ \E n \in Nat \ {0} : Post(n)
    \/ Main \/ SpuriousWake \/ Return \/ StopPool \/ RestartPool
    \/ \E w \in Worker : WorkerStep(w)

PoolSpec == PoolInit /\ [][PoolNext]_poolVars

---------------------------------------------------------------------------
(* When pool_parallel_for returns, each item of the batch has been computed
   exactly once and no worker is computing or still to compute one: the
   caller's buffers, which the workers write through a copied pointer, are
   its own again. *)
BatchComplete ==
    main \in {"returned", "free", "join"} =>
        /\ \A i \in DOMAIN runs : runs[i] = 1
        /\ \A w \in Worker : at[w] # "run"

(* process() returns: a batch that has been posted is finished
   (uwb_rational_resampler_core.h, "each worker runs once per epoch"). *)
BatchReturns == main = "posted" ~> main = "returned"
=============================================================================
