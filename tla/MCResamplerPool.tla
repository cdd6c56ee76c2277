-------------------------- MODULE MCResamplerPool --------------------------
(* The pool on its own: a caller that posts batches of 1 .. MaxItems. *)
EXTENDS ResamplerPool

CONSTANTS MaxItems, MaxEpoch

MCNext ==
    \/ \E n \in 1 .. MaxItems : epoch < MaxEpoch /\ Post(n)
    \/ Main \/ SpuriousWake \/ Return \/ StopPool \/ RestartPool
    \/ \E w \in Worker : WorkerStep(w)

\* Threads that can run do; nobody is obliged to wake up spuriously.
FairSpec ==
    /\ PoolInit /\ [][MCNext]_poolVars
    /\ WF_poolVars(Main)
    /\ \A w \in Worker : WF_poolVars(WorkerStep(w))
=============================================================================
