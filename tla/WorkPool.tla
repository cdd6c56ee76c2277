------------------------------ MODULE WorkPool ------------------------------
(***************************************************************************)
(* What a bounded asynchronous pool promises whoever posts jobs to it: a   *)
(* job is either refused at once or held, never more than Limit jobs are   *)
(* held, a held job is finished exactly once, and, when the pool runs      *)
(* fairly, every held job is finished.  How many threads do the work, what *)
(* they wait on, and in which order they finish does not appear.           *)
(***************************************************************************)
EXTENDS Naturals, FiniteSets

CONSTANTS Jobs,      \* the jobs anyone may post
          Limit      \* how many jobs the pool holds at most

VARIABLES held,      \* accepted and not finished
          finished   \* finished

vars == <<held, finished>>

TypeOK == held \subseteq Jobs /\ finished \subseteq Jobs

Init == held = {} /\ finished = {}

Accept(j) ==
  /\ j \notin held \cup finished
  /\ Cardinality(held) < Limit
  /\ held' = held \cup {j}
  /\ UNCHANGED finished

Finish(j) ==
  /\ j \in held
  /\ held' = held \ {j}
  /\ finished' = finished \cup {j}

Next == \E j \in Jobs : Accept(j) \/ Finish(j)

Spec == Init /\ [][Next]_vars

(* A pool that runs fairly leaves no job behind.                           *)
FairSpec == Spec /\ \A j \in Jobs : WF_vars(Finish(j))
=============================================================================
