------------------------ MODULE MCScheduledExtractor ------------------------
(* A small instance of ScheduledExtractor: two slots, two schedules a      *)
(* period apart, packets two samples late on the first with a period one   *)
(* sample longer than nominal.                                             *)
EXTENDS ScheduledExtractor, TLC

First  == [t0 |-> 10, T |-> 10]
Second == [t0 |-> 20, T |-> 10]
TwoSeeds == {First, Second}
Packets == [t0 |-> 12, T |-> 11]

\* No definition names a slot.
Slots == Permutations(Handle)
=============================================================================
