----------------------- MODULE MCScheduledWindowCore -----------------------
(* Small instances of ScheduledWindowCore.  Times are in half samples, so  *)
(* that the period is not a whole number of samples.                       *)
EXTENDS ScheduledWindowCore, TLC

Narrow == [pre |-> 1, capture |-> 1, post |-> 0]
Wide   == [pre |-> 1, capture |-> 1, post |-> 1]
TwoGuards == {Narrow, Wide}

\* t0 = 1.5, T = 4.5; a soft update may bring t0 = 1, T = 5, which moves a
\* window by one sample, less than its length.
Seed        == [first |-> 3, period |-> 9]
OneSchedule == {Seed}
SoftUpdates == {[first |-> 2, period |-> 10]}

\* No definition names a slot: slots are interchangeable.
Slots == Permutations(Handle)
=============================================================================
