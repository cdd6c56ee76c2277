---------------------------- MODULE ScheduleLease ----------------------------
(***************************************************************************)
(* What the acquisition tracker promises the rest of the receiver: at any  *)
(* time it either hunts or holds one schedule, named by its origin; every  *)
(* label it hands out (a version) names one thing only, a hunt or one      *)
(* schedule, because the version grows whenever the holder changes; and a  *)
(* schedule is never swapped for another without being given up first.     *)
(***************************************************************************)
EXTENDS Integers

CONSTANTS Origin, NoOrigin, Version

VARIABLES
  holder,     \* the origin of the schedule held, or NoOrigin
  version,    \* the label of everything published now
  history     \* every <<version, holder>> there has been

lvars == <<holder, version, history>>

LInit == /\ holder = NoOrigin
         /\ version \in Version
         /\ history = {<<version, holder>>}

Become(h) == /\ version' \in Version
             /\ version' > version
             /\ holder' = h
             /\ history' = history \cup {<<version', holder'>>}

\* A verified packet starts a schedule.
Grant == holder = NoOrigin /\ \E o \in Origin : Become(o)

\* The schedule is given up and hunting starts again.
Revoke == holder # NoOrigin /\ Become(NoOrigin)

\* The same holder goes on under a new label.
Relabel == Become(holder)

LNext == Grant \/ Revoke \/ Relabel

LSpec == LInit /\ [][LNext]_lvars

\* A label names one hunt or one schedule: two uses of a version agree on
\* the schedule they mean (acquisition_epoch and schedule_generation are
\* what on_lock_obs rejects an observation by).
LabelNamesOneSchedule ==
  \A a, b \in history : a[1] = b[1] => a[2] = b[2]
=============================================================================
