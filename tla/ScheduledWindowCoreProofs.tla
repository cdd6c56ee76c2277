--------------------- MODULE ScheduledWindowCoreProofs ---------------------
(***************************************************************************)
(* For every pool, every stream and every interleaving of the work thread  *)
(* with the worker: a slot has exactly one owner, the active handle is     *)
(* valid exactly while a window is being copied, nobody touches a slot the *)
(* worker holds, and the windows delivered are whole, disjoint, in order   *)
(* and accounted for.                                                      *)
(***************************************************************************)
EXTENDS ScheduledWindowCore, TLAPS

-----------------------------------------------------------------------------
(* Queues: sequences without repetitions that are pushed at one end and      *)
(* popped at the other.                                                      *)

\* What Append does to the elements of a sequence without repetitions.
LEMMA AppendRange ==
  ASSUME NEW S, NEW s \in Seq(S), NEW e \in S, e \notin Range(s),
         \A i, j \in DOMAIN s : i # j => s[i] # s[j]
  PROVE  /\ Append(s, e) \in Seq(S)
         /\ Range(Append(s, e)) = Range(s) \cup {e}
         /\ \A i, j \in DOMAIN Append(s, e) : i # j => Append(s, e)[i] # Append(s, e)[j]
<1> DEFINE t == Append(s, e)
<1>1. t \in Seq(S) /\ Len(t) = Len(s) + 1 /\ DOMAIN t = 1..(Len(s) + 1)
  OBVIOUS
<1>2. DOMAIN s = 1..Len(s) /\ Len(s) \in Nat
  OBVIOUS
<1>3. \A i \in 1..Len(s) : t[i] = s[i]
  OBVIOUS
<1>4. t[Len(s) + 1] = e
  OBVIOUS
<1>5. Range(t) = Range(s) \cup {e}
  <2>1. Range(t) \subseteq Range(s) \cup {e}
    BY <1>1, <1>2, <1>3, <1>4 DEF Range
  <2>2. Range(s) \subseteq Range(t)
    BY <1>1, <1>2, <1>3 DEF Range
  <2>3. e \in Range(t)
    BY <1>1, <1>2, <1>4 DEF Range
  <2> QED BY <2>1, <2>2, <2>3
<1>6. \A i \in 1..Len(s) : s[i] # e
  BY <1>2 DEF Range
<1>7. \A i, j \in DOMAIN t : i # j => t[i] # t[j]
  BY <1>1, <1>2, <1>3, <1>4, <1>6
<1> QED BY <1>1, <1>5, <1>7

\* What Tail does to them.
LEMMA TailRange ==
  ASSUME NEW S, NEW s \in Seq(S), s # <<>>,
         \A i, j \in DOMAIN s : i # j => s[i] # s[j]
  PROVE  /\ Tail(s) \in Seq(S) /\ Head(s) \in Range(s) /\ Range(s) \subseteq S
         /\ Range(Tail(s)) = Range(s) \ {Head(s)}
         /\ \A i, j \in DOMAIN Tail(s) : i # j => Tail(s)[i] # Tail(s)[j]
<1> DEFINE t == Tail(s)
<1>1. t \in Seq(S) /\ DOMAIN t = 1..(Len(s) - 1) /\ Len(s) \in Nat \ {0}
  OBVIOUS
<1>2. DOMAIN s = 1..Len(s) /\ Head(s) = s[1]
  OBVIOUS
<1>3. \A i \in 1..(Len(s) - 1) : t[i] = s[i + 1]
  OBVIOUS
<1>4. Head(s) \in Range(s) /\ Range(s) \subseteq S
  BY <1>1, <1>2 DEF Range
<1>5. Range(t) \subseteq Range(s) \ {Head(s)}
  <2> SUFFICES ASSUME NEW i \in DOMAIN t PROVE t[i] \in Range(s) /\ t[i] # s[1]
    BY <1>2 DEF Range
  <2>1. i + 1 \in DOMAIN s /\ i + 1 # 1 /\ t[i] = s[i + 1] /\ 1 \in DOMAIN s
    BY <1>1, <1>2, <1>3
  <2> QED BY <2>1 DEF Range
<1>6. Range(s) \ {Head(s)} \subseteq Range(t)
  <2> SUFFICES ASSUME NEW i \in DOMAIN s, s[i] # s[1] PROVE s[i] \in Range(t)
    BY <1>2 DEF Range
  <2>1. i - 1 \in 1..(Len(s) - 1) /\ i = (i - 1) + 1
    BY <1>1, <1>2
  <2>2. t[i - 1] = s[i]
    BY <2>1, <1>3
  <2> QED BY <2>1, <2>2, <1>1 DEF Range
<1>7. \A i, j \in DOMAIN t : i # j => t[i] # t[j]
  BY <1>1, <1>2, <1>3
<1> QED BY <1>1, <1>4, <1>5, <1>6, <1>7

-----------------------------------------------------------------------------
\* The inductive invariant: ownership needs the active handle to be valid
\* where process_chunk uses it, which is CopyHasActive.
OwnInv == PoolType /\ HandleOwnership /\ CopyHasActive

ReleasingType == releasing \in checkedOut \cup {kInvalid}
Owned == /\ free \subseteq Handle /\ checkedOut \subseteq Handle
         /\ ready \in Seq(Handle) /\ active \in Handle \cup {kInvalid}
         /\ HandleOwnership

\* abort_active_window keeps every slot owned once and leaves none active.
LEMMA AbortOwned ==
  ASSUME Owned, AbortActive
  PROVE  Owned' /\ active' = kInvalid /\ checkedOut' = checkedOut
<1> USE PoolAssumption
<1>1. ready' = ready /\ checkedOut' = checkedOut /\ active' = kInvalid
  BY DEF AbortActive
<1>2. Range(ready)' = Range(ready)
  BY <1>1 DEF Range
<1>3. Range(ready) \subseteq Handle
  BY DEF Owned, Range
<1>4. CASE active = kInvalid
  BY <1>1, <1>2, <1>3, <1>4 DEF Owned, HandleOwnership, AbortActive
<1>5. CASE active # kInvalid
  <2>1. free' = free \cup {active} /\ active \in Handle
    BY <1>5 DEF AbortActive, Owned
  <2> QED BY <1>1, <1>2, <1>3, <1>5, <2>1 DEF Owned, HandleOwnership
<1> QED BY <1>4, <1>5

\* configure and reset rebuild the pool around the worker's handles.
LEMMA RebuildOwned ==
  ASSUME Owned, RebuildPool
  PROVE  Owned' /\ active' = kInvalid /\ checkedOut' = checkedOut
<1> USE PoolAssumption
<1>1. /\ free' = Handle \ checkedOut /\ ready' = <<>> /\ active' = kInvalid
      /\ checkedOut' = checkedOut
  BY DEF RebuildPool, rebuild_free_excluding_checked_out_locked
<1>2. Range(ready)' = {} /\ DOMAIN ready' = {} /\ ready' \in Seq(Handle)
  BY <1>1 DEF Range
<1> QED BY <1>1, <1>2 DEF Owned, HandleOwnership

\* finish_active_window moves the active slot to the ready ring, or back to
\* the free list when the ring is full.
LEMMA FinishOwned ==
  ASSUME Owned, active # kInvalid, NEW w, NEW partial, Finish(w, partial)
  PROVE  Owned' /\ active' = kInvalid /\ checkedOut' = checkedOut
<1> USE PoolAssumption
<1>1. active \in Handle /\ active \notin Range(ready) /\ active' = kInvalid
      /\ checkedOut' = checkedOut
  BY DEF Owned, HandleOwnership, Finish
<1>2. Range(ready) \subseteq Handle
  BY DEF Owned, Range
<1>3. CASE Len(ready) < kMaxPoolSize
  <2>1. ready' = Append(ready, active) /\ free' = free
    BY <1>3 DEF Finish
  <2>2. /\ Append(ready, active) \in Seq(Handle)
        /\ Range(Append(ready, active)) = Range(ready) \cup {active}
        /\ \A i, j \in DOMAIN Append(ready, active) :
             i # j => Append(ready, active)[i] # Append(ready, active)[j]
    BY <1>1, AppendRange DEF Owned, HandleOwnership
  <2>3. Range(ready)' = Range(ready) \cup {active}
    BY <2>1, <2>2 DEF Range
  <2> QED BY <1>1, <1>2, <2>1, <2>2, <2>3 DEF Owned, HandleOwnership
<1>4. CASE ~(Len(ready) < kMaxPoolSize)
  <2>1. ready' = ready /\ free' = free \cup {active}
    BY <1>4 DEF Finish
  <2>2. Range(ready)' = Range(ready)
    BY <2>1 DEF Range
  <2> QED BY <1>1, <1>2, <2>1, <2>2 DEF Owned, HandleOwnership
<1> QED BY <1>3, <1>4

\* Nothing changes hands in the steps that leave the pool's ownership alone.
LEMMA OwnedUnchanged ==
  ASSUME Owned, UNCHANGED <<free, ready, checkedOut, active>>
  PROVE  Owned'
<1>1. Range(ready)' = Range(ready)
  BY DEF Range
<1> QED BY <1>1 DEF Owned, HandleOwnership

LEMMA OwnInvInit == Init => OwnInv
<1> SUFFICES ASSUME Init PROVE OwnInv
  OBVIOUS
<1>1. Range(ready) = {} /\ DOMAIN ready = {} /\ ready \in Seq(Handle)
  BY DEF Init, Range
<1> QED BY <1>1, PoolAssumption DEF Init, OwnInv, PoolType, HandleOwnership, CopyHasActive

LEMMA OwnInvStep == OwnInv /\ [Next]_vars => OwnInv'
<1> SUFFICES ASSUME OwnInv, [Next]_vars PROVE OwnInv'
  OBVIOUS
<1> USE PoolAssumption
<1>0. Owned /\ ReleasingType /\ CopyHasActive
  BY DEF OwnInv, PoolType, Owned, ReleasingType
<1>g. ASSUME Owned', ReleasingType', CopyHasActive' PROVE OwnInv'
  BY <1>g DEF OwnInv, PoolType, Owned, ReleasingType
<1>w. WaitOrPaused # "CopyWindow"
  BY DEF WaitOrPaused
<1>1. ASSUME NEW n, NEW a, process_chunk(n, a) PROVE OwnInv'
  <2>1. releasing' = releasing
    BY <1>1 DEF process_chunk
  <2>2. CASE UNCHANGED <<poolVars, state>>
    <3>1. UNCHANGED <<free, ready, checkedOut, active, state>>
      BY <2>2 DEF poolVars
    <3>2. Owned'
      BY <1>0, <3>1, OwnedUnchanged
    <3> QED BY <1>0, <1>g, <2>1, <3>1, <3>2 DEF ReleasingType, CopyHasActive
  <2>3. CASE AbortActive /\ state' # "CopyWindow"
    BY <1>0, <1>g, <2>1, <2>3, AbortOwned DEF ReleasingType, CopyHasActive
  <2> QED BY <1>0, <1>1, <2>2, <2>3 DEF process_chunk, NoteJump, CopyHasActive
<1>2. ASSUME SkipChunk \/ WaitForWindow \/ StarveWindow PROVE OwnInv'
  <2>1. UNCHANGED <<free, ready, checkedOut, active, state, releasing>>
    BY <1>2 DEF SkipChunk, WaitForWindow, StarveWindow, poolVars
  <2> QED BY <1>0, <1>g, <2>1, OwnedUnchanged DEF ReleasingType, CopyHasActive
<1>3. ASSUME NEW h \in Handle, begin_window(h) PROVE OwnInv'
  <2>1. /\ h \in free /\ free' = free \ {h} /\ active' = h /\ state' = "CopyWindow"
        /\ UNCHANGED <<ready, checkedOut, releasing>> /\ state = "WaitWindow"
    BY <1>3 DEF begin_window, InWait
  <2>2. active = kInvalid
    BY <1>0, <2>1 DEF CopyHasActive
  <2>3. Range(ready)' = Range(ready)
    BY <2>1 DEF Range
  <2>4. Owned'
    BY <1>0, <2>1, <2>2, <2>3 DEF Owned, HandleOwnership
  <2> QED BY <1>0, <1>g, <2>1, <2>4 DEF ReleasingType, CopyHasActive
<1>4. ASSUME CopyWindow PROVE OwnInv'
  <2>1. active # kInvalid /\ state = "CopyWindow" /\ releasing' = releasing
    BY <1>0, <1>4 DEF CopyWindow, CopyHasActive
  <2>2. CASE UNCHANGED <<free, ready, checkedOut, active, state>>
    BY <1>0, <1>g, <2>1, <2>2, OwnedUnchanged DEF ReleasingType, CopyHasActive
  <2>3. ASSUME NEW w, NEW p, Finish(w, p) PROVE OwnInv'
    <3>1. state' # "CopyWindow"
      BY <1>w, <2>3 DEF Finish
    <3> QED BY <1>0, <1>g, <2>1, <2>3, <3>1, FinishOwned DEF ReleasingType, CopyHasActive
  <2> QED BY <1>4, <2>2, <2>3 DEF CopyWindow
<1>5. ASSUME take_window PROVE OwnInv'
  <2>1. /\ ready # <<>> /\ checkedOut' = checkedOut \cup {Head(ready)}
        /\ ready' = Tail(ready) /\ UNCHANGED <<free, active, state, releasing>>
    BY <1>5 DEF take_window, schedVars
  <2>2. /\ Tail(ready) \in Seq(Handle) /\ Head(ready) \in Range(ready)
        /\ Range(ready) \subseteq Handle
        /\ Range(Tail(ready)) = Range(ready) \ {Head(ready)}
        /\ \A i, j \in DOMAIN Tail(ready) : i # j => Tail(ready)[i] # Tail(ready)[j]
    BY <1>0, <2>1, TailRange DEF Owned, HandleOwnership
  <2>3. Range(ready)' = Range(ready) \ {Head(ready)}
    BY <2>1, <2>2 DEF Range
  <2>4. Owned'
    BY <1>0, <2>1, <2>2, <2>3 DEF Owned, HandleOwnership
  <2> QED BY <1>0, <1>g, <2>1, <2>4 DEF ReleasingType, CopyHasActive
<1>6. ASSUME NEW h \in Handle, ClearSlot(h) PROVE OwnInv'
  <2>1. UNCHANGED <<free, ready, checkedOut, active, state>>
        /\ h \in checkedOut /\ releasing' = h
    BY <1>6 DEF ClearSlot, schedVars
  <2> QED BY <1>0, <1>g, <2>1, OwnedUnchanged DEF ReleasingType, CopyHasActive
<1>7. ASSUME PushFree PROVE OwnInv'
  <2>1. /\ releasing \in checkedOut /\ releasing' = kInvalid
        /\ checkedOut' = checkedOut \ {releasing} /\ free' = free \cup {releasing}
        /\ UNCHANGED <<ready, active, state>>
    BY <1>0, <1>7 DEF PushFree, schedVars, ReleasingType
  <2>2. Range(ready)' = Range(ready)
    BY <2>1 DEF Range
  <2>3. Owned'
    BY <1>0, <2>1, <2>2 DEF Owned, HandleOwnership
  <2> QED BY <1>0, <1>g, <2>1, <2>3 DEF ReleasingType, CopyHasActive
<1>8. ASSUME NEW s, set_schedule(s) PROVE OwnInv'
  <2>1. AbortActive /\ state' # "CopyWindow" /\ releasing' = releasing
    BY <1>8, <1>w DEF set_schedule
  <2> QED BY <1>0, <1>g, <2>1, AbortOwned DEF ReleasingType, CopyHasActive
<1>9. ASSUME NEW g, ChangeGuards(g) PROVE OwnInv'
  <2>1. CASE state = "Unlocked"
    <3>1. UNCHANGED <<free, ready, checkedOut, active, state, releasing>>
      BY <1>9, <2>1 DEF ChangeGuards, poolVars
    <3> QED BY <1>0, <1>g, <3>1, OwnedUnchanged DEF ReleasingType, CopyHasActive
  <2>2. CASE state # "Unlocked"
    <3>1. AbortActive /\ state' # "CopyWindow" /\ releasing' = releasing
      BY <1>9, <1>w, <2>2 DEF ChangeGuards
    <3> QED BY <1>0, <1>g, <3>1, AbortOwned DEF ReleasingType, CopyHasActive
  <2> QED BY <2>1, <2>2
<1>10. ASSUME NEW s, NEW f, update_locked_params(s, f) PROVE OwnInv'
  <2>1. UNCHANGED <<free, ready, checkedOut, active, state, releasing>>
    BY <1>10 DEF update_locked_params, poolVars
  <2> QED BY <1>0, <1>g, <2>1, OwnedUnchanged DEF ReleasingType, CopyHasActive
<1>11. ASSUME pause PROVE OwnInv'
  <2>1. AbortActive /\ state' # "CopyWindow" /\ releasing' = releasing
    BY <1>11 DEF pause
  <2> QED BY <1>0, <1>g, <2>1, AbortOwned DEF ReleasingType, CopyHasActive
<1>12. ASSUME resume PROVE OwnInv'
  <2>1. UNCHANGED <<free, ready, checkedOut, active, releasing>>
        /\ state # "CopyWindow" /\ state' # "CopyWindow"
    BY <1>12 DEF resume, poolVars
  <2> QED BY <1>0, <1>g, <2>1, OwnedUnchanged DEF ReleasingType, CopyHasActive
<1>13. ASSUME RebuildPool, state' = "Unlocked", releasing' = releasing PROVE OwnInv'
  BY <1>0, <1>g, <1>13, RebuildOwned DEF ReleasingType, CopyHasActive
<1>14. ASSUME flush_eos PROVE OwnInv'
  <2>1. releasing' = releasing
    BY <1>14 DEF flush_eos
  <2>2. CASE active = kInvalid
    <3>1. UNCHANGED <<free, ready, checkedOut, active, state>>
      BY <1>14, <2>2 DEF flush_eos, poolVars
    <3> QED BY <1>0, <1>g, <2>1, <3>1, OwnedUnchanged DEF ReleasingType, CopyHasActive
  <2>3. CASE active # kInvalid /\ active' = kInvalid /\ free' = free \cup {active}
             /\ UNCHANGED <<ready, checkedOut>> /\ state' = "WaitWindow"
    <3>1. Range(ready)' = Range(ready)
      BY <2>3 DEF Range
    <3>2. Owned'
      BY <1>0, <2>3, <3>1 DEF Owned, HandleOwnership
    <3> QED BY <1>0, <1>g, <2>1, <2>3, <3>2 DEF ReleasingType, CopyHasActive
  <2>4. ASSUME active # kInvalid, NEW w, NEW p, Finish(w, p) PROVE OwnInv'
    <3>1. state' # "CopyWindow"
      BY <1>w, <2>4 DEF Finish
    <3> QED BY <1>0, <1>g, <2>1, <2>4, <3>1, FinishOwned DEF ReleasingType, CopyHasActive
  <2> QED BY <1>14, <2>2, <2>3, <2>4 DEF flush_eos
<1>15. CASE UNCHANGED vars
  <2>1. UNCHANGED <<free, ready, checkedOut, active, state, releasing>>
    BY <1>15 DEF vars
  <2> QED BY <1>0, <1>g, <2>1, OwnedUnchanged DEF ReleasingType, CopyHasActive
<1>16. CASE Control
  <2>1. CASE reset
    BY <1>13, <2>1 DEF reset
  <2>2. ASSUME NEW s, NEW g, configure(s, g) PROVE OwnInv'
    BY <1>13, <2>2 DEF configure
  <2>3. ASSUME NEW g, update_guards_keep_generation(g) \/ set_guards(g) PROVE OwnInv'
    BY <1>9, <2>3 DEF update_guards_keep_generation, set_guards
  <2> QED BY <1>8, <1>10, <1>11, <1>12, <1>14, <1>16, <2>1, <2>2, <2>3 DEF Control
<1> QED BY <1>1, <1>2, <1>3, <1>4, <1>5, <1>6, <1>7, <1>15, <1>16
       DEF Next, Stream, Loop, Worker

\* Every slot of the pool has exactly one owner, whatever the worker and the
\* work thread do and however many slots, chunks and generations there are.
THEOREM SlotsOwnedOnce == Spec => []HandleOwnership
<1>1. OwnInv => HandleOwnership
  BY DEF OwnInv
<1> QED BY OwnInvInit, OwnInvStep, <1>1, PTL DEF Spec

\* pool_[active_] is never indexed with kInvalid, and no window in hand is
\* forgotten by an operation that leaves CopyWindow.
THEOREM ActiveHandleValid == Spec => []CopyHasActive
<1>1. OwnInv => CopyHasActive
  BY DEF OwnInv
<1> QED BY OwnInvInit, OwnInvStep, <1>1, PTL DEF Spec

-----------------------------------------------------------------------------
(* What the windows hold.                                                  *)

\* The samples of a window are consecutive from its start.
Consecutive(w) == \A i \in DOMAIN w.data : w.data[i] = w.start + i - 1

\* A completed window: WindowContent, of one slot.
Whole(w) ==
  /\ w.count = Len(w.data)
  /\ Consecutive(w)
  /\ w.start + w.count <= w.end
  /\ w.start + w.count < w.end => w.partial

\* A window being filled: the next sample of the stream is its next sample.
Filling(w) ==
  /\ Consecutive(w)
  /\ w.end = w.start + w.count /\ Len(w.data) <= w.count
  /\ w.start + Len(w.data) = abs_cursor
  /\ w.gen = generation

\* A completed window lies behind the cursor, and before the one being filled.
Behind(w) ==
  /\ w.gen <= generation
  /\ w.gen = generation => w.start + w.count <= abs_cursor
  /\ active # kInvalid => Before(w, pool[active])

\* The chunk in progress is what follows the cursor; the source is never
\* behind it.
InStream ==
  /\ abs_cursor + chunk.left <= stream
  /\ chunk.left > 0 => chunk.pos = abs_cursor

NumberType ==
  /\ stats \in [scheduled: Nat, completed: Nat, partial: Nat, dropped: Nat]
  /\ abandoned \in Nat /\ calm \in BOOLEAN

NumbersInv == ScheduleType /\ NumberType /\ InStream

SlotsInv ==
  /\ pool \in [Handle -> Slot]
  /\ active # kInvalid => Filling(pool[active])
  /\ \A h \in Delivered : Whole(pool[h]) /\ Behind(pool[h])
  /\ WindowsDisjoint

CoreInv == OwnInv /\ NumbersInv /\ SlotsInv /\ WindowsAccounted

-----------------------------------------------------------------------------
(* The schedule arithmetic.                                                *)

ScheduleNumbers == [first: Int, period: Nat \ {0}]

LEMMA Division ==
  ASSUME NEW a \in Int, NEW b \in Nat \ {0}
  PROVE  /\ a \div b \in Int
         /\ b * (a \div b) <= a /\ a < b * (a \div b) + b
         /\ a >= 0 => a \div b \in Nat
OBVIOUS

\* Rounding moves no time across a whole sample.
LEMMA LlroundKeeps ==
  ASSUME NEW x \in Int
  PROVE  /\ Llround(x) \in Int
         /\ \A n \in Nat : x >= n * Den => Llround(x) >= n
<1>1. Den \in Nat \ {0} /\ 2 * Den \in Nat \ {0}
  BY DenAssumption
<1>2. Llround(x) \in Int
  <2>1. (2 * x + Den) \div (2 * Den) \in Int /\ (Den - 2 * x) \div (2 * Den) \in Int
    BY <1>1, Division
  <2> QED BY <2>1 DEF Llround
<1>3. ASSUME NEW n \in Nat, x >= n * Den PROVE Llround(x) >= n
  <2>1. n * Den \in Nat
    BY <1>1
  <2> DEFINE q == (2 * x + Den) \div (2 * Den)
  <2>2. Llround(x) = q
    BY <1>3, <2>1 DEF Llround
  <2>3. q \in Int /\ 2 * x + Den < (2 * Den) * q + 2 * Den
    <3>1. 2 * x + Den \in Int
      BY <1>1
    <3> QED BY <1>1, <3>1, Division
  <2> HIDE DEF q
  <2>4. ASSUME q < n PROVE FALSE
    <3>1. (2 * Den) * (q + 1) <= (2 * Den) * n
      BY <1>1, <2>3, <2>4
    <3>2. (2 * Den) * (q + 1) = (2 * Den) * q + 2 * Den /\ (2 * Den) * n = 2 * (n * Den)
      BY <1>1, <2>3
    <3>3. (2 * Den) * q \in Int
      BY <1>1, <2>3
    <3> QED BY <1>1, <1>3, <2>1, <2>3, <3>1, <3>2, <3>3
  <2> QED BY <2>2, <2>3, <2>4
<1> QED BY <1>2, <1>3

\* A window is where the samples are, and is not empty.
LEMMA BoundsTyped ==
  ASSUME NEW s \in ScheduleNumbers, NEW g \in Guards, NEW k \in Nat
  PROVE  LET b == window_bounds_for_slot(s, g, k)
         IN  b.predicted \in Int /\ b.start \in Nat /\ b.end \in Nat
             /\ b.start < b.end /\ b.start >= b.predicted - g.pre
<1> DEFINE x == s.first + k * s.period
<1>1. x \in Int
  BY DEF ScheduleNumbers
<1>2. predicted_start_sample(s, k) \in Int
  BY <1>1, LlroundKeeps DEF predicted_start_sample
<1>3. g.pre \in Nat /\ window_capacity(g) \in Nat \ {0}
  BY GuardAssumption DEF window_capacity
<1> QED BY <1>2, <1>3 DEF window_bounds_for_slot, GeoMax

\* The loop of advance_k_to_abs: one index past the estimate it has found a
\* window that has not ended, so its result is an index whose window is still
\* open or to come.
LEMMA AdvanceFindsOpen ==
  ASSUME NEW s \in ScheduleNumbers, NEW g \in Guards, NEW abs \in Nat
  PROVE  /\ advance_k_to_abs(s, g, abs) \in Nat
         /\ window_bounds_for_slot(s, g, advance_k_to_abs(s, g, abs)).end > abs
<1> DEFINE target == (abs + g.pre) * Den
           est == (target - s.first) \div s.period
<1>1. g.pre \in Nat /\ Den \in Nat \ {0} /\ s.first \in Int /\ s.period \in Nat \ {0}
  BY GuardAssumption, DenAssumption DEF ScheduleNumbers
<1>2. target \in Nat
  BY <1>1
<1>3. CASE target < s.first
  <2>1. advance_k_to_abs(s, g, abs) = 0
    BY <1>3 DEF advance_k_to_abs
  <2>2. predicted_start_sample(s, 0) = Llround(s.first)
    BY <1>1 DEF predicted_start_sample
  <2>3. Llround(s.first) >= abs + g.pre
    BY <1>1, <1>2, <1>3, LlroundKeeps
  <2>4. window_bounds_for_slot(s, g, 0).predicted >= abs + g.pre
    BY <2>2, <2>3 DEF window_bounds_for_slot
  <2> QED BY <1>1, <2>1, <2>4, BoundsTyped
<1>4. CASE ~(target < s.first)
  <2>1. target - s.first \in Nat /\ target - s.first \in Int
    BY <1>1, <1>2, <1>4
  <2> HIDE DEF target
  <2>2. est \in Nat /\ target - s.first < s.period * est + s.period
    <3>1. /\ target - s.first < s.period * est + s.period
          /\ target - s.first >= 0 => est \in Nat
      BY <1>1, <2>1, Division, Zenon
    <3> QED BY <2>1, <3>1
  <2>3. advance_k_to_abs(s, g, abs)
          = IF window_bounds_for_slot(s, g, est).end > abs THEN est ELSE est + 1
    BY <1>4 DEF advance_k_to_abs, target
  <2>4. predicted_start_sample(s, est + 1) >= abs + g.pre
    <3> HIDE DEF est
    <3>1. (est + 1) * s.period = s.period * est + s.period /\ s.period * est \in Int
      BY <1>1, <2>2
    <3>2. s.first + (est + 1) * s.period \in Int
          /\ s.first + (est + 1) * s.period >= target
      BY <1>1, <1>2, <2>1, <2>2, <3>1
    <3> QED BY <1>1, <3>2, LlroundKeeps DEF predicted_start_sample, target
  <2>5. window_bounds_for_slot(s, g, est + 1).predicted >= abs + g.pre
    BY <2>4 DEF window_bounds_for_slot
  <2> HIDE DEF est
  <2>6. window_bounds_for_slot(s, g, est + 1).end > abs
    BY <1>1, <2>2, <2>5, BoundsTyped
  <2> QED BY <2>2, <2>3, <2>6
<1> QED BY <1>3, <1>4

-----------------------------------------------------------------------------
(* The cursor follows the chunk.                                           *)

ChunkType == abs_cursor \in Nat /\ chunk \in [pos: Nat, left: Nat] /\ stream \in Nat

\* Time does not go back within a generation.
Onward ==
  /\ generation' >= generation
  /\ generation' = generation => abs_cursor' >= abs_cursor

LEMMA ConsumeKeeps ==
  ASSUME ChunkType, InStream, NEW n \in 0..chunk.left, Consume(n), stream' = stream
  PROVE  ChunkType' /\ InStream' /\ abs_cursor' = abs_cursor + n
BY DEF ChunkType, InStream, Consume

\* What CopyWindow takes, and what the skips of the other states take.
LEMMA TakeBounds ==
  ASSUME NEW a \in Int, NEW b \in Int, NEW left \in Nat
  PROVE  LET take == GeoMin(GeoMin(GeoMax(a, 0), GeoMax(b, 0)), left)
         IN  take \in 0..left /\ take <= GeoMax(a, 0) /\ take <= GeoMax(b, 0)
BY DEF GeoMin, GeoMax

\* The numbers of the state, step by step; the slots matter only for how much
\* of a chunk the active window takes.
NumbersStep == NumbersInv' /\ Onward

LEMMA NumbersOfJump ==
  ASSUME OwnInv, NumbersInv, NEW n \in Nat, NEW gap \in Nat, process_chunk(n, stream + gap)
  PROVE  NumbersStep
<1> DEFINE a == stream + gap
<1>1. /\ abs_cursor \in Nat /\ chunk \in [pos: Nat, left: Nat] /\ stream \in Nat
      /\ abs_cursor <= stream /\ a \in Nat /\ a >= stream /\ generation \in Nat
  BY DEF NumbersInv, ScheduleType, InStream
<1>2. /\ chunk' = [pos |-> a, left |-> n] /\ stream' = a + n /\ abs_cursor' = a
      /\ UNCHANGED <<sched, guard, paused, generation, stats, eos>> /\ NoteJump(a)
  BY DEF process_chunk
<1> HIDE DEF a
<1>3. /\ next_k' \in Nat /\ state' \in {"Unlocked", "WaitWindow", "CopyWindow", "Paused"}
      /\ abandoned' \in Nat
  <2>1. sched \in ScheduleNumbers /\ guard \in Guards /\ next_k \in Nat /\ abandoned \in Nat
        /\ state \in {"Unlocked", "WaitWindow", "CopyWindow", "Paused"}
    BY DEF NumbersInv, ScheduleType, NumberType, ScheduleNumbers
  <2>2. advance_k_to_abs(sched, guard, a) \in Nat
    BY <1>1, <2>1, AdvanceFindsOpen
  <2>3. CASE UNCHANGED <<poolVars, next_k, state, abandoned, calm, grid>>
    BY <2>1, <2>3
  <2>4. CASE AbortActive
    <3>1. abandoned' \in Nat
      BY <2>1, <2>4 DEF AbortActive
    <3> QED BY <1>2, <2>1, <2>2, <3>1 DEF NoteJump
  <2> QED BY <1>2, <2>3, <2>4 DEF NoteJump
<1>4. calm' \in BOOLEAN
  <2>1. calm' \in {calm, FALSE} /\ calm \in BOOLEAN
    BY <1>2 DEF NoteJump, NumbersInv, NumberType
  <2> QED BY <2>1
<1>5. ScheduleType'
  BY <1>1, <1>2, <1>3 DEF NumbersInv, ScheduleType
<1>6. NumberType'
  BY <1>2, <1>3, <1>4 DEF NumbersInv, NumberType
<1>7. InStream' /\ Onward
  BY <1>1, <1>2 DEF InStream, Onward
<1> QED BY <1>5, <1>6, <1>7 DEF NumbersStep, NumbersInv

\* The steps of the loop consume part of the chunk, count, and move next_k_.
LEMMA NumbersOfLoop ==
  ASSUME NumbersInv, NEW n \in 0..chunk.left, Consume(n),
         UNCHANGED <<sched, guard, paused, generation, stream, eos, abandoned>>,
         next_k' \in Nat, state' \in {"Unlocked", "WaitWindow", "CopyWindow", "Paused"},
         stats' \in [scheduled: Nat, completed: Nat, partial: Nat, dropped: Nat],
         calm' \in BOOLEAN
  PROVE  NumbersStep
<1>1. ChunkType /\ InStream
  BY DEF NumbersInv, ScheduleType, ChunkType
<1>2. ChunkType' /\ InStream' /\ abs_cursor' = abs_cursor + n
  BY <1>1, ConsumeKeeps
<1>3. ScheduleType'
  BY <1>2 DEF NumbersInv, ScheduleType, ChunkType
<1>4. NumberType'
  BY DEF NumbersInv, NumberType
<1>5. Onward
  BY <1>1, <1>2 DEF Onward, NumbersInv, ScheduleType, ChunkType
<1> QED BY <1>2, <1>3, <1>4, <1>5 DEF NumbersStep, NumbersInv

\* Those of the worker touch none of them.
LEMMA NumbersAside ==
  ASSUME NumbersInv,
         UNCHANGED <<sched, guard, next_k, abs_cursor, state, paused, generation,
                     stats, chunk, stream, eos, abandoned, calm>>
  PROVE  NumbersStep
<1>1. ScheduleType'
  BY DEF NumbersInv, ScheduleType
<1>2. NumberType'
  BY DEF NumbersInv, NumberType
<1>3. InStream' /\ Onward
  BY DEF NumbersInv, InStream, Onward, ScheduleType
<1> QED BY <1>1, <1>2, <1>3 DEF NumbersStep, NumbersInv

\* Between two chunks the operations move the schedule, and either keep the
\* cursor or, with a new generation, put it where the source is or before.
LEMMA NumbersOfControl ==
  ASSUME NumbersInv, Idle,
         sched' \in ScheduleNumbers, guard' \in Guards, next_k' \in Nat,
         state' \in {"Unlocked", "WaitWindow", "CopyWindow", "Paused"},
         paused' \in BOOLEAN, eos' \in BOOLEAN, chunk' = chunk,
         \/ abs_cursor' = abs_cursor /\ stream' = stream /\ generation' \in generation..(generation + 1)
         \/ abs_cursor' \in Nat /\ stream' \in Nat /\ abs_cursor' <= stream' /\ generation' = generation + 1,
         stats' \in [scheduled: Nat, completed: Nat, partial: Nat, dropped: Nat],
         abandoned' \in Nat, calm' \in BOOLEAN
  PROVE  NumbersStep
<1>1. ScheduleType'
  BY DEF NumbersInv, ScheduleType, ScheduleNumbers
<1>2. NumberType'
  BY DEF NumberType
<1>3. chunk.left = 0 /\ chunk \in [pos: Nat, left: Nat] /\ abs_cursor <= stream
  BY DEF Idle, NumbersInv, InStream, ScheduleType
<1>4. InStream'
  BY <1>3 DEF InStream, NumbersInv, ScheduleType
<1>5. Onward
  BY DEF Onward, NumbersInv, ScheduleType
<1> QED BY <1>1, <1>2, <1>4, <1>5 DEF NumbersStep, NumbersInv

-----------------------------------------------------------------------------
(* What happens to the slots.                                              *)

\* Who holds what.
LEMMA Holders ==
  ASSUME OwnInv
  PROVE  /\ Delivered \subseteq Handle /\ Range(ready) \subseteq Delivered
         /\ Range(ready) \subseteq Handle
         /\ active \notin Delivered /\ active \notin checkedOut
         /\ \A h \in free : h \notin Delivered /\ h \notin checkedOut
         /\ kInvalid \notin Handle /\ (active # kInvalid => active \in Handle)
<1>1. Range(ready) \subseteq Handle
  BY DEF OwnInv, PoolType, Range
<1> QED BY <1>1, PoolAssumption DEF OwnInv, PoolType, HandleOwnership, Delivered

\* A step that completes no window, and leaves those it does not take away as
\* they are, keeps them whole and behind the cursor.
LEMMA DeliveredKept ==
  ASSUME SlotsInv, NumbersInv, NumbersStep, OwnInv,
         Delivered' \subseteq Delivered, \A h \in Delivered' : pool'[h] = pool[h],
         active' # kInvalid => \A h \in Delivered : Before(pool[h], pool'[active'])
  PROVE  (\A h \in Delivered : Whole(pool[h]) /\ Behind(pool[h]))'
<1> SUFFICES ASSUME NEW h \in Delivered' PROVE Whole(pool[h])' /\ Behind(pool[h])'
  OBVIOUS
<1>1. h \in Delivered /\ pool'[h] = pool[h] /\ Whole(pool[h]) /\ Behind(pool[h])
  BY DEF SlotsInv
<1>2. Whole(pool[h])'
  BY <1>1 DEF Whole, Consecutive
<1>3. pool[h] \in Slot
  BY <1>1, Holders DEF SlotsInv
<1>4. Behind(pool[h])'
  <2>1. /\ generation \in Nat /\ generation' \in Nat /\ abs_cursor \in Nat
        /\ abs_cursor' \in Nat /\ Onward
    BY DEF NumbersInv, NumbersStep, ScheduleType
  <2> DEFINE w == pool[h]
  <2>2. w.gen \in Nat /\ w.start + w.count \in Int
    BY <1>3 DEF Slot
  <2>3. /\ w.gen <= generation
        /\ w.gen = generation => w.start + w.count <= abs_cursor
    BY <1>1 DEF Behind
  <2> HIDE DEF w
  <2>4. /\ w.gen <= generation'
        /\ w.gen = generation' => w.start + w.count <= abs_cursor'
    BY <2>1, <2>2, <2>3 DEF Onward
  <2>5. active' # kInvalid => Before(w, pool'[active'])
    BY <1>1 DEF w
  <2>6. pool'[h] = w
    BY <1>1 DEF w
  <2> QED BY <2>4, <2>5, <2>6 DEF Behind, Before
<1> QED BY <1>2, <1>4

\* ... and in order, if they stay where they are.
LEMMA OrderKept ==
  ASSUME SlotsInv, OwnInv, UNCHANGED <<ready, checkedOut, releasing>>,
         \A h \in Delivered : pool'[h] = pool[h]
  PROVE  Delivered' = Delivered /\ WindowsDisjoint'
<1>1. Range(ready)' = Range(ready)
  BY DEF Range
<1>2. Delivered' = Delivered
  BY <1>1 DEF Delivered
<1>3. \A j \in DOMAIN ready : ready[j] \in Delivered
  BY DEF Delivered, Range
<1>4. \A h \in checkedOut \ {releasing} : h \in Delivered
  BY DEF Delivered
<1>5. \A j \in DOMAIN ready : \A i \in 1..j - 1 : i \in DOMAIN ready
  BY DEF OwnInv, PoolType
<1>6. ASSUME NEW j \in DOMAIN ready
      PROVE  /\ \A i \in 1..j - 1 : Before(pool'[ready[i]], pool'[ready[j]])
             /\ \A h \in checkedOut \ {releasing} : Before(pool'[h], pool'[ready[j]])
  <2>1. /\ \A i \in 1..j - 1 : Before(pool[ready[i]], pool[ready[j]])
        /\ \A h \in checkedOut \ {releasing} : Before(pool[h], pool[ready[j]])
    BY DEF SlotsInv, WindowsDisjoint
  <2>2. pool'[ready[j]] = pool[ready[j]] /\ \A i \in 1..j - 1 : pool'[ready[i]] = pool[ready[i]]
    BY <1>3, <1>5
  <2>3. \A h \in checkedOut \ {releasing} : pool'[h] = pool[h]
    BY <1>4
  <2> QED BY <2>1, <2>2, <2>3
<1>7. WindowsDisjoint'
  BY <1>6 DEF WindowsDisjoint, Before
<1> QED BY <1>2, <1>7

LEMMA EmptySlotTyped == EmptySlot \in Slot
<1>1. <<>> \in Seq(Int)
  OBVIOUS
<1> QED BY <1>1 DEF EmptySlot, Slot

\* Steps that give the active window up, if there is one.
LEMMA DropSlots ==
  ASSUME OwnInv, NumbersInv, SlotsInv, NumbersStep,
         UNCHANGED <<ready, checkedOut, releasing>>, active' = kInvalid,
         pool' = IF active = kInvalid THEN pool ELSE [pool EXCEPT ![active] = EmptySlot]
  PROVE  SlotsInv'
<1>1. pool' \in [Handle -> Slot]
  BY EmptySlotTyped DEF SlotsInv
<1>2. \A h \in Delivered : pool'[h] = pool[h]
  BY Holders DEF SlotsInv
<1>3. Delivered' = Delivered /\ WindowsDisjoint'
  BY <1>2, OrderKept
<1>4. (\A h \in Delivered : Whole(pool[h]) /\ Behind(pool[h]))'
  BY <1>2, <1>3, DeliveredKept
<1> QED BY <1>1, <1>3, <1>4 DEF SlotsInv

\* Steps that leave the pool alone.
LEMMA SameSlots ==
  ASSUME OwnInv, NumbersInv, SlotsInv, NumbersStep, UNCHANGED <<poolVars, releasing>>,
         active # kInvalid => UNCHANGED <<abs_cursor, generation>>
  PROVE  SlotsInv'
<1>1. UNCHANGED <<free, ready, checkedOut, active, pool, releasing>>
  BY DEF poolVars
<1>2. Delivered' = Delivered /\ WindowsDisjoint'
  BY <1>1, OrderKept
<1>3. active # kInvalid => \A h \in Delivered : Before(pool[h], pool[active])
  BY DEF SlotsInv, Behind
<1>4. (\A h \in Delivered : Whole(pool[h]) /\ Behind(pool[h]))'
  BY <1>1, <1>2, <1>3, DeliveredKept DEF Before
<1>5. (active # kInvalid => Filling(pool[active]))'
  BY <1>1 DEF SlotsInv, Filling, Consecutive
<1> QED BY <1>1, <1>2, <1>4, <1>5 DEF SlotsInv

\* reset and configure leave only what the worker holds.
LEMMA RebuildSlots ==
  ASSUME OwnInv, NumbersInv, SlotsInv, NumbersStep, RebuildPool, releasing' = releasing
  PROVE  SlotsInv'
<1>1. /\ ready' = <<>> /\ active' = kInvalid /\ checkedOut' = checkedOut
      /\ pool' = [h \in Handle |-> IF h \in checkedOut THEN pool[h] ELSE EmptySlot]
  BY DEF RebuildPool, WipedPool
<1>2. Range(ready)' = {} /\ DOMAIN ready' = {}
  BY <1>1 DEF Range
<1>3. pool' \in [Handle -> Slot]
  BY <1>1, EmptySlotTyped DEF SlotsInv
<1>4. Delivered' = checkedOut \ {releasing} /\ Delivered' \subseteq Delivered
  BY <1>1, <1>2 DEF Delivered
<1>5. \A h \in Delivered' : pool'[h] = pool[h]
  BY <1>1, <1>4, Holders
<1>6. (\A h \in Delivered : Whole(pool[h]) /\ Behind(pool[h]))'
  BY <1>1, <1>4, <1>5, DeliveredKept
<1>7. WindowsDisjoint'
  BY <1>2 DEF WindowsDisjoint
<1> QED BY <1>1, <1>3, <1>6, <1>7 DEF SlotsInv

\* begin_window: the new window begins at the cursor, with its end still to
\* come.
LEMMA BeginSlots ==
  ASSUME OwnInv, NumbersInv, SlotsInv, NumbersStep, NEW h \in Handle, begin_window(h)
  PROVE  SlotsInv'
<1>1. /\ h \in free /\ active' = h /\ UNCHANGED <<ready, checkedOut, releasing, abs_cursor, generation>>
      /\ abs_cursor < Bounds(next_k).end
  BY DEF begin_window, WindowOpen
<1>2. Bounds(next_k).end \in Nat /\ abs_cursor \in Nat /\ generation \in Nat /\ next_k \in Nat
  <2>1. sched \in ScheduleNumbers /\ guard \in Guards /\ next_k \in Nat
    BY DEF NumbersInv, ScheduleType, ScheduleNumbers
  <2> QED BY <2>1, BoundsTyped DEF Bounds, NumbersInv, ScheduleType
<1> DEFINE late == abs_cursor > Bounds(next_k).start
           w == [k |-> next_k, start |-> abs_cursor, end |-> Bounds(next_k).end,
                 count |-> Bounds(next_k).end - abs_cursor, partial |-> late,
                 gen |-> generation, data |-> <<>>]
<1>3. pool' = [pool EXCEPT ![h] = w]
  BY DEF begin_window
<1>4. w \in Slot
  <2>1. <<>> \in Seq(Int) /\ late \in BOOLEAN
    OBVIOUS
  <2> HIDE DEF late
  <2> QED BY <1>2, <2>1 DEF Slot
<1>5. w.start = abs_cursor /\ w.gen = generation /\ w.end = w.start + w.count
      /\ w.data = <<>> /\ 0 <= w.count /\ w.start \in Nat
  BY <1>1, <1>2
<1> HIDE DEF w
<1>6. pool' \in [Handle -> Slot] /\ pool'[h] = w
  BY <1>3, <1>4 DEF SlotsInv
<1>7. \A d \in Delivered : pool'[d] = pool[d]
  BY <1>1, <1>3, Holders DEF SlotsInv
<1>8. Delivered' = Delivered /\ WindowsDisjoint'
  BY <1>1, <1>7, OrderKept
<1>9. \A d \in Delivered : Before(pool[d], w)
  BY <1>5 DEF SlotsInv, Behind, Before
<1>10. (\A d \in Delivered : Whole(pool[d]) /\ Behind(pool[d]))'
  BY <1>1, <1>6, <1>7, <1>8, <1>9, DeliveredKept
<1>11. Filling(pool[active])'
  BY <1>1, <1>5, <1>6 DEF Filling, Consecutive
<1> QED BY <1>6, <1>8, <1>10, <1>11 DEF SlotsInv

\* What CopyWindow makes of the active slot: the samples it takes follow those
\* the slot has.
Filled(slot, take) ==
  [slot EXCEPT !.data = @ \o [i \in 1..take |-> chunk.pos + i - 1]]

LEMMA FilledOn ==
  ASSUME NEW slot \in Slot, Filling(slot), NumbersInv, NEW take \in 0..chunk.left,
         Len(slot.data) + take <= slot.count
  PROVE  LET w == Filled(slot, take)
         IN  /\ w \in Slot /\ Consecutive(w)
             /\ w.start = slot.start /\ w.gen = slot.gen /\ w.count = slot.count
             /\ w.end = slot.end /\ w.partial = slot.partial
             /\ Len(w.data) = Len(slot.data) + take
<1> DEFINE more == [i \in 1..take |-> chunk.pos + i - 1]
           w == Filled(slot, take)
<1>1. /\ chunk \in [pos: Nat, left: Nat] /\ abs_cursor \in Nat
      /\ chunk.left > 0 => chunk.pos = abs_cursor
      /\ chunk.pos \in Nat /\ chunk.left \in Nat /\ take \in Nat
  BY DEF NumbersInv, ScheduleType, InStream
<1>2. more \in Seq(Int) /\ Len(more) = take /\ \A i \in 1..take : more[i] = chunk.pos + i - 1
  BY <1>1
<1>3. slot.data \in Seq(Int) /\ slot.start \in Int /\ slot.count \in Int
  BY DEF Slot
<1> HIDE DEF more
<1>4. w = [slot EXCEPT !.data = slot.data \o more]
  BY DEF Filled, more
<1>5. slot.data \o more \in Seq(Int) /\ Len(slot.data \o more) = Len(slot.data) + take
  <2>1. \A s, t \in Seq(Int) : s \o t \in Seq(Int) /\ Len(s \o t) = Len(s) + Len(t)
    OBVIOUS
  <2> QED BY <1>2, <1>3, <2>1
<1>6. /\ w.data = slot.data \o more
      /\ w.start = slot.start /\ w.gen = slot.gen /\ w.count = slot.count
      /\ w.end = slot.end /\ w.partial = slot.partial
  BY <1>4 DEF Slot
<1>7. w \in Slot
  BY <1>4, <1>5 DEF Slot
<1>8. Consecutive(w)
  <2> SUFFICES ASSUME NEW i \in DOMAIN w.data PROVE w.data[i] = w.start + i - 1
    BY DEF Consecutive
  <2>1. i \in 1..(Len(slot.data) + take) /\ Len(slot.data) \in Nat
    BY <1>3, <1>5, <1>6
  <2>2. CASE i <= Len(slot.data)
    <3>1. w.data[i] = slot.data[i] /\ i \in DOMAIN slot.data
      BY <1>2, <1>3, <1>6, <2>1, <2>2
    <3> QED BY <1>6, <3>1 DEF Filling, Consecutive
  <2>3. CASE i > Len(slot.data)
    <3> DEFINE j == i - Len(slot.data)
    <3>1. j \in 1..take /\ take > 0
      BY <2>1, <2>3
    <3>2. w.data[i] = more[j]
      BY <1>2, <1>3, <1>6, <2>1, <2>3
    <3>3. chunk.pos = slot.start + Len(slot.data)
      BY <1>1, <3>1 DEF Filling
    <3>4. more[j] = chunk.pos + j - 1
      BY <1>2, <3>1
    <3>5. chunk.pos + j - 1 = slot.start + i - 1
      BY <1>1, <1>3, <2>1, <3>3
    <3> QED BY <1>6, <3>2, <3>4, <3>5
  <2> QED BY <2>1, <2>2, <2>3
<1> QED BY <1>5, <1>6, <1>7, <1>8

\* finish_active_window: the slot becomes the last completed window, or is
\* given up when the ring is full.
LEMMA FinishSlots ==
  ASSUME OwnInv, NumbersInv, SlotsInv, NumbersStep, active # kInvalid,
         NEW w \in Slot, Consecutive(w),
         w.start = pool[active].start, w.gen = generation, generation' = generation,
         w.end = w.start + w.count, Len(w.data) <= w.count,
         w.start + Len(w.data) <= abs_cursor',
         NEW limit, limit = w.count, Finish(w, Len(w.data) < limit),
         releasing' = releasing
  PROVE  SlotsInv'
<1> DEFINE short == Len(w.data) < limit
           mark == w.partial \/ short
           whole == [w EXCEPT !.partial = mark, !.count = Len(w.data)]
<1>1. active' = kInvalid /\ checkedOut' = checkedOut
  BY DEF Finish
<1>2. CASE ~(Len(ready) < kMaxPoolSize)
  <2>1. ready' = ready /\ pool' = [pool EXCEPT ![active] = EmptySlot]
    BY <1>2 DEF Finish
  <2> QED BY <1>1, <2>1, DropSlots
<1>3. CASE Len(ready) < kMaxPoolSize
  <2>1. ready' = Append(ready, active) /\ pool' = [pool EXCEPT ![active] = whole]
    BY <1>3 DEF Finish
  <2>2. w.partial \in BOOLEAN /\ w.count \in Int /\ w.data \in Seq(Int) /\ w.start \in Int
    BY DEF Slot
  <2>3. Len(w.data) \in Nat /\ short \in BOOLEAN
    BY <2>2
  <2>4. /\ whole.count = Len(w.data) /\ whole.data = w.data /\ whole.start = w.start
        /\ whole.end = w.end /\ whole.gen = w.gen
        /\ whole.partial = mark
    BY DEF Slot
  <2>5. whole \in Slot
    <3>1. mark \in BOOLEAN
      OBVIOUS
    <3>2. Len(w.data) \in Int
      BY <2>3
    <3> HIDE DEF mark
    <3> QED BY <3>1, <3>2 DEF Slot
  <2>6. Whole(whole)
    <3>1. Consecutive(whole)
      BY <2>4 DEF Consecutive
    <3>2. whole.start + whole.count < whole.end => short
      BY <2>2, <2>3, <2>4
    <3>3. whole.start + whole.count <= whole.end
      BY <2>2, <2>3, <2>4
    <3> HIDE DEF whole, short
    <3> QED BY <2>4, <3>1, <3>2, <3>3 DEF Whole
  <2> HIDE DEF whole, short
  <2>7. active \in Handle /\ active \notin Delivered /\ active \notin checkedOut
    BY Holders
  <2>8. pool' \in [Handle -> Slot] /\ pool'[active] = whole
        /\ \A h \in Delivered : pool'[h] = pool[h]
    BY <2>1, <2>5, <2>7, Holders DEF SlotsInv
  <2>9. /\ ready \in Seq(Handle) /\ active \notin Range(ready)
        /\ \A i, j \in DOMAIN ready : i # j => ready[i] # ready[j]
    BY DEF OwnInv, PoolType, HandleOwnership
  <2>10. Range(ready') = Range(ready) \cup {active}
    BY <2>1, <2>7, <2>9, AppendRange
  <2>11. Delivered' = Delivered \cup {active}
    <3>1. Range(ready)' = Range(ready) \cup {active}
      BY <2>10 DEF Range
    <3> QED BY <1>1, <3>1 DEF Delivered
  <2>12. \A h \in Delivered : Before(pool[h], whole)
    BY <2>4 DEF SlotsInv, Behind, Before, Filling
  <2>13. (\A h \in Delivered : Whole(pool[h]) /\ Behind(pool[h]))'
    <3> SUFFICES ASSUME NEW h \in Delivered' PROVE Whole(pool'[h]) /\ Behind(pool[h])'
      BY DEF Whole, Consecutive
    <3>1. CASE h = active
      <4>1. abs_cursor' \in Nat /\ generation \in Nat
        BY DEF NumbersStep, NumbersInv, ScheduleType
      <4>2. Behind(pool[h])'
        BY <1>1, <2>2, <2>3, <2>4, <2>8, <3>1, <4>1 DEF Behind
      <4> QED BY <2>6, <2>8, <3>1, <4>2
    <3>2. CASE h \in Delivered
      <4>1. Whole(pool[h]) /\ Behind(pool[h]) /\ pool'[h] = pool[h]
        BY <2>8, <3>2 DEF SlotsInv
      <4>2. pool[h].gen = generation => pool[h].start + pool[h].count <= abs_cursor'
        <5>1. pool[h] \in Slot
          BY <3>2, Holders DEF SlotsInv
        <5>2. pool[h].start + pool[h].count \in Int
          BY <5>1 DEF Slot
        <5>3. /\ abs_cursor \in Nat /\ abs_cursor' \in Nat /\ abs_cursor' >= abs_cursor
          BY DEF NumbersStep, NumbersInv, ScheduleType, Onward
        <5>4. pool[h].gen = generation => pool[h].start + pool[h].count <= abs_cursor
          BY <4>1 DEF Behind
        <5> QED BY <5>2, <5>3, <5>4
      <4>3. pool[h].gen <= generation
        BY <4>1 DEF Behind
      <4> QED BY <1>1, <4>1, <4>2, <4>3 DEF Behind
    <3> QED BY <2>11, <3>1, <3>2
  <2>14. WindowsDisjoint'
    <3>1. /\ DOMAIN ready = 1..Len(ready) /\ Len(ready) \in Nat
          /\ DOMAIN ready' = 1..(Len(ready) + 1) /\ ready'[Len(ready) + 1] = active
          /\ \A i \in 1..Len(ready) : ready'[i] = ready[i]
      BY <2>1, <2>7, <2>9
    <3>2. \A i \in 1..Len(ready) : ready[i] \in Delivered
      BY <3>1 DEF Delivered, Range
    <3>3. \A h \in checkedOut \ {releasing} : h \in Delivered
      BY DEF Delivered
    <3> SUFFICES ASSUME NEW j \in DOMAIN ready'
                 PROVE  /\ \A i \in 1..j - 1 : Before(pool'[ready'[i]], pool'[ready'[j]])
                        /\ \A h \in checkedOut \ {releasing} : Before(pool'[h], pool'[ready'[j]])
      BY <1>1 DEF WindowsDisjoint, Before
    <3>4. CASE j = Len(ready) + 1
      <4>1. pool'[ready'[j]] = whole
        BY <2>8, <3>1, <3>4
      <4>2. \A i \in 1..j - 1 : pool'[ready'[i]] = pool[ready[i]] /\ ready[i] \in Delivered
        BY <2>8, <3>1, <3>2, <3>4
      <4> QED BY <2>8, <2>12, <3>3, <4>1, <4>2
    <3>5. CASE j # Len(ready) + 1
      <4>1. j \in DOMAIN ready /\ \A i \in 1..j - 1 : i \in 1..Len(ready)
        BY <3>1, <3>5
      <4>2. pool'[ready'[j]] = pool[ready[j]] /\ ready[j] \in Delivered
        BY <2>8, <3>1, <3>2, <4>1
      <4>3. \A i \in 1..j - 1 : pool'[ready'[i]] = pool[ready[i]]
        BY <2>8, <3>1, <3>2, <4>1
      <4>4. /\ \A i \in 1..j - 1 : Before(pool[ready[i]], pool[ready[j]])
            /\ \A h \in checkedOut \ {releasing} : Before(pool[h], pool[ready[j]])
        BY <4>1 DEF SlotsInv, WindowsDisjoint
      <4> QED BY <2>8, <3>3, <4>2, <4>3, <4>4
    <3> QED BY <3>4, <3>5
  <2> QED BY <1>1, <2>8, <2>13, <2>14 DEF SlotsInv
<1> QED BY <1>2, <1>3

\* take_window: the oldest window of the ring joins those of the worker, which
\* come before all the others.
LEMMA TakeSlots ==
  ASSUME OwnInv, NumbersInv, SlotsInv, NumbersStep, take_window
  PROVE  SlotsInv'
<1>1. /\ ready # <<>> /\ checkedOut' = checkedOut \cup {Head(ready)} /\ ready' = Tail(ready)
      /\ UNCHANGED <<active, pool, releasing, abs_cursor, generation>>
  BY DEF take_window, schedVars
<1>2. /\ ready \in Seq(Handle) /\ releasing \in checkedOut \cup {kInvalid}
      /\ \A i, j \in DOMAIN ready : i # j => ready[i] # ready[j]
      /\ Range(ready) \cap checkedOut = {}
  BY DEF OwnInv, PoolType, HandleOwnership
<1>3. Head(ready) \in Range(ready) /\ Range(Tail(ready)) = Range(ready) \ {Head(ready)}
  BY <1>1, <1>2, TailRange
<1>4. Head(ready) # releasing
  <2>1. Head(ready) \in Handle /\ Head(ready) \notin checkedOut
    BY <1>2, <1>3, Holders
  <2> QED BY <1>2, <2>1, PoolAssumption
<1>5. Delivered' = Delivered
  <2>1. Range(ready)' = Range(ready) \ {Head(ready)}
    BY <1>1, <1>3 DEF Range
  <2> QED BY <1>1, <1>3, <1>4, <2>1 DEF Delivered
<1>6. (\A h \in Delivered : Whole(pool[h]) /\ Behind(pool[h]))'
  <2>1. active # kInvalid => \A h \in Delivered : Before(pool[h], pool[active])
    BY DEF SlotsInv, Behind
  <2> QED BY <1>1, <1>5, <2>1, DeliveredKept DEF Before
<1>7. (active # kInvalid => Filling(pool[active]))'
  BY <1>1 DEF SlotsInv, Filling, Consecutive
<1>8. WindowsDisjoint'
  <2>1. /\ DOMAIN ready = 1..Len(ready) /\ Len(ready) \in Nat \ {0} /\ Head(ready) = ready[1]
        /\ DOMAIN ready' = 1..(Len(ready) - 1)
        /\ \A i \in 1..(Len(ready) - 1) : ready'[i] = ready[i + 1]
    BY <1>1, <1>2
  <2> SUFFICES ASSUME NEW j \in DOMAIN ready'
               PROVE  /\ \A i \in 1..j - 1 : Before(pool[ready'[i]], pool[ready'[j]])
                      /\ \A h \in checkedOut' \ {releasing} : Before(pool[h], pool[ready'[j]])
    BY <1>1 DEF WindowsDisjoint, Before
  <2>2. j + 1 \in DOMAIN ready /\ ready'[j] = ready[j + 1] /\ 1 \in 1..(j + 1) - 1
    BY <2>1
  <2>3. /\ \A i \in 1..(j + 1) - 1 : Before(pool[ready[i]], pool[ready[j + 1]])
        /\ \A h \in checkedOut \ {releasing} : Before(pool[h], pool[ready[j + 1]])
    BY <2>2 DEF SlotsInv, WindowsDisjoint
  <2>4. \A i \in 1..j - 1 : i + 1 \in 1..(j + 1) - 1 /\ ready'[i] = ready[i + 1]
    BY <2>1
  <2> QED BY <1>1, <2>1, <2>2, <2>3, <2>4
<1> QED BY <1>1, <1>6, <1>7, <1>8 DEF SlotsInv

\* The worker clears a slot that is no longer delivered, and gives it back.
LEMMA ClearSlots ==
  ASSUME OwnInv, NumbersInv, SlotsInv, NumbersStep, NEW h \in Handle, ClearSlot(h)
  PROVE  SlotsInv'
<1>1. /\ releasing = kInvalid /\ h \in checkedOut /\ releasing' = h
      /\ pool' = [pool EXCEPT ![h] = EmptySlot]
      /\ UNCHANGED <<ready, checkedOut, active, abs_cursor, generation>>
  BY DEF ClearSlot, schedVars
<1>2. Range(ready)' = Range(ready)
  BY <1>1 DEF Range
<1>3. Range(ready) \cap checkedOut = {} /\ active # h
  BY <1>1, Holders DEF OwnInv, HandleOwnership
<1>4. Delivered' = Delivered \ {h}
  BY <1>1, <1>2, <1>3, PoolAssumption DEF Delivered, OwnInv, PoolType
<1>5. pool' \in [Handle -> Slot] /\ \A d \in Handle \ {h} : pool'[d] = pool[d]
  BY <1>1, EmptySlotTyped DEF SlotsInv
<1>6. active # kInvalid => pool'[active] = pool[active]
  BY <1>3, <1>5, Holders
<1>7. (\A d \in Delivered : Whole(pool[d]) /\ Behind(pool[d]))'
  <2>1. active # kInvalid => \A d \in Delivered : Before(pool[d], pool[active])
    BY DEF SlotsInv, Behind
  <2>2. \A d \in Delivered' : pool'[d] = pool[d]
    BY <1>4, <1>5, Holders
  <2>3. active' # kInvalid => \A d \in Delivered : Before(pool[d], pool'[active'])
    BY <1>1, <1>6, <2>1
  <2> QED BY <1>4, <2>2, <2>3, DeliveredKept
<1>8. (active # kInvalid => Filling(pool[active]))'
  BY <1>1, <1>6 DEF SlotsInv, Filling, Consecutive
<1>9. WindowsDisjoint'
  <2> SUFFICES ASSUME NEW j \in DOMAIN ready
               PROVE  /\ \A i \in 1..j - 1 : Before(pool'[ready[i]], pool'[ready[j]])
                      /\ \A d \in checkedOut \ {h} : Before(pool'[d], pool'[ready[j]])
    BY <1>1 DEF WindowsDisjoint, Before
  <2>1. ready \in Seq(Handle)
    BY DEF OwnInv, PoolType
  <2>2. \A i \in DOMAIN ready : ready[i] \in Handle \ {h} /\ pool'[ready[i]] = pool[ready[i]]
    BY <1>1, <1>3, <1>5, <2>1 DEF Range
  <2>3. \A i \in 1..j - 1 : i \in DOMAIN ready
    BY <2>1
  <2>4. /\ \A i \in 1..j - 1 : Before(pool[ready[i]], pool[ready[j]])
        /\ \A d \in checkedOut \ {releasing} : Before(pool[d], pool[ready[j]])
    BY DEF SlotsInv, WindowsDisjoint
  <2>5. \A d \in checkedOut \ {h} : d \in checkedOut \ {releasing} /\ pool'[d] = pool[d]
    BY <1>1, <1>5, PoolAssumption DEF OwnInv, PoolType
  <2> QED BY <2>2, <2>3, <2>4, <2>5
<1> QED BY <1>5, <1>7, <1>8, <1>9 DEF SlotsInv

LEMMA PushSlots ==
  ASSUME OwnInv, NumbersInv, SlotsInv, NumbersStep, PushFree
  PROVE  SlotsInv'
<1>1. /\ releasing # kInvalid /\ releasing' = kInvalid /\ checkedOut' = checkedOut \ {releasing}
      /\ UNCHANGED <<ready, active, pool, abs_cursor, generation>>
  BY DEF PushFree, schedVars
<1>2. checkedOut' \ {releasing'} = checkedOut \ {releasing}
  BY <1>1, PoolAssumption DEF OwnInv, PoolType
<1>3. Range(ready)' = Range(ready)
  BY <1>1 DEF Range
<1>4. Delivered' = Delivered
  BY <1>2, <1>3 DEF Delivered
<1>5. (\A d \in Delivered : Whole(pool[d]) /\ Behind(pool[d]))'
  <2>1. active # kInvalid => \A d \in Delivered : Before(pool[d], pool[active])
    BY DEF SlotsInv, Behind
  <2> QED BY <1>1, <1>4, <2>1, DeliveredKept DEF Before
<1>6. (active # kInvalid => Filling(pool[active]))'
  BY <1>1 DEF SlotsInv, Filling, Consecutive
<1>7. WindowsDisjoint'
  BY <1>1, <1>2 DEF SlotsInv, WindowsDisjoint, Before
<1> QED BY <1>1, <1>5, <1>6, <1>7 DEF SlotsInv

-----------------------------------------------------------------------------
(* The invariant.                                                          *)

StatsType == [scheduled: Nat, completed: Nat, partial: Nat, dropped: Nat]
StateName == {"Unlocked", "WaitWindow", "CopyWindow", "Paused"}

\* What finish_active_window and an abort count.
LEMMA FinishCounts ==
  ASSUME OwnInv, NumbersInv, WindowsAccounted, active # kInvalid,
         NEW w, NEW p, Finish(w, p), abandoned' = abandoned
  PROVE  /\ stats' \in StatsType /\ WindowsAccounted'
         /\ next_k' \in Nat /\ state' \in StateName
<1>1. stats \in StatsType /\ abandoned \in Nat /\ next_k \in Nat
  BY DEF NumbersInv, NumberType, StatsType, ScheduleType
<1>2. active' = kInvalid /\ next_k' = next_k + 1 /\ state' = WaitOrPaused
  BY DEF Finish
<1>3. \/ stats' = [stats EXCEPT !.completed = @ + 1]
      \/ stats' = [stats EXCEPT !.dropped = @ + 1]
  BY DEF Finish
<1>4. stats' \in StatsType
  BY <1>1, <1>3 DEF StatsType
<1>5. stats'.scheduled = stats.scheduled
      /\ stats'.completed + stats'.dropped = stats.completed + stats.dropped + 1
  BY <1>1, <1>3 DEF StatsType
<1>6. WindowsAccounted'
  BY <1>1, <1>2, <1>4, <1>5 DEF WindowsAccounted, StatsType
<1> QED BY <1>1, <1>2, <1>4, <1>6 DEF WaitOrPaused, StateName

LEMMA AbortCounts ==
  ASSUME NumbersInv, WindowsAccounted, AbortActive, stats' = stats
  PROVE  abandoned' \in Nat /\ active' = kInvalid /\ WindowsAccounted'
<1>1. stats \in StatsType /\ abandoned \in Nat
  BY DEF NumbersInv, NumberType, StatsType
<1> QED BY <1>1 DEF AbortActive, WindowsAccounted, StatsType

LEMMA SameCounts ==
  ASSUME WindowsAccounted, UNCHANGED <<stats, active, abandoned>>
  PROVE  WindowsAccounted'
BY DEF WindowsAccounted

\* A step is one of the numbers, one of the slots and one of the counters.
StepKeeps == NumbersStep /\ SlotsInv' /\ WindowsAccounted'

LEMMA JumpKeeps ==
  ASSUME OwnInv, CoreInv, NEW n \in Nat, NEW gap \in Nat, process_chunk(n, stream + gap)
  PROVE  StepKeeps
<1>1. NumbersInv /\ SlotsInv /\ WindowsAccounted /\ InStream
  BY DEF CoreInv, NumbersInv
<1>2. NumbersStep
  BY <1>1, NumbersOfJump
<1> DEFINE a == stream + gap
<1>3. UNCHANGED <<generation, stats, releasing>> /\ abs_cursor' = a /\ NoteJump(a)
  BY DEF process_chunk
<1> HIDE DEF a
<1>4. CASE AbortActive
  <2>1. SlotsInv'
    BY <1>1, <1>2, <1>3, <1>4, DropSlots DEF AbortActive
  <2> QED BY <1>1, <1>2, <1>3, <1>4, <2>1, AbortCounts DEF StepKeeps
<1>5. CASE ~AbortActive
  <2>1. UNCHANGED <<poolVars, next_k, state, abandoned, calm>>
        /\ (a = abs_cursor \/ (abs_cursor = 0 /\ state = "Unlocked"))
    BY <1>3, <1>5 DEF NoteJump
  <2>2. active # kInvalid => UNCHANGED <<abs_cursor, generation>>
    BY <1>3, <2>1 DEF OwnInv, CopyHasActive
  <2>3. SlotsInv'
    BY <1>1, <1>2, <1>3, <2>1, <2>2, SameSlots
  <2> QED BY <1>1, <1>2, <1>3, <2>1, <2>3, SameCounts DEF StepKeeps, poolVars
<1> QED BY <1>4, <1>5

LEMMA MissedCounts ==
  ASSUME NEW st \in StatsType
  PROVE  /\ Missed(st) \in StatsType /\ Missed(st).completed = st.completed
         /\ Missed(st).scheduled = st.scheduled + 1
         /\ Missed(st).dropped = st.dropped + 1
<1>1. Missed(st) = [[st EXCEPT !.dropped = @ + 1] EXCEPT !.scheduled = @ + 1]
  BY DEF Missed, StatsType
<1>2. \A x \in StatsType : [x EXCEPT !.dropped = @ + 1] \in StatsType
  BY DEF StatsType
<1>3. \A x \in StatsType : [x EXCEPT !.scheduled = @ + 1] \in StatsType
  BY DEF StatsType
<1>4. /\ Missed(st).completed = st.completed
      /\ Missed(st).scheduled = st.scheduled + 1
      /\ Missed(st).dropped = st.dropped + 1
  BY DEF Missed, StatsType
<1> QED BY <1>1, <1>2, <1>3, <1>4

LEMMA SkipKeeps ==
  ASSUME OwnInv, CoreInv, SkipChunk \/ WaitForWindow \/ StarveWindow
  PROVE  StepKeeps
<1>1. NumbersInv /\ SlotsInv /\ WindowsAccounted
  BY DEF CoreInv
<1>2. /\ sched \in ScheduleNumbers /\ guard \in Guards /\ next_k \in Nat
      /\ abs_cursor \in Nat /\ chunk \in [pos: Nat, left: Nat] /\ stats \in StatsType
      /\ chunk.left \in Nat /\ calm \in BOOLEAN /\ abandoned \in Nat /\ state \in StateName
  BY <1>1 DEF NumbersInv, NumberType, ScheduleType, ScheduleNumbers, StatsType, StateName
<1>3. Bounds(next_k).start \in Nat /\ Bounds(next_k).end \in Nat
  BY <1>2, BoundsTyped DEF Bounds
<1>4. /\ Missed(stats) \in StatsType /\ Missed(stats).completed = stats.completed
      /\ Missed(stats).scheduled = stats.scheduled + 1
      /\ Missed(stats).dropped = stats.dropped + 1
  BY <1>2, MissedCounts
<1>5. /\ UNCHANGED <<poolVars, sched, guard, state, paused, generation, stream, releasing,
                     eos, abandoned>>
      /\ active = kInvalid
  BY DEF SkipChunk, WaitForWindow, StarveWindow, InWait, history, OwnInv, CopyHasActive
<1>6. /\ \/ stats' = stats
         \/ stats' = Missed(stats)
      /\ next_k' \in {next_k, next_k + 1} /\ calm' \in {calm, FALSE}
  BY DEF SkipChunk, WaitForWindow, StarveWindow, history
<1>7. \/ \E n \in 0..chunk.left : Consume(n)
      \/ UNCHANGED <<abs_cursor, chunk>>
  <2>1. CASE SkipChunk
    BY <1>2, <2>1 DEF SkipChunk
  <2>2. CASE WaitForWindow
    <3>1. CASE abs_cursor >= Bounds(next_k).end
      BY <2>2, <3>1 DEF WaitForWindow
    <3>2. CASE ~(abs_cursor >= Bounds(next_k).end)
      <4> DEFINE n == GeoMin(Bounds(next_k).start - abs_cursor, chunk.left)
      <4>1. Consume(n)
        BY <2>2, <3>2 DEF WaitForWindow
      <4>2. abs_cursor < Bounds(next_k).start
        BY <1>2, <1>3, <2>2, <3>2 DEF WaitForWindow, WindowOpen
      <4>3. n \in 0..chunk.left
        BY <1>2, <1>3, <4>2 DEF GeoMin
      <4> QED BY <4>1, <4>3
    <3> QED BY <3>1, <3>2
  <2>3. CASE StarveWindow
    <3> DEFINE n == GeoMin(Bounds(next_k).end - abs_cursor, chunk.left)
    <3>1. Consume(n)
      BY <2>3 DEF StarveWindow
    <3>2. n \in 0..chunk.left
      BY <1>2, <1>3, <2>3 DEF GeoMin, StarveWindow, WindowOpen
    <3> QED BY <3>1, <3>2
  <2> QED BY <2>1, <2>2, <2>3
<1>8. /\ stats' \in StatsType /\ next_k' \in Nat /\ calm' \in BOOLEAN /\ state' \in StateName
  <2>1. calm' \in BOOLEAN
    BY <1>2, <1>6
  <2>2. stats' \in StatsType
    BY <1>2, <1>4, <1>6
  <2>3. next_k' \in Nat /\ state' \in StateName
    BY <1>2, <1>5, <1>6
  <2> QED BY <2>1, <2>2, <2>3
<1>9. NumbersStep
  <2>1. CASE \E n \in 0..chunk.left : Consume(n)
    BY <1>1, <1>5, <1>8, <2>1, NumbersOfLoop DEF StatsType, StateName
  <2>2. CASE UNCHANGED <<abs_cursor, chunk>>
    <3>1. 0 \in 0..chunk.left /\ Consume(0)
      BY <1>2, <2>2 DEF Consume
    <3> QED BY <1>1, <1>5, <1>8, <3>1, NumbersOfLoop DEF StatsType, StateName
  <2> QED BY <1>7, <2>1, <2>2
<1>10. SlotsInv'
  BY <1>1, <1>5, <1>9, SameSlots
<1>11. WindowsAccounted'
  <2>1. UNCHANGED <<active, abandoned>>
    BY <1>5 DEF poolVars
  <2> QED BY <1>1, <1>2, <1>4, <1>6, <2>1 DEF WindowsAccounted, StatsType
<1> QED BY <1>9, <1>10, <1>11 DEF StepKeeps


LEMMA BeginKeeps ==
  ASSUME OwnInv, CoreInv, NEW h \in Handle, begin_window(h)
  PROVE  StepKeeps
<1>1. NumbersInv /\ SlotsInv /\ WindowsAccounted
  BY DEF CoreInv
<1>2. /\ chunk.left \in Nat /\ abs_cursor \in Nat /\ stats \in StatsType /\ abandoned \in Nat
      /\ chunk \in [pos: Nat, left: Nat] /\ next_k \in Nat /\ calm \in BOOLEAN
  BY <1>1 DEF NumbersInv, NumberType, ScheduleType, StatsType
<1>3. /\ state = "WaitWindow" /\ state' = "CopyWindow" /\ active' = h
      /\ UNCHANGED <<sched, guard, next_k, abs_cursor, paused, generation, chunk, stream,
                     releasing, eos, abandoned, calm>>
  BY DEF begin_window, InWait, history
<1> DEFINE late == abs_cursor > Bounds(next_k).start
<1>4. stats' = [stats EXCEPT !.scheduled = @ + 1,
                             !.partial = IF late THEN @ + 1 ELSE @]
  BY DEF begin_window
<1> HIDE DEF late
<1>5. /\ stats' \in StatsType /\ stats'.scheduled = stats.scheduled + 1
      /\ stats'.completed = stats.completed /\ stats'.dropped = stats.dropped
  <2> DEFINE p == IF late THEN stats.partial + 1 ELSE stats.partial
  <2>1. p \in Nat
    BY <1>2 DEF StatsType
  <2>2. stats' = [scheduled |-> stats.scheduled + 1, completed |-> stats.completed,
                  partial |-> p, dropped |-> stats.dropped]
    BY <1>2, <1>4 DEF StatsType
  <2> HIDE DEF p
  <2> QED BY <1>2, <2>1, <2>2 DEF StatsType
<1>6. NumbersStep
  <2>1. 0 \in 0..chunk.left /\ Consume(0)
    BY <1>2, <1>3 DEF Consume
  <2> QED BY <1>1, <1>2, <1>3, <1>5, <2>1, NumbersOfLoop DEF StatsType
<1>7. SlotsInv'
  BY <1>1, <1>6, BeginSlots
<1>8. WindowsAccounted'
  <2>1. active = kInvalid /\ h # kInvalid
    BY <1>3, PoolAssumption DEF OwnInv, CopyHasActive
  <2> QED BY <1>1, <1>2, <1>3, <1>5, <2>1 DEF WindowsAccounted, StatsType
<1> QED BY <1>6, <1>7, <1>8 DEF StepKeeps

LEMMA CopyKeeps ==
  ASSUME OwnInv, OwnInv', CoreInv, CopyWindow
  PROVE  StepKeeps
<1>1. NumbersInv /\ SlotsInv /\ WindowsAccounted
  BY DEF CoreInv
<1> DEFINE slot == pool[active]
           take == GeoMin(GeoMin(GeoMax(slot.end - abs_cursor, 0),
                                 GeoMax(slot.count - Len(slot.data), 0)), chunk.left)
           w == Filled(slot, take)
<1>2. /\ active # kInvalid /\ slot \in Slot /\ Filling(slot)
  <2>1. active # kInvalid
    BY DEF CopyWindow, OwnInv, CopyHasActive
  <2> QED BY <1>1, <2>1, Holders DEF SlotsInv
<1>3. /\ chunk \in [pos: Nat, left: Nat] /\ chunk.left \in Nat /\ abs_cursor \in Nat
      /\ stats \in StatsType /\ abandoned \in Nat /\ next_k \in Nat /\ generation \in Nat
      /\ calm \in BOOLEAN /\ state \in StateName
  BY <1>1 DEF NumbersInv, NumberType, ScheduleType, StatsType, StateName
<1>4. Consume(take)
  BY DEF CopyWindow
<1>5. \/ Finish(w, Len(w.data) < slot.count)
      \/ /\ pool' = [pool EXCEPT ![active] = w]
         /\ UNCHANGED <<free, ready, checkedOut, active, next_k, state, stats>>
  BY DEF CopyWindow, Filled
<1>6. UNCHANGED <<sched, guard, paused, generation, stream, releasing, eos, abandoned, calm>>
  BY DEF CopyWindow, history
<1>7. /\ take \in 0..chunk.left /\ Len(slot.data) + take <= slot.count
      /\ Len(slot.data) \in Nat /\ take \in Nat
  <2>1. slot.end \in Int /\ slot.count \in Int /\ slot.data \in Seq(Int)
    BY <1>2 DEF Slot
  <2>2. Len(slot.data) \in Nat /\ slot.end - abs_cursor \in Int
        /\ slot.count - Len(slot.data) \in Int
    BY <1>3, <2>1
  <2>3. take \in 0..chunk.left /\ take <= GeoMax(slot.count - Len(slot.data), 0)
    BY <1>3, <2>2, TakeBounds
  <2>4. Len(slot.data) <= slot.count
    BY <1>2 DEF Filling
  <2> HIDE DEF take, slot
  <2> QED BY <1>3, <2>1, <2>2, <2>3, <2>4 DEF GeoMax
<1> HIDE DEF take, slot
<1>8. /\ w \in Slot /\ Consecutive(w)
      /\ w.start = slot.start /\ w.gen = slot.gen /\ w.count = slot.count
      /\ w.end = slot.end /\ Len(w.data) = Len(slot.data) + take
  BY <1>1, <1>2, <1>7, FilledOn
<1> HIDE DEF w
<1>9. /\ w.gen = generation /\ w.end = w.start + w.count /\ Len(w.data) <= w.count
      /\ w.start + Len(w.data) = abs_cursor'
  <2>1. slot.gen = generation /\ slot.end = slot.start + slot.count
        /\ slot.start + Len(slot.data) = abs_cursor
        /\ slot.start \in Int /\ slot.count \in Int /\ slot.end \in Int
    BY <1>2 DEF Filling, Slot
  <2>2. abs_cursor' = abs_cursor + take
    BY <1>4 DEF Consume
  <2>3. w.start + Len(w.data) = abs_cursor'
    <3>1. w.start = slot.start /\ Len(w.data) = Len(slot.data) + take
      BY <1>8
    <3>2. slot.start + Len(slot.data) = abs_cursor /\ slot.start \in Int
          /\ Len(slot.data) \in Int /\ take \in Int /\ abs_cursor' = abs_cursor + take
      BY <1>7, <2>1, <2>2
    <3> QED BY <3>1, <3>2
  <2> QED BY <1>7, <1>8, <2>1, <2>3
<1>10. /\ stats' \in StatsType /\ WindowsAccounted' /\ next_k' \in Nat /\ state' \in StateName
  <2>1. CASE Finish(w, Len(w.data) < slot.count)
    BY <1>1, <1>2, <1>6, <2>1, FinishCounts
  <2>2. CASE UNCHANGED <<free, ready, checkedOut, active, next_k, state, stats>>
    BY <1>1, <1>3, <1>6, <2>2, SameCounts
  <2> QED BY <1>5, <2>1, <2>2
<1>11. NumbersStep
  BY <1>1, <1>3, <1>4, <1>6, <1>7, <1>10, NumbersOfLoop DEF StatsType, StateName
<1>12. SlotsInv'
  <2>1. CASE Finish(w, Len(w.data) < slot.count)
    <3>1. w.start = pool[active].start /\ slot.count = w.count /\ generation' = generation
          /\ releasing' = releasing
      BY <1>6, <1>8 DEF slot
    <3>2. w.start + Len(w.data) <= abs_cursor'
      <4>1. abs_cursor' \in Nat
        BY <1>11 DEF NumbersStep, NumbersInv, ScheduleType
      <4> QED BY <1>9, <4>1
    <3> DEFINE limit == slot.count
    <3>3. limit = w.count /\ Finish(w, Len(w.data) < limit)
      BY <2>1, <3>1
    <3> HIDE DEF limit
    <3> QED BY <1>1, <1>2, <1>8, <1>9, <1>11, <3>1, <3>2, <3>3, FinishSlots
  <2>2. CASE /\ pool' = [pool EXCEPT ![active] = w]
             /\ UNCHANGED <<free, ready, checkedOut, active, next_k, state, stats>>
    <3>1. active \in Handle /\ active \notin Delivered
      BY <1>2, Holders
    <3>2. pool' \in [Handle -> Slot] /\ pool'[active] = w
          /\ \A h \in Delivered : pool'[h] = pool[h]
      BY <1>1, <1>8, <2>2, <3>1, Holders DEF SlotsInv
    <3>3. Delivered' = Delivered /\ WindowsDisjoint'
      BY <1>1, <1>6, <2>2, <3>2, OrderKept
    <3>4. \A h \in Delivered : Before(pool[h], w)
      BY <1>1, <1>2, <1>8 DEF SlotsInv, Behind, Before, slot
    <3>5. (\A h \in Delivered : Whole(pool[h]) /\ Behind(pool[h]))'
      BY <1>1, <1>11, <2>2, <3>2, <3>3, <3>4, DeliveredKept
    <3>6. Filling(pool[active])'
      <4>1. active' = active /\ pool'[active] = w
        BY <2>2, <3>2
      <4>2. w.start + Len(w.data) = abs_cursor' /\ w.gen = generation'
            /\ w.end = w.start + w.count /\ Len(w.data) <= w.count
            /\ \A i \in DOMAIN w.data : w.data[i] = w.start + i - 1
        BY <1>6, <1>8, <1>9 DEF Consecutive
      <4> QED BY <4>1, <4>2 DEF Filling, Consecutive
    <3> QED BY <3>2, <3>3, <3>5, <3>6 DEF SlotsInv
  <2> QED BY <1>5, <2>1, <2>2
<1> QED BY <1>10, <1>11, <1>12 DEF StepKeeps

\* The operations between two chunks.
LEMMA ScheduleFacts ==
  ASSUME NumbersInv
  PROVE  /\ sched \in ScheduleNumbers /\ guard \in Guards /\ next_k \in Nat
         /\ abs_cursor \in Nat /\ stream \in Nat /\ generation \in Nat
         /\ generation \in generation..(generation + 1)
         /\ generation + 1 \in generation..(generation + 1)
         /\ state \in StateName /\ paused \in BOOLEAN /\ eos \in BOOLEAN
         /\ stats \in StatsType /\ abandoned \in Nat /\ calm \in BOOLEAN
         /\ abs_cursor <= stream /\ WaitOrPaused \in StateName
BY DEF NumbersInv, NumberType, ScheduleType, ScheduleNumbers, StatsType, StateName,
       InStream, WaitOrPaused

LEMMA AbortKeeps ==
  ASSUME OwnInv, CoreInv, Idle, AbortActive, sched' \in ScheduleNumbers, guard' \in Guards,
         next_k' \in Nat, state' \in StateName, paused' \in BOOLEAN, calm' \in BOOLEAN,
         generation' \in generation..(generation + 1),
         UNCHANGED <<abs_cursor, stats, chunk, stream, releasing, eos>>
  PROVE  StepKeeps
<1>1. NumbersInv /\ SlotsInv /\ WindowsAccounted
  BY DEF CoreInv
<1>2. abandoned' \in Nat /\ active' = kInvalid /\ WindowsAccounted'
  BY <1>1, AbortCounts
<1>3. NumbersStep
  BY <1>1, <1>2, ScheduleFacts, NumbersOfControl DEF StatsType, StateName
<1>4. SlotsInv'
  BY <1>1, <1>3, DropSlots DEF AbortActive
<1> QED BY <1>2, <1>3, <1>4 DEF StepKeeps

LEMMA SetScheduleKeeps ==
  ASSUME OwnInv, CoreInv, NEW s \in Schedules, set_schedule(s)
  PROVE  StepKeeps
<1>1. NumbersInv
  BY DEF CoreInv
<1>2. s \in ScheduleNumbers
  BY ScheduleAssumption DEF ScheduleNumbers
<1>3. advance_k_to_abs(s, guard, abs_cursor) \in Nat
  BY <1>1, <1>2, ScheduleFacts, AdvanceFindsOpen
<1>4. /\ Idle /\ AbortActive /\ sched' = s /\ next_k' = advance_k_to_abs(s, guard, abs_cursor)
      /\ state' = WaitOrPaused /\ generation' = generation + 1
      /\ UNCHANGED <<guard, abs_cursor, paused, stats, chunk, stream, releasing, eos>>
  BY DEF set_schedule
<1>5. calm' \in BOOLEAN
  <2>1. calm' = (abs_cursor <= window_bounds_for_slot(s, guard, next_k').start)
    BY DEF set_schedule
  <2> DEFINE early == abs_cursor <= window_bounds_for_slot(s, guard, next_k').start
  <2>2. CASE early
    BY <2>1, <2>2
  <2>3. CASE ~early
    BY <2>1, <2>3
  <2> QED BY <2>2, <2>3
<1> QED BY <1>1, <1>2, <1>3, <1>4, <1>5, ScheduleFacts, AbortKeeps

LEMMA ChangeGuardsKeeps ==
  ASSUME OwnInv, CoreInv, Idle, NEW g \in Guards, ChangeGuards(g),
         generation' \in generation..(generation + 1),
         state = "Unlocked" => generation' = generation
  PROVE  StepKeeps
<1>1. NumbersInv /\ SlotsInv /\ WindowsAccounted
  BY DEF CoreInv
<1>2. /\ guard' = g /\ calm' = FALSE
      /\ UNCHANGED <<sched, abs_cursor, paused, stats, chunk, stream, releasing, eos>>
  BY DEF ChangeGuards
<1>3. CASE state = "Unlocked"
  <2>1. UNCHANGED <<poolVars, next_k, state, abandoned>>
    BY <1>3 DEF ChangeGuards
  <2>2. generation' = generation /\ calm' \in BOOLEAN
    BY <1>2, <1>3
  <2>3. NumbersStep
    BY <1>1, <1>2, <2>1, <2>2, ScheduleFacts, NumbersOfControl DEF StatsType, StateName
  <2>4. SlotsInv'
    BY <1>1, <1>2, <2>1, <2>2, <2>3, SameSlots
  <2> QED BY <1>1, <1>2, <2>1, <2>3, <2>4, SameCounts DEF StepKeeps, poolVars
<1>4. CASE state # "Unlocked"
  <2>1. /\ AbortActive /\ next_k' = advance_k_to_abs(sched, g, abs_cursor)
        /\ state' = WaitOrPaused
    BY <1>4 DEF ChangeGuards
  <2>2. advance_k_to_abs(sched, g, abs_cursor) \in Nat
    BY <1>1, ScheduleFacts, AdvanceFindsOpen
  <2>3. calm' \in BOOLEAN
    BY <1>2
  <2> QED BY <1>1, <1>2, <2>1, <2>2, <2>3, ScheduleFacts, AbortKeeps
<1> QED BY <1>3, <1>4

\* Steps that leave the pool alone and the cursor where it is.
LEMMA QuietKeeps ==
  ASSUME OwnInv, CoreInv, Idle, sched' \in ScheduleNumbers, next_k' \in Nat,
         state' \in StateName, paused' \in BOOLEAN, calm' \in BOOLEAN,
         UNCHANGED <<poolVars, guard, abs_cursor, generation, stats, chunk, stream,
                     releasing, eos, abandoned>>
  PROVE  StepKeeps
<1>1. NumbersInv /\ SlotsInv /\ WindowsAccounted
  BY DEF CoreInv
<1>2. NumbersStep
  BY <1>1, ScheduleFacts, NumbersOfControl DEF StatsType, StateName
<1>3. SlotsInv'
  BY <1>1, <1>2, SameSlots
<1> QED BY <1>1, <1>2, <1>3, SameCounts DEF StepKeeps, poolVars

LEMMA UpdateKeeps ==
  ASSUME OwnInv, CoreInv, NEW s \in SoftParams, NEW f \in BOOLEAN, update_locked_params(s, f)
  PROVE  StepKeeps
<1>1. NumbersInv
  BY DEF CoreInv
<1>2. /\ Idle
      /\ UNCHANGED <<poolVars, guard, next_k, abs_cursor, state, paused, generation,
                     stats, chunk, stream, releasing, eos, abandoned, calm>>
  BY DEF update_locked_params, history
<1>3. s \in ScheduleNumbers
  BY ScheduleAssumption DEF ScheduleNumbers
<1>4. Continuous(s) \in ScheduleNumbers
  BY <1>1, <1>3, ScheduleFacts DEF Continuous, ScheduleNumbers
<1>5. sched' \in ScheduleNumbers
  <2>1. sched' \in {s, Continuous(s), sched}
    BY DEF update_locked_params
  <2> QED BY <1>1, <1>3, <1>4, <2>1, ScheduleFacts
<1> QED BY <1>1, <1>2, <1>5, ScheduleFacts, QuietKeeps

LEMMA RebuildKeeps ==
  ASSUME OwnInv, CoreInv, Idle, RebuildPool, sched' \in ScheduleNumbers, guard' \in Guards,
         next_k' = 0, state' = "Unlocked", paused' = FALSE, stats' = NoStats,
         generation' = generation + 1, calm' = TRUE,
         abs_cursor' \in Nat, stream' \in Nat, abs_cursor' <= stream',
         UNCHANGED <<chunk, releasing, eos>>
  PROVE  StepKeeps
<1>1. NumbersInv /\ SlotsInv /\ WindowsAccounted
  BY DEF CoreInv
<1>2. abandoned' = 0 /\ active' = kInvalid /\ stats' \in StatsType
  BY DEF RebuildPool, NoStats, StatsType
<1>3. state' \in StateName /\ paused' \in BOOLEAN /\ calm' \in BOOLEAN
  BY DEF StateName
<1>4. NumbersStep
  BY <1>1, <1>2, <1>3, ScheduleFacts, NumbersOfControl DEF StatsType, StateName
<1>5. SlotsInv'
  BY <1>1, <1>4, RebuildSlots
<1>6. WindowsAccounted'
  BY <1>2 DEF WindowsAccounted, NoStats
<1> QED BY <1>4, <1>5, <1>6 DEF StepKeeps

\* The stop: the window in hand is given up or completed as it is.
LEMMA FlushKeeps ==
  ASSUME OwnInv, CoreInv, flush_eos
  PROVE  StepKeeps
<1>1. NumbersInv /\ SlotsInv /\ WindowsAccounted
  BY DEF CoreInv
<1>2. /\ Idle /\ eos' = TRUE /\ calm' = FALSE
      /\ UNCHANGED <<sched, guard, abs_cursor, paused, generation, chunk, stream,
                     releasing, abandoned>>
  BY DEF flush_eos
<1>3. calm' \in BOOLEAN /\ eos' \in BOOLEAN
  BY <1>2
<1> DEFINE slot == pool[active]
           limit == slot.count
<1>4. ASSUME stats' \in StatsType, next_k' \in Nat, state' \in StateName
      PROVE  NumbersStep
  BY <1>1, <1>2, <1>3, <1>4, ScheduleFacts, NumbersOfControl DEF StatsType, StateName
<1>5. CASE active = kInvalid
  <2>1. UNCHANGED <<poolVars, next_k, state, stats>>
    BY <1>5 DEF flush_eos
  <2>2. NumbersStep
    BY <1>1, <1>4, <2>1, ScheduleFacts
  <2>3. SlotsInv'
    BY <1>1, <1>2, <1>5, <2>1, <2>2, SameSlots
  <2> QED BY <1>1, <1>2, <2>1, <2>2, <2>3, SameCounts DEF StepKeeps, poolVars
<1>6. CASE /\ active # kInvalid /\ active' = kInvalid
           /\ stats' = [stats EXCEPT !.partial = @ + 1, !.dropped = @ + 1]
           /\ pool' = [pool EXCEPT ![active] = EmptySlot] /\ state' = "WaitWindow"
           /\ UNCHANGED <<ready, checkedOut, next_k>>
  <2>1. stats \in StatsType /\ next_k \in Nat /\ abandoned \in Nat
    BY <1>1, ScheduleFacts
  <2>2. stats' \in StatsType
    <3>1. stats' = [[stats EXCEPT !.partial = @ + 1] EXCEPT !.dropped = @ + 1]
      BY <1>6, <2>1 DEF StatsType
    <3>2. \A x \in StatsType : [x EXCEPT !.partial = @ + 1] \in StatsType
      BY DEF StatsType
    <3>3. \A x \in StatsType : [x EXCEPT !.dropped = @ + 1] \in StatsType
      BY DEF StatsType
    <3> QED BY <2>1, <3>1, <3>2, <3>3
  <2>3. /\ stats'.scheduled = stats.scheduled /\ stats'.completed = stats.completed
        /\ stats'.dropped = stats.dropped + 1
    BY <1>6, <2>1 DEF StatsType
  <2>4. WindowsAccounted'
    BY <1>1, <1>2, <1>6, <2>1, <2>3 DEF WindowsAccounted, StatsType
  <2>5. NumbersStep
    BY <1>4, <1>6, <2>1, <2>2 DEF StateName
  <2>6. SlotsInv'
    BY <1>1, <1>2, <1>6, <2>5, DropSlots
  <2> QED BY <2>4, <2>5, <2>6 DEF StepKeeps
<1>7. CASE active # kInvalid /\ Finish(slot, Len(slot.data) < limit)
  <2>1. slot \in Slot /\ Filling(slot)
    BY <1>1, <1>7, Holders DEF SlotsInv
  <2>2. /\ stats' \in StatsType /\ WindowsAccounted' /\ next_k' \in Nat /\ state' \in StateName
    BY <1>1, <1>2, <1>7, FinishCounts
  <2>3. NumbersStep
    BY <1>4, <2>2
  <2>4. SlotsInv'
    <3>1. /\ Consecutive(slot) /\ slot.gen = generation /\ generation' = generation
          /\ slot.end = slot.start + slot.count /\ Len(slot.data) <= slot.count
          /\ slot.start + Len(slot.data) <= abs_cursor' /\ slot.start = pool[active].start
          /\ limit = slot.count
      <4>1. abs_cursor \in Nat /\ abs_cursor' = abs_cursor
        BY <1>1, <1>2, ScheduleFacts
      <4> QED BY <1>2, <2>1, <4>1 DEF Filling
    <3> HIDE DEF slot, limit
    <3> QED BY <1>1, <1>2, <1>7, <2>1, <2>3, <3>1, FinishSlots
  <2> QED BY <2>2, <2>3, <2>4 DEF StepKeeps
<1>8. \/ active = kInvalid
      \/ /\ active # kInvalid /\ active' = kInvalid
         /\ stats' = [stats EXCEPT !.partial = @ + 1, !.dropped = @ + 1]
         /\ pool' = [pool EXCEPT ![active] = EmptySlot] /\ state' = "WaitWindow"
         /\ UNCHANGED <<ready, checkedOut, next_k>>
      \/ active # kInvalid /\ Finish(slot, Len(slot.data) < limit)
  BY DEF flush_eos
<1> QED BY <1>5, <1>6, <1>7, <1>8

LEMMA CoreInvInit == Init => CoreInv
<1> SUFFICES ASSUME Init PROVE CoreInv
  OBVIOUS
<1> USE DEF Init
<1>1. OwnInv
  BY OwnInvInit
<1>2. NumbersInv
  <2>1. sched \in [first: Int, period: Nat \ {0}] /\ guard \in Guards
    BY ScheduleAssumption, GuardAssumption
  <2>2. ScheduleType
    BY <2>1 DEF ScheduleType
  <2>3. NumberType
    BY DEF NumberType, NoStats
  <2>4. InStream
    BY DEF InStream
  <2> QED BY <2>2, <2>3, <2>4 DEF NumbersInv
<1>3. SlotsInv
  <2>1. Range(ready) = {} /\ DOMAIN ready = {} /\ Delivered = {}
    BY DEF Range, Delivered
  <2>2. pool \in [Handle -> Slot]
    BY EmptySlotTyped
  <2> QED BY <2>1, <2>2 DEF SlotsInv, WindowsDisjoint
<1>4. WindowsAccounted
  BY DEF WindowsAccounted, NoStats
<1> QED BY <1>1, <1>2, <1>3, <1>4 DEF CoreInv

LEMMA CoreInvStep == CoreInv /\ [Next]_vars => CoreInv'
<1> SUFFICES ASSUME CoreInv, [Next]_vars PROVE CoreInv'
  OBVIOUS
<1>1. OwnInv /\ OwnInv'
  BY OwnInvStep DEF CoreInv
<1>2. NumbersInv /\ SlotsInv /\ WindowsAccounted
  BY DEF CoreInv
<1>3. SUFFICES StepKeeps
  BY <1>1, <1>3 DEF StepKeeps, NumbersStep, CoreInv
<1>4. CASE Stream
  <2>1. PICK n \in 1..MaxChunk, gap \in 0..MaxGap : process_chunk(n, stream + gap)
    BY <1>4 DEF Stream
  <2>2. n \in Nat /\ gap \in Nat
    BY BoundAssumption
  <2> QED BY <1>1, <2>1, <2>2, JumpKeeps
<1>5. CASE Loop
  BY <1>1, <1>5, SkipKeeps, BeginKeeps, CopyKeeps DEF Loop
<1>6. CASE Control
  <2>1. ASSUME NEW s \in Schedules, set_schedule(s) PROVE StepKeeps
    BY <1>1, <2>1, SetScheduleKeeps
  <2>2. ASSUME NEW g \in Guards, update_guards_keep_generation(g) PROVE StepKeeps
    BY <1>1, <1>2, <2>2, ScheduleFacts, ChangeGuardsKeeps DEF update_guards_keep_generation
  <2>3. ASSUME NEW g \in Guards, set_guards(g) PROVE StepKeeps
    <3>1. /\ Idle /\ ChangeGuards(g)
          /\ generation' = IF state = "Unlocked" THEN generation ELSE generation + 1
      BY <2>3 DEF set_guards
    <3> QED BY <1>1, <1>2, <3>1, ScheduleFacts, ChangeGuardsKeeps
  <2>4. ASSUME NEW s \in SoftParams, NEW f \in BOOLEAN, update_locked_params(s, f)
        PROVE  StepKeeps
    BY <1>1, <2>4, UpdateKeeps
  <2>5. CASE pause
    <3>1. /\ Idle /\ AbortActive /\ paused' = TRUE /\ state' = "Paused" /\ calm' = FALSE
          /\ UNCHANGED <<sched, guard, abs_cursor, next_k, generation, stats, chunk,
                         stream, releasing, eos>>
      BY <2>5 DEF pause
    <3>2. paused' \in BOOLEAN /\ calm' \in BOOLEAN /\ state' \in StateName
      BY <3>1 DEF StateName
    <3> QED BY <1>1, <1>2, <3>1, <3>2, ScheduleFacts, AbortKeeps
  <2>6. CASE resume
    <3>1. /\ Idle /\ paused' = FALSE /\ state' = "WaitWindow" /\ calm' = FALSE
          /\ next_k' = advance_k_to_abs(sched, guard, abs_cursor)
          /\ UNCHANGED <<poolVars, sched, guard, abs_cursor, generation, stats, chunk,
                         stream, releasing, eos, abandoned>>
      BY <2>6 DEF resume
    <3>2. paused' \in BOOLEAN /\ calm' \in BOOLEAN /\ state' \in StateName
      BY <3>1 DEF StateName
    <3>3. next_k' \in Nat
      BY <1>2, <3>1, ScheduleFacts, AdvanceFindsOpen
    <3> QED BY <1>1, <1>2, <3>1, <3>2, <3>3, ScheduleFacts, QuietKeeps
  <2>7. CASE reset
    <3>1. /\ Idle /\ RebuildPool /\ next_k' = 0 /\ state' = "Unlocked" /\ paused' = FALSE
          /\ stats' = NoStats /\ generation' = generation + 1 /\ calm' = TRUE
          /\ abs_cursor' = 0 /\ stream' \in {0, stream}
          /\ UNCHANGED <<sched, guard, chunk, releasing, eos>>
      BY <2>7 DEF reset
    <3>2. /\ abs_cursor' \in Nat /\ stream' \in Nat /\ abs_cursor' <= stream'
          /\ sched' \in ScheduleNumbers /\ guard' \in Guards
      BY <1>2, <3>1, ScheduleFacts
    <3> QED BY <1>1, <3>1, <3>2, RebuildKeeps
  <2>8. ASSUME NEW s \in Schedules, NEW g \in Guards, configure(s, g) PROVE StepKeeps
    <3>1. /\ Idle /\ RebuildPool /\ next_k' = 0 /\ state' = "Unlocked" /\ paused' = FALSE
          /\ stats' = NoStats /\ generation' = generation + 1 /\ calm' = TRUE
          /\ abs_cursor' = stream /\ sched' = s /\ guard' = g
          /\ UNCHANGED <<chunk, stream, releasing, eos>>
      BY <2>8 DEF configure
    <3>2. s \in ScheduleNumbers
      BY ScheduleAssumption DEF ScheduleNumbers
    <3>3. /\ abs_cursor' \in Nat /\ stream' \in Nat /\ abs_cursor' <= stream'
          /\ sched' \in ScheduleNumbers /\ guard' \in Guards
      BY <1>2, <3>1, <3>2, ScheduleFacts
    <3> QED BY <1>1, <3>1, <3>3, RebuildKeeps
  <2>9. CASE flush_eos
    BY <1>1, <2>9, FlushKeeps
  <2> QED BY <1>6, <2>1, <2>2, <2>3, <2>4, <2>5, <2>6, <2>7, <2>8, <2>9 DEF Control
<1>7. CASE take_window
  <2>1. UNCHANGED <<sched, guard, next_k, abs_cursor, state, paused, generation,
                    stats, chunk, stream, eos, abandoned, calm, active>>
    BY <1>7 DEF take_window, schedVars, history
  <2>2. NumbersStep
    BY <1>2, <2>1, NumbersAside
  <2> QED BY <1>1, <1>2, <1>7, <2>1, <2>2, TakeSlots, SameCounts DEF StepKeeps
<1>8. CASE Worker
  <2>1. UNCHANGED <<sched, guard, next_k, abs_cursor, state, paused, generation,
                    stats, chunk, stream, eos, abandoned, calm, active>>
    BY <1>8 DEF Worker, PushFree, ClearSlot, schedVars, history
  <2>2. NumbersStep
    BY <1>2, <2>1, NumbersAside
  <2>3. SlotsInv'
    BY <1>1, <1>2, <1>8, <2>2, ClearSlots, PushSlots DEF Worker
  <2> QED BY <1>1, <1>2, <2>1, <2>2, <2>3, SameCounts DEF StepKeeps
<1>9. CASE UNCHANGED vars
  <2>1. UNCHANGED <<sched, guard, next_k, abs_cursor, state, paused, generation,
                    stats, chunk, stream, eos, abandoned, calm, active, releasing, poolVars>>
    BY <1>9 DEF vars, poolVars
  <2>2. NumbersStep
    BY <1>2, <2>1, NumbersAside
  <2>3. SlotsInv'
    BY <1>1, <1>2, <2>1, <2>2, SameSlots
  <2> QED BY <1>1, <1>2, <2>1, <2>2, <2>3, SameCounts DEF StepKeeps
<1> QED BY <1>4, <1>5, <1>6, <1>7, <1>8, <1>9 DEF Next

-----------------------------------------------------------------------------
\* The history of the grid, step by step.
GridType == grid \in GridStates

LEMMA GridTyped == GridType /\ [Next]_vars => GridType'
<1> SUFFICES ASSUME GridType, [Next]_vars PROVE GridType'
  OBVIOUS
<1>1. /\ grid \in GridStates /\ Moved \in GridStates /\ Searched \in GridStates
      /\ "fixed" \in GridStates /\ "searched" \in GridStates
  BY DEF GridType, GridStates, Moved, Searched
<1>2. SUFFICES grid' \in {grid, Moved, Searched, "fixed", "searched"}
  BY <1>1, <1>2 DEF GridType
<1>3. CASE Stream
  BY <1>3 DEF Stream, process_chunk, NoteJump
<1>4. CASE Loop
  BY <1>4 DEF Loop, SkipChunk, WaitForWindow, StarveWindow, CopyWindow, begin_window, history
<1>5. CASE Control
  BY <1>5 DEF Control, set_schedule, update_guards_keep_generation, set_guards,
              update_locked_params, pause, resume, reset, configure, flush_eos
<1>6. CASE take_window \/ Worker
  BY <1>6 DEF take_window, Worker, PushFree, ClearSlot, history
<1>7. CASE UNCHANGED vars
  BY <1>7 DEF vars
<1> QED BY <1>3, <1>4, <1>5, <1>6, <1>7 DEF Next

\* Every variable of the core keeps its type: with the rounding of its
\* arithmetic, and after any number of operations.
THEOREM CoreTypes == Spec => []TypeOK
<1>1. CoreInv /\ GridType => TypeOK
  BY DEF CoreInv, OwnInv, NumbersInv, NumberType, SlotsInv, GridType, TypeOK
<1>2. Init => GridType
  BY DEF Init, GridType, GridStates
<1> QED BY CoreInvInit, CoreInvStep, GridTyped, <1>1, <1>2, PTL DEF Spec

\* A completed window holds consecutive samples from its start, as many as it
\* announces, and is short only if it says so (process_chunk, begin_window,
\* finish_active_window, flush_eos).
THEOREM WindowsWhole == Spec => []WindowContent
<1>1. CoreInv => WindowContent
  BY DEF CoreInv, SlotsInv, Whole, Consecutive, WindowContent
<1> QED BY CoreInvInit, CoreInvStep, <1>1, PTL DEF Spec

\* Two windows of a generation share no sample, whatever the schedule, its
\* soft updates, the guards and the jumps of the stream: the cursor never goes
\* back within a generation, and a window lies where the cursor has passed.
THEOREM NoSampleTwice == Spec => []WindowsDisjoint
<1>1. CoreInv => WindowsDisjoint
  BY DEF CoreInv, SlotsInv
<1> QED BY CoreInvInit, CoreInvStep, <1>1, PTL DEF Spec

\* A window counted as scheduled is completed, dropped, aborted or in hand
\* (the counters of process_chunk, begin_window and finish_active_window).
THEOREM EveryWindowCounted == Spec => []WindowsAccounted
<1>1. CoreInv => WindowsAccounted
  BY DEF CoreInv
<1> QED BY CoreInvInit, CoreInvStep, <1>1, PTL DEF Spec

\* What the worker holds is nobody else's to change: no abort, rebuild or new
\* window touches its slots (release_to_free, rebuild_free_excluding_...,
\* begin_window).
LEMMA HeldStep ==
  ASSUME CoreInv, [Next]_vars, NEW h \in checkedOut, pool'[h] # pool[h]
  PROVE  releasing' = h /\ releasing = kInvalid
<1>1. OwnInv /\ pool \in [Handle -> Slot] /\ checkedOut \subseteq Handle /\ h \in Handle
  BY DEF CoreInv, SlotsInv, OwnInv, PoolType
<1>2. active # h /\ h \notin free
  BY <1>1, Holders
<1>3. ASSUME AbortActive PROVE FALSE
  BY <1>1, <1>2, <1>3 DEF AbortActive
<1>4. ASSUME RebuildPool PROVE FALSE
  BY <1>1, <1>4 DEF RebuildPool, WipedPool
<1>5. ASSUME NEW w, NEW p, Finish(w, p) PROVE FALSE
  BY <1>1, <1>2, <1>5 DEF Finish
<1>6. pool' # pool
  OBVIOUS
<1>7. CASE Stream
  BY <1>3, <1>6, <1>7 DEF Stream, process_chunk, NoteJump, poolVars
<1>8. CASE Loop
  <2>1. ASSUME NEW b \in Handle, begin_window(b) PROVE FALSE
    BY <1>1, <1>2, <2>1 DEF begin_window
  <2>2. CASE CopyWindow
    BY <1>1, <1>2, <1>5, <2>2 DEF CopyWindow
  <2> QED BY <1>6, <1>8, <2>1, <2>2
          DEF Loop, SkipChunk, WaitForWindow, StarveWindow, poolVars
<1>9. CASE Control
  <2>1. CASE flush_eos
    BY <1>1, <1>2, <1>5, <1>6, <2>1 DEF flush_eos, poolVars
  <2>2. ASSUME NEW g, ChangeGuards(g) PROVE FALSE
    BY <1>3, <1>6, <2>2 DEF ChangeGuards, poolVars
  <2> QED BY <1>3, <1>4, <1>6, <1>9, <2>1, <2>2
          DEF Control, set_schedule, update_guards_keep_generation, set_guards,
              update_locked_params, pause, resume, reset, configure, poolVars
<1>10. CASE take_window \/ PushFree \/ UNCHANGED vars
  BY <1>6, <1>10 DEF take_window, PushFree, vars
<1>11. ASSUME NEW c \in Handle, ClearSlot(c) PROVE releasing' = h /\ releasing = kInvalid
  BY <1>1, <1>11 DEF ClearSlot
<1> QED BY <1>7, <1>8, <1>9, <1>10, <1>11 DEF Next, Worker

\* No step of work(), of a control call or of the stream changes a slot the worker
\* has taken; only its own release does.
THEOREM HeldWindowsUntouched == Spec => WorkerSlotStable
<1>1. CoreInv /\ [Next]_vars
        => [\A h \in checkedOut : pool'[h] # pool[h] => releasing' = h /\ releasing = kInvalid]_vars
  BY HeldStep
<1> QED BY CoreInvInit, CoreInvStep, <1>1, PTL DEF Spec, WorkerSlotStable

-----------------------------------------------------------------------------
(* Windows of an undisturbed schedule are whole.  This needs the windows of *)
(* a schedule to be apart, a period being at least as long as a window with *)
(* either guards, and the first of them not to be moved to sample 0: one    *)
(* that is reaches into the next.                                           *)

WindowsApart ==
  \A s \in Schedules \cup SoftParams, g \in Guards :
    window_capacity(g) * Den <= s.period
StartsLate ==
  \A s \in Schedules \cup SoftParams, g \in Guards : g.pre * Den <= s.first

\* Whatever brought the present period, no window is longer.
Apart == \A g \in Guards : window_capacity(g) * Den <= sched.period

\* The next window is not moved to sample 0, and is not late.
Timely ==
  /\ calm /\ state \in {"WaitWindow", "CopyWindow"} =>
       guard.pre <= predicted_start_sample(sched, next_k)
  /\ calm /\ state = "WaitWindow" => abs_cursor <= Bounds(next_k).start

\* The window in hand is whole, and over when the one of its index is, where
\* a soft update may have put that since.
CutWhole(w) ==
  /\ ~w.partial
  /\ w.end <= Bounds(next_k).end
  /\ w.end <= w.start + window_capacity(guard)
CalmCut == calm /\ state = "CopyWindow" => CutWhole(pool[active])

WholeSinceSet ==
  calm => \A h \in Delivered : pool[h].gen = generation => ~pool[h].partial

CalmInv == Apart /\ Timely /\ CalmCut /\ WholeSinceSet

\* llround is monotone by whole samples.
LEMMA LlroundSpaced ==
  ASSUME NEW x \in Int, NEW d \in Int, NEW c \in Nat, c * Den <= d
  PROVE  Llround(x) + c <= Llround(x + d)
<1>1. Den \in Nat \ {0} /\ 2 * Den \in Nat \ {0}
  BY DenAssumption
<1>2. ASSUME NEW y \in Int
      PROVE  /\ Llround(y) \in Int
             /\ (2 * Den) * Llround(y) <= 2 * y + Den
             /\ 2 * y - Den <= (2 * Den) * Llround(y)
             /\ y < 0 => (2 * Den) * Llround(y) < 2 * y + Den
             /\ y >= 0 => 2 * y - Den < (2 * Den) * Llround(y)
  <2> DEFINE q == (2 * y + Den) \div (2 * Den)
             p == (Den - 2 * y) \div (2 * Den)
             D == 2 * Den
  <2>1. /\ D \in Int /\ D = 2 * Den /\ Den \in Int
        /\ 2 * y + Den \in Int /\ Den - 2 * y \in Int
    BY <1>1
  <2>2. q \in Int /\ D * q <= 2 * y + Den /\ 2 * y + Den < D * q + D
    BY <1>1, <2>1, Division
  <2>3. p \in Int /\ D * p <= Den - 2 * y /\ Den - 2 * y < D * p + D
    BY <1>1, <2>1, Division
  <2>4. Llround(y) = IF y >= 0 THEN q ELSE -p
    BY DEF Llround
  <2> HIDE DEF p, q, D
  <2>5. D * q \in Int /\ D * p \in Int /\ D * (-p) = -(D * p)
    BY <2>1, <2>2, <2>3
  <2>6. /\ Llround(y) \in Int
        /\ D * Llround(y) <= 2 * y + Den
        /\ 2 * y - Den <= D * Llround(y)
        /\ y < 0 => D * Llround(y) < 2 * y + Den
        /\ y >= 0 => 2 * y - Den < D * Llround(y)
    <3>1. CASE y >= 0
      <4>1. Llround(y) = q
        BY <2>4, <3>1
      <4> QED BY <2>1, <2>2, <2>5, <3>1, <4>1
    <3>2. CASE ~(y >= 0)
      <4>1. Llround(y) = -p /\ D * Llround(y) = -(D * p)
        BY <2>4, <2>5, <3>2
      <4> QED BY <2>1, <2>3, <2>5, <3>2, <4>1
    <3> QED BY <3>1, <3>2
  <2> QED BY <2>6 DEF D
<1> DEFINE r == Llround(x)
           t == Llround(x + d)
           cd == c * Den
           dr == Den * r
           dt == Den * t
<1>3. cd \in Nat /\ cd <= d /\ x + d \in Int
  BY <1>1
<1>4. /\ r \in Int /\ 2 * dr <= 2 * x + Den /\ (x < 0 => 2 * dr < 2 * x + Den)
  <2>1. (2 * Den) * r = 2 * dr /\ r \in Int
    BY <1>1, <1>2
  <2> QED BY <1>2, <2>1
<1>5. /\ t \in Int /\ 2 * (x + d) - Den <= 2 * dt
      /\ x + d >= 0 => 2 * (x + d) - Den < 2 * dt
  <2>1. (2 * Den) * t = 2 * dt /\ t \in Int
    BY <1>1, <1>2, <1>3
  <2> QED BY <1>2, <1>3, <2>1
<1> SUFFICES ASSUME t < r + c PROVE FALSE
  BY <1>4, <1>5
<1>6. dt + Den <= dr + cd /\ dt \in Int /\ dr \in Int
  <2>1. r \in Int /\ t \in Int
    BY <1>4, <1>5
  <2> HIDE DEF r, t
  <2> DEFINE e == r + c - (t + 1)
  <2>2. e \in Nat
    BY <2>1
  <2>3. Den * e \in Nat
    BY <1>1, <2>2
  <2>4. Den * e = Den * r + c * Den - Den * t - Den
    BY <1>1, <2>1
  <2>5. Den * r \in Int /\ Den * t \in Int /\ c * Den \in Int
    BY <1>1, <2>1
  <2> QED BY <1>1, <2>3, <2>4, <2>5
<1> HIDE DEF r, t, dr, dt, cd
<1> QED BY <1>1, <1>3, <1>4, <1>5, <1>6

\* The window of the next index begins where that of this one has ended, or
\* later: the rounding of a fractional period makes no two of them overlap.
LEMMA NextWindowFollows ==
  ASSUME NEW s \in ScheduleNumbers, NEW g \in Guards, NEW k \in Nat,
         window_capacity(g) * Den <= s.period, g.pre <= predicted_start_sample(s, k)
  PROVE  /\ g.pre <= predicted_start_sample(s, k + 1)
         /\ window_bounds_for_slot(s, g, k).end
              <= window_bounds_for_slot(s, g, k + 1).start
<1> DEFINE x == s.first + k * s.period
           cap == window_capacity(g)
           a == predicted_start_sample(s, k)
           b == predicted_start_sample(s, k + 1)
<1>1. /\ x \in Int /\ cap \in Nat /\ g.pre \in Nat /\ s.period \in Int
      /\ s.first + (k + 1) * s.period = x + s.period
  BY GuardAssumption DEF ScheduleNumbers, window_capacity
<1>2. a + cap <= b
  BY <1>1, LlroundSpaced DEF predicted_start_sample
<1>3. a \in Int /\ b \in Int
  BY <1>1, LlroundKeeps DEF predicted_start_sample
<1>4. /\ window_bounds_for_slot(s, g, k).end = GeoMax(a - g.pre, 0) + cap
      /\ window_bounds_for_slot(s, g, k + 1).start = GeoMax(b - g.pre, 0)
  BY DEF window_bounds_for_slot
<1> HIDE DEF a, b, cap
<1>5. g.pre <= a
  BY DEF a
<1>6. GeoMax(a - g.pre, 0) + cap <= GeoMax(b - g.pre, 0)
  BY <1>1, <1>2, <1>3, <1>5 DEF GeoMax
<1>7. g.pre <= b
  BY <1>1, <1>2, <1>3, <1>5
<1> QED BY <1>4, <1>6, <1>7 DEF b

\* A schedule that starts late enough for the guards stays so.
LEMMA PredictedLate ==
  ASSUME NEW s \in ScheduleNumbers, NEW g \in Guards, NEW k \in Nat, g.pre * Den <= s.first
  PROVE  g.pre <= predicted_start_sample(s, k)
<1> DEFINE x == s.first + k * s.period
<1>1. x \in Int /\ g.pre \in Nat /\ k * s.period \in Nat /\ s.first \in Int
  BY GuardAssumption DEF ScheduleNumbers
<1>2. g.pre * Den \in Nat
  BY <1>1, DenAssumption
<1>3. x >= g.pre * Den
  BY <1>1, <1>2
<1>4. Llround(x) >= g.pre /\ Llround(x) \in Int
  BY <1>1, <1>3, LlroundKeeps
<1> QED BY <1>1, <1>4 DEF predicted_start_sample

\* A schedule that a call brings has its windows apart and none of them moved.
LEMMA BroughtFacts ==
  ASSUME WindowsApart, StartsLate, NEW s \in Schedules \cup SoftParams, NEW g \in Guards
  PROVE  /\ s \in ScheduleNumbers /\ window_capacity(g) * Den <= s.period
         /\ \A k \in Nat : g.pre <= predicted_start_sample(s, k)
<1>1. s \in ScheduleNumbers
  BY ScheduleAssumption DEF ScheduleNumbers
<1>2. window_capacity(g) * Den <= s.period /\ g.pre * Den <= s.first
  BY DEF WindowsApart, StartsLate
<1> QED BY <1>1, <1>2, PredictedLate

\* A step that disturbs the schedule leaves nothing to show but the period.
LEMMA CalmOver ==
  ASSUME calm' = FALSE, Apart'
  PROVE  CalmInv'
BY DEF CalmInv, Timely, CalmCut, WholeSinceSet

LEMMA ApartKept ==
  ASSUME Apart, sched' = sched
  PROVE  Apart'
BY DEF Apart

\* The completed windows, when the step completes none.
LEMMA WholeKept ==
  ASSUME CoreInv, WholeSinceSet, calm' => calm, generation' = generation,
         Delivered' \subseteq Delivered, \A h \in Delivered' : pool'[h] = pool[h]
  PROVE  WholeSinceSet'
<1> SUFFICES ASSUME calm', NEW h \in Delivered', pool'[h].gen = generation'
             PROVE  ~pool'[h].partial
  BY DEF WholeSinceSet
<1> QED BY DEF WholeSinceSet

\* ... and when it opens a generation, that has none.
LEMMA WholeAnew ==
  ASSUME CoreInv, generation' = generation + 1,
         Delivered' \subseteq Delivered, \A h \in Delivered' : pool'[h] = pool[h]
  PROVE  WholeSinceSet'
<1> SUFFICES ASSUME NEW h \in Delivered', pool'[h].gen = generation' PROVE FALSE
  BY DEF WholeSinceSet
<1>1. NumbersInv /\ SlotsInv /\ OwnInv
  BY DEF CoreInv
<1>2. pool[h].gen <= generation /\ pool[h] \in Slot
  BY <1>1, Holders DEF SlotsInv, Behind
<1>3. generation \in Nat /\ pool[h].gen \in Nat
  BY <1>1, <1>2, ScheduleFacts DEF Slot
<1> QED BY <1>2, <1>3

\* The windows the core holds, when a step leaves ring and worker alone.
LEMMA SameDelivered ==
  ASSUME UNCHANGED <<ready, checkedOut, releasing>>
  PROVE  Delivered' = Delivered
BY DEF Delivered, Range

LEMMA AbortSpares ==
  ASSUME OwnInv, SlotsInv, AbortActive, releasing' = releasing
  PROVE  Delivered' = Delivered /\ \A h \in Delivered' : pool'[h] = pool[h]
<1>1. Delivered' = Delivered
  BY SameDelivered DEF AbortActive
<1>2. active \notin Delivered /\ Delivered \subseteq Handle
  BY Holders
<1>3. \A h \in Delivered : pool'[h] = pool[h]
  BY <1>2 DEF AbortActive, SlotsInv
<1> QED BY <1>1, <1>3

\* A jump of the stream.
LEMMA CalmOfJump ==
  ASSUME CoreInv, OwnInv', CalmInv, NEW n \in Nat, NEW gap \in Nat,
         process_chunk(n, stream + gap)
  PROVE  CalmInv'
<1> DEFINE a == stream + gap
<1>1. OwnInv /\ NumbersInv /\ SlotsInv
  BY DEF CoreInv
<1>2. /\ abs_cursor' = a /\ NoteJump(a)
      /\ UNCHANGED <<sched, guard, generation, releasing>>
  BY DEF process_chunk
<1> HIDE DEF a
<1>3. Apart'
  BY <1>2, ApartKept DEF CalmInv
<1>4. CASE a = abs_cursor \/ (abs_cursor = 0 /\ state = "Unlocked")
  <2>1. UNCHANGED <<poolVars, next_k, state, calm>>
    BY <1>2, <1>4 DEF NoteJump
  <2>2. Delivered' = Delivered /\ \A h \in Delivered' : pool'[h] = pool[h]
    BY <1>2, <2>1, SameDelivered DEF poolVars
  <2>3. WholeSinceSet'
    BY <1>2, <2>1, <2>2, WholeKept DEF CalmInv
  <2>4. Timely'
    BY <1>2, <1>4, <2>1 DEF CalmInv, Timely, Bounds
  <2>5. CalmCut'
    BY <1>2, <2>1 DEF CalmInv, CalmCut, CutWhole, Bounds, poolVars
  <2> QED BY <1>3, <2>3, <2>4, <2>5 DEF CalmInv
<1>5. CASE ~(a = abs_cursor \/ (abs_cursor = 0 /\ state = "Unlocked"))
  <2>1. AbortActive
    BY <1>2, <1>5 DEF NoteJump
  <2>2. CASE state \in {"WaitWindow", "CopyWindow"}
    <3>1. calm' = FALSE
      BY <1>2, <1>5, <2>2 DEF NoteJump
    <3> QED BY <1>3, <3>1, CalmOver
  <2>3. CASE state \notin {"WaitWindow", "CopyWindow"}
    <3>1. UNCHANGED <<next_k, state, calm>>
      BY <1>2, <1>5, <2>3 DEF NoteJump
    <3>2. WholeSinceSet'
      BY <1>1, <1>2, <2>1, <3>1, AbortSpares, WholeKept DEF CalmInv
    <3>3. Timely' /\ CalmCut'
      BY <2>3, <3>1 DEF Timely, CalmCut
    <3> QED BY <1>3, <3>2, <3>3 DEF CalmInv
  <2> QED BY <2>2, <2>3
<1> QED BY <1>4, <1>5

\* Skipping what no window covers, and giving up a window.
LEMMA CalmOfSkip ==
  ASSUME CoreInv, CalmInv, SkipChunk \/ WaitForWindow \/ StarveWindow
  PROVE  CalmInv'
<1>1. OwnInv /\ NumbersInv /\ SlotsInv
  BY DEF CoreInv
<1>2. UNCHANGED <<poolVars, sched, guard, state, generation, releasing>>
  BY DEF SkipChunk, WaitForWindow, StarveWindow
<1>3. Apart'
  BY <1>2, ApartKept DEF CalmInv
<1>4. Delivered' = Delivered /\ \A h \in Delivered' : pool'[h] = pool[h]
  BY <1>2, SameDelivered DEF poolVars
<1>5. CASE SkipChunk
  <2>1. state \in {"Unlocked", "Paused"} /\ calm' = calm
    BY <1>5 DEF SkipChunk, history
  <2>2. Timely' /\ CalmCut'
    BY <1>2, <2>1 DEF Timely, CalmCut
  <2>3. WholeSinceSet'
    BY <1>2, <1>4, <2>1, WholeKept DEF CalmInv
  <2> QED BY <1>3, <2>2, <2>3 DEF CalmInv
<1>6. CASE StarveWindow
  <2>1. calm' = FALSE
    BY <1>6 DEF StarveWindow
  <2> QED BY <1>3, <2>1, CalmOver, Zenon
<1>7. CASE WaitForWindow
  <2>1. state = "WaitWindow" /\ calm' = calm /\ state' = state
    BY <1>7 DEF WaitForWindow, InWait, history
  <2>2. CASE calm
    <3> DEFINE st == Bounds(next_k).start
    <3>1. abs_cursor <= st
      BY <2>1, <2>2 DEF CalmInv, Timely
    <3>2. /\ st \in Nat /\ Bounds(next_k).end \in Nat /\ st < Bounds(next_k).end
          /\ abs_cursor \in Nat
      BY <1>1, ScheduleFacts, BoundsTyped DEF Bounds
    <3>3. ~(abs_cursor >= Bounds(next_k).end)
      BY <3>1, <3>2
    <3>4. Consume(GeoMin(st - abs_cursor, chunk.left)) /\ next_k' = next_k
      BY <1>7, <3>3 DEF WaitForWindow
    <3> HIDE DEF st
    <3>5. abs_cursor' <= st
      <4>1. abs_cursor' = abs_cursor + GeoMin(st - abs_cursor, chunk.left)
        BY <3>4 DEF Consume
      <4>2. chunk.left \in Nat
        BY <1>1 DEF NumbersInv, ScheduleType
      <4> QED BY <3>1, <3>2, <4>1, <4>2 DEF GeoMin
    <3>6. st = (Bounds(next_k).start)'
      BY <1>2, <3>4 DEF Bounds, st
    <3>7. Timely'
      BY <1>2, <2>1, <3>4, <3>5, <3>6 DEF CalmInv, Timely
    <3>8. CalmCut'
      BY <2>1 DEF CalmCut
    <3>9. WholeSinceSet'
      BY <1>2, <1>4, <2>1, WholeKept DEF CalmInv
    <3> QED BY <1>3, <3>7, <3>8, <3>9 DEF CalmInv
  <2>3. CASE ~calm
    <3>1. calm' = FALSE
      BY <1>1, <2>1, <2>3, ScheduleFacts
    <3> QED BY <1>3, <3>1, CalmOver, Zenon
  <2> QED BY <2>2, <2>3
<1> QED BY <1>5, <1>6, <1>7

\* A window begins on time: the core has waited for its start.
LEMMA CalmOfBegin ==
  ASSUME CoreInv, CalmInv, NEW h \in Handle, begin_window(h)
  PROVE  CalmInv'
<1>1. OwnInv /\ NumbersInv /\ SlotsInv
  BY DEF CoreInv
<1> DEFINE st == Bounds(next_k).start
           fin == Bounds(next_k).end
           late == abs_cursor > st
           w == [k |-> next_k, start |-> abs_cursor, end |-> fin,
                 count |-> fin - abs_cursor, partial |-> late,
                 gen |-> generation, data |-> <<>>]
<1>2. /\ state = "WaitWindow" /\ h \in free /\ active' = h /\ state' = "CopyWindow"
      /\ pool' = [pool EXCEPT ![h] = w] /\ WindowOpen
      /\ UNCHANGED <<ready, checkedOut, sched, guard, next_k, abs_cursor, generation,
                     releasing, calm>>
  BY DEF begin_window, InWait, history
<1>3. Apart'
  BY <1>2, ApartKept DEF CalmInv
<1>4. Delivered' = Delivered /\ \A d \in Delivered' : pool'[d] = pool[d]
  <2>1. Delivered' = Delivered
    BY <1>2, SameDelivered
  <2>2. h \notin Delivered /\ Delivered \subseteq Handle
    BY <1>1, <1>2, Holders
  <2> HIDE DEF w
  <2>3. \A d \in Delivered : pool'[d] = pool[d]
    BY <1>1, <1>2, <2>2 DEF SlotsInv
  <2> QED BY <2>1, <2>3
<1>5. WholeSinceSet'
  BY <1>2, <1>4, WholeKept DEF CalmInv
<1>6. Timely'
  BY <1>2 DEF CalmInv, Timely, Bounds
<1>7. CalmCut'
  <2> SUFFICES ASSUME calm PROVE CutWhole(pool[active])'
    BY <1>2 DEF CalmCut
  <2>1. /\ st \in Nat /\ fin \in Nat /\ abs_cursor \in Nat
    BY <1>1, ScheduleFacts, BoundsTyped DEF Bounds
  <2>2. abs_cursor <= st /\ abs_cursor >= st
    BY <1>2 DEF CalmInv, Timely, WindowOpen
  <2>3. fin = st + window_capacity(guard)
    BY DEF Bounds, window_bounds_for_slot
  <2>4. fin' = fin /\ guard' = guard
    BY <1>2 DEF Bounds
  <2> HIDE DEF st, fin
  <2>5. ~late /\ fin <= abs_cursor + window_capacity(guard)
    <3>1. abs_cursor = st
      BY <2>1, <2>2
    <3>2. fin <= abs_cursor + window_capacity(guard)
      BY <2>1, <2>3, <3>1
    <3> QED BY <2>1, <3>1, <3>2
  <2>6. pool'[active'] = w
    BY <1>1, <1>2 DEF SlotsInv
  <2>7. w.partial = late /\ w.end = fin /\ w.start = abs_cursor
    OBVIOUS
  <2> HIDE DEF w, late
  <2>8. fin = (Bounds(next_k).end)'
    BY <2>4 DEF fin
  <2>9. fin <= fin
    BY <2>1
  <2> QED BY <2>4, <2>5, <2>6, <2>7, <2>8, <2>9 DEF CutWhole
<1> QED BY <1>3, <1>5, <1>6, <1>7 DEF CalmInv

\* Filling the window, and completing it: what it holds then is what it
\* announces, and the next one is still to come.
LEMMA CalmOfCopy ==
  ASSUME CoreInv, OwnInv', CalmInv, CopyWindow
  PROVE  CalmInv'
<1>1. OwnInv /\ NumbersInv /\ SlotsInv
  BY DEF CoreInv
<1> DEFINE slot == pool[active]
           take == GeoMin(GeoMin(GeoMax(slot.end - abs_cursor, 0),
                                 GeoMax(slot.count - Len(slot.data), 0)), chunk.left)
           w == Filled(slot, take)
<1>2. /\ active # kInvalid /\ slot \in Slot /\ Filling(slot) /\ state = "CopyWindow"
      /\ active \in Handle /\ active \notin Delivered
  <2>1. active # kInvalid /\ state = "CopyWindow"
    BY <1>1 DEF CopyWindow, OwnInv, CopyHasActive
  <2> QED BY <1>1, <2>1, Holders DEF SlotsInv
<1>3. /\ Consume(take)
      /\ IF Len(w.data) >= slot.count \/ abs_cursor + take >= slot.end
           THEN Finish(w, Len(w.data) < slot.count)
           ELSE /\ pool' = [pool EXCEPT ![active] = w]
                /\ UNCHANGED <<free, ready, checkedOut, active, next_k, state, stats>>
      /\ UNCHANGED <<sched, guard, paused, generation, releasing, calm>>
  BY DEF CopyWindow, Filled, history
<1>4. /\ take \in 0..chunk.left /\ Len(slot.data) + take <= slot.count
      /\ Len(slot.data) \in Nat /\ take \in Nat /\ abs_cursor \in Nat /\ next_k \in Nat
      /\ slot.end \in Int /\ slot.count \in Int /\ slot.start \in Int
  <2>1. slot.end \in Int /\ slot.count \in Int /\ slot.data \in Seq(Int) /\ slot.start \in Int
    BY <1>2 DEF Slot
  <2>2. abs_cursor \in Nat /\ chunk.left \in Nat /\ next_k \in Nat
    BY <1>1 DEF NumbersInv, ScheduleType
  <2>3. Len(slot.data) \in Nat /\ slot.end - abs_cursor \in Int
        /\ slot.count - Len(slot.data) \in Int
    BY <2>1, <2>2
  <2>4. take \in 0..chunk.left /\ take <= GeoMax(slot.count - Len(slot.data), 0)
    BY <2>2, <2>3, TakeBounds
  <2>5. Len(slot.data) <= slot.count
    BY <1>2 DEF Filling
  <2> HIDE DEF take, slot
  <2> QED BY <2>1, <2>2, <2>3, <2>4, <2>5 DEF GeoMax
<1> HIDE DEF take, slot
<1>5. /\ w \in Slot /\ w.start = slot.start /\ w.end = slot.end /\ w.partial = slot.partial
      /\ w.count = slot.count /\ Len(w.data) = Len(slot.data) + take
  BY <1>1, <1>2, <1>4, FilledOn
<1> HIDE DEF w
<1>6. /\ slot.end = slot.start + slot.count /\ slot.start + Len(slot.data) = abs_cursor
      /\ abs_cursor' = abs_cursor + take
  BY <1>2, <1>3 DEF Filling, Consume
<1>7. Apart'
  BY <1>3, ApartKept DEF CalmInv
<1>8. CASE ~calm
  <2>1. calm' = FALSE
    BY <1>1, <1>3, <1>8, ScheduleFacts
  <2> QED BY <1>7, <2>1, CalmOver, Zenon
<1>9. CASE calm
  <2>1. /\ CutWhole(slot) /\ guard.pre <= predicted_start_sample(sched, next_k)
        /\ sched \in ScheduleNumbers /\ guard \in Guards
        /\ window_capacity(guard) * Den <= sched.period
    BY <1>1, <1>2, <1>9, ScheduleFacts DEF CalmInv, CalmCut, Timely, Apart, slot
  <2>2. CASE Len(w.data) >= slot.count \/ abs_cursor + take >= slot.end
    <3>1. Finish(w, Len(w.data) < slot.count)
      BY <1>3, <2>2
    <3>2. Len(w.data) = slot.count
      <4> DEFINE m == Len(w.data)
                 l == Len(slot.data)
                 c == slot.count
                 f == slot.end
                 b == slot.start
      <4>1. /\ m = l + take /\ l + take <= c /\ f = b + c /\ b + l = abs_cursor
            /\ l \in Nat /\ take \in Nat /\ c \in Int /\ b \in Int
            /\ m >= c \/ abs_cursor + take >= f
        BY <1>4, <1>5, <1>6, <2>2
      <4> HIDE DEF m, l, c, f, b
      <4>2. m = c
        BY <4>1
      <4> QED BY <4>2 DEF m, c
    <3> DEFINE short == Len(w.data) < slot.count
               whole == [w EXCEPT !.partial = @ \/ short, !.count = Len(w.data)]
    <3>3. ~short
      BY <1>4, <3>2
    <3>4. ~whole.partial
      <4>1. ~w.partial
        BY <1>5, <2>1 DEF CutWhole
      <4>2. whole.partial = (w.partial \/ short)
        BY <1>5 DEF Slot
      <4> HIDE DEF whole, short
      <4> QED BY <3>3, <4>1, <4>2
    <3>5. /\ active' = kInvalid /\ next_k' = next_k + 1 /\ checkedOut' = checkedOut
          /\ \/ /\ pool' = [pool EXCEPT ![active] = whole] /\ ready' = Append(ready, active)
             \/ /\ pool' = [pool EXCEPT ![active] = EmptySlot] /\ ready' = ready
      BY <3>1 DEF Finish
    <3> HIDE DEF whole, short
    <3>6. \A d \in Delivered' : \/ d = active /\ pool'[d] = whole
                                \/ d \in Delivered /\ pool'[d] = pool[d]
      <4>1. pool \in [Handle -> Slot] /\ Delivered \subseteq Handle
        BY <1>1, Holders DEF SlotsInv
      <4>2. CASE pool' = [pool EXCEPT ![active] = EmptySlot] /\ ready' = ready
        <5>1. Delivered' = Delivered
          BY <1>3, <3>5, <4>2, SameDelivered
        <5> QED BY <1>2, <4>1, <4>2, <5>1
      <4>3. CASE /\ pool' = [pool EXCEPT ![active] = whole]
                 /\ ready' = Append(ready, active)
        <5>1. /\ ready \in Seq(Handle) /\ active \notin Range(ready)
              /\ \A i, j \in DOMAIN ready : i # j => ready[i] # ready[j]
          BY <1>1 DEF OwnInv, PoolType, HandleOwnership
        <5>2. Range(ready') = Range(ready) \cup {active}
          <6>1. ready' = Append(ready, active)
            BY <4>3
          <6> QED BY <1>2, <5>1, <6>1, AppendRange
        <5>3. Delivered' = Delivered \cup {active}
          <6>1. Range(ready)' = Range(ready) \cup {active}
            BY <5>2 DEF Range
          <6>2. active \notin checkedOut
            BY <1>1, Holders
          <6> QED BY <1>3, <3>5, <6>1 DEF Delivered
        <5>4. pool'[active] = whole /\ \A d \in Delivered : pool'[d] = pool[d]
          BY <1>2, <4>1, <4>3
        <5> QED BY <5>3, <5>4
      <4> QED BY <3>5, <4>2, <4>3
    <3>7. WholeSinceSet'
      <4> SUFFICES ASSUME NEW d \in Delivered', pool'[d].gen = generation'
                   PROVE  ~pool'[d].partial
        BY DEF WholeSinceSet
      <4> QED BY <1>3, <1>9, <3>4, <3>6 DEF CalmInv, WholeSinceSet
    <3>8. CalmCut'
      <4>1. state' # "CopyWindow"
        BY <3>5 DEF OwnInv, CopyHasActive
      <4> QED BY <4>1 DEF CalmCut
    <3>9. Timely'
      <4>1. /\ guard.pre <= predicted_start_sample(sched, next_k + 1)
            /\ window_bounds_for_slot(sched, guard, next_k).end
                 <= window_bounds_for_slot(sched, guard, next_k + 1).start
        BY <1>4, <2>1, NextWindowFollows
      <4>2. abs_cursor' <= window_bounds_for_slot(sched, guard, next_k).end
        <5> DEFINE fin == window_bounds_for_slot(sched, guard, next_k).end
        <5>1. slot.end <= fin /\ fin \in Nat
          BY <1>4, <2>1, BoundsTyped DEF CutWhole, Bounds
        <5>2. abs_cursor' = slot.end
          BY <1>4, <1>5, <1>6, <3>2
        <5> HIDE DEF fin
        <5> QED BY <5>1, <5>2 DEF fin
      <4>3. /\ window_bounds_for_slot(sched, guard, next_k).end \in Nat
            /\ window_bounds_for_slot(sched, guard, next_k + 1).start \in Nat
            /\ abs_cursor' \in Nat
        <5>1. next_k + 1 \in Nat
          BY <1>4
        <5> QED BY <1>4, <1>6, <2>1, <5>1, BoundsTyped
      <4>4. abs_cursor' <= window_bounds_for_slot(sched, guard, next_k + 1).start
        <5> DEFINE f == window_bounds_for_slot(sched, guard, next_k).end
                   b == window_bounds_for_slot(sched, guard, next_k + 1).start
        <5>1. abs_cursor' <= f /\ f <= b /\ f \in Nat /\ b \in Nat /\ abs_cursor' \in Nat
          BY <4>1, <4>2, <4>3
        <5> HIDE DEF f, b
        <5>2. abs_cursor' <= b
          BY <5>1
        <5> QED BY <5>2 DEF b
      <4> QED BY <1>3, <3>5, <4>1, <4>4 DEF Timely, Bounds
    <3> QED BY <1>7, <3>7, <3>8, <3>9 DEF CalmInv
  <2>3. CASE ~(Len(w.data) >= slot.count \/ abs_cursor + take >= slot.end)
    <3>1. /\ pool' = [pool EXCEPT ![active] = w]
          /\ UNCHANGED <<ready, checkedOut, active, next_k, state>>
      BY <1>3, <2>3
    <3>2. pool'[active] = w /\ \A d \in Delivered : pool'[d] = pool[d]
      BY <1>1, <1>2, <3>1, Holders DEF SlotsInv
    <3>3. Delivered' = Delivered
      BY <1>3, <3>1, SameDelivered
    <3>4. WholeSinceSet'
      BY <1>3, <3>2, <3>3, WholeKept DEF CalmInv
    <3>5. CalmCut'
      <4>1. CutWhole(w)
        BY <1>5, <2>1 DEF CutWhole
      <4> QED BY <1>3, <3>1, <3>2, <4>1 DEF CalmCut, CutWhole, Bounds
    <3>6. Timely'
      BY <1>2, <1>3, <3>1 DEF CalmInv, Timely, Bounds
    <3> QED BY <1>7, <3>4, <3>5, <3>6 DEF CalmInv
  <2> QED BY <2>2, <2>3
<1> QED BY <1>8, <1>9

\* A new schedule: calm from here if the window it waits for is to come.
LEMMA CalmOfSchedule ==
  ASSUME WindowsApart, StartsLate, CoreInv, OwnInv', NEW s \in Schedules, set_schedule(s)
  PROVE  CalmInv'
<1>1. OwnInv /\ NumbersInv /\ SlotsInv
  BY DEF CoreInv
<1>2. /\ sched' = s /\ AbortActive /\ next_k' = advance_k_to_abs(s, guard, abs_cursor)
      /\ generation' = generation + 1 /\ guard' = guard /\ abs_cursor' = abs_cursor
      /\ releasing' = releasing
      /\ calm' = (abs_cursor <= window_bounds_for_slot(s, guard, next_k').start)
  BY DEF set_schedule
<1>3. Apart'
  BY <1>2, BroughtFacts DEF Apart
<1>4. WholeSinceSet'
  BY <1>1, <1>2, AbortSpares, WholeAnew
<1>5. CalmCut'
  <2>1. state' # "CopyWindow"
    BY <1>2 DEF AbortActive, OwnInv, CopyHasActive
  <2> QED BY <2>1 DEF CalmCut
<1>6. Timely'
  <2>1. s \in ScheduleNumbers /\ guard \in Guards /\ abs_cursor \in Nat
    BY <1>1, BroughtFacts, ScheduleFacts
  <2>2. next_k' \in Nat
    BY <1>2, <2>1, AdvanceFindsOpen
  <2>3. guard.pre <= predicted_start_sample(s, next_k')
    BY <2>1, <2>2, BroughtFacts
  <2> QED BY <1>2, <2>3 DEF Timely, Bounds
<1> QED BY <1>3, <1>4, <1>5, <1>6 DEF CalmInv

\* A soft update leaves the window it applies to ahead of the cursor: the one
\* in hand, which has begun, does not reach beyond it.
LEMMA CalmOfUpdate ==
  ASSUME WindowsApart, StartsLate, CoreInv, CalmInv, NEW s \in SoftParams, NEW f \in BOOLEAN,
         update_locked_params(s, f)
  PROVE  CalmInv'
<1>1. OwnInv /\ NumbersInv /\ SlotsInv
  BY DEF CoreInv
<1>2. /\ UNCHANGED <<poolVars, guard, next_k, abs_cursor, state, generation, releasing, calm>>
      /\ \/ sched' = s /\ SafelyAhead(s)
         \/ sched' = Continuous(s) /\ SafelyAhead(Continuous(s))
  BY DEF update_locked_params, history
<1>3. /\ s \in ScheduleNumbers /\ sched \in ScheduleNumbers /\ guard \in Guards
      /\ next_k \in Nat /\ abs_cursor \in Nat
  BY <1>1, BroughtFacts, ScheduleFacts
<1>4. /\ Continuous(s) \in ScheduleNumbers
      /\ predicted_start_sample(Continuous(s), next_k) = predicted_start_sample(sched, next_k)
  <2> DEFINE a == sched.first
             p == sched.period
             q == s.period
             k == next_k
  <2>1. a \in Int /\ p \in Nat /\ q \in Nat \ {0} /\ k \in Nat
    BY <1>3 DEF ScheduleNumbers
  <2>2. /\ Continuous(s).first = a + k * (p - q) /\ Continuous(s).period = q
        /\ Continuous(s) = [first |-> a + k * (p - q), period |-> q]
    BY DEF Continuous
  <2>3. predicted_start_sample(sched, next_k) = Llround(a + k * p)
        /\ predicted_start_sample(Continuous(s), next_k) = Llround(a + k * (p - q) + k * q)
    BY <2>2 DEF predicted_start_sample
  <2> HIDE DEF a, p, q, k
  <2>4. a + k * (p - q) + k * q = a + k * p /\ a + k * (p - q) \in Int
    BY <2>1
  <2> QED BY <2>1, <2>2, <2>3, <2>4 DEF ScheduleNumbers
<1>5. Apart'
  BY <1>2, BroughtFacts DEF Apart, Continuous
<1>6. sched' \in ScheduleNumbers
  BY <1>2, <1>3, <1>4
<1> DEFINE st == window_bounds_for_slot(sched', guard, next_k).start
           fin == window_bounds_for_slot(sched', guard, next_k).end
<1>7. /\ abs_cursor <= st /\ st \in Nat /\ fin = st + window_capacity(guard)
      /\ window_capacity(guard) \in Nat
  <2>1. st >= abs_cursor + guard.pre \div 8 + MarginBase
    BY <1>2 DEF SafelyAhead
  <2>2. guard.pre \in Nat /\ MarginBase \in Nat /\ window_capacity(guard) \in Nat
    BY <1>3, GuardAssumption, BoundAssumption DEF window_capacity
  <2>3. guard.pre \div 8 \in Nat
    BY <2>2, Division
  <2>4. st \in Nat
    BY <1>3, <1>6, BoundsTyped
  <2>5. fin = st + window_capacity(guard)
    BY DEF window_bounds_for_slot
  <2> HIDE DEF st, fin
  <2> QED BY <1>3, <2>1, <2>2, <2>3, <2>4, <2>5
<1>8. WholeSinceSet'
  <2>1. Delivered' = Delivered /\ \A h \in Delivered' : pool'[h] = pool[h]
    BY <1>2, SameDelivered DEF poolVars
  <2> QED BY <1>2, <2>1, WholeKept DEF CalmInv
<1>9. Timely'
  <2>1. calm /\ state \in {"WaitWindow", "CopyWindow"}
          => guard.pre <= predicted_start_sample(sched', next_k)
    <3>1. CASE sched' = s
      BY <1>3, <3>1, BroughtFacts
    <3>2. CASE sched' = Continuous(s)
      BY <1>4, <3>2 DEF CalmInv, Timely
    <3> QED BY <1>2, <3>1, <3>2
  <2>2. /\ abs_cursor' = abs_cursor /\ st = (Bounds(next_k).start)'
        /\ predicted_start_sample(sched, next_k)' = predicted_start_sample(sched', next_k)
    BY <1>2 DEF Bounds
  <2> HIDE DEF st
  <2> QED BY <1>2, <1>7, <2>1, <2>2 DEF Timely
<1>10. CalmCut'
  <2> SUFFICES ASSUME calm, state = "CopyWindow" PROVE CutWhole(pool[active])'
    BY <1>2 DEF CalmCut
  <2> DEFINE w == pool[active]
  <2>1. CutWhole(w)
    BY DEF CalmInv, CalmCut
  <2>2. w \in Slot /\ Filling(w)
    BY <1>1, Holders DEF OwnInv, CopyHasActive, SlotsInv
  <2>3. pool'[active'] = w /\ fin = (Bounds(next_k).end)' /\ guard' = guard
    BY <1>2 DEF Bounds, poolVars
  <2>4. /\ w.start \in Int /\ w.end \in Int /\ Len(w.data) \in Nat
        /\ w.start + Len(w.data) = abs_cursor
        /\ ~w.partial /\ w.end <= w.start + window_capacity(guard)
    BY <2>1, <2>2 DEF Slot, Filling, CutWhole
  <2> HIDE DEF w, st, fin
  <2>5. w.end <= fin
    BY <1>3, <1>7, <2>4
  <2> QED BY <2>3, <2>4, <2>5 DEF CutWhole
<1> QED BY <1>5, <1>8, <1>9, <1>10 DEF CalmInv

\* reset and configure: a new generation, and an unlocked core.
LEMMA CalmOfRebuild ==
  ASSUME CoreInv, RebuildPool, Apart', state' = "Unlocked", generation' = generation + 1,
         releasing' = releasing
  PROVE  CalmInv'
<1>1. OwnInv /\ NumbersInv /\ SlotsInv
  BY DEF CoreInv
<1>2. Timely' /\ CalmCut'
  BY DEF Timely, CalmCut
<1>3. WholeSinceSet'
  <2>1. ready' = <<>> /\ checkedOut' = checkedOut /\ pool' = WipedPool
    BY DEF RebuildPool
  <2>2. Delivered' = checkedOut \ {releasing}
    <3>1. Range(ready)' = {}
      BY <2>1 DEF Range
    <3> QED BY <2>1, <3>1 DEF Delivered
  <2>3. Delivered' \subseteq Delivered /\ checkedOut \subseteq Handle
    BY <1>1, <2>2 DEF Delivered, OwnInv, PoolType
  <2>4. \A h \in Delivered' : pool'[h] = pool[h]
    BY <2>1, <2>2, <2>3 DEF WipedPool
  <2> QED BY <2>3, <2>4, WholeAnew
<1> QED BY <1>2, <1>3 DEF CalmInv

\* Steps that leave the schedule, the cursor and the window in hand alone, and
\* complete none.
LEMMA CalmAside ==
  ASSUME CoreInv, CalmInv, Delivered' \subseteq Delivered,
         \A h \in Delivered' : pool'[h] = pool[h],
         active # kInvalid => pool'[active] = pool[active],
         UNCHANGED <<sched, guard, next_k, abs_cursor, state, generation, calm, active>>
  PROVE  CalmInv'
<1>1. Apart'
  BY ApartKept DEF CalmInv
<1>2. WholeSinceSet'
  BY WholeKept DEF CalmInv
<1>3. Timely'
  BY DEF CalmInv, Timely, Bounds
<1>4. CalmCut'
  <2>1. state = "CopyWindow" => active # kInvalid
    BY DEF CoreInv, OwnInv, CopyHasActive
  <2> QED BY <2>1 DEF CalmInv, CalmCut, CutWhole, Bounds
<1> QED BY <1>1, <1>2, <1>3, <1>4 DEF CalmInv

LEMMA CalmOfWorker ==
  ASSUME CoreInv, CalmInv, take_window \/ Worker
  PROVE  CalmInv'
<1>1. OwnInv /\ SlotsInv
  BY DEF CoreInv
<1>2. UNCHANGED <<sched, guard, next_k, abs_cursor, state, generation, calm, active>>
  BY DEF take_window, Worker, PushFree, ClearSlot, schedVars, history
<1>3. ready \in Seq(Handle) /\ active \notin checkedOut /\ pool \in [Handle -> Slot]
      /\ (active # kInvalid => active \in Handle) /\ checkedOut \subseteq Handle
  BY <1>1, Holders DEF OwnInv, PoolType, SlotsInv
<1>4. CASE take_window
  <2>1. /\ ready # <<>> /\ checkedOut' = checkedOut \cup {Head(ready)} /\ ready' = Tail(ready)
        /\ pool' = pool /\ releasing' = releasing
    BY <1>4 DEF take_window
  <2>2. Range(ready') \subseteq Range(ready) /\ Head(ready) \in Range(ready)
    <3>1. \A i, j \in DOMAIN ready : i # j => ready[i] # ready[j]
      BY <1>1 DEF OwnInv, HandleOwnership
    <3>2. Range(Tail(ready)) = Range(ready) \ {Head(ready)} /\ Head(ready) \in Range(ready)
      BY <1>3, <2>1, <3>1, TailRange
    <3> QED BY <2>1, <3>2
  <2>3. Delivered' \subseteq Delivered
    <3>1. Range(ready)' = Range(ready')
      BY DEF Range
    <3> QED BY <2>1, <2>2, <3>1 DEF Delivered
  <2> QED BY <1>2, <2>1, <2>3, CalmAside
<1>5. CASE PushFree
  <2>1. /\ checkedOut' = checkedOut \ {releasing} /\ ready' = ready /\ pool' = pool
        /\ releasing' = kInvalid
    BY <1>5 DEF PushFree
  <2>2. Range(ready)' = Range(ready)
    BY <2>1 DEF Range
  <2>3. Delivered' \subseteq Delivered
    BY <2>1, <2>2 DEF Delivered
  <2> QED BY <1>2, <2>1, <2>3, CalmAside
<1>6. ASSUME NEW c \in Handle, ClearSlot(c) PROVE CalmInv'
  <2>1. /\ c \in checkedOut /\ releasing' = c /\ pool' = [pool EXCEPT ![c] = EmptySlot]
        /\ ready' = ready /\ checkedOut' = checkedOut
    BY <1>6 DEF ClearSlot
  <2>2. Range(ready)' = Range(ready) /\ c \notin Range(ready)
    BY <1>1, <2>1 DEF Range, OwnInv, HandleOwnership
  <2>3. Delivered' \subseteq Delivered \ {c}
    <3>1. releasing = kInvalid /\ kInvalid \notin checkedOut
      BY <1>3, <1>6, PoolAssumption DEF ClearSlot
    <3> QED BY <2>1, <2>2, <3>1 DEF Delivered
  <2>4. \A h \in Handle : h # c => pool'[h] = pool[h]
    BY <1>3, <2>1
  <2>5. active # kInvalid => pool'[active] = pool[active]
    BY <1>3, <2>1, <2>4
  <2>6. \A h \in Delivered' : pool'[h] = pool[h]
    BY <1>1, <2>3, <2>4, Holders
  <2>7. Delivered' \subseteq Delivered
    BY <2>3
  <2> QED BY <1>2, <2>5, <2>6, <2>7, CalmAside
<1> QED BY <1>4, <1>5, <1>6 DEF Worker

LEMMA CalmInvInit == WindowsApart /\ Init => CalmInv
<1> SUFFICES ASSUME WindowsApart, Init PROVE CalmInv
  OBVIOUS
<1>1. Apart
  BY DEF Init, WindowsApart, Apart
<1>2. Timely /\ CalmCut
  BY DEF Init, Timely, CalmCut
<1>3. Delivered = {}
  BY DEF Init, Delivered, Range
<1> QED BY <1>1, <1>2, <1>3 DEF CalmInv, WholeSinceSet

LEMMA CalmInvStep ==
  ASSUME WindowsApart, StartsLate, CoreInv, CoreInv', CalmInv, [Next]_vars
  PROVE  CalmInv'
<1>1. OwnInv /\ OwnInv' /\ NumbersInv /\ SlotsInv /\ Apart
  BY DEF CoreInv, CalmInv
<1>2. CASE Stream
  <2>1. PICK n \in 1..MaxChunk, gap \in 0..MaxGap : process_chunk(n, stream + gap)
    BY <1>2 DEF Stream
  <2>2. n \in Nat /\ gap \in Nat
    BY BoundAssumption
  <2> QED BY <1>1, <2>1, <2>2, CalmOfJump
<1>3. CASE Loop
  BY <1>1, <1>3, CalmOfSkip, CalmOfBegin, CalmOfCopy DEF Loop
<1>4. CASE Control
  <2>1. ASSUME NEW s \in Schedules, set_schedule(s) PROVE CalmInv'
    BY <1>1, <2>1, CalmOfSchedule
  <2>2. ASSUME NEW g \in Guards, ChangeGuards(g) PROVE CalmInv'
    <3>1. calm' = FALSE /\ sched' = sched
      BY <2>2 DEF ChangeGuards
    <3>2. Apart'
      BY <1>1, <3>1, ApartKept
    <3> QED BY <3>1, <3>2, CalmOver, Zenon
  <2>3. ASSUME NEW g \in Guards, update_guards_keep_generation(g) \/ set_guards(g)
        PROVE  CalmInv'
    BY <2>2, <2>3 DEF update_guards_keep_generation, set_guards
  <2>4. ASSUME NEW s \in SoftParams, NEW f \in BOOLEAN, update_locked_params(s, f)
        PROVE  CalmInv'
    BY <2>4, CalmOfUpdate
  <2>5. CASE pause \/ resume \/ flush_eos
    <3>1. calm' = FALSE /\ sched' = sched
      BY <2>5 DEF pause, resume, flush_eos
    <3>2. Apart'
      BY <1>1, <3>1, ApartKept
    <3> QED BY <3>1, <3>2, CalmOver, Zenon
  <2>6. CASE reset
    <3>1. /\ RebuildPool /\ state' = "Unlocked" /\ generation' = generation + 1
          /\ releasing' = releasing /\ sched' = sched
      BY <2>6 DEF reset
    <3>2. Apart'
      BY <1>1, <3>1, ApartKept
    <3> QED BY <3>1, <3>2, CalmOfRebuild
  <2>7. ASSUME NEW s \in Schedules, NEW g \in Guards, configure(s, g) PROVE CalmInv'
    <3>1. /\ RebuildPool /\ state' = "Unlocked" /\ generation' = generation + 1
          /\ releasing' = releasing /\ sched' = s
      BY <2>7 DEF configure
    <3>2. Apart'
      BY <3>1, BroughtFacts DEF Apart
    <3> QED BY <3>1, <3>2, CalmOfRebuild
  <2> QED BY <1>4, <2>1, <2>3, <2>4, <2>5, <2>6, <2>7 DEF Control
<1>5. CASE take_window \/ Worker
  BY <1>5, CalmOfWorker
<1>6. CASE UNCHANGED vars
  <2>1. UNCHANGED <<sched, guard, next_k, abs_cursor, state, generation, calm, active,
                    pool, ready, checkedOut, releasing>>
    BY <1>6 DEF vars
  <2>2. Delivered' = Delivered
    BY <2>1, SameDelivered
  <2> QED BY <2>1, <2>2, CalmAside
<1> QED BY <1>2, <1>3, <1>4, <1>5, <1>6 DEF Next

\* A schedule that nothing but the stream disturbs loses no sample of a window:
\* the rounding of a fractional period and every soft update of (t0, T) that
\* update_locked_params accepts leave the core waiting for each window before
\* it starts, as long as a window is no longer than a period and none is moved
\* to the start of the stream.
THEOREM CalmWindowsAreWhole ==
  ASSUME WindowsApart, StartsLate
  PROVE  Spec => []CalmWindowsWhole
<1>1. CoreInv /\ CalmInv => CalmWindowsWhole
  BY DEF CalmInv, CalmCut, CutWhole, WholeSinceSet, CalmWindowsWhole
<1>2. Init => CoreInv /\ CalmInv
  BY CoreInvInit, CalmInvInit
<1>3. (CoreInv /\ CalmInv) /\ [Next]_vars => (CoreInv /\ CalmInv)'
  BY CoreInvStep, CalmInvStep
<1> QED BY <1>1, <1>2, <1>3, PTL DEF Spec

-----------------------------------------------------------------------------
(* The order of the windows.  As long as the grid of the generation stays    *)
(* where it was, the slots that have been cut lie behind the cursor, so the  *)
(* search for an index (advance_k_to_abs) from the cursor on finds a new     *)
(* one.  A soft update may bring them back before the cursor, but without a  *)
(* search the next index is still beyond them.                               *)

\* After flush_eos no chunk is processed, and the cursor need not have reached
\* the end of the last window.
AtRest == eos => chunk.left = 0

\* An unlocked core has cut nothing in its generation.
Fresh == state = "Unlocked" => \A h \in Delivered : pool[h].gen # generation

\* The window in hand is that of the next index.
CutNext ==
  state = "CopyWindow" =>
    /\ pool[active].k = next_k
    /\ grid = "fixed" => pool[active].end = Bounds(next_k).end

\* The indices of the windows cut have been passed, and so have their slots.
Reached(w) ==
  /\ w.k < next_k
  /\ grid = "fixed" /\ ~eos => Bounds(w.k).end <= abs_cursor
Indexed ==
  grid # "searched" => \A h \in Delivered : pool[h].gen = generation => Reached(pool[h])

\* The pairs of completed windows whose order the ring or the worker fixes.
Pairs ==
  {p \in Handle \X Handle :
     \/ \E i, j \in DOMAIN ready : i < j /\ p[1] = ready[i] /\ p[2] = ready[j]
     \/ p[1] \in checkedOut \ {releasing} /\ p[2] \in Range(ready)}
InOrder ==
  grid # "searched" => \A p \in Pairs : IndicesGrow(pool[p[1]], pool[p[2]])

OrderInv == GridType /\ AtRest /\ Fresh /\ CutNext /\ Indexed /\ InOrder

\* Later windows end later, or at the same sample.
LEMMA EndsMonotone ==
  ASSUME NEW s \in ScheduleNumbers, NEW g \in Guards, NEW j \in Nat, NEW k \in Nat, j <= k
  PROVE  window_bounds_for_slot(s, g, j).end <= window_bounds_for_slot(s, g, k).end
<1> DEFINE x == s.first + j * s.period
           d == (k - j) * s.period
           cap == window_capacity(g)
           a == predicted_start_sample(s, j)
           b == predicted_start_sample(s, k)
<1>1. x \in Int /\ cap \in Nat /\ g.pre \in Nat
  BY GuardAssumption DEF ScheduleNumbers, window_capacity
<1>2. d \in Int /\ 0 <= d /\ s.first + k * s.period = x + d
  <2> DEFINE p == s.period
             f == s.first
             e == k - j
  <2>1. p \in Nat /\ f \in Int /\ e \in Nat /\ k = j + e
    BY DEF ScheduleNumbers
  <2> HIDE DEF p, f, e
  <2>2. e * p \in Nat /\ f + k * p = f + j * p + e * p
    BY <2>1
  <2> QED BY <2>1, <2>2 DEF p, f, e
<1>3. Llround(x) <= Llround(x + d) /\ Llround(x) \in Int /\ Llround(x + d) \in Int
  <2> HIDE DEF x, d
  <2>1. 0 * Den <= d /\ 0 \in Nat
    BY <1>2, DenAssumption
  <2>2. Llround(x) + 0 <= Llround(x + d)
    BY <1>1, <1>2, <2>1, LlroundSpaced
  <2>3. Llround(x) \in Int /\ Llround(x + d) \in Int
    BY <1>1, <1>2, LlroundKeeps
  <2> QED BY <2>2, <2>3
<1>4. a = Llround(x) /\ b = Llround(x + d)
  BY <1>2 DEF predicted_start_sample
<1>5. /\ window_bounds_for_slot(s, g, j).end = GeoMax(a - g.pre, 0) + cap
      /\ window_bounds_for_slot(s, g, k).end = GeoMax(b - g.pre, 0) + cap
  BY DEF window_bounds_for_slot
<1> HIDE DEF a, b, x, d, cap
<1>6. a \in Int /\ b \in Int /\ a <= b
  BY <1>3, <1>4
<1>7. GeoMax(a - g.pre, 0) + cap <= GeoMax(b - g.pre, 0) + cap
  BY <1>1, <1>6 DEF GeoMax
<1> QED BY <1>5, <1>7

\* The search for an index passes every slot that has ended.
LEMMA AdvancePasses ==
  ASSUME NEW s \in ScheduleNumbers, NEW g \in Guards, NEW k \in Nat, NEW abs \in Nat,
         window_bounds_for_slot(s, g, k).end <= abs
  PROVE  k < advance_k_to_abs(s, g, abs)
<1> DEFINE m == advance_k_to_abs(s, g, abs)
           fin == window_bounds_for_slot(s, g, m).end
           past == window_bounds_for_slot(s, g, k).end
<1>1. m \in Nat /\ fin > abs
  BY AdvanceFindsOpen
<1> HIDE DEF m
<1> SUFFICES ASSUME ~(k < m) PROVE FALSE
  BY DEF m
<1>2. m <= k
  BY <1>1
<1>3. fin <= past
  BY <1>1, <1>2, EndsMonotone
<1>4. fin \in Nat /\ past \in Nat
  BY <1>1, BoundsTyped
<1>5. past <= abs
  OBVIOUS
<1> HIDE DEF fin, past
<1> QED BY <1>1, <1>3, <1>4, <1>5

\* What InOrder says of the ring.
LEMMA OrderOfPairs ==
  ASSUME OwnInv, InOrder, grid # "searched"
  PROVE  SlotsStrictlyOrdered
<1> SUFFICES ASSUME NEW j \in DOMAIN ready
             PROVE  /\ \A i \in 1..j - 1 : IndicesGrow(pool[ready[i]], pool[ready[j]])
                    /\ \A h \in checkedOut \ {releasing} : IndicesGrow(pool[h], pool[ready[j]])
  BY DEF SlotsStrictlyOrdered
<1>1. /\ DOMAIN ready = 1..Len(ready) /\ Len(ready) \in Nat
      /\ \A i \in DOMAIN ready : ready[i] \in Handle /\ ready[i] \in Range(ready)
      /\ checkedOut \subseteq Handle
  BY DEF OwnInv, PoolType, Range
<1>2. ASSUME NEW i \in 1..j - 1 PROVE IndicesGrow(pool[ready[i]], pool[ready[j]])
  <2>1. i \in DOMAIN ready /\ i < j
    BY <1>1
  <2>2. <<ready[i], ready[j]>> \in Pairs
    BY <1>1, <2>1 DEF Pairs
  <2> QED BY <2>2 DEF InOrder
<1>3. ASSUME NEW h \in checkedOut \ {releasing} PROVE IndicesGrow(pool[h], pool[ready[j]])
  <2>1. <<h, ready[j]>> \in Pairs
    BY <1>1 DEF Pairs
  <2> QED BY <2>1 DEF InOrder
<1> QED BY <1>2, <1>3

LEMMA SamePairs ==
  ASSUME UNCHANGED <<ready, checkedOut, releasing>>
  PROVE  Pairs' = Pairs
BY DEF Pairs, Range

\* A completed window has a natural index, and no generation to come.
LEMMA ReachedFacts ==
  ASSUME CoreInv, NEW h \in Delivered
  PROVE  /\ pool[h] \in Slot /\ pool[h].k \in Nat
         /\ pool[h].gen <= generation /\ pool[h].gen \in Nat /\ generation \in Nat
<1>1. OwnInv /\ SlotsInv /\ NumbersInv
  BY DEF CoreInv
<1>2. pool[h] \in Slot
  BY <1>1, Holders DEF SlotsInv
<1>3. Behind(pool[h]) /\ generation \in Nat
  BY <1>1, ScheduleFacts DEF SlotsInv
<1> QED BY <1>2, <1>3 DEF Slot, Behind

\* As long as no window has been cut in the generation, there is no order to keep.
LEMMA OrderAnew ==
  ASSUME CoreInv', GridType', AtRest', CutNext',
         \A h \in Delivered' : pool'[h].gen # generation'
  PROVE  OrderInv'
<1>1. Fresh' /\ Indexed'
  BY DEF Fresh, Indexed
<1>2. InOrder'
  <2> SUFFICES ASSUME NEW p \in Pairs' PROVE IndicesGrow(pool[p[1]], pool[p[2]])'
    BY DEF InOrder
  <2>1. p[1] \in Delivered'
    BY DEF Pairs, Delivered, Range, CoreInv, OwnInv, PoolType
  <2> QED BY <2>1 DEF IndicesGrow
<1> QED BY <1>1, <1>2 DEF OrderInv

LEMMA NoneYet ==
  ASSUME CoreInv, generation' = generation + 1,
         Delivered' \subseteq Delivered, \A h \in Delivered' : pool'[h] = pool[h]
  PROVE  \A h \in Delivered' : pool'[h].gen # generation'
<1> SUFFICES ASSUME NEW h \in Delivered', pool'[h].gen = generation' PROVE FALSE
  OBVIOUS
<1>1. h \in Delivered /\ pool'[h] = pool[h]
  OBVIOUS
<1> QED BY <1>1, ReachedFacts

\* A step that completes no window moves the next index on, or gives up what is
\* known of the grid.
LEMMA OrderHeld ==
  ASSUME CoreInv, CoreInv', OrderInv, GridType', AtRest', CutNext',
         Pairs' \subseteq Pairs, Delivered' \subseteq Delivered,
         \A h \in Delivered' : pool'[h] = pool[h],
         generation' = generation, state' = "Unlocked" => state = "Unlocked",
         grid' # "searched" =>
           /\ grid # "searched"
           /\ \A h \in Delivered : pool[h].gen = generation => pool[h].k < next_k',
         grid' = "fixed" /\ ~eos' =>
           /\ grid = "fixed" /\ ~eos /\ abs_cursor <= abs_cursor'
           /\ sched' = sched /\ guard' = guard
  PROVE  OrderInv'
<1>1. Fresh'
  BY DEF OrderInv, Fresh
<1>2. InOrder'
  <2> SUFFICES ASSUME grid' # "searched", NEW p \in Pairs'
               PROVE  IndicesGrow(pool[p[1]], pool[p[2]])'
    BY DEF InOrder
  <2>1. IndicesGrow(pool[p[1]], pool[p[2]])
    BY DEF OrderInv, InOrder
  <2>2. p[1] \in Delivered' /\ p[2] \in Delivered'
    BY DEF Pairs, Delivered, Range, CoreInv, OwnInv, PoolType
  <2>3. pool'[p[1]] = pool[p[1]] /\ pool'[p[2]] = pool[p[2]]
    BY <2>2
  <2> QED BY <2>1, <2>3 DEF IndicesGrow
<1>3. Indexed'
  <2> SUFFICES ASSUME grid' # "searched", NEW h \in Delivered', pool'[h].gen = generation'
               PROVE  Reached(pool[h])'
    BY DEF Indexed
  <2>1. h \in Delivered /\ pool'[h] = pool[h] /\ pool[h].gen = generation
    OBVIOUS
  <2>2. pool'[h].k < next_k'
    BY <2>1
  <2>3. ASSUME grid' = "fixed", ~eos'
        PROVE  (Bounds(pool[h].k).end <= abs_cursor)'
    <3> DEFINE fin == Bounds(pool[h].k).end
    <3>1. /\ grid = "fixed" /\ ~eos /\ abs_cursor <= abs_cursor'
          /\ sched' = sched /\ guard' = guard
      BY <2>3
    <3>2. fin <= abs_cursor
      BY <2>1, <3>1 DEF OrderInv, Indexed, Reached
    <3>3. fin = (Bounds(pool[h].k).end)'
      BY <2>1, <3>1 DEF Bounds
    <3>4. fin \in Nat
      BY <2>1, ScheduleFacts, ReachedFacts, BoundsTyped DEF Bounds, CoreInv
    <3>5. abs_cursor \in Nat /\ abs_cursor' \in Nat
      BY DEF CoreInv, NumbersInv, ScheduleType
    <3> HIDE DEF fin
    <3> QED BY <3>1, <3>2, <3>3, <3>4, <3>5
  <2> QED BY <2>2, <2>3 DEF Reached
<1> QED BY <1>1, <1>2, <1>3 DEF OrderInv

\* The next index is beyond those of the windows cut.
LEMMA IndicesBelow ==
  ASSUME CoreInv, OrderInv, grid # "searched", next_k' \in {next_k, next_k + 1}
  PROVE  \A h \in Delivered : pool[h].gen = generation => pool[h].k < next_k'
<1> SUFFICES ASSUME NEW h \in Delivered, pool[h].gen = generation
             PROVE  pool[h].k < next_k'
  OBVIOUS
<1>1. pool[h].k < next_k
  BY DEF OrderInv, Indexed, Reached
<1>2. pool[h].k \in Nat /\ next_k \in Nat
  BY ReachedFacts, ScheduleFacts DEF CoreInv
<1> QED BY <1>1, <1>2

\* The search for an index from the cursor on finds none that has been cut, if
\* it is made on the grid on which the windows were.
LEMMA OrderOfSearch ==
  ASSUME CoreInv, CoreInv', OrderInv, GridType', Idle, AbortActive \/ UNCHANGED poolVars,
         state' \notin {"CopyWindow", "Unlocked"}, NEW at \in Nat, abs_cursor <= at,
         abs_cursor' = at, next_k' = advance_k_to_abs(sched, guard, at), grid' = Searched,
         UNCHANGED <<sched, guard, generation, releasing, eos>>
  PROVE  OrderInv'
<1>1. /\ OwnInv /\ SlotsInv /\ sched \in ScheduleNumbers /\ guard \in Guards
      /\ abs_cursor \in Nat /\ ~eos
  BY ScheduleFacts DEF CoreInv, Idle
<1>2. /\ Delivered' = Delivered /\ Pairs' = Pairs
      /\ \A h \in Delivered' : pool'[h] = pool[h]
  <2>1. CASE AbortActive
    BY <1>1, <2>1, AbortSpares, SamePairs DEF AbortActive
  <2>2. CASE UNCHANGED poolVars
    BY <2>2, SameDelivered, SamePairs DEF poolVars
  <2> QED BY <2>1, <2>2
<1>3. AtRest' /\ CutNext'
  BY <1>1 DEF AtRest, CutNext
<1>4. grid' # "searched" => grid = "fixed" /\ grid' = "fixed"
  BY DEF Searched
<1>5. ASSUME grid = "fixed", NEW h \in Delivered, pool[h].gen = generation
      PROVE  pool[h].k < next_k'
  <2> DEFINE k == pool[h].k
             fin == window_bounds_for_slot(sched, guard, k).end
  <2>1. k \in Nat
    BY ReachedFacts
  <2>2. fin \in Nat
    BY <1>1, <2>1, BoundsTyped
  <2>3. fin <= abs_cursor
    BY <1>1, <1>5 DEF OrderInv, Indexed, Reached, Bounds
  <2> HIDE DEF k
  <2>4. fin <= at
    <3> HIDE DEF fin
    <3> QED BY <1>1, <2>2, <2>3
  <2>5. k < advance_k_to_abs(sched, guard, at)
    BY <1>1, <2>1, <2>4, AdvancePasses
  <2> QED BY <2>5 DEF k
<1>6. /\ grid' # "searched" =>
           /\ grid # "searched"
           /\ \A h \in Delivered : pool[h].gen = generation => pool[h].k < next_k'
      /\ grid' = "fixed" => grid = "fixed"
  BY <1>4, <1>5
<1> QED BY <1>1, <1>2, <1>3, <1>6, OrderHeld

\* Steps that leave the windows, the schedule and what is known of the grid
\* alone, or move the next index on by one.
LEMMA OrderAside ==
  ASSUME CoreInv, CoreInv', OrderInv, AtRest', CutNext', next_k' \in {next_k, next_k + 1},
         Pairs' \subseteq Pairs, Delivered' \subseteq Delivered,
         \A h \in Delivered' : pool'[h] = pool[h], abs_cursor <= abs_cursor',
         state' = "Unlocked" => state = "Unlocked", eos => eos',
         UNCHANGED <<sched, guard, generation, grid>>
  PROVE  OrderInv'
<1>1. GridType'
  BY DEF OrderInv, GridType
<1>2. grid # "searched" =>
        \A h \in Delivered : pool[h].gen = generation => pool[h].k < next_k'
  BY IndicesBelow
<1> QED BY <1>1, <1>2, OrderHeld

\* A jump of the stream.
LEMMA OrderOfJump ==
  ASSUME CoreInv, CoreInv', OrderInv, GridType', NEW n \in Nat, NEW gap \in Nat,
         process_chunk(n, stream + gap)
  PROVE  OrderInv'
<1> DEFINE a == stream + gap
<1>1. /\ OwnInv /\ NumbersInv /\ SlotsInv /\ next_k \in Nat
      /\ abs_cursor \in Nat /\ a \in Nat /\ abs_cursor <= a
  <2>1. abs_cursor \in Nat /\ stream \in Nat /\ abs_cursor <= stream /\ next_k \in Nat
    BY ScheduleFacts DEF CoreInv
  <2> QED BY <2>1 DEF CoreInv
<1>2. /\ Idle /\ ~eos /\ eos' = eos /\ abs_cursor' = a /\ NoteJump(a)
      /\ UNCHANGED <<sched, guard, generation, releasing>>
  BY DEF process_chunk, Idle
<1> HIDE DEF a
<1>3. AtRest'
  BY <1>2 DEF AtRest
<1>4. CASE a = abs_cursor \/ (abs_cursor = 0 /\ state = "Unlocked")
  <2>1. UNCHANGED <<poolVars, next_k, state, grid>>
    BY <1>2, <1>4 DEF NoteJump
  <2>2. Delivered' = Delivered /\ Pairs' = Pairs /\ pool' = pool /\ active' = active
    BY <1>2, <2>1, SameDelivered, SamePairs DEF poolVars
  <2>3. CutNext'
    BY <1>2, <2>1, <2>2 DEF OrderInv, CutNext, Bounds
  <2> QED BY <1>1, <1>2, <1>3, <2>1, <2>2, <2>3, OrderAside
<1>5. CASE ~(a = abs_cursor \/ (abs_cursor = 0 /\ state = "Unlocked"))
  <2>1. AbortActive
    BY <1>2, <1>5 DEF NoteJump
  <2>2. CASE state \in {"WaitWindow", "CopyWindow"}
    <3>1. /\ next_k' = advance_k_to_abs(sched, guard, a) /\ state' = "WaitWindow"
          /\ grid' = Searched
      BY <1>2, <1>5, <2>2 DEF NoteJump
    <3> QED BY <1>1, <1>2, <2>1, <3>1, OrderOfSearch
  <2>3. CASE state \notin {"WaitWindow", "CopyWindow"}
    <3>1. UNCHANGED <<next_k, state, grid>>
      BY <1>2, <1>5, <2>3 DEF NoteJump
    <3>2. CutNext'
      BY <2>3, <3>1 DEF CutNext
    <3>3. /\ Delivered' = Delivered /\ Pairs' = Pairs
          /\ \A h \in Delivered' : pool'[h] = pool[h]
      BY <1>1, <1>2, <2>1, AbortSpares, SamePairs DEF AbortActive
    <3> QED BY <1>1, <1>2, <1>3, <3>1, <3>2, <3>3, OrderAside
  <2> QED BY <2>2, <2>3
<1> QED BY <1>4, <1>5

\* Between two windows, and at the start of one.
LEMMA OrderOfSkip ==
  ASSUME CoreInv, CoreInv', OrderInv, SkipChunk \/ WaitForWindow \/ StarveWindow
  PROVE  OrderInv'
<1>1. OwnInv /\ NumbersInv /\ SlotsInv /\ abs_cursor \in Nat /\ abs_cursor' \in Nat
  BY DEF CoreInv, NumbersInv, ScheduleType
<1>2. /\ UNCHANGED <<poolVars, sched, guard, state, generation, releasing, eos, grid>>
      /\ chunk.left > 0 /\ state # "CopyWindow" /\ next_k' \in {next_k, next_k + 1}
  BY DEF SkipChunk, WaitForWindow, StarveWindow, InWait, InChunk, history
<1>3. AtRest' /\ CutNext'
  <2>1. ~eos
    BY <1>2 DEF OrderInv, AtRest
  <2> QED BY <1>2, <2>1 DEF AtRest, CutNext
<1>4. Delivered' = Delivered /\ Pairs' = Pairs /\ pool' = pool
  BY <1>2, SameDelivered, SamePairs DEF poolVars
<1>5. abs_cursor <= abs_cursor'
  <2> DEFINE st == Bounds(next_k).start
             fin == Bounds(next_k).end
  <2>1. st \in Nat /\ fin \in Nat /\ st < fin /\ chunk.left \in Nat
    <3>1. guard \in Guards /\ sched \in ScheduleNumbers /\ next_k \in Nat
      BY <1>1, ScheduleFacts
    <3> QED BY <1>1, <3>1, BoundsTyped DEF Bounds, NumbersInv, ScheduleType
  <2>2. CASE SkipChunk
    BY <1>1, <2>1, <2>2 DEF SkipChunk, Consume
  <2>3. CASE WaitForWindow
    <3>1. abs_cursor' = abs_cursor \/ Consume(GeoMin(st - abs_cursor, chunk.left))
      BY <2>3 DEF WaitForWindow
    <3>2. abs_cursor' = abs_cursor \/ abs_cursor < st
      BY <1>1, <2>1, <2>3 DEF WaitForWindow, WindowOpen
    <3> HIDE DEF st
    <3> QED BY <1>1, <2>1, <3>1, <3>2 DEF Consume, GeoMin
  <2>4. CASE StarveWindow
    <3>1. Consume(GeoMin(fin - abs_cursor, chunk.left)) /\ abs_cursor < fin
      BY <2>4 DEF StarveWindow, WindowOpen
    <3> HIDE DEF fin
    <3> QED BY <1>1, <2>1, <3>1 DEF Consume, GeoMin
  <2> QED BY <2>2, <2>3, <2>4
<1> QED BY <1>2, <1>3, <1>4, <1>5, OrderAside

LEMMA OrderOfBegin ==
  ASSUME CoreInv, CoreInv', OrderInv, NEW h \in Handle, begin_window(h)
  PROVE  OrderInv'
<1>1. OwnInv /\ SlotsInv /\ abs_cursor \in Nat
  BY ScheduleFacts DEF CoreInv
<1> DEFINE fin == Bounds(next_k).end
           w == [k |-> next_k, start |-> abs_cursor, end |-> fin,
                 count |-> fin - abs_cursor, partial |-> abs_cursor > Bounds(next_k).start,
                 gen |-> generation, data |-> <<>>]
<1>2. /\ h \in free /\ active' = h /\ state' = "CopyWindow" /\ chunk.left > 0
      /\ pool' = [pool EXCEPT ![h] = w]
      /\ UNCHANGED <<ready, checkedOut, sched, guard, next_k, abs_cursor, generation,
                     releasing, eos, grid>>
  BY DEF begin_window, InWait, InChunk, history
<1>3. w.k = next_k /\ w.end = fin
  OBVIOUS
<1> HIDE DEF w
<1>4. /\ Delivered' = Delivered /\ Pairs' = Pairs
      /\ \A d \in Delivered' : pool'[d] = pool[d]
  <2>1. Delivered' = Delivered /\ Pairs' = Pairs
    BY <1>2, SameDelivered, SamePairs
  <2>2. h \notin Delivered /\ Delivered \subseteq Handle
    BY <1>1, <1>2, Holders
  <2>3. \A d \in Delivered : pool'[d] = pool[d]
    BY <1>1, <1>2, <2>2 DEF SlotsInv
  <2> QED BY <2>1, <2>3
<1>5. CutNext'
  <2>1. pool'[active'] = w
    BY <1>1, <1>2 DEF SlotsInv
  <2>2. fin = (Bounds(next_k).end)'
    BY <1>2 DEF Bounds
  <2> HIDE DEF fin
  <2> QED BY <1>2, <1>3, <2>1, <2>2 DEF CutNext
<1>6. AtRest'
  <2>1. ~eos
    BY <1>2 DEF OrderInv, AtRest
  <2> QED BY <1>2, <2>1 DEF AtRest
<1>7. abs_cursor <= abs_cursor'
  BY <1>1, <1>2
<1> QED BY <1>2, <1>4, <1>5, <1>6, <1>7, OrderAside

\* finish_active_window: the window joins the ring behind the others, and the
\* core goes on to the next index.
LEMMA OrderOfFinish ==
  ASSUME CoreInv, CoreInv', OrderInv, AtRest', state = "CopyWindow",
         NEW w \in Slot, w.k = pool[active].k, w.end = pool[active].end,
         NEW short \in BOOLEAN, Finish(w, short),
         UNCHANGED <<sched, guard, generation, releasing, grid>>, eos => eos',
         abs_cursor <= abs_cursor', ~eos' => w.end <= abs_cursor'
  PROVE  OrderInv'
<1>1. /\ OwnInv /\ NumbersInv /\ SlotsInv /\ next_k \in Nat
      /\ active # kInvalid /\ active \in Handle /\ active \notin Delivered
      /\ active \notin checkedOut /\ Delivered \subseteq Handle
      /\ ready \in Seq(Handle) /\ checkedOut \subseteq Handle
  <2>1. OwnInv /\ NumbersInv /\ SlotsInv
    BY DEF CoreInv
  <2> QED BY <2>1, ScheduleFacts, Holders DEF OwnInv, CopyHasActive, PoolType
<1>2. /\ active' = kInvalid /\ next_k' = next_k + 1 /\ checkedOut' = checkedOut
      /\ state' # "Unlocked"
  BY DEF Finish, WaitOrPaused
<1>3. state' # "CopyWindow"
  BY <1>2 DEF CoreInv, OwnInv, CopyHasActive
<1>4. CutNext' /\ GridType' /\ Fresh'
  BY <1>2, <1>3 DEF CutNext, OrderInv, GridType, Fresh
<1>5. CASE ~(Len(ready) < kMaxPoolSize)
  <2>1. ready' = ready /\ pool' = [pool EXCEPT ![active] = EmptySlot]
    BY <1>5 DEF Finish
  <2>2. Delivered' = Delivered /\ Pairs' = Pairs
    BY <1>2, <2>1, SameDelivered, SamePairs
  <2>3. \A h \in Delivered' : pool'[h] = pool[h]
    BY <1>1, <2>1, <2>2 DEF SlotsInv
  <2> QED BY <1>2, <1>4, <2>2, <2>3, OrderAside
<1>6. CASE Len(ready) < kMaxPoolSize
  <2> DEFINE mark == w.partial \/ short
             whole == [w EXCEPT !.partial = mark, !.count = Len(w.data)]
  <2>1. ready' = Append(ready, active) /\ pool' = [pool EXCEPT ![active] = whole]
    BY <1>6 DEF Finish
  <2>2. whole.k = w.k
    BY DEF Slot
  <2> HIDE DEF whole, mark
  <2>3. pool'[active] = whole /\ \A h \in Delivered : pool'[h] = pool[h]
    BY <1>1, <2>1 DEF SlotsInv
  <2>4. Delivered' = Delivered \cup {active}
    <3>1. /\ active \notin Range(ready)
          /\ \A i, j \in DOMAIN ready : i # j => ready[i] # ready[j]
      BY <1>1 DEF OwnInv, HandleOwnership
    <3>2. Range(ready') = Range(ready) \cup {active}
      BY <1>1, <2>1, <3>1, AppendRange
    <3>3. Range(ready)' = Range(ready) \cup {active}
      BY <3>2 DEF Range
    <3> QED BY <1>1, <1>2, <3>3 DEF Delivered
  <2>5. pool[active].k = next_k
    BY DEF OrderInv, CutNext
  <2>6. InOrder'
    <3> SUFFICES ASSUME grid # "searched", NEW p \in Pairs'
                 PROVE  IndicesGrow(pool[p[1]], pool[p[2]])'
      BY DEF InOrder
    <3>1. p \in Pairs \/ (p[1] \in Delivered /\ p[2] = active)
      <4>1. /\ DOMAIN ready = 1..Len(ready) /\ Len(ready) \in Nat
            /\ DOMAIN ready' = 1..(Len(ready) + 1) /\ ready'[Len(ready) + 1] = active
            /\ \A i \in 1..Len(ready) : ready'[i] = ready[i]
        BY <1>1, <2>1
      <4>2. CASE \E i, j \in DOMAIN ready' : i < j /\ p[1] = ready'[i] /\ p[2] = ready'[j]
        <5>1. PICK i \in DOMAIN ready', j \in DOMAIN ready' :
                     i < j /\ p[1] = ready'[i] /\ p[2] = ready'[j]
          BY <4>2
        <5>2. i \in 1..Len(ready) /\ p[1] = ready[i]
          BY <4>1, <5>1
        <5>3. CASE j = Len(ready) + 1
          <6>1. p[2] = active /\ p[1] \in Range(ready)
            BY <4>1, <5>1, <5>2, <5>3 DEF Range
          <6> QED BY <6>1 DEF Delivered
        <5>4. CASE j # Len(ready) + 1
          <6>1. j \in DOMAIN ready /\ p[2] = ready[j] /\ i \in DOMAIN ready
            BY <4>1, <5>1, <5>2, <5>4
          <6> QED BY <5>1, <5>2, <6>1 DEF Pairs
        <5> QED BY <5>3, <5>4
      <4>3. CASE p[1] \in checkedOut' \ {releasing'} /\ p[2] \in Range(ready)'
        <5>1. p[1] \in Delivered /\ p[1] \in checkedOut \ {releasing}
          BY <1>2, <4>3 DEF Delivered
        <5>2. p[2] \in Range(ready) \/ p[2] = active
          <6>1. PICK j \in DOMAIN ready' : p[2] = ready'[j]
            BY <4>3 DEF Range
          <6>2. j \in 1..Len(ready) \/ j = Len(ready) + 1
            BY <4>1
          <6> QED BY <4>1, <6>1, <6>2 DEF Range
        <5>3. p \in Handle \X Handle
          BY DEF Pairs
        <5> QED BY <5>1, <5>2, <5>3 DEF Pairs
      <4> QED BY <4>2, <4>3 DEF Pairs
    <3>2. CASE p \in Pairs
      <4>1. IndicesGrow(pool[p[1]], pool[p[2]])
        BY <3>2 DEF OrderInv, InOrder
      <4>2. p[1] \in Delivered /\ p[2] \in Delivered
        BY <1>1, <3>2 DEF Pairs, Delivered, Range
      <4> QED BY <2>3, <4>1, <4>2 DEF IndicesGrow
    <3>3. CASE p[1] \in Delivered /\ p[2] = active
      <4>1. pool[p[1]].gen = generation => pool[p[1]].k < next_k
        BY <3>3 DEF OrderInv, Indexed, Reached
      <4> QED BY <2>2, <2>3, <2>5, <3>3, <4>1 DEF IndicesGrow
    <3> QED BY <3>1, <3>2, <3>3
  <2>7. Indexed'
    <3> SUFFICES ASSUME grid # "searched", NEW h \in Delivered', pool'[h].gen = generation'
                 PROVE  Reached(pool[h])'
      BY DEF Indexed
    <3>1. CASE h = active
      <4>1. pool'[h].k = next_k /\ next_k < next_k'
        BY <1>1, <1>2, <2>2, <2>3, <2>5, <3>1
      <4>2. ASSUME grid = "fixed", ~eos' PROVE (Bounds(pool[h].k).end <= abs_cursor)'
        <5>1. Bounds(next_k).end <= abs_cursor'
          BY <4>2 DEF OrderInv, CutNext
        <5> QED BY <4>1, <5>1 DEF Bounds
      <4> QED BY <4>1, <4>2 DEF Reached
    <3>2. CASE h \in Delivered
      <4>1. pool'[h] = pool[h] /\ Reached(pool[h]) /\ pool[h].k < next_k'
        BY <1>2, <2>3, <3>2, IndicesBelow DEF OrderInv, Indexed
      <4>2. ASSUME grid = "fixed", ~eos' PROVE (Bounds(pool[h].k).end <= abs_cursor)'
        <5> DEFINE fin == Bounds(pool[h].k).end
        <5>1. fin <= abs_cursor
          BY <4>1, <4>2 DEF Reached
        <5>2. fin = (Bounds(pool[h].k).end)'
          BY <4>1 DEF Bounds
        <5>3. fin \in Nat
          BY <1>1, <3>2, ScheduleFacts, ReachedFacts, BoundsTyped DEF Bounds
        <5>4. abs_cursor \in Nat /\ abs_cursor' \in Nat
          BY DEF CoreInv, NumbersInv, ScheduleType
        <5> HIDE DEF fin
        <5> QED BY <5>1, <5>2, <5>3, <5>4
      <4> QED BY <4>1, <4>2 DEF Reached
    <3> QED BY <2>4, <3>1, <3>2
  <2> QED BY <1>4, <2>6, <2>7 DEF OrderInv
<1> QED BY <1>5, <1>6

LEMMA OrderOfCopy ==
  ASSUME CoreInv, CoreInv', OrderInv, CopyWindow
  PROVE  OrderInv'
<1>1. OwnInv /\ NumbersInv /\ SlotsInv
  BY DEF CoreInv
<1> DEFINE slot == pool[active]
           take == GeoMin(GeoMin(GeoMax(slot.end - abs_cursor, 0),
                                 GeoMax(slot.count - Len(slot.data), 0)), chunk.left)
           w == Filled(slot, take)
<1>2. /\ active # kInvalid /\ slot \in Slot /\ Filling(slot) /\ state = "CopyWindow"
      /\ active \in Handle /\ active \notin Delivered
  <2>1. active # kInvalid /\ state = "CopyWindow"
    BY <1>1 DEF CopyWindow, OwnInv, CopyHasActive
  <2> QED BY <1>1, <2>1, Holders DEF SlotsInv
<1>3. /\ Consume(take) /\ chunk.left > 0
      /\ IF Len(w.data) >= slot.count \/ abs_cursor + take >= slot.end
           THEN Finish(w, Len(w.data) < slot.count)
           ELSE /\ pool' = [pool EXCEPT ![active] = w]
                /\ UNCHANGED <<free, ready, checkedOut, active, next_k, state, stats>>
      /\ UNCHANGED <<sched, guard, paused, generation, releasing, eos, grid>>
  BY DEF CopyWindow, Filled, InChunk, history
<1>4. /\ take \in 0..chunk.left /\ Len(slot.data) + take <= slot.count
      /\ Len(slot.data) \in Nat /\ take \in Nat /\ abs_cursor \in Nat /\ chunk.left \in Nat
      /\ slot.end \in Int /\ slot.count \in Int /\ slot.start \in Int
  <2>1. slot.end \in Int /\ slot.count \in Int /\ slot.data \in Seq(Int) /\ slot.start \in Int
    BY <1>2 DEF Slot
  <2>2. abs_cursor \in Nat /\ chunk.left \in Nat
    BY <1>1 DEF NumbersInv, ScheduleType
  <2>3. Len(slot.data) \in Nat /\ slot.end - abs_cursor \in Int
        /\ slot.count - Len(slot.data) \in Int
    BY <2>1, <2>2
  <2>4. take \in 0..chunk.left /\ take <= GeoMax(slot.count - Len(slot.data), 0)
    BY <2>2, <2>3, TakeBounds
  <2>5. Len(slot.data) <= slot.count
    BY <1>2 DEF Filling
  <2> HIDE DEF take, slot
  <2> QED BY <2>1, <2>2, <2>3, <2>4, <2>5 DEF GeoMax
<1> HIDE DEF take, slot
<1>5. /\ w \in Slot /\ w.start = slot.start /\ w.end = slot.end /\ w.partial = slot.partial
      /\ w.count = slot.count /\ w.gen = slot.gen /\ Len(w.data) = Len(slot.data) + take
  BY <1>1, <1>2, <1>4, FilledOn
<1>6. w.k = slot.k
  BY <1>2 DEF Filled, Slot
<1> HIDE DEF w
<1>7. /\ slot.end = slot.start + slot.count /\ slot.start + Len(slot.data) = abs_cursor
      /\ abs_cursor' = abs_cursor + take
  BY <1>2, <1>3 DEF Filling, Consume
<1>8. ~eos /\ AtRest'
  <2>1. ~eos
    BY <1>3, <1>4 DEF OrderInv, AtRest
  <2> QED BY <1>3, <2>1 DEF AtRest
<1>9. abs_cursor <= abs_cursor'
  BY <1>4, <1>7
<1>10. CASE Len(w.data) >= slot.count \/ abs_cursor + take >= slot.end
  <2> DEFINE short == Len(w.data) < slot.count
  <2>1. Finish(w, short) /\ short \in BOOLEAN
    BY <1>3, <1>10
  <2>2. w.end <= abs_cursor'
    BY <1>4, <1>5, <1>7, <1>10
  <2>3. w.k = pool[active].k /\ w.end = pool[active].end
    BY <1>5, <1>6 DEF slot
  <2> HIDE DEF short
  <2> QED BY <1>2, <1>3, <1>5, <1>8, <1>9, <2>1, <2>2, <2>3, OrderOfFinish
<1>11. CASE ~(Len(w.data) >= slot.count \/ abs_cursor + take >= slot.end)
  <2>1. /\ pool' = [pool EXCEPT ![active] = w]
        /\ UNCHANGED <<ready, checkedOut, active, next_k, state>>
    BY <1>3, <1>11
  <2>2. pool'[active] = w /\ \A d \in Delivered : pool'[d] = pool[d]
    BY <1>1, <1>2, <2>1, Holders DEF SlotsInv
  <2>3. Delivered' = Delivered /\ Pairs' = Pairs
    BY <1>3, <2>1, SameDelivered, SamePairs
  <2>4. CutNext'
    <3>1. w.k = next_k /\ (grid = "fixed" => w.end = Bounds(next_k).end)
      BY <1>2, <1>5, <1>6 DEF OrderInv, CutNext, slot
    <3> QED BY <1>3, <2>1, <2>2, <3>1 DEF CutNext, Bounds
  <2> QED BY <1>3, <1>8, <1>9, <2>1, <2>2, <2>3, <2>4, OrderAside
<1> QED BY <1>10, <1>11

\* set_schedule, and the other calls that open a generation.
LEMMA OrderOfOpening ==
  ASSUME CoreInv, CoreInv', OrderInv, GridType', Idle, AbortActive,
         generation' = generation + 1, UNCHANGED <<chunk, releasing, eos>>
  PROVE  OrderInv'
<1>1. OwnInv /\ SlotsInv
  BY DEF CoreInv
<1>2. AtRest'
  BY DEF Idle, AtRest
<1>3. CutNext'
  <2>1. state' # "CopyWindow"
    BY DEF AbortActive, CoreInv, OwnInv, CopyHasActive
  <2> QED BY <2>1 DEF CutNext
<1>4. Delivered' = Delivered /\ \A h \in Delivered' : pool'[h] = pool[h]
  BY <1>1, AbortSpares
<1>5. \A h \in Delivered' : pool'[h].gen # generation'
  BY <1>4, NoneYet
<1> QED BY <1>2, <1>3, <1>5, OrderAnew

\* New guards: nothing is cut yet, or the windows cut are of other guards.
LEMMA OrderOfGuards ==
  ASSUME CoreInv, CoreInv', OrderInv, GridType', Idle, NEW g \in Guards, ChangeGuards(g),
         generation' = generation, state = "Unlocked" \/ grid' = "searched"
  PROVE  OrderInv'
<1>1. OwnInv /\ SlotsInv /\ UNCHANGED <<chunk, releasing, eos>>
  BY DEF CoreInv, ChangeGuards
<1>2. AtRest'
  BY <1>1 DEF Idle, AtRest
<1>3. CASE state = "Unlocked"
  <2>1. UNCHANGED <<poolVars, state>>
    BY <1>3 DEF ChangeGuards
  <2>2. Delivered' = Delivered /\ pool' = pool
    BY <1>1, <2>1, SameDelivered DEF poolVars
  <2>3. CutNext'
    BY <1>3, <2>1 DEF CutNext
  <2>4. \A h \in Delivered' : pool'[h].gen # generation'
    BY <1>3, <2>2 DEF OrderInv, Fresh
  <2> QED BY <1>2, <2>3, <2>4, OrderAnew
<1>4. CASE state # "Unlocked"
  <2>1. AbortActive /\ state' # "Unlocked" /\ grid' = "searched"
    BY <1>4 DEF ChangeGuards, WaitOrPaused
  <2>2. CutNext'
    <3>1. state' # "CopyWindow"
      BY <2>1 DEF AbortActive, CoreInv, OwnInv, CopyHasActive
    <3> QED BY <3>1 DEF CutNext
  <2>3. /\ Delivered' = Delivered /\ Pairs' = Pairs
        /\ \A h \in Delivered' : pool'[h] = pool[h]
    BY <1>1, <2>1, AbortSpares, SamePairs DEF AbortActive
  <2> QED BY <1>2, <2>1, <2>2, <2>3, OrderHeld
<1> QED BY <1>3, <1>4

\* A soft update looks for no index: the next one is still a new one.
LEMMA OrderOfUpdate ==
  ASSUME CoreInv, CoreInv', OrderInv, GridType', NEW s \in SoftParams, NEW f \in BOOLEAN,
         update_locked_params(s, f)
  PROVE  OrderInv'
<1>1. /\ UNCHANGED <<poolVars, next_k, state, generation, releasing, eos, chunk>>
      /\ grid' = Moved
  BY DEF update_locked_params
<1>2. Delivered' = Delivered /\ Pairs' = Pairs /\ pool' = pool /\ active' = active
  BY <1>1, SameDelivered, SamePairs DEF poolVars
<1>3. grid' # "fixed" /\ (grid' # "searched" => grid # "searched")
  BY <1>1 DEF Moved
<1>4. AtRest' /\ CutNext'
  BY <1>1, <1>2, <1>3 DEF OrderInv, AtRest, CutNext
<1>5. grid' # "searched" =>
        /\ grid # "searched"
        /\ \A h \in Delivered : pool[h].gen = generation => pool[h].k < next_k'
  BY <1>1, <1>3, IndicesBelow
<1> QED BY <1>1, <1>2, <1>3, <1>4, <1>5, OrderHeld

LEMMA OrderOfRebuild ==
  ASSUME CoreInv, CoreInv', OrderInv, GridType', Idle, RebuildPool, state' = "Unlocked",
         generation' = generation + 1, UNCHANGED <<chunk, releasing, eos>>
  PROVE  OrderInv'
<1>1. /\ ready' = <<>> /\ checkedOut' = checkedOut /\ pool' = WipedPool
      /\ checkedOut \subseteq Handle
  BY DEF RebuildPool, CoreInv, OwnInv, PoolType
<1>2. Delivered' = checkedOut \ {releasing} /\ Delivered' \subseteq Delivered
  <2>1. Range(ready)' = {}
    BY <1>1 DEF Range
  <2> QED BY <1>1, <2>1 DEF Delivered
<1>3. \A h \in Delivered' : pool'[h] = pool[h]
  BY <1>1, <1>2 DEF WipedPool
<1>4. \A h \in Delivered' : pool'[h].gen # generation'
  BY <1>2, <1>3, NoneYet
<1>5. AtRest' /\ CutNext'
  BY DEF Idle, AtRest, CutNext
<1> QED BY <1>4, <1>5, OrderAnew

\* pause: the next index stays where it is.
LEMMA OrderOfPause ==
  ASSUME CoreInv, CoreInv', OrderInv, pause
  PROVE  OrderInv'
<1>1. /\ OwnInv /\ SlotsInv /\ Idle /\ AbortActive /\ state' = "Paused" /\ next_k \in Nat
      /\ abs_cursor \in Nat
      /\ UNCHANGED <<sched, guard, abs_cursor, next_k, generation, chunk, releasing, eos, grid>>
  BY ScheduleFacts DEF CoreInv, pause
<1>2. AtRest' /\ CutNext' /\ abs_cursor <= abs_cursor'
  BY <1>1 DEF Idle, AtRest, CutNext
<1>3. /\ Delivered' = Delivered /\ Pairs' = Pairs
      /\ \A h \in Delivered' : pool'[h] = pool[h]
  BY <1>1, AbortSpares, SamePairs DEF AbortActive
<1> QED BY <1>1, <1>2, <1>3, OrderAside

\* The stop: the window in hand is completed as it is, or given up.
LEMMA OrderOfFlush ==
  ASSUME CoreInv, CoreInv', OrderInv, flush_eos
  PROVE  OrderInv'
<1>1. /\ OwnInv /\ SlotsInv /\ abs_cursor \in Nat
      /\ (active # kInvalid => active \in Handle) /\ active \notin Delivered
      /\ Delivered \subseteq Handle
  <2>1. OwnInv /\ NumbersInv /\ SlotsInv
    BY DEF CoreInv
  <2> QED BY <2>1, ScheduleFacts, Holders
<1>2. /\ eos' = TRUE /\ chunk.left = 0
      /\ UNCHANGED <<sched, guard, abs_cursor, generation, chunk, releasing, grid>>
  BY DEF flush_eos, Idle
<1>3. AtRest' /\ abs_cursor <= abs_cursor'
  BY <1>1, <1>2 DEF AtRest
<1>4. CASE active = kInvalid
  <2>1. UNCHANGED <<poolVars, next_k, state>>
    BY <1>4 DEF flush_eos
  <2>2. Delivered' = Delivered /\ Pairs' = Pairs /\ pool' = pool /\ active' = active
    BY <1>2, <2>1, SameDelivered, SamePairs DEF poolVars
  <2>3. CutNext'
    BY <1>2, <2>1, <2>2 DEF OrderInv, CutNext, Bounds
  <2> QED BY <1>2, <1>3, <2>1, <2>2, <2>3, OrderAside
<1>5. CASE active # kInvalid
  <2> DEFINE w == pool[active]
             short == Len(w.data) < w.count
  <2>1. w \in Slot /\ state = "CopyWindow"
    BY <1>1, <1>5 DEF SlotsInv, CoreInv, OwnInv, CopyHasActive
  <2>2. CASE short /\ PartialEos = "Drop"
    <3>1. /\ pool' = [pool EXCEPT ![active] = EmptySlot] /\ state' = "WaitWindow"
          /\ UNCHANGED <<ready, checkedOut, next_k>>
      BY <1>5, <2>2 DEF flush_eos
    <3>2. Delivered' = Delivered /\ Pairs' = Pairs
      BY <1>2, <3>1, SameDelivered, SamePairs
    <3>3. \A h \in Delivered' : pool'[h] = pool[h]
      BY <1>1, <3>1, <3>2 DEF SlotsInv
    <3>4. CutNext'
      BY <3>1 DEF CutNext
    <3> QED BY <1>2, <1>3, <3>1, <3>2, <3>3, <3>4, OrderAside
  <2>3. CASE ~(short /\ PartialEos = "Drop")
    <3>1. Finish(w, short) /\ short \in BOOLEAN
      BY <1>5, <2>3 DEF flush_eos
    <3>2. w.k = pool[active].k /\ w.end = pool[active].end
      OBVIOUS
    <3> HIDE DEF short, w
    <3> QED BY <1>2, <1>3, <2>1, <3>1, <3>2, OrderOfFinish
  <2> QED BY <2>2, <2>3
<1> QED BY <1>4, <1>5

\* Taking a window and giving it back leave the order of the others.
LEMMA OrderOfWorker ==
  ASSUME CoreInv, CoreInv', OrderInv, take_window \/ Worker
  PROVE  OrderInv'
<1>1. OwnInv /\ SlotsInv /\ abs_cursor \in Nat
  BY ScheduleFacts DEF CoreInv
<1>2. UNCHANGED <<sched, guard, next_k, abs_cursor, state, generation, active, eos, chunk, grid>>
  BY DEF take_window, Worker, PushFree, ClearSlot, schedVars, history
<1>3. /\ ready \in Seq(Handle) /\ active \notin checkedOut /\ pool \in [Handle -> Slot]
      /\ (active # kInvalid => active \in Handle) /\ checkedOut \subseteq Handle
      /\ \A i, j \in DOMAIN ready : i # j => ready[i] # ready[j]
  BY <1>1, Holders DEF OwnInv, PoolType, SlotsInv, HandleOwnership
<1>4. AtRest' /\ abs_cursor <= abs_cursor'
  BY <1>1, <1>2 DEF OrderInv, AtRest
<1>5. SUFFICES /\ Pairs' \subseteq Pairs /\ Delivered' \subseteq Delivered
               /\ \A h \in Delivered' : pool'[h] = pool[h]
               /\ active # kInvalid => pool'[active] = pool[active]
  <2>1. CutNext'
    <3>1. state = "CopyWindow" => pool'[active] = pool[active]
      BY <1>1, <1>5 DEF OwnInv, CopyHasActive
    <3> QED BY <1>2, <3>1 DEF OrderInv, CutNext, Bounds
  <2> QED BY <1>2, <1>4, <1>5, <2>1, OrderAside
<1>6. CASE take_window
  <2>1. /\ ready # <<>> /\ checkedOut' = checkedOut \cup {Head(ready)} /\ ready' = Tail(ready)
        /\ pool' = pool /\ releasing' = releasing
    BY <1>6 DEF take_window
  <2>2. /\ Len(ready) \in Nat \ {0} /\ DOMAIN ready = 1..Len(ready) /\ Head(ready) = ready[1]
        /\ DOMAIN ready' = 1..(Len(ready) - 1)
        /\ \A i \in 1..(Len(ready) - 1) : ready'[i] = ready[i + 1]
    BY <1>3, <2>1
  <2>3. Range(ready') \subseteq Range(ready) /\ Head(ready) \in Range(ready)
    BY <1>3, <2>1, TailRange
  <2>4. Delivered' \subseteq Delivered
    <3>1. Range(ready)' = Range(ready')
      BY DEF Range
    <3> QED BY <2>1, <2>3, <3>1 DEF Delivered
  <2>5. Pairs' \subseteq Pairs
    <3> SUFFICES ASSUME NEW p \in Pairs' PROVE p \in Pairs
      OBVIOUS
    <3>1. p \in Handle \X Handle
      BY DEF Pairs
    <3>2. CASE \E i, j \in DOMAIN ready' : i < j /\ p[1] = ready'[i] /\ p[2] = ready'[j]
      <4>1. PICK i \in DOMAIN ready', j \in DOMAIN ready' :
                   i < j /\ p[1] = ready'[i] /\ p[2] = ready'[j]
        BY <3>2
      <4>2. /\ i + 1 \in DOMAIN ready /\ j + 1 \in DOMAIN ready /\ i + 1 < j + 1
            /\ p[1] = ready[i + 1] /\ p[2] = ready[j + 1]
        BY <2>2, <4>1
      <4> QED BY <3>1, <4>2 DEF Pairs
    <3>3. CASE p[1] \in checkedOut' \ {releasing'} /\ p[2] \in Range(ready)'
      <4>1. PICK j \in DOMAIN ready' : p[2] = ready'[j]
        BY <3>3 DEF Range
      <4>2. j + 1 \in DOMAIN ready /\ 1 \in DOMAIN ready /\ 1 < j + 1 /\ p[2] = ready[j + 1]
        BY <2>2, <4>1
      <4>3. CASE p[1] = Head(ready)
        BY <2>2, <3>1, <4>2, <4>3 DEF Pairs
      <4>4. CASE p[1] # Head(ready)
        <5>1. p[1] \in checkedOut \ {releasing} /\ p[2] \in Range(ready)
          BY <2>1, <3>3, <4>2, <4>4 DEF Range
        <5> QED BY <3>1, <5>1 DEF Pairs
      <4> QED BY <4>3, <4>4
    <3> QED BY <3>2, <3>3 DEF Pairs
  <2> QED BY <2>1, <2>4, <2>5
<1>7. CASE PushFree
  <2>1. /\ checkedOut' = checkedOut \ {releasing} /\ ready' = ready /\ pool' = pool
        /\ releasing' = kInvalid
    BY <1>7 DEF PushFree
  <2>2. Range(ready)' = Range(ready)
    BY <2>1 DEF Range
  <2>3. Delivered' \subseteq Delivered /\ Pairs' \subseteq Pairs
    BY <2>1, <2>2 DEF Delivered, Pairs
  <2> QED BY <2>1, <2>3
<1>8. ASSUME NEW c \in Handle, ClearSlot(c)
      PROVE  /\ Pairs' \subseteq Pairs /\ Delivered' \subseteq Delivered
             /\ \A h \in Delivered' : pool'[h] = pool[h]
             /\ active # kInvalid => pool'[active] = pool[active]
  <2>1. /\ c \in checkedOut /\ releasing' = c /\ pool' = [pool EXCEPT ![c] = EmptySlot]
        /\ ready' = ready /\ checkedOut' = checkedOut
    BY <1>8 DEF ClearSlot
  <2>2. Range(ready)' = Range(ready) /\ c \notin Range(ready)
    BY <1>1, <2>1 DEF Range, OwnInv, HandleOwnership
  <2>3. releasing = kInvalid /\ kInvalid \notin checkedOut
    BY <1>3, <1>8, PoolAssumption DEF ClearSlot
  <2>4. Delivered' \subseteq Delivered \ {c}
    BY <2>1, <2>2, <2>3 DEF Delivered
  <2>5. Pairs' \subseteq Pairs
    BY <2>1, <2>2, <2>3 DEF Pairs
  <2>6. \A h \in Handle : h # c => pool'[h] = pool[h]
    BY <1>3, <2>1
  <2>7. active # kInvalid => pool'[active] = pool[active]
    BY <1>3, <2>1, <2>6
  <2>8. \A h \in Delivered' : pool'[h] = pool[h]
    BY <1>1, <2>4, <2>6, Holders
  <2> QED BY <2>4, <2>5, <2>7, <2>8
<1> QED BY <1>6, <1>7, <1>8 DEF Worker

LEMMA OrderInvInit == Init => OrderInv
<1> SUFFICES ASSUME Init PROVE OrderInv
  OBVIOUS
<1>1. Delivered = {} /\ Pairs = {}
  BY DEF Init, Delivered, Pairs, Range
<1>2. GridType /\ AtRest /\ CutNext
  BY DEF Init, GridType, GridStates, AtRest, CutNext
<1> QED BY <1>1, <1>2 DEF OrderInv, Fresh, Indexed, InOrder

LEMMA OrderInvStep ==
  ASSUME CoreInv, CoreInv', OrderInv, [Next]_vars
  PROVE  OrderInv'
<1>1. GridType'
  BY GridTyped DEF OrderInv
<1>2. CASE Stream
  <2>1. PICK n \in 1..MaxChunk, gap \in 0..MaxGap : process_chunk(n, stream + gap)
    BY <1>2 DEF Stream
  <2>2. n \in Nat /\ gap \in Nat
    BY BoundAssumption
  <2> QED BY <1>1, <2>1, <2>2, OrderOfJump
<1>3. CASE Loop
  BY <1>3, OrderOfSkip, OrderOfBegin, OrderOfCopy DEF Loop
<1>4. CASE Control
  <2>1. ASSUME NEW s \in Schedules, set_schedule(s) PROVE OrderInv'
    <3>1. /\ Idle /\ AbortActive /\ generation' = generation + 1
          /\ UNCHANGED <<chunk, releasing, eos>>
      BY <2>1 DEF set_schedule
    <3> QED BY <1>1, <3>1, OrderOfOpening
  <2>2. ASSUME NEW g \in Guards, update_guards_keep_generation(g) PROVE OrderInv'
    <3>1. /\ Idle /\ ChangeGuards(g) /\ generation' = generation
          /\ (state = "Unlocked" \/ grid' = "searched")
      BY <2>2 DEF update_guards_keep_generation
    <3> QED BY <1>1, <3>1, OrderOfGuards
  <2>3. ASSUME NEW g \in Guards, set_guards(g) PROVE OrderInv'
    <3>1. Idle /\ ChangeGuards(g)
      BY <2>3 DEF set_guards
    <3>2. CASE state = "Unlocked"
      <4>1. generation' = generation
        BY <2>3, <3>2 DEF set_guards
      <4> QED BY <1>1, <3>1, <3>2, <4>1, OrderOfGuards
    <3>3. CASE state # "Unlocked"
      <4>1. /\ AbortActive /\ generation' = generation + 1
            /\ UNCHANGED <<chunk, releasing, eos>>
        BY <2>3, <3>3 DEF set_guards, ChangeGuards
      <4> QED BY <1>1, <3>1, <4>1, OrderOfOpening
    <3> QED BY <3>2, <3>3
  <2>4. ASSUME NEW s \in SoftParams, NEW f \in BOOLEAN, update_locked_params(s, f)
        PROVE  OrderInv'
    BY <1>1, <2>4, OrderOfUpdate
  <2>5. CASE pause
    BY <2>5, OrderOfPause
  <2>6. CASE resume
    <3>1. /\ Idle /\ UNCHANGED poolVars /\ state' \notin {"CopyWindow", "Unlocked"}
          /\ next_k' = advance_k_to_abs(sched, guard, abs_cursor) /\ grid' = Searched
          /\ UNCHANGED <<sched, guard, abs_cursor, generation, releasing, eos>>
      BY <2>6 DEF resume
    <3>2. abs_cursor \in Nat /\ abs_cursor <= abs_cursor
      BY ScheduleFacts DEF CoreInv
    <3> QED BY <1>1, <3>1, <3>2, OrderOfSearch
  <2>7. CASE reset
    <3>1. /\ Idle /\ RebuildPool /\ state' = "Unlocked" /\ generation' = generation + 1
          /\ UNCHANGED <<chunk, releasing, eos>>
      BY <2>7 DEF reset
    <3> QED BY <1>1, <3>1, OrderOfRebuild
  <2>8. ASSUME NEW s \in Schedules, NEW g \in Guards, configure(s, g) PROVE OrderInv'
    <3>1. /\ Idle /\ RebuildPool /\ state' = "Unlocked" /\ generation' = generation + 1
          /\ UNCHANGED <<chunk, releasing, eos>>
      BY <2>8 DEF configure
    <3> QED BY <1>1, <3>1, OrderOfRebuild
  <2>9. CASE flush_eos
    BY <2>9, OrderOfFlush
  <2> QED BY <1>4, <2>1, <2>2, <2>3, <2>4, <2>5, <2>6, <2>7, <2>8, <2>9 DEF Control
<1>5. CASE take_window \/ Worker
  BY <1>5, OrderOfWorker
<1>6. CASE UNCHANGED vars
  <2>1. UNCHANGED <<sched, guard, next_k, abs_cursor, state, generation, active,
                    pool, ready, checkedOut, releasing, eos, chunk, grid>>
    BY <1>6 DEF vars
  <2>2. Delivered' = Delivered /\ Pairs' = Pairs
    BY <2>1, SameDelivered, SamePairs
  <2>3. AtRest' /\ CutNext' /\ abs_cursor <= abs_cursor'
    <3>1. abs_cursor \in Nat
      BY ScheduleFacts DEF CoreInv
    <3> QED BY <2>1, <3>1 DEF OrderInv, AtRest, CutNext, Bounds
  <2> QED BY <2>1, <2>2, <2>3, OrderAside
<1> QED BY <1>2, <1>3, <1>4, <1>5, <1>6 DEF Next

\* Windows leave in the order of the stream and share no sample; and within a
\* generation no slot is cut a second time, through any number of jumps, pauses,
\* starved windows and soft updates of (t0, T), as long as no index is looked for
\* again after such an update or after a change of guards that opens no
\* generation (advance_k_to_abs).  Nothing is asked of the schedules, the updates
\* or the guards: what lies outside is what SlotsStrictlyOrdered shows to fail.
THEOREM WindowsLeaveInOrder == Spec => []WindowsInOrder
<1>1. CoreInv /\ OrderInv => WindowsInOrder
  <2> SUFFICES ASSUME CoreInv, OrderInv PROVE WindowsInOrder
    OBVIOUS
  <2>1. WindowsDisjoint /\ OwnInv /\ InOrder
    BY DEF CoreInv, SlotsInv, OrderInv
  <2> QED BY <2>1, OrderOfPairs DEF WindowsInOrder
<1>2. Init => CoreInv /\ OrderInv
  BY CoreInvInit, OrderInvInit
<1>3. (CoreInv /\ OrderInv) /\ [Next]_vars => (CoreInv /\ OrderInv)'
  BY CoreInvStep, OrderInvStep
<1> QED BY <1>1, <1>2, <1>3, PTL DEF Spec

=============================================================================
