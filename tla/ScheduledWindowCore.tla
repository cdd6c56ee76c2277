------------------------ MODULE ScheduledWindowCore ------------------------
(***************************************************************************)
(* ScheduledWindowCore (uwb_scheduled_extractor_core.h): the machine that  *)
(* cuts fixed-interval windows out of a sample stream into a pool of       *)
(* slots, shared by a work thread and one worker thread.                   *)
(*                                                                         *)
(* The work thread runs one operation at a time; process_chunk is split at *)
(* its loop iterations, which is where pool_mutex_ lets the worker in.     *)
(* The worker owns the handles that take_window gave out and returns each  *)
(* in two steps: it clears the slot, then takes pool_mutex_ and pushes the *)
(* handle on the free list.  A sample is its position in the stream, so a  *)
(* window's content can be compared with what its meta data announces.     *)
(***************************************************************************)
EXTENDS ScheduleGeometry, Sequences, FiniteSets, Functions

CONSTANTS
  Handle,         \* the pool_size slots of the pool
  kInvalid,       \* "no handle"
  kMaxPoolSize,   \* capacity of the ready ring
  MarginBase,     \* the constant 64 of update_locked_params' margin
  Schedules,      \* the (t0, T) that set_schedule and configure may bring
  SoftParams,     \* the (t0, T) that update_locked_params may bring
  Guards,         \* the guard triples, the configured one among them
  InitGuard,
  PartialEos,     \* "Drop" or "EmitPartial"
  MaxChunk,       \* bound: samples in one chunk
  MaxGap,         \* bound: samples lost at one discontinuity
  MaxAbs,         \* bound: length of the stream
  MaxGen          \* bound: generations

ASSUME PoolAssumption ==
  /\ kInvalid \notin Handle
  /\ IsFiniteSet(Handle) /\ Handle # {}
  /\ kMaxPoolSize \in Nat /\ Cardinality(Handle) <= kMaxPoolSize
ASSUME GuardAssumption ==
  /\ Guards \subseteq [pre: Nat, capture: Nat, post: Nat]
  /\ InitGuard \in Guards
  /\ \A g \in Guards : window_capacity(g) > 0
ASSUME ScheduleAssumption ==
  /\ Schedules \subseteq [first: Nat, period: Nat \ {0}]
  /\ SoftParams \subseteq [first: Nat, period: Nat \ {0}]
  /\ Schedules # {}
ASSUME BoundAssumption ==
  /\ MarginBase \in Nat /\ MaxChunk \in Nat /\ MaxGap \in Nat
  /\ MaxAbs \in Nat /\ MaxGen \in Nat
  /\ PartialEos \in {"Drop", "EmitPartial"}

VARIABLES
  free,        \* free_: handles a new window may take
  ready,       \* ready_: completed windows, oldest first
  checkedOut,  \* checked_out_flags_: handles the worker owns
  active,      \* active_: the handle being filled, or kInvalid
  pool,        \* pool_: the slots' meta data and content
  sched, guard,        \* cfg_: (t0, T) and the guards
  next_k, abs_cursor, state, paused, generation,
  stats,       \* scheduled, completed, partial and dropped windows
  chunk,       \* the chunk in progress: position of its next sample, samples left
  stream,      \* position of the next sample the source delivers
  releasing,   \* the handle whose slot the worker has cleared but not yet pushed
  eos,         \* flush_eos has run
  abandoned,   \* history: windows begun and then aborted
  calm,        \* history: nothing has disturbed the current schedule
  grid         \* history: what has become of the generation's grid of slots

poolVars  == <<free, ready, checkedOut, active, pool>>
schedVars == <<sched, guard, next_k, abs_cursor, state, paused, generation>>
history   == <<abandoned, calm, grid>>
vars == <<free, ready, checkedOut, active, pool, sched, guard, next_k,
          abs_cursor, state, paused, generation, stats, chunk, stream,
          releasing, eos, abandoned, calm, grid>>

NoStats  == [scheduled |-> 0, completed |-> 0, partial |-> 0, dropped |-> 0]
EmptySlot == [k |-> 0, start |-> 0, end |-> 0, count |-> 0,
              partial |-> FALSE, gen |-> 0, data |-> <<>>]
Bounds(k) == window_bounds_for_slot(sched, guard, k)

-----------------------------------------------------------------------------
(* The pool.  The free list is a set: its order only decides which slot a  *)
(* window uses, and pushing a handle that is already there is the code's   *)
(* double-free check.                                                      *)

\* The work thread aborts the window being filled: release_to_free(active_).
AbortActive ==
  /\ free' = IF active = kInvalid THEN free ELSE free \cup {active}
  /\ pool' = IF active = kInvalid THEN pool
             ELSE [pool EXCEPT ![active] = EmptySlot]
  /\ active' = kInvalid
  /\ abandoned' = IF active = kInvalid THEN abandoned ELSE abandoned + 1
  /\ UNCHANGED <<ready, checkedOut>>

\* What configure and reset do to the pool: abort, drain the ready ring and
\* rebuild the free list without the handles the worker still holds, whose
\* slots they leave alone.  (Fault...: what a plausible bug would make of the
\* definition that follows it; the specification does not use it.)
FaultRebuildAll == Handle
rebuild_free_excluding_checked_out_locked == Handle \ checkedOut

FaultWipeAll == [h \in Handle |-> EmptySlot]
WipedPool == [h \in Handle |-> IF h \in checkedOut THEN pool[h] ELSE EmptySlot]

RebuildPool ==
  /\ free' = rebuild_free_excluding_checked_out_locked
  /\ ready' = <<>>
  /\ active' = kInvalid
  /\ pool' = WipedPool
  /\ abandoned' = 0
  /\ UNCHANGED checkedOut

Idle == chunk.left = 0 /\ ~eos      \* the work thread is between two chunks
InChunk == chunk.left > 0

WaitOrPaused == IF paused THEN "Paused" ELSE "WaitWindow"

\* History.  The slots of a generation lie on the grid of (t0, T) and guards that
\* its first window was cut on, until a soft update moves it; from the first
\* time an index is looked for on a grid that has moved, or with guards other
\* than those the windows were cut with, it need not be a new one.
GridStates == {"fixed", "moved", "searched"}
Moved    == IF grid = "searched" THEN "searched" ELSE "moved"
Searched == IF grid = "fixed" THEN "fixed" ELSE "searched"

-----------------------------------------------------------------------------
(* Operations of the work thread, between chunks.                          *)

Init ==
  /\ free = Handle /\ ready = <<>> /\ checkedOut = {} /\ active = kInvalid
  /\ pool = [h \in Handle |-> EmptySlot]
  /\ sched \in Schedules /\ guard = InitGuard
  /\ next_k = 0 /\ abs_cursor = 0 /\ state = "Unlocked" /\ paused = FALSE
  /\ generation = 1
  /\ stats = NoStats
  /\ chunk = [pos |-> 0, left |-> 0] /\ stream = 0
  /\ releasing = kInvalid /\ eos = FALSE
  /\ abandoned = 0 /\ calm = TRUE /\ grid = "fixed"

\* set_schedule, after set_abs_cursor when a block re-seeds a running stream.
set_schedule(s) ==
  /\ Idle /\ generation < MaxGen
  /\ sched' = s
  /\ AbortActive
  /\ next_k' = advance_k_to_abs(s, guard, abs_cursor)
  /\ state' = WaitOrPaused
  /\ generation' = generation + 1
  /\ calm' = (abs_cursor <= window_bounds_for_slot(s, guard, next_k').start)
  /\ grid' = "fixed"
  /\ UNCHANGED <<guard, abs_cursor, paused, stats, chunk, stream, releasing, eos>>

\* New guards abort the active window and look for the index of abs_cursor_
\* again.  set_guards opens a new generation, update_guards_keep_generation
\* (lock restored, holdover widening) does not.
ChangeGuards(g) ==
  /\ guard' = g
  /\ IF state = "Unlocked"
       THEN UNCHANGED <<poolVars, next_k, state, abandoned>>
       ELSE /\ AbortActive
            /\ next_k' = advance_k_to_abs(sched, g, abs_cursor)
            /\ state' = WaitOrPaused
  /\ calm' = FALSE
  /\ UNCHANGED <<sched, abs_cursor, paused, stats, chunk, stream, releasing, eos>>

update_guards_keep_generation(g) ==
  /\ Idle /\ g # guard
  /\ ChangeGuards(g)
  /\ grid' = IF state = "Unlocked" THEN grid ELSE "searched"
  /\ UNCHANGED generation

set_guards(g) ==
  /\ Idle /\ g # guard /\ generation < MaxGen
  /\ ChangeGuards(g)
  /\ generation' = IF state = "Unlocked" THEN generation ELSE generation + 1
  /\ grid' = IF state = "Unlocked" THEN grid ELSE "fixed"

\* Soft update of (t0, T): the absolute one when force_t0 asks for it and the
\* next window is still far enough away, else the one that keeps the
\* prediction of next_k_, if that window is far enough away.
FaultIgnoreGuard(s) == predicted_start_sample(s, next_k) >= abs_cursor
SafelyAhead(s) ==
  window_bounds_for_slot(s, guard, next_k).start
    >= abs_cursor + guard.pre \div 8 + MarginBase

Continuous(s) ==
  [first |-> sched.first + next_k * (sched.period - s.period), period |-> s.period]

update_locked_params(s, force_t0) ==
  /\ Idle
  /\ sched' = IF force_t0 /\ SafelyAhead(s) THEN s
              ELSE IF SafelyAhead(Continuous(s)) THEN Continuous(s)
              ELSE sched
  /\ sched' # sched
  /\ grid' = Moved
  /\ UNCHANGED <<poolVars, guard, next_k, abs_cursor, state, paused, generation,
                 stats, chunk, stream, releasing, eos, abandoned, calm>>

pause ==
  /\ Idle /\ ~paused
  /\ paused' = TRUE /\ state' = "Paused"
  /\ AbortActive
  /\ calm' = FALSE
  /\ UNCHANGED <<sched, guard, next_k, abs_cursor, generation, stats, chunk,
                 stream, releasing, eos, grid>>

\* An unlocked core is resumed into its configured schedule.
resume ==
  /\ Idle /\ state \in {"Paused", "Unlocked"}
  /\ paused' = FALSE
  /\ next_k' = advance_k_to_abs(sched, guard, abs_cursor)
  /\ state' = "WaitWindow"
  /\ calm' = FALSE /\ grid' = Searched
  /\ UNCHANGED <<poolVars, sched, guard, abs_cursor, generation, stats, chunk,
                 stream, releasing, eos, abandoned>>

\* The blocks either restart their own sample counter with reset (CF32) or go
\* on counting (the auto-scheduled one).
reset ==
  /\ Idle /\ generation < MaxGen
  /\ RebuildPool
  /\ next_k' = 0 /\ abs_cursor' = 0 /\ state' = "Unlocked" /\ paused' = FALSE
  /\ stats' = NoStats
  /\ generation' = generation + 1
  /\ stream' \in {0, stream}
  /\ calm' = TRUE /\ grid' = "fixed"
  /\ UNCHANGED <<sched, guard, chunk, releasing, eos>>

\* configure, followed by the set_abs_cursor of both callers.
configure(s, g) ==
  /\ Idle /\ generation < MaxGen
  /\ RebuildPool
  /\ sched' = s /\ guard' = g
  /\ next_k' = 0 /\ abs_cursor' = stream /\ state' = "Unlocked" /\ paused' = FALSE
  /\ stats' = NoStats
  /\ generation' = generation + 1
  /\ calm' = TRUE /\ grid' = "fixed"
  /\ UNCHANGED <<chunk, stream, releasing, eos>>

\* The oldest completed window goes to the worker.
FaultTakeNewest ==
  /\ chunk.left = 0 /\ ready # <<>>
  /\ checkedOut' = checkedOut \cup {ready[Len(ready)]}
  /\ ready' = SubSeq(ready, 1, Len(ready) - 1)
  /\ UNCHANGED <<free, active, pool, schedVars, stats, chunk, stream, releasing,
                 eos, history>>
take_window ==
  /\ chunk.left = 0 /\ ready # <<>>
  /\ checkedOut' = checkedOut \cup {Head(ready)}
  /\ ready' = Tail(ready)
  /\ UNCHANGED <<free, active, pool, schedVars, stats, chunk, stream, releasing,
                 eos, history>>

-----------------------------------------------------------------------------
(* process_chunk / process_chunk_sc16, one action per path of the loop.    *)

\* A chunk that does not begin at abs_cursor_ aborts the active window and
\* looks for the next index again, unless it is the first of an unlocked core.
FaultTrustStream(abs_start) ==
  UNCHANGED <<poolVars, next_k, state, abandoned, calm, grid>>
NoteJump(abs_start) ==
  IF abs_start = abs_cursor \/ (abs_cursor = 0 /\ state = "Unlocked")
    THEN UNCHANGED <<poolVars, next_k, state, abandoned, calm, grid>>
    ELSE /\ AbortActive
         /\ IF state \in {"WaitWindow", "CopyWindow"}
              THEN /\ next_k' = advance_k_to_abs(sched, guard, abs_start)
                   /\ state' = "WaitWindow"
                   /\ calm' = FALSE /\ grid' = Searched
              ELSE UNCHANGED <<next_k, state, calm, grid>>

\* Entry of process_chunk: n samples that begin at abs_start.
process_chunk(n, abs_start) ==
  /\ Idle /\ abs_start + n <= MaxAbs
  /\ chunk' = [pos |-> abs_start, left |-> n]
  /\ stream' = abs_start + n
  /\ abs_cursor' = abs_start
  /\ NoteJump(abs_start)
  /\ UNCHANGED <<sched, guard, paused, generation, stats, releasing, eos>>

\* A window given up before it was begun.
FaultOnlyDropped(st) == [st EXCEPT !.dropped = @ + 1]
Missed(st) == [st EXCEPT !.dropped = @ + 1, !.scheduled = @ + 1]

Consume(n) ==
  /\ abs_cursor' = abs_cursor + n
  /\ chunk' = [pos |-> chunk.pos + n, left |-> chunk.left - n]

\* Unlocked or paused: the rest of the chunk is skipped.
SkipChunk ==
  /\ InChunk /\ state \in {"Unlocked", "Paused"}
  /\ Consume(chunk.left)
  /\ UNCHANGED <<poolVars, sched, guard, next_k, state, paused, generation,
                 stats, stream, releasing, eos, history>>

InWait == InChunk /\ state = "WaitWindow"

WindowOpen ==
  abs_cursor >= Bounds(next_k).start /\ abs_cursor < Bounds(next_k).end

\* Before the window of next_k_: skip to its start.  A window that has gone by
\* is counted and given up.
WaitForWindow ==
  /\ InWait /\ ~WindowOpen
  /\ IF abs_cursor >= Bounds(next_k).end
       THEN /\ stats' = Missed(stats)
            /\ next_k' = next_k + 1
            /\ UNCHANGED <<abs_cursor, chunk>>
       ELSE /\ Consume(GeoMin(Bounds(next_k).start - abs_cursor, chunk.left))
            /\ UNCHANGED <<next_k, stats>>
  /\ UNCHANGED <<poolVars, sched, guard, state, paused, generation, stream,
                 releasing, eos, history>>

\* begin_window with a free handle; it may begin after the window's start.
begin_window(h) ==
  /\ InWait /\ WindowOpen /\ h \in free
  /\ free' = free \ {h}
  /\ active' = h
  /\ LET late == abs_cursor > Bounds(next_k).start
     IN /\ pool' = [pool EXCEPT ![h] =
              [k |-> next_k, start |-> abs_cursor, end |-> Bounds(next_k).end,
               count |-> Bounds(next_k).end - abs_cursor, partial |-> late,
               gen |-> generation, data |-> <<>>]]
        /\ stats' = [stats EXCEPT !.scheduled = @ + 1,
                                  !.partial = IF late THEN @ + 1 ELSE @]
  /\ state' = "CopyWindow"
  /\ UNCHANGED <<ready, checkedOut, sched, guard, next_k, abs_cursor, paused,
                 generation, chunk, stream, releasing, eos, history>>

\* begin_window found the free list empty: skip, and at the window's end
\* count it as dropped.
StarveWindow ==
  /\ InWait /\ WindowOpen /\ free = {}
  /\ LET take == GeoMin(Bounds(next_k).end - abs_cursor, chunk.left)
         over == abs_cursor + take >= Bounds(next_k).end
     IN /\ Consume(take)
        /\ next_k' = IF over THEN next_k + 1 ELSE next_k
        /\ stats' = IF over THEN Missed(stats) ELSE stats
  /\ calm' = FALSE
  /\ UNCHANGED <<poolVars, sched, guard, state, paused, generation, stream,
                 releasing, eos, abandoned, grid>>

\* finish_active_window for the slot content w.  A full ready ring drops it.
Finish(w, partial) ==
  LET whole == [w EXCEPT !.partial = @ \/ partial, !.count = Len(w.data)]
  IN /\ active' = kInvalid
     /\ next_k' = next_k + 1
     /\ state' = WaitOrPaused
     /\ IF Len(ready) < kMaxPoolSize
          THEN /\ pool' = [pool EXCEPT ![active] = whole]
               /\ ready' = Append(ready, active)
               /\ stats' = [stats EXCEPT !.completed = @ + 1]
               /\ UNCHANGED free
          ELSE /\ pool' = [pool EXCEPT ![active] = EmptySlot]
               /\ free' = free \cup {active}
               /\ stats' = [stats EXCEPT !.dropped = @ + 1]
               /\ UNCHANGED ready
     /\ UNCHANGED checkedOut

\* Copy what the chunk holds of the active window, and finish it at its end.
CopyWindow ==
  /\ InChunk /\ state = "CopyWindow"
  /\ LET slot == pool[active]
         take == GeoMin(GeoMin(GeoMax(slot.end - abs_cursor, 0),
                               GeoMax(slot.count - Len(slot.data), 0)),
                        chunk.left)
         w    == [slot EXCEPT !.data = @ \o [i \in 1..take |-> chunk.pos + i - 1]]
     IN /\ Consume(take)
        /\ IF Len(w.data) >= slot.count \/ abs_cursor + take >= slot.end
             THEN Finish(w, Len(w.data) < slot.count)
             ELSE /\ pool' = [pool EXCEPT ![active] = w]
                  /\ UNCHANGED <<free, ready, checkedOut, active, next_k, state, stats>>
  /\ UNCHANGED <<sched, guard, paused, generation, stream, releasing, eos, history>>

\* flush_eos, called by the blocks' stop().
flush_eos ==
  /\ Idle
  /\ eos' = TRUE
  /\ IF active = kInvalid
       THEN UNCHANGED <<poolVars, next_k, state, stats>>
       ELSE IF Len(pool[active].data) < pool[active].count /\ PartialEos = "Drop"
       THEN /\ stats' = [stats EXCEPT !.partial = @ + 1, !.dropped = @ + 1]
            /\ free' = free \cup {active}
            /\ pool' = [pool EXCEPT ![active] = EmptySlot]
            /\ active' = kInvalid
            /\ state' = "WaitWindow"
            /\ UNCHANGED <<ready, checkedOut, next_k>>
       ELSE Finish(pool[active], Len(pool[active].data) < pool[active].count)
  /\ calm' = FALSE
  /\ UNCHANGED <<sched, guard, abs_cursor, paused, generation, chunk, stream,
                 releasing, abandoned, grid>>

-----------------------------------------------------------------------------
(* The worker: release_window of a handle it has published, in two steps.  *)

ClearSlot(h) ==
  /\ releasing = kInvalid /\ h \in checkedOut
  /\ releasing' = h
  /\ pool' = [pool EXCEPT ![h] = EmptySlot]
  /\ UNCHANGED <<free, ready, checkedOut, active, schedVars, stats, chunk,
                 stream, eos, history>>

PushFree ==
  /\ releasing # kInvalid
  /\ checkedOut' = checkedOut \ {releasing}
  /\ free' = free \cup {releasing}
  /\ releasing' = kInvalid
  /\ UNCHANGED <<ready, active, pool, schedVars, stats, chunk, stream, eos, history>>

-----------------------------------------------------------------------------
Loop ==
  \/ SkipChunk \/ WaitForWindow \/ StarveWindow \/ CopyWindow
  \/ \E h \in Handle : begin_window(h)

Stream == \E n \in 1..MaxChunk, gap \in 0..MaxGap : process_chunk(n, stream + gap)

Control ==
  \/ \E s \in Schedules : set_schedule(s)
  \/ \E g \in Guards : update_guards_keep_generation(g)
  \/ \E g \in Guards : set_guards(g)
  \/ \E s \in SoftParams, force_t0 \in BOOLEAN : update_locked_params(s, force_t0)
  \/ pause
  \/ resume
  \/ reset
  \/ \E s \in Schedules, g \in Guards : configure(s, g)
  \/ flush_eos

Worker == PushFree \/ \E h \in Handle : ClearSlot(h)

Next == Stream \/ Loop \/ Control \/ take_window \/ Worker

Spec == Init /\ [][Next]_vars

-----------------------------------------------------------------------------
(* Properties.                                                             *)

Slot == [k: Nat, start: Int, end: Int, count: Int, partial: BOOLEAN,
         gen: Nat, data: Seq(Int)]

\* The type of every variable of the core (fields 971-998 of the header).
PoolType ==
  /\ free \subseteq Handle /\ checkedOut \subseteq Handle
  /\ ready \in Seq(Handle)
  /\ active \in Handle \cup {kInvalid} /\ releasing \in checkedOut \cup {kInvalid}

ScheduleType ==
  /\ sched \in [first: Int, period: Nat \ {0}] /\ guard \in Guards
  /\ next_k \in Nat /\ abs_cursor \in Nat /\ generation \in Nat
  /\ state \in {"Unlocked", "WaitWindow", "CopyWindow", "Paused"}
  /\ paused \in BOOLEAN /\ eos \in BOOLEAN
  /\ chunk \in [pos: Nat, left: Nat] /\ stream \in Nat

TypeOK ==
  /\ PoolType /\ ScheduleType
  /\ pool \in [Handle -> Slot]
  /\ stats \in [scheduled: Nat, completed: Nat, partial: Nat, dropped: Nat]
  /\ abandoned \in Nat /\ calm \in BOOLEAN /\ grid \in GridStates

\* Every slot has exactly one owner: the free list, the window being filled,
\* the ready ring or the worker.  No slot leaks, and none is handed out twice,
\* although the worker gives slots back while the work thread takes them
\* (release_to_free against begin_window, and configure and reset with
\* handles still checked out).
HandleOwnership ==
  /\ Handle = free \cup checkedOut \cup Range(ready) \cup ({active} \ {kInvalid})
  /\ free \cap checkedOut = {}
  /\ Range(ready) \cap (free \cup checkedOut) = {}
  /\ active \notin free \cup checkedOut \cup Range(ready)
  /\ \A i, j \in DOMAIN ready : i # j => ready[i] # ready[j]

\* process_chunk indexes the pool with active_ exactly in CopyWindow, so no
\* operation may abort the active window and leave that state, or leave it
\* with a window in hand: pool_[kInvalid] is out of bounds.
CopyHasActive == (state = "CopyWindow") <=> (active # kInvalid)

\* The windows the core has completed and still holds.
Delivered == Range(ready) \cup (checkedOut \ {releasing})

\* A completed window holds the consecutive samples of the stream that begin
\* at its window_start_sample, as many as its sample_count says, and is short
\* only if it is marked partial: no chunk boundary, jump of the stream, pause
\* or change of schedule may leave a hole in it.
WindowContent ==
  \A h \in Delivered :
    LET w == pool[h]
    IN /\ w.count = Len(w.data)
       /\ \A i \in DOMAIN w.data : w.data[i] = w.start + i - 1
       /\ w.start + w.count <= w.end
       /\ w.start + w.count < w.end => w.partial

\* Two completed windows of one generation share no sample: the later one
\* begins where the earlier has ended, or after.
Before(a, b) == a.gen = b.gen => a.start + a.count <= b.start

\* The windows the worker holds come before all those on the ready ring, which
\* are in the order in which they were completed.
WindowsDisjoint ==
  \A j \in DOMAIN ready :
    /\ \A i \in 1..j - 1 : Before(pool[ready[i]], pool[ready[j]])
    /\ \A h \in checkedOut \ {releasing} : Before(pool[h], pool[ready[j]])

\* The windows of the present generation, in pairs whose order is fixed: by the
\* ready ring, or because the worker has one of them already.
IndicesGrow(a, b) == a.gen = generation /\ b.gen = generation => a.k < b.k

\* "The invariant is that every emitted slot remains on the same t0/T grid and is
\* strictly ordered" (qa_uwb_auto_scheduled_extractor_sc16.cc:1102): no slot of a
\* generation is cut twice, whatever has happened to the guards or to (t0, T).
SlotsStrictlyOrdered ==
  \A j \in DOMAIN ready :
    /\ \A i \in 1..j - 1 : IndicesGrow(pool[ready[i]], pool[ready[j]])
    /\ \A h \in checkedOut \ {releasing} : IndicesGrow(pool[h], pool[ready[j]])

\* Windows leave in the order of the stream and share no sample, whatever becomes
\* of the schedule.  And each has a greater index than those before it: no jump
\* of the stream, no pause and no change of guards that opens a generation may
\* make the search for an index (advance_k_to_abs) come back to a slot that has
\* been cut, as long as that search has the grid those slots were cut on.
WindowsInOrder ==
  /\ WindowsDisjoint
  /\ grid # "searched" => SlotsStrictlyOrdered

\* While nothing but the stream itself has moved the schedule since it was
\* set, every window of the generation is whole: neither the rounding of a
\* fractional period nor a soft update of (t0, T) makes the core late.
CalmWindowsWhole ==
  calm => /\ \A h \in Delivered : pool[h].gen = generation => ~pool[h].partial
          /\ state = "CopyWindow" => ~pool[active].partial

\* Each window the core has counted as scheduled is completed, dropped, being
\* filled, or was aborted: no path of process_chunk counts one twice or
\* forgets it.
WindowsAccounted ==
  stats.scheduled = stats.completed + stats.dropped + abandoned
                      + (IF active = kInvalid THEN 0 ELSE 1)

\* The worker reads a checked-out slot without a lock: until the worker itself
\* clears it nothing may change it, configure and reset included.
WorkerSlotStable ==
  [][\A h \in checkedOut : pool'[h] # pool[h] => releasing' = h /\ releasing = kInvalid]_vars

=============================================================================
