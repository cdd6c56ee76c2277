------------------------- MODULE RationalResampler -------------------------
(***************************************************************************)
(* The fixed-rate polyphase resampler core: L outputs for every M inputs.  *)
(*                                                                         *)
(* An input sample is its position in the stream, so that a sample that is *)
(* lost, repeated or shifted is visible; Zero is padding.  An output is    *)
(* what it is computed from: the arm of the filter and the window of H     *)
(* samples, oldest first (filter_window, all FIR kernels alike).           *)
(*                                                                         *)
(* process() and flush() are loops; each turn is an action, and so is each *)
(* step of the worker pool that computes the outputs of run_mt.            *)
(***************************************************************************)
EXTENDS ResamplerPool, ResamplerGeometry, Sequences

CONSTANTS
    MtLeast,        \* run_mt from so many outputs and inputs on (64)
    PoolLeast,      \* fir_parallel uses the pool from so many on (1024)
    Scratch,        \* outputs scheduled at a time (1 << 20)
    Zero

ASSUME ScratchAssumption == Scratch \in Nat \ {0} /\ Zero \notin Nat

VARIABLES
    hist,           \* hist_
    held,           \* have_current_
    current,        \* current_
    ctr,            \* ctr_
    taken,          \* input_items_
    made,           \* output_items_
    flushMode,      \* flush_mode_
    origin,         \* stream position of the first sample since reset()
    loop,           \* where process() or flush() is; "idle" between calls
    work,           \* work_: history, held sample and input of the call
    post,           \* post_i
    fresh,          \* [held, ninput] at the call
    room,           \* max_out - produced
    batch,          \* sched_arm_buf_, sched_win_buf_ of run_mt
    out             \* outputs of the call so far

coreVars == <<hist, held, current, ctr, taken, made, flushMode, origin>>
callVars == <<loop, work, post, fresh, room, batch, out>>
resamplerVars == <<coreVars, callVars, poolVars>>

Silence == [j \in 1 .. Past |-> Zero]

ResamplerInit ==
    /\ PoolInit
    /\ hist = Silence /\ held = FALSE /\ current = Zero
    /\ ctr = 0 /\ taken = 0 /\ made = 0 /\ flushMode = FALSE
    /\ origin = 0
    /\ loop = "idle" /\ work = <<>> /\ post = 0
    /\ fresh = [held |-> FALSE, ninput |-> 0]
    /\ room = 0 /\ batch = <<>> /\ out = <<>>

Posts == Len(work) - Past       \* post_n

\* The window that ends at post p of the work buffer
Window(p) == [q \in 1 .. H |-> work[p + q]]
Filtered(arm, win) == [arm |-> arm, window |-> win]

---------------------------------------------------------------------------
(* process(in, ninput, out, max_out): the input is the ninput samples after
   the ones already consumed. *)

Loops(n, space) ==
    {"each", "block"} \union
    IF Workers > 1 /\ space >= MtLeast /\ n + (IF held THEN 1 ELSE 0) >= MtLeast
      THEN {"schedule"} ELSE {}

Process(n, space) ==
    /\ loop = "idle" /\ main = "free"
    /\ ~flushMode                                   \* else it throws
    /\ n > 0 \/ held
    /\ space > 0
    /\ LET lead == Past + (IF held THEN 1 ELSE 0)
       IN  work' = [j \in 1 .. lead + n |->
                       IF j <= Past THEN hist[j]
                       ELSE IF j <= lead THEN current
                       ELSE origin + taken + (j - lead - 1)]
    /\ fresh' = [held |-> held, ninput |-> n]
    /\ held' = TRUE
    /\ current' = work'[Past + 1]
    /\ post' = 0
    /\ room' = space
    /\ out' = <<>> /\ batch' = <<>>
    /\ loop' \in Loops(n, space)                    \* set_kernel
    /\ UNCHANGED <<hist, ctr, taken, made, flushMode, origin, poolVars>>

\* ctr_ += kDecim; while (ctr_ >= kInterp) ...: one input further if it wraps
Wraps == ctr + M >= L
Advance ==
    /\ ctr' = IF Wraps THEN ctr + M - L ELSE ctr + M
    /\ post' = IF Wraps THEN post + 1 ELSE post
Exhausted == Wraps /\ post + 1 >= Posts

\* All input has been used: nothing is held over.
ReturnExhausted(total) ==
    /\ hist' = [j \in 1 .. Past |-> work[Len(work) - Past + j]]
    /\ held' = FALSE
    /\ taken' = taken + fresh.ninput
    /\ made' = total
    /\ loop' = "idle"
    /\ UNCHANGED current

\* (Fault...: what a plausible bug would make of the definition that follows;
\* the specification does not use it.)  The held sample is counted again.
FaultReturnFull ==
    /\ hist' = [j \in 1 .. Past |-> work[post + j]]
    /\ held' = TRUE
    /\ current' = work[Past + post + 1]
    /\ taken' = taken + post + 1
    /\ loop' = "idle"

\* The output is full: the sample at post_i is held for the next call, and
\* counts as consumed (consumed_from_posts) unless it was held before.
ReturnFull ==
    /\ hist' = [j \in 1 .. Past |-> work[post + j]]
    /\ held' = TRUE
    /\ current' = work[Past + post + 1]
    /\ taken' = taken + (IF fresh.held THEN post ELSE post + 1)
    /\ loop' = "idle"

\* run_legacy, and the remainder of run_macroblock: one output
OneOutput ==
    /\ loop = "each"
    /\ room > 0
    /\ out' = Append(out, Filtered(ctr, Window(post)))
    /\ room' = room - 1
    /\ Advance
    /\ IF Exhausted
         THEN ReturnExhausted(made + 1)
         ELSE /\ made' = made + 1
              /\ UNCHANGED <<hist, held, current, taken, loop>>
    /\ UNCHANGED <<flushMode, origin, work, fresh, batch, poolVars>>

OutputFull ==
    /\ loop = "each"
    /\ room = 0
    /\ ReturnFull
    /\ UNCHANGED <<ctr, made, flushMode, origin, work, post, fresh, room, batch, out, poolVars>>

\* run_macroblock: L outputs from the schedule of the present phase
ScheduleArm(p, o) == (p + o * M) % L
ScheduleAdvance(p, o) == (p + o * M) \div L

MacroBlock ==
    /\ loop = "block"
    /\ IF room >= L /\ post + M < Posts
         THEN /\ out' = out \o [o \in 1 .. L |->
                            Filtered(ScheduleArm(ctr, o - 1),
                                     Window(post + ScheduleAdvance(ctr, o - 1)))]
              /\ made' = made + L
              /\ room' = room - L
              /\ post' = post + M
              /\ UNCHANGED loop
         ELSE /\ loop' = "each"
              /\ UNCHANGED <<out, made, room, post>>
    /\ UNCHANGED <<hist, held, current, ctr, taken, flushMode, origin,
                   work, fresh, batch, poolVars>>

---------------------------------------------------------------------------
(* run_mt: outputs are scheduled serially, Scratch at a time, and computed
   by the pool (or by the caller if they are few). *)

Schedule ==
    /\ loop = "schedule"
    /\ Len(batch) < Scratch
    /\ room - Len(batch) > 0
    /\ batch' = Append(batch, [arm |-> ctr, post |-> post])
    /\ Advance
    /\ loop' = IF Exhausted THEN "last" ELSE "schedule"
    /\ UNCHANGED <<hist, held, current, taken, made, flushMode, origin,
                   work, fresh, room, out, poolVars>>

Computed == [i \in 1 .. Len(batch) |-> Filtered(batch[i].arm, Window(batch[i].post))]

BatchReady == \/ loop = "last"
              \/ loop = "schedule" /\ Len(batch) = MinOf(Scratch, room)

\* The batch has been computed: on with the next one, or return.
Collect(results) ==
    /\ out' = out \o results
    /\ room' = room - Len(batch)
    /\ batch' = <<>>
    /\ IF loop = "last" THEN ReturnExhausted(made + Len(batch))
       ELSE /\ made' = made + Len(batch)
            /\ IF room' = 0 THEN ReturnFull
               ELSE UNCHANGED <<hist, held, current, taken, loop>>
    /\ UNCHANGED <<ctr, flushMode, origin, work, post, fresh>>

ComputeAlone ==
    /\ BatchReady /\ main = "free" /\ Len(batch) < PoolLeast
    /\ Collect(Computed)
    /\ UNCHANGED poolVars

HandOut ==
    /\ BatchReady /\ Len(batch) >= PoolLeast
    /\ Post(Len(batch))
    /\ UNCHANGED <<coreVars, callVars>>

\* An item no worker has computed is whatever the buffer held before.
TakeBack ==
    /\ Return
    /\ Collect([i \in 1 .. Len(batch) |->
                   IF runs[i] = 1 THEN Computed[i] ELSE Filtered(Zero, <<>>)])

---------------------------------------------------------------------------
(* flush(out, max_out): zeros follow the last sample *)

Flush(space) ==
    /\ loop = "idle" /\ main = "free"
    /\ flushMode' = TRUE
    /\ room' = space
    /\ out' = <<>>
    /\ loop' = "flush"
    /\ UNCHANGED <<hist, held, current, ctr, taken, made, origin,
                   work, post, fresh, batch, poolVars>>

FlushOne ==
    /\ loop = "flush"
    /\ room > 0 /\ made < Length(taken)
    /\ LET now == IF held THEN current ELSE Zero
           next == [j \in 1 .. H |-> IF j <= Past THEN hist[j] ELSE now]
       IN  /\ out' = Append(out, Filtered(ctr, next))
           /\ IF Wraps
                THEN /\ hist' = [j \in 1 .. Past |-> next[j + 1]]
                     /\ current' = Zero
                ELSE /\ current' = now
                     /\ UNCHANGED hist
    /\ held' = TRUE
    /\ ctr' = IF Wraps THEN ctr + M - L ELSE ctr + M
    /\ made' = made + 1
    /\ room' = room - 1
    /\ UNCHANGED <<taken, flushMode, origin, loop, work, post, fresh, batch, poolVars>>

FlushEnd ==
    /\ loop = "flush"
    /\ room = 0 \/ made >= Length(taken)
    /\ loop' = "idle"
    /\ UNCHANGED <<coreVars, work, post, fresh, room, batch, out, poolVars>>

FlushComplete == flushMode /\ made >= Length(taken)

---------------------------------------------------------------------------
\* reset(), whose next sample is the one after those consumed
ResetCore ==
    /\ hist' = Silence /\ held' = FALSE /\ current' = Zero
    /\ ctr' = 0 /\ taken' = 0 /\ made' = 0 /\ flushMode' = FALSE
    /\ origin' = origin + taken

Reset ==
    /\ loop = "idle" /\ main = "free"
    /\ ResetCore
    /\ out' = <<>>
    /\ UNCHANGED <<loop, work, post, fresh, room, batch, poolVars>>

\* The steps of a call that is under way, and of the workers.
CallStep == \/ OneOutput \/ OutputFull \/ MacroBlock
            \/ Schedule \/ ComputeAlone \/ HandOut \/ TakeBack
            \/ FlushOne \/ FlushEnd

PoolStep == /\ Main \/ SpuriousWake \/ \E w \in Worker : WorkerStep(w)
            /\ UNCHANGED <<coreVars, callVars>>

\* set_num_workers between calls: the pool is taken down and started again
Resize == /\ loop = "idle"
          /\ StopPool \/ RestartPool
          /\ UNCHANGED <<coreVars, callVars>>

Next ==
    \/ \E n \in Nat, space \in Nat : Process(n, space)
    \/ \E space \in Nat : Flush(space)
    \/ Reset \/ CallStep \/ PoolStep \/ Resize

Spec == ResamplerInit /\ [][Next]_resamplerVars

---------------------------------------------------------------------------
(* The definition (upfirdn): output m of the samples since the last reset,
   of which there are n, with zeros before and after them. *)
SampleAt(j, n) == IF j \in 0 .. n - 1 THEN origin + j ELSE Zero
Upfirdn(m, n) ==
    Filtered((m * M) % L, [q \in 1 .. H |-> SampleAt((m * M) \div L - H + q, n)])

(* However the stream is cut into calls, whichever loop and however many
   workers compute them, and into however many portions the flush is cut,
   the outputs are those of the definition, in order and without a gap;
   process() never runs ahead of its length and flush() ends at it. *)
OutputsAreUpfirdn ==
    loop = "idle" =>
        /\ \A i \in 1 .. Len(out) :
              out[i] = Upfirdn(made - Len(out) + i - 1, taken)
        /\ made <= Length(taken)
        /\ flushMode /\ room > 0 => made = Length(taken)
=============================================================================
