------------------------ MODULE UwbRationalResampler ------------------------
(***************************************************************************)
(* The stream block around the resampler core: forecast, general_work with *)
(* the flush of the filter's tail at the end of the stream, tags, and the  *)
(* reset at a tagged discontinuity.                                        *)
(*                                                                         *)
(* External, from how the block uses it: the scheduler takes one snapshot  *)
(* of the input buffer and of the upstream's done flag, asks forecast, and *)
(* calls general_work; both functions read the done flag again.            *)
(***************************************************************************)
EXTENDS RationalResampler

CONSTANTS
    Total,          \* samples the upstream block will write
    OutputGrants,   \* lengths of the output buffer
    TagSets,        \* sets of positions that carry a discontinuity tag
    MaxResets       \* calls of reset()

ASSUME BlockAssumption == /\ Total \in Nat
                          /\ OutputGrants \subseteq Nat
                          /\ TagSets \subseteq SUBSET Nat

VARIABLES
    written,        \* samples upstream has written
    upstreamDone,   \* reader->done()
    phase,          \* where the block's thread is
    grant,          \* [ninput, done, noutput] of the call
    nread, nwritten,    \* nitems_read(0), nitems_written(0)
    absIn, absOut,      \* d_abs_in_, d_abs_out_
    flushing,       \* d_flushing_
    finished,       \* d_finished_
    tagged,         \* positions of the discontinuity tags (constant)
    marks,          \* output offset of each tag that has been passed on
    resets          \* calls of reset() so far

upstreamVars == <<written, upstreamDone, tagged>>
positionVars == <<nread, nwritten, absIn, absOut, marks>>
flagVars == <<flushing, finished>>
blockVars == <<upstreamVars, phase, grant, positionVars, flagVars, resets>>
vars == <<resamplerVars, blockVars>>

Init ==
    /\ ResamplerInit
    /\ written = 0 /\ upstreamDone = FALSE /\ tagged \in TagSets
    /\ phase = "idle"
    /\ grant = [ninput |-> 0, done |-> FALSE, noutput |-> 0]
    /\ nread = 0 /\ nwritten = 0 /\ absIn = 0 /\ absOut = 0
    /\ flushing = FALSE /\ finished = FALSE
    /\ marks = [p \in {} |-> 0]
    /\ resets = 0

---------------------------------------------------------------------------
(* Upstream, and the scheduler *)

Write ==
    /\ \E n \in 1 .. Total - written : written' = written + n
    /\ UNCHANGED <<resamplerVars, upstreamDone, tagged, phase, grant,
                   positionVars, flagVars, resets>>

Finish ==
    /\ ~upstreamDone /\ written = Total
    /\ upstreamDone' = TRUE
    /\ UNCHANGED <<resamplerVars, written, tagged, phase, grant,
                   positionVars, flagVars, resets>>

Snapshot ==
    /\ phase = "idle" /\ main = "free"
    /\ \E n \in OutputGrants :
          grant' = [ninput |-> written - nread, done |-> upstreamDone, noutput |-> n]
    /\ phase' = "granted"
    /\ UNCHANGED <<resamplerVars, upstreamVars, positionVars, flagVars, resets>>

Forecast(noutput) ==
    IF flushing \/ finished THEN 0
    ELSE IF upstreamDone THEN 1
    ELSE ((noutput + L - 1) \div L) * M

\* Too little input ends the block if the snapshot says that there will be no more.
Ask ==
    /\ phase = "granted"
    /\ phase' = IF grant.ninput >= Forecast(grant.noutput) THEN "called"
                ELSE IF grant.done THEN "ended" ELSE "idle"
    /\ UNCHANGED <<resamplerVars, upstreamVars, grant, positionVars, flagVars, resets>>

---------------------------------------------------------------------------
(* general_work *)

WorkDone ==
    /\ phase = "called" /\ finished
    /\ phase' = "ended"
    /\ UNCHANGED <<resamplerVars, upstreamVars, grant, positionVars, flagVars, resets>>

\* No input: the whole call is a flush.
WorkFlush ==
    /\ phase = "called" /\ ~finished /\ grant.ninput = 0
    /\ Flush(grant.noutput)
    /\ flushing' = TRUE
    /\ phase' = "flush"
    /\ UNCHANGED <<upstreamVars, grant, positionVars, finished, resets>>

\* A flush that gives nothing is the end.
WorkFlushed ==
    /\ phase = "flush" /\ loop = "idle"
    /\ absOut' = absOut + Len(out)
    /\ nwritten' = nwritten + Len(out)
    /\ finished' = (out = <<>>)
    /\ phase' = IF out = <<>> THEN "ended" ELSE "idle"
    /\ UNCHANGED <<resamplerVars, upstreamVars, grant, nread, absIn, marks, flushing, resets>>

WorkProcess ==
    /\ phase = "called" /\ ~finished /\ grant.ninput > 0
    /\ grant' = [grant EXCEPT !.done = upstreamDone]    \* reader->done() again
    /\ Process(grant.ninput, grant.noutput)
    /\ phase' = "process"
    /\ UNCHANGED <<upstreamVars, positionVars, flagVars, resets>>

\* process() after flush() throws; the block's thread ends.
WorkThrows ==
    /\ phase = "called" /\ ~finished /\ grant.ninput > 0 /\ flushMode
    /\ phase' = "threw"
    /\ UNCHANGED <<resamplerVars, upstreamVars, grant, positionVars, flagVars, resets>>

Consumed == origin + taken - nread

\* (Fault...: what a plausible bug would make of the definition that follows;
\* the specification does not use it.)  Counted from reset(), not from the start.
FaultMarkOf(p) ==
    absOut + MinOf(MapOffset(absIn + (p - nread)) - absOut, Len(out) - 1)

\* propagate_tags: a tag goes to the output MapOffset says, or to the nearest
\* output of this call, if it made any; a discontinuity resets the core.
TagsIn == {p \in tagged : nread <= p /\ p < nread + Consumed}
MarkOf(p) ==
    LET local == MapOffset(absIn + (p - nread)) - absOut
    IN  nwritten + (IF local < 0 THEN 0 ELSE MinOf(local, Len(out) - 1))

PropagateTags ==
    IF TagsIn = {} THEN UNCHANGED <<coreVars, flagVars, marks>>
    ELSE /\ marks' = IF out = <<>> THEN marks
                     ELSE [p \in DOMAIN marks \union TagsIn |->
                              IF p \in TagsIn THEN MarkOf(p) ELSE marks[p]]
         /\ ResetCore
         /\ flushing' = FALSE /\ finished' = FALSE

\* The tail follows in the same call if upstream is done, all its input is
\* consumed and the output is not full.
WorkProcessed ==
    /\ phase = "process" /\ loop = "idle"
    /\ PropagateTags
    /\ nread' = nread + Consumed
    /\ absIn' = absIn + Consumed
    /\ absOut' = absOut + Len(out)
    /\ nwritten' = nwritten + Len(out)
    /\ out' = <<>>
    /\ phase' = IF grant.done /\ Consumed = grant.ninput /\ room > 0
                  THEN "tail" ELSE "idle"
    /\ UNCHANGED <<loop, work, post, fresh, room, batch, poolVars,
                   upstreamVars, grant, resets>>

WorkTail ==
    /\ phase = "tail"
    /\ Flush(room)
    /\ flushing' = TRUE
    /\ phase' = "tailing"
    /\ UNCHANGED <<upstreamVars, grant, positionVars, finished, resets>>

WorkTailed ==
    /\ phase = "tailing" /\ loop = "idle"
    /\ absOut' = absOut + Len(out)
    /\ nwritten' = nwritten + Len(out)
    /\ finished' = FlushComplete
    /\ phase' = "idle"
    /\ UNCHANGED <<resamplerVars, upstreamVars, grant, nread, absIn, marks, flushing, resets>>

\* reset(), called between two calls of general_work
BlockReset ==
    /\ phase = "idle" /\ resets < MaxResets
    /\ Reset
    /\ flushing' = FALSE /\ finished' = FALSE
    /\ absIn' = 0 /\ absOut' = 0
    /\ resets' = resets + 1
    /\ UNCHANGED <<upstreamVars, phase, grant, nread, nwritten, marks>>

Work == \/ WorkDone \/ WorkFlush \/ WorkFlushed \/ WorkProcess \/ WorkThrows
        \/ WorkProcessed \/ WorkTail \/ WorkTailed

BlockNext ==
    \/ Write \/ Finish \/ Snapshot \/ Ask \/ Work \/ BlockReset
    \/ /\ CallStep \/ PoolStep
       /\ UNCHANGED blockVars
    \/ /\ phase = "idle" /\ Resize
       /\ UNCHANGED blockVars

BlockSpec == Init /\ [][BlockNext]_vars

---------------------------------------------------------------------------
(* Tags keep their order on the output, over any number of calls and resets:
   the positions the law gives before and after a reset do not agree, and
   each call may clamp. *)
TagsInOrder ==
    \A p, q \in DOMAIN marks : p <= q => marks[p] <= marks[q]
=============================================================================
