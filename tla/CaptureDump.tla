----------------------------- MODULE CaptureDump -----------------------------
(***************************************************************************)
(* A capture as apps/x410_auto_scheduled_capture.py builds it: the packets *)
(* of an extractor go to a writer, and through the crop and the resampler  *)
(* to a demodulator; a tap keeps their dictionaries.  The extractor here is*)
(* the fixed-slot one, whose packets are of the automatic one's kind: no   *)
(* application has just this graph.  The flowgraph ends with its stream or *)
(* is stopped, or the process dies; then the dump is post-processed.       *)
(*                                                                         *)
(* Each block has a thread.  A block whose handler is given messages ends  *)
(* when everything before it has ended and its queue is empty; on a stop   *)
(* it ends wherever it is, and what is in its queue is lost.               *)
(***************************************************************************)
EXTENDS FixedExtractor, PacketWriter, DumpPostprocess

CONSTANTS
  Foreign,      \* packets that another publisher adds: an acquisition's
                \* capture, a message that is none
  MaxForeign,   \* bound: how many of them
  ForeignAt,    \* bound: how far the stream is then
  StopsAt,      \* bound: how far it may be when the flowgraph is stopped
  MayDie        \* whether the process may die

ASSUME CaptureAssumption == MaxForeign \in Nat /\ MayDie \in BOOLEAN

\* The connections of the live flowgraph when it writes a dump
ASSUME WiresAssumption ==
  Wires = [extractor |-> {"writer", "crop", "tap"}, crop |-> {"resampler"},
           resampler |-> {"demod"}]

\* The other publisher, a detector or an acquisition tracker, labels its packets
\* with the position of their first sample, and they are of no schedule.
ASSUME ForeignAssumption ==
  \A p \in Foreign :
    /\ DOMAIN p = {"format", "odd", "iq", "meta"} /\ p.iq \in Seq(Int)
    /\ "schedule_index" \notin DOMAIN p.meta
    /\ p.format # "none" =>
         /\ "window_start_sample" \in DOMAIN p.meta
         /\ p.meta.window_start_sample \in Nat
         /\ p.iq = [i \in 1..Len(p.iq) |-> p.meta.window_start_sample + i - 1]
         /\ Get(p.meta, "predicted_start_sample", -1) \in Int
         /\ Get(p.meta, "start_sample", 0) \in Nat
         /\ Get(p.meta, "pre_guard_samples", 0) \in Nat
         /\ Get(p.meta, "capture_samples", 0) \in Nat

VARIABLES
  phase,        \* "live", "files" when the process is gone
  ended,        \* blocks whose threads no longer take messages
  stopping,     \* tb.stop()
  foreign,      \* the foreign packets so far
  died

flowVars == <<phase, ended, stopping, foreign, died>>
liveVars == <<extVars, writerVars, crops, resampled, policy, inbox>>
vars == <<liveVars, flowVars, disk, toolVars>>

Receivers == {"writer", "crop", "resampler", "demod", "tap"}
Before == [writer |-> "extractor", crop |-> "extractor", resampler |-> "crop"]

NoFiles == [iq |-> <<>>, lines |-> <<>>, results |-> <<>>]

Init ==
  /\ ExtractorInit /\ WriterInit /\ CropInit /\ ResamplerInit /\ ToolInit
  /\ inbox = [b \in Receivers |-> <<>>]
  /\ phase = "live" /\ ended = {} /\ stopping = FALSE /\ foreign = 0
  /\ died = FALSE
  /\ disk = NoFiles

Live == phase = "live"
OutsideExtractor == <<writerVars, crops, resampled, policy, flowVars, disk, toolVars>>
OutsideWriter == <<extVars, crops, resampled, policy, flowVars, disk, toolVars>>

---------------------------------------------------------------------------
(* The flowgraph.                                                          *)

Extractor ==
  /\ Live /\ (ExtractorThread \/ ExtractorWorker)
  /\ UNCHANGED OutsideExtractor

\* "done" is passed on before stop() runs.
ExtractorEnds ==
  /\ Live /\ stop(stopping \/ sample = StreamLength)
  /\ ended' = ended \cup {"extractor"}
  /\ UNCHANGED <<writerVars, crops, resampled, policy, phase, stopping, foreign, died, disk, toolVars>>

OtherPublisher ==
  /\ Live /\ foreign < MaxForeign /\ sample \in ForeignAt /\ call.at = "idle"
  /\ \E p \in Foreign : inbox' = Published(inbox, "extractor", p)
  /\ foreign' = foreign + 1
  /\ UNCHANGED <<extVars, writerVars, crops, resampled, policy, phase, ended,
                 stopping, died, disk, toolVars>>

Crop ==
  /\ Live /\ "crop" \notin ended /\ crop_handle_packet
  /\ UNCHANGED <<extVars, writerVars, resampled, policy, flowVars, disk, toolVars>>

Resampler ==
  /\ Live /\ "resampler" \notin ended /\ resampler_handle_packet
  /\ UNCHANGED <<extVars, writerVars, crops, flowVars, disk, toolVars>>

WriterHandler ==
  /\ Live /\ "writer" \notin ended /\ writer_handle_packet
  /\ UNCHANGED OutsideWriter

Writer ==
  /\ Live /\ WriterThread
  /\ UNCHANGED OutsideWriter

BlockEnds(b) ==
  /\ Live /\ b \notin ended
  /\ stopping \/ (inbox[b] = <<>> /\ Before[b] \in ended)
  /\ ended' = ended \cup {b}
  /\ IF b = "writer" THEN writer_stop ELSE UNCHANGED <<writerVars, inbox>>
  /\ UNCHANGED <<extVars, crops, resampled, policy, phase, stopping, foreign, died, disk, toolVars>>

TbStop ==
  /\ Live /\ ~stopping /\ sample \in StopsAt /\ stopping' = TRUE
  /\ UNCHANGED <<liveVars, phase, ended, foreign, died, disk, toolVars>>

\* write_demod_results: a result row, and what the tap has of its packet.  A
\* position of 0 reads as none ("or -1").
TapRows(id) ==
  {i \in DOMAIN inbox["tap"] : Get(inbox["tap"][i].meta, "packet_id", 0) = id}
NativePredicted(id) ==
  LET rows == TapRows(id)
      p == IF rows = {} THEN -1
           ELSE Get(inbox["tap"][Max(rows)].meta, "predicted_start_sample", -1)
  IN IF p = 0 THEN -1 ELSE p
ResultRow(msg, pass) ==
  LET id == Get(msg.meta, "packet_id", 0)
  IN [packet_id |-> id, fcs_pass |-> pass, native_predicted |-> NativePredicted(id)]

\* What the process had in memory is gone.
Gone ==
  /\ phase' = "files"
  /\ schedule' = CHOOSE x \in Schedules : TRUE
  /\ sample' = 0 /\ index' = 0 /\ active' = NoSlot /\ slot' = <<>> /\ jobs' = <<>>
  /\ publisher' = [at |-> "exit", idx |-> NoSlot]
  /\ call' = [at |-> "stopped", left |-> 0, sentinel |-> FALSE]
  /\ tally' = <<>> /\ crops' = <<>> /\ resampled' = <<>> /\ written' = <<>>
  /\ ring' = <<>> /\ writer' = [at |-> "exit", msg |-> NoPacket] /\ closing' = TRUE
  /\ iq' = <<>> /\ lines' = <<>> /\ inbox' = [b \in Receivers |-> <<>>]
  /\ ended' = {} /\ stopping' = FALSE /\ foreign' = 0
  /\ UNCHANGED <<policy, toolVars>>

\* The demodulator has come to a verdict on some of its packets, for
\* which ResultTap has rows.
AppEnds ==
  /\ Live /\ {"crop", "resampler", "writer"} \subseteq ended
  /\ call.at = "stopped" /\ writer.at = "exit"
  /\ Gone /\ UNCHANGED died
  /\ \E n \in 0..Len(inbox["demod"]) : \E pass \in [1..n -> BOOLEAN] :
       disk' = [iq |-> iq, lines |-> lines,
                results |-> [i \in 1..n |-> ResultRow(inbox["demod"][i], pass[i])]]

\* The lines were flushed one by one; the last samples may not have been.
Dies ==
  /\ Live /\ MayDie
  /\ Gone /\ died' = TRUE
  /\ \E lost \in 0..Least(StreamBuffer, Len(iq)) :
       disk' = [iq |-> SubSeq(iq, 1, Len(iq) - lost), lines |-> lines, results |-> <<>>]

Postprocess ==
  /\ phase = "files" /\ Tool
  /\ UNCHANGED <<liveVars, flowVars, disk>>

Threads ==
  \/ Extractor \/ ExtractorEnds \/ Crop \/ Resampler \/ WriterHandler \/ Writer
  \/ AppEnds \/ Postprocess
  \/ (\E b \in DOMAIN Before : BlockEnds(b))

Next == Threads \/ OtherPublisher \/ TbStop \/ Dies

Spec == Init /\ [][Next]_vars

---------------------------------------------------------------------------
\* uwb_packet_writer.h: "file_offset_samples is the sample offset within
\* capture.iq".  Whatever was dropped, stopped or cut short, what a reader gets
\* for a line are the very samples that the line's window starts with, and a
\* window that cannot be read whole is the last, of a process that died.
DumpReadsBack ==
  phase = "files" =>
    \A k \in DOMAIN disk.lines : LET w == Parsed(disk.lines[k]) IN
      IF Readable(w)
        THEN Read(w) = [i \in 1..w.n |-> w.ws + i - 1]
        ELSE died /\ k = Len(disk.lines)

\* A resampled packet, of the block or of the tool: sample i of it is the
\* output that its label says it is, counted from the first sample that was
\* filtered, and where the label of the input put the predicted start at the
\* end of its guard, that of the output does too.
SamplesAsLabelled(s, start) ==
  \A i \in DOMAIN s : start + i - 1 = MapOffset(s[i][1]) + s[i][2]
GuardEndsAtPrediction(meta, wasCropped) ==
  wasCropped => meta.window_start_sample + meta.pre_guard_samples
                  = meta.predicted_start_sample

ProductsNameWindows ==
  /\ \A k \in DOMAIN inbox["demod"] : LET m == inbox["demod"][k] IN
       /\ SamplesAsLabelled(m.iq, m.meta.window_start_sample)
       /\ GuardEndsAtPrediction(m.meta, /\ policy = "FullWindow"
                                        /\ "schedule_index" \in DOMAIN m.meta)
  /\ \A k \in DOMAIN outLines : LET l == outLines[k] IN
       /\ SamplesAsLabelled(SubSeq(outIq, l.file_offset_samples + 1,
                                   l.file_offset_samples + l.sample_count),
                            l.window_start_sample)
       /\ GuardEndsAtPrediction(l, tool.opt.emit = "qm35" /\ l.capture_mode = "")

\* While the stream runs to its end, no window and no packet disappears without
\* being counted by the block that let it go; and when "done" is passed on, the
\* last window has gone before it.
NothingLostUncounted ==
  LET sent == tally.emitted + foreign
      inHand == IF writer.at \in {"samples", "line"} THEN 1 ELSE 0
      known(msg) == msg.format # "none" /\ ~msg.odd
  IN Live /\ ~stopping =>
       /\ index = tally.dropped + tally.emitted + Len(jobs)
                  + (IF publisher.at = "publish" THEN 1 ELSE 0)
       /\ crops.received + Len(inbox["crop"]) = sent
       /\ crops.received = crops.emitted + crops.dropped
       /\ resampled.received + Len(inbox["resampler"]) = crops.emitted
       /\ resampled.received = Len(inbox["demod"]) + resampled.dropped
       /\ (\A k \in DOMAIN inbox["tap"] : known(inbox["tap"][k])) =>
            /\ written.received + Len(inbox["writer"]) = sent
            /\ written.received
                 = Len(lines) + written.dropped + Len(ring) + inHand
       /\ "extractor" \in ended => jobs = <<>> /\ publisher.idx = NoSlot
==============================================================================
