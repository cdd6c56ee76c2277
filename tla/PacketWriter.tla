---------------------------- MODULE PacketWriter ----------------------------
(***************************************************************************)
(* UwbPacketWriter: the message handler puts packets into a bounded ring,  *)
(* a thread of its own appends their samples to capture.iq and then a line *)
(* to capture.jsonl.  The line is flushed, the samples are not: what the   *)
(* stream still holds back reaches the file only when it is closed.        *)
(*                                                                         *)
(* All packets go to one file.  Quantisation keeps the samples' order and  *)
(* number, which is all that is kept here of them.                         *)
(***************************************************************************)
EXTENDS MessagePorts, SequencesExt

CONSTANTS
  kQueueCapacity,
  StreamBuffer      \* samples that the output stream may hold back

ASSUME WriterAssumption == kQueueCapacity \in Nat \ {0} /\ StreamBuffer \in Nat

VARIABLES
  ring,             \* d_queue_
  writer,           \* where the writer's thread is, and the packet it has
  closing,          \* d_stop_
  iq,               \* what was written to d_iq_
  lines,            \* what was written to d_jsonl_
  written           \* the counters

writerVars == <<ring, writer, closing, iq, lines, written>>

NoPacket == [meta |-> <<>>]

WriterInit ==
  /\ ring = <<>> /\ writer = [at |-> "wait", msg |-> NoPacket] /\ closing = FALSE
  /\ iq = <<>> /\ lines = <<>>
  /\ written = [received |-> 0, dropped |-> 0, packets |-> 0, offset |-> 0,
                high |-> 0]

High(n) == IF n > written.high THEN n ELSE written.high

FaultUncounted(msg) ==
  /\ ring' = IF Len(ring) = kQueueCapacity THEN ring ELSE Append(ring, msg)
  /\ written' = [written EXCEPT !.received = @ + 1]
Queue(msg) ==
  IF Len(ring) = kQueueCapacity
    THEN /\ written' = [written EXCEPT !.received = @ + 1, !.dropped = @ + 1]
         /\ UNCHANGED ring
    ELSE /\ ring' = Append(ring, msg)
         /\ written' = [written EXCEPT !.received = @ + 1, !.high = High(Len(ring) + 1)]

\* Anything else than a vector of samples is ignored, and not counted.
writer_handle_packet ==
  /\ inbox["writer"] # <<>>
  /\ inbox' = Handled(inbox, "writer")
  /\ IF Head(inbox["writer"]).format = "none"
       THEN UNCHANGED <<ring, written>>
       ELSE Queue(Head(inbox["writer"]))
  /\ UNCHANGED <<writer, closing, iq, lines>>

-----------------------------------------------------------------------------
(* writer_loop and write_packet                                            *)

next_packet ==
  /\ writer.at = "wait" /\ ring # <<>>
  /\ writer' = [at |-> "samples", msg |-> Head(ring)]
  /\ ring' = Tail(ring)
  /\ UNCHANGED <<closing, iq, lines, written, inbox>>

\* Half a sample too much: the packet is neither written nor counted.
skip_odd ==
  /\ writer.at = "samples" /\ writer.msg.format = "sc16" /\ writer.msg.odd
  /\ writer' = [at |-> "wait", msg |-> NoPacket]
  /\ UNCHANGED <<ring, closing, iq, lines, written, inbox>>

write_samples ==
  /\ writer.at = "samples"
  /\ ~(writer.msg.format = "sc16" /\ writer.msg.odd)
  /\ iq' = iq \o writer.msg.iq
  /\ written' = [written EXCEPT !.offset = @ + Len(writer.msg.iq)]
  /\ writer' = [writer EXCEPT !.at = "line"]
  /\ UNCHANGED <<ring, closing, lines, inbox>>

\* A line: a detector's packet has start_sample, an extractor's window_start.
\* The offset is the one read before the samples were written.
LineOf(meta, n, offset) ==
  LET scheduled == Get(meta, "window_start_sample", 0)
      start == Get(meta, "start_sample", scheduled)
      optional == {"pre_guard_samples", "capture_samples", "post_guard_samples",
                   "schedule_index", "capture_mode"} \cap DOMAIN meta
  IN Put([k \in optional |-> meta[k]],
         [packet_id |-> Get(meta, "packet_id", written.packets),
          start_sample |-> start,
          window_start_sample |-> Get(meta, "window_start_sample", start),
          predicted_start_sample |-> Get(meta, "predicted_start_sample", start),
          pre_trigger_samples |-> Get(meta, "pre_trigger_samples",
                                      Get(meta, "pre_guard_samples", 0)),
          sample_count |-> n, file_offset_samples |-> offset])

FaultOffsetAfter ==
  /\ writer.at = "line"
  /\ lines' = Append(lines, LineOf(writer.msg.meta, Len(writer.msg.iq), written.offset))
  /\ written' = [written EXCEPT !.packets = @ + 1]
  /\ writer' = [at |-> "wait", msg |-> NoPacket]
  /\ UNCHANGED <<ring, closing, iq, inbox>>
write_line ==
  /\ writer.at = "line"
  /\ LET n == Len(writer.msg.iq)
     IN lines' = Append(lines, LineOf(writer.msg.meta, n, written.offset - n))
  /\ written' = [written EXCEPT !.packets = @ + 1]
  /\ writer' = [at |-> "wait", msg |-> NoPacket]
  /\ UNCHANGED <<ring, closing, iq, inbox>>

\* stop() sets the flag and joins the thread, which empties the ring first.
writer_stop ==
  /\ ~closing /\ closing' = TRUE
  /\ UNCHANGED <<ring, writer, iq, lines, written, inbox>>

writer_exit ==
  /\ writer.at = "wait" /\ ring = <<>> /\ closing
  /\ writer' = [writer EXCEPT !.at = "exit"]
  /\ UNCHANGED <<ring, closing, iq, lines, written, inbox>>

WriterThread == next_packet \/ skip_odd \/ write_samples \/ write_line \/ writer_exit
=============================================================================
