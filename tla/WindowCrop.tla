----------------------------- MODULE WindowCrop -----------------------------
(***************************************************************************)
(* UwbPduWindowCrop: cuts the part of a window around its predicted start  *)
(* and relabels it (plan_window_crop, uwb_window_crop_core.h).             *)
(***************************************************************************)
EXTENDS MessagePorts, SequencesExt

CONSTANT Geometry       \* [pre, capture, post]

ASSUME GeometryAssumption ==
  {Geometry.pre, Geometry.capture, Geometry.post} \subseteq Nat

VARIABLE crops          \* the counters

CropInit ==
  crops = [received |-> 0, emitted |-> 0, passthrough |-> 0, cropped |-> 0,
           clamped |-> 0, dropped |-> 0, in |-> 0, out |-> 0]

Least(a, b) == IF a <= b THEN a ELSE b
Most(a, b) == IF a >= b THEN a ELSE b

-----------------------------------------------------------------------------
(* plan_window_crop(window_start, sample_count, predicted_start)           *)

PassThrough(ws, n) ==
  [passthrough |-> TRUE, clamped |-> FALSE, empty |-> n <= 0, in_offset |-> 0,
   out_count |-> Most(n, 0), window_start |-> ws, pre |-> 0, capture |-> 0,
   post |-> 0]

\* The labels of a crop that begins at start and has n samples
Labels(start, n, predicted, g) ==
  LET pre == Least(Most(predicted - start, 0), n)
      cap == Least(g.capture, n - pre)
  IN [pre |-> pre, capture |-> cap, post |-> n - pre - cap]

Cropped(ws, n, predicted, g) ==
  LET from == Most(Most(predicted - g.pre, 0), ws)
      to == Most(Least(predicted + g.capture + g.post, ws + n), from)
      labels == Labels(from, to - from, predicted, g)
  IN [passthrough |-> FALSE,
      clamped |-> \/ from > predicted - g.pre
                  \/ predicted + g.capture + g.post > ws + n,
      empty |-> from = to, in_offset |-> from - ws, out_count |-> to - from,
      window_start |-> from, pre |-> labels.pre, capture |-> labels.capture,
      post |-> labels.post]

plan_window_crop(ws, n, predicted, g, acquisition) ==
  IF acquisition THEN [PassThrough(ws, n) EXCEPT !.empty = FALSE]
  ELSE IF predicted < 0 \/ n <= 0 THEN PassThrough(ws, n)
  ELSE Cropped(ws, n, predicted, g)

-----------------------------------------------------------------------------
PlanFor(msg) ==
  plan_window_crop(
    Get(msg.meta, "window_start_sample", Get(msg.meta, "start_sample", 0)),
    Len(msg.iq), Get(msg.meta, "predicted_start_sample", -1), Geometry,
    Get(msg.meta, "capture_mode", "") = "acquisition")

Relabelled(msg, p) ==
  [msg EXCEPT
     !.iq = SubSeq(@, p.in_offset + 1, p.in_offset + p.out_count),
     !.meta = Put(@, [
        window_start_sample |-> p.window_start, start_sample |-> p.window_start,
        pre_guard_samples |-> p.pre, pre_trigger_samples |-> p.pre,
        capture_samples |-> p.capture, post_guard_samples |-> p.post,
        sample_count |-> p.out_count,
        native_dump_window_start |->
          Get(@, "window_start_sample", Get(@, "start_sample", 0)),
        native_dump_sample_count |-> Len(msg.iq)])]

Malformed(msg) == msg.iq = <<>> \/ msg.format = "none" \/ (msg.format = "sc16" /\ msg.odd)

Pass(msg) ==
  /\ inbox' = Published(Handled(inbox, "crop"), "crop", msg)
  /\ crops' = [crops EXCEPT !.received = @ + 1, !.passthrough = @ + 1,
                 !.emitted = @ + 1, !.in = @ + Len(msg.iq), !.out = @ + Len(msg.iq)]
Emit(msg, p) ==
  /\ inbox' = Published(Handled(inbox, "crop"), "crop", Relabelled(msg, p))
  /\ crops' = [crops EXCEPT !.received = @ + 1, !.cropped = @ + 1,
                 !.clamped = @ + (IF p.clamped THEN 1 ELSE 0), !.emitted = @ + 1,
                 !.in = @ + Len(msg.iq), !.out = @ + p.out_count]
Drop(n) ==
  /\ inbox' = Handled(inbox, "crop")
  /\ crops' = [crops EXCEPT !.received = @ + 1, !.dropped = @ + 1, !.in = @ + n]

crop_handle_packet ==
  /\ inbox["crop"] # <<>>
  /\ LET msg == Head(inbox["crop"])
         p == PlanFor(msg)
     IN \/ Malformed(msg) /\ Drop(0)
        \/ ~Malformed(msg) /\ p.empty /\ Drop(Len(msg.iq))
        \/ ~Malformed(msg) /\ ~p.empty /\ p.passthrough /\ Pass(msg)
        \/ ~Malformed(msg) /\ ~p.empty /\ ~p.passthrough /\ Emit(msg, p)
=============================================================================
