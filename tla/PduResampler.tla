---------------------------- MODULE PduResampler ----------------------------
(***************************************************************************)
(* UwbPduRationalResamplerCcf65_48: resamples each packet on its own and   *)
(* carries its labels over to the output rate.                             *)
(*                                                                         *)
(* An output sample is <<f, j>>: output j of the filter run from a reset   *)
(* over samples of which the first is f.                                   *)
(***************************************************************************)
EXTENDS MessagePorts, ResamplerGeometry, SequencesExt

CONSTANTS
  InputRate, OutputRate,    \* kInputRateHz, output_sample_rate
  ValidateRate,             \* validate_input_rate
  EmitPolicies              \* of {"FullWindow", "CaptureOnly"}, to choose from

ASSUME EmitPolicyAssumption == EmitPolicies \subseteq {"FullWindow", "CaptureOnly"}

VARIABLES
  policy,                   \* d_emit_policy_
  resampled                 \* the counters

ResamplerInit ==
  /\ policy \in EmitPolicies
  /\ resampled = [received |-> 0, emitted |-> 0, dropped |-> 0, resets |-> 0,
               short_guard |-> 0, in |-> 0, out |-> 0]

resample_oneshot(iq) ==
  [j \in 1..Length(Len(iq)) |-> <<Head(iq), j - 1>>]

\* map_input_offset_to_output of any position: never before output 0
MapInput(p) == IF 2 * p * L + (T - 1) < 0 THEN 0 ELSE MapOffset(p)

Nonnegative(x) == IF x < 0 THEN 0 ELSE x

\* The labels of a packet of nin samples, and what they become with nout outputs.
InLabels(meta, nin) ==
  LET pre == Get(meta, "pre_guard_samples", 0)
      cap == Get(meta, "capture_samples", nin)
      post == Get(meta, "post_guard_samples", -1)
  IN [ws |-> Get(meta, "window_start_sample", 0), pre |-> pre, cap |-> cap,
      post |-> IF post >= 0 THEN post
               ELSE Nonnegative(Get(meta, "sample_count", nin) - pre - cap)]

OutLabels(in, nout) ==
  LET pre == Nonnegative(MapInput(in.ws + in.pre) - MapInput(in.ws))
      cap == Nonnegative(MapInput(in.ws + in.pre + in.cap) - MapInput(in.ws + in.pre))
      fitPre == IF pre > nout THEN nout ELSE pre
      fitCap == IF fitPre + cap > nout THEN nout - fitPre ELSE cap
  IN [ws |-> MapInput(in.ws), pre |-> fitPre, cap |-> fitCap,
      post |-> nout - fitPre - fitCap, clamped |-> pre > nout \/ fitPre + cap > nout]

\* Half the filter's length, in input samples
GroupDelay == ((T - 1) + L) \div (2 * L)
ShortGuard(in, out) == out.clamped \/ in.pre < GroupDelay \/ in.post < GroupDelay

Lineage == {"packet_id", "schedule_index", "schedule_generation",
            "acquisition_epoch"}
MappedKeys(meta) == {k \in {"predicted_start_sample", "detected_start_sample"} :
                       Get(meta, k, -1) >= 0}

OutMeta(meta, ws, pre, cap, post, n) ==
  Put([k \in (Lineage \cap DOMAIN meta) \cup MappedKeys(meta) |->
         IF k \in Lineage THEN meta[k] ELSE MapInput(meta[k])],
      [sample_rate |-> OutputRate, window_start_sample |-> ws,
       pre_guard_samples |-> pre, capture_samples |-> cap,
       post_guard_samples |-> post, sample_count |-> n])

Slice(iq, out) == SubSeq(iq, out.pre + 1, out.pre + out.cap)
Resampled(iq, meta) == [format |-> "fc32", odd |-> FALSE, iq |-> iq, meta |-> meta]

Output(msg, in, out, iq) ==
  IF policy = "CaptureOnly"
    THEN Resampled(Slice(iq, out), OutMeta(msg.meta, MapInput(in.ws + in.pre), 0,
                                           out.cap, 0, out.cap))
    ELSE Resampled(iq, OutMeta(msg.meta, out.ws, out.pre, out.cap, out.post, Len(iq)))

\* What handle_packet refuses before it resamples
Refused(msg) ==
  \/ msg.format = "none" \/ msg.iq = <<>> \/ (msg.format = "sc16" /\ msg.odd)
  \/ ValidateRate /\ Get(msg.meta, "sample_rate", 0) # InputRate

Refuse(resets) ==
  /\ inbox' = Handled(inbox, "resampler")
  /\ resampled' = [resampled EXCEPT !.received = @ + 1, !.dropped = @ + 1,
                                    !.resets = @ + resets]

Resample(msg) ==
  LET iq == resample_oneshot(msg.iq)
      in == InLabels(msg.meta, Len(msg.iq))
      labels == OutLabels(in, Len(iq))
      packet == Output(msg, in, labels, iq)
  IN IF iq = <<>> THEN Refuse(1)
     ELSE /\ inbox' = Published(Handled(inbox, "resampler"), "resampler", packet)
          /\ resampled' = [resampled EXCEPT
               !.received = @ + 1, !.emitted = @ + 1, !.resets = @ + 1,
               !.short_guard = @ + (IF ShortGuard(in, labels) THEN 1 ELSE 0),
               !.in = @ + Len(msg.iq), !.out = @ + Len(packet.iq)]

resampler_handle_packet ==
  /\ inbox["resampler"] # <<>> /\ UNCHANGED policy
  /\ LET msg == Head(inbox["resampler"])
     IN IF Refused(msg) THEN Refuse(0) ELSE Resample(msg)
=============================================================================
