---------------------------- MODULE DemodMessages ----------------------------
(***************************************************************************)
(* What UwbRealtimeDemodulator makes of one message: samples and labels     *)
(* become a job, the job is decoded (DemodCore), the result is published    *)
(* with the labels that name the packet, and a result with a timing is fed  *)
(* back to the extractor that cut the window, which carries its position    *)
(* back to the rate of the receiver.                                        *)
(*                                                                         *)
(* The message is a record: shape, format and odd tell how its samples      *)
(* come, body is the window they hold, meta its dictionary.  The threads    *)
(* and the queue between the two ends are RealtimeDemodulator's.            *)
(***************************************************************************)
EXTENDS DemodCore, TLC

CONSTANTS
  Messages,             \* the messages considered
  NativeRate, HostRate, \* 737.28e6 and 998.4e6
  FilterDelay,          \* resample_filter_delay: half of (taps - 1)
  Labelled,             \* code_index and sfd_mode of the demodulator's profile
  Identity              \* cfg_.identity of the acquisition tracker

ASSUME MessageAssumption ==
  /\ NativeRate # HostRate /\ FilterDelay \in Nat
  /\ {"code_index", "sfd_mode"} \subseteq DOMAIN Labelled
  /\ {"code_index", "reps", "sfd_mode"} \subseteq DOMAIN Identity

VARIABLES
  msg,          \* the message
  job,          \* Job
  published     \* what went out on result and on schedule_feedback

messageVars == <<msg, job, published>>

None == "none"

\* dict_u64, dict_i64, dict_f64: the label, or the default
Label(meta, key, default) == IF key \in DOMAIN meta THEN meta[key] ELSE default

---------------------------------------------------------------------------
(* handle_samples                                                          *)

\* Interleaved integers: none at all, or half a sample, are no samples.
s16_interleaved_to_c32(m) == m.body.sig.n > 0 /\ ~m.odd

HasSamples(m) ==
  \/ m.format = "s16" /\ m.shape \in {"pair", "vector"} /\ s16_interleaved_to_c32(m)
  \/ m.format = "c32" /\ m.shape = "pair" /\ m.body.sig.n > 0

JobOf(m) ==
  LET meta == IF m.shape = "pair" THEN m.meta ELSE <<>>
  IN [packet_id |-> Label(meta, "packet_id", 0),
      schedule_index |-> Label(meta, "schedule_index", 0),
      predicted |-> Label(meta, "predicted_start_sample", -1),
      window_start |-> Label(meta, "window_start_sample", 0),
      sample_rate |-> Label(meta, "sample_rate", 0),
      native_rate |-> IF Label(meta, "input_sample_rate", 0) > 0
                        THEN meta.input_sample_rate
                        ELSE Label(meta, "native_sample_rate", 0),
      filter_delay |-> Label(meta, "resample_filter_delay", 0),
      schedule |-> [k \in {"acquisition_epoch", "schedule_generation"}
                            \cap DOMAIN meta |-> meta[k]]]

\* The window of a job, as demodulate_one is given it
CaseOf(body, j) ==
  [sig |-> body.sig, tx |-> body.tx, profile |-> body.profile,
   window_start |-> j.window_start, predicted_start |-> j.predicted]

handle_samples ==
  /\ stage = "message"
  /\ IF HasSamples(msg)
       THEN /\ job' = JobOf(msg)
            /\ case' = CaseOf(msg.body, job')
            /\ stage' = "timing"
       ELSE /\ stage' = "refused"                       \* invalid_input
            /\ UNCHANGED <<job, case>>
  /\ UNCHANGED <<msg, published, result, cfo_biased, air, tries, fixed>>

---------------------------------------------------------------------------
(* publish_result, publish_schedule_feedback                               *)

status_to_string ==
  [Success |-> "success", TimingFailed |-> "timing_failed", CfoFailed |-> "cfo_failed",
   SfdFailed |-> "sfd_failed", CirFailed |-> "cir_failed", PhrFailed |-> "phr_failed",
   PayloadFailed |-> "payload_failed", FcsFailed |-> "fcs_failed"]

\* Labels that are there only if the job has a rate, or a delay
Provenance(j) ==
  (IF j.sample_rate > 0 THEN [sample_rate |-> j.sample_rate] ELSE <<>>)
  @@ (IF j.native_rate > 0 THEN [input_sample_rate |-> j.native_rate,
                                 native_sample_rate |-> j.native_rate] ELSE <<>>)
  @@ (IF j.filter_delay > 0 THEN [resample_filter_delay |-> j.filter_delay] ELSE <<>>)

\* The labels of a result that name the packet and where it was found
ResultLabels(j, r) ==
  [status |-> status_to_string[r.status], packet_id |-> j.packet_id,
   schedule_index |-> j.schedule_index,
   predicted_start_sample |-> j.predicted, detected_start_sample |-> r.preamble_start,
   window_start_sample |-> j.window_start, timing_start_sample |-> r.preamble_start,
   sfd_start_sample |-> r.sfd_start,
   sfd_initial_predicted_sample |-> r.sfd_initial,
   sfd_bootstrap_detected_sample |-> r.sfd_bootstrap,
   cir_first_path_sample |-> r.first_path, ns_sfd_polarity |-> r.polarity,
   phr_psdu_length |-> r.phr.psdu_length]

\* ... and of its payload, the bytes of which go out only if it is ok
ResultMessage(j, r) ==
  [meta |-> ResultLabels(j, r) @@ Provenance(j)
              @@ [payload_bits |-> Len(r.payload.bits), fcs_pass |-> r.payload.fcs_pass],
   vec |-> IF r.payload.ok THEN r.payload.bits ELSE <<>>]

TimingOk(r) == r.preamble_start # Unset

FeedbackMessage(j, r) ==
  [command |-> "observe", schedule_index |-> j.schedule_index, packet_id |-> j.packet_id,
   detected_start_sample |-> r.preamble_start, timing_start_sample |-> r.preamble_start,
   predicted_start_sample |-> j.predicted, timing_ok |-> TRUE, status |-> status_to_string[r.status],
   fcs_pass |-> r.payload.fcs_pass, code_index |-> Labelled.code_index,
   preamble_repetitions |-> case.profile.reps, sfd_mode |-> Labelled.sfd_mode]
  @@ Provenance(j) @@ j.schedule

publish_result ==
  /\ stage = "returned"
  /\ published' = [result |-> {ResultMessage(job, result)},
                   feedback |-> {fb \in {FeedbackMessage(job, result)} :
                                   TimingOk(result) /\ result.preamble_start >= 0}]
  /\ stage' = "published"
  /\ UNCHANGED <<msg, job, case, result, cfo_biased, air, tries, fixed>>

---------------------------------------------------------------------------
(* What the extractors read.  Rates are compared as they are: a tolerance   *)
(* of one in a million is no question for the values they take.             *)

\* llround(a / b)
Rounded(a, b) == IF a >= 0 THEN (2 * a + b) \div (2 * b) ELSE -((b - 2 * a) \div (2 * b))

\* The inverse of the PDU resampler's map of labels, between its two rates.
\* (Fault...: what a plausible bug would make of it; not used.)
FaultMap(obs, obs_rate, native_rate, delay) ==
  IF obs < 0 \/ obs_rate <= 0 \/ native_rate <= 0 \/ obs_rate = native_rate THEN obs
  ELSE Rounded(obs * native_rate, obs_rate)

map_obs_sample_to_native(obs, obs_rate, native_rate, delay) ==
  IF obs < 0 \/ obs_rate <= 0 \/ native_rate <= 0 \/ obs_rate = native_rate THEN obs
  ELSE IF obs_rate = HostRate /\ native_rate = NativeRate
    THEN Rounded(obs * 48 - delay, 65)
    ELSE Rounded(obs * native_rate, obs_rate)

Detected(fb) == Label(fb, "detected_start_sample", Label(fb, "timing_start_sample", -1))

\* classify_lock_obs_mapping, of the automatic extractor: -1 is a refusal.  A
\* position at the native rate that comes with a delay is not believed.
classify_lock_obs_mapping(fb, native_rate) ==
  LET rate == Label(fb, "sample_rate", 0)
      delay == Label(fb, "resample_filter_delay", 0)
      Mapped(from) == map_obs_sample_to_native(Detected(fb), from, native_rate, delay)
  IN IF Detected(fb) < 0 \/ (rate = native_rate /\ delay # 0) THEN -1
     ELSE IF rate > 0 THEN Mapped(rate)
     ELSE IF Label(fb, "native_sample_rate", 0) = native_rate /\ delay # 0
       THEN Mapped(HostRate) ELSE Detected(fb)

\* The CF32 extractor believes every position that is not negative.
cf32_map(fb, native_rate) ==
  IF ~Label(fb, "timing_ok", TRUE) \/ Detected(fb) < 0 THEN -1
  ELSE map_obs_sample_to_native(Detected(fb), Label(fb, "sample_rate", 0), native_rate,
                                Label(fb, "resample_filter_delay", 0))

\* identity_matches: of what the tracker knows of its tag, the message may leave
\* out the code, the repetitions and the SFD, not the status.
identity_matches(fb) ==
  /\ Label(fb, "status", "") = "success" /\ Label(fb, "fcs_pass", FALSE)
  /\ Label(fb, "code_index", Identity.code_index) = Identity.code_index
  /\ Label(fb, "preamble_repetitions", Identity.reps) = Identity.reps
  /\ Label(fb, "sfd_mode", Identity.sfd_mode) = Identity.sfd_mode

---------------------------------------------------------------------------
MessageInit ==
  /\ msg \in Messages
  /\ stage = "message" /\ job = None /\ case = None
  /\ published = [result |-> {}, feedback |-> {}]
  /\ NothingDecoded

demodulate == demodulate_one /\ UNCHANGED messageVars

MessageDone == stage \in {"refused", "published"} /\ UNCHANGED <<decodeVars, messageVars>>

MessageNext == handle_samples \/ demodulate \/ publish_result \/ MessageDone

MessageSpec == MessageInit /\ [][MessageNext]_<<decodeVars, messageVars>>

---------------------------------------------------------------------------
(* An observation by which a tracker confirms a tag, and so sets the origin *)
(* of its schedule, is where the frame begins: at the extractor's own rate,  *)
(* wherever in the window the decoder began and whether the window came     *)
(* through the resampler or not.  (The resampler delays the samples, and its *)
(* labels count the delay once more, of which the map takes one back: the    *)
(* position is late by one delay, and the roundings are worth a sample and a *)
(* quarter.)                                                               *)
ConfirmedAtFrame ==
  \A fb \in published.feedback :
    identity_matches(fb) =>
      \A at \in {classify_lock_obs_mapping(fb, msg.body.rate),
                 cf32_map(fb, msg.body.rate)} :
        65 * (at - msg.body.native) - job.filter_delay \in -81..81
==============================================================================
