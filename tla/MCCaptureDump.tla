---------------------------- MODULE MCCaptureDump ----------------------------
(* Windows of five samples: one after the other; or each beginning before    *)
(* the last ends, with the first ones moved to the beginning of the stream.  *)
EXTENDS CaptureDump

MCGuards == [pre |-> 2, capture |-> 2, post |-> 1]
MCGeometry == [pre |-> 1, capture |-> 2, post |-> 0]
MCSchedules == {[first |-> 3, period |-> 5], [first |-> 0, period |-> 2]}
MCWires == [extractor |-> {"writer", "crop", "tap"}, crop |-> {"resampler"},
            resampler |-> {"demod"}]
Acquired == [format |-> "sc16", odd |-> FALSE, iq |-> <<1, 2, 3>>,
             meta |-> [packet_id |-> 9, capture_mode |-> "acquisition",
                       start_sample |-> 2, predicted_start_sample |-> 3,
                       window_start_sample |-> 1, sample_count |-> 3,
                       pre_guard_samples |-> 1, capture_samples |-> 2,
                       post_guard_samples |-> 0, sample_rate |-> "native"]]
Detected == [format |-> "sc16", odd |-> FALSE, iq |-> <<4, 5>>,
             meta |-> [packet_id |-> 8, start_sample |-> 4,
                       window_start_sample |-> 4, sample_count |-> 2,
                       pre_trigger_samples |-> 0, sample_rate |-> "other"]]
HalfASample == [Acquired EXCEPT !.odd = TRUE]
Elsewhere == [Detected EXCEPT !.meta = [packet_id |-> 10, predicted_start_sample |-> 20] @@ @]
MCForeign == {Acquired, Detected, HalfASample, Elsewhere}
MCOptions == {[select |-> "all", emit |-> "qm35", workers |-> 2],
              [select |-> "fcs_pass", emit |-> "full", workers |-> 1],
              [select |-> "scheduled", emit |-> "full", workers |-> 1]}
==============================================================================
