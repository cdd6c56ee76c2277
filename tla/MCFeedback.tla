----------------------------- MODULE MCFeedback -----------------------------
(* The way of an observation, which is taken by two parts that share no state: *)
(* one message through the demodulator, to what it tells the extractor that    *)
(* cut it, or the extractor hearing observations among its other inputs.  A    *)
(* behaviour is one part's; the other stays where it begins.                   *)
EXTENDS MCDemodCore, MCScheduledExtractor

VARIABLE part   \* "message" or "extractor": chosen at the start

FeedbackInit ==
  /\ part \in {"message", "extractor"}
  /\ MessageInit /\ Init
  /\ part = "extractor" => msg = NoPair

\* The extractor may be given nothing more; that a message is always taken to
\* its end is left to the deadlock check.
FeedbackNext ==
  /\ UNCHANGED part
  /\ \/ part = "message" /\ MessageNext /\ UNCHANGED vars
     \/ part = "extractor" /\ Next /\ UNCHANGED <<decodeVars, messageVars>>
     \/ part = "extractor" /\ UNCHANGED <<vars, decodeVars, messageVars>>

FeedbackSpec ==
  FeedbackInit /\ [][FeedbackNext]_<<part, vars, decodeVars, messageVars>>
=============================================================================
