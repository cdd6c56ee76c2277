--------------------------- MODULE MCAcquisition ---------------------------
(* The two halves of acquisition, which share no state: a detection block of   *)
(* DetectorBlocks hunting in a signal, or the tracker hearing of what was      *)
(* decoded.  A behaviour is one half's; the other stays where it begins.       *)
EXTENDS MCUwbDetector, Qm35AcquisitionTracker

VARIABLE part   \* "hunt" or "track": chosen at the start

AcquisitionInit ==
  /\ part \in {"hunt", "track"}
  /\ BlocksInit /\ TrackerInit
  /\ part = "track" => signal = CHOOSE s \in Signals : TRUE

AcquisitionNext ==
  /\ UNCHANGED part
  /\ \/ part = "hunt" /\ BlocksNext /\ UNCHANGED tvars
     \/ part = "track" /\ TrackerNext /\ UNCHANGED <<vars, streamVars>>

AcquisitionSpec ==
  AcquisitionInit /\ [][AcquisitionNext]_<<part, vars, streamVars, tvars>>
=============================================================================
