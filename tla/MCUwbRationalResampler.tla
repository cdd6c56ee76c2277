----------------------- MODULE MCUwbRationalResampler -----------------------
(* Three outputs for two inputs, windows of three samples. *)
EXTENDS UwbRationalResampler

UpToTwoTags == {S \in SUBSET (0 .. Total - 1) : Cardinality(S) <= 2}
=============================================================================
