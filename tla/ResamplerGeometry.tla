------------------------- MODULE ResamplerGeometry -------------------------
(***************************************************************************)
(* The arithmetic of the fixed-rate resampler: how many outputs an input   *)
(* has, and which output an input position corresponds to.                 *)
(***************************************************************************)
EXTENDS Integers

CONSTANTS
    L, M,           \* kInterp, kDecim
    T               \* number of taps

ASSUME RatioAssumption == /\ L \in Nat \ {0} /\ M \in 1 .. L
                          /\ T \in Nat \ {0}

H == (T + L - 1) \div L         \* H_, samples in a window
Past == H - 1                   \* hist_n

\* expected_output_length: the outputs of n inputs followed by silence.
Length(n) == LET num == (n - 1) * L + T
             IN  IF num <= 0 THEN 0 ELSE (num + M - 1) \div M

\* map_input_offset_to_output: llround((p L + d) / M), with d = (T - 1) / 2 the
\* group delay, for a position p that is not negative.
MapOffset(p) == (2 * p * L + (T - 1) + M) \div (2 * M)
=============================================================================
