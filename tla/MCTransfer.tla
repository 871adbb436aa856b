---------------------------- MODULE MCTransfer -----------------------------
(* An instance of VectorTransfer for TLC.  Three bytes to a chunk cut a    *)
(* half in two; the vectors are one with a remainder and one that is a     *)
(* whole number of chunks.                                                 *)
EXTENDS VectorTransfer

Float(s, e, m) == [sign |-> s, exponent |-> e, mantissa |-> m]

(* -1.5, the smallest and the largest of the exponents that fit, every     *)
(* bit of the mantissa set; then 0.5, 1.0 and -20 and a bit too small.     *)
TwoVectors ==
    <<<<Float(1, 127, 4194304), Float(0, 112, 8388607), Float(1, 143, 1), Float(0, 120, 8388607)>>,
      <<Float(0, 126, 0), Float(0, 127, 0), Float(1, 131, 2097153)>>>>

Packed == <<<<0, 190, 255, 3, 0, 252, 255, 35>>, <<0, 56, 0, 60, 0, 205>>>>
=============================================================================
