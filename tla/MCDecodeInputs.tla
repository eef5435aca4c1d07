--------------------------- MODULE MCDecodeInputs ---------------------------
(* One or two live rows for TLC, padded to a bucket of two.                 *)
EXTENDS DecodeInputs, TLC
CONSTANTS a, b, s1, s2, s3

MCPrompts == {<<a>>}
Symmetry == Permutations(SeqId)
=============================================================================
