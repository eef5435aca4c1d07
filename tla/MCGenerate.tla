----------------------------- MODULE MCGenerate -----------------------------
(* Calls of one or two prompts for TLC; the long prompt is never accepted.  *)
EXTENDS Generate, TLC
CONSTANTS a, eos, s1, s2, s3

MCPrompts == {<<a>>, <<a, a, a>>, <<a, a, a, a, a>>}
Symmetry == Permutations(SeqId)
=============================================================================
