------------------------------ MODULE MCEngine ------------------------------
(* Small engines for TLC.  With blocks of two tokens the prompts are half a *)
(* block, a block and a half or two; some differ in their first token only, *)
(* and one can never be admitted.                                           *)
EXTENDS Engine, TLC
CONSTANTS a, eos, s1, s2, s3

PromptsShared == {<<a>>, <<a, a, a>>}
PromptsDiverge == {<<a>>, <<a, a, a>>, <<eos, a, a>>}
PromptsTooLong == {<<a>>, <<a, a, a, a>>, <<a, a, a, a, a>>}
PromptShort == {<<a>>}
Symmetry == Permutations(SeqId)
=============================================================================
