-------------------------- MODULE MCKVCacheManager --------------------------
(* A small pool for TLC: sequences that share a prefix, diverge inside a    *)
(* block, end on a block boundary or take the whole pool.                   *)
EXTENDS KVCacheManager, TLC
CONSTANTS a, b, s1, s2, s3

MCPrompts == {<<a>>, <<a, a>>, <<a, b, a>>, <<a, a, a, a, a>>}
Symmetry == Permutations(SeqId)
=============================================================================
