---------------------------- MODULE PowersOfTwo -----------------------------
(***************************************************************************)
(* Sizes that are rounded up to a power of two: _next_pow2 of              *)
(* kernels/decode_split.py, and the lanes of the argmax kernels, which     *)
(* kernels/argmax.py has Triton round.  A recursive function, so that the  *)
(* proofs can follow it.                                                   *)
(***************************************************************************)
EXTENDS Naturals, FiniteSetsExt

Pow2[k \in Nat] == IF k = 0 THEN 1 ELSE 2 * Pow2[k - 1]

\* Mutant: the number is not rounded up.
SamePow2(n) == n
NextPow2(n) == Min({Pow2[k] : k \in {j \in 0 .. n : Pow2[j] >= n}})
=============================================================================
