---------------------------- MODULE MCModelStep -----------------------------
(* Two sequences through two layers, and rows of five logits in three chunks *)
(* of two: ties inside a chunk and between chunks, the maximum in the last   *)
(* chunk, which is half masked, and logits that are all equal.               *)
EXTENDS ModelStep

MCLogitRows ==
    {[v \in Vocab |-> t[v + 1]] : t \in
        {<<-3, -3, -3, -3, -3>>, <<-3, -1, -2, -1, -3>>,
         <<-2, -3, -3, -3, -1>>, <<-1, -3, -2, -3, -1>>}}
MCMinLogit == -3

\* Every step of this instance keeps StepFits.
ASSUME StepsFit ==
    \A n \in {MaxNumBatchedTokens, ProfileTokens} \cup GraphBuckets :
        2 * IntermediateSize * n <= Pow2[WordBits - 1]
=============================================================================
