------------------------------ MODULE Sampling ------------------------------
(***************************************************************************)
(* From a row of logits to a token: Sampler.forward (layers/sampler.py)    *)
(* and the split-row argmax of captured steps (kernels/argmax.py).         *)
(*                                                                         *)
(* Abstractions.  A logit is an integer.  After the division by the        *)
(* temperature and the softmax a token's mass is a power of two of its     *)
(* logit, so that masses are exact; top_p is in tenths.  The programs of   *)
(* the argmax kernels store to cells of their own, one per row and chunk,  *)
(* so that a kernel is what its programs compute, in any order.            *)
(***************************************************************************)
EXTENDS Integers, FiniteSets, PowersOfTwo

CONSTANTS
    VocabSize,
    ArgmaxBlock,           \* columns of a program
    MinLogit               \* no logit is below; -inf of a masked lane

ASSUME VocabAssumption == VocabSize \in Nat \ {0} /\ ArgmaxBlock \in Nat \ {0}
ASSUME LogitAssumption == MinLogit \in Int

Vocab == 0 .. VocabSize - 1

-----------------------------------------------------------------------------
(* Argmax.                                                                 *)

\* tl.max with return_indices_tie_break_left, and torch.argmax.
LeftMax(f) ==
    CHOOSE i \in DOMAIN f : /\ \A j \in DOMAIN f : f[j] <= f[i]
                            /\ \A j \in DOMAIN f : j < i => f[j] < f[i]

NumChunks == (VocabSize + ArgmaxBlock - 1) \div ArgmaxBlock

\* Mutant: a masked lane loads 0.
ChunkZeroed(row, c) ==
    [lane \in 0 .. ArgmaxBlock - 1 |->
        IF c * ArgmaxBlock + lane < VocabSize
        THEN row[c * ArgmaxBlock + lane] ELSE 0]
\* What the program of chunk c loads.
Chunk(row, c) ==
    [lane \in 0 .. ArgmaxBlock - 1 |->
        IF c * ArgmaxBlock + lane < VocabSize
        THEN row[c * ArgmaxBlock + lane] ELSE MinLogit]

PartVal(row, c) == Chunk(row, c)[LeftMax(Chunk(row, c))]
PartIdx(row, c) == c * ArgmaxBlock + LeftMax(Chunk(row, c))

\* What the program of a row loads into its lanes.
ChunkWinners(row, lanes) ==
    [c \in 0 .. lanes - 1 |-> IF c < NumChunks THEN PartVal(row, c) ELSE MinLogit]

SplitArgmax(row, lanes) == PartIdx(row, LeftMax(ChunkWinners(row, lanes)))

GreedyArgmax(row) == SplitArgmax(row, NextPow2(NumChunks))

-----------------------------------------------------------------------------
(* Top-p.                                                                  *)

Mass(row, S) ==
    LET upTo[n \in 0 .. VocabSize] ==
            IF n = 0 THEN 0
            ELSE upTo[n - 1] + (IF n - 1 \in S THEN Pow2[row[n - 1] - MinLogit] ELSE 0)
    IN  upTo[VocabSize]

\* u comes before v in torch.sort(descending); equal masses come in the order of
\* tie.
Before(row, tie, u, v) ==
    \/ row[u] > row[v]
    \/ row[u] = row[v] /\ tie[u] < tie[v]

Place(row, tie, v) == 1 + Cardinality({u \in Vocab : Before(row, tie, u, v)})

SortedIndices(row, tie) ==
    [k \in 1 .. VocabSize |-> CHOOSE v \in Vocab : Place(row, tie, v) = k]

\* cumulative_probs > top_p, at place k of the sorted tokens.
PastTopP(row, top_p, order, k) ==
    10 * Mass(row, {order[j] : j \in 1 .. k}) > top_p * Mass(row, Vocab)

\* Mutant: the mask is not shifted.
NucleusUnshifted(row, top_p, order) ==
    {order[k] : k \in {k \in 1 .. VocabSize :
                          top_p < 10 => k = 1 \/ ~PastTopP(row, top_p, order, k)}}
\* The tokens multinomial draws from: the mask is shifted by one, so that the
\* token that crosses top_p stays, and its first place is cleared.
Nucleus(row, top_p, order) ==
    {order[k] : k \in {k \in 1 .. VocabSize :
                          top_p < 10 => k = 1 \/ ~PastTopP(row, top_p, order, k - 1)}}
=============================================================================
