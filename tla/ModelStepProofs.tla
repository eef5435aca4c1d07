--------------------------- MODULE ModelStepProofs --------------------------
(***************************************************************************)
(* A step of the model gives every sequence the token that its own prefix  *)
(* calls for, for every number of layers and heads, batch, bucket,         *)
(* vocabulary and size of a program.                                       *)
(*                                                                         *)
(* First greedy decoding: on the eager and on the captured path, in every  *)
(* argmax mode, a request at temperature 0 gets the first maximum of its   *)
(* logits.  It rests on the two argmax kernels of a captured step, the     *)
(* maximum of each chunk and the maximum of the chunks' maxima, which find *)
(* the first maximum of every row with any number of lanes that has room   *)
(* for the chunks.                                                         *)
(*                                                                         *)
(* Next top-p: a request at a positive temperature draws from the top of   *)
(* its distribution.  A token's place in the sorted order is one more than *)
(* the number of tokens before it, so that the places are the tokens',     *)
(* and the shifted mask cuts where the mass first passes top_p.            *)
(*                                                                         *)
(* Then the pass that the logits come from: PassInv says what every tensor *)
(* of a pass and every cell of the cache hold at every operation, and with *)
(* it the cache agrees with the sequences in every layer, and logits are   *)
(* computed from all of the prefix of a sequence and nothing else.  Both   *)
(* hold as long as StepFits does, a condition that the code leaves to      *)
(* whoever sets the budget of a step.                                      *)
(***************************************************************************)
EXTENDS ModelStep, OrderedKeysProofs

-----------------------------------------------------------------------------
(* The argmax kernels.                                                     *)

\* i is the first index of 0 .. n at which f is greatest.
IsLeftMax(f, n, i) ==
    /\ i \in 0 .. n
    /\ \A j \in 0 .. n : f[j] <= f[i]
    /\ \A j \in 0 .. n : j < i => f[j] < f[i]

\* Integers in a row have a first maximum.
LEMMA LeftMaxExists ==
    ASSUME NEW n \in Nat, NEW f, \A j \in 0 .. n : f[j] \in Int
    PROVE  \E i \in 0 .. n : IsLeftMax(f, n, i)
<1> DEFINE Without == {m \in 0 .. n : ~ \E i \in 0 .. m : IsLeftMax(f, m, i)}
<1>1. SUFFICES ASSUME Without # {}
               PROVE  FALSE
    BY <1>1
<1>2. Without \in SUBSET Nat
    OBVIOUS
<1> HIDE DEF Without
<1>3. PICK m \in Without : \A l \in Without : m <= l
    BY <1>1, <1>2, LeastNat
<1>4. m \in 0 .. n /\ ~ \E i \in 0 .. m : IsLeftMax(f, m, i)
    BY <1>3 DEF Without
<1>5. m # 0
    <2>1. IsLeftMax(f, 0, 0)
        BY DEF IsLeftMax
    <2>2. QED
        BY <1>4, <2>1
<1>6. PICK i \in 0 .. m - 1 : IsLeftMax(f, m - 1, i)
    <2>1. m - 1 \in 0 .. n /\ m - 1 \notin Without
        BY <1>3, <1>4, <1>5
    <2>2. QED
        BY <2>1 DEF Without
<1>7. \A j \in 0 .. m : f[j] \in Int /\ (j \in 0 .. m - 1 \/ j = m)
    BY <1>4
<1>8. CASE f[m] <= f[i]
    <2>1. IsLeftMax(f, m, i)
        BY <1>4, <1>6, <1>7, <1>8 DEF IsLeftMax
    <2>2. QED
        BY <1>4, <1>6, <2>1
<1>9. CASE f[m] > f[i]
    <2>1. IsLeftMax(f, m, m)
        BY <1>4, <1>6, <1>7, <1>9 DEF IsLeftMax
    <2>2. QED
        BY <1>4, <2>1
<1>10. f[m] \in Int /\ f[i] \in Int
    BY <1>4, <1>6, <1>7
<1>11. QED
    BY <1>8, <1>9, <1>10

LEMMA LeftMaxIsLeftMax ==
    ASSUME NEW n \in Nat, NEW f, DOMAIN f = 0 .. n, \A j \in 0 .. n : f[j] \in Int
    PROVE  IsLeftMax(f, n, LeftMax(f))
  BY LeftMaxExists DEF LeftMax, IsLeftMax

-----------------------------------------------------------------------------
(* Chunks.                                                                 *)

\* Chunks cover the columns, and the first column of each is in the row.
LEMMA ChunksCover ==
    /\ NumChunks \in Nat \ {0}
    /\ \A v \in Vocab : /\ v \div ArgmaxBlock \in 0 .. NumChunks - 1
                        /\ v % ArgmaxBlock \in 0 .. ArgmaxBlock - 1
                        /\ v = (v \div ArgmaxBlock) * ArgmaxBlock + (v % ArgmaxBlock)
    /\ \A c \in 0 .. NumChunks - 1 : c * ArgmaxBlock \in Vocab
<1> DEFINE B == ArgmaxBlock
           V == VocabSize
<1>1. V \in Nat \ {0} /\ B \in Nat \ {0}
    BY VocabAssumption
<1>2. /\ NumChunks \in Nat
      /\ NumChunks * B <= V + B - 1
      /\ V - 1 < NumChunks * B
    <2>1. V + B - 1 \in Nat /\ NumChunks = (V + B - 1) \div B
        BY <1>1 DEF NumChunks
    <2> HIDE DEF B, V
    <2>2. QED
        BY <1>1, <2>1
<1> HIDE DEF B, V
<1>3. \A a \in Nat, b \in Nat : a < b => a * B + B <= b * B
    <2>1. TAKE a \in Nat, b \in Nat
    <2>2. HAVE a < b
    <2>3. PICK d \in Nat : b = a + 1 + d
        BY <2>2, b = a + 1 + (b - a - 1)
    <2>4. b * B = a * B + B + d * B /\ d * B \in Nat
        BY <1>1, <2>3
    <2>5. a * B \in Nat
        BY <1>1
    <2>6. QED
        BY <1>1, <2>4, <2>5
<1>4. NumChunks # 0
    BY <1>1, <1>2
<1>5. ASSUME NEW v \in 0 .. V - 1
      PROVE  /\ v \div B \in 0 .. NumChunks - 1
             /\ v % B \in 0 .. B - 1
             /\ v = (v \div B) * B + (v % B)
    <2>1. /\ v \div B \in Nat
          /\ v % B \in 0 .. B - 1
          /\ v = (v \div B) * B + (v % B)
        BY <1>1
    <2>2. ~ (NumChunks <= v \div B)
        <3>1. SUFFICES ASSUME NumChunks <= v \div B
                       PROVE  FALSE
            BY <3>1
        <3>2. NumChunks * B <= (v \div B) * B
            BY <1>1, <1>2, <1>3, <2>1, <3>1
        <3>3. (v \div B) * B \in Nat /\ NumChunks * B \in Nat
            BY <1>1, <1>2, <2>1
        <3>4. QED
            BY <1>1, <1>2, <2>1, <3>2, <3>3
    <2>3. QED
        BY <1>2, <2>1, <2>2
<1>6. ASSUME NEW c \in 0 .. NumChunks - 1
      PROVE  c * B \in 0 .. V - 1
    <2>1. c * B + B <= NumChunks * B /\ c * B \in Nat /\ NumChunks * B \in Nat
        BY <1>1, <1>2, <1>3
    <2>2. QED
        BY <1>1, <1>2, <2>1
<1>7. QED
    BY <1>2, <1>4, <1>5, <1>6 DEF Vocab, B, V

\* The first maximum of a chunk is a column of the row, and the program stores
\* its logit: a masked lane comes after the first and is not greater.
LEMMA ChunkMaximum ==
    ASSUME NEW row \in [Vocab -> Int], \A v \in Vocab : row[v] >= MinLogit,
           NEW c \in 0 .. NumChunks - 1
    PROVE  LET l == LeftMax(Chunk(row, c))
           IN  /\ l \in 0 .. ArgmaxBlock - 1
               /\ PartIdx(row, c) = c * ArgmaxBlock + l
               /\ PartIdx(row, c) \in Vocab
               /\ PartVal(row, c) = row[PartIdx(row, c)]
               /\ \A j \in 0 .. ArgmaxBlock - 1 : c * ArgmaxBlock + j \in Vocab =>
                     /\ row[c * ArgmaxBlock + j] <= PartVal(row, c)
                     /\ j < l => row[c * ArgmaxBlock + j] < PartVal(row, c)
<1> DEFINE B == ArgmaxBlock
           f == Chunk(row, c)
           l == LeftMax(f)
<1>1. B \in Nat \ {0} /\ VocabSize \in Nat \ {0} /\ MinLogit \in Int
    BY VocabAssumption, LogitAssumption
<1>2. c * B \in Vocab /\ c * B \in Nat
    BY ChunksCover, SMTT(30) DEF Vocab
<1>3. \A j \in 0 .. B - 1 : c * B + j < VocabSize <=> c * B + j \in Vocab
    BY <1>1, <1>2 DEF Vocab
<1>4. /\ DOMAIN f = 0 .. B - 1
      /\ \A j \in 0 .. B - 1 :
            f[j] = IF c * B + j \in Vocab THEN row[c * B + j] ELSE MinLogit
    BY <1>3 DEF Chunk
<1>5. \A j \in 0 .. B - 1 : f[j] \in Int
    BY <1>1, <1>4
<1> HIDE DEF f, B
<1>6. IsLeftMax(f, B - 1, l)
    BY <1>1, <1>4, <1>5, LeftMaxIsLeftMax
<1> HIDE DEF l
<1>7. 0 \in 0 .. B - 1 /\ f[0] >= MinLogit
    <2>1. 0 \in 0 .. B - 1 /\ c * B + 0 = c * B
        BY <1>1, <1>2
    <2>2. f[0] = row[c * B]
        BY <1>2, <1>4, <2>1
    <2>3. QED
        BY <1>2, <2>1, <2>2
<1>8. l \in 0 .. B - 1 /\ c * B + l \in Vocab
    <2>1. l \in 0 .. B - 1 /\ f[0] <= f[l] /\ (0 < l => f[0] < f[l])
        BY <1>6, <1>7 DEF IsLeftMax
    <2>2. CASE l = 0
        BY <1>2, <2>1, <2>2
    <2>3. CASE l # 0 /\ c * B + l \notin Vocab
        <3>1. f[l] = MinLogit
            BY <1>4, <2>1, <2>3
        <3>2. 0 < l
            BY <1>1, <2>1, <2>3
        <3>3. QED
            BY <1>1, <1>5, <1>7, <2>1, <3>1, <3>2
    <2>4. QED
        BY <2>1, <2>2, <2>3
<1>9. PartIdx(row, c) = c * B + l /\ PartVal(row, c) = f[l]
    BY DEF PartIdx, PartVal, l, f, B
<1>10. PartVal(row, c) = row[PartIdx(row, c)]
    BY <1>4, <1>8, <1>9
<1>11. \A j \in 0 .. B - 1 : c * B + j \in Vocab =>
          /\ row[c * B + j] <= f[l]
          /\ j < l => row[c * B + j] < f[l]
    BY <1>4, <1>6 DEF IsLeftMax
<1>12. QED
    BY <1>8, <1>9, <1>10, <1>11 DEF l, f, B

-----------------------------------------------------------------------------
(* The row.                                                                *)

\* greedy_argmax (kernels/argmax.py), run as the last kernels of a captured
\* step, gives the token that torch.argmax gives in an eager one: the lowest
\* index of a greatest logit, whatever ties there are inside a chunk and between
\* chunks, and however much of the last chunk and of the lanes is masked.
THEOREM ArgmaxKernelsFindFirstMaximum ==
    ASSUME NEW row \in [Vocab -> Int], \A v \in Vocab : row[v] >= MinLogit,
           NEW lanes \in Nat, NumChunks <= lanes
    PROVE  LET w == SplitArgmax(row, lanes)
           IN  /\ w \in Vocab
               /\ \A v \in Vocab : /\ row[v] <= row[w]
                                   /\ v < w => row[v] < row[w]
<1> DEFINE B == ArgmaxBlock
           g == ChunkWinners(row, lanes)
           c == LeftMax(g)
           w == SplitArgmax(row, lanes)
<1>1. B \in Nat \ {0} /\ MinLogit \in Int
    BY VocabAssumption, LogitAssumption
<1>2. NumChunks \in Nat \ {0}
    BY ChunksCover
<1>3. \A d \in 0 .. NumChunks - 1 :
          PartVal(row, d) \in Int /\ PartVal(row, d) >= MinLogit
    BY ChunkMaximum
<1>4. /\ DOMAIN g = 0 .. lanes - 1
      /\ \A d \in 0 .. lanes - 1 :
            g[d] = IF d < NumChunks THEN PartVal(row, d) ELSE MinLogit
    BY DEF ChunkWinners
<1> HIDE DEF g
<1>5. \A d \in 0 .. lanes - 1 : g[d] \in Int
    BY <1>1, <1>2, <1>3, <1>4
<1>6. lanes - 1 \in Nat
    BY <1>2
<1>7. IsLeftMax(g, lanes - 1, c)
    BY <1>4, <1>5, <1>6, LeftMaxIsLeftMax
<1>8. w = PartIdx(row, c)
    BY DEF SplitArgmax, g
<1> HIDE DEF c, w
<1>9. c \in 0 .. NumChunks - 1
    <2>1. c \in 0 .. lanes - 1 /\ g[0] <= g[c] /\ (0 < c => g[0] < g[c])
        BY <1>2, <1>6, <1>7 DEF IsLeftMax
    <2>2. 0 \in 0 .. lanes - 1 /\ g[0] >= MinLogit /\ g[0] \in Int
        BY <1>2, <1>3, <1>4, <1>5, <1>6
    <2>3. CASE ~ (c < NumChunks)
        <3>1. g[c] = MinLogit /\ 0 < c
            BY <1>2, <1>4, <2>1, <2>3
        <3>2. QED
            BY <1>1, <2>1, <2>2, <3>1
    <2>4. QED
        BY <1>2, <2>1, <2>3
<1>10. g[c] = PartVal(row, c) /\ w \in Vocab /\ row[w] = g[c]
    BY <1>4, <1>2, <1>8, <1>9, ChunkMaximum
<1>11. ASSUME NEW v \in Vocab
       PROVE  /\ row[v] <= row[w]
              /\ v < w => row[v] < row[w]
    <2> DEFINE d == v \div B
               j == v % B
               l == LeftMax(Chunk(row, c))
    <2>1. /\ d \in 0 .. NumChunks - 1 /\ j \in 0 .. B - 1
          /\ v = d * B + j
        BY ChunksCover
    <2>2. l \in 0 .. B - 1 /\ w = c * B + l
        BY <1>8, <1>9, ChunkMaximum
    <2> HIDE DEF d, j, l
    <2>3. d \in 0 .. lanes - 1 /\ g[d] = PartVal(row, d) /\ g[d] \in Int
        BY <1>2, <1>3, <1>4, <2>1
    <2>4. row[v] <= g[d]
        BY <2>1, <2>3, ChunkMaximum
    <2>5. row[v] \in Int /\ g[c] \in Int
        BY <1>5, <1>7 DEF IsLeftMax
    <2>6. g[d] <= g[c]
        BY <1>7, <2>3 DEF IsLeftMax
    <2>7. row[v] <= row[w]
        BY <1>10, <2>3, <2>4, <2>5, <2>6
    <2>8. ASSUME v < w
          PROVE  row[v] < row[w]
        <3>1. CASE d < c
            <4>1. g[d] < g[c]
                BY <1>7, <2>3, <3>1 DEF IsLeftMax
            <4>2. QED
                BY <1>10, <2>3, <2>4, <2>5, <4>1
        <3>2. CASE d = c
            <4>1. j < l
                BY <1>1, <1>9, <2>1, <2>2, <2>8, <3>2
            <4>2. QED
                BY <1>9, <1>10, <2>1, <3>2, <4>1, ChunkMaximum DEF l
        <3>3. CASE c < d
            <4>1. PICK e \in Nat : d = c + 1 + e
                BY <1>9, <2>1, <3>3, d = c + 1 + (d - c - 1)
            <4>2. d * B = c * B + B + e * B /\ e * B \in Nat /\ c * B \in Nat
                BY <1>1, <1>9, <4>1
            <4>3. QED
                BY <1>1, <2>1, <2>2, <2>8, <4>2
        <3>4. QED
            BY <1>9, <2>1, <3>1, <3>2, <3>3
    <2>9. QED
        BY <2>7, <2>8
<1>12. QED
    BY <1>10, <1>11 DEF w

-----------------------------------------------------------------------------
(* A step of the model runner.                                             *)

\* w is the lowest index of a greatest logit of row.
FirstMaximum(row, w) ==
    /\ w \in Vocab
    /\ \A v \in Vocab : row[v] <= row[w]
    /\ \A v \in Vocab : v < w => row[v] < row[w]

\* torch.argmax.
LEMMA TorchArgmax ==
    ASSUME NEW row \in LogitRows
    PROVE  FirstMaximum(row, LeftMax(row))
<1>1. VocabSize - 1 \in Nat /\ Vocab = 0 .. VocabSize - 1
    BY VocabAssumption DEF Vocab
<1>2. DOMAIN row = 0 .. VocabSize - 1 /\ \A v \in 0 .. VocabSize - 1 : row[v] \in Int
    BY <1>1, RowsAssumption
<1>3. IsLeftMax(row, VocabSize - 1, LeftMax(row))
    BY <1>1, <1>2, LeftMaxIsLeftMax
<1>4. QED
    BY <1>1, <1>3 DEF IsLeftMax, FirstMaximum

\* The argmax of a captured step, in each mode.
LEMMA GraphArgmax ==
    ASSUME NEW row \in LogitRows
    PROVE  FirstMaximum(row, GraphToken(row))
<1>1. CASE greedy_argmax = "triton"
    <2>1. GraphToken(row) = SplitArgmax(row, NextPow2(NumChunks))
        BY <1>1 DEF GraphToken, GreedyArgmax
    <2>2. row \in [Vocab -> Int] /\ \A v \in Vocab : row[v] >= MinLogit
        BY RowsAssumption
    <2>3. NextPow2(NumChunks) \in Nat /\ NumChunks <= NextPow2(NumChunks)
        BY ChunksCover, NextPow2IsLeast
    <2>4. QED
        BY <2>1, <2>2, <2>3, ArgmaxKernelsFindFirstMaximum DEF FirstMaximum
<1>2. CASE greedy_argmax # "triton"
    BY <1>2, TorchArgmax DEF GraphToken
<1>3. QED
    BY <1>1, <1>2

\* Only the sampler leaves a step with its tokens sampled.
LEMMA ForwardDoesNotSample ==
    ASSUME FwdNext, pc # "sampled"
    PROVE  pc' # "sampled"
<1>1. CASE SizingForward \/ AllocKVTensors
    BY <1>1 DEF SizingForward, AllocKVTensors, StartPass
<1>2. CASE \E b \in Batches : ExecuteModel(b)
    BY <1>2 DEF ExecuteModel, StartPass
<1>3. CASE Layer
    <2>1. CASE InputNorm \/ PostAttentionNorm
        BY <2>1 DEF InputNorm, PostAttentionNorm, Norm
    <2>2. CASE QKVProj
        BY <2>2 DEF QKVProj
    <2>3. CASE RopeTorch
        BY <2>3 DEF RopeTorch
    <2>4. CASE Attend
        BY <2>4 DEF Attend
    <2>5. CASE MLP
        BY <2>5 DEF MLP
    <2>6. CASE \E i \in DOMAIN rows : \E h \in 0 .. NumHeads - 1 : RopeProgram(i, h)
        BY <2>6 DEF RopeProgram
    <2>7. QED
        BY <1>3, <2>1, <2>2, <2>3, <2>4, <2>5, <2>6 DEF Layer
<1>4. CASE FinalNorm
    BY <1>4 DEF FinalNorm, Norm
<1>5. CASE EndSizing \/ EndWarmup \/ PassRaises
    BY <1>5 DEF EndSizing, EndWarmup, PassRaises, EndPass, StartPass
<1>6. QED
    BY <1>1, <1>2, <1>3, <1>4, <1>5 DEF FwdNext

\* The forward pass takes no step between sampling and delivery.
LEMMA ForwardWaitsForDelivery ==
    ASSUME pc = "sampled"
    PROVE  ~FwdNext
<1>1. ~ (SizingForward \/ AllocKVTensors \/ \E b \in Batches : ExecuteModel(b))
    BY DEF SizingForward, AllocKVTensors, ExecuteModel
<1>2. ~Layer
    BY DEF Layer, InputNorm, PostAttentionNorm, QKVProj, RopeTorch, Attend, MLP, RopeProgram
<1>3. ~ (FinalNorm \/ EndSizing \/ EndWarmup \/ PassRaises)
    BY DEF FinalNorm, EndSizing, EndWarmup, PassRaises
<1>4. QED
    BY <1>1, <1>2, <1>3 DEF FwdNext

\* What Sample leaves behind.
LEMMA SampleIsGreedy ==
    ASSUME Sample
    PROVE  GreedyIsFirstMaximum'
<1>1. batch' = batch
    BY DEF Sample, inputVars
<1>2. SUFFICES ASSUME NEW i \in DOMAIN batch, params'[i].temperature = "zero"
               PROVE  FirstMaximum(logits'[i], sampled'[i])
    BY <1>1 DEF GreedyIsFirstMaximum, FirstMaximum
<1>3. logits'[i] \in LogitRows
    BY DEF Sample
<1>4. sampled'[i] \in candidates'[i]
    BY DEF Sample
<1>5. candidates'[i] = {GraphToken(logits'[i])} \/ candidates'[i] = {LeftMax(logits'[i])}
    BY <1>2 DEF Sample, SamplerDraws
<1>6. FirstMaximum(logits'[i], GraphToken(logits'[i]))
    BY <1>3, GraphArgmax
<1>7. FirstMaximum(logits'[i], LeftMax(logits'[i]))
    BY <1>3, TorchArgmax
<1>8. QED
    BY <1>4, <1>5, <1>6, <1>7

\* A request at temperature 0 gets the first maximum of its logits, alone or in
\* a batch with sampled requests, eager or captured: execute_model and the
\* comment of argmax.py:10-11, for every size of everything.
THEOREM GreedyIsExact == StepSpec => []GreedyIsFirstMaximum
<1>1. StepInit => GreedyIsFirstMaximum
    BY DEF StepInit, FwdInit, GreedyIsFirstMaximum
<1>2. ASSUME GreedyIsFirstMaximum, [StepNext]_stepVars
      PROVE  GreedyIsFirstMaximum'
    <2>1. CASE FwdNext /\ UNCHANGED <<greedy_argmax, sampleVars>>
        BY <2>1, ForwardDoesNotSample, ForwardWaitsForDelivery DEF GreedyIsFirstMaximum
    <2>2. CASE Sample
        BY <2>2, SampleIsGreedy
    <2>3. CASE Deliver
        BY <2>3 DEF Deliver, EndStep, EndPass, GreedyIsFirstMaximum
    <2>4. CASE UNCHANGED stepVars
        BY <1>2, <2>4 DEF stepVars, fwdVars, inputVars, sampleVars, GreedyIsFirstMaximum
    <2>5. QED
        BY <1>2, <2>1, <2>2, <2>3, <2>4 DEF StepNext
<1>3. QED
    BY <1>1, <1>2, PTL DEF StepSpec

-----------------------------------------------------------------------------
(* Top-p: masses, the sorted tokens, and the shifted mask.                 *)

\* A mass is a natural number.
LEMMA PowersAreNats == \A h \in Nat : Pow2[h] \in Nat
<1> DEFINE X == {h \in Nat : Pow2[h] \in Nat}
<1>1. 0 \in X
    BY Pow2Unfolds
<1>2. ASSUME NEW h \in Nat, h \in X PROVE h + 1 \in X
    BY <1>2, Pow2Unfolds
<1> HIDE DEF X
<1>3. Nat \subseteq X
    BY <1>1, <1>2, NatSetInduction
<1>4. QED
    BY <1>3 DEF X

\* The weight of the token at a place of the row, in a set of tokens.
Weight(row, S, i) == IF i - 1 \in S THEN Pow2[row[i - 1] - MinLogit] ELSE 0

\* Mass adds up the weights.
LEMMA MassAdds ==
    ASSUME NEW row, NEW S
    PROVE  \E f : /\ SumsUpTo(VocabSize, [i \in 1 .. VocabSize |-> Weight(row, S, i)], f)
                  /\ Mass(row, S) = f[VocabSize]
<1> DEFINE w == [i \in 1 .. VocabSize |-> Weight(row, S, i)]
           Solves(f) ==
               f = [n \in 0 .. VocabSize |->
                       IF n = 0 THEN 0
                       ELSE f[n - 1] + (IF n - 1 \in S THEN Pow2[row[n - 1] - MinLogit] ELSE 0)]
<1>1. VocabSize \in Nat
    BY VocabAssumption
<1>2. \A i \in 1 .. VocabSize :
          w[i] = IF i - 1 \in S THEN Pow2[row[i - 1] - MinLogit] ELSE 0
    BY DEF Weight
<1> HIDE DEF w
<1>3. ASSUME NEW f PROVE Solves(f) <=> SumsUpTo(VocabSize, w, f)
  <2>1. \A n \in 0 .. VocabSize :
            (IF n = 0 THEN 0 ELSE f[n - 1] + w[n]) =
            (IF n = 0 THEN 0
             ELSE f[n - 1] + (IF n - 1 \in S THEN Pow2[row[n - 1] - MinLogit] ELSE 0))
      BY <1>1, <1>2
  <2>2. [n \in 0 .. VocabSize |-> IF n = 0 THEN 0 ELSE f[n - 1] + w[n]] =
        [n \in 0 .. VocabSize |->
             IF n = 0 THEN 0
             ELSE f[n - 1] + (IF n - 1 \in S THEN Pow2[row[n - 1] - MinLogit] ELSE 0)]
      BY <2>1
  <2>3. QED
      BY <2>2 DEF SumsUpTo
<1>4. \E f : Solves(f)
    BY <1>1, <1>3, SumsExist
<1>5. Mass(row, S) = (CHOOSE f : Solves(f))[VocabSize]
    BY DEF Mass
<1> HIDE DEF Solves
<1>6. Solves(CHOOSE f : Solves(f))
    BY <1>4
<1>7. QED
    BY <1>3, <1>5, <1>6 DEF w

\* More tokens, more mass.
LEMMA MassGrows ==
    ASSUME NEW row \in LogitRows, NEW S, NEW T, S \subseteq T
    PROVE  /\ Mass(row, S) \in Nat /\ Mass(row, T) \in Nat
           /\ Mass(row, S) <= Mass(row, T)
<1> DEFINE v == [i \in 1 .. VocabSize |-> Weight(row, S, i)]
           w == [i \in 1 .. VocabSize |-> Weight(row, T, i)]
<1>1. VocabSize \in Nat
    BY VocabAssumption
<1>2. \A i \in 1 .. VocabSize : v[i] \in Nat /\ w[i] \in Nat /\ v[i] <= w[i]
  <2>1. TAKE i \in 1 .. VocabSize
  <2>2. i - 1 \in Vocab
      BY <1>1 DEF Vocab
  <2>3. row[i - 1] - MinLogit \in Nat
      BY <2>2, RowsAssumption, LogitAssumption
  <2>4. Pow2[row[i - 1] - MinLogit] \in Nat
      BY <2>3, PowersAreNats
  <2>5. QED
      BY <2>4 DEF Weight
<1>3. PICK f : SumsUpTo(VocabSize, v, f) /\ Mass(row, S) = f[VocabSize]
    BY MassAdds
<1>4. PICK g : SumsUpTo(VocabSize, w, g) /\ Mass(row, T) = g[VocabSize]
    BY MassAdds
<1> HIDE DEF v, w
<1> DEFINE X == {n \in Nat : n <= VocabSize => f[n] \in Nat /\ g[n] \in Nat /\ f[n] <= g[n]}
<1>5. 0 \in X
    BY <1>1, <1>3, <1>4 DEF SumsUpTo
<1>6. ASSUME NEW n \in Nat, n \in X PROVE n + 1 \in X
  <2>1. SUFFICES ASSUME n + 1 <= VocabSize
                 PROVE  f[n + 1] \in Nat /\ g[n + 1] \in Nat /\ f[n + 1] <= g[n + 1]
      OBVIOUS
  <2>2. n + 1 \in 0 .. VocabSize /\ n + 1 # 0 /\ (n + 1) - 1 = n /\ n + 1 \in 1 .. VocabSize
      BY <1>1, <2>1
  <2>3. f[n + 1] = f[n] + v[n + 1] /\ g[n + 1] = g[n] + w[n + 1]
      BY <1>3, <1>4, <2>2 DEF SumsUpTo
  <2>4. f[n] \in Nat /\ g[n] \in Nat /\ f[n] <= g[n]
      BY <1>6, <1>1, <2>1
  <2>5. QED
      BY <1>2, <2>2, <2>3, <2>4
<1> HIDE DEF X
<1>7. VocabSize \in X
    BY <1>1, <1>5, <1>6, NatSetInduction
<1>8. QED
    BY <1>1, <1>3, <1>4, <1>7 DEF X

LEMMA NoMass == ASSUME NEW row \in LogitRows PROVE Mass(row, {}) = 0
<1> DEFINE w == [i \in 1 .. VocabSize |-> Weight(row, {}, i)]
<1>1. VocabSize \in Nat
    BY VocabAssumption
<1>2. PICK f : SumsUpTo(VocabSize, w, f) /\ Mass(row, {}) = f[VocabSize]
    BY MassAdds
<1>3. \A i \in 1 .. VocabSize : w[i] = 0
    BY DEF Weight
<1> HIDE DEF w
<1> DEFINE X == {n \in Nat : n <= VocabSize => f[n] = 0}
<1>4. 0 \in X
    BY <1>1, <1>2 DEF SumsUpTo
<1>5. ASSUME NEW n \in Nat, n \in X PROVE n + 1 \in X
  <2>1. SUFFICES ASSUME n + 1 <= VocabSize PROVE f[n + 1] = 0
      OBVIOUS
  <2>2. n + 1 \in 0 .. VocabSize /\ n + 1 # 0 /\ (n + 1) - 1 = n /\ n + 1 \in 1 .. VocabSize
      BY <1>1, <2>1
  <2>3. f[n + 1] = f[n] + w[n + 1] /\ f[n] = 0
      BY <1>1, <1>2, <1>5, <2>1, <2>2 DEF SumsUpTo
  <2>4. QED
      BY <1>3, <2>2, <2>3
<1> HIDE DEF X
<1>6. VocabSize \in X
    BY <1>1, <1>4, <1>5, NatSetInduction
<1>7. QED
    BY <1>1, <1>2, <1>6 DEF X

\* The tokens that come before v in the sorted order.
TokensBefore(row, tie, v) == {u \in Vocab : Before(row, tie, u, v)}

LEMMA VocabIsFinite ==
    /\ IsFiniteSet(Vocab) /\ Cardinality(Vocab) = VocabSize
    /\ IsFiniteSet(1 .. VocabSize) /\ Cardinality(1 .. VocabSize) = VocabSize
    /\ VocabSize \in Nat \ {0}
<1>1. VocabSize \in Nat \ {0} /\ 0 \in Int /\ 1 \in Int /\ VocabSize \in Int /\ VocabSize - 1 \in Int
    BY VocabAssumption
<1>2. IsFiniteSet(Vocab) /\ Cardinality(Vocab) = VocabSize
    BY <1>1, FS_Interval DEF Vocab
<1>3. IsFiniteSet(1 .. VocabSize) /\ Cardinality(1 .. VocabSize) = VocabSize
    BY <1>1, FS_Interval
<1>4. QED
    BY <1>1, <1>2, <1>3

\* Who comes before whom: a total order of the tokens.
LEMMA BeforeOrders ==
    ASSUME NEW row \in LogitRows, NEW tie \in Ties
    PROVE  /\ \A u \in Vocab : ~Before(row, tie, u, u)
           /\ \A u, v \in Vocab : u # v => Before(row, tie, u, v) \/ Before(row, tie, v, u)
           /\ \A u, v, w \in Vocab : Before(row, tie, u, v) /\ Before(row, tie, v, w)
                                         => Before(row, tie, u, w)
           /\ \A u, v \in Vocab : Before(row, tie, u, v) => row[u] >= row[v]
<1>1. \A v \in Vocab : row[v] \in Int
    BY RowsAssumption
<1>2. \A v \in Vocab : v \in Int
    BY VocabAssumption DEF Vocab
<1>3. (\A v \in Vocab : tie[v] = v) \/ (\A v \in Vocab : tie[v] = -v)
    BY DEF Ties
<1>4. \A u, v \in Vocab : tie[u] \in Int /\ (u # v => tie[u] # tie[v])
    BY <1>2, <1>3
<1>5. QED
    BY <1>1, <1>4 DEF Before

\* A token's place, and that of one that comes before it.
LEMMA PlacesOrdered ==
    ASSUME NEW row \in LogitRows, NEW tie \in Ties
    PROVE  /\ \A v \in Vocab : Place(row, tie, v) \in 1 .. VocabSize
           /\ \A u, v \in Vocab :
                  Before(row, tie, u, v) => Place(row, tie, u) < Place(row, tie, v)
           /\ \A u, v \in Vocab : u # v => Place(row, tie, u) # Place(row, tie, v)
<1>1. ASSUME NEW v \in Vocab
      PROVE  /\ IsFiniteSet(TokensBefore(row, tie, v))
             /\ Cardinality(TokensBefore(row, tie, v)) \in 0 .. VocabSize - 1
             /\ Place(row, tie, v) = 1 + Cardinality(TokensBefore(row, tie, v))
  <2>1. TokensBefore(row, tie, v) \in SUBSET (Vocab \ {v})
      BY BeforeOrders DEF TokensBefore
  <2>2. IsFiniteSet(Vocab \ {v}) /\ Cardinality(Vocab \ {v}) = VocabSize - 1
      BY VocabIsFinite, FS_RemoveElement
  <2>3. /\ IsFiniteSet(TokensBefore(row, tie, v))
        /\ Cardinality(TokensBefore(row, tie, v)) <= VocabSize - 1
      BY <2>1, <2>2, FS_Subset
  <2>4. Cardinality(TokensBefore(row, tie, v)) \in Nat
      BY <2>3, FS_CardinalityType
  <2>5. QED
      BY <2>3, <2>4, VocabIsFinite DEF Place, TokensBefore
<1>2. ASSUME NEW u \in Vocab, NEW v \in Vocab, Before(row, tie, u, v)
      PROVE  Place(row, tie, u) < Place(row, tie, v)
  <2>1. TokensBefore(row, tie, u) \in SUBSET TokensBefore(row, tie, v)
      BY <1>2, BeforeOrders DEF TokensBefore
  <2>2. u \in TokensBefore(row, tie, v) /\ u \notin TokensBefore(row, tie, u)
      BY <1>2, BeforeOrders DEF TokensBefore
  <2>3. Cardinality(TokensBefore(row, tie, u)) <= Cardinality(TokensBefore(row, tie, v))
      BY <1>1, <2>1, FS_Subset
  <2>4. Cardinality(TokensBefore(row, tie, u)) # Cardinality(TokensBefore(row, tie, v))
      BY <1>1, <2>1, <2>2, FS_Subset
  <2>5. QED
      BY <1>1, <2>3, <2>4, VocabIsFinite
<1>3. \A v \in Vocab : Place(row, tie, v) \in 1 .. VocabSize
    BY <1>1, VocabIsFinite
<1>4. ASSUME NEW u \in Vocab, NEW v \in Vocab, u # v
      PROVE  Place(row, tie, u) # Place(row, tie, v)
  <2>1. Place(row, tie, u) \in Int /\ Place(row, tie, v) \in Int
      BY <1>3, VocabIsFinite
  <2>2. Before(row, tie, u, v) \/ Before(row, tie, v, u)
      BY <1>4, BeforeOrders
  <2>3. Place(row, tie, u) < Place(row, tie, v) \/ Place(row, tie, v) < Place(row, tie, u)
      BY <1>2, <2>2
  <2>4. QED
      BY <2>1, <2>3
<1>5. QED
    BY <1>2, <1>3, <1>4

\* torch.sort puts every token at a place of its own.
LEMMA SortedInOrder ==
    ASSUME NEW row \in LogitRows, NEW tie \in Ties
    PROVE  LET order == SortedIndices(row, tie)
           IN  /\ \A h \in 1 .. VocabSize :
                      order[h] \in Vocab /\ Place(row, tie, order[h]) = h
               /\ \A v \in Vocab : order[Place(row, tie, v)] = v
<1> DEFINE order == SortedIndices(row, tie)
           place == [v \in Vocab |-> Place(row, tie, v)]
<1>1. place \in Injection(Vocab, 1 .. VocabSize)
  <2>1. place \in [Vocab -> 1 .. VocabSize]
      BY PlacesOrdered
  <2>2. \A u, v \in Vocab : place[u] = place[v] => u = v
      BY PlacesOrdered
  <2> HIDE DEF place
  <2>3. QED
      BY <2>1, <2>2 DEF Injection, IsInjective
<1>2. place \in Surjection(Vocab, 1 .. VocabSize)
  <2> HIDE DEF place
  <2>1. QED
      BY <1>1, VocabIsFinite, FS_Injection
<1>3. ASSUME NEW h \in 1 .. VocabSize
      PROVE  order[h] \in Vocab /\ Place(row, tie, order[h]) = h
  <2>1. \E v \in Vocab : place[v] = h
      BY <1>2 DEF Surjection
  <2>2. \E v \in Vocab : Place(row, tie, v) = h
      BY <2>1
  <2>3. order[h] = CHOOSE v \in Vocab : Place(row, tie, v) = h
      BY DEF SortedIndices
  <2> HIDE DEF order
  <2>4. QED
      BY <2>2, <2>3
<1>4. ASSUME NEW v \in Vocab PROVE order[Place(row, tie, v)] = v
  <2>1. Place(row, tie, v) \in 1 .. VocabSize
      BY PlacesOrdered
  <2> HIDE DEF order
  <2>2. QED
      BY <1>3, <2>1, PlacesOrdered
<1>5. QED
    BY <1>3, <1>4

\* What the tokens drawn at top_p are to a row of logits.
TopOf(row, p, S) ==
    /\ S \subseteq Vocab
    /\ S = Vocab \/ 10 * Mass(row, S) >= p * Mass(row, Vocab)
    /\ \A u \in S, v \in Vocab \ S : row[u] >= row[v]
    /\ \E u \in S : 10 * Mass(row, S \ {u}) <= p * Mass(row, Vocab)

\* A top_p of 1 or more leaves every token.
LEMMA EveryTokenKept ==
    ASSUME NEW row \in LogitRows, NEW p \in Nat, p >= 10
    PROVE  TopOf(row, p, Vocab)
<1>1. 0 \in Vocab
    BY VocabAssumption DEF Vocab
<1>2. PICK a \in Nat, b \in Nat : a = Mass(row, Vocab \ {0}) /\ b = Mass(row, Vocab) /\ a <= b
    BY MassGrows
<1>3. 10 * b <= p * b
    BY TimesMonotone
<1>4. 10 * a <= p * b
    BY <1>2, <1>3
<1>5. QED
    BY <1>1, <1>2, <1>4 DEF TopOf

\* The shifted mask keeps the least top of the sorted tokens that reaches top_p.
LEMMA NucleusIsTop ==
    ASSUME NEW row \in LogitRows, NEW tie \in Ties, NEW p \in Nat
    PROVE  TopOf(row, p, Nucleus(row, p, SortedIndices(row, tie)))
<1> DEFINE order == SortedIndices(row, tie)
           top(h) == {order[j] : j \in 1 .. h}
           past(h) == 10 * Mass(row, top(h)) > p * Mass(row, Vocab)
           K == {h \in 1 .. VocabSize : p < 10 => h = 1 \/ ~past(h - 1)}
           S == {order[h] : h \in K}
<1>1. Nucleus(row, p, order) = S
    BY DEF Nucleus, PastTopP
<1>2. /\ \A h \in 1 .. VocabSize : order[h] \in Vocab /\ Place(row, tie, order[h]) = h
      /\ \A v \in Vocab : Place(row, tie, v) \in 1 .. VocabSize /\ order[Place(row, tie, v)] = v
    BY SortedInOrder, PlacesOrdered
<1>3. VocabSize \in Nat \ {0}
    BY VocabIsFinite
<1> HIDE DEF order
<1>4. CASE p >= 10
  <2>1. K = 1 .. VocabSize
      BY <1>4
  <2>2. S = Vocab
      BY <1>2, <2>1
  <2> HIDE DEF S
  <2>3. QED
      BY <1>1, <1>4, <2>2, EveryTokenKept DEF order
<1>5. CASE p < 10
  <2>1. PICK M \in Nat : M = p * Mass(row, Vocab)
      BY MassGrows
  <2> DEFINE mass(h) == Mass(row, top(h))
  <2>2. \A j, h \in Nat : j <= h => mass(j) \in Nat /\ mass(h) \in Nat /\ mass(j) <= mass(h)
    <3>1. TAKE j, h \in Nat
    <3>2. HAVE j <= h
    <3>3. top(j) \subseteq top(h)
        BY <3>2
    <3> HIDE DEF top
    <3>4. QED
        BY <3>3, MassGrows
  <2>3. \A h \in Nat : past(h) <=> 10 * mass(h) > M
      BY <2>1
  <2> HIDE DEF mass, past
  <2>4. K = {h \in 1 .. VocabSize : h = 1 \/ ~past(h - 1)}
      BY <1>5
  <2>5. ASSUME NEW h \in K, NEW j \in 1 .. h PROVE j \in K
    <3>1. /\ h \in Nat /\ j \in Nat /\ j <= h /\ j \in 1 .. VocabSize /\ 1 <= j
          /\ j # 1 => j - 1 \in Nat /\ h - 1 \in Nat /\ j - 1 <= h - 1
        BY <1>3, <2>4
    <3>2. CASE j = 1
        BY <2>4, <3>1, <3>2
    <3>3. CASE j # 1
      <4>1. ~past(h - 1) /\ h # 1
          BY <2>4, <3>1, <3>3
      <4>2. mass(j - 1) \in Nat /\ mass(h - 1) \in Nat /\ mass(j - 1) <= mass(h - 1)
          BY <2>2, <3>1, <3>3
      <4>3. ~past(j - 1)
          BY <2>3, <3>1, <3>3, <4>1, <4>2
      <4>4. QED
          BY <2>4, <3>1, <4>3
    <3>4. QED
        BY <3>2, <3>3
  <2>6. 1 \in K
      BY <1>3, <2>4
  <2> DEFINE m == Max(K)
  <2>7. m \in K /\ \A h \in K : h <= m
    <3>1. K \in SUBSET (0 .. VocabSize) /\ K # {} /\ VocabSize \in Nat
        BY <1>3, <2>4, <2>6
    <3> HIDE DEF K
    <3>2. QED
        BY <3>1, MaxOfBounded
  <2> HIDE DEF m
  <2>8. m \in 1 .. VocabSize /\ m \in Nat
      BY <1>3, <2>4, <2>7
  <2>9. K = 1 .. m
    <3>1. \A h \in K : h \in 1 .. m
        BY <1>3, <2>4, <2>7, <2>8
    <3>2. \A j \in 1 .. m : j \in K
        BY <2>5, <2>7
    <3> HIDE DEF K
    <3>3. QED
        BY <3>1, <3>2
  <2>10. S = top(m)
      BY <2>9
  <2>11. \A h \in 1 .. VocabSize : order[h] \in S => h \in K
    <3>1. TAKE h \in 1 .. VocabSize
    <3>2. HAVE order[h] \in S
    <3>3. PICK j \in K : order[h] = order[j]
        BY <3>2
    <3>4. j \in 1 .. VocabSize
        BY <2>4
    <3>5. QED
        BY <1>2, <3>3, <3>4
  <2>12. S \subseteq Vocab
      BY <1>2, <2>4
  <2>13. S = Vocab \/ 10 * Mass(row, S) >= p * Mass(row, Vocab)
    <3>1. CASE m = VocabSize
      <4>1. \A v \in Vocab : v \in S
          BY <1>2, <2>9, <3>1
      <4> HIDE DEF S
      <4>2. QED
          BY <2>12, <4>1
    <3>2. CASE m # VocabSize
      <4>1. m + 1 \in 1 .. VocabSize /\ m + 1 \notin K /\ m + 1 # 1 /\ (m + 1) - 1 = m
        <5> HIDE DEF K
        <5>1. m + 1 \in 1 .. VocabSize /\ m + 1 # 1 /\ (m + 1) - 1 = m /\ m + 1 \notin 1 .. m
            BY <1>3, <2>8, <3>2
        <5>2. QED
            BY <2>9, <5>1
      <4>2. past(m)
          BY <2>4, <4>1
      <4>3. 10 * mass(m) > M /\ mass(m) \in Nat
          BY <2>2, <2>3, <2>8, <4>2
      <4> HIDE DEF S, top
      <4>4. QED
          BY <2>1, <2>10, <4>3 DEF mass
    <3>3. QED
        BY <3>1, <3>2
  <2>14. ASSUME NEW u \in S, NEW v \in Vocab \ S PROVE row[u] >= row[v]
    <3>1. PICK j \in K : u = order[j]
        OBVIOUS
    <3>2. j \in 1 .. VocabSize /\ u \in Vocab /\ Place(row, tie, u) = j
        BY <1>2, <2>4, <3>1
    <3> DEFINE h == Place(row, tie, v)
    <3>3. h \in 1 .. VocabSize /\ order[h] = v
        BY <1>2
    <3> HIDE DEF h
    <3>4. h \notin K
        BY <3>3
    <3> HIDE DEF S, K
    <3>5. ~(h < j)
        BY <1>3, <2>5, <3>1, <3>2, <3>3, <3>4
    <3>6. ~Before(row, tie, v, u)
        BY <3>2, <3>5, PlacesOrdered DEF h
    <3>7. u # v
        OBVIOUS
    <3>8. Before(row, tie, u, v)
        BY <3>2, <3>6, <3>7, BeforeOrders
    <3>9. QED
        BY <3>2, <3>8, BeforeOrders
  <2>15. \E u \in S : 10 * Mass(row, S \ {u}) <= p * Mass(row, Vocab)
    <3>1. order[m] \in S
        BY <2>7
    <3>2. CASE m = 1
      <4>1. S \ {order[m]} = {}
          BY <2>9, <3>2
      <4>2. 10 * Mass(row, S \ {order[m]}) <= M
        <5> HIDE DEF S
        <5>1. Mass(row, S \ {order[m]}) = 0
            BY <4>1, NoMass
        <5>2. QED
            BY <2>1, <5>1
      <4> HIDE DEF S
      <4>3. QED
          BY <2>1, <3>1, <4>2
    <3>3. CASE m # 1
      <4>1. m - 1 \in Nat /\ ~past(m - 1)
          BY <2>4, <2>7, <2>8, <3>3
      <4>2. 10 * mass(m - 1) <= M /\ mass(m - 1) \in Nat
          BY <2>1, <2>2, <2>3, <4>1
      <4>3. S \ {order[m]} \subseteq top(m - 1)
          BY <2>8, <2>9
      <4>4. PICK a \in Nat : a = Mass(row, S \ {order[m]}) /\ a <= mass(m - 1)
        <5> HIDE DEF S, top
        <5>1. QED
            BY <4>3, MassGrows DEF mass
      <4>5. 10 * Mass(row, S \ {order[m]}) <= M
          BY <4>2, <4>4
      <4> HIDE DEF S
      <4>6. QED
          BY <2>1, <3>1, <4>5
    <3>4. QED
        BY <3>2, <3>3
  <2> HIDE DEF S
  <2>16. TopOf(row, p, S)
      BY <2>12, <2>13, <2>14, <2>15 DEF TopOf
  <2>17. QED
      BY <1>1, <2>16 DEF order
<1>6. QED
    BY <1>4, <1>5

\* What Sample leaves behind to a sampled request.
LEMMA SampleKeepsNucleus ==
    ASSUME Sample
    PROVE  NucleusKept'
<1>1. batch' = batch
    BY DEF Sample, inputVars
<1>2. SUFFICES ASSUME NEW i \in DOMAIN batch, params'[i].temperature = "positive"
               PROVE  /\ sampled'[i] \in candidates'[i]
                      /\ TopOf(logits'[i], params'[i].top_p, candidates'[i])
    BY <1>1 DEF NucleusKept, TopOf
<1>3. logits'[i] \in LogitRows
    BY DEF Sample
<1>4. sampled'[i] \in candidates'[i]
    BY DEF Sample
<1>5. params'[i].top_p \in Nat
  <2>1. params'[i] \in SamplingParams
      BY DEF Sample
  <2>2. ASSUME NEW ps \in SamplingParams PROVE ps.top_p \in Nat
    <3>1. ps.top_p = 10 \/ ps.top_p \in TopPs
        BY DEF SamplingParams
    <3>2. \A x \in TopPs : x \in Nat
        BY TopPAssumption
    <3>3. ps.top_p \in TopPs => ps.top_p \in Nat
        BY <3>2, Zenon
    <3>4. QED
        BY <3>1, <3>3
  <2>3. QED
      BY <2>1, <2>2
<1>6. PICK tie \in Ties :
          candidates'[i] = Nucleus(logits'[i], params'[i].top_p, SortedIndices(logits'[i], tie))
  <2>1. ~AllGreedy(params')
    <3>1. DOMAIN params' = DOMAIN batch
        BY DEF Sample
    <3>2. QED
        BY <1>2, <3>1 DEF AllGreedy
  <2>2. QED
      BY <1>2, <2>1 DEF Sample, SamplerDraws
<1>7. QED
    BY <1>3, <1>4, <1>5, <1>6, NucleusIsTop

\* On every path, every sampled request draws from the top of its distribution:
\* the top-p branch of Sampler.forward, for every size of everything.
THEOREM NucleusIsKept == StepSpec => []NucleusKept
<1>1. StepInit => NucleusKept
    BY DEF StepInit, FwdInit, NucleusKept
<1>2. ASSUME NucleusKept, [StepNext]_stepVars
      PROVE  NucleusKept'
    <2>1. CASE FwdNext /\ UNCHANGED <<greedy_argmax, sampleVars>>
        BY <2>1, ForwardDoesNotSample, ForwardWaitsForDelivery DEF NucleusKept
    <2>2. CASE Sample
        BY <2>2, SampleKeepsNucleus
    <2>3. CASE Deliver
        BY <2>3 DEF Deliver, EndStep, EndPass, NucleusKept
    <2>4. CASE UNCHANGED stepVars
        BY <1>2, <2>4 DEF stepVars, fwdVars, inputVars, sampleVars, NucleusKept
    <2>5. QED
        BY <1>2, <2>1, <2>2, <2>3, <2>4 DEF StepNext
<1>3. QED
    BY <1>1, <1>2, PTL DEF StepSpec

-----------------------------------------------------------------------------
(* Sequences end to end.                                                   *)

\* The recursion in FlattenSeq.
FlattenStep(ss, f, i) == IF i = 1 THEN ss[i] ELSE f[i - 1] \o ss[i]

FlattenSolved(ss, n, f) == f = [i \in 1 .. n |-> FlattenStep(ss, f, i)]

LEMMA FlattenExists ==
    ASSUME NEW ss, NEW n \in Nat
    PROVE  \E f : FlattenSolved(ss, n, f)
<1> DEFINE X == {m \in Nat : \E f : FlattenSolved(ss, m, f)}
<1>1. 0 \in X
  <2>1. FlattenSolved(ss, 0, [i \in 1 .. 0 |-> 0])
      BY DEF FlattenSolved
  <2>2. QED
      BY <2>1
<1>2. ASSUME NEW m \in Nat, m \in X PROVE m + 1 \in X
  <2>1. PICK f : FlattenSolved(ss, m, f)
      BY <1>2
  <2> DEFINE g == [i \in 1 .. m + 1 |-> IF i <= m THEN f[i] ELSE FlattenStep(ss, f, i)]
  <2>2. \A i \in 1 .. m : f[i] = FlattenStep(ss, f, i)
      BY <2>1 DEF FlattenSolved
  <2>3. \A i \in 1 .. m + 1 : FlattenStep(ss, f, i) = FlattenStep(ss, g, i)
      BY DEF FlattenStep
  <2>4. \A i \in 1 .. m + 1 : g[i] = FlattenStep(ss, g, i)
      BY <2>2, <2>3
  <2>5. g = [i \in 1 .. m + 1 |-> g[i]]
      OBVIOUS
  <2> HIDE DEF g
  <2>6. FlattenSolved(ss, m + 1, g)
      BY <2>4, <2>5 DEF FlattenSolved
  <2>7. QED
      BY <2>6
<1> HIDE DEF X
<1>3. n \in X
    BY <1>1, <1>2, NatSetInduction
<1>4. QED
    BY <1>3 DEF X

LEMMA ConcatLays ==
    ASSUME NEW T, NEW a \in Seq(T), NEW b \in Seq(T)
    PROVE  /\ a \o b \in Seq(T) /\ Len(a \o b) = Len(a) + Len(b)
           /\ Len(a) \in Nat /\ Len(b) \in Nat
           /\ \A x \in 1 .. Len(a) : (a \o b)[x] = a[x]
           /\ \A m \in 1 .. Len(b) : (a \o b)[Len(a) + m] = b[m]
OBVIOUS

\* ss is n sequences, of which the i-th ends at e[i].
EndAt(T, ss, n, e) ==
    /\ n \in Nat \ {0} /\ Len(ss) = n /\ e[0] = 0
    /\ \A i \in 1 .. n : ss[i] \in Seq(T)
    /\ \A i \in 1 .. n : e[i] = e[i - 1] + Len(ss[i])

\* w is these n sequences, end to end.
LaidOut(w, T, n, ss, e) ==
    /\ w \in Seq(T) /\ Len(w) = e[n]
    /\ \A i \in 1 .. n : \A m \in 1 .. Len(ss[i]) : w[e[i - 1] + m] = ss[i][m]
    /\ \A x \in 1 .. e[n] : \E i \in 1 .. n : \E m \in 1 .. Len(ss[i]) : x = e[i - 1] + m

LEMMA FlattenLays ==
    ASSUME NEW T, NEW n, NEW ss, NEW e, EndAt(T, ss, n, e)
    PROVE  LaidOut(FlattenSeq(ss), T, n, ss, e)
<1> DEFINE f == CHOOSE g : FlattenSolved(ss, n, g)
<1>0. /\ n \in Nat \ {0} /\ Len(ss) = n /\ e[0] = 0
      /\ \A i \in 1 .. n : ss[i] \in Seq(T)
      /\ \A i \in 1 .. n : e[i] = e[i - 1] + Len(ss[i])
    BY DEF EndAt
<1> USE <1>0
<1>1. FlattenSolved(ss, n, f)
    BY FlattenExists
<1>2. FlattenSeq(ss) = f[n]
    BY DEF FlattenSeq, FlattenSolved, FlattenStep
<1> HIDE DEF f
<1>3. \A i \in 1 .. n : f[i] = FlattenStep(ss, f, i)
    BY <1>1 DEF FlattenSolved
<1> DEFINE Laid(j) ==
        /\ f[j] \in Seq(T) /\ Len(f[j]) = e[j] /\ e[j] \in Nat
        /\ \A i \in 1 .. j : \A m \in 1 .. Len(ss[i]) :
              /\ e[i - 1] \in Nat /\ e[i - 1] + m \in 1 .. e[j]
              /\ f[j][e[i - 1] + m] = ss[i][m]
        /\ \A x \in 1 .. e[j] : \E i \in 1 .. j : \E m \in 1 .. Len(ss[i]) : x = e[i - 1] + m
<1>4. Laid(1)
  <2>1. f[1] = ss[1] /\ ss[1] \in Seq(T) /\ e[0] = 0 /\ e[1] = e[0] + Len(ss[1])
    <3>1. 1 \in 1 .. n /\ 1 - 1 = 0
        OBVIOUS
    <3>2. f[1] = ss[1]
        BY <1>3, <3>1 DEF FlattenStep
    <3>3. QED
        BY <3>1, <3>2
  <2>2. Len(ss[1]) \in Nat /\ e[1] = Len(ss[1])
      BY <2>1
  <2>3. ASSUME NEW i \in 1 .. 1, NEW m \in 1 .. Len(ss[i])
        PROVE  /\ e[i - 1] \in Nat /\ e[i - 1] + m \in 1 .. e[1]
               /\ f[1][e[i - 1] + m] = ss[i][m]
    <3>1. i = 1 /\ i - 1 = 0
        OBVIOUS
    <3>2. m \in 1 .. Len(ss[1]) /\ 0 + m = m
        BY <3>1
    <3>3. QED
        BY <2>1, <2>2, <3>1, <3>2
  <2>4. ASSUME NEW x \in 1 .. e[1]
        PROVE  \E i \in 1 .. 1 : \E m \in 1 .. Len(ss[i]) : x = e[i - 1] + m
    <3>1. 1 \in 1 .. 1 /\ x \in 1 .. Len(ss[1]) /\ x = e[1 - 1] + x
        BY <2>1, <2>2
    <3>2. QED
        BY <3>1
  <2>5. QED
      BY <2>1, <2>2, <2>3, <2>4
<1>5. ASSUME NEW j \in Nat, j \in 1 .. n - 1, Laid(j) PROVE Laid(j + 1)
  <2>1. /\ j + 1 \in 1 .. n /\ (j + 1) - 1 = j /\ j + 1 # 1
        /\ ss[j + 1] \in Seq(T) /\ e[j + 1] = e[j] + Len(ss[j + 1])
    <3> HIDE DEF Laid
    <3>1. j + 1 \in 1 .. n /\ (j + 1) - 1 = j /\ j + 1 # 1
        BY <1>5
    <3>2. QED
        BY <3>1, SMTT(60)
  <2>2. f[j + 1] = f[j] \o ss[j + 1]
    <3>1. f[j + 1] = FlattenStep(ss, f, j + 1)
        BY <1>3, <2>1
    <3>2. QED
        BY <2>1, <3>1 DEF FlattenStep
  <2>3. f[j] \in Seq(T) /\ Len(f[j]) = e[j] /\ e[j] \in Nat
      BY <1>5
  <2>4. PICK a \in Seq(T), b \in Seq(T) : a = f[j] /\ b = ss[j + 1]
      BY <2>1, <2>3
  <2>5. /\ a \o b \in Seq(T) /\ Len(a \o b) = Len(a) + Len(b) /\ Len(b) \in Nat
        /\ \A x \in 1 .. Len(a) : (a \o b)[x] = a[x]
        /\ \A m \in 1 .. Len(b) : (a \o b)[Len(a) + m] = b[m]
      BY ConcatLays
  <2>6. f[j + 1] \in Seq(T) /\ Len(f[j + 1]) = e[j + 1] /\ e[j + 1] \in Nat
      BY <2>1, <2>2, <2>3, <2>4, <2>5, SMTT(30)
  <2>7. /\ \A x \in 1 .. e[j] : f[j + 1][x] = f[j][x]
        /\ \A m \in 1 .. Len(ss[j + 1]) : f[j + 1][e[j] + m] = ss[j + 1][m]
      BY <2>2, <2>3, <2>4, <2>5
  <2>8. e[j] <= e[j + 1] /\ Len(ss[j + 1]) \in Nat
      BY <2>1, <2>3, <2>4, <2>5
  <2>9. ASSUME NEW i \in 1 .. j + 1, NEW m \in 1 .. Len(ss[i])
        PROVE  /\ e[i - 1] \in Nat /\ e[i - 1] + m \in 1 .. e[j + 1]
               /\ f[j + 1][e[i - 1] + m] = ss[i][m]
    <3>1. CASE i = j + 1
      <4>1. i - 1 = j /\ m \in 1 .. Len(ss[j + 1])
          BY <2>1, <3>1
      <4>2. e[j] + m \in 1 .. e[j + 1]
        <5> HIDE DEF Laid
        <5>1. ASSUME NEW p \in Nat, NEW l \in Nat, NEW y \in 1 .. l PROVE p + y \in 1 .. p + l
            OBVIOUS
        <5>2. QED
            BY <2>1, <2>3, <2>8, <4>1, <5>1, SMTT(60)
      <4>3. QED
          BY <2>3, <2>7, <3>1, <4>1, <4>2
    <3>2. CASE i # j + 1
      <4>1. i \in 1 .. j
          BY <3>2
      <4>2. /\ e[i - 1] \in Nat /\ e[i - 1] + m \in 1 .. e[j]
            /\ f[j][e[i - 1] + m] = ss[i][m]
          BY <1>5, <4>1
      <4>3. \A y \in 1 .. e[j] : y \in 1 .. e[j + 1]
          BY <2>3, <2>6, <2>8, SMTT(30)
      <4>4. e[i - 1] + m \in 1 .. e[j + 1]
          BY <4>2, <4>3, Zenon
      <4>5. QED
          BY <2>7, <4>2, <4>4
    <3>3. QED
        BY <3>1, <3>2
  <2>10. ASSUME NEW x \in 1 .. e[j + 1]
         PROVE  \E i \in 1 .. j + 1 : \E m \in 1 .. Len(ss[i]) : x = e[i - 1] + m
    <3>1. CASE x \in 1 .. e[j]
      <4>1. PICK i \in 1 .. j : \E m \in 1 .. Len(ss[i]) : x = e[i - 1] + m
          BY <1>5, <3>1
      <4>2. i \in 1 .. j + 1
          OBVIOUS
      <4>3. QED
          BY <4>1, <4>2
    <3>2. CASE x \notin 1 .. e[j]
      <4>1. x - e[j] \in 1 .. Len(ss[j + 1]) /\ x = e[j] + (x - e[j])
        <5>1. PICK u \in Nat, v \in Nat : u = e[j] /\ v = Len(ss[j + 1])
            BY <2>3, <2>8
        <5>2. x \in 1 .. u + v /\ x \notin 1 .. u
            BY <2>1, <3>2, <5>1
        <5>3. x - u \in 1 .. v /\ x = u + (x - u)
            BY <5>2
        <5>4. QED
            BY <5>1, <5>3
      <4>2. j + 1 \in 1 .. j + 1
          OBVIOUS
      <4>3. QED
          BY <2>1, <4>1, <4>2
    <3>3. QED
        BY <3>1, <3>2
  <2>11. QED
      BY <2>6, <2>9, <2>10
<1> DEFINE X == {j \in Nat : j \in 1 .. n => Laid(j)}
<1> HIDE DEF Laid
<1>6. 0 \in X
    OBVIOUS
<1>7. ASSUME NEW j \in Nat, j \in X PROVE j + 1 \in X
  <2>1. CASE j = 0
      BY <1>4, <2>1
  <2>2. CASE j # 0
    <3>1. SUFFICES ASSUME j + 1 \in 1 .. n PROVE Laid(j + 1)
        OBVIOUS
    <3>2. j \in 1 .. n - 1 /\ j \in 1 .. n
        BY <2>2, <3>1
    <3>3. QED
        BY <1>5, <1>7, <3>2
  <2>3. QED
      BY <2>1, <2>2
<1> HIDE DEF X
<1>8. n \in X
    BY <1>6, <1>7, NatSetInduction
<1>9. Laid(n)
    BY <1>8 DEF X
<1>10. f[n] \in Seq(T) /\ Len(f[n]) = e[n]
    BY <1>9, Zenon DEF Laid
<1>11. \A i \in 1 .. n : \A m \in 1 .. Len(ss[i]) : f[n][e[i - 1] + m] = ss[i][m]
    BY <1>9, Zenon DEF Laid
<1>12. \A x \in 1 .. e[n] : \E i \in 1 .. n : \E m \in 1 .. Len(ss[i]) : x = e[i - 1] + m
    BY <1>9, Zenon DEF Laid
<1>13. LaidOut(f[n], T, n, ss, e)
    BY <1>10, <1>11, <1>12, Zenon DEF LaidOut
<1>14. QED
    BY <1>2, <1>13

-----------------------------------------------------------------------------
(* What is added up in a row.                                              *)

\* What may be added up in a row.
Tags == ({"attn", "mlp"} \X Nat) \cup ({"embed"} \X Int \X Int)

LEMMA TagsAre ==
    /\ \A m \in Nat : <<"attn", m>> \in Tags /\ <<"mlp", m>> \in Tags
    /\ \A s, p \in Int : <<"embed", s, p>> \in Tags
BY DEF Tags

\* What the layers below l have added to a row.
Added(l) == FlattenSeq([m \in 1 .. l - 1 |-> <<<<"attn", m>>, <<"mlp", m>>>>])

OfLayer(m) == <<<<"attn", m>>, <<"mlp", m>>>>

LEMMA AddedLays ==
    ASSUME NEW l \in Nat \ {0}
    PROVE  /\ Added(l) \in Seq(Tags) /\ Len(Added(l)) = 2 * (l - 1)
           /\ \A m \in 1 .. l - 1 : /\ Added(l)[2 * (m - 1) + 1] = <<"attn", m>>
                                    /\ Added(l)[2 * (m - 1) + 2] = <<"mlp", m>>
<1> DEFINE ss == [m \in 1 .. l - 1 |-> OfLayer(m)]
           e == [i \in 0 .. l - 1 |-> 2 * i]
<1>1. Added(l) = FlattenSeq(ss)
    BY DEF Added, OfLayer
<1>2. CASE l = 1
  <2>1. ss = << >> /\ Len(<< >>) = 0
      BY <1>2
  <2>2. PICK z \in Seq(Tags) : z = << >> /\ Len(z) = 0
      BY <2>1, EmptySeq
  <2>3. FlattenSeq(<< >>) = << >>
      BY <2>1 DEF FlattenSeq
  <2>4. Added(l) = z /\ l - 1 = 0
      BY <1>1, <1>2, <2>1, <2>2, <2>3
  <2>5. QED
      BY <2>2, <2>4
<1>3. CASE l # 1
  <2>1. PICK n \in Nat \ {0} : n = l - 1
      BY <1>3
  <2>2. Len(ss) = n /\ \A i \in 1 .. n : ss[i] = OfLayer(i)
      BY <2>1
  <2>3. e[0] = 0 /\ e[n] = 2 * n /\ \A i \in 1 .. n : e[i] = e[i - 1] + 2 /\ e[i - 1] = 2 * (i - 1)
      BY <2>1
  <2> HIDE DEF ss, e
  <2>4. ASSUME NEW m \in Nat
        PROVE  /\ OfLayer(m) \in Seq(Tags) /\ Len(OfLayer(m)) = 2
               /\ OfLayer(m)[1] = <<"attn", m>> /\ OfLayer(m)[2] = <<"mlp", m>>
    <3>1. PICK a \in Tags, b \in Tags : a = <<"attn", m>> /\ b = <<"mlp", m>>
        BY TagsAre
    <3>2. <<a, b>> \in Seq(Tags) /\ Len(<<a, b>>) = 2 /\ <<a, b>>[1] = a /\ <<a, b>>[2] = b
        OBVIOUS
    <3>3. QED
        BY <3>1, <3>2 DEF OfLayer
  <2>5. \A i \in 1 .. n : /\ ss[i] \in Seq(Tags) /\ Len(ss[i]) = 2
                         /\ ss[i][1] = <<"attn", i>> /\ ss[i][2] = <<"mlp", i>>
      BY <2>2, <2>4
  <2>6. /\ \A i \in 1 .. n : ss[i] \in Seq(Tags)
        /\ \A i \in 1 .. n : e[i] = e[i - 1] + Len(ss[i])
      BY <2>3, <2>5
  <2>7. /\ FlattenSeq(ss) \in Seq(Tags)
        /\ Len(FlattenSeq(ss)) = e[n]
        /\ \A i \in 1 .. n : \A m \in 1 .. Len(ss[i]) :
                 FlattenSeq(ss)[e[i - 1] + m] = ss[i][m]
    <3>1. EndAt(Tags, ss, n, e)
        BY <2>2, <2>3, <2>6 DEF EndAt
    <3>2. LaidOut(FlattenSeq(ss), Tags, n, ss, e)
        BY <3>1, FlattenLays, Zenon
    <3>3. QED
        BY <3>2, Zenon DEF LaidOut
  <2>8. ASSUME NEW i \in 1 .. n
        PROVE  /\ FlattenSeq(ss)[2 * (i - 1) + 1] = <<"attn", i>>
               /\ FlattenSeq(ss)[2 * (i - 1) + 2] = <<"mlp", i>>
    <3>1. 1 \in 1 .. Len(ss[i]) /\ 2 \in 1 .. Len(ss[i])
        BY <2>5
    <3>2. /\ FlattenSeq(ss)[e[i - 1] + 1] = ss[i][1]
          /\ FlattenSeq(ss)[e[i - 1] + 2] = ss[i][2]
        BY <2>7, <3>1
    <3>3. QED
        BY <2>3, <2>5, <3>2
  <2>9. QED
      BY <1>1, <2>1, <2>3, <2>7, <2>8
<1>4. QED
    BY <1>2, <1>3

LEMMA AddedGrows ==
    ASSUME NEW l \in Nat \ {0}
    PROVE  Added(l + 1) = Added(l) \o OfLayer(l)
<1>1. PICK u \in Seq(Tags), v \in Seq(Tags), o \in Seq(Tags) :
          u = Added(l) /\ v = Added(l + 1) /\ o = OfLayer(l)
  <2>1. Added(l) \in Seq(Tags) /\ Added(l + 1) \in Seq(Tags)
      BY AddedLays
  <2>2. PICK a \in Tags, b \in Tags : a = <<"attn", l>> /\ b = <<"mlp", l>>
      BY TagsAre
  <2>3. <<a, b>> \in Seq(Tags)
      OBVIOUS
  <2>4. OfLayer(l) \in Seq(Tags)
      BY <2>2, <2>3 DEF OfLayer
  <2>5. QED
      BY <2>1, <2>4
<1>2. Len(o) = 2 /\ o[1] = <<"attn", l>> /\ o[2] = <<"mlp", l>>
    BY <1>1 DEF OfLayer
<1>3. /\ Len(u) = 2 * (l - 1)
      /\ \A m \in 1 .. l - 1 : /\ u[2 * (m - 1) + 1] = <<"attn", m>>
                               /\ u[2 * (m - 1) + 2] = <<"mlp", m>>
    BY <1>1, AddedLays
<1>4. /\ Len(v) = 2 * l
      /\ \A m \in 1 .. l : /\ v[2 * (m - 1) + 1] = <<"attn", m>>
                           /\ v[2 * (m - 1) + 2] = <<"mlp", m>>
  <2>1. l + 1 \in Nat \ {0} /\ (l + 1) - 1 = l
      OBVIOUS
  <2>2. QED
      BY <1>1, <2>1, AddedLays
<1>5. /\ u \o o \in Seq(Tags) /\ Len(u \o o) = Len(u) + Len(o)
      /\ \A x \in 1 .. Len(u) : (u \o o)[x] = u[x]
      /\ \A m \in 1 .. Len(o) : (u \o o)[Len(u) + m] = o[m]
    BY ConcatLays
<1>6. PICK w \in Seq(Tags) : w = u \o o
    BY <1>5
<1>7. /\ Len(w) = 2 * l
      /\ \A x \in 1 .. 2 * (l - 1) : w[x] = u[x]
      /\ w[2 * (l - 1) + 1] = <<"attn", l>> /\ w[2 * (l - 1) + 2] = <<"mlp", l>>
  <2>1. /\ Len(w) = 2 * (l - 1) + 2
        /\ \A x \in 1 .. 2 * (l - 1) : w[x] = u[x]
        /\ \A m \in 1 .. 2 : w[2 * (l - 1) + m] = o[m]
      BY <1>2, <1>3, <1>5, <1>6
  <2>2. QED
      BY <1>2, <2>1
<1>8. ASSUME NEW x \in 1 .. 2 * l PROVE w[x] = v[x]
  <2>1. PICK m \in 1 .. l : x = 2 * (m - 1) + 1 \/ x = 2 * (m - 1) + 2
    <3>1. PICK c \in Nat : x = 2 * c + 1 \/ x = 2 * c + 2
      <4>1. (x - 1) \div 2 \in Nat /\ (x = 2 * ((x - 1) \div 2) + 1 \/ x = 2 * ((x - 1) \div 2) + 2)
          OBVIOUS
      <4>2. QED
          BY <4>1
    <3>2. c + 1 \in 1 .. l /\ (c + 1) - 1 = c
        BY <3>1
    <3>3. QED
        BY <3>1, <3>2
  <2>2. CASE m = l
      BY <1>4, <1>7, <2>1, <2>2
  <2>3. CASE m # l
    <3>1. m \in 1 .. l - 1 /\ x \in 1 .. 2 * (l - 1)
        BY <2>1, <2>3
    <3>2. QED
        BY <1>3, <1>4, <1>7, <2>1, <3>1
  <2>4. QED
      BY <2>2, <2>3
<1>9. w = v
    BY <1>4, <1>7, <1>8, SeqEqual
<1>10. QED
    BY <1>1, <1>6, <1>9

\* Concatenation, as an operator of its own.
Join(a, b) == a \o b

LEMMA PairIsTwo ==
    ASSUME NEW T, NEW x \in T, NEW y \in T
    PROVE  <<x>> \o <<y>> = <<x, y>>
<1>1. PICK a \in Seq(T), b \in Seq(T), c \in Seq(T) :
          /\ a = <<x>> /\ b = <<y>> /\ c = <<x, y>>
          /\ Len(a) = 1 /\ Len(b) = 1 /\ Len(c) = 2
          /\ a[1] = x /\ b[1] = y /\ c[1] = x /\ c[2] = y
  <2>1. <<x>> \in Seq(T) /\ Len(<<x>>) = 1 /\ <<x>>[1] = x
      OBVIOUS
  <2>2. <<y>> \in Seq(T) /\ Len(<<y>>) = 1 /\ <<y>>[1] = y
      OBVIOUS
  <2>3. <<x, y>> \in Seq(T) /\ Len(<<x, y>>) = 2 /\ <<x, y>>[1] = x /\ <<x, y>>[2] = y
      OBVIOUS
  <2>4. QED
      BY <2>1, <2>2, <2>3
<1>2. PICK w \in Seq(T) : w = a \o b
    BY ConcatLays
<1>3. Len(w) = 2 /\ w[1] = x /\ w[2] = y
  <2>1. /\ Len(a \o b) = Len(a) + Len(b)
        /\ \A i \in 1 .. Len(a) : (a \o b)[i] = a[i]
        /\ \A m \in 1 .. Len(b) : (a \o b)[Len(a) + m] = b[m]
      BY ConcatLays
  <2>2. Len(a) = 1 /\ Len(b) = 1 /\ a[1] = x /\ b[1] = y
      BY <1>1
  <2>3. QED
      BY <1>2, <2>1, <2>2
<1>4. Len(c) = 2 /\ c[1] = x /\ c[2] = y
    BY <1>1
<1>5. w = c
    BY <1>3, <1>4, SeqEqual
<1>6. QED
    BY <1>1, <1>2, <1>5

LEMMA JoinAssociative ==
    ASSUME NEW a \in Seq(Tags), NEW b \in Seq(Tags), NEW c \in Seq(Tags)
    PROVE  Join(a, Join(b, c)) = Join(Join(a, b), c)
BY DEF Join

LEMMA SummedFirst ==
    ASSUME NEW s \in Int, NEW p \in Int
    PROVE  Summed(s, p, 1) = <<<<"embed", s, p>>>>
<1>1. PICK a \in Tags : a = <<"embed", s, p>>
    BY TagsAre
<1>2. [m \in 1 .. 1 - 1 |-> OfLayer(m)] = << >>
    OBVIOUS
<1>3. FlattenSeq(<< >>) = << >>
    BY DEF FlattenSeq
<1>4. Summed(s, p, 1) = <<a>> \o << >>
    BY <1>1, <1>2, <1>3 DEF Summed, OfLayer
<1>5. <<a>> \o << >> = <<a>>
    OBVIOUS
<1>6. QED
    BY <1>1, <1>4, <1>5

LEMMA SummedNext ==
    ASSUME NEW s \in Int, NEW p \in Int, NEW l \in Nat \ {0}
    PROVE  Summed(s, p, l + 1) =
               Join(Join(Summed(s, p, l), <<<<"attn", l>>>>), <<<<"mlp", l>>>>)
<1>1. PICK z \in Seq(Tags), u \in Seq(Tags), a \in Seq(Tags), b \in Seq(Tags) :
          /\ z = <<<<"embed", s, p>>>> /\ u = Added(l)
          /\ a = <<<<"attn", l>>>> /\ b = <<<<"mlp", l>>>>
  <2>1. PICK x \in Tags, y \in Tags, w \in Tags :
            x = <<"embed", s, p>> /\ y = <<"attn", l>> /\ w = <<"mlp", l>>
      BY TagsAre
  <2>2. <<x>> \in Seq(Tags) /\ <<y>> \in Seq(Tags) /\ <<w>> \in Seq(Tags)
      OBVIOUS
  <2>3. Added(l) \in Seq(Tags)
      BY AddedLays
  <2>4. QED
      BY <2>1, <2>2, <2>3
<1>2. OfLayer(l) = Join(a, b)
  <2>1. PICK x \in Tags, y \in Tags : x = <<"attn", l>> /\ y = <<"mlp", l>>
      BY TagsAre
  <2>2. <<x>> \o <<y>> = <<x, y>>
      BY PairIsTwo
  <2>3. QED
      BY <1>1, <2>1, <2>2 DEF OfLayer, Join
<1>3. Added(l + 1) = Join(u, Join(a, b))
    BY <1>1, <1>2, AddedGrows DEF Join
<1>4. Summed(s, p, l) = Join(z, u)
    BY <1>1 DEF Summed, Added, Join
<1>5. Summed(s, p, l + 1) = Join(z, Added(l + 1))
    BY <1>1 DEF Summed, Added, Join
<1>6. Join(u, Join(a, b)) = Join(Join(u, a), b)
    BY JoinAssociative
<1>7. Join(u, a) \in Seq(Tags) /\ Join(z, u) \in Seq(Tags)
    BY DEF Join
<1>8. Join(z, Join(Join(u, a), b)) = Join(Join(Join(z, u), a), b)
    BY <1>7, JoinAssociative
<1>9. QED
    BY <1>1, <1>3, <1>4, <1>5, <1>6, <1>8

-----------------------------------------------------------------------------
(* The invariant of a pass.                                                *)

\* A pass of a step, not the sizing forward.
InStep == pc # "idle" /\ path # "sizing"

Heads == 0 .. NumHeads - 1

\* Rows of tokens, not of padding.
TokenRows == {i \in DOMAIN rows : rows[i].slot # DummySlot}

\* What row i should have been given before attention of layer l.
Own(i, l) == Summed(rows[i].seq, rows[i].pos, l)

RightCell(i, l) == [key |-> <<rows[i].pos>>, from |-> Own(i, l)]

AllPCs == {"idle", "input_norm", "qkv_proj", "rope", "post_norm", "mlp",
           "final_norm", "logits", "sampled"}

Books ==
    /\ length \in [SeqIds -> Nat] /\ computed \in [SeqIds -> Nat]
    /\ \A s \in SeqIds : computed[s] < length[s] /\ computed[s] <= MaxLen
    /\ IF kv_cache = << >> THEN \A s \in SeqIds : computed[s] = 0
       ELSE /\ DOMAIN kv_cache = Layers
            /\ \A l \in Layers : DOMAIN kv_cache[l] = 0 .. DummySlot
    /\ pc \in AllPCs
    /\ pc # "idle" => path \in {"sizing", "eager", "warmup", "replay"}
    /\ pc # "idle" /\ path = "sizing" => cuda /\ kv_cache = << >> /\ pc # "sampled"

\* The inputs of the pass are those of its batch.
Inputs ==
    InStep =>
        /\ kv_cache # << >>
        /\ batch \in Batches
        /\ \A j \in DOMAIN batch : length[batch[j]] <= MaxLen
        /\ forward_ctx = Slots(rows)
        /\ \/ path = "eager" /\ rows = EagerRows(batch) /\ Len(rows) <= MaxNumBatchedTokens
           \/ path \in {"warmup", "replay"} /\ CanGraphDecode(batch) /\ rows = GraphRows(batch)

\* Which tensor is what.
Names ==
    InStep =>
        /\ layer \in Layers
        /\ DOMAIN heap = {"embed", "normed", "attn", "mlp"}
        /\ CASE pc = "input_norm" -> \/ residual = "none" /\ hidden = "embed"
                                     \/ residual = "embed" /\ hidden = "mlp"
             [] pc = "post_norm" -> residual = "embed" /\ hidden = "attn"
             [] pc = "final_norm" -> residual = "embed" /\ hidden = "mlp" /\ layer = NumLayers
             [] pc \in {"logits", "sampled"} -> hidden = "normed" /\ layer = NumLayers
             [] OTHER -> residual = "embed"

\* What is in them.
Sums ==
    InStep =>
        \A i \in TokenRows :
            /\ pc = "input_norm" => FusedAdd(i) = Own(i, layer)
            /\ pc \in {"qkv_proj", "rope"} =>
                  heap["normed"][i] = Own(i, layer) /\ heap["embed"][i] = Own(i, layer)
            /\ pc = "post_norm" => FusedAdd(i) = Join(Own(i, layer), <<<<"attn", layer>>>>)
            /\ pc = "mlp" => heap["embed"][i] = Join(Own(i, layer), <<<<"attn", layer>>>>)
            /\ pc = "final_norm" => FusedAdd(i) = Own(i, NumLayers + 1)
            /\ pc = "logits" => heap["normed"][i] = Own(i, NumLayers + 1)

\* How far the rotation is.
Rotation ==
    InStep /\ pc = "rope" =>
        /\ todo \subseteq RopeGrid /\ (~cuda => todo \in {{}, RopeGrid})
        /\ DOMAIN q = DOMAIN rows /\ DOMAIN k = DOMAIN rows
        /\ \A i \in DOMAIN rows : DOMAIN q[i] = Heads /\ DOMAIN k[i] = KVHeads
        /\ \A i \in TokenRows :
              /\ \A h \in Heads :
                    q[i][h] = IF <<i, h>> \in todo THEN << >> ELSE <<rows[i].pos>>
              /\ \A g \in KVHeads :
                    IF <<i, g>> \in todo THEN k[i][g] = << >>
                    ELSE /\ k[i][g] = <<rows[i].pos>>
                         /\ kv_cache[layer][rows[i].slot][g] = RightCell(i, layer)

\* The layers in which this pass has stored its tokens.
Stored ==
    InStep =>
        \A l \in Layers :
            \/ l < layer
            \/ l = layer /\ pc \in {"post_norm", "mlp", "final_norm", "logits", "sampled"}
            => \A i \in TokenRows : \A g \in KVHeads :
                  kv_cache[l][rows[i].slot][g] = RightCell(i, l)

-----------------------------------------------------------------------------
(* The rows of a batch.                                                    *)

Row == [seq : Nat, pos : Nat, slot : Nat]

LEMMA BatchIs ==
    ASSUME NEW b \in Batches
    PROVE  /\ Len(b) \in Nat \ {0} /\ DOMAIN b = 1 .. Len(b)
           /\ \A j \in 1 .. Len(b) : b[j] \in SeqIds
           /\ IsInjective(b)
<1>1. PICK n \in 1 .. NumSeqs : b \in [1 .. n -> SeqIds]
    BY DEF Batches
<1>2. n \in Nat \ {0}
    BY BatchAssumption
<1>3. Len(b) = n /\ DOMAIN b = 1 .. n /\ \A j \in 1 .. n : b[j] \in SeqIds
    BY <1>1, <1>2
<1>4. IsInjective(b)
    BY DEF Batches
<1>5. QED
    BY <1>2, <1>3, <1>4

LEMMA SlotIs ==
    ASSUME NEW s \in SeqIds, NEW p \in 0 .. MaxLen - 1
    PROVE  SlotOf(s, p) \in 0 .. DummySlot /\ SlotOf(s, p) # DummySlot
<1>1. PICK c \in Nat : NumSeqs = s + c
  <2>1. NumSeqs - s \in Nat /\ NumSeqs = s + (NumSeqs - s)
      BY BatchAssumption DEF SeqIds
  <2>2. QED
      BY <2>1
<1>2. s \in Nat \ {0} /\ MaxLen \in Nat
    BY BatchAssumption DEF SeqIds
<1>3. (s - 1) * MaxLen \in Nat /\ c * MaxLen \in Nat
    BY <1>2
<1>4. NumSeqs * MaxLen = (s - 1) * MaxLen + MaxLen + c * MaxLen
    BY <1>1, <1>2
<1>5. QED
    BY <1>2, <1>3, <1>4 DEF SlotOf, DummySlot

\* One slot is one position of one sequence.
LEMMA SlotsApart ==
    ASSUME NEW s \in SeqIds, NEW p \in 0 .. MaxLen - 1,
           NEW t \in SeqIds, NEW r \in 0 .. MaxLen - 1, SlotOf(s, p) = SlotOf(t, r)
    PROVE  s = t /\ p = r
<1>1. s \in Nat \ {0} /\ t \in Nat \ {0} /\ MaxLen \in Nat /\ p \in Nat /\ r \in Nat
    BY BatchAssumption DEF SeqIds
<1>2. ASSUME NEW a \in Nat \ {0}, NEW b \in Nat \ {0}, NEW x \in 0 .. MaxLen - 1,
             NEW y \in 0 .. MaxLen - 1, a < b
      PROVE  (a - 1) * MaxLen + x < (b - 1) * MaxLen + y
  <2>1. a * MaxLen <= (b - 1) * MaxLen
    <3>1. a \in Nat /\ b - 1 \in Nat /\ a <= b - 1
        BY <1>2
    <3>2. QED
        BY <1>1, <3>1, TimesMonotone
  <2>2. a * MaxLen = (a - 1) * MaxLen + MaxLen /\ (a - 1) * MaxLen \in Nat
        /\ (b - 1) * MaxLen \in Nat
      BY <1>1
  <2>3. QED
      BY <1>1, <2>1, <2>2
<1>3. ~(s < t) /\ ~(t < s)
    BY <1>1, <1>2 DEF SlotOf
<1>4. s = t
    BY <1>1, <1>3
<1>5. (s - 1) * MaxLen \in Int
    BY <1>1
<1>6. QED
    BY <1>1, <1>4, <1>5 DEF SlotOf

\* The sequences of b end at e.
Ends(b, e) ==
    e[0] = 0 /\ \A j \in 1 .. Len(b) : e[j] = e[j - 1] + NumNew(b[j])

LEMMA NewRowsAre ==
    ASSUME Books, NEW s \in SeqIds
    PROVE  /\ NumNew(s) \in Nat \ {0} /\ computed[s] \in Nat
           /\ computed[s] + NumNew(s) = length[s]
           /\ NewRows(s) \in Seq(Row) /\ Len(NewRows(s)) = NumNew(s)
           /\ \A m \in 1 .. NumNew(s) :
                 NewRows(s)[m] = [seq |-> s, pos |-> computed[s] + m - 1,
                                  slot |-> SlotOf(s, computed[s] + m - 1)]
<1>1. /\ length[s] \in Nat /\ computed[s] \in Nat /\ computed[s] < length[s]
    BY DEF Books
<1>2. PICK n \in Nat \ {0} : n = NumNew(s) /\ computed[s] + n = length[s]
    BY <1>1 DEF NumNew
<1>3. ASSUME NEW m \in 1 .. n
      PROVE  [seq |-> s, pos |-> computed[s] + m - 1,
              slot |-> SlotOf(s, computed[s] + m - 1)] \in Row
  <2>1. s \in Nat /\ s - 1 \in Nat /\ computed[s] + m - 1 \in Nat
      BY <1>1 DEF SeqIds
  <2>2. (s - 1) * MaxLen \in Nat
      BY <2>1, BatchAssumption
  <2>3. SlotOf(s, computed[s] + m - 1) \in Nat
      BY <2>1, <2>2 DEF SlotOf
  <2>4. QED
      BY <2>1, <2>3 DEF Row
<1>4. NewRows(s) = [m \in 1 .. n |-> [seq |-> s, pos |-> computed[s] + m - 1,
                                      slot |-> SlotOf(s, computed[s] + m - 1)]]
    BY <1>2 DEF NewRows
<1> DEFINE r(m) == [seq |-> s, pos |-> computed[s] + m - 1,
                    slot |-> SlotOf(s, computed[s] + m - 1)]
<1>5. NewRows(s) = [m \in 1 .. n |-> r(m)] /\ \A m \in 1 .. n : r(m) \in Row
    BY <1>3, <1>4
<1> HIDE DEF r
<1>6. /\ NewRows(s) \in Seq(Row) /\ Len(NewRows(s)) = n
      /\ \A m \in 1 .. n : NewRows(s)[m] = r(m)
    BY <1>5
<1>7. QED
    BY <1>1, <1>2, <1>6 DEF r

LEMMA EagerRowsLaid ==
    ASSUME Books, NEW b \in Batches, NEW e, Ends(b, e)
    PROVE  /\ EagerRows(b) \in Seq(Row) /\ Len(EagerRows(b)) = e[Len(b)]
           /\ \A j \in 1 .. Len(b) : \A m \in 1 .. NumNew(b[j]) :
                 EagerRows(b)[e[j - 1] + m] = NewRows(b[j])[m]
           /\ \A x \in 1 .. Len(EagerRows(b)) :
                 \E j \in 1 .. Len(b) : \E m \in 1 .. NumNew(b[j]) : x = e[j - 1] + m
<1> DEFINE n == Len(b)
           ss == [j \in DOMAIN b |-> NewRows(b[j])]
<1>1. n \in Nat \ {0} /\ DOMAIN b = 1 .. n /\ \A j \in 1 .. n : b[j] \in SeqIds
    BY BatchIs
<1>2. EagerRows(b) = FlattenSeq(ss)
    BY DEF EagerRows
<1>3. Len(ss) = n /\ \A j \in 1 .. n : ss[j] = NewRows(b[j])
    BY <1>1
<1>4. e[0] = 0 /\ \A j \in 1 .. n : e[j] = e[j - 1] + NumNew(b[j])
    BY DEF Ends
<1> HIDE DEF n, ss
<1>5. \A j \in 1 .. n : ss[j] \in Seq(Row) /\ Len(ss[j]) = NumNew(b[j])
    BY <1>1, <1>3, NewRowsAre
<1>6. EndAt(Row, ss, n, e)
    BY <1>1, <1>3, <1>4, <1>5 DEF EndAt
<1>7. LaidOut(FlattenSeq(ss), Row, n, ss, e)
    BY <1>6, FlattenLays, Zenon
<1>8. EagerRows(b) \in Seq(Row) /\ Len(EagerRows(b)) = e[n]
    BY <1>2, <1>7, Zenon DEF LaidOut
<1>9. ASSUME NEW j \in 1 .. n, NEW m \in 1 .. NumNew(b[j])
      PROVE  EagerRows(b)[e[j - 1] + m] = NewRows(b[j])[m]
  <2>1. m \in 1 .. Len(ss[j]) /\ ss[j] = NewRows(b[j])
      BY <1>3, <1>5, Zenon
  <2>2. FlattenSeq(ss)[e[j - 1] + m] = ss[j][m]
      BY <1>7, <2>1, Zenon DEF LaidOut
  <2>3. QED
      BY <1>2, <2>1, <2>2, Zenon
<1>10. ASSUME NEW x \in 1 .. e[n]
       PROVE  \E j \in 1 .. n : \E m \in 1 .. NumNew(b[j]) : x = e[j - 1] + m
  <2>0. PICK j \in 1 .. n : \E m \in 1 .. Len(ss[j]) : x = e[j - 1] + m
      BY <1>7, Zenon DEF LaidOut
  <2>1. PICK m \in 1 .. Len(ss[j]) : x = e[j - 1] + m
      BY <2>0
  <2>2. m \in 1 .. NumNew(b[j])
      BY <1>5, Zenon
  <2>3. QED
      BY <2>1, <2>2
<1>11. \A x \in 1 .. Len(EagerRows(b)) :
           \E j \in 1 .. n : \E m \in 1 .. NumNew(b[j]) : x = e[j - 1] + m
    BY <1>8, <1>10, Zenon
<1>12. QED
    BY <1>8, <1>9, <1>11, Zenon DEF n

LEMMA EndsInOrder ==
    ASSUME Books, NEW b \in Batches, NEW e, Ends(b, e)
    PROVE  /\ \A j \in 0 .. Len(b) : e[j] \in Nat /\ e[j] <= e[Len(b)]
           /\ (\A j \in 1 .. Len(b) : NumNew(b[j]) = 1) => \A j \in 0 .. Len(b) : e[j] = j
<1> DEFINE n == Len(b)
           w(j) == NumNew(b[j])
<1>1. n \in Nat \ {0} /\ \A j \in 1 .. n : w(j) \in Nat \ {0}
  <2>1. n \in Nat \ {0} /\ \A j \in 1 .. n : b[j] \in SeqIds
      BY BatchIs
  <2>2. QED
      BY <2>1, NewRowsAre
<1>2. e[0] = 0 /\ \A j \in 1 .. n : e[j] = e[j - 1] + w(j)
    BY DEF Ends
<1> DEFINE X == {j \in Nat : j <= n => \A i \in 0 .. j : e[i] \in Nat /\ e[i] <= e[j]}
           Y == {j \in Nat : j <= n /\ (\A i \in 1 .. n : w(i) = 1) => e[j] = j}
<1> HIDE DEF n, w
<1>3. 0 \in X /\ 0 \in Y
    BY <1>2
<1>4. ASSUME NEW j \in Nat, j \in X PROVE j + 1 \in X
  <2>1. SUFFICES ASSUME j + 1 <= n, NEW i \in 0 .. j + 1
                 PROVE  e[i] \in Nat /\ e[i] <= e[j + 1]
      OBVIOUS
  <2>2. \A y \in 0 .. j : e[y] \in Nat /\ e[y] <= e[j]
      BY <1>1, <1>4, <2>1
  <2>3. e[j] \in Nat /\ e[j + 1] = e[j] + w(j + 1) /\ w(j + 1) \in Nat
    <3>1. j + 1 \in 1 .. n /\ (j + 1) - 1 = j /\ j \in 0 .. j
        BY <2>1
    <3>2. QED
        BY <1>1, <1>2, <2>2, <3>1
  <2>4. i = j + 1 \/ i \in 0 .. j
      OBVIOUS
  <2>5. QED
      BY <2>2, <2>3, <2>4
<1>5. ASSUME NEW j \in Nat, j \in Y PROVE j + 1 \in Y
  <2>1. SUFFICES ASSUME j + 1 <= n, \A i \in 1 .. n : w(i) = 1
                 PROVE  e[j + 1] = j + 1
      OBVIOUS
  <2>2. e[j] = j
      BY <1>1, <1>5, <2>1
  <2>3. j + 1 \in 1 .. n /\ (j + 1) - 1 = j
      BY <2>1
  <2>4. QED
      BY <1>2, <2>1, <2>2, <2>3
<1> HIDE DEF X, Y
<1>6. Nat \subseteq X
    BY <1>3, <1>4, NatSetInduction
<1>7. Nat \subseteq Y
    BY <1>3, <1>5, NatSetInduction
<1>8. n \in X /\ \A j \in 0 .. n : j \in Y
    BY <1>1, <1>6, <1>7
<1>9. n \in Nat /\ n <= n
    BY <1>1
<1>10. \A j \in 0 .. n : e[j] \in Nat /\ e[j] <= e[n]
    BY <1>8, <1>9 DEF X
<1>11. (\A j \in 1 .. n : w(j) = 1) => \A j \in 0 .. n : e[j] = j
    BY <1>8, <1>9 DEF Y
<1>12. QED
    BY <1>10, <1>11 DEF n, w

\* The recursion in QueryEnd.
QueryEndSolved(f) ==
    f = [j \in 0 .. Len(batch) |-> IF j = 0 THEN 0 ELSE f[j - 1] + NumNew(batch[j])]

LEMMA QueryEndsAre ==
    ASSUME batch \in Batches
    PROVE  \E e : Ends(batch, e) /\ \A j \in 0 .. Len(batch) : QueryEnd(j) = e[j]
<1> DEFINE n == Len(batch)
           w == [j \in 1 .. n |-> NumNew(batch[j])]
           e == CHOOSE f : QueryEndSolved(f)
<1>1. n \in Nat \ {0}
    BY BatchIs
<1>2. \A j \in 1 .. n : w[j] = NumNew(batch[j])
    OBVIOUS
<1>3. \A j : QueryEnd(j) = e[j]
    BY DEF QueryEnd, QueryEndSolved
<1> HIDE DEF w, e
<1>4. QueryEndSolved(e)
  <2>1. PICK g : SumsUpTo(n, w, g)
      BY <1>1, SumsExist
  <2>2. \A j \in 0 .. n : (IF j = 0 THEN 0 ELSE g[j - 1] + w[j]) =
                              (IF j = 0 THEN 0 ELSE g[j - 1] + NumNew(batch[j]))
      BY <1>1, <1>2
  <2>3. [j \in 0 .. n |-> IF j = 0 THEN 0 ELSE g[j - 1] + w[j]] =
            [j \in 0 .. n |-> IF j = 0 THEN 0 ELSE g[j - 1] + NumNew(batch[j])]
      BY <2>2
  <2>4. QueryEndSolved(g)
      BY <2>1, <2>3 DEF SumsUpTo, QueryEndSolved
  <2>5. QED
      BY <2>4 DEF e
<1>5. \A j \in 0 .. n : e[j] = IF j = 0 THEN 0 ELSE e[j - 1] + NumNew(batch[j])
    BY <1>4 DEF QueryEndSolved
<1>6. e[0] = 0 /\ \A j \in 1 .. n : e[j] = e[j - 1] + NumNew(batch[j])
  <2>1. 0 \in 0 .. n /\ \A j \in 1 .. n : j \in 0 .. n /\ j # 0
      BY <1>1
  <2>2. QED
      BY <1>5, <2>1
<1>7. Ends(batch, e)
    BY <1>6 DEF Ends
<1>8. QED
    BY <1>3, <1>7

\* What a row of the sequence s at its position p is.
RowOf(s, p) == [seq |-> s, pos |-> p, slot |-> SlotOf(s, p)]

\* The rows of a step: tokens of the batch, then padding.
LEMMA RowsAreTokens ==
    ASSUME Books, Inputs, InStep, NEW e, Ends(batch, e)
    PROVE  /\ rows \in Seq(Row) /\ Len(rows) \in Nat
           /\ e[Len(batch)] \in Nat /\ e[Len(batch)] <= Len(rows)
           /\ \A j \in 1 .. Len(batch) : \A m \in 1 .. NumNew(batch[j]) :
                 /\ e[j - 1] + m \in 1 .. e[Len(batch)]
                 /\ rows[e[j - 1] + m] = RowOf(batch[j], computed[batch[j]] + m - 1)
           /\ \A x \in 1 .. e[Len(batch)] :
                 \E j \in 1 .. Len(batch) : \E m \in 1 .. NumNew(batch[j]) : x = e[j - 1] + m
           /\ \A x \in 1 .. Len(rows) : x > e[Len(batch)] => rows[x] = PadRow
           /\ Len(rows) <= MaxNumBatchedTokens \/ Len(rows) \in GraphBuckets
           /\ path # "eager" => \A j \in 1 .. Len(batch) : NumNew(batch[j]) = 1
<1> DEFINE n == Len(batch)
<1>1. /\ batch \in Batches
      /\ \/ path = "eager" /\ rows = EagerRows(batch) /\ Len(rows) <= MaxNumBatchedTokens
         \/ path \in {"warmup", "replay"} /\ CanGraphDecode(batch) /\ rows = GraphRows(batch)
    BY DEF Inputs
<1>2. /\ n \in Nat \ {0} /\ DOMAIN batch = 1 .. n
      /\ \A j \in 1 .. n : batch[j] \in SeqIds
    BY <1>1, BatchIs
<1>3. /\ EagerRows(batch) \in Seq(Row) /\ Len(EagerRows(batch)) = e[n]
      /\ \A j \in 1 .. n : \A m \in 1 .. NumNew(batch[j]) :
            EagerRows(batch)[e[j - 1] + m] = NewRows(batch[j])[m]
      /\ \A x \in 1 .. e[n] :
            \E j \in 1 .. n : \E m \in 1 .. NumNew(batch[j]) : x = e[j - 1] + m
    BY <1>1, EagerRowsLaid
<1>4. /\ \A j \in 0 .. n : e[j] \in Nat /\ e[j] <= e[n]
      /\ (\A j \in 1 .. n : NumNew(batch[j]) = 1) => \A j \in 0 .. n : e[j] = j
    BY <1>1, EndsInOrder
<1>5. \A j \in 1 .. n : e[j] = e[j - 1] + NumNew(batch[j])
    BY DEF Ends
<1> HIDE DEF n
<1>6. e[n] \in Nat
    BY <1>2, <1>4
<1>7. ASSUME NEW j \in 1 .. n, NEW m \in 1 .. NumNew(batch[j])
      PROVE  /\ e[j - 1] + m \in 1 .. e[n]
             /\ EagerRows(batch)[e[j - 1] + m] = RowOf(batch[j], computed[batch[j]] + m - 1)
  <2>1. /\ j \in 0 .. n /\ j - 1 \in 0 .. n /\ batch[j] \in SeqIds
      BY <1>2
  <2>2. /\ NumNew(batch[j]) \in Nat \ {0}
        /\ \A y \in 1 .. NumNew(batch[j]) :
                NewRows(batch[j])[y] = [seq |-> batch[j], pos |-> computed[batch[j]] + y - 1,
                                        slot |-> SlotOf(batch[j], computed[batch[j]] + y - 1)]
      BY <2>1, NewRowsAre
  <2>3. e[j] = e[j - 1] + NumNew(batch[j]) /\ e[j] <= e[n] /\ e[j - 1] \in Nat /\ e[j] \in Nat
      BY <1>4, <1>5, <2>1
  <2>4. e[j - 1] + m \in 1 .. e[n]
      BY <1>6, <2>2, <2>3
  <2>5. QED
      BY <1>3, <2>2, <2>4 DEF RowOf
<1>8. CASE path = "eager"
  <2>1. rows = EagerRows(batch) /\ Len(rows) <= MaxNumBatchedTokens
      BY <1>1, <1>8
  <2>2. ~ \E x \in 1 .. Len(rows) : x > e[n]
      BY <1>3, <1>6, <2>1
  <2>3. QED
      BY <1>3, <1>6, <1>7, <1>8, <2>1, <2>2 DEF n
<1>9. CASE path # "eager"
  <2>1. /\ CanGraphDecode(batch)
        /\ rows = EagerRows(batch) \o [i \in 1 .. Bucket(n) - n |-> PadRow]
      BY <1>1, <1>9 DEF GraphRows, n
  <2>2. /\ \A j \in 1 .. n : NumNew(batch[j]) = 1
        /\ \E bucket \in GraphBuckets : bucket >= n
      BY <1>2, <2>1 DEF CanGraphDecode, n
  <2>3. e[n] = n
      BY <1>2, <1>4, <2>2
  <2>4. PICK g \in Nat : g = Bucket(n) /\ g \in GraphBuckets /\ n <= g
    <3> DEFINE S == {b \in GraphBuckets : b >= n}
    <3>1. S \in SUBSET Nat /\ S # {}
        BY <2>2, BatchAssumption
    <3>2. Min(S) \in S
        BY <3>1, MinOfNats
    <3>3. QED
        BY <1>2, <3>1, <3>2 DEF Bucket
  <2>5. PICK pads \in Seq(Row) : /\ pads = [i \in 1 .. Bucket(n) - n |-> PadRow]
                                 /\ Len(pads) = g - n
                                 /\ \A i \in 1 .. g - n : pads[i] = PadRow
    <3>1. PadRow \in Row
      <4>1. DummySlot \in Nat
          BY BatchAssumption DEF DummySlot
      <4>2. QED
          BY <4>1 DEF PadRow, Row
    <3>2. PICK p \in Row : p = PadRow
        BY <3>1
    <3>3. PICK c \in Nat : c = g - n
        BY <1>2, <2>4
    <3>4. /\ [i \in 1 .. c |-> p] \in Seq(Row) /\ Len([i \in 1 .. c |-> p]) = c
          /\ \A i \in 1 .. c : [y \in 1 .. c |-> p][i] = p
        OBVIOUS
    <3>5. QED
        BY <2>4, <3>2, <3>3, <3>4
  <2>6. PICK er \in Seq(Row) : er = EagerRows(batch) /\ Len(er) = n
      BY <1>3, <2>3
  <2>7. /\ er \o pads \in Seq(Row) /\ Len(er \o pads) = Len(er) + Len(pads)
        /\ \A x \in 1 .. Len(er) : (er \o pads)[x] = er[x]
        /\ \A m \in 1 .. Len(pads) : (er \o pads)[Len(er) + m] = pads[m]
      BY ConcatLays
  <2>8. rows = er \o pads
      BY <2>1, <2>5, <2>6
  <2>9. /\ rows \in Seq(Row) /\ Len(rows) = g
        /\ \A x \in 1 .. n : rows[x] = er[x]
        /\ \A m \in 1 .. g - n : rows[n + m] = pads[m]
      BY <1>2, <2>4, <2>5, <2>6, <2>7, <2>8
  <2>10. ASSUME NEW x \in 1 .. Len(rows), x > e[n] PROVE rows[x] = PadRow
    <3>1. x - n \in 1 .. g - n /\ n + (x - n) = x
        BY <1>2, <2>3, <2>4, <2>9, <2>10
    <3>2. QED
        BY <2>5, <2>9, <3>1
  <2>11. Len(rows) \in Nat /\ e[n] <= Len(rows) /\ Len(rows) \in GraphBuckets
      BY <2>3, <2>4, <2>9
  <2>12. ASSUME NEW j \in 1 .. n, NEW m \in 1 .. NumNew(batch[j])
         PROVE  /\ e[j - 1] + m \in 1 .. e[n]
                /\ rows[e[j - 1] + m] = RowOf(batch[j], computed[batch[j]] + m - 1)
    <3>1. e[j - 1] + m \in 1 .. n
        BY <1>7, <2>3
    <3>2. QED
        BY <1>7, <2>3, <2>6, <2>9, <3>1
  <2>13. QED
      BY <1>3, <1>6, <2>2, <2>9, <2>10, <2>11, <2>12 DEF n
<1>10. QED
    BY <1>8, <1>9

LEMMA TokenRowsAre ==
    ASSUME Books, Inputs, InStep
    PROVE  /\ rows \in Seq(Row) /\ DOMAIN rows = 1 .. Len(rows) /\ Len(rows) \in Nat
           /\ \A i \in TokenRows :
                 /\ rows[i].seq \in SeqIds /\ rows[i].pos \in 0 .. MaxLen - 1
                 /\ computed[rows[i].seq] <= rows[i].pos
                 /\ rows[i].pos < length[rows[i].seq]
                 /\ rows[i].slot = SlotOf(rows[i].seq, rows[i].pos)
                 /\ rows[i].seq \in ToSet(batch)
           /\ \A s \in ToSet(batch) : \A p \in computed[s] .. length[s] - 1 :
                 \E i \in TokenRows : rows[i] = RowOf(s, p)
<1> DEFINE n == Len(batch)
<1>1. /\ batch \in Batches
      /\ \A j \in DOMAIN batch : length[batch[j]] <= MaxLen
    BY DEF Inputs
<1>2. /\ n \in Nat \ {0} /\ DOMAIN batch = 1 .. n
      /\ \A j \in 1 .. n : batch[j] \in SeqIds
    BY <1>1, BatchIs
<1>3. PICK e : Ends(batch, e)
    BY <1>1, QueryEndsAre
<1>4. /\ rows \in Seq(Row) /\ Len(rows) \in Nat
      /\ e[n] \in Nat /\ e[n] <= Len(rows)
      /\ \A j \in 1 .. n : \A m \in 1 .. NumNew(batch[j]) :
            /\ e[j - 1] + m \in 1 .. e[n]
            /\ rows[e[j - 1] + m] = RowOf(batch[j], computed[batch[j]] + m - 1)
      /\ \A x \in 1 .. e[n] :
            \E j \in 1 .. n : \E m \in 1 .. NumNew(batch[j]) : x = e[j - 1] + m
      /\ \A x \in 1 .. Len(rows) : x > e[n] => rows[x] = PadRow
    BY <1>3, RowsAreTokens
<1> HIDE DEF n
<1>5. DOMAIN rows = 1 .. Len(rows)
    BY <1>4
<1>6. ASSUME NEW j \in 1 .. n
      PROVE  /\ NumNew(batch[j]) \in Nat \ {0} /\ computed[batch[j]] \in Nat
             /\ computed[batch[j]] + NumNew(batch[j]) = length[batch[j]]
             /\ length[batch[j]] <= MaxLen /\ MaxLen \in Nat
             /\ batch[j] \in ToSet(batch)
  <2>1. batch[j] \in SeqIds /\ j \in DOMAIN batch
      BY <1>2
  <2>2. batch[j] \in ToSet(batch)
      BY <2>1 DEF ToSet
  <2>3. QED
      BY <1>1, <2>1, <2>2, NewRowsAre, BatchAssumption
<1>7. ASSUME NEW j \in 1 .. n, NEW m \in 1 .. NumNew(batch[j])
      PROVE  /\ computed[batch[j]] + m - 1 \in 0 .. MaxLen - 1
             /\ computed[batch[j]] <= computed[batch[j]] + m - 1
             /\ computed[batch[j]] + m - 1 < length[batch[j]]
    BY <1>6
<1>8. ASSUME NEW i \in TokenRows
      PROVE  /\ rows[i].seq \in SeqIds /\ rows[i].pos \in 0 .. MaxLen - 1
             /\ computed[rows[i].seq] <= rows[i].pos
             /\ rows[i].pos < length[rows[i].seq]
             /\ rows[i].slot = SlotOf(rows[i].seq, rows[i].pos)
             /\ rows[i].seq \in ToSet(batch)
  <2>1. i \in 1 .. Len(rows) /\ rows[i].slot # DummySlot
      BY <1>5 DEF TokenRows
  <2>2. rows[i] # PadRow
      BY <2>1 DEF PadRow
  <2>3. i \in 1 .. e[n]
      BY <1>4, <2>1, <2>2
  <2>4. PICK j \in 1 .. n : \E m \in 1 .. NumNew(batch[j]) : i = e[j - 1] + m
      BY <1>4, <2>3
  <2>5. PICK m \in 1 .. NumNew(batch[j]) : i = e[j - 1] + m
      BY <2>4
  <2>6. rows[i] = RowOf(batch[j], computed[batch[j]] + m - 1)
      BY <1>4, <2>5
  <2>7. /\ rows[i].seq = batch[j] /\ rows[i].pos = computed[batch[j]] + m - 1
        /\ rows[i].slot = SlotOf(rows[i].seq, rows[i].pos)
      BY <2>6 DEF RowOf
  <2>8. QED
      BY <1>2, <1>6, <1>7, <2>7
<1>9. ASSUME NEW s \in ToSet(batch), NEW p \in computed[s] .. length[s] - 1
      PROVE  \E i \in TokenRows : rows[i] = RowOf(s, p)
  <2>1. PICK j \in 1 .. n : s = batch[j]
      BY <1>2 DEF ToSet
  <2>2. PICK m \in 1 .. NumNew(batch[j]) : p = computed[batch[j]] + m - 1
    <3>1. p - computed[batch[j]] + 1 \in 1 .. NumNew(batch[j])
        BY <1>6, <2>1
    <3>2. p = computed[batch[j]] + (p - computed[batch[j]] + 1) - 1
        BY <1>6, <2>1
    <3>3. QED
        BY <3>1, <3>2
  <2>3. e[j - 1] + m \in 1 .. e[n] /\ rows[e[j - 1] + m] = RowOf(s, p)
      BY <1>4, <2>1, <2>2
  <2>4. \A x \in 1 .. e[n] : x \in DOMAIN rows
      BY <1>4, <1>5
  <2>5. e[j - 1] + m \in DOMAIN rows
      BY <2>3, <2>4, Zenon
  <2>6. SlotOf(s, p) # DummySlot
    <3>1. s \in SeqIds /\ p \in 0 .. MaxLen - 1
        BY <1>2, <1>7, <2>1, <2>2
    <3>2. QED
        BY <3>1, SlotIs
  <2>7. e[j - 1] + m \in TokenRows
      BY <2>3, <2>5, <2>6 DEF TokenRows, RowOf
  <2>8. QED
      BY <2>3, <2>7, Zenon
<1>10. QED
    BY <1>4, <1>5, <1>8, <1>9

\* Logits are taken from the last tokens.
LEMMA LogitRowsAreLast ==
    ASSUME Books, Inputs, InStep, path # "warmup"
    PROVE  /\ Len(LogitRowIdx) = Len(batch)
           /\ \A j \in 1 .. Len(batch) :
                 /\ LogitRowIdx[j] \in TokenRows
                 /\ rows[LogitRowIdx[j]] = RowOf(batch[j], length[batch[j]] - 1)
<1> DEFINE n == Len(batch)
<1>1. /\ batch \in Batches /\ path \in {"eager", "replay"}
      /\ \A j \in DOMAIN batch : length[batch[j]] <= MaxLen
    BY DEF Inputs
<1>2. /\ n \in Nat \ {0} /\ DOMAIN batch = 1 .. n
      /\ \A j \in 1 .. n : batch[j] \in SeqIds
    BY <1>1, BatchIs
<1>3. PICK e : Ends(batch, e) /\ \A j \in 0 .. n : QueryEnd(j) = e[j]
    BY <1>1, QueryEndsAre
<1>4. /\ rows \in Seq(Row) /\ Len(rows) \in Nat
      /\ e[n] \in Nat /\ e[n] <= Len(rows)
      /\ \A j \in 1 .. n : \A m \in 1 .. NumNew(batch[j]) :
            /\ e[j - 1] + m \in 1 .. e[n]
            /\ rows[e[j - 1] + m] = RowOf(batch[j], computed[batch[j]] + m - 1)
      /\ path # "eager" => \A j \in 1 .. n : NumNew(batch[j]) = 1
    BY <1>3, RowsAreTokens
<1>5. path # "eager" => \A j \in 0 .. n : e[j] = j
    BY <1>1, <1>3, <1>4, EndsInOrder
<1>6. LogitRowIdx = [i \in 1 .. n |-> IF path = "replay" THEN i ELSE QueryEnd(i)]
    BY <1>1, <1>2 DEF LogitRowIdx
<1>7. \A j \in 1 .. n : e[j] = e[j - 1] + NumNew(batch[j])
    BY <1>3 DEF Ends
<1> HIDE DEF n
<1>8. ASSUME NEW j \in 1 .. n
      PROVE  /\ LogitRowIdx[j] \in TokenRows
             /\ rows[LogitRowIdx[j]] = RowOf(batch[j], length[batch[j]] - 1)
  <2>1. batch[j] \in SeqIds /\ j \in DOMAIN batch /\ j \in 0 .. n
      BY <1>2
  <2>2. /\ NumNew(batch[j]) \in Nat \ {0} /\ computed[batch[j]] \in Nat
        /\ computed[batch[j]] + NumNew(batch[j]) = length[batch[j]]
        /\ length[batch[j]] <= MaxLen /\ MaxLen \in Nat
      BY <1>1, <2>1, NewRowsAre, BatchAssumption
  <2>3. LogitRowIdx[j] = e[j]
      BY <1>1, <1>3, <1>5, <1>6, <2>1
  <2>4. LogitRowIdx[j] = e[j - 1] + NumNew(batch[j])
      BY <1>7, <2>3
  <2>5. NumNew(batch[j]) \in 1 .. NumNew(batch[j])
      BY <2>2
  <2>6. /\ LogitRowIdx[j] \in 1 .. e[n]
        /\ rows[LogitRowIdx[j]] = RowOf(batch[j], computed[batch[j]] + NumNew(batch[j]) - 1)
      BY <1>4, <2>4, <2>5
  <2>7. computed[batch[j]] + NumNew(batch[j]) - 1 = length[batch[j]] - 1
        /\ length[batch[j]] - 1 \in 0 .. MaxLen - 1
      BY <2>2
  <2>8. LogitRowIdx[j] \in DOMAIN rows
    <3>1. DOMAIN rows = 1 .. Len(rows)
        BY <1>4
    <3>2. \A x \in 1 .. e[n] : x \in DOMAIN rows
        BY <1>4, <3>1
    <3>3. QED
        BY <2>6, <3>2, Zenon
  <2>9. SlotOf(batch[j], length[batch[j]] - 1) # DummySlot
      BY <2>1, <2>7, SlotIs
  <2>10. QED
      BY <2>6, <2>7, <2>8, <2>9 DEF TokenRows, RowOf
<1>9. Len(LogitRowIdx) = n
    BY <1>2, <1>6
<1>10. QED
    BY <1>8, <1>9 DEF n

-----------------------------------------------------------------------------
(* Groups of heads, and the indices of the SiLU kernel.                    *)

\* The query heads of a group share a key-value head.
LEMMA GroupHead ==
    ASSUME NEW h \in Heads
    PROVE  h \div (NumHeads \div NumKVHeads) \in KVHeads
<1>1. PICK m \in Nat \ {0}, n \in Nat \ {0} : m = NumHeads /\ n = NumKVHeads /\ m % n = 0
    BY HeadsAssumption
<1>2. PICK c \in Nat : c = m \div n
    OBVIOUS
<1>3. m = c * n
    BY <1>1, <1>2
<1>4. c # 0
    BY <1>3
<1>5. h \in Nat /\ h < c * n
    BY <1>1, <1>3 DEF Heads
<1>6. PICK g \in Nat : g = h \div c /\ g * c <= h
    BY <1>4, <1>5, DivTimes
<1>7. g < n
  <2>1. SUFFICES ASSUME n <= g PROVE FALSE
      OBVIOUS
  <2>2. n * c <= g * c
      BY <2>1, TimesMonotone
  <2>3. n * c = c * n /\ c * n \in Nat /\ g * c \in Nat
      OBVIOUS
  <2>4. QED
      BY <1>5, <1>6, <2>2, <2>3
<1>8. QED
    BY <1>1, <1>2, <1>6, <1>7 DEF KVHeads

LEMMA WrapShort ==
    ASSUME NEW x \in Nat, x < Pow2[WordBits - 1]
    PROVE  Wrap(x) = x
<1>1. PICK w \in Nat : w = WordBits - 1 /\ w + 1 = WordBits
    BY SiluAssumption
<1>2. PICK h \in Nat \ {0} : h = Pow2[WordBits - 1] /\ Pow2[WordBits] = 2 * h
    BY <1>1, Pow2Unfolds, Pow2Grows
<1>3. (x + h) % (2 * h) = x + h
  <2>1. PICK y \in Nat, d \in Nat \ {0} : y = x + h /\ d = 2 * h
      OBVIOUS
  <2>2. y < d
      BY <1>2, <2>1
  <2>3. y % d = y
      BY <2>2
  <2>4. QED
      BY <2>1, <2>3
<1>4. (x + h) - h = x
    OBVIOUS
<1>5. QED
    BY <1>2, <1>3, <1>4 DEF Wrap

LEMMA FusedAlwaysRight ==
    ASSUME NEW n \in Nat, Len(rows) = n, 2 * IntermediateSize * n <= Pow2[WordBits - 1],
           NEW i \in 1 .. n
    PROVE  FusedRight(i)
<1>1. PICK I \in Nat \ {0}, B \in Nat \ {0}, a \in Nat :
          I = IntermediateSize /\ B = SiluBlock /\ a = i - 1
    BY SiluAssumption
<1>2. PICK P \in Nat : P = Pow2[WordBits - 1]
  <2>1. WordBits - 1 \in Nat
      BY SiluAssumption
  <2>2. QED
      BY <2>1, Pow2Unfolds, Pow2Grows
<1>3. SUFFICES ASSUME NEW col \in 0 .. I - 1
               PROVE  /\ a * I + col \in SiluStores
                      /\ GateIdx(a * I + col) = a * 2 * I + col
                      /\ UpIdx(a * I + col) = a * 2 * I + I + col
    BY <1>1 DEF FusedRight
<1>4. a * I \in Nat /\ a * (2 * I) \in Nat /\ a * 2 * I = a * (2 * I) /\ n * I \in Nat
    OBVIOUS
<1>5. PICK off \in Nat : off = a * I + col
    BY <1>4
<1>6. off \div I = a /\ off % I = col
    BY <1>5
<1>7. a * (2 * I) + 2 * I <= P
  <2>1. (a + 1) * (2 * I) <= n * (2 * I)
      BY <1>1, TimesMonotone
  <2>2. (a + 1) * (2 * I) = a * (2 * I) + 2 * I /\ n * (2 * I) = 2 * I * n
      OBVIOUS
  <2>3. QED
      BY <1>1, <1>2, <2>1, <2>2
<1>8. off < n * I
  <2>1. (a + 1) * I <= n * I
      BY <1>1, TimesMonotone
  <2>2. (a + 1) * I = a * I + I
      OBVIOUS
  <2>3. QED
      BY <1>4, <1>5, <2>1, <2>2
<1>9. off \in SiluStores
  <2>1. PICK t \in Nat : t = Len(rows) * IntermediateSize /\ t = n * I
      BY <1>1, <1>4
  <2>2. RoundedUp(t, B) \in Nat /\ t <= RoundedUp(t, B) * B
      BY QuotientRoundedUp
  <2>3. RoundedUp(t, B) * B \in Nat
      BY <2>2
  <2>4. off \in 0 .. RoundedUp(t, B) * B - 1 /\ off < t
      BY <1>8, <2>1, <2>2, <2>3
  <2>5. QED
      BY <1>1, <2>1, <2>4 DEF SiluStores, RoundedUp
<1>10. PICK x \in Nat : x = a * (2 * I)
    BY <1>4
<1>11. Wrap(x) = x /\ Wrap(x + col) = x + col /\ Wrap((x + col) + I) = (x + col) + I
  <2>1. x < P /\ x + col < P /\ (x + col) + I < P
      BY <1>7, <1>10
  <2>2. x + col \in Nat /\ (x + col) + I \in Nat
      OBVIOUS
  <2>3. QED
      BY <1>2, <2>1, <2>2, WrapShort
<1>12. GateIdx(off) = x + col
    BY <1>1, <1>6, <1>10, <1>11 DEF GateIdx
<1>13. UpIdx(off) = (x + col) + I
    BY <1>1, <1>11, <1>12 DEF UpIdx
<1>14. QED
    BY <1>4, <1>5, <1>9, <1>10, <1>12, <1>13

-----------------------------------------------------------------------------
(* The operations of a layer.                                              *)

PassInv ==
    /\ Books /\ Inputs /\ Names /\ Sums /\ Rotation /\ Stored
    /\ CacheAgreesInEveryLayer

LEMMA KVHeadsAreHeads == KVHeads \subseteq Heads
<1>1. PICK m \in Nat \ {0}, n \in Nat \ {0} : m = NumHeads /\ n = NumKVHeads /\ m % n = 0
    BY HeadsAssumption
<1>2. n <= m
    BY <1>1
<1>3. QED
    BY <1>1, <1>2 DEF KVHeads, Heads

\* Within a pass the inputs stay.
LEMMA InputsKept ==
    ASSUME Books, Inputs, InStep, UNCHANGED inputVars, pc' \in AllPCs \ {"idle"},
           kv_cache' # << >>, DOMAIN kv_cache' = Layers,
           \A l \in Layers : DOMAIN kv_cache'[l] = 0 .. DummySlot
    PROVE  /\ Books' /\ Inputs' /\ InStep'
           /\ TokenRows' = TokenRows
           /\ \A i, l : Own(i, l)' = Own(i, l) /\ RightCell(i, l)' = RightCell(i, l)
<1>1. /\ length' = length /\ computed' = computed /\ rows' = rows /\ path' = path
      /\ cuda' = cuda /\ batch' = batch /\ forward_ctx' = forward_ctx
      /\ use_cuda_graphs' = use_cuda_graphs
    BY DEF inputVars
<1>2. Books'
    BY <1>1 DEF Books, InStep
<1>3. InStep'
    BY <1>1 DEF InStep
<1>4. EagerRows(batch)' = EagerRows(batch) /\ GraphRows(batch)' = GraphRows(batch)
  <2>1. EagerRows(batch)' = EagerRows(batch)
      BY <1>1 DEF EagerRows, NewRows, NumNew
  <2>2. QED
      BY <1>1, <2>1 DEF GraphRows
<1>5. CanGraphDecode(batch)' = CanGraphDecode(batch)
    BY <1>1 DEF CanGraphDecode, NumNew
<1>6. Slots(rows)' = Slots(rows)
    BY <1>1 DEF Slots
<1>7. Inputs'
    BY <1>1, <1>4, <1>5, <1>6 DEF Inputs
<1>8. TokenRows' = TokenRows
    BY <1>1 DEF TokenRows
<1>9. ASSUME NEW i, NEW l PROVE Own(i, l)' = Own(i, l) /\ RightCell(i, l)' = RightCell(i, l)
    BY <1>1 DEF Own, RightCell
<1>10. QED
    BY <1>2, <1>3, <1>7, <1>8, <1>9

\* The operations that leave the cache.
LEMMA CacheKept ==
    ASSUME Books, Inputs, InStep, UNCHANGED <<inputVars, kv_cache>>,
           pc' \in AllPCs \ {"idle"}, CacheAgreesInEveryLayer
    PROVE  /\ Books' /\ Inputs' /\ InStep'
           /\ TokenRows' = TokenRows
           /\ \A i, l : Own(i, l)' = Own(i, l) /\ RightCell(i, l)' = RightCell(i, l)
           /\ CacheAgreesInEveryLayer'
<1>1. /\ kv_cache' # << >> /\ DOMAIN kv_cache' = Layers
      /\ \A l \in Layers : DOMAIN kv_cache'[l] = 0 .. DummySlot
    BY DEF Books, Inputs
<1>2. computed' = computed /\ kv_cache' = kv_cache
    BY DEF inputVars
<1>3. CacheAgreesInEveryLayer'
    BY <1>2 DEF CacheAgreesInEveryLayer
<1>4. UNCHANGED inputVars
    OBVIOUS
<1>5. QED
    BY <1>1, <1>3, <1>4, InputsKept

\* A norm puts the sum into the residual, in place, and into its output.
LEMMA NormAdds ==
    ASSUME DOMAIN heap = {"embed", "normed", "attn", "mlp"},
           residual = "embed" \/ (residual = "none" /\ hidden = "embed"),
           NEW next, Norm(next)
    PROVE  /\ residual' = "embed" /\ hidden' = "normed"
           /\ DOMAIN heap' = {"embed", "normed", "attn", "mlp"}
           /\ \A i \in DOMAIN rows : heap'["embed"][i] = FusedAdd(i)
                                     /\ heap'["normed"][i] = FusedAdd(i)
<1> DEFINE sum == [i \in DOMAIN rows |-> FusedAdd(i)]
<1>1. residual' = "embed" /\ hidden' = "normed"
    BY DEF Norm
<1>2. heap' = [heap EXCEPT ![residual'] = sum, !.normed = sum]
    BY DEF Norm
<1>3. \A i \in DOMAIN rows : sum[i] = FusedAdd(i)
    OBVIOUS
<1> HIDE DEF sum
<1>4. /\ heap'["embed"] = sum /\ heap'["normed"] = sum
      /\ DOMAIN heap' = {"embed", "normed", "attn", "mlp"}
    BY <1>1, <1>2
<1>5. QED
    BY <1>1, <1>3, <1>4

LEMMA InputNormKeeps == PassInv /\ InStep /\ InputNorm => PassInv'
<1>1. SUFFICES ASSUME PassInv, InStep, InputNorm PROVE PassInv'
    OBVIOUS
<1>2. /\ pc = "input_norm" /\ pc' = "qkv_proj" /\ Norm("qkv_proj")
      /\ UNCHANGED <<inputVars, kv_cache>> /\ layer' = layer
    BY <1>1 DEF InputNorm, Norm
<1>3. /\ Books' /\ Inputs' /\ InStep' /\ TokenRows' = TokenRows
      /\ \A i, l : Own(i, l)' = Own(i, l) /\ RightCell(i, l)' = RightCell(i, l)
      /\ CacheAgreesInEveryLayer'
    BY <1>1, <1>2, CacheKept DEF PassInv, AllPCs
<1>4. /\ residual' = "embed" /\ hidden' = "normed"
      /\ DOMAIN heap' = {"embed", "normed", "attn", "mlp"}
      /\ \A i \in DOMAIN rows : heap'["embed"][i] = FusedAdd(i)
                                /\ heap'["normed"][i] = FusedAdd(i)
  <2>1. /\ DOMAIN heap = {"embed", "normed", "attn", "mlp"}
        /\ residual = "embed" \/ (residual = "none" /\ hidden = "embed")
      BY <1>1, <1>2 DEF PassInv, Names
  <2>2. QED
      BY <1>2, <2>1, NormAdds
<1>5. Names'
    BY <1>1, <1>2, <1>4 DEF PassInv, Names
<1>6. Sums'
  <2>1. ASSUME NEW i \in TokenRows
        PROVE  heap'["normed"][i] = Own(i, layer) /\ heap'["embed"][i] = Own(i, layer)
    <3>1. i \in DOMAIN rows /\ FusedAdd(i) = Own(i, layer)
        BY <1>1, <1>2 DEF PassInv, Sums, TokenRows
    <3>2. QED
        BY <1>4, <3>1
  <2>2. QED
      BY <1>2, <1>3, <2>1 DEF Sums
<1>7. Rotation'
    BY <1>2 DEF Rotation
<1>8. Stored'
    BY <1>1, <1>2, <1>3 DEF PassInv, Stored, inputVars
<1>9. QED
    BY <1>3, <1>5, <1>6, <1>7, <1>8 DEF PassInv

LEMMA QKVProjKeeps == PassInv /\ InStep /\ QKVProj => PassInv'
<1>1. SUFFICES ASSUME PassInv, InStep, QKVProj PROVE PassInv'
    OBVIOUS
<1>2. /\ pc = "qkv_proj" /\ pc' = "rope" /\ UNCHANGED <<inputVars, kv_cache>>
      /\ layer' = layer /\ heap' = heap /\ hidden' = hidden /\ residual' = residual
      /\ todo' = RopeGrid
      /\ q' = [i \in DOMAIN rows |-> [h \in Heads |-> << >>]]
      /\ k' = [i \in DOMAIN rows |-> [h \in KVHeads |-> << >>]]
      /\ rows' = rows
    BY <1>1 DEF QKVProj, Heads, inputVars
<1>3. /\ Books' /\ Inputs' /\ InStep' /\ TokenRows' = TokenRows
      /\ \A i, l : Own(i, l)' = Own(i, l) /\ RightCell(i, l)' = RightCell(i, l)
      /\ CacheAgreesInEveryLayer'
    BY <1>1, <1>2, CacheKept DEF PassInv, AllPCs
<1>4. Names'
    BY <1>1, <1>2 DEF PassInv, Names
<1>5. Sums'
    BY <1>1, <1>2, <1>3 DEF PassInv, Sums
<1>6. Rotation'
  <2>1. RopeGrid' = RopeGrid
      BY <1>2 DEF RopeGrid
  <2>2. ASSUME NEW i \in TokenRows
        PROVE  /\ i \in DOMAIN rows
               /\ \A h \in Heads : q'[i][h] = << >> /\ <<i, h>> \in RopeGrid
               /\ \A g \in KVHeads : k'[i][g] = << >>
      BY <1>2 DEF TokenRows, RopeGrid, Heads
  <2>3. \A g \in KVHeads : g \in Heads
      BY KVHeadsAreHeads
  <2>4. \A i \in DOMAIN rows : DOMAIN q'[i] = Heads /\ DOMAIN k'[i] = KVHeads
      BY <1>2
  <2>5. DOMAIN q' = DOMAIN rows /\ DOMAIN k' = DOMAIN rows
      BY <1>2
  <2>6. QED
      BY <1>2, <1>3, <2>1, <2>2, <2>3, <2>4, <2>5 DEF Rotation
<1>7. Stored'
    BY <1>1, <1>2, <1>3 DEF PassInv, Stored
<1>8. QED
    BY <1>3, <1>4, <1>5, <1>6, <1>7 DEF PassInv

\* Where rows store.
LEMMA RowSlots ==
    ASSUME Books, Inputs, InStep, NEW i \in DOMAIN rows
    PROVE  /\ forward_ctx[i] = rows[i].slot /\ rows[i].slot \in 0 .. DummySlot
           /\ HasCache
<1>1. forward_ctx = [y \in DOMAIN rows |-> rows[y].slot] /\ kv_cache # << >>
    BY DEF Inputs, Slots
<1>2. DOMAIN forward_ctx = DOMAIN rows
    BY <1>1
<1>3. forward_ctx # << >>
  <2>1. DOMAIN << >> = {}
      OBVIOUS
  <2>2. QED
      BY <1>2, <2>1
<1>4. rows[i].slot \in 0 .. DummySlot
  <2>1. CASE i \in TokenRows
      BY <2>1, TokenRowsAre, SlotIs
  <2>2. CASE i \notin TokenRows
    <3>1. rows[i].slot = DummySlot
        BY <2>2 DEF TokenRows
    <3>2. DummySlot \in Nat
        BY BatchAssumption DEF DummySlot
    <3>3. QED
        BY <3>1, <3>2
  <2>3. QED
      BY <2>1, <2>2
<1>5. QED
    BY <1>1, <1>3, <1>4 DEF HasCache

\* What a pass stores is no cell that counts as computed.
LEMMA StoresNothingComputed ==
    ASSUME Books, Inputs, InStep, NEW i \in DOMAIN rows,
           NEW s \in SeqIds, NEW p \in 0 .. computed[s] - 1
    PROVE  SlotOf(s, p) # rows[i].slot /\ SlotOf(s, p) \in 0 .. DummySlot
<1>1. computed[s] \in Nat /\ computed[s] <= MaxLen /\ MaxLen \in Nat
    BY BatchAssumption DEF Books
<1>2. p \in 0 .. MaxLen - 1
    BY <1>1
<1>3. SlotOf(s, p) # DummySlot /\ SlotOf(s, p) \in 0 .. DummySlot
    BY <1>2, SlotIs
<1>4. CASE i \in TokenRows
  <2>1. /\ rows[i].seq \in SeqIds /\ rows[i].pos \in 0 .. MaxLen - 1
        /\ computed[rows[i].seq] <= rows[i].pos
        /\ rows[i].slot = SlotOf(rows[i].seq, rows[i].pos)
      BY <1>4, TokenRowsAre
  <2>2. SUFFICES ASSUME SlotOf(s, p) = SlotOf(rows[i].seq, rows[i].pos) PROVE FALSE
      BY <1>3, <2>1
  <2>3. s = rows[i].seq /\ p = rows[i].pos
      BY <1>2, <2>1, <2>2, SlotsApart
  <2>4. QED
      BY <1>1, <2>1, <2>3
<1>5. CASE i \notin TokenRows
    BY <1>3, <1>5 DEF TokenRows
<1>6. QED
    BY <1>4, <1>5

\* Rows that store into one slot are of one token.
LEMMA SameSlotSameToken ==
    ASSUME Books, Inputs, InStep, NEW i \in TokenRows, NEW y \in DOMAIN rows,
           rows[y].slot = rows[i].slot
    PROVE  /\ y \in TokenRows /\ rows[y].seq = rows[i].seq /\ rows[y].pos = rows[i].pos
           /\ \A l : Own(y, l) = Own(i, l) /\ RightCell(y, l) = RightCell(i, l)
<1>1. y \in TokenRows
    BY DEF TokenRows
<1>2. rows[y].seq = rows[i].seq /\ rows[y].pos = rows[i].pos
  <2>1. /\ rows[i].seq \in SeqIds /\ rows[i].pos \in 0 .. MaxLen - 1
        /\ rows[i].slot = SlotOf(rows[i].seq, rows[i].pos)
      BY TokenRowsAre
  <2>2. /\ rows[y].seq \in SeqIds /\ rows[y].pos \in 0 .. MaxLen - 1
        /\ rows[y].slot = SlotOf(rows[y].seq, rows[y].pos)
      BY <1>1, TokenRowsAre
  <2>3. QED
      BY <2>1, <2>2, SlotsApart
<1>3. QED
    BY <1>1, <1>2 DEF Own, RightCell

\* A program of the rotation writes one head of q and, of a key-value head, one
\* head of k and one cell.
LEMMA RopeProgramWrites ==
    ASSUME PassInv, InStep, NEW i \in DOMAIN rows, NEW h \in Heads, RopeProgram(i, h)
    PROVE  /\ DOMAIN q' = DOMAIN rows /\ DOMAIN k' = DOMAIN rows
           /\ \A y \in DOMAIN rows : DOMAIN q'[y] = Heads /\ DOMAIN k'[y] = KVHeads
           /\ \A y \in DOMAIN rows : \A x \in Heads :
                 q'[y][x] = IF y = i /\ x = h THEN Append(q[i][h], rows[i].pos) ELSE q[y][x]
           /\ \A y \in DOMAIN rows : \A g \in KVHeads :
                 k'[y][g] = IF y = i /\ g = h THEN Append(k[i][g], rows[i].pos) ELSE k[y][g]
           /\ DOMAIN kv_cache' = Layers
           /\ \A l \in Layers : DOMAIN kv_cache'[l] = 0 .. DummySlot
           /\ \A l \in Layers : \A x \in 0 .. DummySlot : \A g \in KVHeads :
                 kv_cache'[l][x][g] = IF l = layer /\ x = rows[i].slot /\ g = h
                                      THEN Cell(i, k'[i][g]) ELSE kv_cache[l][x][g]
<1>1. /\ pc = "rope"
      /\ q' = [q EXCEPT ![i][h] = Append(@, rows[i].pos)]
      /\ k' = [k EXCEPT ![i] = [g \in KVHeads |->
                    IF g \in KVHeadsOf(h) THEN Append(@[g], rows[i].pos) ELSE @[g]]]
      /\ kv_cache' = IF ~HasCache THEN kv_cache
                     ELSE [kv_cache EXCEPT ![layer][forward_ctx[i]] = [g \in KVHeads |->
                              IF g \in KVHeadsOf(h) THEN Cell(i, k'[i][g]) ELSE @[g]]]
    BY DEF RopeProgram, Angle
<1>2. /\ DOMAIN q = DOMAIN rows /\ DOMAIN k = DOMAIN rows
      /\ \A y \in DOMAIN rows : DOMAIN q[y] = Heads /\ DOMAIN k[y] = KVHeads
    BY <1>1 DEF PassInv, Rotation
<1>3. \A g \in KVHeads : g \in KVHeadsOf(h) <=> g = h
    BY DEF KVHeadsOf
<1>4. /\ layer \in Layers /\ DOMAIN kv_cache = Layers
      /\ \A l \in Layers : DOMAIN kv_cache[l] = 0 .. DummySlot
    BY DEF PassInv, Names, Books, Inputs
<1>5. /\ forward_ctx[i] = rows[i].slot /\ rows[i].slot \in 0 .. DummySlot /\ HasCache
    BY RowSlots DEF PassInv
<1> DEFINE head == [g \in KVHeads |->
                       IF g = h THEN Append(k[i][g], rows[i].pos) ELSE k[i][g]]
           cell == [g \in KVHeads |->
                       IF g = h THEN Cell(i, k'[i][g]) ELSE kv_cache[layer][rows[i].slot][g]]
<1>6. k' = [k EXCEPT ![i] = head]
    BY <1>1, <1>3
<1>7. kv_cache' = [kv_cache EXCEPT ![layer][rows[i].slot] = cell]
  <2>1. cell = [g \in KVHeads |-> IF g \in KVHeadsOf(h) THEN Cell(i, k'[i][g])
                                  ELSE kv_cache[layer][rows[i].slot][g]]
      BY <1>3
  <2> HIDE DEF cell
  <2>2. kv_cache' = [kv_cache EXCEPT ![layer][rows[i].slot] = [g \in KVHeads |->
                        IF g \in KVHeadsOf(h) THEN Cell(i, k'[i][g])
                        ELSE kv_cache[layer][rows[i].slot][g]]]
      BY <1>1, <1>5
  <2>3. QED
      BY <2>1, <2>2
<1>8. /\ \A g \in KVHeads : head[g] = IF g = h THEN Append(k[i][g], rows[i].pos) ELSE k[i][g]
      /\ DOMAIN head = KVHeads
    OBVIOUS
<1>9. \A g \in KVHeads : cell[g] = IF g = h THEN Cell(i, k'[i][g])
                                            ELSE kv_cache[layer][rows[i].slot][g]
    OBVIOUS
<1> HIDE DEF head, cell
<1>10. /\ DOMAIN q' = DOMAIN rows /\ \A y \in DOMAIN rows : DOMAIN q'[y] = Heads
       /\ \A y \in DOMAIN rows : \A x \in Heads :
             q'[y][x] = IF y = i /\ x = h THEN Append(q[i][h], rows[i].pos) ELSE q[y][x]
    BY <1>1, <1>2
<1>11. /\ DOMAIN k' = DOMAIN rows /\ \A y \in DOMAIN rows : DOMAIN k'[y] = KVHeads
       /\ \A y \in DOMAIN rows : \A g \in KVHeads :
             k'[y][g] = IF y = i /\ g = h THEN Append(k[i][g], rows[i].pos) ELSE k[y][g]
    BY <1>2, <1>6, <1>8
<1>12. /\ DOMAIN kv_cache' = Layers
       /\ \A l \in Layers : DOMAIN kv_cache'[l] = 0 .. DummySlot
       /\ \A l \in Layers : \A x \in 0 .. DummySlot :
             kv_cache'[l][x] = IF l = layer /\ x = rows[i].slot THEN cell ELSE kv_cache[l][x]
    BY <1>4, <1>5, <1>7
<1>13. QED
    BY <1>9, <1>10, <1>11, <1>12

LEMMA RopeProgramKeeps ==
    ASSUME PassInv, InStep, NEW i \in DOMAIN rows, NEW h \in Heads, RopeProgram(i, h)
    PROVE  PassInv'
<1>1. /\ pc = "rope" /\ pc' = "rope" /\ cuda /\ <<i, h>> \in todo
      /\ todo' = todo \ {<<i, h>>} /\ UNCHANGED inputVars /\ rows' = rows /\ cuda' = cuda
      /\ computed' = computed
      /\ layer' = layer /\ heap' = heap /\ hidden' = hidden /\ residual' = residual
    BY DEF RopeProgram, inputVars
<1>2. /\ DOMAIN q' = DOMAIN rows /\ DOMAIN k' = DOMAIN rows
      /\ \A y \in DOMAIN rows : DOMAIN q'[y] = Heads /\ DOMAIN k'[y] = KVHeads
      /\ \A y \in DOMAIN rows : \A x \in Heads :
            q'[y][x] = IF y = i /\ x = h THEN Append(q[i][h], rows[i].pos) ELSE q[y][x]
      /\ \A y \in DOMAIN rows : \A g \in KVHeads :
            k'[y][g] = IF y = i /\ g = h THEN Append(k[i][g], rows[i].pos) ELSE k[y][g]
      /\ DOMAIN kv_cache' = Layers
      /\ \A l \in Layers : DOMAIN kv_cache'[l] = 0 .. DummySlot
      /\ \A l \in Layers : \A x \in 0 .. DummySlot : \A g \in KVHeads :
            kv_cache'[l][x][g] = IF l = layer /\ x = rows[i].slot /\ g = h
                                 THEN Cell(i, k'[i][g]) ELSE kv_cache[l][x][g]
    BY RopeProgramWrites
<1>3. layer \in Layers /\ \A g \in KVHeads : g \in Heads
    BY KVHeadsAreHeads DEF PassInv, Names
<1>4. kv_cache' # << >>
  <2>1. DOMAIN << >> = {}
      OBVIOUS
  <2>2. QED
      BY <1>2, <1>3, <2>1
<1>5. /\ Books' /\ Inputs' /\ InStep' /\ TokenRows' = TokenRows
      /\ \A y, l : Own(y, l)' = Own(y, l) /\ RightCell(y, l)' = RightCell(y, l)
    BY <1>1, <1>2, <1>4, InputsKept DEF PassInv, AllPCs
<1>6. /\ todo \subseteq RopeGrid
      /\ \A y \in TokenRows :
            /\ \A x \in Heads : q[y][x] = IF <<y, x>> \in todo THEN << >> ELSE <<rows[y].pos>>
            /\ \A g \in KVHeads :
                  IF <<y, g>> \in todo THEN k[y][g] = << >>
                  ELSE /\ k[y][g] = <<rows[y].pos>>
                       /\ kv_cache[layer][rows[y].slot][g] = RightCell(y, layer)
    BY <1>1 DEF PassInv, Rotation
<1>7. \A x : Append(<< >>, x) = <<x>>
    OBVIOUS
<1>8. \A y \in TokenRows : y \in DOMAIN rows /\ rows[y].slot \in 0 .. DummySlot
    BY RowSlots DEF PassInv, TokenRows
<1>9. ASSUME i \in TokenRows, NEW g \in KVHeads, g = h
      PROVE  k'[i][g] = <<rows[i].pos>> /\ Cell(i, k'[i][g]) = RightCell(i, layer)
  <2>1. k'[i][g] = <<rows[i].pos>>
    <3>1. k[i][g] = << >>
        BY <1>1, <1>6, <1>9
    <3>2. QED
        BY <1>2, <1>7, <1>9, <3>1
  <2>2. heap["normed"][i] = Own(i, layer)
      BY <1>1, <1>9 DEF PassInv, Sums
  <2>3. QED
      BY <2>1, <2>2 DEF Cell, RightCell
<1>10. ASSUME NEW y \in TokenRows, NEW x \in Heads
       PROVE  q'[y][x] = IF <<y, x>> \in todo' THEN << >> ELSE <<rows[y].pos>>
  <2>1. CASE y = i /\ x = h
    <3>1. q[i][h] = << >>
        BY <1>1, <1>6, <2>1
    <3>2. q'[y][x] = <<rows[y].pos>>
        BY <1>2, <1>7, <1>8, <2>1, <3>1
    <3>3. <<y, x>> \notin todo'
        BY <1>1, <2>1
    <3>4. QED
        BY <3>2, <3>3
  <2>2. CASE ~(y = i /\ x = h)
    <3>1. <<y, x>> \in todo' <=> <<y, x>> \in todo
        BY <1>1, <2>2
    <3>2. q'[y][x] = q[y][x]
        BY <1>2, <1>8, <2>2
    <3>3. QED
        BY <1>6, <3>1, <3>2
  <2>3. QED
      BY <2>1, <2>2
<1>11. ASSUME NEW y \in TokenRows, NEW g \in KVHeads
       PROVE  IF <<y, g>> \in todo' THEN k'[y][g] = << >>
              ELSE /\ k'[y][g] = <<rows[y].pos>>
                   /\ kv_cache'[layer][rows[y].slot][g] = RightCell(y, layer)
  <2>1. CASE y = i /\ g = h
    <3>1. /\ k'[y][g] = <<rows[y].pos>> /\ Cell(i, k'[i][g]) = RightCell(y, layer)
        BY <1>9, <2>1
    <3>2. kv_cache'[layer][rows[y].slot][g] = Cell(i, k'[i][g])
        BY <1>2, <1>3, <1>8, <2>1
    <3>3. <<y, g>> \notin todo'
        BY <1>1, <2>1
    <3>4. QED
        BY <3>1, <3>2, <3>3
  <2>2. CASE ~(y = i /\ g = h)
    <3>1. <<y, g>> \in todo' <=> <<y, g>> \in todo
        BY <1>1, <2>2
    <3>2. k'[y][g] = k[y][g]
        BY <1>2, <1>8, <2>2
    <3>3. ASSUME <<y, g>> \notin todo
          PROVE  kv_cache'[layer][rows[y].slot][g] = RightCell(y, layer)
      <4>1. CASE rows[y].slot = rows[i].slot /\ g = h
        <5>1. i \in TokenRows /\ RightCell(i, layer) = RightCell(y, layer)
            BY <4>1, SameSlotSameToken DEF PassInv
        <5>2. Cell(i, k'[i][g]) = RightCell(i, layer)
            BY <1>9, <4>1, <5>1
        <5>3. kv_cache'[layer][rows[y].slot][g] = Cell(i, k'[i][g])
            BY <1>2, <1>3, <1>8, <4>1
        <5>4. QED
            BY <5>1, <5>2, <5>3
      <4>2. CASE ~(rows[y].slot = rows[i].slot /\ g = h)
        <5>1. kv_cache'[layer][rows[y].slot][g] = kv_cache[layer][rows[y].slot][g]
            BY <1>2, <1>3, <1>8, <4>2
        <5>2. QED
            BY <1>6, <3>3, <5>1
      <4>3. QED
          BY <4>1, <4>2
    <3>4. QED
        BY <1>6, <3>1, <3>2, <3>3
  <2>3. QED
      BY <2>1, <2>2
<1>12. Rotation'
  <2>1. RopeGrid' = RopeGrid
      BY <1>1 DEF RopeGrid
  <2>2. todo' \subseteq RopeGrid'
      BY <1>1, <1>6, <2>1
  <2>3. \A y \in TokenRows : \A x \in Heads :
            q'[y][x] = IF <<y, x>> \in todo' THEN << >> ELSE <<rows'[y].pos>>
      BY <1>1, <1>10
  <2>4. \A y \in TokenRows : \A g \in KVHeads :
            IF <<y, g>> \in todo' THEN k'[y][g] = << >>
            ELSE /\ k'[y][g] = <<rows'[y].pos>>
                 /\ kv_cache'[layer'][rows'[y].slot][g] = RightCell(y, layer)'
    <3>1. \A y : RightCell(y, layer)' = RightCell(y, layer)
        BY <1>1, <1>5
    <3>2. QED
        BY <1>1, <1>11, <3>1
  <2>5. QED
      BY <1>1, <1>2, <1>5, <2>2, <2>3, <2>4 DEF Rotation
<1>13. CacheAgreesInEveryLayer'
  <2>1. ASSUME NEW s \in SeqIds, NEW p \in 0 .. computed[s] - 1, NEW l \in Layers,
               NEW g \in KVHeads
        PROVE  kv_cache'[l][SlotOf(s, p)][g] = [key |-> <<p>>, from |-> Summed(s, p, l)]
    <3>1. SlotOf(s, p) # rows[i].slot /\ SlotOf(s, p) \in 0 .. DummySlot
        BY StoresNothingComputed DEF PassInv
    <3>2. kv_cache'[l][SlotOf(s, p)][g] = kv_cache[l][SlotOf(s, p)][g]
        BY <1>2, <3>1
    <3>3. kv_cache # << >>
        BY DEF PassInv, Inputs
    <3>4. QED
        BY <3>2, <3>3 DEF PassInv, CacheAgreesInEveryLayer
  <2>2. QED
      BY <1>1, <2>1 DEF CacheAgreesInEveryLayer
<1>14. Stored'
  <2>1. ASSUME NEW l \in Layers, l < layer, NEW y \in TokenRows, NEW g \in KVHeads
        PROVE  kv_cache'[l][rows[y].slot][g] = RightCell(y, l)
    <3>1. l # layer
        BY <1>3, <2>1 DEF Layers
    <3>2. kv_cache'[l][rows[y].slot][g] = kv_cache[l][rows[y].slot][g]
        BY <1>2, <1>8, <3>1
    <3>3. QED
        BY <2>1, <3>2 DEF PassInv, Stored
  <2>2. QED
      BY <1>1, <1>5, <2>1 DEF Stored
<1>15. Names' /\ Sums'
  <2>1. Names'
      BY <1>1 DEF PassInv, Names, InStep, inputVars
  <2>2. Sums'
      BY <1>1, <1>5 DEF PassInv, Sums
  <2>3. QED
      BY <2>1, <2>2
<1>16. QED
    BY <1>5, <1>12, <1>13, <1>14, <1>15 DEF PassInv

LEMMA RopeTorchKeeps == PassInv /\ InStep /\ RopeTorch => PassInv'
<1>1. SUFFICES ASSUME PassInv, InStep, RopeTorch PROVE PassInv'
    OBVIOUS
<1>2. /\ pc = "rope" /\ pc' = "rope" /\ ~cuda /\ todo # {} /\ todo' = {}
      /\ UNCHANGED inputVars /\ rows' = rows /\ cuda' = cuda /\ computed' = computed
      /\ layer' = layer /\ heap' = heap /\ hidden' = hidden /\ residual' = residual
      /\ q' = [i \in DOMAIN rows |-> [h \in DOMAIN q[i] |-> Append(q[i][h], rows[i].pos)]]
      /\ k' = [i \in DOMAIN rows |-> [h \in DOMAIN k[i] |-> Append(k[i][h], rows[i].pos)]]
      /\ kv_cache' = [kv_cache EXCEPT ![layer] = StoreKVCache(@, k')]
    BY <1>1 DEF RopeTorch, inputVars, Rotated, Angle
<1>3. /\ todo = RopeGrid /\ DOMAIN q = DOMAIN rows /\ DOMAIN k = DOMAIN rows
      /\ \A i \in DOMAIN rows : DOMAIN q[i] = Heads /\ DOMAIN k[i] = KVHeads
      /\ \A i \in TokenRows :
            /\ \A h \in Heads :
                  q[i][h] = IF <<i, h>> \in todo THEN << >> ELSE <<rows[i].pos>>
            /\ \A g \in KVHeads : <<i, g>> \in todo => k[i][g] = << >>
    BY <1>1, <1>2 DEF PassInv, Rotation
<1>4. /\ layer \in Layers /\ (\A g \in KVHeads : g \in Heads) /\ DOMAIN kv_cache = Layers
      /\ \A l \in Layers : DOMAIN kv_cache[l] = 0 .. DummySlot
    BY <1>1, KVHeadsAreHeads DEF PassInv, Names, Books, Inputs
<1>5. \A i \in DOMAIN rows : /\ forward_ctx[i] = rows[i].slot
                             /\ rows[i].slot \in 0 .. DummySlot
    BY <1>1, RowSlots DEF PassInv
<1>6. ASSUME NEW i \in TokenRows
      PROVE  /\ i \in DOMAIN rows
             /\ \A h \in Heads : q'[i][h] = <<rows[i].pos>>
             /\ \A g \in KVHeads : k'[i][g] = <<rows[i].pos>>
             /\ \A g \in KVHeads : Cell(i, k'[i][g]) = RightCell(i, layer)
  <2>1. i \in DOMAIN rows
      BY DEF TokenRows
  <2>2. \A h \in Heads : <<i, h>> \in todo
      BY <1>3, <2>1 DEF RopeGrid, Heads
  <2>3. \A x : Append(<< >>, x) = <<x>>
      OBVIOUS
  <2>4. \A h \in Heads : q'[i][h] = <<rows[i].pos>>
    <3>1. \A h \in Heads : q'[i][h] = Append(q[i][h], rows[i].pos) /\ q[i][h] = << >>
        BY <1>2, <1>3, <2>1, <2>2
    <3>2. QED
        BY <2>3, <3>1
  <2>5. \A g \in KVHeads : k'[i][g] = <<rows[i].pos>>
    <3>1. \A g \in KVHeads : k'[i][g] = Append(k[i][g], rows[i].pos) /\ k[i][g] = << >>
        BY <1>2, <1>3, <1>4, <2>1, <2>2
    <3>2. QED
        BY <2>3, <3>1
  <2>6. heap["normed"][i] = Own(i, layer)
      BY <1>1, <1>2 DEF PassInv, Sums
  <2>7. QED
      BY <2>1, <2>4, <2>5, <2>6 DEF Cell, RightCell
<1>7. /\ DOMAIN kv_cache' = Layers
      /\ \A l \in Layers : DOMAIN kv_cache'[l] = 0 .. DummySlot
      /\ \A l \in Layers : \A x \in 0 .. DummySlot :
            l # layer \/ (\A i \in DOMAIN rows : rows[i].slot # x)
            => kv_cache'[l][x] = kv_cache[l][x]
  <2> DEFINE cells == StoreKVCache(kv_cache[layer], k')
  <2>1. /\ DOMAIN cells = 0 .. DummySlot
        /\ \A x \in 0 .. DummySlot :
              (\A i \in DOMAIN rows : rows[i].slot # x) => cells[x] = kv_cache[layer][x]
      BY <1>4, <1>5 DEF StoreKVCache
  <2>2. kv_cache' = [kv_cache EXCEPT ![layer] = cells]
      BY <1>2
  <2> HIDE DEF cells
  <2>3. QED
      BY <1>4, <2>1, <2>2
<1>8. ASSUME NEW i \in TokenRows, NEW g \in KVHeads
      PROVE  kv_cache'[layer][rows[i].slot][g] = RightCell(i, layer)
  <2>1. i \in DOMAIN rows /\ rows[i].slot \in 0 .. DummySlot
      BY <1>5, <1>6
  <2> DEFINE c == CHOOSE y \in DOMAIN rows : forward_ctx[y] = rows[i].slot
  <2>2. c \in DOMAIN rows /\ forward_ctx[c] = rows[i].slot
    <3>1. \E y \in DOMAIN rows : forward_ctx[y] = rows[i].slot
        BY <1>5, <2>1
    <3>2. QED
        BY <3>1
  <2>3. \E y \in DOMAIN rows : forward_ctx[y] = rows[i].slot
      BY <2>2
  <2>4. kv_cache'[layer][rows[i].slot] = [y \in KVHeads |-> Cell(c, k'[c][y])]
    <3>1. kv_cache'[layer] = StoreKVCache(kv_cache[layer], k')
        BY <1>2, <1>4
    <3>2. QED
        BY <1>4, <2>1, <2>3, <3>1 DEF StoreKVCache
  <2> HIDE DEF c
  <2>5. kv_cache'[layer][rows[i].slot][g] = Cell(c, k'[c][g])
      BY <2>4
  <2>6. rows[c].slot = rows[i].slot
      BY <1>5, <2>2
  <2>7. c \in TokenRows /\ RightCell(c, layer) = RightCell(i, layer)
      BY <1>1, <2>2, <2>6, SameSlotSameToken DEF PassInv
  <2>8. QED
      BY <1>6, <2>5, <2>7
<1>9. kv_cache' # << >>
  <2>1. DOMAIN << >> = {}
      OBVIOUS
  <2>2. QED
      BY <1>4, <1>7, <2>1
<1>10. /\ Books' /\ Inputs' /\ InStep' /\ TokenRows' = TokenRows
       /\ \A y, l : Own(y, l)' = Own(y, l) /\ RightCell(y, l)' = RightCell(y, l)
    BY <1>1, <1>2, <1>7, <1>9, InputsKept DEF PassInv, AllPCs
<1>11. Rotation'
  <2>1. DOMAIN q' = DOMAIN rows /\ DOMAIN k' = DOMAIN rows
        /\ \A i \in DOMAIN rows : DOMAIN q'[i] = Heads /\ DOMAIN k'[i] = KVHeads
      BY <1>2, <1>3
  <2>2. ASSUME NEW i \in TokenRows
        PROVE  /\ \A h \in Heads : q'[i][h] = IF <<i, h>> \in todo' THEN << >>
                                              ELSE <<rows'[i].pos>>
               /\ \A g \in KVHeads :
                     IF <<i, g>> \in todo' THEN k'[i][g] = << >>
                     ELSE /\ k'[i][g] = <<rows'[i].pos>>
                          /\ kv_cache'[layer'][rows'[i].slot][g] = RightCell(i, layer)'
    <3>1. \A x : x \notin todo'
        BY <1>2
    <3>2. RightCell(i, layer)' = RightCell(i, layer)
        BY <1>2, <1>10
    <3>3. QED
        BY <1>2, <1>6, <1>8, <3>1, <3>2
  <2>3. todo' \subseteq RopeGrid' /\ todo' \in {{}, RopeGrid'}
      BY <1>2
  <2>4. QED
      BY <1>2, <1>10, <2>1, <2>2, <2>3 DEF Rotation
<1>12. CacheAgreesInEveryLayer'
  <2>1. ASSUME NEW s \in SeqIds, NEW p \in 0 .. computed[s] - 1, NEW l \in Layers,
               NEW g \in KVHeads
        PROVE  kv_cache'[l][SlotOf(s, p)][g] = [key |-> <<p>>, from |-> Summed(s, p, l)]
    <3>1. kv_cache # << >>
        BY <1>1 DEF PassInv, Inputs
    <3>2. kv_cache[l][SlotOf(s, p)][g] = [key |-> <<p>>, from |-> Summed(s, p, l)]
        BY <1>1, <3>1 DEF PassInv, CacheAgreesInEveryLayer
    <3>3. \A i \in DOMAIN rows : /\ SlotOf(s, p) # rows[i].slot
                                 /\ SlotOf(s, p) \in 0 .. DummySlot
        BY <1>1, StoresNothingComputed DEF PassInv
    <3>4. CASE DOMAIN rows = {}
      <4>1. SlotOf(s, p) \in 0 .. DummySlot
        <5>1. p \in 0 .. MaxLen - 1
            BY <1>1, BatchAssumption DEF PassInv, Books
        <5>2. QED
            BY <5>1, SlotIs
      <4>2. QED
          BY <1>7, <3>2, <3>4, <4>1
    <3>5. CASE DOMAIN rows # {}
        BY <1>7, <3>2, <3>3, <3>5
    <3>6. QED
        BY <3>4, <3>5
  <2>2. QED
      BY <1>2, <2>1 DEF CacheAgreesInEveryLayer
<1>13. Stored'
  <2>1. ASSUME NEW l \in Layers, l < layer, NEW y \in TokenRows, NEW g \in KVHeads
        PROVE  kv_cache'[l][rows[y].slot][g] = RightCell(y, l)
    <3>1. l # layer /\ rows[y].slot \in 0 .. DummySlot
        BY <1>4, <1>5, <1>6, <2>1 DEF Layers
    <3>2. kv_cache'[l][rows[y].slot] = kv_cache[l][rows[y].slot]
        BY <1>7, <3>1
    <3>3. QED
        BY <1>1, <2>1, <3>2 DEF PassInv, Stored
  <2>2. QED
      BY <1>2, <1>10, <2>1 DEF Stored
<1>14. Names' /\ Sums'
  <2>1. Names'
      BY <1>1, <1>2 DEF PassInv, Names, InStep, inputVars
  <2>2. Sums'
      BY <1>1, <1>2, <1>10 DEF PassInv, Sums
  <2>3. QED
      BY <2>1, <2>2
<1>15. QED
    BY <1>10, <1>11, <1>12, <1>13, <1>14 DEF PassInv

\* Attention finds what it needs of every position up to its own.
LEMMA EveryRowAttendsRight ==
    ASSUME PassInv, InStep, pc = "rope", todo = {}, NEW i \in TokenRows
    PROVE  AttendsRight(i)
<1>1. \A y \in TokenRows :
          /\ \A h \in Heads : q[y][h] = <<rows[y].pos>>
          /\ \A g \in KVHeads : kv_cache[layer][rows[y].slot][g] = RightCell(y, layer)
    BY DEF PassInv, Rotation
<1>2. /\ rows[i].seq \in SeqIds /\ rows[i].pos \in 0 .. MaxLen - 1
      /\ computed[rows[i].seq] <= rows[i].pos /\ rows[i].pos < length[rows[i].seq]
      /\ rows[i].seq \in ToSet(batch)
      /\ \A s \in ToSet(batch) : \A p \in computed[s] .. length[s] - 1 :
            \E y \in TokenRows : rows[y] = RowOf(s, p)
    BY TokenRowsAre DEF PassInv
<1>3. HasCache /\ kv_cache # << >> /\ layer \in Layers
    BY RowSlots DEF PassInv, TokenRows, Inputs, Names
<1>4. ASSUME NEW pos \in 0 .. rows[i].pos, NEW g \in KVHeads
      PROVE  kv_cache[layer][SlotOf(rows[i].seq, pos)][g] =
                 [key |-> <<pos>>, from |-> Summed(rows[i].seq, pos, layer)]
  <2>1. PICK s \in SeqIds : s = rows[i].seq
      BY <1>2
  <2>2. computed[s] \in Nat /\ length[s] \in Nat /\ MaxLen \in Nat
      BY BatchAssumption DEF PassInv, Books
  <2>3. CASE pos < computed[s]
    <3>1. pos \in 0 .. computed[s] - 1
        BY <1>2, <2>2, <2>3
    <3>2. QED
        BY <1>3, <2>1, <3>1 DEF PassInv, CacheAgreesInEveryLayer
  <2>4. CASE ~(pos < computed[s])
    <3>1. pos \in computed[s] .. length[s] - 1
        BY <1>2, <2>1, <2>2, <2>4
    <3>2. PICK y \in TokenRows : rows[y] = RowOf(s, pos)
        BY <1>2, <2>1, <3>1
    <3>3. rows[y].seq = s /\ rows[y].pos = pos /\ rows[y].slot = SlotOf(s, pos)
        BY <3>2 DEF RowOf
    <3>4. RightCell(y, layer) = [key |-> <<pos>>, from |-> Summed(s, pos, layer)]
        BY <3>3 DEF RightCell, Own
    <3>5. QED
        BY <1>1, <2>1, <3>3, <3>4
  <2>5. QED
      BY <2>3, <2>4
<1>5. ASSUME NEW h \in Heads
      PROVE  /\ q[i][h] = <<rows[i].pos>>
             /\ \A pos \in 0 .. rows[i].pos :
                   FoundAt(i, pos, h \div (NumHeads \div NumKVHeads)) =
                       [key |-> <<pos>>, from |-> Summed(rows[i].seq, pos, layer)]
  <2>1. PICK g \in KVHeads : g = h \div (NumHeads \div NumKVHeads)
      BY GroupHead
  <2>2. QED
      BY <1>1, <1>3, <1>4, <2>1 DEF FoundAt
<1>6. QED
    BY <1>5 DEF AttendsRight, Heads

LEMMA AttendKeeps == PassInv /\ InStep /\ Attend => PassInv'
<1>1. SUFFICES ASSUME PassInv, InStep, Attend PROVE PassInv'
    OBVIOUS
<1>2. /\ pc = "rope" /\ todo = {} /\ pc' = "post_norm" /\ hidden' = "attn"
      /\ UNCHANGED <<inputVars, kv_cache>> /\ layer' = layer /\ residual' = residual
      /\ rows' = rows
      /\ heap' = [heap EXCEPT !.attn = [i \in DOMAIN rows |->
                      IF rows[i].slot = DummySlot /\ HasCache THEN <<<<"padding">>>>
                      ELSE IF AttendsRight(i) THEN <<<<"attn", layer>>>>
                      ELSE <<<<"wrong">>>>]]
    BY <1>1 DEF Attend, inputVars
<1>3. /\ Books' /\ Inputs' /\ InStep' /\ TokenRows' = TokenRows
      /\ \A y, l : Own(y, l)' = Own(y, l) /\ RightCell(y, l)' = RightCell(y, l)
      /\ CacheAgreesInEveryLayer'
    BY <1>1, <1>2, CacheKept DEF PassInv, AllPCs
<1>4. layer \in Layers /\ DOMAIN heap = {"embed", "normed", "attn", "mlp"} /\ residual = "embed"
    BY <1>1, <1>2 DEF PassInv, Names
<1>5. /\ DOMAIN heap' = {"embed", "normed", "attn", "mlp"} /\ heap'["embed"] = heap["embed"]
      /\ \A i \in TokenRows : heap'["attn"][i] = <<<<"attn", layer>>>>
  <2> DEFINE out == [i \in DOMAIN rows |->
                      IF rows[i].slot = DummySlot /\ HasCache THEN <<<<"padding">>>>
                      ELSE IF AttendsRight(i) THEN <<<<"attn", layer>>>>
                      ELSE <<<<"wrong">>>>]
  <2>1. ASSUME NEW i \in TokenRows PROVE out[i] = <<<<"attn", layer>>>>
    <3>1. i \in DOMAIN rows /\ rows[i].slot # DummySlot
        BY DEF TokenRows
    <3>2. AttendsRight(i)
        BY <1>1, <1>2, EveryRowAttendsRight
    <3>3. QED
        BY <3>1, <3>2
  <2>2. heap' = [heap EXCEPT !.attn = out]
      BY <1>2
  <2> HIDE DEF out
  <2>3. QED
      BY <1>4, <2>1, <2>2
<1>6. Names'
    BY <1>2, <1>3, <1>4, <1>5 DEF Names
<1>7. Sums'
  <2>1. ASSUME NEW i \in TokenRows
        PROVE  FusedAdd(i)' = Join(Own(i, layer), <<<<"attn", layer>>>>)
    <3>1. heap["embed"][i] = Own(i, layer)
        BY <1>1, <1>2 DEF PassInv, Sums
    <3>2. FusedAdd(i)' = heap'["embed"][i] \o heap'["attn"][i]
        BY <1>2, <1>4 DEF FusedAdd
    <3>3. FusedAdd(i)' = Join(heap'["embed"][i], heap'["attn"][i])
        BY <3>2 DEF Join
    <3>4. QED
        BY <1>5, <3>1, <3>3
  <2>2. QED
      BY <1>2, <1>3, <2>1 DEF Sums
<1>8. Rotation'
    BY <1>2 DEF Rotation
<1>9. Stored'
  <2>1. ASSUME NEW l \in Layers, l < layer \/ l = layer, NEW i \in TokenRows, NEW g \in KVHeads
        PROVE  kv_cache[l][rows[i].slot][g] = RightCell(i, l)
    <3>1. CASE l < layer
        BY <1>1, <3>1 DEF PassInv, Stored
    <3>2. CASE l = layer
        BY <1>1, <1>2, <3>2 DEF PassInv, Rotation
    <3>3. QED
        BY <2>1, <3>1, <3>2
  <2>2. QED
      BY <1>2, <1>3, <2>1 DEF Stored
<1>10. QED
    BY <1>3, <1>6, <1>7, <1>8, <1>9 DEF PassInv

LEMMA PostAttentionNormKeeps == PassInv /\ InStep /\ PostAttentionNorm => PassInv'
<1>1. SUFFICES ASSUME PassInv, InStep, PostAttentionNorm PROVE PassInv'
    OBVIOUS
<1>2. /\ pc = "post_norm" /\ pc' = "mlp" /\ Norm("mlp")
      /\ UNCHANGED <<inputVars, kv_cache>> /\ layer' = layer /\ rows' = rows
    BY <1>1 DEF PostAttentionNorm, Norm, inputVars
<1>3. /\ Books' /\ Inputs' /\ InStep' /\ TokenRows' = TokenRows
      /\ \A i, l : Own(i, l)' = Own(i, l) /\ RightCell(i, l)' = RightCell(i, l)
      /\ CacheAgreesInEveryLayer'
    BY <1>1, <1>2, CacheKept DEF PassInv, AllPCs
<1>4. /\ residual' = "embed" /\ hidden' = "normed"
      /\ DOMAIN heap' = {"embed", "normed", "attn", "mlp"}
      /\ \A i \in DOMAIN rows : heap'["embed"][i] = FusedAdd(i)
  <2>1. DOMAIN heap = {"embed", "normed", "attn", "mlp"} /\ residual = "embed"
      BY <1>1, <1>2 DEF PassInv, Names
  <2>2. QED
      BY <1>2, <2>1, NormAdds
<1>5. Names'
    BY <1>1, <1>2, <1>4 DEF PassInv, Names
<1>6. Sums'
  <2>1. ASSUME NEW i \in TokenRows
        PROVE  heap'["embed"][i] = Join(Own(i, layer), <<<<"attn", layer>>>>)
    <3>1. /\ i \in DOMAIN rows
          /\ FusedAdd(i) = Join(Own(i, layer), <<<<"attn", layer>>>>)
        BY <1>1, <1>2 DEF PassInv, Sums, TokenRows
    <3>2. QED
        BY <1>4, <3>1
  <2>2. QED
      BY <1>2, <1>3, <2>1 DEF Sums
<1>7. Rotation'
    BY <1>2 DEF Rotation
<1>8. Stored'
    BY <1>1, <1>2, <1>3 DEF PassInv, Stored
<1>9. QED
    BY <1>3, <1>5, <1>6, <1>7, <1>8 DEF PassInv

\* In a step that is short enough no index of the SiLU kernel wraps.
LEMMA EveryRowFusedRight ==
    ASSUME PassInv, InStep, StepFits, cuda, NEW i \in TokenRows
    PROVE  FusedRight(i)
<1>1. batch \in Batches
    BY DEF PassInv, Inputs
<1>2. PICK e : Ends(batch, e)
    BY <1>1, QueryEndsAre
<1>3. PICK n \in Nat : n = Len(rows) /\ DOMAIN rows = 1 .. n
  <2>1. rows \in Seq(Row)
      BY <1>2, RowsAreTokens DEF PassInv
  <2>2. QED
      BY <2>1
<1>4. 2 * IntermediateSize * n <= Pow2[WordBits - 1]
    BY <1>3 DEF StepFits
<1>5. i \in 1 .. n
    BY <1>3 DEF TokenRows
<1>6. QED
    BY <1>3, <1>4, <1>5, FusedAlwaysRight

LEMMA MLPKeeps == PassInv /\ InStep /\ StepFits /\ MLP => PassInv'
<1>1. SUFFICES ASSUME PassInv, InStep, StepFits, MLP PROVE PassInv'
    OBVIOUS
<1>2. /\ pc = "mlp" /\ pc' \in {"input_norm", "final_norm"} /\ hidden' = "mlp"
      /\ UNCHANGED <<inputVars, kv_cache>> /\ residual' = residual /\ rows' = rows
      /\ IF layer < NumLayers THEN layer' = layer + 1 /\ pc' = "input_norm"
                              ELSE layer' = layer /\ pc' = "final_norm"
      /\ heap' = [heap EXCEPT !.mlp = [i \in DOMAIN rows |->
                     IF cuda => FusedRight(i) THEN <<<<"mlp", layer>>>>
                     ELSE <<<<"wrong">>>>]]
    BY <1>1 DEF MLP, inputVars
<1>3. /\ Books' /\ Inputs' /\ InStep' /\ TokenRows' = TokenRows
      /\ \A y, l : Own(y, l)' = Own(y, l) /\ RightCell(y, l)' = RightCell(y, l)
      /\ CacheAgreesInEveryLayer'
    BY <1>1, <1>2, CacheKept DEF PassInv, AllPCs
<1>4. /\ layer \in 1 .. NumLayers /\ NumLayers \in Nat
      /\ DOMAIN heap = {"embed", "normed", "attn", "mlp"} /\ residual = "embed"
    BY <1>1, <1>2, HeadsAssumption DEF PassInv, Names, Layers
<1>5. /\ layer' \in 1 .. NumLayers
      /\ pc' = "input_norm" => layer' = layer + 1
      /\ pc' = "final_norm" => layer' = NumLayers /\ layer = NumLayers
      /\ \A l \in Layers : l < layer' \/ (l = layer' /\ pc' = "final_norm")
                           => l < layer \/ l = layer
    BY <1>2, <1>4 DEF Layers
<1>6. /\ DOMAIN heap' = {"embed", "normed", "attn", "mlp"} /\ heap'["embed"] = heap["embed"]
      /\ \A i \in TokenRows : heap'["mlp"][i] = <<<<"mlp", layer>>>>
  <2> DEFINE out == [i \in DOMAIN rows |->
                      IF cuda => FusedRight(i) THEN <<<<"mlp", layer>>>>
                      ELSE <<<<"wrong">>>>]
  <2>1. ASSUME NEW i \in TokenRows PROVE out[i] = <<<<"mlp", layer>>>>
    <3>1. i \in DOMAIN rows
        BY DEF TokenRows
    <3>2. cuda => FusedRight(i)
        BY <1>1, EveryRowFusedRight
    <3>3. QED
        BY <3>1, <3>2
  <2>2. heap' = [heap EXCEPT !.mlp = out]
      BY <1>2
  <2> HIDE DEF out
  <2>3. QED
      BY <1>4, <2>1, <2>2
<1>7. Names'
    BY <1>2, <1>3, <1>4, <1>5, <1>6 DEF Names, Layers
<1>8. ASSUME NEW i \in TokenRows PROVE FusedAdd(i)' = Own(i, layer + 1)
  <2>1. heap["embed"][i] = Join(Own(i, layer), <<<<"attn", layer>>>>)
      BY <1>1, <1>2 DEF PassInv, Sums
  <2>2. FusedAdd(i)' = heap'["embed"][i] \o heap'["mlp"][i]
      BY <1>2, <1>4 DEF FusedAdd
  <2>3. FusedAdd(i)' = Join(heap'["embed"][i], heap'["mlp"][i])
      BY <2>2 DEF Join
  <2>4. FusedAdd(i)' = Join(Join(Own(i, layer), <<<<"attn", layer>>>>), <<<<"mlp", layer>>>>)
      BY <1>6, <2>1, <2>3
  <2>5. rows[i].seq \in Int /\ rows[i].pos \in Int
      BY <1>1, TokenRowsAre DEF PassInv, SeqIds
  <2>6. QED
      BY <1>4, <2>4, <2>5, SummedNext DEF Own
<1>9. Sums'
  <2>1. ASSUME NEW i \in TokenRows
        PROVE  /\ pc' = "input_norm" => FusedAdd(i)' = Own(i, layer)'
               /\ pc' = "final_norm" => FusedAdd(i)' = Own(i, NumLayers + 1)'
    <3>1. pc' = "input_norm" => Own(i, layer)' = Own(i, layer + 1)
        BY <1>2, <1>5 DEF Own
    <3>2. pc' = "final_norm" => Own(i, NumLayers + 1)' = Own(i, layer + 1)
        BY <1>2, <1>5 DEF Own
    <3>3. QED
        BY <1>8, <3>1, <3>2
  <2>2. QED
      BY <1>2, <1>3, <2>1 DEF Sums
<1>10. Rotation'
    BY <1>2 DEF Rotation
<1>11. Stored'
  <2>1. ASSUME NEW l \in Layers, l < layer \/ l = layer, NEW i \in TokenRows, NEW g \in KVHeads
        PROVE  kv_cache[l][rows[i].slot][g] = RightCell(i, l)
      BY <1>1, <1>2, <2>1 DEF PassInv, Stored
  <2>2. QED
      BY <1>2, <1>3, <1>5, <2>1 DEF Stored
<1>12. QED
    BY <1>3, <1>7, <1>9, <1>10, <1>11 DEF PassInv

LEMMA FinalNormKeeps == PassInv /\ InStep /\ FinalNorm => PassInv'
<1>1. SUFFICES ASSUME PassInv, InStep, FinalNorm PROVE PassInv'
    OBVIOUS
<1>2. /\ pc = "final_norm" /\ pc' = "logits" /\ Norm("logits")
      /\ UNCHANGED <<inputVars, kv_cache>> /\ layer' = layer /\ rows' = rows
    BY <1>1 DEF FinalNorm, Norm, inputVars
<1>3. /\ Books' /\ Inputs' /\ InStep' /\ TokenRows' = TokenRows
      /\ \A i, l : Own(i, l)' = Own(i, l) /\ RightCell(i, l)' = RightCell(i, l)
      /\ CacheAgreesInEveryLayer'
    BY <1>1, <1>2, CacheKept DEF PassInv, AllPCs
<1>4. /\ residual' = "embed" /\ hidden' = "normed" /\ layer' = NumLayers /\ layer' \in Layers
      /\ DOMAIN heap' = {"embed", "normed", "attn", "mlp"}
      /\ \A i \in DOMAIN rows : heap'["normed"][i] = FusedAdd(i)
  <2>1. /\ DOMAIN heap = {"embed", "normed", "attn", "mlp"} /\ residual = "embed"
        /\ layer = NumLayers /\ layer \in Layers
      BY <1>1, <1>2 DEF PassInv, Names
  <2>2. QED
      BY <1>2, <2>1, NormAdds
<1>5. Names'
    BY <1>2, <1>4 DEF Names
<1>6. Sums'
  <2>1. ASSUME NEW i \in TokenRows PROVE heap'["normed"][i] = Own(i, NumLayers + 1)
    <3>1. i \in DOMAIN rows /\ FusedAdd(i) = Own(i, NumLayers + 1)
        BY <1>1, <1>2 DEF PassInv, Sums, TokenRows
    <3>2. QED
        BY <1>4, <3>1
  <2>2. QED
      BY <1>2, <1>3, <2>1 DEF Sums
<1>7. Rotation'
    BY <1>2 DEF Rotation
<1>8. Stored'
    BY <1>1, <1>2, <1>3 DEF PassInv, Stored
<1>9. QED
    BY <1>3, <1>5, <1>6, <1>7, <1>8 DEF PassInv

-----------------------------------------------------------------------------
(* The start and the end of a pass.                                        *)

LEMMA TokensTyped ==
    Books /\ Inputs /\ InStep =>
        \A i \in TokenRows : rows[i].seq \in Int /\ rows[i].pos \in Int
BY TokenRowsAre DEF SeqIds

\* A pass starts with the embeddings of its tokens.
LEMMA StartsRight ==
    ASSUME NEW ctx, StartPass(ctx), Books', Inputs', InStep'
    PROVE  Names' /\ Sums' /\ Rotation' /\ Stored'
<1>1. /\ hidden' = "embed" /\ residual' = "none" /\ layer' = 1 /\ pc' = "input_norm"
      /\ heap' = [embed  |-> [i \in DOMAIN rows' |-> <<<<"embed", rows'[i].seq, rows'[i].pos>>>>],
                  normed |-> << >>, attn |-> << >>, mlp |-> << >>]
    BY DEF StartPass
<1>2. \A i \in TokenRows' : rows'[i].seq \in Int /\ rows'[i].pos \in Int
  <2>1. (Books /\ Inputs /\ InStep =>
            \A i \in TokenRows : rows[i].seq \in Int /\ rows[i].pos \in Int)'
      BY TokensTyped, PTL
  <2>2. QED
      BY <2>1
<1>3. layer' \in Layers /\ DOMAIN heap' = {"embed", "normed", "attn", "mlp"}
    BY <1>1, HeadsAssumption DEF Layers
<1>4. Names'
    BY <1>1, <1>3 DEF Names
<1>5. Sums'
  <2>1. ASSUME NEW i \in TokenRows' PROVE FusedAdd(i)' = Own(i, layer)'
    <3>1. i \in DOMAIN rows'
        BY DEF TokenRows
    <3>2. heap'["embed"][i] = <<<<"embed", rows'[i].seq, rows'[i].pos>>>>
        BY <1>1, <3>1
    <3>3. FusedAdd(i)' = heap'["embed"][i]
        BY <1>1 DEF FusedAdd
    <3>4. Own(i, layer)' = Summed(rows'[i].seq, rows'[i].pos, 1)
        BY <1>1 DEF Own
    <3>5. QED
        BY <1>2, <3>2, <3>3, <3>4, SummedFirst
  <2>2. QED
      BY <1>1, <2>1 DEF Sums
<1>6. Rotation'
    BY <1>1 DEF Rotation
<1>7. Stored'
  <2>1. ~ \E l \in Layers : l < 1
      BY DEF Layers
  <2>2. QED
      BY <1>1, <2>1 DEF Stored
<1>8. QED
    BY <1>4, <1>5, <1>6, <1>7

LEMMA ExecuteModelKeeps ==
    ASSUME PassInv, NEW b \in Batches, ExecuteModel(b)
    PROVE  PassInv'
<1>1. /\ pc = "idle" /\ kv_cache # << >> /\ pc' = "input_norm" /\ batch' = b
      /\ \A j \in DOMAIN b : length[b[j]] <= MaxLen
      /\ path' \in {"eager", "warmup", "replay"}
      /\ \/ path' = "eager" /\ rows' = EagerRows(b) /\ Len(EagerRows(b)) <= MaxNumBatchedTokens
         \/ path' \in {"warmup", "replay"} /\ CanGraphDecode(b) /\ rows' = GraphRows(b)
      /\ StartPass(Slots(rows')) /\ forward_ctx' = Slots(rows')
      /\ cuda' = cuda /\ use_cuda_graphs' = use_cuda_graphs /\ length' = length
      /\ computed' = computed /\ kv_cache' = kv_cache
    BY DEF ExecuteModel, StartPass
<1>2. Books'
    BY <1>1 DEF PassInv, Books, AllPCs
<1>3. InStep'
    BY <1>1 DEF InStep
<1>4. Inputs'
  <2>1. EagerRows(batch)' = EagerRows(b)
      BY <1>1 DEF EagerRows, NewRows, NumNew
  <2>2. GraphRows(batch)' = GraphRows(b)
      BY <1>1, <2>1 DEF GraphRows
  <2>3. CanGraphDecode(batch)' <=> CanGraphDecode(b)
      BY <1>1 DEF CanGraphDecode, NumNew
  <2>4. Slots(rows)' = Slots(rows')
      BY DEF Slots
  <2>5. QED
      BY <1>1, <2>1, <2>2, <2>3, <2>4 DEF Inputs
<1>5. CacheAgreesInEveryLayer'
    BY <1>1 DEF PassInv, CacheAgreesInEveryLayer
<1>6. Names' /\ Sums' /\ Rotation' /\ Stored'
    BY <1>1, <1>2, <1>3, <1>4, StartsRight
<1>7. QED
    BY <1>2, <1>4, <1>5, <1>6 DEF PassInv

LEMMA EndWarmupKeeps == PassInv /\ EndWarmup => PassInv'
<1>1. SUFFICES ASSUME PassInv, EndWarmup PROVE PassInv'
    OBVIOUS
<1>2. /\ pc = "logits" /\ path = "warmup" /\ pc' = "input_norm"
      /\ path' \in {"warmup", "replay"} /\ rows' = rows /\ batch' = batch
      /\ StartPass(forward_ctx) /\ forward_ctx' = forward_ctx
      /\ cuda' = cuda /\ use_cuda_graphs' = use_cuda_graphs /\ length' = length
      /\ computed' = computed /\ kv_cache' = kv_cache
    BY <1>1 DEF EndWarmup, StartPass
<1>3. Books'
    BY <1>1, <1>2 DEF PassInv, Books, AllPCs
<1>4. InStep /\ InStep'
    BY <1>2 DEF InStep
<1>5. Inputs'
  <2>1. EagerRows(batch)' = EagerRows(batch)
      BY <1>2 DEF EagerRows, NewRows, NumNew
  <2>2. GraphRows(batch)' = GraphRows(batch)
      BY <1>2, <2>1 DEF GraphRows
  <2>3. CanGraphDecode(batch)' <=> CanGraphDecode(batch)
      BY <1>2 DEF CanGraphDecode, NumNew
  <2>4. Slots(rows)' = Slots(rows)
      BY <1>2 DEF Slots
  <2>5. QED
      BY <1>1, <1>2, <1>4, <2>1, <2>2, <2>3, <2>4 DEF PassInv, Inputs
<1>6. CacheAgreesInEveryLayer'
    BY <1>1, <1>2 DEF PassInv, CacheAgreesInEveryLayer
<1>7. Names' /\ Sums' /\ Rotation' /\ Stored'
    BY <1>2, <1>3, <1>4, <1>5, StartsRight
<1>8. QED
    BY <1>3, <1>5, <1>6, <1>7 DEF PassInv

\* Outside a step only the sequences and the cache are spoken of.
LEMMA OutOfStep ==
    ASSUME Books', CacheAgreesInEveryLayer', ~InStep'
    PROVE  PassInv'
BY DEF PassInv, Inputs, Names, Sums, Rotation, Stored

LEMMA SizingForwardKeeps == PassInv /\ SizingForward => PassInv'
<1>1. SUFFICES ASSUME PassInv, SizingForward PROVE PassInv'
    OBVIOUS
<1>2. /\ cuda /\ kv_cache = << >> /\ pc' = "input_norm" /\ path' = "sizing"
      /\ cuda' = cuda /\ length' = length /\ computed' = computed /\ kv_cache' = kv_cache
    BY <1>1 DEF SizingForward, StartPass
<1>3. Books'
    BY <1>1, <1>2 DEF PassInv, Books, AllPCs
<1>4. CacheAgreesInEveryLayer' /\ ~InStep'
    BY <1>2 DEF CacheAgreesInEveryLayer, InStep
<1>5. QED
    BY <1>3, <1>4, OutOfStep

\* The sizing forward has no cache to store into.
LEMMA SizingLayersKeep ==
    ASSUME PassInv, pc # "idle", path = "sizing", Layer \/ FinalNorm
    PROVE  PassInv'
<1>1. cuda /\ kv_cache = << >>
    BY DEF PassInv, Books
<1>2. /\ UNCHANGED inputVars /\ kv_cache' = << >>
      /\ pc' \in AllPCs \ {"idle", "sampled"}
  <2>1. CASE InputNorm \/ PostAttentionNorm \/ FinalNorm
      BY <1>1, <2>1 DEF InputNorm, PostAttentionNorm, FinalNorm, Norm, AllPCs
  <2>2. CASE QKVProj \/ Attend
      BY <1>1, <2>2 DEF QKVProj, Attend, AllPCs
  <2>3. CASE RopeTorch
      BY <1>1, <2>3 DEF RopeTorch
  <2>4. CASE MLP
      BY <1>1, <2>4 DEF MLP, AllPCs
  <2>5. ASSUME NEW i \in DOMAIN rows, NEW h \in 0 .. NumHeads - 1, RopeProgram(i, h)
        PROVE  /\ UNCHANGED inputVars /\ kv_cache' = << >>
               /\ pc' \in AllPCs \ {"idle", "sampled"}
      BY <1>1, <2>5 DEF RopeProgram, HasCache, AllPCs
  <2>6. QED
      BY <2>1, <2>2, <2>3, <2>4, <2>5 DEF Layer
<1>3. /\ length' = length /\ computed' = computed /\ path' = path /\ cuda' = cuda
    BY <1>2 DEF inputVars
<1>4. Books'
    BY <1>1, <1>2, <1>3 DEF PassInv, Books
<1>5. CacheAgreesInEveryLayer' /\ ~InStep'
    BY <1>2, <1>3 DEF CacheAgreesInEveryLayer, InStep
<1>6. QED
    BY <1>4, <1>5, OutOfStep

LEMMA AllocKVTensorsKeeps == PassInv /\ AllocKVTensors => PassInv'
<1>1. SUFFICES ASSUME PassInv, AllocKVTensors PROVE PassInv'
    OBVIOUS
<1>2. /\ pc = "idle" /\ pc' = "idle" /\ kv_cache = << >> /\ length' = length
      /\ computed' = computed /\ path' = path
      /\ kv_cache' = [l \in Layers |-> [x \in 0 .. DummySlot |-> [h \in KVHeads |-> Zero]]]
    BY <1>1 DEF AllocKVTensors, inputVars
<1>3. \A s \in SeqIds : computed[s] = 0
    BY <1>1, <1>2 DEF PassInv, Books
<1>4. DOMAIN kv_cache' = Layers /\ \A l \in Layers : DOMAIN kv_cache'[l] = 0 .. DummySlot
    BY <1>2
<1>5. Books'
    BY <1>1, <1>2, <1>3, <1>4 DEF PassInv, Books
<1>6. CacheAgreesInEveryLayer'
  <2>1. \A s \in SeqIds : 0 .. computed'[s] - 1 = {}
      BY <1>2, <1>3
  <2>2. QED
      BY <2>1 DEF CacheAgreesInEveryLayer
<1>7. ~InStep'
    BY <1>2 DEF InStep
<1>8. QED
    BY <1>5, <1>6, <1>7, OutOfStep

\* A pass that is dropped changes no sequence.
LEMMA DroppedKeeps ==
    ASSUME PassInv, EndPass, UNCHANGED <<length, computed, kv_cache>>
    PROVE  PassInv'
<1>1. pc' = "idle" /\ length' = length /\ computed' = computed /\ kv_cache' = kv_cache
    BY DEF EndPass
<1>2. Books'
    BY <1>1 DEF PassInv, Books, AllPCs
<1>3. CacheAgreesInEveryLayer' /\ ~InStep'
    BY <1>1 DEF PassInv, CacheAgreesInEveryLayer, InStep
<1>4. QED
    BY <1>2, <1>3, OutOfStep

LEMMA SampleKeeps == PassInv /\ Sample => PassInv'
<1>1. SUFFICES ASSUME PassInv, Sample PROVE PassInv'
    OBVIOUS
<1>2. /\ pc = "logits" /\ path \in {"eager", "replay"} /\ pc' = "sampled"
      /\ UNCHANGED <<inputVars, kv_cache>> /\ layer' = layer /\ heap' = heap
      /\ hidden' = hidden /\ rows' = rows
    BY <1>1 DEF Sample, inputVars
<1>3. InStep
    BY <1>2 DEF InStep
<1>4. /\ Books' /\ Inputs' /\ InStep' /\ TokenRows' = TokenRows
      /\ \A i, l : Own(i, l)' = Own(i, l) /\ RightCell(i, l)' = RightCell(i, l)
      /\ CacheAgreesInEveryLayer'
    BY <1>1, <1>2, <1>3, CacheKept DEF PassInv, AllPCs
<1>5. Names'
    BY <1>1, <1>2, <1>3 DEF PassInv, Names
<1>6. Sums' /\ Rotation'
    BY <1>2 DEF Sums, Rotation
<1>7. Stored'
    BY <1>1, <1>2, <1>3, <1>4 DEF PassInv, Stored
<1>8. QED
    BY <1>4, <1>5, <1>6, <1>7 DEF PassInv

\* A delivered step computes what it has stored.
LEMMA DeliverKeeps == PassInv /\ Deliver => PassInv'
<1>1. SUFFICES ASSUME PassInv, Deliver PROVE PassInv'
    OBVIOUS
<1>2. /\ pc = "sampled" /\ pc' = "idle" /\ kv_cache' = kv_cache
      /\ length' = [s \in SeqIds |-> IF s \in ToSet(batch) THEN length[s] + 1 ELSE length[s]]
      /\ computed' = [s \in SeqIds |-> IF s \in ToSet(batch) THEN length[s] ELSE computed[s]]
    BY <1>1 DEF Deliver, EndStep, EndPass
<1>3. InStep
    BY <1>1, <1>2 DEF PassInv, Books, InStep
<1>4. /\ kv_cache # << >> /\ batch \in Batches
      /\ \A j \in DOMAIN batch : length[batch[j]] <= MaxLen
    BY <1>1, <1>3 DEF PassInv, Inputs
<1>5. \A s \in ToSet(batch) : length[s] <= MaxLen
    BY <1>4 DEF ToSet
<1>6. /\ length \in [SeqIds -> Nat] /\ computed \in [SeqIds -> Nat]
      /\ \A s \in SeqIds : computed[s] < length[s] /\ computed[s] <= MaxLen
      /\ DOMAIN kv_cache = Layers
      /\ \A l \in Layers : DOMAIN kv_cache[l] = 0 .. DummySlot
    BY <1>1, <1>4 DEF PassInv, Books
<1>7. Books'
  <2>1. length' \in [SeqIds -> Nat] /\ computed' \in [SeqIds -> Nat]
      BY <1>2, <1>6
  <2>2. \A s \in SeqIds : computed'[s] < length'[s] /\ computed'[s] <= MaxLen
      BY <1>2, <1>5, <1>6
  <2>3. QED
      BY <1>2, <1>4, <1>6, <2>1, <2>2 DEF Books, AllPCs
<1>8. layer = NumLayers
    BY <1>1, <1>2, <1>3 DEF PassInv, Names
<1>9. CacheAgreesInEveryLayer'
  <2>1. ASSUME NEW s \in SeqIds, NEW p \in 0 .. computed'[s] - 1, NEW l \in Layers,
               NEW g \in KVHeads
        PROVE  kv_cache[l][SlotOf(s, p)][g] = [key |-> <<p>>, from |-> Summed(s, p, l)]
    <3>1. computed[s] \in Nat /\ length[s] \in Nat
        BY <1>6
    <3>2. CASE p < computed[s]
      <4>1. p \in 0 .. computed[s] - 1
          BY <3>1, <3>2
      <4>2. QED
          BY <1>1, <1>4, <4>1 DEF PassInv, CacheAgreesInEveryLayer
    <3>3. CASE ~(p < computed[s])
      <4>1. s \in ToSet(batch) /\ p \in computed[s] .. length[s] - 1
          BY <1>2, <3>1, <3>3
      <4>2. PICK y \in TokenRows : rows[y] = RowOf(s, p)
          BY <1>1, <1>3, <4>1, TokenRowsAre DEF PassInv
      <4>3. rows[y].seq = s /\ rows[y].pos = p /\ rows[y].slot = SlotOf(s, p)
          BY <4>2 DEF RowOf
      <4>4. l < layer \/ l = layer
          BY <1>8, HeadsAssumption DEF Layers
      <4>5. kv_cache[l][rows[y].slot][g] = RightCell(y, l)
          BY <1>1, <1>2, <1>3, <4>4 DEF PassInv, Stored
      <4>6. RightCell(y, l) = [key |-> <<p>>, from |-> Summed(s, p, l)]
          BY <4>3 DEF RightCell, Own
      <4>7. QED
          BY <4>3, <4>5, <4>6
    <3>4. QED
        BY <3>2, <3>3
  <2>2. QED
      BY <1>2, <2>1 DEF CacheAgreesInEveryLayer
<1>10. ~InStep'
    BY <1>2 DEF InStep
<1>11. QED
    BY <1>7, <1>9, <1>10, OutOfStep

-----------------------------------------------------------------------------
(* The forward pass.                                                       *)

LEMMA StepInitPass == StepInit => PassInv
<1>1. SUFFICES ASSUME StepInit PROVE PassInv
    OBVIOUS
<1>2. /\ length \in [SeqIds -> PromptLens] /\ computed = [s \in SeqIds |-> 0]
      /\ kv_cache = << >> /\ pc = "idle"
    BY <1>1 DEF StepInit, FwdInit
<1>3. Books
  <2>1. MaxLen \in Nat /\ \A n \in PromptLens : n \in Nat /\ 0 < n
      BY BatchAssumption
  <2>2. /\ length \in [SeqIds -> Nat] /\ computed \in [SeqIds -> Nat]
        /\ \A s \in SeqIds : computed[s] = 0 /\ computed[s] < length[s]
      BY <1>2, <2>1
  <2>3. \A s \in SeqIds : computed[s] <= MaxLen
      BY <2>1, <2>2
  <2>4. QED
      BY <1>2, <2>2, <2>3 DEF Books, AllPCs
<1>4. CacheAgreesInEveryLayer /\ ~InStep
    BY <1>2 DEF CacheAgreesInEveryLayer, InStep
<1>5. QED
    BY <1>3, <1>4 DEF PassInv, Inputs, Names, Sums, Rotation, Stored

LEMMA StepNextPass == PassInv /\ StepFits /\ [StepNext]_stepVars => PassInv'
<1>1. SUFFICES ASSUME PassInv, StepFits, [StepNext]_stepVars PROVE PassInv'
    OBVIOUS
<1>2. CASE SizingForward
    BY <1>1, <1>2, SizingForwardKeeps
<1>3. CASE AllocKVTensors
    BY <1>1, <1>3, AllocKVTensorsKeeps
<1>4. ASSUME NEW b \in Batches, ExecuteModel(b) PROVE PassInv'
    BY <1>1, <1>4, ExecuteModelKeeps
<1>5. CASE Layer \/ FinalNorm
  <2>1. pc # "idle"
      BY <1>5 DEF Layer, FinalNorm, InputNorm, QKVProj, RopeTorch, Attend,
                  PostAttentionNorm, MLP, RopeProgram
  <2>2. CASE path = "sizing"
      BY <1>1, <1>5, <2>1, <2>2, SizingLayersKeep
  <2>3. CASE path # "sizing"
    <3>1. InStep
        BY <2>1, <2>3 DEF InStep
    <3>2. CASE InputNorm
        BY <1>1, <3>1, <3>2, InputNormKeeps
    <3>3. CASE QKVProj
        BY <1>1, <3>1, <3>3, QKVProjKeeps
    <3>4. CASE RopeTorch
        BY <1>1, <3>1, <3>4, RopeTorchKeeps
    <3>5. CASE Attend
        BY <1>1, <3>1, <3>5, AttendKeeps
    <3>6. CASE PostAttentionNorm
        BY <1>1, <3>1, <3>6, PostAttentionNormKeeps
    <3>7. CASE MLP
        BY <1>1, <3>1, <3>7, MLPKeeps
    <3>8. ASSUME NEW i \in DOMAIN rows, NEW h \in 0 .. NumHeads - 1, RopeProgram(i, h)
          PROVE  PassInv'
        BY <1>1, <3>1, <3>8, RopeProgramKeeps DEF Heads
    <3>9. CASE FinalNorm
        BY <1>1, <3>1, <3>9, FinalNormKeeps
    <3>10. QED
        BY <1>5, <3>2, <3>3, <3>4, <3>5, <3>6, <3>7, <3>8, <3>9 DEF Layer
  <2>4. QED
      BY <2>2, <2>3
<1>6. CASE EndSizing
    BY <1>1, <1>6, DroppedKeeps DEF EndSizing
<1>7. CASE EndWarmup
    BY <1>1, <1>7, EndWarmupKeeps
<1>8. CASE PassRaises
    BY <1>1, <1>8, DroppedKeeps DEF PassRaises
<1>9. CASE Sample
    BY <1>1, <1>9, SampleKeeps
<1>10. CASE Deliver
    BY <1>1, <1>10, DeliverKeeps
<1>11. CASE UNCHANGED stepVars
  <2>1. /\ UNCHANGED <<cuda, use_cuda_graphs, length, computed, batch, rows, path, forward_ctx>>
        /\ UNCHANGED <<kv_cache, pc, layer, heap, hidden, residual, q, k, todo>>
      BY <1>11 DEF stepVars, fwdVars, inputVars
  <2>2. Books' /\ CacheAgreesInEveryLayer'
      BY <1>1, <2>1 DEF PassInv, Books, CacheAgreesInEveryLayer
  <2>3. CASE ~InStep
    <3>1. ~InStep'
        BY <2>1, <2>3 DEF InStep
    <3>2. QED
        BY <2>2, <3>1, OutOfStep
  <2>4. CASE InStep
    <3>1. UNCHANGED <<inputVars, kv_cache>> /\ pc' \in AllPCs \ {"idle"}
        BY <1>1, <1>11, <2>1, <2>4 DEF PassInv, Books, InStep, stepVars, fwdVars
    <3>2. /\ Inputs' /\ TokenRows' = TokenRows
          /\ \A i, l : Own(i, l)' = Own(i, l) /\ RightCell(i, l)' = RightCell(i, l)
        BY <1>1, <2>4, <3>1, CacheKept DEF PassInv
    <3>3. Names'
        BY <1>1, <2>1, <2>4 DEF PassInv, Names
    <3>4. Sums'
      <4>1. \A i : FusedAdd(i)' = FusedAdd(i)
          BY <2>1 DEF FusedAdd
      <4>2. QED
          BY <1>1, <2>1, <2>4, <3>2, <4>1 DEF PassInv, Sums
    <3>5. Rotation'
      <4>1. RopeGrid' = RopeGrid
          BY <2>1 DEF RopeGrid
      <4>2. QED
          BY <1>1, <2>1, <2>4, <3>2, <4>1 DEF PassInv, Rotation
    <3>6. Stored'
        BY <1>1, <2>1, <2>4, <3>2 DEF PassInv, Stored
    <3>7. QED
        BY <2>2, <3>2, <3>3, <3>4, <3>5, <3>6 DEF PassInv
  <2>5. QED
      BY <2>3, <2>4
<1>12. QED
    BY <1>1, <1>2, <1>3, <1>4, <1>5, <1>6, <1>7, <1>8, <1>9, <1>10, <1>11
       DEF StepNext, FwdNext

LEMMA PassHolds == StepSpec /\ []StepFits => []PassInv
<1>1. StepInit => PassInv
    BY StepInitPass
<1>2. PassInv /\ StepFits /\ [StepNext]_stepVars => PassInv'
    BY StepNextPass
<1>3. QED
    BY <1>1, <1>2, PTL DEF StepSpec

\* As long as every step is on the CPU or short enough for the 32-bit indices of
\* the SiLU kernel, the cell of a computed position holds in every layer, under
\* every key-value head, its key rotated once and its value, both from all that
\* the layers below had added for it (models/qwen2.py, kernels/rope.py): for any
\* number of layers and heads, with any passes that fail, warm up or are padded
\* in between.
THEOREM CacheAlwaysAgrees == StepSpec /\ []StepFits => []CacheAgreesInEveryLayer
<1>1. PassInv => CacheAgreesInEveryLayer
    BY DEF PassInv
<1>2. QED
    BY <1>1, PassHolds, PTL

\* As long as every step is on the CPU or short enough for the 32-bit indices of
\* the SiLU kernel, logits are computed for the last token of each sequence of the
\* batch, from a row with its embedding and the output of every attention and MLP
\* in it once (models/qwen2.py, worker/model_runner.py), eager or replayed.
THEOREM LogitsAlwaysSeeWholePrefix == StepSpec /\ []StepFits => []LogitsSeeWholePrefix
<1>1. PassInv => LogitsSeeWholePrefix
  <2>1. SUFFICES ASSUME PassInv, pc = "logits", path \in {"eager", "replay"}
                 PROVE  /\ Len(LogitRowIdx) = Len(batch)
                        /\ \A i \in DOMAIN batch :
                              heap[hidden][LogitRowIdx[i]] =
                                  Summed(batch[i], length[batch[i]] - 1, NumLayers + 1)
      BY DEF LogitsSeeWholePrefix
  <2>2. InStep
      BY <2>1 DEF InStep
  <2>3. /\ Len(LogitRowIdx) = Len(batch)
        /\ \A j \in 1 .. Len(batch) :
              /\ LogitRowIdx[j] \in TokenRows
              /\ rows[LogitRowIdx[j]] = RowOf(batch[j], length[batch[j]] - 1)
      BY <2>1, <2>2, LogitRowsAreLast DEF PassInv
  <2>4. hidden = "normed"
      BY <2>1, <2>2 DEF PassInv, Names
  <2>5. DOMAIN batch = 1 .. Len(batch)
      BY <2>1, <2>2, BatchIs DEF PassInv, Inputs
  <2>6. ASSUME NEW i \in 1 .. Len(batch)
        PROVE  heap["normed"][LogitRowIdx[i]] =
                   Summed(batch[i], length[batch[i]] - 1, NumLayers + 1)
    <3>1. PICK y \in TokenRows : /\ y = LogitRowIdx[i]
                                 /\ rows[y] = RowOf(batch[i], length[batch[i]] - 1)
        BY <2>3
    <3>2. PICK s, p : s = batch[i] /\ p = length[batch[i]] - 1
        OBVIOUS
    <3>3. rows[y] = RowOf(s, p)
        BY <3>1, <3>2
    <3>4. rows[y].seq = s /\ rows[y].pos = p
        BY <3>3 DEF RowOf
    <3>5. heap["normed"][y] = Own(y, NumLayers + 1)
        BY <2>1, <2>2 DEF PassInv, Sums
    <3>6. QED
        BY <3>1, <3>2, <3>4, <3>5 DEF Own
  <2>7. QED
      BY <2>3, <2>4, <2>5, <2>6
<1>2. QED
    BY <1>1, PassHolds, PTL
=============================================================================
