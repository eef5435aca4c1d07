----------------------------- MODULE ForwardPass ----------------------------
(***************************************************************************)
(* A forward pass through the layers of Qwen2ForCausalLM (models/qwen2.py) *)
(* with its kernels (layers/layernorm.py, layers/rotary.py, kernels/rope,  *)
(* layernorm and activation), from the inputs that ModelRunner prepares to *)
(* the rows it computes logits from (worker/model_runner.py), and the      *)
(* forward context of the pass (worker/context.py).                        *)
(*                                                                         *)
(* Abstractions.  A row of a tensor is the list of what was added up in    *)
(* it: the embedding of its token, then the outputs of attention and MLP,  *)
(* layer by layer; an output computed from wrong operands is "wrong".  A   *)
(* head of q or k is the list of positions it was rotated by.  Position p  *)
(* of a sequence has a slot of its own.  hidden and residual are names of  *)
(* tensors: after the first norm of a pass the residual is the embedding   *)
(* itself, and later norms add to it in place.  A kernel whose programs    *)
(* touch a row each is one action; attention reads what the scheduler's    *)
(* tables name (modules PrefillAttention and SplitAttention).              *)
(***************************************************************************)
EXTENDS Integers, Sequences, FiniteSetsExt, SequencesExt, PowersOfTwo

CONSTANTS
    NumLayers, NumHeads, NumKVHeads,
    IntermediateSize,      \* columns of gate, and of up
    SiluBlock,             \* elements of a program of the SiLU kernel
    WordBits,              \* width of an index in the SiLU kernel
    NumSeqs,               \* BOUND: sequences
    PromptLens,            \* lengths of their prompts
    MaxLen,                \* BOUND: tokens of a sequence
    MaxNumBatchedTokens,   \* scheduler budget of a step
    ProfileTokens,         \* tokens of the sizing forward
    GraphBuckets,          \* BATCH_BUCKETS
    WarmupSteps            \* passes before a capture

ASSUME HeadsAssumption ==
    /\ NumLayers \in Nat \ {0} /\ NumKVHeads \in Nat \ {0}
    /\ NumHeads \in Nat \ {0} /\ NumHeads % NumKVHeads = 0
ASSUME BatchAssumption ==
    /\ NumSeqs \in Nat \ {0} /\ MaxLen \in Nat /\ PromptLens \subseteq 1 .. MaxLen
    /\ MaxNumBatchedTokens \in Nat \ {0} /\ ProfileTokens \in Nat \ {0}
    /\ GraphBuckets \subseteq Nat \ {0} /\ WarmupSteps \in Nat
ASSUME SiluAssumption ==
    /\ IntermediateSize \in Nat \ {0} /\ SiluBlock \in Nat \ {0}
    /\ WordBits \in Nat \ {0}

VARIABLES
    cuda,                  \* the device is a CUDA device
    use_cuda_graphs,
    captured,              \* buckets with a graph
    length, computed,      \* tokens, and num_computed_tokens, per sequence
    kv_cache,              \* cells by layer, slot and kv head; << >> without
    batch,                 \* the scheduled sequences, in order
    rows,                  \* [seq, pos, slot] of each of their tokens
    path,                  \* "none", "sizing", "eager", "warmup" or "replay"
    passes,                \* passes still to run over these inputs
    forward_ctx,           \* _FORWARD_CTX: slots of the rows, << >> for None
    pc,                    \* next operation of the pass, "sampled" or "idle"
    layer,
    heap,                  \* tensors of the pass, by name
    hidden, residual,      \* names of tensors
    q, k,                  \* rotations by row and head
    todo                   \* programs of the RoPE kernel still to run

inputVars == <<cuda, use_cuda_graphs, captured, length, computed, batch, rows, path,
               passes, forward_ctx>>
fwdVars == <<inputVars, kv_cache, pc, layer, heap, hidden, residual, q, k, todo>>

SeqIds == 1 .. NumSeqs
Layers == 1 .. NumLayers
KVHeads == 0 .. NumKVHeads - 1

-----------------------------------------------------------------------------
(* The inputs of a pass.                                                   *)

SlotOf(s, pos) == (s - 1) * MaxLen + pos
DummySlot == NumSeqs * MaxLen
PadRow == [seq |-> 0, pos |-> 0, slot |-> DummySlot]

NumNew(s) == length[s] - computed[s]

\* What the scheduler may schedule: distinct sequences, in some order.
Batches == {b \in UNION {[1 .. n -> SeqIds] : n \in 1 .. NumSeqs} : IsInjective(b)}

\* The uncomputed tokens of a sequence.
NewRows(s) ==
    [i \in 1 .. NumNew(s) |->
        LET pos == computed[s] + i - 1
        IN  [seq |-> s, pos |-> pos, slot |-> SlotOf(s, pos)]]

\* prepare_inputs: those of the scheduled sequences, in a row.
EagerRows(b) == FlattenSeq([j \in DOMAIN b |-> NewRows(b[j])])

Bucket(n) == Min({b \in GraphBuckets : b >= n})

CanGraphDecode(b) ==
    /\ use_cuda_graphs
    /\ \A j \in DOMAIN b : NumNew(b[j]) = 1
    /\ \E bucket \in GraphBuckets : bucket >= Len(b)

\* A captured step: one row per sequence, then rows of padding.
GraphRows(b) == EagerRows(b) \o [i \in 1 .. Bucket(Len(b)) - Len(b) |-> PadRow]

\* query_start_loc of the i-th sequence and the one after it.
QueryEnd(i) ==
    LET end[j \in 0 .. Len(batch)] ==
            IF j = 0 THEN 0 ELSE end[j - 1] + NumNew(batch[j])
    IN  end[i]

\* The rows logits are computed from: the last token of each sequence, found
\* in an eager step from the query lengths, in a captured one by its place.
LogitRowIdx ==
    IF path = "sizing" THEN <<Len(rows)>>
    ELSE [i \in DOMAIN batch |-> IF path = "replay" THEN i ELSE QueryEnd(i)]

\* rows' have been prepared: the embedding and the rotary table are looked up
\* and the forward context is set, except in the sizing forward.
StartPass(ctx) ==
    /\ forward_ctx' = ctx
    /\ heap' = [embed  |-> [i \in DOMAIN rows' |-> <<<<"embed", rows'[i].seq, rows'[i].pos>>>>],
                normed |-> << >>, attn |-> << >>, mlp |-> << >>]
    /\ hidden' = "embed"
    /\ residual' = "none"
    /\ layer' = 1
    /\ pc' = "input_norm"
    /\ UNCHANGED <<q, k, todo>>

Slots(rs) == [i \in DOMAIN rs |-> rs[i].slot]

\* _profile_activation_memory, before there is a cache.
SizingForward ==
    /\ pc = "idle" /\ cuda /\ path = "none" /\ kv_cache = << >>
    /\ batch' = << >>
    /\ rows' = [i \in 1 .. ProfileTokens |-> [seq |-> 0, pos |-> i - 1, slot |-> DummySlot]]
    /\ path' = "sizing"
    /\ passes' = 1
    /\ StartPass(<< >>)
    /\ UNCHANGED <<cuda, use_cuda_graphs, captured, length, computed, kv_cache>>

Zero == [key |-> << >>, from |-> << >>]

AllocKVTensors ==
    /\ pc = "idle" /\ kv_cache = << >>
    /\ cuda => path = "sizing"
    /\ kv_cache' = [l \in Layers |-> [x \in 0 .. DummySlot |-> [h \in KVHeads |-> Zero]]]
    /\ UNCHANGED <<inputVars, pc, layer, heap, hidden, residual, q, k, todo>>

\* execute_model on the scheduled sequences.  A bucket that has no graph yet
\* is captured first, after warm-up passes over the same inputs.
ExecuteModel(b) ==
    /\ pc = "idle" /\ kv_cache # << >>
    /\ \A j \in DOMAIN b : length[b[j]] <= MaxLen
    /\ Len(EagerRows(b)) <= MaxNumBatchedTokens
    /\ batch' = b
    /\ \/ /\ ~CanGraphDecode(b)
          /\ rows' = EagerRows(b)
          /\ path' = "eager"
          /\ passes' = 1
       \/ /\ CanGraphDecode(b)
          /\ rows' = GraphRows(b)
          /\ IF Bucket(Len(b)) \in captured \/ WarmupSteps = 0
             THEN path' = "replay" /\ passes' = 1
             ELSE path' = "warmup" /\ passes' = WarmupSteps
    /\ StartPass(Slots(rows'))
    /\ UNCHANGED <<cuda, use_cuda_graphs, captured, length, computed, kv_cache>>

-----------------------------------------------------------------------------
(* A layer.                                                                *)

\* What row i is normalised from: its input, added to the residual if there is
\* one.
FusedAdd(i) ==
    IF residual = "none" THEN heap[hidden][i] ELSE heap[residual][i] \o heap[hidden][i]

\* Mutant: the kernel adds to a copy of the residual.
NormCopies(next) ==
    /\ heap' = [heap EXCEPT !.normed = [i \in DOMAIN rows |-> FusedAdd(i)]]
    /\ residual' = IF residual = "none" THEN hidden ELSE residual
    /\ hidden' = "normed"
    /\ pc' = next
    /\ UNCHANGED <<inputVars, kv_cache, layer, q, k, todo>>
\* RMSNorm.forward: without a residual the input becomes the residual, with one
\* the input is added to it in place; the output is a tensor of its own.
Norm(next) ==
    /\ residual' = IF residual = "none" THEN hidden ELSE residual
    /\ LET sum == [i \in DOMAIN rows |-> FusedAdd(i)]
       IN  heap' = [heap EXCEPT ![residual'] = sum, !.normed = sum]
    /\ hidden' = "normed"
    /\ pc' = next
    /\ UNCHANGED <<inputVars, kv_cache, layer, q, k, todo>>

InputNorm == pc = "input_norm" /\ Norm("qkv_proj")
PostAttentionNorm == pc = "post_norm" /\ Norm("mlp")

\* The programs of _rope_kv_cache_kernel.
RopeGrid == (DOMAIN rows) \X (0 .. NumHeads - 1)

QKVProj ==
    /\ pc = "qkv_proj"
    /\ q' = [i \in DOMAIN rows |-> [h \in 0 .. NumHeads - 1 |-> << >>]]
    /\ k' = [i \in DOMAIN rows |-> [h \in KVHeads |-> << >>]]
    /\ todo' = RopeGrid
    /\ pc' = "rope"
    /\ UNCHANGED <<inputVars, kv_cache, layer, heap, hidden, residual>>

Angle(i) == rows[i].pos

HasCache == kv_cache # << >> /\ forward_ctx # << >>

\* What is stored for row i: its rotated key, and the value of its input.
Cell(i, rotations) == [key |-> rotations, from |-> heap.normed[i]]

\* Mutant: every query head of a group handles its group's key.
KVHeadsOfGroup(h) == {h \div (NumHeads \div NumKVHeads)}
\* The key and value heads that the program of query head h handles.
KVHeadsOf(h) == {h} \cap KVHeads

\* One program of _rope_kv_cache_kernel, of row i and head h.
RopeProgram(i, h) ==
    /\ pc = "rope" /\ cuda
    /\ <<i, h>> \in todo
    /\ todo' = todo \ {<<i, h>>}
    /\ q' = [q EXCEPT ![i][h] = Append(@, Angle(i))]
    /\ k' = [k EXCEPT ![i] = [g \in KVHeads |->
                 IF g \in KVHeadsOf(h) THEN Append(@[g], Angle(i)) ELSE @[g]]]
    /\ kv_cache' = IF ~HasCache THEN kv_cache
                   ELSE [kv_cache EXCEPT ![layer][forward_ctx[i]] = [g \in KVHeads |->
                            IF g \in KVHeadsOf(h) THEN Cell(i, k'[i][g]) ELSE @[g]]]
    /\ UNCHANGED <<inputVars, pc, layer, heap, hidden, residual>>

\* apply_rope on the heads of row i.
Rotated(heads, i) == [h \in DOMAIN heads |-> Append(heads[h], Angle(i))]

\* store_kvcache: the cells of a layer with the rotated keys stored.
StoreKVCache(cells, rotated) ==
    [x \in DOMAIN cells |->
        IF \E i \in DOMAIN rows : forward_ctx[i] = x
        THEN LET i == CHOOSE i \in DOMAIN rows : forward_ctx[i] = x
             IN  [g \in KVHeads |-> Cell(i, rotated[i][g])]
        ELSE cells[x]]

RopeTorch ==
    /\ pc = "rope" /\ ~cuda /\ todo # {}
    /\ q' = [i \in DOMAIN rows |-> Rotated(q[i], i)]
    /\ k' = [i \in DOMAIN rows |-> Rotated(k[i], i)]
    /\ kv_cache' = [kv_cache EXCEPT ![layer] = StoreKVCache(@, k')]
    /\ todo' = {}
    /\ UNCHANGED <<inputVars, pc, layer, heap, hidden, residual>>

\* Without a cache the rows are one sequence from its start.
FoundInPass(pos, g) == Cell(pos + 1, k[pos + 1][g])

\* The key and value that row i needs of position pos, as attention finds them.
FoundAt(i, pos, g) ==
    IF HasCache THEN kv_cache[layer][SlotOf(rows[i].seq, pos)][g]
    ELSE FoundInPass(pos, g)

\* What a position has been given before attention of layer l.
Summed(s, pos, l) ==
    <<<<"embed", s, pos>>>>
        \o FlattenSeq([m \in 1 .. l - 1 |-> <<<<"attn", m>>, <<"mlp", m>>>>])

AttendsRight(i) ==
    LET r == rows[i]
    IN  \A h \in 0 .. NumHeads - 1 :
            /\ q[i][h] = <<r.pos>>
            /\ \A pos \in 0 .. r.pos :
                  FoundAt(i, pos, h \div (NumHeads \div NumKVHeads)) =
                      [key |-> <<pos>>, from |-> Summed(r.seq, pos, layer)]

\* Attention, once every program of the rotation has run, and o_proj.
Attend ==
    /\ pc = "rope" /\ todo = {}
    /\ heap' = [heap EXCEPT !.attn = [i \in DOMAIN rows |->
                    IF rows[i].slot = DummySlot /\ HasCache THEN <<<<"padding">>>>
                    ELSE IF AttendsRight(i) THEN <<<<"attn", layer>>>>
                    ELSE <<<<"wrong">>>>]]
    /\ hidden' = "attn"
    /\ pc' = "post_norm"
    /\ q' = << >> /\ k' = << >>
    /\ UNCHANGED <<inputVars, kv_cache, layer, residual, todo>>

\* Signed indices of the SiLU kernel.
Wrap(n) == ((n + Pow2[WordBits - 1]) % Pow2[WordBits]) - Pow2[WordBits - 1]
GateIdx(off) ==
    Wrap(Wrap((off \div IntermediateSize) * (2 * IntermediateSize))
             + (off % IntermediateSize))
UpIdx(off) == Wrap(GateIdx(off) + IntermediateSize)

\* The elements of the output that a program stores.
SiluStores ==
    LET total == Len(rows) * IntermediateSize
    IN  {off \in 0 .. ((total + SiluBlock - 1) \div SiluBlock) * SiluBlock - 1 : off < total}

\* The step is on the CPU, or short enough for the indices of the kernel: in the
\* published 7B model, 56,679 rows or fewer.  Nothing in the code sees to it.
StepFits == cuda => 2 * IntermediateSize * Len(rows) <= Pow2[WordBits - 1]

\* Row i of the fused kernel is SiLU of its gate times its up.
FusedRight(i) ==
    \A col \in 0 .. IntermediateSize - 1 :
        LET off   == (i - 1) * IntermediateSize + col
            start == (i - 1) * 2 * IntermediateSize
        IN  /\ off \in SiluStores
            /\ GateIdx(off) = start + col
            /\ UpIdx(off) = start + IntermediateSize + col

\* Qwen2MLP.forward, and the step to the next layer.
MLP ==
    /\ pc = "mlp"
    /\ heap' = [heap EXCEPT !.mlp = [i \in DOMAIN rows |->
                   IF cuda => FusedRight(i) THEN <<<<"mlp", layer>>>>
                   ELSE <<<<"wrong">>>>]]
    /\ hidden' = "mlp"
    /\ IF layer < NumLayers THEN layer' = layer + 1 /\ pc' = "input_norm"
                            ELSE layer' = layer /\ pc' = "final_norm"
    /\ UNCHANGED <<inputVars, kv_cache, residual, q, k, todo>>

FinalNorm == pc = "final_norm" /\ Norm("logits")

Layer ==
    \/ InputNorm \/ QKVProj \/ RopeTorch \/ Attend \/ PostAttentionNorm \/ MLP
    \/ \E i \in DOMAIN rows : \E h \in 0 .. NumHeads - 1 : RopeProgram(i, h)

-----------------------------------------------------------------------------
(* The end of a pass.                                                      *)

\* The tensors of the pass are dropped and the context is what it was.
EndPass ==
    /\ pc' = "idle"
    /\ forward_ctx' = << >>
    /\ batch' = << >>
    /\ rows' = << >>
    /\ passes' = 0
    /\ heap' = << >>
    /\ hidden' = "none" /\ residual' = "none"
    /\ layer' = 0
    /\ q' = << >> /\ k' = << >>
    /\ todo' = {}

EndSizing ==
    /\ pc = "logits" /\ path = "sizing"
    /\ EndPass
    /\ UNCHANGED <<cuda, use_cuda_graphs, captured, length, computed, kv_cache, path>>

\* capture_one: another warm-up, or the capture, which runs nothing, and then
\* the replay.  What a warm-up sampled is overwritten.
EndWarmup ==
    /\ pc = "logits" /\ path = "warmup"
    /\ IF passes > 1
       THEN passes' = passes - 1 /\ UNCHANGED <<path, captured>>
       ELSE /\ passes' = 1
            /\ path' = "replay"
            /\ captured' = captured \cup {Len(rows)}
    /\ UNCHANGED <<batch, rows>>
    /\ StartPass(forward_ctx)
    /\ UNCHANGED <<cuda, use_cuda_graphs, length, computed, kv_cache>>

\* The device runs out of memory, or another error leaves execute_model, before
\* an operation of a pass that is not a replay: kernels launched earlier run to
\* their end, and no sequence is updated.
PassRaises ==
    /\ path \in {"eager", "warmup"}
    /\ pc \notin {"idle", "sampled"} /\ todo = {}
    /\ EndPass
    /\ path' = "none"
    /\ UNCHANGED <<cuda, use_cuda_graphs, captured, length, computed, kv_cache>>

\* update_from_output, for sequences that do not stop.
EndStep ==
    /\ length' = [s \in SeqIds |-> IF s \in ToSet(batch) THEN length[s] + 1 ELSE length[s]]
    /\ computed' = [s \in SeqIds |-> IF s \in ToSet(batch) THEN length[s] ELSE computed[s]]
    /\ EndPass
    /\ path' = "none"
    /\ UNCHANGED <<cuda, use_cuda_graphs, captured, kv_cache>>

FwdInit ==
    /\ cuda \in BOOLEAN
    /\ use_cuda_graphs \in {FALSE, cuda}
    /\ captured = {}
    /\ length \in [SeqIds -> PromptLens]
    /\ computed = [s \in SeqIds |-> 0]
    /\ kv_cache = << >>
    /\ batch = << >>
    /\ rows = << >>
    /\ path = "none"
    /\ passes = 0
    /\ forward_ctx = << >>
    /\ pc = "idle"
    /\ layer = 0
    /\ heap = << >>
    /\ hidden = "none" /\ residual = "none"
    /\ q = << >> /\ k = << >>
    /\ todo = {}

FwdNext ==
    \/ SizingForward \/ AllocKVTensors
    \/ \E b \in Batches : ExecuteModel(b)
    \/ Layer \/ FinalNorm
    \/ EndSizing \/ EndWarmup \/ PassRaises

-----------------------------------------------------------------------------
(* Properties.                                                             *)

\* In every layer, under every key-value head, the cell of a computed position
\* holds its key rotated once, by its position, and its value, both from all
\* that the layers below had added for it: whatever passes failed half-way,
\* warmed up a graph or were padded in between.
CacheAgreesInEveryLayer ==
    kv_cache # << >> =>
        \A s \in SeqIds : \A pos \in 0 .. computed[s] - 1 :
            \A l \in Layers : \A g \in KVHeads :
                kv_cache[l][SlotOf(s, pos)][g] =
                    [key |-> <<pos>>, from |-> Summed(s, pos, l)]

\* Logits are computed for one row of each sequence of the batch, its last
\* token, and the row has the embedding and the output of every attention and
\* MLP in it once, computed from the whole prefix of the sequence.
LogitsSeeWholePrefix ==
    (pc = "logits" /\ path \in {"eager", "replay"}) =>
        /\ Len(LogitRowIdx) = Len(batch)
        /\ \A i \in DOMAIN batch :
              heap[hidden][LogitRowIdx[i]] =
                  Summed(batch[i], length[batch[i]] - 1, NumLayers + 1)
=============================================================================
