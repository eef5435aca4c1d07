-------------------------- MODULE PrefillAttention --------------------------
(***************************************************************************)
(* Attention of an eager step: ModelRunner.prepare_inputs flattens the     *)
(* scheduled sequences into one batch (worker/model_runner.py), and        *)
(* Attention.forward (layers/attention.py) hands it to the paged prefill   *)
(* kernel (kernels/paged_prefill.py), to the loop over sequences in torch, *)
(* or to masked attention over gathered blocks when every sequence has one *)
(* token.  One-token steps on the GPU are module SplitAttention.           *)
(*                                                                         *)
(* Abstractions.  A row of attention is the set of cache slots whose keys  *)
(* it weighs, with the slots the program loads for it.  Sequence i of the  *)
(* batch owns blocks of its own, none of them block 0, which pads the      *)
(* tables.  The key tiles of a program partition the keys below its limit  *)
(* and are taken together; heads do the same work side by side.            *)
(***************************************************************************)
EXTENDS Integers, Sequences, FiniteSetsExt

CONSTANTS
    BlockSize,             \* tokens of a page
    MinKernelPage,         \* smallest page of the decode kernels
    SmallTile,             \* rows of a program in a short-query step
    LargeTile,             \* rows of a program otherwise
    ContextLens,           \* computed tokens of a sequence
    QueryLens,             \* tokens of it to compute
    MaxSeqs                \* BOUND: sequences of a batch

ASSUME SizesAssumption ==
    /\ BlockSize \in Nat \ {0} /\ MinKernelPage \in Nat
    /\ SmallTile \in Nat \ {0} /\ LargeTile \in Nat \ {0}
    /\ ContextLens \subseteq Nat /\ QueryLens \subseteq Nat \ {0} /\ MaxSeqs \in Nat

VARIABLES
    cuda,
    prefill_backend,       \* BABYVLLM_PREFILL_ATTN: "triton" or "torch"
    batch,                 \* [ctx, needed] of each scheduled sequence
    md,                    \* AttentionMetadata
    kernel,                \* "none", "tiles", "loop", "static" or "done"
    todo,                  \* programs or sequences still to run
    out                    \* rows of the result, by flat index from 0

vars == <<cuda, prefill_backend, batch, md, kernel, todo, out>>

CeilDiv(n, d) == (n + d - 1) \div d

-----------------------------------------------------------------------------
(* prepare_inputs                                                          *)

SeqLen(s) == s.ctx + s.needed
Longest == CeilDiv(Max(ContextLens) + Max(QueryLens), BlockSize)

\* The table the scheduler gives: page j of sequence i.
BlockTable(i, s) ==
    [j \in 1 .. CeilDiv(SeqLen(s), BlockSize) |-> (i - 1) * Longest + j]

QueryStartLoc(b) ==
    LET start[i \in 1 .. Len(b) + 1] ==
            IF i = 1 THEN 0 ELSE start[i - 1] + b[i - 1].needed
    IN  start

MaxOver(f) == Max({f[i] : i \in DOMAIN f})

PrepareInputs(b) ==
    LET lens  == [i \in DOMAIN b |-> SeqLen(b[i])]
        width == CeilDiv(MaxOver(lens), BlockSize)
    IN  [ query_start_loc |-> QueryStartLoc(b),
          seq_lens        |-> lens,
          context_lens    |-> [i \in DOMAIN b |-> b[i].ctx],
          block_tables    |-> [i \in DOMAIN b |-> [j \in 1 .. width |->
                                  LET table == BlockTable(i, b[i])
                                  IN  IF j <= Len(table) THEN table[j] ELSE 0]],
          max_query_len   |-> MaxOver([i \in DOMAIN b |-> b[i].needed]),
          max_seq_len     |-> MaxOver(lens) ]

QueryLen(i) == md.query_start_loc[i + 1] - md.query_start_loc[i]
NumTokens == md.query_start_loc[Len(batch) + 1]

\* Page j of row i; there is none past the width of the table.
Page(i, j) == IF j <= Len(md.block_tables[i]) THEN md.block_tables[i][j] ELSE -1

\* The slots of positions ps of row i, through the table of the batch.
Slots(i, ps) ==
    {Page(i, pos \div BlockSize + 1) * BlockSize + (pos % BlockSize) : pos \in ps}

-----------------------------------------------------------------------------
(* Attention.forward                                                       *)

Backend(m) ==
    IF m.max_query_len = 1
    THEN IF cuda /\ BlockSize >= MinKernelPage THEN "decode" ELSE "static"
    ELSE IF cuda /\ prefill_backend = "triton" THEN "tiles" ELSE "loop"

BlockM(m) == IF m.max_query_len >= LargeTile THEN LargeTile ELSE SmallTile

Grid(m) == 0 .. CeilDiv(m.max_query_len, BlockM(m)) - 1

Unwritten == [weighs |-> {-1}, loads |-> {}]

Forward(b) ==
    /\ kernel \in {"none", "done"}
    /\ batch' = b
    /\ md' = PrepareInputs(b)
    /\ kernel' = Backend(md')
    /\ kernel' # "decode"
    /\ todo' = IF kernel' = "tiles" THEN (DOMAIN b) \X Grid(md') ELSE DOMAIN b
    /\ out' = [t \in 0 .. md'.query_start_loc[Len(b) + 1] - 1 |-> Unwritten]
    /\ UNCHANGED <<cuda, prefill_backend>>

\* paged_prefill_attn_kernel: rows m * BLOCK_M and up of sequence i, those
\* past its query masked.  No key past the limit hi is loaded.
\* Mutant: the rows of the tile past the query are stored too.
TileRowsUnmasked(i, m) ==
    {r \in m * BlockM(md) .. (m + 1) * BlockM(md) - 1 :
        md.query_start_loc[i] + r < NumTokens}
TileRows(i, m) ==
    {r \in m * BlockM(md) .. (m + 1) * BlockM(md) - 1 : r < QueryLen(i)}

\* Mutant: the limit follows the tile only.
TileLimitOfTile(i, m) == md.context_lens[i] + (m + 1) * BlockM(md)
TileLimit(i, m) ==
    Min({md.seq_lens[i], md.context_lens[i] + (m + 1) * BlockM(md)})

\* Query row r sits at position ctx_len + r and sees the keys up to it.
TileRow(i, m, r) ==
    LET keys == 0 .. TileLimit(i, m) - 1
    IN  [ weighs |-> Slots(i, {pos \in keys : pos <= md.context_lens[i] + r}),
          loads  |-> Slots(i, keys) ]

TileProgram(i, m) ==
    /\ kernel = "tiles"
    /\ <<i, m>> \in todo
    /\ todo' = todo \ {<<i, m>>}
    /\ out' = IF m * BlockM(md) >= QueryLen(i) THEN out
              ELSE [t \in DOMAIN out |->
                 LET r == t - md.query_start_loc[i]
                 IN  IF r \in TileRows(i, m) THEN TileRow(i, m, r) ELSE out[t]]
    /\ UNCHANGED <<cuda, prefill_backend, batch, md, kernel>>

\* _paged_attention_torch, one sequence: a fresh prompt under the causal mask
\* of its own length, a query after a prefix under a shifted triangle.
\* Mutant: is_causal for every query, which hides the cached prefix.
VisibleTopLeft(i, r) == 0 .. r
Visible(i, r) ==
    IF md.context_lens[i] = 0 /\ QueryLen(i) = md.seq_lens[i]
    THEN 0 .. r
    ELSE 0 .. r + md.context_lens[i]

LoopSequence(i) ==
    /\ kernel = "loop"
    /\ i \in todo
    /\ \A j \in todo : i <= j
    /\ todo' = todo \ {i}
    /\ out' = [t \in DOMAIN out |->
          IF t \in md.query_start_loc[i] .. md.query_start_loc[i + 1] - 1
          THEN [ weighs |-> Slots(i, Visible(i, t - md.query_start_loc[i])),
                 loads  |-> Slots(i, 0 .. md.seq_lens[i] - 1) ]
          ELSE out[t]]
    /\ UNCHANGED <<cuda, prefill_backend, batch, md, kernel>>

\* _static_decode_attention: blocks for max_seq_len tokens are gathered for
\* every row, padding included, and masked past the row's length.
StaticDecode ==
    /\ kernel = "static"
    /\ todo # {}
    /\ todo' = {}
    /\ out' = [t \in DOMAIN out |->
          LET i == t + 1
          IN  [ weighs |-> Slots(i, {pos \in 0 .. md.max_seq_len - 1 :
                                        pos < md.seq_lens[i]}),
                loads  |-> Slots(i, 0 .. md.max_seq_len - 1) ]]
    /\ UNCHANGED <<cuda, prefill_backend, batch, md, kernel>>

\* _execute_eager: the rows the next tokens are sampled from.
\* Mutant: the first row of each query.
FirstIndices == [i \in DOMAIN batch |-> md.query_start_loc[i]]
LastIndices == [i \in DOMAIN batch |-> md.query_start_loc[i + 1] - 1]

Finish ==
    /\ kernel \in {"tiles", "loop", "static"}
    /\ todo = {}
    /\ kernel' = "done"
    /\ UNCHANGED <<cuda, prefill_backend, batch, md, todo, out>>

Init ==
    /\ cuda \in BOOLEAN
    /\ prefill_backend \in {"triton", "torch"}
    /\ batch = << >>
    /\ md = << >>
    /\ kernel = "none"
    /\ todo = {}
    /\ out = << >>

Next ==
    \/ \E n \in 1 .. MaxSeqs :
          \E b \in [1 .. n -> [ctx : ContextLens, needed : QueryLens]] : Forward(b)
    \/ \E i \in DOMAIN batch : \E m \in Grid(md) : TileProgram(i, m)
    \/ \E i \in DOMAIN batch : LoopSequence(i)
    \/ StaticDecode
    \/ Finish

Spec == Init /\ [][Next]_vars

-----------------------------------------------------------------------------
(* Properties.                                                             *)

\* The slot the scheduler mapped position pos of sequence i to.
SlotOf(i, pos) ==
    BlockTable(i, batch[i])[pos \div BlockSize + 1] * BlockSize + (pos % BlockSize)

SlotsUpTo(i, pos) == {SlotOf(i, p) : p \in 0 .. pos}

\* Whichever way a batch is attended to, query r of a sequence weighs the keys
\* of its own sequence at or before its position, all of them, and its row is
\* not written by the program of another sequence: fresh prompts, queries
\* after a cached prefix and decode rows in the same batch.
AttendsToPrefix ==
    kernel = "done" =>
        \A i \in DOMAIN batch : \A r \in 0 .. batch[i].needed - 1 :
            out[QueryStartLoc(batch)[i] + r].weighs = SlotsUpTo(i, batch[i].ctx + r)

\* paged_prefill.py:60-61: slots past a sequence's length were never written
\* and may hold NaN.  The prefill kernel and the loop never load one; the
\* gathering path does, and relies on zeroed blocks (model_runner.py:229).
LoadsStoredOnly ==
    (kernel = "done" /\ Backend(md) # "static") =>
        \A i \in DOMAIN batch : \A r \in 0 .. batch[i].needed - 1 :
            out[QueryStartLoc(batch)[i] + r].loads \subseteq
                SlotsUpTo(i, SeqLen(batch[i]) - 1)

\* The token of each sequence is sampled from a row that has weighed all of
\* the sequence and nothing else, however the batch mixes query lengths.
SamplesWholeSequence ==
    kernel = "done" =>
        \A i \in DOMAIN batch :
            out[LastIndices[i]].weighs = SlotsUpTo(i, SeqLen(batch[i]) - 1)
=============================================================================
