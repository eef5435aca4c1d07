-------------------------- MODULE DecodeAttention ---------------------------
(***************************************************************************)
(* paged_decode_attention (kernels/paged_attn.py) with its split plan      *)
(* (kernels/decode_split.py), as ModelRunner calls it eagerly and from a   *)
(* captured graph (worker/model_runner.py), and as its tests call it: the  *)
(* launches of the kernels of module SplitAttention.                       *)
(***************************************************************************)
EXTENDS SplitAttention, FiniteSets, FiniteSetsExt, PowersOfTwo

CONSTANTS
    NumKVHeads,
    SMCounts,              \* multiprocessors of the devices considered
    MinPartitionBlocks,    \* MIN_PARTITION_BLOCKS
    BatchBuckets,          \* BATCH_BUCKETS
    CtxBuckets,            \* CTX_BUCKETS
    AutoMode,              \* the setting "auto" of BABYVLLM_DECODE_PARTITION
    Settings,              \* the settings considered: AutoMode or a page count
    Lengths,               \* lengths of the live rows
    MaxRows                \* BOUND: live rows of a launch

ASSUME MinPartitionAssumption == MinPartitionBlocks \in Nat \ {0}
ASSUME BucketsAssumption ==
    /\ BatchBuckets \subseteq Nat \ {0} /\ CtxBuckets \subseteq Nat \ {0}
    /\ IsFiniteSet(BatchBuckets) /\ IsFiniteSet(CtxBuckets)
    /\ BatchBuckets # {} /\ CtxBuckets # {}
\* BATCH_BUCKETS is 1, 2, 4 and so on (worker/model_runner.py:14).
ASSUME PowersAssumption ==
    BatchBuckets = {Pow2[k] : k \in 0 .. Cardinality(BatchBuckets) - 1}
ASSUME SettingsAssumption == AutoMode \notin Nat /\ Settings \subseteq Nat \cup {AutoMode}
ASSUME LengthsAssumption == Lengths \subseteq Nat \ {0} /\ MaxRows \in Nat
ASSUME DeviceAssumption == NumKVHeads \in Nat /\ SMCounts \subseteq Nat

VARIABLES
    num_sms,               \* of the device
    partition,             \* the setting in force
    path,                  \* who launched: "eager", "graph" or "caller"
    live                   \* lengths of the live rows

callerVars == <<num_sms, partition, path, live>>
vars == <<kernelVars, callerVars>>

CeilToBucket(n, buckets) == Min({b \in buckets : b >= n})

-----------------------------------------------------------------------------
(* decode_split.py                                                         *)

AutoPartitionBlocks(batch) == Max({MinPartitionBlocks, NextPow2(batch)})

GridFillsGpu(batch, sms) == NextPow2(batch) * NumKVHeads >= sms

CtxBlocks(width, max_seq_len) ==
    Max({1, Min({CeilDiv(max_seq_len, BlockSize), width})})

\* Mutant: the last pages get a split only if they fill it.
WholeSplits(ctx_blocks, pages) == ctx_blocks \div pages
NumSplits(ctx_blocks, pages) == CeilDiv(ctx_blocks, pages)

DecodeSplitPlan(batch, width, max_seq_len, sms, setting) ==
    LET ctx_blocks == CtxBlocks(width, max_seq_len)
        pages      == IF setting = AutoMode THEN AutoPartitionBlocks(batch) ELSE setting
        onePass    == \/ setting = AutoMode /\ GridFillsGpu(batch, sms)
                      \/ pages = 0
    IN  IF onePass
        THEN [num_splits |-> 1, blocks_per_split |-> ctx_blocks]
        ELSE [num_splits |-> NumSplits(ctx_blocks, pages), blocks_per_split |-> pages]

Plan(rows, width, max_seq_len) ==
    DecodeSplitPlan(Len(rows), width, max_seq_len, num_sms, partition)

-----------------------------------------------------------------------------
(* Callers.                                                                *)

Longest(lens) == Max({lens[i] : i \in DOMAIN lens})

\* prepare_inputs: the batch as it is, tables as wide as the longest, sized
\* for the longest row.
EagerPlan(lens) == Plan(lens, NumPages(Longest(lens)), Longest(lens))

\* _forward_static: the batch padded to its bucket, tables of one width for
\* all, sized for the context bucket.
GraphRows(lens) ==
    [i \in 1 .. CeilToBucket(Len(lens), BatchBuckets) |->
        IF i <= Len(lens) THEN lens[i] ELSE 0]

GraphPlan(lens) ==
    Plan(GraphRows(lens), CeilDiv(Max(CtxBuckets), BlockSize) + 1,
         CeilToBucket(Longest(lens), CtxBuckets))

CanGraph(lens) ==
    /\ Len(lens) <= Max(BatchBuckets)
    /\ Longest(lens) <= Max(CtxBuckets)

LaunchEager(lens) ==
    /\ path' = "eager"
    /\ live' = lens
    /\ Launch(lens, EagerPlan(lens))
    /\ UNCHANGED <<num_sms, partition>>

LaunchGraph(lens) ==
    /\ CanGraph(lens)
    /\ path' = "graph"
    /\ live' = lens
    /\ Launch(GraphRows(lens), GraphPlan(lens))
    /\ UNCHANGED <<num_sms, partition>>

\* tests/test_paged_attn.py:173: a caller that sizes the launch for a bucket
\* its rows outgrow.
LaunchForBucket(lens, bucket) ==
    /\ path' = "caller"
    /\ live' = lens
    /\ Launch(lens, Plan(lens, NumPages(Longest(lens)), bucket))
    /\ UNCHANGED <<num_sms, partition>>

Init ==
    /\ KernelInit
    /\ num_sms \in SMCounts
    /\ partition \in Settings
    /\ path = "caller"
    /\ live = << >>

Next ==
    \/ \E k \in 1 .. MaxRows : \E lens \in [1 .. k -> Lengths] :
          \/ LaunchEager(lens)
          \/ LaunchGraph(lens)
          \/ \E bucket \in CtxBuckets : LaunchForBucket(lens, bucket)
    \/ KernelStep /\ UNCHANGED callerVars

Spec == Init /\ [][Next]_vars

-----------------------------------------------------------------------------
(* Properties.  KernelSpec is one: every launch that the plan sizes is one *)
(* the kernels accept, with at least one split of at least one page.       *)

\* The parts a row is summed in.  Empty ones add exact zeros.
Cuts(row) == {row[n] : n \in DOMAIN row} \ {{}}

PlannedCuts(p, len) == {SplitKeys(p, n, len) : n \in Split(p)} \ {{}}

\* decode_split.py:35-39: eager decode and the graph of the batch's bucket cut
\* a row at the same pages and return the same bits.
EagerAndGraphCutAlike ==
    (kernel = "done" /\ path \in {"eager", "graph"} /\ CanGraph(live)) =>
        \A i \in DOMAIN live :
            /\ Cuts(out[i]) = PlannedCuts(EagerPlan(live), live[i])
            /\ Cuts(out[i]) = PlannedCuts(GraphPlan(live), live[i])
=============================================================================
