---------------------------- MODULE KVAllocation ----------------------------
(***************************************************************************)
(* How the pool gets its size: ModelRunner.determine_num_blocks and        *)
(* allocate_kv_cache (worker/model_runner.py), called when the LLM is      *)
(* built and again by the engine, and the use a captured decode step makes *)
(* of the dummy block of padded rows.                                      *)
(*                                                                         *)
(* Each attention layer has a cache tensor of its own; the device may run  *)
(* out of memory at any of them.  Memory is counted in units of the        *)
(* model's choosing, total * 0.9 in tenths.                                *)
(***************************************************************************)
EXTENDS Integers, FiniteSets, FiniteSetsExt

CONSTANTS
    NumLayers,             \* attention layers
    BlockSize,
    BytesPerBlock,
    TotalMemory,           \* memory of the device
    Reserve,               \* slack and pool_reserve
    Allocated,             \* amounts the weights may take
    FreeMemory,            \* amounts the device may report free
    NumCpuBlocks,          \* num_cpu_blocks
    BatchBuckets           \* BATCH_BUCKETS

ASSUME SizesAssumption ==
    /\ NumLayers \in Nat \ {0} /\ BlockSize \in Nat \ {0}
    /\ BytesPerBlock \in Nat \ {0} /\ NumCpuBlocks \in Nat \ {0}
ASSUME MemoryAssumption ==
    /\ TotalMemory \in Nat /\ Reserve \in Nat
    /\ Allocated \subseteq Nat /\ FreeMemory \subseteq Nat
\* A batch of one is never padded; the runner relies on it in a pool of one.
ASSUME BucketsAssumption == BatchBuckets \subseteq Nat \ {0} /\ 1 \in BatchBuckets

None == -1

VARIABLES
    cuda,                  \* the device is a CUDA device
    use_cuda_graphs,
    memory,                \* [allocated, free] when the device is asked
    pc,                    \* "idle", "filling" the layers or "failed"
    usable,                \* what determine_num_blocks returned
    alloc,                 \* blocks of each tensor in this attempt
    kv_cache,              \* blocks of each layer's tensor, None without one
    dummy_block,           \* _dummy_block
    num_blocks,            \* None until the cache is allocated
    kv_profile,            \* num_blocks and max_kv_tokens, of 0 blocks without
    pool,                  \* blocks of the engine's pool, None without engine
    staging_dummy,         \* dummy block of the decode inputs, None without
    padded_into            \* blocks that padded rows have stored into

vars == <<cuda, use_cuda_graphs, memory, pc, usable, alloc, kv_cache, dummy_block,
          num_blocks, kv_profile, pool, staging_dummy, padded_into>>

Layer == 1 .. NumLayers

CeilToBucket(n, buckets) == Min({b \in buckets : b >= n})

Profile(n) == [num_blocks |-> n, max_kv_tokens |-> n * BlockSize]

-----------------------------------------------------------------------------
AvailableForKV ==
    Min({(TotalMemory * 9) \div 10 - memory.allocated, memory.free - Reserve})

DetermineNumBlocks ==
    IF ~cuda THEN NumCpuBlocks
    ELSE IF AvailableForKV > 0 THEN Max({1, AvailableForKV \div BytesPerBlock})
    ELSE 1

\* The first part of a call; a later call returns what the first one found.
Allocate ==
    /\ pc = "idle"
    /\ num_blocks = None
    /\ usable' = DetermineNumBlocks
    /\ alloc' = IF use_cuda_graphs THEN usable' + 1 ELSE usable'
    /\ kv_profile' = Profile(usable')
    /\ pc' = "filling"
    /\ UNCHANGED <<cuda, use_cuda_graphs, memory, kv_cache, dummy_block,
                   num_blocks, pool, staging_dummy, padded_into>>

\* _alloc_kv_tensors, one layer at a time.
AllocLayer ==
    /\ pc = "filling"
    /\ \E l \in Layer :
          /\ kv_cache[l] = None
          /\ \A k \in Layer : k < l => kv_cache[k] # None
          /\ kv_cache' = [kv_cache EXCEPT ![l] = alloc]
    /\ UNCHANGED <<cuda, use_cuda_graphs, memory, pc, usable, alloc, dummy_block,
                   num_blocks, kv_profile, pool, staging_dummy, padded_into>>

Halved(n) == Max({1, n \div 2})

OutOfMemory ==
    /\ pc = "filling"
    /\ cuda
    /\ \E l \in Layer : kv_cache[l] = None
    /\ kv_cache' = [l \in Layer |-> None]
    /\ IF alloc <= 1
       THEN /\ pc' = "failed"
            /\ UNCHANGED <<alloc, kv_profile>>
       ELSE /\ alloc' = Halved(alloc)
            /\ kv_profile' = Profile(IF use_cuda_graphs /\ alloc' > 1
                                     THEN alloc' - 1 ELSE alloc')
            /\ pc' = pc
    /\ UNCHANGED <<cuda, use_cuda_graphs, memory, usable, dummy_block,
                   num_blocks, pool, staging_dummy, padded_into>>

\* With one block there is no room for a dummy.
HasDummy(n) == use_cuda_graphs /\ n > 1

\* Mutant: the dummy block is counted as a block of the pool.
PoolWithDummy(n) == n
\* Mutant: the pool keeps the size that was estimated.
PoolAsEstimated(n) == usable
PoolBlocks(n) == IF HasDummy(n) THEN n - 1 ELSE n

EndAllocate ==
    /\ pc = "filling"
    /\ \A l \in Layer : kv_cache[l] # None
    /\ dummy_block' = IF HasDummy(alloc) THEN alloc - 1 ELSE 0
    /\ num_blocks' = PoolBlocks(alloc)
    /\ kv_profile' = Profile(num_blocks')
    /\ pc' = "idle"
    /\ UNCHANGED <<cuda, use_cuda_graphs, memory, usable, alloc, kv_cache, pool,
                   staging_dummy, padded_into>>

\* The engine asks again, and gets the number the runner has kept.
EngineInit ==
    /\ pc = "idle"
    /\ num_blocks # None
    /\ pool = None
    /\ pool' = num_blocks
    /\ UNCHANGED <<cuda, use_cuda_graphs, memory, pc, usable, alloc, kv_cache,
                   dummy_block, num_blocks, kv_profile, staging_dummy, padded_into>>

\* A captured decode step of n sequences.  Each of them holds a block that it
\* alone was given (HoldersWithinPool of KVCacheManager), so n is at most the
\* size of the pool.  The decode inputs are made by the first such step.
DecodeStep(n) ==
    /\ pool # None
    /\ use_cuda_graphs
    /\ n <= pool
    /\ staging_dummy' = IF staging_dummy = None THEN dummy_block ELSE staging_dummy
    /\ padded_into' = IF n < CeilToBucket(n, BatchBuckets)
                      THEN padded_into \cup {staging_dummy'} ELSE padded_into
    /\ UNCHANGED <<cuda, use_cuda_graphs, memory, pc, usable, alloc, kv_cache,
                   dummy_block, num_blocks, kv_profile, pool>>

Init ==
    /\ cuda \in BOOLEAN
    /\ use_cuda_graphs \in {FALSE, cuda}
    /\ memory \in [allocated : Allocated, free : FreeMemory]
    /\ memory.allocated + memory.free <= TotalMemory
    /\ pc = "idle"
    /\ usable = None
    /\ alloc = None
    /\ kv_cache = [l \in Layer |-> None]
    /\ dummy_block = 0
    /\ num_blocks = None
    /\ kv_profile = Profile(0)
    /\ pool = None
    /\ staging_dummy = None
    /\ padded_into = {}

AllocationStep == AllocLayer \/ OutOfMemory \/ EndAllocate

Next ==
    \/ Allocate
    \/ AllocationStep
    \/ EngineInit
    \/ \E n \in 1 .. Max(BatchBuckets) : DecodeStep(n)

Spec == Init /\ [][Next]_vars

-----------------------------------------------------------------------------
(* Properties.                                                             *)

\* The padded rows of a captured step store into a block that exists and that
\* no sequence is ever given, whatever backoff the allocation went through,
\* and also when there was no room for a block of their own.
PaddingOffThePool ==
    /\ padded_into \cap (0 .. pool - 1) = {}
    /\ \A l \in Layer : padded_into \subseteq 0 .. kv_cache[l] - 1

\* When the engine is built, every layer has the same number of blocks, every
\* block of the pool among them, and the profile reports the pool.
PoolIsBacked ==
    pool # None =>
        /\ pool > 0
        /\ \A l \in Layer : kv_cache[l] >= pool /\ kv_cache[l] = kv_cache[1]
        /\ kv_profile = Profile(pool)
=============================================================================
