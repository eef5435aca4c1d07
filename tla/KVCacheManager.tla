--------------------------- MODULE KVCacheManager ---------------------------
(***************************************************************************)
(* The paged KV cache of babyvllm/kv_cache_manager.py: which physical      *)
(* blocks are free, who holds the others, and which full blocks are cached *)
(* under the token prefix they hold.                                       *)
(*                                                                         *)
(* The manager is one record kv with the fields of class KVCacheManager,   *)
(* and every method is an operator from a record to a record, so that the  *)
(* engine (module Engine) calls the same operators inside its own steps.   *)
(* The state machine at the end of the module drives the manager the way   *)
(* any legal caller may; the engine is shown to be such a caller.          *)
(*                                                                         *)
(* Abstractions.  A token is an element of Token.  A block key is          *)
(* (hash of the parent key, tokens of the block), and the parent hash is   *)
(* taken to be collision free, so a key is the whole token prefix up to    *)
(* the end of the block; seq.block_hashes, an append-only memo of those    *)
(* hashes, is then a function of token_ids and is not a variable.  The two *)
(* hit-rate counters are statistics and are left out.                      *)
(***************************************************************************)
EXTENDS Integers, Sequences, FiniteSets, OrderedKeys

CONSTANTS
    NumBlocks,             \* physical blocks in the pool
    BlockSize,             \* tokens per block
    EnablePrefixCaching,
    SeqId,                 \* sequence ids
    Token,
    Prompts,               \* prompts a sequence may start with
    MaxLen                 \* BOUND: a sequence grows to at most MaxLen tokens

ASSUME NumBlocksAssumption == NumBlocks \in Nat \ {0}
ASSUME BlockSizeAssumption == BlockSize \in Nat \ {0}
ASSUME MaxLenAssumption == MaxLen \in Nat
ASSUME PrefixCachingAssumption == EnablePrefixCaching \in BOOLEAN
ASSUME PromptsAssumption == \A p \in Prompts : p \in Seq(Token) /\ p # << >>

Block == 0 .. NumBlocks - 1

\* No key: the empty prefix is the key of no block.
NoKey == << >>

CeilDiv(n, d) == (n + d - 1) \div d

-----------------------------------------------------------------------------
(* Queries.  seq is a record with the fields token_ids and                 *)
(* num_computed_tokens of class Sequence, s its seq_id.                    *)

EmptyKV ==
    [ free_block_ids        |-> [i \in 1 .. NumBlocks |-> i - 1],
      used_block_ids        |-> {},
      ref_counts            |-> [b \in Block |-> 0],
      block_keys            |-> [b \in Block |-> NoKey],
      cached_blocks         |-> << >>,      \* the function with empty domain
      request_blocks        |-> << >>,
      num_registered_blocks |-> << >> ]

Holds(k, s) == s \in DOMAIN k.request_blocks

BlockTable(k, s) == IF Holds(k, s) THEN k.request_blocks[s] ELSE << >>

\* Mutant: slots are counted from the start of the table.
SlotMappingFromZero(k, s, seq, n) ==
    [j \in 1 .. n |->
        k.request_blocks[s][(j - 1) \div BlockSize + 1] * BlockSize
            + ((j - 1) % BlockSize)]
\* Physical slots of the n logical positions from num_computed_tokens on.
SlotMapping(k, s, seq, n) ==
    [j \in 1 .. n |->
        LET pos == seq.num_computed_tokens + j - 1
        IN  k.request_blocks[s][pos \div BlockSize + 1] * BlockSize
                + (pos % BlockSize)]

\* Mutant: the key forgets its parent, so it is the block's own tokens only.
BlockKeyNoParent(seq, i) ==
    SubSeq(seq.token_ids, i * BlockSize + 1, (i + 1) * BlockSize)
\* Key of the i-th logical block, counting from 0.
BlockKey(seq, i) == SubSeq(seq.token_ids, 1, (i + 1) * BlockSize)

\* Mutant: the last prompt token may come from a shared block too.
MaxCachedBlocksAll(seq) == Len(seq.token_ids) \div BlockSize
MaxCachedBlocks(seq) == (Len(seq.token_ids) - 1) \div BlockSize

\* The longest run of cached full blocks at the start of a new sequence.
GetComputedBlocks(k, s, seq) ==
    LET cachedRuns == {n \in 0 .. MaxCachedBlocks(seq) :
                        \A i \in 0 .. n - 1 :
                            BlockKey(seq, i) \in DOMAIN k.cached_blocks}
    IN  IF ~EnablePrefixCaching \/ Holds(k, s)
        THEN << >>
        ELSE [i \in 1 .. Max(cachedRuns) |->
                 k.cached_blocks[BlockKey(seq, i - 1)]]

\* Mutant: one block too many when the tokens end on a block boundary.
NumBlocksNeededPlusOne(k, s, seq, n, hits) ==
    LET target == (seq.num_computed_tokens + Len(hits) * BlockSize + n)
                      \div BlockSize + 1
        held   == Len(BlockTable(k, s)) + Len(hits)
    IN  IF target > held THEN target - held ELSE 0
\* Mutant: the hits are not counted among the blocks held.
NumBlocksNeededHitsTwice(k, s, seq, n, hits) ==
    LET target == CeilDiv(seq.num_computed_tokens + Len(hits) * BlockSize + n,
                          BlockSize)
        held   == Len(BlockTable(k, s))
    IN  IF target > held THEN target - held ELSE 0
NumBlocksNeeded(k, s, seq, n, hits) ==
    LET target == CeilDiv(seq.num_computed_tokens + Len(hits) * BlockSize + n,
                          BlockSize)
        held   == Len(BlockTable(k, s)) + Len(hits)
    IN  IF target > held THEN target - held ELSE 0

\* A hit on a block with ref count 0 takes it off the free list too.
NumRevived(k, hits) ==
    Cardinality({b \in ToSet(hits) : k.ref_counts[b] = 0})

CanAllocate(k, s, seq, n, hits) ==
    Len(k.free_block_ids) >=
        NumBlocksNeeded(k, s, seq, n, hits) + NumRevived(k, hits)

-----------------------------------------------------------------------------
(* Updates, each from a record to a record.                                *)

WithTable(k, s, t) ==
    [x \in DOMAIN k.request_blocks \cup {s} |->
        IF x = s THEN t ELSE k.request_blocks[x]]

\* Mutant: a hit on a block in use is not counted.
CountHitsOnce(counts, hits) ==
    [b \in Block |-> IF b \in ToSet(hits) THEN 1 ELSE counts[b]]
CountHits(counts, hits) ==
    [b \in Block |-> IF b \in ToSet(hits) THEN counts[b] + 1 ELSE counts[b]]

\* _acquire on every hit, in table order.
AcquireHits(k, s, hits) ==
    [k EXCEPT
        !.free_block_ids = Delete(@, ToSet(hits)),
        !.used_block_ids = @ \cup ToSet(hits),
        !.ref_counts = CountHits(@, hits),
        !.request_blocks = WithTable(k, s, BlockTable(k, s) \o hits)]

\* Mutant: an evicted block keeps its entry in cached_blocks.
EvictNothing(cached, popped) == cached
Evict(cached, popped) ==
    Restrict(cached, {key \in DOMAIN cached : cached[key] \notin ToSet(popped)})

\* Mutant: the new blocks go in front of the blocks already held.
ExtendInFront(table, popped) == popped \o table
Extend(table, popped) == table \o popped

\* n times _pop_free_block: the least recently freed blocks lose their keys
\* and join the table.
PopFreeBlocks(k, s, n) ==
    LET popped == SubSeq(k.free_block_ids, 1, n)
    IN  [k EXCEPT
            !.free_block_ids = SubSeq(@, n + 1, Len(@)),
            !.used_block_ids = @ \cup ToSet(popped),
            !.ref_counts =
                [b \in Block |-> IF b \in ToSet(popped) THEN 1 ELSE @[b]],
            !.block_keys =
                [b \in Block |-> IF b \in ToSet(popped) THEN NoKey ELSE @[b]],
            !.cached_blocks = Evict(@, popped),
            !.request_blocks = WithTable(k, s, Extend(BlockTable(k, s), popped))]

NumRegistered(k, s) ==
    IF s \in DOMAIN k.num_registered_blocks
    THEN k.num_registered_blocks[s] ELSE 0

\* Logical blocks cache_full_blocks registers: a block without a key whose
\* content no other block holds yet.
Registrable(k, s, seq, numFull) ==
    {i \in NumRegistered(k, s) .. numFull - 1 :
        /\ k.block_keys[k.request_blocks[s][i + 1]] = NoKey
        /\ BlockKey(seq, i) \notin DOMAIN k.cached_blocks}

CacheFullBlocks(k, s, seq, numTokens) ==
    LET numFull == numTokens \div BlockSize
        table   == k.request_blocks[s]
        new     == Registrable(k, s, seq, numFull)
        newKeys == {BlockKey(seq, i) : i \in new}
    IN  [k EXCEPT
            !.block_keys = [b \in Block |->
                IF \E i \in new : table[i + 1] = b
                THEN BlockKey(seq, CHOOSE i \in new : table[i + 1] = b)
                ELSE @[b]],
            !.cached_blocks = [key \in DOMAIN @ \cup newKeys |->
                IF key \in newKeys
                THEN table[(CHOOSE i \in new : BlockKey(seq, i) = key) + 1]
                ELSE @[key]],
            !.num_registered_blocks = [x \in DOMAIN @ \cup {s} |->
                IF x # s THEN @[x]
                ELSE IF numFull > NumRegistered(k, s)
                     THEN numFull ELSE NumRegistered(k, s)]]

AllocateSlots(k, s, seq, n, hits) ==
    LET needed    == NumBlocksNeeded(k, s, seq, n, hits)
        acquired  == AcquireHits(k, s, hits)
        allocated == PopFreeBlocks(acquired, s, needed)
    IN  IF EnablePrefixCaching
        THEN CacheFullBlocks(allocated, s, seq,
                 seq.num_computed_tokens + Len(hits) * BlockSize + n)
        ELSE allocated

\* Mutant: every count is decremented, not only those of the table.
UncountAll(counts, table) == [b \in Block |-> counts[b] - 1]
Uncount(counts, table) ==
    [b \in Block |-> IF b \in ToSet(table) THEN counts[b] - 1 ELSE counts[b]]

\* Tail first: the sequence's own suffix is evicted before its prefix.  A
\* block returns to the free list only when its last holder frees it, and
\* keeps its key while it waits there.
Free(k, s) ==
    LET table    == k.request_blocks[s]
        released == {b \in ToSet(table) : k.ref_counts[b] = 1}
    IN  [k EXCEPT
            !.free_block_ids = @ \o Keep(Reverse(table), released),
            !.used_block_ids = @ \ released,
            !.ref_counts = Uncount(@, table),
            !.request_blocks = Restrict(@, DOMAIN @ \ {s}),
            !.num_registered_blocks = Restrict(@, DOMAIN @ \ {s})]

FreeIfAllocated(k, s) == IF Holds(k, s) THEN Free(k, s) ELSE k

-----------------------------------------------------------------------------
(* The state machine of a legal caller.                                    *)

VARIABLES kv, seqs

kvVars == <<kv, seqs>>

KVInit ==
    /\ kv = EmptyKV
    /\ seqs \in [SeqId -> {[token_ids |-> p, num_computed_tokens |-> 0] :
                               p \in Prompts}]

\* The scheduler gives s blocks for every token not computed yet: an admission
\* takes the cached prefix, a running sequence extends its table.
KVAllocate(s) ==
    LET seq  == seqs[s]
        hits == GetComputedBlocks(kv, s, seq)
        n    == Len(seq.token_ids) - seq.num_computed_tokens
                    - Len(hits) * BlockSize
    IN  /\ CanAllocate(kv, s, seq, n, hits)
        /\ kv' = AllocateSlots(kv, s, seq, n, hits)
        /\ seqs' = [seqs EXCEPT ![s].num_computed_tokens =
                                    @ + Len(hits) * BlockSize]

\* The tokens s got slots for are computed, and the sampled token is appended.
KVCompute(s, t) ==
    LET len == Len(seqs[s].token_ids)
    IN  /\ Holds(kv, s)
        /\ seqs[s].num_computed_tokens < len
        /\ CeilDiv(len, BlockSize) <= Len(BlockTable(kv, s))
        /\ len < MaxLen
        /\ seqs' = [seqs EXCEPT ![s].num_computed_tokens = len,
                                 ![s].token_ids = Append(@, t)]
        /\ UNCHANGED kv

\* The caller gives the blocks up, for good or to recompute later; a sequence
\* that ends on its token limit has its last token appended first.
KVFree(s, more) ==
    /\ Holds(kv, s)
    /\ Len(seqs[s].token_ids) + Len(more) <= MaxLen
    /\ kv' = Free(kv, s)
    /\ seqs' = [seqs EXCEPT ![s].num_computed_tokens = 0,
                             ![s].token_ids = @ \o more]

KVReset ==
    /\ kv' = EmptyKV
    /\ seqs' = [s \in SeqId |-> [seqs[s] EXCEPT !.num_computed_tokens = 0]]

KVNext ==
    \/ \E s \in SeqId :
          \/ KVAllocate(s)
          \/ \E t \in Token : KVCompute(s, t)
          \/ \E more \in {<< >>} \cup {<<t>> : t \in Token} : KVFree(s, more)
    \/ KVReset

KVSpec == KVInit /\ [][KVNext]_kvVars

-----------------------------------------------------------------------------
(* Properties.                                                             *)

SeqRecord == [token_ids : Seq(Token), num_computed_tokens : Nat]

\* f is a function from a subset of S into T.
PartialFunction(f, S, T) ==
    /\ f = [x \in DOMAIN f |-> f[x]]
    /\ \A x \in DOMAIN f : x \in S /\ f[x] \in T

KVFields == {"free_block_ids", "used_block_ids", "ref_counts", "block_keys",
             "cached_blocks", "request_blocks", "num_registered_blocks"}

KVTypes(k) ==
    /\ DOMAIN k = KVFields
    /\ k = [f \in KVFields |-> k[f]]
    /\ k.free_block_ids \in Seq(Block)
    /\ k.used_block_ids \in SUBSET Block
    /\ k.ref_counts \in [Block -> Nat]
    /\ k.block_keys \in [Block -> Seq(Token)]
    /\ PartialFunction(k.cached_blocks, Seq(Token), Block)
    /\ PartialFunction(k.request_blocks, SeqId, Seq(Block))
    /\ PartialFunction(k.num_registered_blocks, SeqId, Nat)

\* Type correctness: the fields of the manager and of the sequences it serves
\* stay in their types; a reference count never goes below zero.
KVTypeOK ==
    /\ KVTypes(kv)
    /\ seqs \in [SeqId -> SeqRecord]

FreeAndUsedPartition(k) ==
    /\ IsInjective(k.free_block_ids)
    /\ k.used_block_ids = Block \ ToSet(k.free_block_ids)

Holders(k, b) == {s \in DOMAIN k.request_blocks : b \in ToSet(k.request_blocks[s])}

RefCountsCountHolders(k) ==
    \A b \in Block :
        /\ k.ref_counts[b] = Cardinality(Holders(k, b))
        /\ k.ref_counts[b] = 0 <=> b \in ToSet(k.free_block_ids)

TablesHaveNoRepeat(k) ==
    \A s \in DOMAIN k.request_blocks : IsInjective(k.request_blocks[s])

KeysAndCacheAreInverse(k) ==
    /\ \A b \in Block : k.block_keys[b] # NoKey =>
          /\ k.block_keys[b] \in DOMAIN k.cached_blocks
          /\ k.cached_blocks[k.block_keys[b]] = b
    /\ \A key \in DOMAIN k.cached_blocks :
          key # NoKey /\ k.block_keys[k.cached_blocks[key]] = key

\* What _check_invariants asserts: the free list and the used set partition
\* the pool, a block's count is the number of tables that hold it and is zero
\* exactly on the free list, and the two directions of the prefix cache agree.
CheckInvariants ==
    /\ FreeAndUsedPartition(kv)
    /\ RefCountsCountHolders(kv)
    /\ TablesHaveNoRepeat(kv)
    /\ KeysAndCacheAreInverse(kv)

\* A block that two sequences share stands at the same place in both tables,
\* and they agree on every token up to its end: reading it is reading one's
\* own prefix, through evictions, recomputes and duplicate content.
SharersAgree ==
    \A s, t \in DOMAIN kv.request_blocks :
        \A i \in DOMAIN kv.request_blocks[s], j \in DOMAIN kv.request_blocks[t] :
            s # t /\ kv.request_blocks[s][i] = kv.request_blocks[t][j] =>
                /\ i = j
                /\ i * BlockSize <= Len(seqs[s].token_ids)
                /\ i * BlockSize <= Len(seqs[t].token_ids)
                /\ SubSeq(seqs[s].token_ids, 1, i * BlockSize) =
                       SubSeq(seqs[t].token_ids, 1, i * BlockSize)

\* s still has to write into its i-th block.
WillWrite(s, i) == i * BlockSize > seqs[s].num_computed_tokens

\* At most one holder of a block still has tokens to write into it, although
\* a block is shared before its first forward pass.
OneWriterPerBlock ==
    \A s, t \in DOMAIN kv.request_blocks :
        \A i \in DOMAIN kv.request_blocks[s], j \in DOMAIN kv.request_blocks[t] :
            /\ s # t
            /\ kv.request_blocks[s][i] = kv.request_blocks[t][j]
            => ~(WillWrite(s, i) /\ WillWrite(t, j))

\* A table covers exactly the tokens it was last allocated for: every computed
\* token has a slot, and no block is held beyond the sequence's length.
TableCoversTokens ==
    \A s \in DOMAIN kv.request_blocks :
        /\ seqs[s].num_computed_tokens <= Len(kv.request_blocks[s]) * BlockSize
        /\ Len(kv.request_blocks[s]) <= CeilDiv(Len(seqs[s].token_ids), BlockSize)

\* A sequence whose tokens fit the pool gets its blocks once nobody else holds
\* any, however the cached blocks it hits are spread over the free list: the
\* scheduler's waiting queue cannot stall on an empty batch.
LoneSequenceFits ==
    \A s \in SeqId :
        LET hits == GetComputedBlocks(kv, s, seqs[s])
            n    == Len(seqs[s].token_ids) - seqs[s].num_computed_tokens
                        - Len(hits) * BlockSize
        IN  /\ DOMAIN kv.request_blocks \subseteq {s}
            /\ CeilDiv(Len(seqs[s].token_ids), BlockSize) <= NumBlocks
            => CanAllocate(kv, s, seqs[s], n, hits)

\* There are never more sequences with blocks than blocks in use: however much
\* of a prompt is cached, an admission takes a block of its own.  The dummy
\* block of worker/model_runner.py:269 relies on it when the pool has one
\* block, and so has none to spare.
HoldersWithinPool ==
    Cardinality(DOMAIN kv.request_blocks) <= Cardinality(kv.used_block_ids)

\* A table only grows at its end while its sequence holds it.  The decode
\* input staging of worker/decode_inputs.py copies only new table entries and
\* relies on it.
TablesGrowAtTheEnd ==
    [][\A s \in DOMAIN kv.request_blocks \cap DOMAIN kv'.request_blocks :
          IsPrefix(kv.request_blocks[s], kv'.request_blocks[s])]_kvVars
=============================================================================
