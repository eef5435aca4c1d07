------------------------ MODULE KVCacheManagerProofs ------------------------
(***************************************************************************)
(* The accounting of the KV cache manager holds, and sequences share the   *)
(* blocks of the prefix cache safely, for every pool, block size, set of   *)
(* sequences and token alphabet.  Each update operator is shown to         *)
(* preserve KVInv, in the order a call of allocate_slots applies them, and *)
(* each call to preserve Sharing, which relates the block tables to the    *)
(* tokens of their sequences.                                              *)
(***************************************************************************)
EXTENDS KVCacheManager, OrderedKeysProofs

\* The inductive invariant of the record: its types, the four parts of
\* CheckInvariants, and that finitely many sequences hold blocks.
KVInv(k) ==
    /\ KVTypes(k)
    /\ FreeAndUsedPartition(k)
    /\ RefCountsCountHolders(k)
    /\ TablesHaveNoRepeat(k)
    /\ KeysAndCacheAreInverse(k)
    /\ IsFiniteSet(DOMAIN k.request_blocks)

-----------------------------------------------------------------------------
(* The empty manager.                                                      *)

LEMMA EmptyKVInv == KVInv(EmptyKV)
<1> DEFINE k == EmptyKV
<1>1. NumBlocks \in Nat
    BY NumBlocksAssumption
<1>2. /\ DOMAIN k.request_blocks = {}
      /\ DOMAIN k.cached_blocks = {}
      /\ DOMAIN k.num_registered_blocks = {}
    BY DEF EmptyKV
<1>3. /\ k.free_block_ids \in Seq(Block)
      /\ DOMAIN k.free_block_ids = 1 .. NumBlocks
      /\ \A i \in 1 .. NumBlocks : k.free_block_ids[i] = i - 1
    BY <1>1 DEF EmptyKV, Block
<1>4. ToSet(k.free_block_ids) = Block
  <2>1. \A b \in Block : b + 1 \in 1 .. NumBlocks /\ (b + 1) - 1 = b
      BY <1>1 DEF Block
  <2>2. \A b \in Block : b \in ToSet(k.free_block_ids)
      BY <1>3, <2>1 DEF ToSet
  <2>3. \A i \in 1 .. NumBlocks : i - 1 \in Block
      BY <1>1 DEF Block
  <2>4. \A b \in ToSet(k.free_block_ids) : b \in Block
      BY <1>3, <2>3 DEF ToSet
  <2>5. QED
      BY <2>2, <2>4
<1>5. IsInjective(k.free_block_ids)
    BY <1>1, <1>3 DEF IsInjective
<1>6. KVTypes(k)
  <2>1. DOMAIN k = KVFields /\ k = [f \in KVFields |-> k[f]]
      BY DEF EmptyKV, KVFields
  <2>2. /\ k.used_block_ids \in SUBSET Block
        /\ k.ref_counts \in [Block -> Nat]
        /\ k.block_keys \in [Block -> Seq(Token)]
      BY DEF EmptyKV, NoKey
  <2>3. /\ PartialFunction(k.cached_blocks, Seq(Token), Block)
        /\ PartialFunction(k.request_blocks, SeqId, Seq(Block))
        /\ PartialFunction(k.num_registered_blocks, SeqId, Nat)
      BY DEF EmptyKV, PartialFunction
  <2>4. QED
      BY <1>3, <2>1, <2>2, <2>3 DEF KVTypes
<1>7. FreeAndUsedPartition(k)
  <2>1. k.used_block_ids = {}
      BY DEF EmptyKV
  <2>2. QED
      BY <1>4, <1>5, <2>1 DEF FreeAndUsedPartition
<1>8. RefCountsCountHolders(k)
  <2>1. \A b \in Block : k.ref_counts[b] = 0
      BY DEF EmptyKV
  <2>2. \A b \in Block : Holders(k, b) = {}
      BY <1>2 DEF Holders
  <2>3. QED
      BY <1>4, <2>1, <2>2, FS_EmptySet DEF RefCountsCountHolders
<1>9. TablesHaveNoRepeat(k)
    BY <1>2 DEF TablesHaveNoRepeat
<1>10. KeysAndCacheAreInverse(k)
  <2>1. \A b \in Block : k.block_keys[b] = NoKey
      BY DEF EmptyKV
  <2>2. QED
      BY <1>2, <2>1 DEF KeysAndCacheAreInverse
<1>11. IsFiniteSet(DOMAIN k.request_blocks)
    BY <1>2, FS_EmptySet
<1>12. QED
    BY <1>6, <1>7, <1>8, <1>9, <1>10, <1>11 DEF KVInv

-----------------------------------------------------------------------------
(* A table that grows by blocks it does not have.                          *)

Tables(t, b) == {s \in DOMAIN t : b \in ToSet(t[s])}

\* The sequence s gains the blocks of new, and every one of them one holder.
LEMMA GrownTable ==
    ASSUME NEW k, KVInv(k), NEW s \in SeqId, NEW new \in Seq(Block),
           IsInjective(new), ToSet(new) \cap ToSet(BlockTable(k, s)) = {}
    PROVE  LET t == WithTable(k, s, BlockTable(k, s) \o new)
           IN  /\ PartialFunction(t, SeqId, Seq(Block))
               /\ DOMAIN t = DOMAIN k.request_blocks \cup {s}
               /\ IsFiniteSet(DOMAIN t)
               /\ \A x \in DOMAIN t : IsInjective(t[x])
               /\ t[s] = BlockTable(k, s) \o new
               /\ \A b \in Block : Cardinality(Tables(t, b)) =
                      IF b \in ToSet(new) THEN k.ref_counts[b] + 1
                                          ELSE k.ref_counts[b]
<1> DEFINE old == BlockTable(k, s)
           t == WithTable(k, s, old \o new)
           r == k.request_blocks
<1>1. /\ KVTypes(k) /\ RefCountsCountHolders(k) /\ TablesHaveNoRepeat(k)
      /\ IsFiniteSet(DOMAIN r)
    BY DEF KVInv
<1>2. \A x \in DOMAIN r : x \in SeqId /\ r[x] \in Seq(Block)
    BY <1>1 DEF KVTypes, PartialFunction
<1>3. old \in Seq(Block) /\ IsInjective(old)
  <2>1. CASE s \in DOMAIN r
      BY <1>1, <1>2, <2>1 DEF BlockTable, Holds, TablesHaveNoRepeat
  <2>2. CASE s \notin DOMAIN r
    <3>1. old = << >>
        BY <2>2 DEF BlockTable, Holds
    <3>2. QED
        BY <3>1 DEF IsInjective
  <2>3. QED
      BY <2>1, <2>2
<1>4. /\ old \o new \in Seq(Block)
      /\ ToSet(old \o new) = ToSet(old) \cup ToSet(new)
      /\ IsInjective(old \o new)
    BY <1>3, ConcatDistinct
<1>5. /\ DOMAIN t = DOMAIN r \cup {s}
      /\ \A x \in DOMAIN r : x # s => t[x] = r[x]
      /\ t[s] = old \o new
      /\ t = [x \in DOMAIN t |-> t[x]]
    BY DEF WithTable
<1>6. s \in DOMAIN r => old = r[s]
    BY DEF BlockTable, Holds
<1>7. s \notin DOMAIN r => ToSet(old) = {}
    BY DEF BlockTable, Holds, ToSet
<1> HIDE DEF t, old
<1>8. PartialFunction(t, SeqId, Seq(Block))
    BY <1>2, <1>4, <1>5 DEF PartialFunction
<1>9. IsFiniteSet(DOMAIN t)
    BY <1>1, <1>5, FS_AddElement
<1>10. \A x \in DOMAIN t : IsInjective(t[x])
    BY <1>1, <1>4, <1>5 DEF TablesHaveNoRepeat
<1>11. ASSUME NEW b \in Block
       PROVE  Cardinality(Tables(t, b)) =
                  IF b \in ToSet(new) THEN k.ref_counts[b] + 1
                                      ELSE k.ref_counts[b]
  <2>1. k.ref_counts[b] = Cardinality(Holders(k, b))
      BY <1>1 DEF RefCountsCountHolders
  <2>2. IsFiniteSet(Holders(k, b))
    <3>1. Holders(k, b) \in SUBSET DOMAIN r
        BY DEF Holders
    <3>2. QED
        BY <1>1, <3>1, FS_Subset
  <2>3. CASE b \in ToSet(new)
    <3>1. Tables(t, b) = Holders(k, b) \cup {s}
        BY <1>4, <1>5, <1>6, <2>3 DEF Tables, Holders
    <3>2. s \notin Holders(k, b)
        BY <1>6, <2>3 DEF Holders, old
    <3>3. QED
        BY <2>1, <2>2, <2>3, <3>1, <3>2, FS_AddElement
  <2>4. CASE b \notin ToSet(new)
    <3>1. b \in ToSet(old \o new) <=> b \in ToSet(old)
        BY <1>4, <2>4
    <3>2. Tables(t, b) = Holders(k, b)
        BY <1>5, <1>6, <1>7, <3>1 DEF Tables, Holders
    <3>3. QED
        BY <2>1, <2>4, <3>2
  <2>5. QED
      BY <2>3, <2>4
<1>12. QED
    BY <1>5, <1>8, <1>9, <1>10, <1>11 DEF t, old
-----------------------------------------------------------------------------
(* The updates.                                                            *)

\* A record update that changes fields only leaves a record of the same shape.
LEMMA SameShape ==
    ASSUME NEW k, KVTypes(k), NEW k2, k2 = [f \in DOMAIN k |-> k2[f]]
    PROVE  DOMAIN k2 = KVFields /\ k2 = [f \in KVFields |-> k2[f]]
BY DEF KVTypes

\* The blocks of hits join the table of s, off the free list.
LEMMA AcquireHitsInv ==
    ASSUME NEW k, KVInv(k), NEW s \in SeqId, NEW hits \in Seq(Block),
           IsInjective(hits), ToSet(hits) \cap ToSet(BlockTable(k, s)) = {}
    PROVE  KVInv(AcquireHits(k, s, hits))
<1> DEFINE k2 == AcquireHits(k, s, hits)
           t == WithTable(k, s, BlockTable(k, s) \o hits)
<1>1. /\ KVTypes(k) /\ FreeAndUsedPartition(k) /\ RefCountsCountHolders(k)
      /\ KeysAndCacheAreInverse(k)
    BY DEF KVInv
<1>2. /\ k2.free_block_ids = Delete(k.free_block_ids, ToSet(hits))
      /\ k2.used_block_ids = k.used_block_ids \cup ToSet(hits)
      /\ k2.ref_counts = CountHits(k.ref_counts, hits)
      /\ k2.block_keys = k.block_keys
      /\ k2.cached_blocks = k.cached_blocks
      /\ k2.request_blocks = t
      /\ k2.num_registered_blocks = k.num_registered_blocks
      /\ k2 = [f \in DOMAIN k |-> k2[f]]
    BY <1>1 DEF AcquireHits, KVTypes, KVFields
<1>3. /\ PartialFunction(t, SeqId, Seq(Block))
      /\ IsFiniteSet(DOMAIN t)
      /\ \A x \in DOMAIN t : IsInjective(t[x])
      /\ \A b \in Block : Cardinality(Tables(t, b)) =
             IF b \in ToSet(hits) THEN k.ref_counts[b] + 1 ELSE k.ref_counts[b]
    BY GrownTable
<1>4. ToSet(hits) \subseteq Block
    BY DEF ToSet
<1>5. /\ k2.free_block_ids \in Seq(Block)
      /\ ToSet(k2.free_block_ids) = ToSet(k.free_block_ids) \ ToSet(hits)
      /\ IsInjective(k2.free_block_ids)
  <2>1. k.free_block_ids \in Seq(Block) /\ IsInjective(k.free_block_ids)
      BY <1>1 DEF KVTypes, FreeAndUsedPartition
  <2>2. QED
      BY <1>2, <2>1, KeepProperties DEF Delete
<1> HIDE DEF k2, t
<1>6. KVTypes(k2)
  <2>1. DOMAIN k2 = KVFields /\ k2 = [f \in KVFields |-> k2[f]]
      BY <1>1, <1>2, SameShape
  <2>2. k2.ref_counts \in [Block -> Nat]
    <3>1. \A b \in Block : k.ref_counts[b] \in Nat
        BY <1>1 DEF KVTypes
    <3>2. QED
        BY <1>2, <3>1 DEF CountHits
  <2>3. QED
      BY <1>1, <1>2, <1>3, <1>4, <1>5, <2>1, <2>2 DEF KVTypes
<1>7. FreeAndUsedPartition(k2)
    BY <1>1, <1>2, <1>4, <1>5 DEF FreeAndUsedPartition
<1>8. RefCountsCountHolders(k2)
  <2>1. \A b \in Block : Holders(k2, b) = Tables(t, b)
      BY <1>2 DEF Holders, Tables
  <2>2. \A b \in Block : k2.ref_counts[b] =
            IF b \in ToSet(hits) THEN k.ref_counts[b] + 1 ELSE k.ref_counts[b]
      BY <1>2 DEF CountHits
  <2>3. \A b \in Block : k.ref_counts[b] \in Nat
      BY <1>1 DEF KVTypes
  <2>4. QED
      BY <1>1, <1>3, <1>5, <2>1, <2>2, <2>3 DEF RefCountsCountHolders
<1>9. TablesHaveNoRepeat(k2)
    BY <1>2, <1>3 DEF TablesHaveNoRepeat
<1>10. KeysAndCacheAreInverse(k2)
    BY <1>1, <1>2 DEF KeysAndCacheAreInverse
<1>11. QED
    BY <1>2, <1>3, <1>6, <1>7, <1>8, <1>9, <1>10 DEF KVInv, k2

\* The first n blocks of the free list join the table of s without their keys.
LEMMA PopFreeBlocksInv ==
    ASSUME NEW k, KVInv(k), NEW s \in SeqId, NEW n \in 0 .. Len(k.free_block_ids)
    PROVE  /\ KVInv(PopFreeBlocks(k, s, n))
           /\ PopFreeBlocks(k, s, n).num_registered_blocks = k.num_registered_blocks
           /\ Holds(PopFreeBlocks(k, s, n), s)
           /\ Len(PopFreeBlocks(k, s, n).request_blocks[s]) =
                  Len(BlockTable(k, s)) + n
<1> DEFINE popped == SubSeq(k.free_block_ids, 1, n)
           rest == SubSeq(k.free_block_ids, n + 1, Len(k.free_block_ids))
           k2 == PopFreeBlocks(k, s, n)
           t == WithTable(k, s, BlockTable(k, s) \o popped)
<1>1. /\ KVTypes(k) /\ FreeAndUsedPartition(k) /\ RefCountsCountHolders(k)
      /\ TablesHaveNoRepeat(k) /\ KeysAndCacheAreInverse(k)
      /\ IsFiniteSet(DOMAIN k.request_blocks)
    BY DEF KVInv
<1>2. /\ k2.free_block_ids = rest
      /\ k2.used_block_ids = k.used_block_ids \cup ToSet(popped)
      /\ k2.ref_counts =
             [b \in Block |-> IF b \in ToSet(popped) THEN 1 ELSE k.ref_counts[b]]
      /\ k2.block_keys =
             [b \in Block |-> IF b \in ToSet(popped) THEN NoKey ELSE k.block_keys[b]]
      /\ k2.cached_blocks = Evict(k.cached_blocks, popped)
      /\ k2.request_blocks = t
      /\ k2.num_registered_blocks = k.num_registered_blocks
      /\ k2 = [f \in DOMAIN k |-> k2[f]]
    BY <1>1 DEF PopFreeBlocks, Extend, KVTypes, KVFields
<1>3. /\ popped \in Seq(Block) /\ rest \in Seq(Block)
      /\ Len(popped) = n
      /\ ToSet(popped) \cup ToSet(rest) = ToSet(k.free_block_ids)
      /\ IsInjective(popped) /\ IsInjective(rest)
      /\ ToSet(popped) \cap ToSet(rest) = {}
    BY <1>1, SplitDistinct DEF KVTypes, FreeAndUsedPartition
<1>4. ToSet(popped) \subseteq Block /\ ToSet(rest) \subseteq Block
    BY <1>3 DEF ToSet
<1>5. \A b \in ToSet(popped) : k.ref_counts[b] = 0
    BY <1>1, <1>3, <1>4 DEF RefCountsCountHolders
<1> HIDE DEF popped, rest
<1>6. BlockTable(k, s) \in Seq(Block)
  <2>1. \A x \in DOMAIN k.request_blocks : k.request_blocks[x] \in Seq(Block)
      BY <1>1 DEF KVTypes, PartialFunction
  <2>2. QED
      BY <2>1 DEF BlockTable, Holds
<1>7. ToSet(popped) \cap ToSet(BlockTable(k, s)) = {}
  <2>1. SUFFICES ASSUME NEW b \in ToSet(popped), b \in ToSet(BlockTable(k, s))
                 PROVE  FALSE
      OBVIOUS
  <2>2. s \in DOMAIN k.request_blocks /\ BlockTable(k, s) = k.request_blocks[s]
      BY <2>1 DEF BlockTable, Holds, ToSet
  <2>3. Cardinality(Holders(k, b)) = 0
      BY <1>1, <1>4, <1>5 DEF RefCountsCountHolders
  <2>4. IsFiniteSet(Holders(k, b)) /\ s \in Holders(k, b)
    <3>1. Holders(k, b) \in SUBSET DOMAIN k.request_blocks
        BY DEF Holders
    <3>2. IsFiniteSet(Holders(k, b))
        BY <1>1, <3>1, FS_Subset
    <3>3. s \in Holders(k, b)
        BY <2>1, <2>2 DEF Holders
    <3>4. QED
        BY <3>2, <3>3
  <2>5. QED
      BY <2>3, <2>4, FS_EmptySet
<1>8. /\ PartialFunction(t, SeqId, Seq(Block))
      /\ DOMAIN t = DOMAIN k.request_blocks \cup {s}
      /\ IsFiniteSet(DOMAIN t)
      /\ \A x \in DOMAIN t : IsInjective(t[x])
      /\ t[s] = BlockTable(k, s) \o popped
      /\ \A b \in Block : Cardinality(Tables(t, b)) =
             IF b \in ToSet(popped) THEN k.ref_counts[b] + 1 ELSE k.ref_counts[b]
    BY <1>3, <1>7, GrownTable
<1> HIDE DEF k2, t
<1>9. KVTypes(k2)
  <2>1. DOMAIN k2 = KVFields /\ k2 = [f \in KVFields |-> k2[f]]
      BY <1>1, <1>2, SameShape
  <2>2. k2.ref_counts \in [Block -> Nat]
    <3>1. \A b \in Block : k.ref_counts[b] \in Nat
        BY <1>1 DEF KVTypes
    <3>2. QED
        BY <1>2, <3>1
  <2>3. k2.block_keys \in [Block -> Seq(Token)]
    <3>1. NoKey \in Seq(Token)
        BY DEF NoKey
    <3>2. k.block_keys \in [Block -> Seq(Token)]
        BY <1>1 DEF KVTypes
    <3>3. QED
        BY <1>2, <3>1, <3>2
  <2>4. PartialFunction(k2.cached_blocks, Seq(Token), Block)
      BY <1>1, <1>2 DEF KVTypes, PartialFunction, Evict, Restrict
  <2>5. QED
      BY <1>1, <1>2, <1>3, <1>4, <1>8, <2>1, <2>2, <2>3, <2>4 DEF KVTypes
<1>10. FreeAndUsedPartition(k2)
    BY <1>1, <1>2, <1>3, <1>4 DEF FreeAndUsedPartition
<1>11. RefCountsCountHolders(k2)
  <2>1. \A b \in Block : Holders(k2, b) = Tables(t, b)
      BY <1>2 DEF Holders, Tables
  <2>2. \A b \in Block :
            k2.ref_counts[b] = IF b \in ToSet(popped) THEN 1 ELSE k.ref_counts[b]
      BY <1>2
  <2>3. QED
      BY <1>1, <1>2, <1>3, <1>5, <1>8, <2>1, <2>2 DEF RefCountsCountHolders
<1>12. TablesHaveNoRepeat(k2)
    BY <1>2, <1>8 DEF TablesHaveNoRepeat
<1>13. KeysAndCacheAreInverse(k2)
  <2>1. /\ DOMAIN k2.cached_blocks =
               {key \in DOMAIN k.cached_blocks : k.cached_blocks[key] \notin ToSet(popped)}
        /\ \A key \in DOMAIN k2.cached_blocks :
               k2.cached_blocks[key] = k.cached_blocks[key]
      BY <1>2 DEF Evict, Restrict
  <2>2. \A b \in Block :
            k2.block_keys[b] = IF b \in ToSet(popped) THEN NoKey ELSE k.block_keys[b]
      BY <1>2
  <2>3. \A key \in DOMAIN k.cached_blocks : k.cached_blocks[key] \in Block
      BY <1>1 DEF KVTypes, PartialFunction
  <2>4. QED
      BY <1>1, <2>1, <2>2, <2>3 DEF KeysAndCacheAreInverse
<1>14. Holds(k2, s) /\ Len(k2.request_blocks[s]) = Len(BlockTable(k, s)) + n
  <2>1. Len(BlockTable(k, s) \o popped) = Len(BlockTable(k, s)) + Len(popped)
      BY <1>3, <1>6, ConcatDistinct
  <2>2. QED
      BY <1>2, <1>3, <1>8, <2>1 DEF Holds
<1>15. QED
    BY <1>2, <1>8, <1>9, <1>10, <1>11, <1>12, <1>13, <1>14 DEF KVInv, k2
-----------------------------------------------------------------------------
(* Registering full blocks.                                                *)

\* The keys of different full blocks of a sequence differ: each is one block
\* longer than the one before.
LEMMA BlockKeysDiffer ==
    ASSUME NEW seq \in SeqRecord, NEW i \in Nat, NEW j \in Nat,
           (i + 1) * BlockSize <= Len(seq.token_ids),
           (j + 1) * BlockSize <= Len(seq.token_ids)
    PROVE  /\ BlockKey(seq, i) \in Seq(Token)
           /\ BlockKey(seq, i) # NoKey
           /\ BlockKey(seq, i) = BlockKey(seq, j) => i = j
<1>1. seq.token_ids \in Seq(Token) /\ Len(seq.token_ids) \in Nat
    BY DEF SeqRecord
<1>2. BlockSize \in Nat \ {0}
    BY BlockSizeAssumption
<1>3. (i + 1) * BlockSize \in Nat \ {0} /\ (j + 1) * BlockSize \in Nat \ {0}
    BY <1>2
<1>4. /\ (i + 1) * BlockSize \in 1 .. Len(seq.token_ids)
      /\ (j + 1) * BlockSize \in 1 .. Len(seq.token_ids)
    BY <1>1, <1>3
<1>5. \A m \in 1 .. Len(seq.token_ids) :
          /\ SubSeq(seq.token_ids, 1, m) \in Seq(Token)
          /\ Len(SubSeq(seq.token_ids, 1, m)) = m
    BY <1>1
<1>6. /\ BlockKey(seq, i) \in Seq(Token)
      /\ Len(BlockKey(seq, i)) = (i + 1) * BlockSize
      /\ Len(BlockKey(seq, j)) = (j + 1) * BlockSize
    BY <1>4, <1>5 DEF BlockKey
<1>7. BlockKey(seq, i) # NoKey
    BY <1>3, <1>6 DEF NoKey
<1>8. ASSUME BlockKey(seq, i) = BlockKey(seq, j) PROVE i = j
  <2>1. (i + 1) * BlockSize = (j + 1) * BlockSize
      BY <1>6, <1>8
  <2>2. i + 1 = j + 1
      BY <1>2, <2>1, TimesCancel
  <2>3. QED
      BY <2>2
<1>9. QED
    BY <1>6, <1>7, <1>8

\* The blocks that get a key had none, and their keys are new to the cache.
LEMMA RegistrableBlocks ==
    ASSUME NEW k, KVInv(k), NEW s \in SeqId, Holds(k, s), NEW seq \in SeqRecord,
           NEW numFull \in Nat, numFull * BlockSize <= Len(seq.token_ids),
           numFull <= Len(k.request_blocks[s])
    PROVE  LET new   == Registrable(k, s, seq, numFull)
               table == k.request_blocks[s]
           IN  /\ \A i \in new :
                      /\ table[i + 1] \in Block
                      /\ k.block_keys[table[i + 1]] = NoKey
                      /\ BlockKey(seq, i) \in Seq(Token)
                      /\ BlockKey(seq, i) # NoKey
                      /\ BlockKey(seq, i) \notin DOMAIN k.cached_blocks
               /\ \A i, j \in new :
                      /\ table[i + 1] = table[j + 1] => i = j
                      /\ BlockKey(seq, i) = BlockKey(seq, j) => i = j
<1> DEFINE new == Registrable(k, s, seq, numFull)
           table == k.request_blocks[s]
<1>1. /\ table \in Seq(Block) /\ IsInjective(table)
      BY DEF KVInv, KVTypes, PartialFunction, TablesHaveNoRepeat, Holds
<1>2. NumRegistered(k, s) \in Nat
  <2>1. \A x \in DOMAIN k.num_registered_blocks : k.num_registered_blocks[x] \in Nat
      BY DEF KVInv, KVTypes, PartialFunction
  <2>2. QED
      BY <2>1 DEF NumRegistered
<1>3. \A i \in new : i \in Nat /\ i + 1 <= numFull
    BY <1>2 DEF Registrable
<1>4. \A i \in new : i + 1 \in DOMAIN table /\ table[i + 1] \in Block
    BY <1>1, <1>3
<1>5. \A i \in new : (i + 1) * BlockSize <= Len(seq.token_ids)
  <2>1. TAKE i \in new
  <2>2. BlockSize \in Nat /\ Len(seq.token_ids) \in Nat
      BY BlockSizeAssumption DEF SeqRecord
  <2>3. (i + 1) * BlockSize <= numFull * BlockSize
      BY <1>3, <2>2, TimesMonotone
  <2>4. (i + 1) * BlockSize \in Nat /\ numFull * BlockSize \in Nat
      BY <1>3, <2>2
  <2>5. QED
      BY <2>2, <2>3, <2>4
<1>6. \A i \in new : /\ k.block_keys[table[i + 1]] = NoKey
                     /\ BlockKey(seq, i) \notin DOMAIN k.cached_blocks
    BY DEF Registrable
<1>7. \A i, j \in new : table[i + 1] = table[j + 1] => i = j
  <2>1. TAKE i, j \in new
  <2>2. table[i + 1] = table[j + 1] => i + 1 = j + 1
      BY <1>1, <1>4 DEF IsInjective
  <2>3. QED
      BY <1>3, <2>2
<1> HIDE DEF new, table
<1>8. \A i, j \in new : /\ BlockKey(seq, i) \in Seq(Token)
                        /\ BlockKey(seq, i) # NoKey
                        /\ BlockKey(seq, i) = BlockKey(seq, j) => i = j
    BY <1>3, <1>5, BlockKeysDiffer
<1>9. QED
    BY <1>4, <1>6, <1>7, <1>8 DEF new, table

\* Full blocks of the table of s get their keys.
LEMMA CacheFullBlocksInv ==
    ASSUME NEW k, KVInv(k), NEW s \in SeqId, Holds(k, s), NEW seq \in SeqRecord,
           NEW numTokens \in Nat, numTokens <= Len(seq.token_ids),
           numTokens \div BlockSize <= Len(k.request_blocks[s])
    PROVE  KVInv(CacheFullBlocks(k, s, seq, numTokens))
<1> DEFINE numFull == numTokens \div BlockSize
           new == Registrable(k, s, seq, numFull)
           newKeys == {BlockKey(seq, i) : i \in new}
           table == k.request_blocks[s]
           k2 == CacheFullBlocks(k, s, seq, numTokens)
<1>1. /\ KVTypes(k) /\ FreeAndUsedPartition(k) /\ RefCountsCountHolders(k)
      /\ TablesHaveNoRepeat(k) /\ KeysAndCacheAreInverse(k)
      /\ IsFiniteSet(DOMAIN k.request_blocks)
    BY DEF KVInv
<1>2. /\ k2.free_block_ids = k.free_block_ids
      /\ k2.used_block_ids = k.used_block_ids
      /\ k2.ref_counts = k.ref_counts
      /\ k2.request_blocks = k.request_blocks
      /\ k2.block_keys = [b \in Block |->
             IF \E i \in new : table[i + 1] = b
             THEN BlockKey(seq, CHOOSE i \in new : table[i + 1] = b)
             ELSE k.block_keys[b]]
      /\ k2.cached_blocks = [key \in DOMAIN k.cached_blocks \cup newKeys |->
             IF key \in newKeys
             THEN table[(CHOOSE i \in new : BlockKey(seq, i) = key) + 1]
             ELSE k.cached_blocks[key]]
      /\ k2.num_registered_blocks =
             [x \in DOMAIN k.num_registered_blocks \cup {s} |->
                 IF x # s THEN k.num_registered_blocks[x]
                 ELSE IF numFull > NumRegistered(k, s)
                      THEN numFull ELSE NumRegistered(k, s)]
      /\ k2 = [f \in DOMAIN k |-> k2[f]]
    BY <1>1 DEF CacheFullBlocks, KVTypes, KVFields
<1>3. /\ numFull \in Nat /\ numFull * BlockSize <= Len(seq.token_ids)
      /\ numFull <= Len(table)
  <2>1. BlockSize \in Nat \ {0} /\ Len(seq.token_ids) \in Nat
      BY BlockSizeAssumption DEF SeqRecord
  <2>2. numFull \in Nat /\ numFull * BlockSize <= numTokens
      BY <2>1, DivTimes
  <2>3. numFull * BlockSize \in Nat
      BY <2>1, <2>2
  <2>4. QED
      BY <2>1, <2>2, <2>3
<1> HIDE DEF numFull, k2
<1>4. /\ \A i \in new : /\ table[i + 1] \in Block
                        /\ k.block_keys[table[i + 1]] = NoKey
                        /\ BlockKey(seq, i) \in Seq(Token)
                        /\ BlockKey(seq, i) # NoKey
                        /\ BlockKey(seq, i) \notin DOMAIN k.cached_blocks
      /\ \A i, j \in new : /\ table[i + 1] = table[j + 1] => i = j
                           /\ BlockKey(seq, i) = BlockKey(seq, j) => i = j
    BY <1>3, RegistrableBlocks
<1> HIDE DEF new, table
<1>5. \A i \in new : k2.block_keys[table[i + 1]] = BlockKey(seq, i)
    BY <1>2, <1>4
<1>6. \A i \in new : k2.cached_blocks[BlockKey(seq, i)] = table[i + 1]
    BY <1>2, <1>4
<1>7. \A b \in Block :
          (\A i \in new : table[i + 1] # b) => k2.block_keys[b] = k.block_keys[b]
    BY <1>2
<1>8. /\ DOMAIN k2.cached_blocks = DOMAIN k.cached_blocks \cup newKeys
      /\ \A key \in DOMAIN k.cached_blocks :
             k2.cached_blocks[key] = k.cached_blocks[key]
    BY <1>2, <1>4
<1>9. KVTypes(k2)
  <2>1. DOMAIN k2 = KVFields /\ k2 = [f \in KVFields |-> k2[f]]
      BY <1>1, <1>2, SameShape
  <2>2. k2.block_keys \in [Block -> Seq(Token)]
    <3>1. \A b \in Block : k.block_keys[b] \in Seq(Token)
        BY <1>1 DEF KVTypes
    <3>2. \A b \in Block : k2.block_keys[b] \in Seq(Token)
        BY <1>4, <1>5, <1>7, <3>1
    <3>3. k2.block_keys = [b \in Block |-> k2.block_keys[b]]
        BY <1>2
    <3>4. QED
        BY <3>2, <3>3
  <2>3. PartialFunction(k2.cached_blocks, Seq(Token), Block)
    <3>1. \A key \in DOMAIN k.cached_blocks :
              key \in Seq(Token) /\ k.cached_blocks[key] \in Block
        BY <1>1 DEF KVTypes, PartialFunction
    <3>2. \A key \in DOMAIN k2.cached_blocks :
              key \in Seq(Token) /\ k2.cached_blocks[key] \in Block
        BY <1>4, <1>6, <1>8, <3>1
    <3>3. k2.cached_blocks = [key \in DOMAIN k2.cached_blocks |-> k2.cached_blocks[key]]
        BY <1>2
    <3>4. QED
        BY <3>2, <3>3 DEF PartialFunction
  <2>4. PartialFunction(k2.num_registered_blocks, SeqId, Nat)
    <3>1. \A x \in DOMAIN k.num_registered_blocks :
              x \in SeqId /\ k.num_registered_blocks[x] \in Nat
        BY <1>1 DEF KVTypes, PartialFunction
    <3>2. NumRegistered(k, s) \in Nat
        BY <3>1 DEF NumRegistered
    <3>3. QED
        BY <1>2, <1>3, <3>1, <3>2 DEF PartialFunction
  <2>5. QED
      BY <1>1, <1>2, <2>1, <2>2, <2>3, <2>4 DEF KVTypes
<1>10. FreeAndUsedPartition(k2)
    BY <1>1, <1>2 DEF FreeAndUsedPartition
<1>11. RefCountsCountHolders(k2)
  <2>1. \A b \in Block : Holders(k2, b) = Holders(k, b)
      BY <1>2 DEF Holders
  <2>2. k2.ref_counts = k.ref_counts /\ k2.free_block_ids = k.free_block_ids
      BY <1>2
  <2>3. QED
      BY <1>1, <2>1, <2>2 DEF RefCountsCountHolders
<1>12. TablesHaveNoRepeat(k2)
    BY <1>1, <1>2 DEF TablesHaveNoRepeat
<1>13. KeysAndCacheAreInverse(k2)
  <2>1. ASSUME NEW b \in Block, k2.block_keys[b] # NoKey
        PROVE  /\ k2.block_keys[b] \in DOMAIN k2.cached_blocks
               /\ k2.cached_blocks[k2.block_keys[b]] = b
    <3>1. CASE \E i \in new : table[i + 1] = b
        BY <1>5, <1>6, <1>8, <3>1
    <3>2. CASE \A i \in new : table[i + 1] # b
        BY <1>1, <1>7, <1>8, <2>1, <3>2 DEF KeysAndCacheAreInverse
    <3>3. QED
        BY <3>1, <3>2
  <2>2. ASSUME NEW key \in DOMAIN k2.cached_blocks
        PROVE  key # NoKey /\ k2.block_keys[k2.cached_blocks[key]] = key
    <3>1. CASE \E i \in new : BlockKey(seq, i) = key
        BY <1>4, <1>5, <1>6, <3>1
    <3>2. CASE key \in DOMAIN k.cached_blocks
      <4>1. /\ k.cached_blocks[key] \in Block
            /\ key # NoKey /\ k.block_keys[k.cached_blocks[key]] = key
          BY <1>1, <3>2 DEF KVTypes, PartialFunction, KeysAndCacheAreInverse
      <4>2. \A i \in new : table[i + 1] # k.cached_blocks[key]
          BY <1>4, <4>1
      <4>3. QED
          BY <1>7, <1>8, <3>2, <4>1, <4>2
    <3>3. QED
        BY <1>8, <3>1, <3>2
  <2>3. QED
      BY <2>1, <2>2 DEF KeysAndCacheAreInverse
<1>14. QED
    BY <1>1, <1>2, <1>9, <1>10, <1>11, <1>12, <1>13 DEF KVInv, k2
-----------------------------------------------------------------------------
(* Freeing.                                                                *)

\* The blocks of s lose one holder; those that had one join the free list.
LEMMA FreeInv ==
    ASSUME NEW k, KVInv(k), NEW s \in SeqId, Holds(k, s)
    PROVE  KVInv(Free(k, s))
<1> DEFINE table == k.request_blocks[s]
           released == {b \in ToSet(table) : k.ref_counts[b] = 1}
           back == Keep(Reverse(table), released)
           k2 == Free(k, s)
           r == k.request_blocks
<1>1. /\ KVTypes(k) /\ FreeAndUsedPartition(k) /\ RefCountsCountHolders(k)
      /\ TablesHaveNoRepeat(k) /\ KeysAndCacheAreInverse(k)
      /\ IsFiniteSet(DOMAIN r)
    BY DEF KVInv
<1>2. /\ k2.free_block_ids = k.free_block_ids \o back
      /\ k2.used_block_ids = k.used_block_ids \ released
      /\ k2.ref_counts = Uncount(k.ref_counts, table)
      /\ k2.block_keys = k.block_keys
      /\ k2.cached_blocks = k.cached_blocks
      /\ k2.request_blocks = Restrict(r, DOMAIN r \ {s})
      /\ k2.num_registered_blocks =
             Restrict(k.num_registered_blocks, DOMAIN k.num_registered_blocks \ {s})
      /\ k2 = [f \in DOMAIN k |-> k2[f]]
    BY <1>1 DEF Free, KVTypes, KVFields
<1>3. s \in DOMAIN r /\ table \in Seq(Block) /\ IsInjective(table)
    BY <1>1 DEF KVTypes, PartialFunction, TablesHaveNoRepeat, Holds
<1>4. ToSet(table) \subseteq Block
    BY <1>3 DEF ToSet
<1>5. /\ back \in Seq(Block) /\ ToSet(back) = released /\ IsInjective(back)
  <2>1. /\ Reverse(table) \in Seq(Block) /\ IsInjective(Reverse(table))
        /\ ToSet(Reverse(table)) = ToSet(table)
      BY <1>3, ReverseDistinct
  <2>2. /\ back \in Seq(Block) /\ IsInjective(back)
        /\ ToSet(back) = ToSet(table) \cap released
      BY <2>1, KeepProperties
  <2>3. QED
      BY <2>2
<1>6. \A b \in Block : k.ref_counts[b] \in Nat
    BY <1>1 DEF KVTypes
<1>7. \A b \in ToSet(table) : k.ref_counts[b] >= 1
  <2>1. TAKE b \in ToSet(table)
  <2>2. IsFiniteSet(Holders(k, b)) /\ s \in Holders(k, b)
    <3>1. Holders(k, b) \in SUBSET DOMAIN r
        BY DEF Holders
    <3>2. s \in Holders(k, b)
        BY <1>3 DEF Holders
    <3>3. QED
        BY <1>1, <3>1, <3>2, FS_Subset
  <2>3. Cardinality(Holders(k, b)) # 0
      BY <2>2, FS_EmptySet
  <2>4. QED
      BY <1>1, <1>4, <1>6, <2>3 DEF RefCountsCountHolders
<1> HIDE DEF k2, back, table
<1>8. released \subseteq Block /\ released \cap ToSet(k.free_block_ids) = {}
    BY <1>1, <1>4 DEF RefCountsCountHolders
<1>9. /\ k2.free_block_ids \in Seq(Block)
      /\ ToSet(k2.free_block_ids) = ToSet(k.free_block_ids) \cup released
      /\ IsInjective(k2.free_block_ids)
  <2>1. k.free_block_ids \in Seq(Block) /\ IsInjective(k.free_block_ids)
      BY <1>1 DEF KVTypes, FreeAndUsedPartition
  <2>2. QED
      BY <1>2, <1>5, <1>8, <2>1, ConcatDistinct
<1>10. \A b \in Block : k2.ref_counts[b] =
           IF b \in ToSet(table) THEN k.ref_counts[b] - 1 ELSE k.ref_counts[b]
    BY <1>2 DEF Uncount
<1>11. /\ DOMAIN k2.request_blocks = DOMAIN r \ {s}
       /\ \A x \in DOMAIN r \ {s} : k2.request_blocks[x] = r[x]
       /\ k2.request_blocks = [x \in DOMAIN k2.request_blocks |-> k2.request_blocks[x]]
    BY <1>2 DEF Restrict
<1>12. KVTypes(k2)
  <2>1. DOMAIN k2 = KVFields /\ k2 = [f \in KVFields |-> k2[f]]
      BY <1>1, <1>2, SameShape
  <2>2. k2.ref_counts \in [Block -> Nat]
    <3>1. \A b \in Block : k2.ref_counts[b] \in Nat
        BY <1>6, <1>7, <1>10
    <3>2. k2.ref_counts = [b \in Block |-> k2.ref_counts[b]]
        BY <1>2 DEF Uncount
    <3>3. QED
        BY <3>1, <3>2
  <2>3. PartialFunction(k2.request_blocks, SeqId, Seq(Block))
      BY <1>1, <1>11 DEF KVTypes, PartialFunction
  <2>4. PartialFunction(k2.num_registered_blocks, SeqId, Nat)
      BY <1>1, <1>2 DEF KVTypes, PartialFunction, Restrict
  <2>5. k2.used_block_ids \in SUBSET Block
      BY <1>1, <1>2 DEF KVTypes
  <2>6. QED
      BY <1>1, <1>2, <1>9, <2>1, <2>2, <2>3, <2>4, <2>5 DEF KVTypes
<1>13. FreeAndUsedPartition(k2)
    BY <1>1, <1>2, <1>8, <1>9 DEF FreeAndUsedPartition
<1>14. RefCountsCountHolders(k2)
  <2>1. SUFFICES ASSUME NEW b \in Block
                 PROVE  /\ k2.ref_counts[b] = Cardinality(Holders(k2, b))
                        /\ k2.ref_counts[b] = 0 <=> b \in ToSet(k2.free_block_ids)
      BY DEF RefCountsCountHolders
  <2>2. Holders(k2, b) = Holders(k, b) \ {s}
      BY <1>11 DEF Holders
  <2>3. s \in Holders(k, b) <=> b \in ToSet(table)
      BY <1>3 DEF Holders, table
  <2>4. IsFiniteSet(Holders(k, b))
    <3>1. Holders(k, b) \in SUBSET DOMAIN r
        BY DEF Holders
    <3>2. QED
        BY <1>1, <3>1, FS_Subset
  <2>5. /\ k.ref_counts[b] = Cardinality(Holders(k, b))
        /\ k.ref_counts[b] = 0 <=> b \in ToSet(k.free_block_ids)
      BY <1>1 DEF RefCountsCountHolders
  <2>6. k2.ref_counts[b] = Cardinality(Holders(k2, b))
    <3>1. Cardinality(Holders(k, b) \ {s}) =
              IF s \in Holders(k, b) THEN Cardinality(Holders(k, b)) - 1
                                     ELSE Cardinality(Holders(k, b))
        BY <2>4, FS_RemoveElement
    <3>2. QED
        BY <1>10, <2>2, <2>3, <2>5, <3>1
  <2>7. k2.ref_counts[b] = 0 <=> b \in ToSet(k2.free_block_ids)
      BY <1>6, <1>7, <1>9, <1>10, <2>5
  <2>8. QED
      BY <2>6, <2>7
<1>15. TablesHaveNoRepeat(k2)
    BY <1>1, <1>11 DEF TablesHaveNoRepeat
<1>16. KeysAndCacheAreInverse(k2)
    BY <1>1, <1>2 DEF KeysAndCacheAreInverse
<1>17. IsFiniteSet(DOMAIN k2.request_blocks)
    BY <1>1, <1>11, FS_RemoveElement
<1>18. QED
    BY <1>12, <1>13, <1>14, <1>15, <1>16, <1>17 DEF KVInv, k2
-----------------------------------------------------------------------------
(* Allocating.                                                             *)

\* The hits of a sequence are different blocks that hold its own prefix, in
\* order and under its own keys; they leave it at least one token to compute,
\* and it has none once it holds a table.
LEMMA HitsProperties ==
    ASSUME NEW k, KVInv(k), NEW s \in SeqId, NEW seq \in SeqRecord,
           seq.token_ids # << >>
    PROVE  LET hits == GetComputedBlocks(k, s, seq)
           IN  /\ hits \in Seq(Block)
               /\ IsInjective(hits)
               /\ Len(hits) * BlockSize \in Nat
               /\ Len(hits) * BlockSize < Len(seq.token_ids)
               /\ ToSet(hits) \cap ToSet(BlockTable(k, s)) = {}
               /\ hits # << >> => ~Holds(k, s)
               /\ \A i \in 1 .. Len(hits) :
                      /\ i * BlockSize <= Len(seq.token_ids)
                      /\ k.block_keys[hits[i]] = BlockKey(seq, i - 1)
<1> DEFINE hits == GetComputedBlocks(k, s, seq)
           M == MaxCachedBlocks(seq)
           runs == {n \in 0 .. M : \A i \in 0 .. n - 1 :
                        BlockKey(seq, i) \in DOMAIN k.cached_blocks}
           N == Max(runs)
<1>1. BlockSize \in Nat \ {0}
    BY BlockSizeAssumption
<1>2. CASE ~EnablePrefixCaching \/ Holds(k, s)
  <2>1. hits = << >>
      BY <1>2 DEF GetComputedBlocks
  <2>2. << >> \in Seq(Block) /\ IsInjective(<< >>) /\ ToSet(<< >>) = {} /\ Len(<< >>) = 0
      BY DEF IsInjective, ToSet
  <2>3. 0 * BlockSize = 0 /\ Len(seq.token_ids) \in Nat \ {0}
      BY <1>1 DEF SeqRecord
  <2> HIDE DEF hits
  <2>4. Len(hits) * BlockSize \in Nat /\ Len(hits) * BlockSize < Len(seq.token_ids)
      BY <2>1, <2>2, <2>3
  <2>5. \A i \in 1 .. Len(hits) : FALSE
      BY <2>1, <2>2
  <2>6. QED
      BY <2>1, <2>2, <2>4, <2>5 DEF hits
<1>3. CASE EnablePrefixCaching /\ ~Holds(k, s)
  <2>1. hits = [i \in 1 .. N |-> k.cached_blocks[BlockKey(seq, i - 1)]]
      BY <1>3 DEF GetComputedBlocks
  <2>2. Len(seq.token_ids) \in Nat \ {0}
      BY DEF SeqRecord
  <2>3. M \in Nat /\ M * BlockSize <= Len(seq.token_ids) - 1
    <3>1. Len(seq.token_ids) - 1 \in Nat
        BY <2>2
    <3>2. QED
        BY <1>1, <3>1, DivTimes DEF MaxCachedBlocks
  <2> HIDE DEF M
  <2>4. N \in runs
    <3>1. 0 \in runs /\ runs \in SUBSET (0 .. M)
        BY <2>3
    <3> HIDE DEF runs
    <3>2. QED
        BY <2>3, <3>1, MaxOfBounded
  <2> HIDE DEF N, hits
  <2>5. /\ N \in Nat /\ N <= M
        /\ \A i \in 0 .. N - 1 : BlockKey(seq, i) \in DOMAIN k.cached_blocks
      BY <2>3, <2>4
  <2>6. \A i \in 1 .. N : i - 1 \in Nat /\ (i - 1 + 1) * BlockSize <= Len(seq.token_ids)
    <3>1. TAKE i \in 1 .. N
    <3>2. i - 1 \in Nat /\ i - 1 + 1 = i /\ i \in Nat /\ i <= M
        BY <2>3, <2>5
    <3>3. i * BlockSize <= M * BlockSize
        BY <1>1, <2>3, <3>2, TimesMonotone
    <3>4. i * BlockSize \in Nat /\ M * BlockSize \in Nat
        BY <1>1, <2>3, <3>2
    <3>5. i * BlockSize <= Len(seq.token_ids)
        BY <2>2, <2>3, <3>3, <3>4
    <3>6. QED
        BY <3>2, <3>5
  <2>7. \A i, j \in 1 .. N : BlockKey(seq, i - 1) = BlockKey(seq, j - 1) => i = j
    <3>1. TAKE i, j \in 1 .. N
    <3>2. BlockKey(seq, i - 1) = BlockKey(seq, j - 1) => i - 1 = j - 1
        BY <2>6, BlockKeysDiffer
    <3>3. QED
        BY <2>5, <3>2
  <2>8. \A i \in 1 .. N : BlockKey(seq, i - 1) \in DOMAIN k.cached_blocks
    <3>1. \A i \in 1 .. N : i - 1 \in 0 .. N - 1
        BY <2>5
    <3>2. QED
        BY <2>5, <3>1
  <2>9. \A key \in DOMAIN k.cached_blocks :
            /\ k.cached_blocks[key] \in Block
            /\ k.block_keys[k.cached_blocks[key]] = key
      BY DEF KVInv, KVTypes, PartialFunction, KeysAndCacheAreInverse
  <2>10. \A i \in 1 .. N : /\ hits[i] \in Block
                           /\ k.block_keys[hits[i]] = BlockKey(seq, i - 1)
      BY <2>1, <2>8, <2>9
  <2>11. hits \in Seq(Block) /\ Len(hits) = N /\ DOMAIN hits = 1 .. N
      BY <2>1, <2>5, <2>10
  <2>12. IsInjective(hits)
      BY <2>7, <2>10, <2>11 DEF IsInjective
  <2>13. Len(hits) * BlockSize \in Nat /\ Len(hits) * BlockSize < Len(seq.token_ids)
    <3>1. N * BlockSize <= M * BlockSize
        BY <1>1, <2>3, <2>5, TimesMonotone
    <3>2. N * BlockSize \in Nat /\ M * BlockSize \in Nat
        BY <1>1, <2>3, <2>5
    <3>3. QED
        BY <2>2, <2>3, <2>11, <3>1, <3>2
  <2>14. ToSet(BlockTable(k, s)) = {}
      BY <1>3 DEF BlockTable, ToSet
  <2>15. \A i \in 1 .. Len(hits) :
             /\ i * BlockSize <= Len(seq.token_ids)
             /\ k.block_keys[hits[i]] = BlockKey(seq, i - 1)
    <3>1. TAKE i \in 1 .. Len(hits)
    <3>2. i \in 1 .. N /\ i - 1 + 1 = i
        BY <2>5, <2>11
    <3>3. QED
        BY <2>6, <2>10, <3>2
  <2>16. QED
      BY <1>3, <2>11, <2>12, <2>13, <2>14, <2>15 DEF hits
<1>4. QED
    BY <1>2, <1>3

\* What can_allocate promises: after the hits have left the free list, it still
\* has the blocks to pop.
LEMMA EnoughAfterHits ==
    ASSUME NEW k, KVInv(k), NEW s \in SeqId, NEW seq, NEW n,
           NEW hits \in Seq(Block), IsInjective(hits),
           NumBlocksNeeded(k, s, seq, n, hits) \in Nat,
           CanAllocate(k, s, seq, n, hits)
    PROVE  NumBlocksNeeded(k, s, seq, n, hits) <=
               Len(AcquireHits(k, s, hits).free_block_ids)
<1> DEFINE free == k.free_block_ids
           after == AcquireHits(k, s, hits).free_block_ids
           revived == {b \in ToSet(hits) : k.ref_counts[b] = 0}
<1>1. free \in Seq(Block) /\ IsInjective(free)
    BY DEF KVInv, KVTypes, FreeAndUsedPartition
<1>2. IsFiniteSet(ToSet(free)) /\ Cardinality(ToSet(free)) = Len(free)
    BY <1>1, LenIsCardinality
<1>3. after = Keep(free, ToSet(free) \ ToSet(hits))
    BY DEF AcquireHits, Delete, KVInv, KVTypes, KVFields
<1>4. /\ after \in Seq(Block) /\ IsInjective(after)
      /\ ToSet(after) = ToSet(free) \ ToSet(hits)
    BY <1>1, <1>3, KeepProperties
<1>5. Cardinality(ToSet(after)) = Len(after)
    BY <1>4, LenIsCardinality
<1>6. ToSet(hits) \subseteq Block
    BY DEF ToSet
<1>7. revived = ToSet(free) \cap ToSet(hits)
    BY <1>6 DEF KVInv, RefCountsCountHolders
<1>8. Cardinality(ToSet(free) \ ToSet(hits)) =
          Cardinality(ToSet(free)) - Cardinality(ToSet(free) \cap ToSet(hits))
    BY <1>2, FS_Difference
<1>9. Cardinality(revived) \in Nat
  <2>1. IsFiniteSet(ToSet(free) \cap ToSet(hits))
      BY <1>2, FS_Subset, ToSet(free) \cap ToSet(hits) \in SUBSET ToSet(free)
  <2>2. QED
      BY <1>7, <2>1, FS_CardinalityType
<1>10. Len(free) >= NumBlocksNeeded(k, s, seq, n, hits) + Cardinality(revived)
    BY DEF CanAllocate, NumRevived
<1>11. Len(after) = Len(free) - Cardinality(revived)
    BY <1>2, <1>4, <1>5, <1>7, <1>8
<1>12. Len(free) \in Nat
    BY <1>1
<1> HIDE DEF free, after, revived
<1>13. NumBlocksNeeded(k, s, seq, n, hits) <= Len(after)
    BY <1>9, <1>10, <1>11, <1>12
<1>14. QED
    BY <1>13 DEF after
\* Enough blocks to hold n tokens hold its full blocks.
LEMMA CeilCoversFloor ==
    ASSUME NEW n \in Nat, NEW d \in Nat \ {0}
    PROVE  CeilDiv(n, d) \in Nat /\ n \div d <= CeilDiv(n, d)
<1> DEFINE f == n \div d
           c == (n + d - 1) \div d
<1>1. n + d - 1 \in Nat
    OBVIOUS
<1>2. f \in Nat /\ f * d <= n /\ c \in Nat /\ n + d - 1 < (c + 1) * d
    BY <1>1, DivTimes
<1> HIDE DEF f, c
<1>3. ASSUME c + 1 <= f PROVE FALSE
  <2>1. (c + 1) * d <= f * d
      BY <1>2, <1>3, TimesMonotone
  <2>2. (c + 1) * d \in Nat /\ f * d \in Nat
      BY <1>2
  <2>3. QED
      BY <1>2, <2>1, <2>2
<1>4. f <= c
    BY <1>2, <1>3
<1>5. QED
    BY <1>2, <1>4 DEF f, c, CeilDiv

\* The two halves of allocate_slots: the table first takes the hits, then as
\* many free blocks as it still lacks.
AllocatesInParts(k, s, seq, n, hits) ==
    LET N         == Len(seq.token_ids)
        held      == Len(BlockTable(k, s)) + Len(hits)
        needed    == NumBlocksNeeded(k, s, seq, n, hits)
        acquired  == AcquireHits(k, s, hits)
        allocated == PopFreeBlocks(acquired, s, needed)
    IN  /\ KVInv(acquired)
        /\ BlockTable(acquired, s) = BlockTable(k, s) \o hits
        /\ held \in Nat
        /\ needed \in 0 .. Len(acquired.free_block_ids)
        /\ CeilDiv(N, BlockSize) \in Nat
        /\ needed = IF CeilDiv(N, BlockSize) > held
                    THEN CeilDiv(N, BlockSize) - held ELSE 0
        /\ KVInv(allocated) /\ Holds(allocated, s)
        /\ Len(allocated.request_blocks[s]) = held + needed
        /\ N \div BlockSize <= Len(allocated.request_blocks[s])
        /\ AllocateSlots(k, s, seq, n, hits) =
               IF EnablePrefixCaching
               THEN CacheFullBlocks(allocated, s, seq, N) ELSE allocated

\* allocate_slots, for all the tokens seq has not computed, finds the free
\* blocks that can_allocate promised.
LEMMA AllocateSlotsParts ==
    ASSUME NEW k, KVInv(k), NEW s \in SeqId, NEW seq \in SeqRecord,
           seq.token_ids # << >>, NEW hits, NEW n \in Int,
           hits = GetComputedBlocks(k, s, seq),
           seq.num_computed_tokens + Len(hits) * BlockSize + n = Len(seq.token_ids),
           CanAllocate(k, s, seq, n, hits)
    PROVE  AllocatesInParts(k, s, seq, n, hits)
<1> DEFINE N == Len(seq.token_ids)
           held == Len(BlockTable(k, s)) + Len(hits)
           needed == NumBlocksNeeded(k, s, seq, n, hits)
           acquired == AcquireHits(k, s, hits)
           allocated == PopFreeBlocks(acquired, s, needed)
<1>1. BlockSize \in Nat \ {0}
    BY BlockSizeAssumption
<1>2. N \in Nat
    BY DEF SeqRecord
<1>3. /\ hits \in Seq(Block) /\ IsInjective(hits)
      /\ ToSet(hits) \cap ToSet(BlockTable(k, s)) = {}
    BY HitsProperties
<1>4. BlockTable(k, s) \in Seq(Block)
  <2>1. \A x \in DOMAIN k.request_blocks : k.request_blocks[x] \in Seq(Block)
      BY DEF KVInv, KVTypes, PartialFunction
  <2>2. QED
      BY <2>1 DEF BlockTable, Holds
<1>5. held \in Nat
    BY <1>3, <1>4
<1>6. CeilDiv(N, BlockSize) \in Nat /\ N \div BlockSize <= CeilDiv(N, BlockSize)
    BY <1>1, <1>2, CeilCoversFloor
<1>7. needed = IF CeilDiv(N, BlockSize) > held THEN CeilDiv(N, BlockSize) - held ELSE 0
    BY DEF NumBlocksNeeded
<1>8. needed \in Nat /\ CeilDiv(N, BlockSize) <= held + needed
  <2> HIDE DEF N, held, needed
  <2>1. QED
      BY <1>5, <1>6, <1>7
<1>9. KVInv(acquired)
    BY <1>3, AcquireHitsInv
<1>10. needed <= Len(acquired.free_block_ids)
    BY <1>3, <1>8, EnoughAfterHits
<1>11. Len(acquired.free_block_ids) \in Nat
    BY <1>9 DEF KVInv, KVTypes
<1>12. BlockTable(acquired, s) = BlockTable(k, s) \o hits
  <2>1. acquired.request_blocks = WithTable(k, s, BlockTable(k, s) \o hits)
      BY DEF AcquireHits, KVInv, KVTypes, KVFields
  <2>2. QED
      BY <2>1 DEF WithTable, BlockTable, Holds
<1>13. Len(BlockTable(acquired, s)) = held
    BY <1>3, <1>4, <1>12, ConcatDistinct
<1> HIDE DEF needed, acquired
<1>14. needed \in 0 .. Len(acquired.free_block_ids)
    BY <1>8, <1>10, <1>11
<1>15. /\ KVInv(allocated)
       /\ Holds(allocated, s)
       /\ Len(allocated.request_blocks[s]) = held + needed
    BY <1>9, <1>13, <1>14, PopFreeBlocksInv
<1> HIDE DEF allocated, held, N
<1>16. AllocateSlots(k, s, seq, n, hits) =
           IF EnablePrefixCaching THEN CacheFullBlocks(allocated, s, seq, N)
           ELSE allocated
    BY DEF AllocateSlots, needed, acquired, allocated, N
<1>17. N \div BlockSize <= Len(allocated.request_blocks[s])
  <2>1. N \div BlockSize \in Nat
      BY <1>1, <1>2, DivTimes
  <2>2. QED
      BY <1>5, <1>6, <1>8, <1>15, <2>1
<1>18. QED
    BY <1>5, <1>6, <1>7, <1>9, <1>12, <1>14, <1>15, <1>16, <1>17
       DEF AllocatesInParts, allocated, acquired, needed, held, N

\* allocate_slots, for all the tokens seq has not computed.
LEMMA AllocateSlotsInv ==
    ASSUME NEW k, KVInv(k), NEW s \in SeqId, NEW seq \in SeqRecord,
           seq.token_ids # << >>, NEW hits, NEW n \in Int,
           hits = GetComputedBlocks(k, s, seq),
           seq.num_computed_tokens + Len(hits) * BlockSize + n = Len(seq.token_ids),
           CanAllocate(k, s, seq, n, hits)
    PROVE  KVInv(AllocateSlots(k, s, seq, n, hits))
<1> DEFINE N == Len(seq.token_ids)
           acquired == AcquireHits(k, s, hits)
           allocated == PopFreeBlocks(acquired, s, NumBlocksNeeded(k, s, seq, n, hits))
<1>1. N \in Nat /\ N <= Len(seq.token_ids)
    BY DEF SeqRecord
<1>2. /\ KVInv(allocated) /\ Holds(allocated, s)
      /\ N \div BlockSize <= Len(allocated.request_blocks[s])
      /\ AllocateSlots(k, s, seq, n, hits) =
             IF EnablePrefixCaching THEN CacheFullBlocks(allocated, s, seq, N)
             ELSE allocated
  <2>1. AllocatesInParts(k, s, seq, n, hits)
      BY AllocateSlotsParts
  <2>2. QED
      BY <2>1 DEF AllocatesInParts
<1> HIDE DEF allocated, N
<1>3. KVInv(CacheFullBlocks(allocated, s, seq, N))
    BY <1>1, <1>2, CacheFullBlocksInv
<1>4. QED
    BY <1>2, <1>3

-----------------------------------------------------------------------------
(* The specification.                                                      *)

\* KVInv, and sequences with at least one token.
Inv ==
    /\ KVInv(kv)
    /\ seqs \in [SeqId -> SeqRecord]
    /\ \A s \in SeqId : seqs[s].token_ids # << >>

LEMMA KVInitInv == KVInit => Inv
<1> SUFFICES ASSUME KVInit PROVE Inv
    OBVIOUS
<1>1. KVInv(kv)
    BY EmptyKVInv DEF KVInit
<1>2. seqs \in [SeqId -> {[token_ids |-> p, num_computed_tokens |-> 0] : p \in Prompts}]
    BY DEF KVInit
<1>3. \A s \in SeqId : \E p \in Prompts :
          seqs[s] = [token_ids |-> p, num_computed_tokens |-> 0]
    BY <1>2
<1>4. \A s \in SeqId : seqs[s] \in SeqRecord /\ seqs[s].token_ids # << >>
  <2>1. TAKE s \in SeqId
  <2>2. PICK p \in Prompts : seqs[s] = [token_ids |-> p, num_computed_tokens |-> 0]
      BY <1>3
  <2>3. p \in Seq(Token) /\ p # << >>
      BY PromptsAssumption
  <2>4. QED
      BY <2>2, <2>3 DEF SeqRecord
<1>5. seqs \in [SeqId -> SeqRecord]
    BY <1>2, <1>4
<1>6. QED
    BY <1>1, <1>4, <1>5 DEF Inv

LEMMA KVNextInv == Inv /\ [KVNext]_kvVars => Inv'
<1> SUFFICES ASSUME Inv, [KVNext]_kvVars PROVE Inv'
    OBVIOUS
<1>1. /\ KVInv(kv) /\ seqs \in [SeqId -> SeqRecord]
      /\ \A s \in SeqId : /\ seqs[s] \in SeqRecord
                          /\ seqs[s].token_ids \in Seq(Token)
                          /\ seqs[s].token_ids # << >>
                          /\ seqs[s].num_computed_tokens \in Nat
    BY DEF Inv, SeqRecord
<1>2. ASSUME NEW s \in SeqId, KVAllocate(s) PROVE Inv'
  <2> DEFINE hits == GetComputedBlocks(kv, s, seqs[s])
             n == Len(seqs[s].token_ids) - seqs[s].num_computed_tokens
                      - Len(hits) * BlockSize
  <2>1. /\ CanAllocate(kv, s, seqs[s], n, hits)
        /\ kv' = AllocateSlots(kv, s, seqs[s], n, hits)
        /\ seqs' = [seqs EXCEPT ![s].num_computed_tokens = @ + Len(hits) * BlockSize]
      BY <1>2 DEF KVAllocate
  <2>2. Len(hits) * BlockSize \in Nat
      BY <1>1, HitsProperties
  <2>3. Len(seqs[s].token_ids) \in Nat
      BY <1>1
  <2>4. n \in Int /\ seqs[s].num_computed_tokens + Len(hits) * BlockSize + n =
                         Len(seqs[s].token_ids)
    <3> HIDE DEF hits
    <3>1. QED
        BY <1>1, <2>2, <2>3
  <2> HIDE DEF n
  <2>5. KVInv(kv)'
      BY <1>1, <2>1, <2>4, AllocateSlotsInv
  <2> HIDE DEF hits
  <2>6. \A x \in SeqId : seqs'[x] = IF x = s
            THEN [seqs[s] EXCEPT !.num_computed_tokens = @ + Len(hits) * BlockSize]
            ELSE seqs[x]
      BY <1>1, <2>1
  <2>7. \A x \in SeqId : seqs'[x] \in SeqRecord /\ seqs'[x].token_ids # << >>
      BY <1>1, <2>2, <2>6 DEF SeqRecord
  <2>8. seqs' \in [SeqId -> SeqRecord]
      BY <1>1, <2>1, <2>7
  <2>9. QED
      BY <2>5, <2>7, <2>8 DEF Inv
<1>3. ASSUME NEW s \in SeqId, NEW t \in Token, KVCompute(s, t) PROVE Inv'
  <2>1. /\ kv' = kv
        /\ seqs' = [seqs EXCEPT ![s].num_computed_tokens = Len(seqs[s].token_ids),
                                ![s].token_ids = Append(@, t)]
      BY <1>3 DEF KVCompute
  <2>2. /\ Append(seqs[s].token_ids, t) \in Seq(Token)
        /\ Append(seqs[s].token_ids, t) # << >>
        /\ Len(seqs[s].token_ids) \in Nat
      BY <1>1
  <2>3. \A x \in SeqId : seqs'[x] = IF x = s
            THEN [seqs[s] EXCEPT !.num_computed_tokens = Len(seqs[s].token_ids),
                                 !.token_ids = Append(@, t)]
            ELSE seqs[x]
      BY <1>1, <2>1
  <2>4. \A x \in SeqId : seqs'[x] \in SeqRecord /\ seqs'[x].token_ids # << >>
      BY <1>1, <2>2, <2>3 DEF SeqRecord
  <2>5. seqs' \in [SeqId -> SeqRecord]
      BY <1>1, <2>1, <2>4
  <2>6. QED
      BY <1>1, <2>1, <2>4, <2>5 DEF Inv
<1>4. ASSUME NEW s \in SeqId, NEW more \in {<< >>} \cup {<<t>> : t \in Token},
             KVFree(s, more)
      PROVE  Inv'
  <2>1. /\ Holds(kv, s)
        /\ kv' = Free(kv, s)
        /\ seqs' = [seqs EXCEPT ![s].num_computed_tokens = 0,
                                ![s].token_ids = @ \o more]
      BY <1>4 DEF KVFree
  <2>2. KVInv(kv)'
      BY <1>1, <2>1, FreeInv
  <2>3. more \in Seq(Token)
    <3>1. CASE more = << >>
        BY <3>1
    <3>2. CASE \E t \in Token : more = <<t>>
      <4>1. PICK t \in Token : more = <<t>>
          BY <3>2
      <4>2. QED
          BY <4>1
    <3>3. QED
        BY <3>1, <3>2
  <2>4. seqs[s].token_ids \o more \in Seq(Token) /\ seqs[s].token_ids \o more # << >>
      BY <1>1, <2>3
  <2>5. \A x \in SeqId : seqs'[x] = IF x = s
            THEN [seqs[s] EXCEPT !.num_computed_tokens = 0, !.token_ids = @ \o more]
            ELSE seqs[x]
      BY <1>1, <2>1
  <2>6. \A x \in SeqId : seqs'[x] \in SeqRecord /\ seqs'[x].token_ids # << >>
    <3>1. \A x \in SeqId \ {s} : seqs'[x] = seqs[x]
        BY <2>5
    <3>2. seqs'[s] = [seqs[s] EXCEPT !.num_computed_tokens = 0, !.token_ids = @ \o more]
        BY <2>5
    <3>3. /\ DOMAIN seqs[s] = {"token_ids", "num_computed_tokens"}
          /\ seqs[s] = [f \in {"token_ids", "num_computed_tokens"} |-> seqs[s][f]]
        BY <1>1 DEF SeqRecord
    <3>4. seqs'[s] = [token_ids |-> seqs[s].token_ids \o more, num_computed_tokens |-> 0]
        BY <3>2, <3>3
    <3>5. seqs'[s] \in SeqRecord /\ seqs'[s].token_ids # << >>
        BY <2>4, <3>4 DEF SeqRecord
    <3>6. QED
        BY <1>1, <3>1, <3>5
  <2>7. seqs' \in [SeqId -> SeqRecord]
      BY <1>1, <2>1, <2>6
  <2>8. QED
      BY <2>2, <2>6, <2>7 DEF Inv
<1>5. CASE KVReset
  <2>1. KVInv(kv)'
      BY <1>5, EmptyKVInv DEF KVReset
  <2>2. seqs' = [s \in SeqId |-> [seqs[s] EXCEPT !.num_computed_tokens = 0]]
      BY <1>5 DEF KVReset
  <2>3. \A x \in SeqId : seqs'[x] \in SeqRecord /\ seqs'[x].token_ids # << >>
      BY <1>1, <2>2 DEF SeqRecord
  <2>4. QED
      BY <2>1, <2>2, <2>3 DEF Inv
<1>6. CASE UNCHANGED kvVars
    BY <1>6 DEF Inv, kvVars
<1>7. QED
    BY <1>2, <1>3, <1>4, <1>5, <1>6 DEF KVNext

\* Type correctness of the manager, over any number of allocations, computed
\* tokens, frees, preemptions and resets.
THEOREM KVTypeCorrect == KVSpec => []KVTypeOK
<1>1. Inv => KVTypeOK
    BY DEF Inv, KVInv, KVTypeOK
<1>2. QED
    BY KVInitInv, KVNextInv, <1>1, PTL DEF KVSpec

\* _check_invariants never fails: the free list and the used set partition the
\* pool, counts are holders, and block keys and cache entries are inverse.
THEOREM KVAccounting == KVSpec => []CheckInvariants
<1>1. Inv => CheckInvariants
    BY DEF Inv, KVInv, CheckInvariants
<1>2. QED
    BY KVInitInv, KVNextInv, <1>1, PTL DEF KVSpec

-----------------------------------------------------------------------------
(* Sharing: the books balance, and here they are related to what the       *)
(* blocks stand for.  The inductive invariant.                             *)

\* A block with a key stands in every table that holds it at the place the key
\* says, and the key is the prefix of the sequence that holds it.
KeysNameTheirPlace(k, q) ==
    \A s \in DOMAIN k.request_blocks :
        \A i \in DOMAIN k.request_blocks[s] :
            k.block_keys[k.request_blocks[s][i]] # NoKey =>
                /\ i * BlockSize <= Len(q[s].token_ids)
                /\ k.block_keys[k.request_blocks[s][i]] = BlockKey(q[s], i - 1)

\* Only the prefix cache shares: a block in two tables has a key.
SharedBlocksHaveKeys(k) ==
    \A s, t \in DOMAIN k.request_blocks :
        \A b \in ToSet(k.request_blocks[s]) \cap ToSet(k.request_blocks[t]) :
            s # t => k.block_keys[b] # NoKey

\* Every holder can be given a block of its own, the first it did not hit.
HaveOwnBlocks(k) ==
    \E own \in Injection(DOMAIN k.request_blocks, Block) :
        \A s \in DOMAIN k.request_blocks : own[s] \in ToSet(k.request_blocks[s])

\* A sequence has not computed tokens it does not have, and none at all while
\* it holds no block.
ComputedAreHeld(k, q) ==
    \A s \in SeqId :
        /\ q[s].num_computed_tokens <= Len(q[s].token_ids)
        /\ ~Holds(k, s) => q[s].num_computed_tokens = 0

\* TableCoversTokens and OneWriterPerBlock of a manager and its sequences.
TablesCover(k, q) ==
    \A s \in DOMAIN k.request_blocks :
        /\ q[s].num_computed_tokens <= Len(k.request_blocks[s]) * BlockSize
        /\ Len(k.request_blocks[s]) <= CeilDiv(Len(q[s].token_ids), BlockSize)

OneWriter(k, q) ==
    \A s, t \in DOMAIN k.request_blocks :
        \A i \in DOMAIN k.request_blocks[s], j \in DOMAIN k.request_blocks[t] :
            /\ s # t
            /\ k.request_blocks[s][i] = k.request_blocks[t][j]
            => ~(/\ i * BlockSize > q[s].num_computed_tokens
                 /\ j * BlockSize > q[t].num_computed_tokens)

\* The inductive invariant of a manager k and the sequences q it serves.
Sharing(k, q) ==
    /\ KVInv(k)
    /\ q \in [SeqId -> SeqRecord]
    /\ \A s \in SeqId : q[s].token_ids # << >>
    /\ KeysNameTheirPlace(k, q)
    /\ SharedBlocksHaveKeys(k)
    /\ HaveOwnBlocks(k)
    /\ ComputedAreHeld(k, q)
    /\ TablesCover(k, q)
    /\ OneWriter(k, q)

-----------------------------------------------------------------------------
(* Lemmas about the record.                                                *)

\* The used blocks are the blocks that stand in some table.
LEMMA UsedAreHeld ==
    ASSUME NEW k, KVInv(k), NEW b \in Block
    PROVE  /\ b \in k.used_block_ids <=> b \notin ToSet(k.free_block_ids)
           /\ b \in k.used_block_ids <=>
                  \E s \in DOMAIN k.request_blocks : b \in ToSet(k.request_blocks[s])
<1>1. IsFiniteSet(Holders(k, b))
  <2>1. Holders(k, b) \in SUBSET DOMAIN k.request_blocks
      BY DEF Holders
  <2>2. QED
      BY <2>1, FS_Subset DEF KVInv
<1>2. Holders(k, b) = {} <=> Cardinality(Holders(k, b)) = 0
    BY <1>1, FS_EmptySet
<1>3. b \in ToSet(k.free_block_ids) <=> Holders(k, b) = {}
    BY <1>2 DEF KVInv, RefCountsCountHolders
<1>4. b \in k.used_block_ids <=> b \notin ToSet(k.free_block_ids)
    BY DEF KVInv, FreeAndUsedPartition
<1>5. Holders(k, b) # {} <=>
          \E s \in DOMAIN k.request_blocks : b \in ToSet(k.request_blocks[s])
    BY DEF Holders
<1>6. QED
    BY <1>3, <1>4, <1>5

\* The tables are sequences of blocks without a repeat.
LEMMA TablesAreSequences ==
    ASSUME NEW k, KVInv(k)
    PROVE  /\ DOMAIN k.request_blocks \subseteq SeqId
           /\ \A s \in DOMAIN k.request_blocks :
                  /\ k.request_blocks[s] \in Seq(Block)
                  /\ IsInjective(k.request_blocks[s])
           /\ \A s : BlockTable(k, s) \in Seq(Block)
<1>1. \A s \in DOMAIN k.request_blocks :
          /\ s \in SeqId /\ k.request_blocks[s] \in Seq(Block)
          /\ IsInjective(k.request_blocks[s])
    BY DEF KVInv, KVTypes, PartialFunction, TablesHaveNoRepeat
<1>2. QED
    BY <1>1 DEF BlockTable, Holds

\* What allocate_slots does to the tables and the keys.  The table of s grows
\* by the hits and by popped, blocks nobody holds.  A block that already had a
\* key keeps it, unless it is popped; a block with a new key is one of s that
\* had none, and the key is the prefix of s up to the end of the block.
AllocatedAs(k, k2, s, seq, hits, popped) ==
    LET table == k2.request_blocks[s]
    IN  /\ DOMAIN k2.request_blocks = DOMAIN k.request_blocks \cup {s}
        /\ \A x \in DOMAIN k.request_blocks \ {s} :
               k2.request_blocks[x] = k.request_blocks[x]
        /\ table = (BlockTable(k, s) \o hits) \o popped
        /\ \A b \in ToSet(popped) :
               /\ b \notin ToSet(hits)
               /\ \A x \in DOMAIN k.request_blocks : b \notin ToSet(k.request_blocks[x])
        /\ \A b \in Block \ ToSet(popped) :
               k.block_keys[b] # NoKey => k2.block_keys[b] = k.block_keys[b]
        /\ \A b \in Block :
               \/ k2.block_keys[b] = NoKey
               \/ k.block_keys[b] # NoKey /\ b \notin ToSet(popped)
               \/ \E i \in DOMAIN table :
                      /\ table[i] = b
                      /\ i * BlockSize <= Len(seq.token_ids)
                      /\ k2.block_keys[b] = BlockKey(seq, i - 1)

\* The keys that CacheFullBlocks sets.
LEMMA CacheFullBlocksKeys ==
    ASSUME NEW k, KVInv(k), NEW s \in SeqId, Holds(k, s), NEW seq \in SeqRecord,
           Len(seq.token_ids) \div BlockSize <= Len(k.request_blocks[s])
    PROVE  LET k2 == CacheFullBlocks(k, s, seq, Len(seq.token_ids))
               table == k.request_blocks[s]
           IN  /\ k2.request_blocks = k.request_blocks
               /\ \A b \in Block :
                      k.block_keys[b] # NoKey => k2.block_keys[b] = k.block_keys[b]
               /\ \A b \in Block :
                      \/ k2.block_keys[b] = k.block_keys[b]
                      \/ \E i \in DOMAIN table :
                             /\ table[i] = b
                             /\ i * BlockSize <= Len(seq.token_ids)
                             /\ k2.block_keys[b] = BlockKey(seq, i - 1)
<1> DEFINE N == Len(seq.token_ids)
           numFull == N \div BlockSize
           new == Registrable(k, s, seq, numFull)
           table == k.request_blocks[s]
           k2 == CacheFullBlocks(k, s, seq, N)
<1>1. BlockSize \in Nat \ {0} /\ N \in Nat
    BY BlockSizeAssumption DEF SeqRecord
<1>2. numFull \in Nat /\ numFull * BlockSize <= N /\ numFull * BlockSize \in Nat
  <2>1. numFull \in Nat /\ numFull * BlockSize <= N
      BY <1>1, DivTimes
  <2> HIDE DEF numFull
  <2>2. QED
      BY <1>1, <2>1
<1>3. /\ k2.request_blocks = k.request_blocks
      /\ k2.block_keys = [b \in Block |->
             IF \E i \in new : table[i + 1] = b
             THEN BlockKey(seq, CHOOSE i \in new : table[i + 1] = b)
             ELSE k.block_keys[b]]
    BY DEF CacheFullBlocks, KVInv, KVTypes, KVFields
<1>4. table \in Seq(Block)
    BY TablesAreSequences DEF Holds
<1>5. \A i \in new : k.block_keys[table[i + 1]] = NoKey
    BY DEF Registrable
<1>6. \A i \in new : i \in Nat /\ i + 1 <= numFull
  <2>1. NumRegistered(k, s) \in Nat
      BY DEF NumRegistered, KVInv, KVTypes, PartialFunction
  <2>2. QED
      BY <1>2, <2>1 DEF Registrable
<1> HIDE DEF new, table, k2, N, numFull
<1>7. \A i \in new : i + 1 \in DOMAIN table /\ (i + 1) * BlockSize <= N
  <2>1. TAKE i \in new
  <2>2. (i + 1) * BlockSize <= numFull * BlockSize
      BY <1>1, <1>2, <1>6, TimesMonotone
  <2>3. (i + 1) * BlockSize \in Nat
      BY <1>1, <1>6
  <2>4. numFull <= Len(table)
      BY DEF numFull, table, N
  <2>5. i + 1 \in DOMAIN table
      BY <1>2, <1>4, <1>6, <2>4
  <2>6. QED
      BY <1>1, <1>2, <2>2, <2>3, <2>5
<1>8. ASSUME NEW b \in Block
      PROVE  /\ k.block_keys[b] # NoKey => k2.block_keys[b] = k.block_keys[b]
             /\ \/ k2.block_keys[b] = k.block_keys[b]
                \/ \E i \in DOMAIN table :
                       /\ table[i] = b
                       /\ i * BlockSize <= N
                       /\ k2.block_keys[b] = BlockKey(seq, i - 1)
  <2>1. CASE \E i \in new : table[i + 1] = b
    <3>1. PICK i \in new : table[i + 1] = b /\ k2.block_keys[b] = BlockKey(seq, i)
        BY <1>3, <2>1
    <3>2. BlockKey(seq, (i + 1) - 1) = BlockKey(seq, i)
      <4>1. (i + 1) - 1 = i
          BY <1>6
      <4>2. QED
          BY <4>1
    <3>3. \E j \in DOMAIN table : /\ table[j] = b
                                  /\ j * BlockSize <= N
                                  /\ k2.block_keys[b] = BlockKey(seq, j - 1)
        BY <1>7, <3>1, <3>2
    <3>4. QED
        BY <1>5, <3>1, <3>3
  <2>2. CASE ~ \E i \in new : table[i + 1] = b
      BY <1>3, <2>2
  <2>3. QED
      BY <2>1, <2>2
<1>9. QED
    BY <1>3, <1>8 DEF table, k2, N

\* The table of s grows as AllocatedAs says, up to the blocks its tokens need,
\* by free blocks unless it holds that many already.
ExtendsItsTable(k, s, seq, n, hits) ==
    LET k2   == AllocateSlots(k, s, seq, n, hits)
        held == Len(BlockTable(k, s)) + Len(hits)
        need == CeilDiv(Len(seq.token_ids), BlockSize)
    IN  /\ \E popped \in Seq(Block) :
               /\ AllocatedAs(k, k2, s, seq, hits, popped)
               /\ popped = << >> => need <= held
        /\ held \in Nat /\ need \in Nat
        /\ Len(k2.request_blocks[s]) = IF need > held THEN need ELSE held

\* allocate_slots, for all the tokens seq has not computed.
LEMMA AllocateSlotsTables ==
    ASSUME NEW k, KVInv(k), NEW s \in SeqId, NEW seq \in SeqRecord,
           seq.token_ids # << >>, NEW hits, NEW n \in Int,
           hits = GetComputedBlocks(k, s, seq),
           seq.num_computed_tokens + Len(hits) * BlockSize + n = Len(seq.token_ids),
           CanAllocate(k, s, seq, n, hits)
    PROVE  ExtendsItsTable(k, s, seq, n, hits)
<1> DEFINE N == Len(seq.token_ids)
           held == Len(BlockTable(k, s)) + Len(hits)
           need == CeilDiv(N, BlockSize)
           needed == NumBlocksNeeded(k, s, seq, n, hits)
           acquired == AcquireHits(k, s, hits)
           allocated == PopFreeBlocks(acquired, s, needed)
           popped == SubSeq(acquired.free_block_ids, 1, needed)
           k2 == AllocateSlots(k, s, seq, n, hits)
           table == k2.request_blocks[s]
<1>1. /\ KVInv(acquired)
      /\ BlockTable(acquired, s) = BlockTable(k, s) \o hits
      /\ held \in Nat
      /\ needed \in 0 .. Len(acquired.free_block_ids)
      /\ need \in Nat
      /\ needed = IF need > held THEN need - held ELSE 0
      /\ KVInv(allocated) /\ Holds(allocated, s)
      /\ Len(allocated.request_blocks[s]) = held + needed
      /\ N \div BlockSize <= Len(allocated.request_blocks[s])
      /\ k2 = IF EnablePrefixCaching THEN CacheFullBlocks(allocated, s, seq, N)
              ELSE allocated
  <2>1. AllocatesInParts(k, s, seq, n, hits)
      BY AllocateSlotsParts
  <2>2. QED
      BY <2>1 DEF AllocatesInParts
<1>2. hits \in Seq(Block)
    BY HitsProperties
<1>3. /\ acquired.request_blocks = WithTable(k, s, BlockTable(k, s) \o hits)
      /\ acquired.block_keys = k.block_keys
    BY DEF AcquireHits, KVInv, KVTypes, KVFields
<1> HIDE DEF acquired, needed
<1>4. /\ allocated.request_blocks =
             WithTable(acquired, s, BlockTable(acquired, s) \o popped)
      /\ allocated.block_keys = [b \in Block |->
             IF b \in ToSet(popped) THEN NoKey ELSE acquired.block_keys[b]]
    BY <1>1 DEF PopFreeBlocks, Extend, KVInv, KVTypes, KVFields
<1> HIDE DEF allocated
<1>5. /\ k2.request_blocks = allocated.request_blocks
      /\ \A b \in Block : allocated.block_keys[b] # NoKey =>
             k2.block_keys[b] = allocated.block_keys[b]
      /\ \A b \in Block :
             \/ k2.block_keys[b] = allocated.block_keys[b]
             \/ \E i \in DOMAIN table : /\ table[i] = b
                                        /\ i * BlockSize <= N
                                        /\ k2.block_keys[b] = BlockKey(seq, i - 1)
  <2>1. CASE EnablePrefixCaching
    <3>1. k2 = CacheFullBlocks(allocated, s, seq, N)
        BY <1>1, <2>1
    <3>2. /\ KVInv(allocated) /\ Holds(allocated, s)
          /\ Len(seq.token_ids) \div BlockSize <= Len(allocated.request_blocks[s])
        BY <1>1
    <3> HIDE DEF k2
    <3>3. /\ k2.request_blocks = allocated.request_blocks
          /\ \A b \in Block :
                 allocated.block_keys[b] # NoKey =>
                     k2.block_keys[b] = allocated.block_keys[b]
          /\ \A b \in Block :
                 \/ k2.block_keys[b] = allocated.block_keys[b]
                 \/ \E i \in DOMAIN allocated.request_blocks[s] :
                        /\ allocated.request_blocks[s][i] = b
                        /\ i * BlockSize <= Len(seq.token_ids)
                        /\ k2.block_keys[b] = BlockKey(seq, i - 1)
        BY <3>1, <3>2, CacheFullBlocksKeys
    <3>4. QED
        BY <3>3
  <2>2. CASE ~EnablePrefixCaching
      BY <1>1, <2>2
  <2>3. QED
      BY <2>1, <2>2
<1> HIDE DEF k2
<1>6. /\ popped \in Seq(Block) /\ Len(popped) = needed
      /\ ToSet(popped) \subseteq ToSet(acquired.free_block_ids)
  <2> DEFINE free == acquired.free_block_ids
  <2>1. free \in Seq(Block) /\ needed \in 0 .. Len(free)
      BY <1>1 DEF KVInv, KVTypes
  <2> HIDE DEF free
  <2>2. LET front == SubSeq(free, 1, needed)
        IN  /\ front \in Seq(Block) /\ Len(front) = needed
            /\ ToSet(front) \subseteq ToSet(free)
      BY <2>1, SplitDistinct
  <2>3. QED
      BY <2>2 DEF free
<1>7. ToSet(popped) \subseteq Block
    BY <1>6 DEF ToSet
<1>8. DOMAIN acquired.request_blocks = DOMAIN k.request_blocks \cup {s}
    BY <1>3 DEF WithTable
<1>9. \A b \in ToSet(popped) : \A x \in DOMAIN acquired.request_blocks :
          b \notin ToSet(acquired.request_blocks[x])
    BY <1>1, <1>6, <1>7, UsedAreHeld
<1>10. /\ \A x \in DOMAIN k.request_blocks \ {s} :
              acquired.request_blocks[x] = k.request_blocks[x]
       /\ acquired.request_blocks[s] = BlockTable(k, s) \o hits
    BY <1>3 DEF WithTable
<1>11. ToSet(BlockTable(k, s) \o hits) = ToSet(BlockTable(k, s)) \cup ToSet(hits)
    BY <1>2, TablesAreSequences, ConcatDistinct
<1>12. s \in DOMAIN k.request_blocks => BlockTable(k, s) = k.request_blocks[s]
    BY DEF BlockTable, Holds
<1> HIDE DEF popped
<1>13. \A b \in ToSet(popped) :
           /\ b \notin ToSet(hits)
           /\ \A x \in DOMAIN k.request_blocks : b \notin ToSet(k.request_blocks[x])
    BY <1>8, <1>9, <1>10, <1>11, <1>12
<1>14. /\ DOMAIN k2.request_blocks = DOMAIN k.request_blocks \cup {s}
       /\ \A x \in DOMAIN k.request_blocks \ {s} :
              k2.request_blocks[x] = k.request_blocks[x]
       /\ table = (BlockTable(k, s) \o hits) \o popped
  <2>1. /\ DOMAIN k2.request_blocks = DOMAIN acquired.request_blocks \cup {s}
        /\ \A x \in DOMAIN acquired.request_blocks \ {s} :
               k2.request_blocks[x] = acquired.request_blocks[x]
        /\ k2.request_blocks[s] = BlockTable(acquired, s) \o popped
      BY <1>4, <1>5 DEF WithTable
  <2>2. QED
      BY <1>1, <1>8, <1>10, <2>1
<1>15. \A b \in Block \ ToSet(popped) :
           k.block_keys[b] # NoKey => k2.block_keys[b] = k.block_keys[b]
    BY <1>3, <1>4, <1>5
<1>16. ASSUME NEW b \in Block, k2.block_keys[b] # NoKey,
              ~(k.block_keys[b] # NoKey /\ b \notin ToSet(popped))
       PROVE  \E i \in DOMAIN table : /\ table[i] = b
                                      /\ i * BlockSize <= N
                                      /\ k2.block_keys[b] = BlockKey(seq, i - 1)
  <2>1. allocated.block_keys[b] = NoKey
      BY <1>3, <1>4, <1>16
  <2>2. QED
      BY <1>5, <1>16, <2>1
<1>17. AllocatedAs(k, k2, s, seq, hits, popped)
    BY <1>13, <1>14, <1>15, <1>16 DEF AllocatedAs
<1>18. popped = << >> => need <= held
    BY <1>1, <1>6
<1>19. Len(table) = IF need > held THEN need ELSE held
    BY <1>1, <1>5
<1>20. QED
    BY <1>1, <1>6, <1>17, <1>18, <1>19 DEF ExtendsItsTable, k2, need, held, N

\* Where the i-th entry of a table comes from after an allocation.
LEMMA TableParts ==
    ASSUME NEW T, NEW old \in Seq(T), NEW hits \in Seq(T), NEW popped \in Seq(T),
           old = << >> \/ hits = << >>,
           NEW i \in DOMAIN ((old \o hits) \o popped)
    PROVE  LET table == (old \o hits) \o popped
           IN  \/ i \in DOMAIN old /\ table[i] = old[i]
               \/ i \in 1 .. Len(hits) /\ table[i] = hits[i]
               \/ table[i] \in ToSet(popped)
<1> DEFINE u == old \o hits
<1>1. /\ u \in Seq(T)
      /\ Len(u) = Len(old) + Len(hits)
      /\ \A j \in 1 .. Len(u) :
             IF j <= Len(old) THEN u[j] = old[j] ELSE u[j] = hits[j - Len(old)]
    OBVIOUS
<1> HIDE DEF u
<1>2. /\ i \in 1 .. Len(u) + Len(popped)
      /\ IF i <= Len(u) THEN (u \o popped)[i] = u[i]
         ELSE (u \o popped)[i] = popped[i - Len(u)]
    BY <1>1 DEF u
<1>3. CASE i > Len(u)
  <2>1. i - Len(u) \in DOMAIN popped
      BY <1>1, <1>2, <1>3
  <2>2. QED
      BY <1>2, <1>3, <2>1 DEF ToSet, u
<1>4. CASE i <= Len(u)
  <2>1. (u \o popped)[i] = u[i] /\ i \in 1 .. Len(u)
      BY <1>1, <1>2, <1>4
  <2>2. CASE hits = << >>
      BY <1>1, <2>1, <2>2 DEF u
  <2>3. CASE old = << >>
    <3>1. Len(old) = 0 /\ i - Len(old) = i
        BY <2>1, <2>3
    <3>2. u[i] = hits[i] /\ i \in 1 .. Len(hits)
        BY <1>1, <2>1, <3>1
    <3>3. QED
        BY <2>1, <3>2 DEF u
  <2>4. QED
      BY <2>2, <2>3
<1>5. QED
    BY <1>1, <1>2, <1>3, <1>4

\* CeilDiv(n, d) is the least number of blocks of size d that hold n tokens.
LEMMA CeilCovers ==
    ASSUME NEW n \in Nat, NEW d \in Nat \ {0}
    PROVE  /\ CeilDiv(n, d) \in Nat
           /\ n <= CeilDiv(n, d) * d
           /\ \A m \in Nat : n <= m * d => CeilDiv(n, d) <= m
           /\ \A m \in Nat : n <= m => CeilDiv(n, d) <= CeilDiv(m, d)
BY QuotientRoundedUp DEF CeilDiv, RoundedUp

-----------------------------------------------------------------------------
(* The steps.                                                              *)

\* A legal call of allocate_slots, for every token q[s] has not computed, after
\* can_allocate has said yes: what scheduler.py does in both its loops.
LegalAllocation(k, q, s, n, hits) ==
    /\ hits = GetComputedBlocks(k, s, q[s])
    /\ n = Len(q[s].token_ids) - q[s].num_computed_tokens - Len(hits) * BlockSize
    /\ CanAllocate(k, s, q[s], n, hits)

LEMMA LegalAllocationTables ==
    ASSUME NEW k, KVInv(k), NEW q \in [SeqId -> SeqRecord], NEW s \in SeqId,
           q[s].token_ids # << >>, NEW n, NEW hits, LegalAllocation(k, q, s, n, hits)
    PROVE  /\ KVInv(AllocateSlots(k, s, q[s], n, hits))
           /\ ExtendsItsTable(k, s, q[s], n, hits)
<1> DEFINE seq == q[s]
<1>1. /\ seq \in SeqRecord /\ seq.token_ids # << >>
      /\ Len(seq.token_ids) \in Nat /\ seq.num_computed_tokens \in Nat
    BY DEF SeqRecord
<1>2. /\ hits = GetComputedBlocks(k, s, seq)
      /\ n = Len(seq.token_ids) - seq.num_computed_tokens - Len(hits) * BlockSize
      /\ CanAllocate(k, s, seq, n, hits)
    BY DEF LegalAllocation
<1>3. Len(hits) * BlockSize \in Nat
    BY <1>1, <1>2, HitsProperties
<1> HIDE DEF seq
<1>4. n \in Int /\ seq.num_computed_tokens + Len(hits) * BlockSize + n = Len(seq.token_ids)
    BY <1>1, <1>2, <1>3
<1>5. /\ KVInv(AllocateSlots(k, s, seq, n, hits))
      /\ ExtendsItsTable(k, s, seq, n, hits)
    BY <1>1, <1>2, <1>4, AllocateSlotsInv, AllocateSlotsTables
<1>6. QED
    BY <1>5 DEF seq

\* An admission or a running sequence that grows.
LEMMA AllocateKeepsSharing ==
    ASSUME NEW k, NEW q, Sharing(k, q), NEW s \in SeqId, NEW n, NEW hits,
           LegalAllocation(k, q, s, n, hits)
    PROVE  Sharing(AllocateSlots(k, s, q[s], n, hits),
                   [q EXCEPT ![s].num_computed_tokens = @ + Len(hits) * BlockSize])
<1> DEFINE seq == q[s]
           old == BlockTable(k, s)
           k2 == AllocateSlots(k, s, seq, n, hits)
           q2 == [q EXCEPT ![s].num_computed_tokens = @ + Len(hits) * BlockSize]
           r == k.request_blocks
           r2 == k2.request_blocks
           table == r2[s]
           need == CeilDiv(Len(seq.token_ids), BlockSize)
<1>1. /\ KVInv(k)
      /\ q \in [SeqId -> SeqRecord]
      /\ \A x \in SeqId : /\ q[x] \in SeqRecord
                          /\ q[x].token_ids \in Seq(Token)
                          /\ q[x].token_ids # << >>
                          /\ q[x].num_computed_tokens \in Nat
                          /\ Len(q[x].token_ids) \in Nat
    BY DEF Sharing, SeqRecord
<1>2. hits = GetComputedBlocks(k, s, seq)
    BY DEF LegalAllocation
<1>3. /\ hits \in Seq(Block)
      /\ Len(hits) * BlockSize \in Nat /\ Len(hits) * BlockSize < Len(seq.token_ids)
      /\ hits # << >> => ~Holds(k, s)
      /\ \A i \in 1 .. Len(hits) :
             /\ i * BlockSize <= Len(seq.token_ids)
             /\ k.block_keys[hits[i]] = BlockKey(seq, i - 1)
             /\ k.block_keys[hits[i]] # NoKey
  <2>1. /\ hits \in Seq(Block)
        /\ Len(hits) * BlockSize \in Nat /\ Len(hits) * BlockSize < Len(seq.token_ids)
        /\ hits # << >> => ~Holds(k, s)
        /\ \A i \in 1 .. Len(hits) :
               /\ i * BlockSize <= Len(seq.token_ids)
               /\ k.block_keys[hits[i]] = BlockKey(seq, i - 1)
      BY <1>1, <1>2, HitsProperties
  <2>2. ASSUME NEW i \in 1 .. Len(hits) PROVE BlockKey(seq, i - 1) # NoKey
    <3>1. i - 1 \in Nat /\ i - 1 + 1 = i
        BY <2>1
    <3>2. (i - 1 + 1) * BlockSize <= Len(seq.token_ids)
        BY <2>1, <3>1
    <3>3. QED
        BY <1>1, <3>1, <3>2, BlockKeysDiffer
  <2>3. QED
      BY <2>1, <2>2
<1>4. KVInv(k2) /\ ExtendsItsTable(k, s, seq, n, hits)
    BY <1>1, LegalAllocationTables
<1>5. PICK popped \in Seq(Block) :
          /\ AllocatedAs(k, k2, s, seq, hits, popped)
          /\ popped = << >> => need <= Len(old) + Len(hits)
    BY <1>4 DEF ExtendsItsTable
<1>6. /\ need \in Nat
      /\ Len(table) = IF need > Len(old) + Len(hits) THEN need
                      ELSE Len(old) + Len(hits)
    BY <1>4 DEF ExtendsItsTable
<1> HIDE DEF need, k2
<1>7. /\ DOMAIN r2 = DOMAIN r \cup {s}
      /\ \A x \in DOMAIN r \ {s} : r2[x] = r[x]
      /\ table = (old \o hits) \o popped
      /\ \A b \in ToSet(popped) :
             b \notin ToSet(hits) /\ \A x \in DOMAIN r : b \notin ToSet(r[x])
      /\ \A b \in Block \ ToSet(popped) :
             k.block_keys[b] # NoKey => k2.block_keys[b] = k.block_keys[b]
      /\ \A b \in Block :
             \/ k2.block_keys[b] = NoKey
             \/ k.block_keys[b] # NoKey /\ b \notin ToSet(popped)
             \/ \E i \in DOMAIN table :
                    /\ table[i] = b
                    /\ i * BlockSize <= Len(seq.token_ids)
                    /\ k2.block_keys[b] = BlockKey(seq, i - 1)
    BY <1>5 DEF AllocatedAs
<1>8. /\ \A x \in SeqId : q2[x].token_ids = q[x].token_ids
      /\ \A x \in SeqId \ {s} : q2[x].num_computed_tokens = q[x].num_computed_tokens
      /\ q2[s].num_computed_tokens = seq.num_computed_tokens + Len(hits) * BlockSize
      /\ q2 \in [SeqId -> SeqRecord]
    BY <1>1, <1>3 DEF SeqRecord
<1> HIDE DEF q2
<1>9. /\ \A x \in DOMAIN r2 : r2[x] \in Seq(Block) /\ IsInjective(r2[x]) /\ x \in SeqId
      /\ \A x \in DOMAIN r : r[x] \in Seq(Block)
      /\ old \in Seq(Block)
      /\ IF s \in DOMAIN r THEN old = r[s] /\ hits = << >> ELSE old = << >>
  <2>1. IF s \in DOMAIN r THEN old = r[s] /\ hits = << >> ELSE old = << >>
      BY <1>3 DEF BlockTable, Holds
  <2>2. KVInv(k2)
      BY <1>4
  <2>3. \A x \in DOMAIN r2 : r2[x] \in Seq(Block) /\ IsInjective(r2[x]) /\ x \in SeqId
      BY <2>2, TablesAreSequences
  <2>4. /\ \A x \in DOMAIN r : r[x] \in Seq(Block)
        /\ old \in Seq(Block)
      BY <1>1, TablesAreSequences
  <2>5. QED
      BY <2>1, <2>3, <2>4
<1>10. \A i \in DOMAIN table :
           \/ s \in DOMAIN r /\ hits = << >> /\ i \in DOMAIN r[s] /\ table[i] = r[s][i]
           \/ s \notin DOMAIN r /\ i \in 1 .. Len(hits) /\ table[i] = hits[i]
           \/ table[i] \in ToSet(popped)
  <2>1. \A i \in DOMAIN table :
            \/ i \in DOMAIN old /\ table[i] = old[i]
            \/ i \in 1 .. Len(hits) /\ table[i] = hits[i]
            \/ table[i] \in ToSet(popped)
    <3>1. /\ old \in Seq(Block) /\ hits \in Seq(Block)
          /\ old = << >> \/ hits = << >>
        BY <1>3, <1>9
    <3>2. table = (old \o hits) \o popped
        BY <1>7
    <3> HIDE DEF old, table
    <3>3. QED
        BY <3>1, <3>2, TableParts
  <2>2. QED
      BY <1>9, <2>1
<1> HIDE DEF old, table
\* A block of s that some other sequence holds has had a key all along.
<1>11. ASSUME NEW z \in DOMAIN r \ {s}, NEW i \in DOMAIN table, table[i] \in ToSet(r[z])
       PROVE  /\ table[i] \notin ToSet(popped)
              /\ k.block_keys[table[i]] # NoKey
  <2>1. table[i] \notin ToSet(popped)
      BY <1>7, <1>11
  <2>2. CASE s \in DOMAIN r /\ i \in DOMAIN r[s] /\ table[i] = r[s][i]
    <3>1. table[i] \in ToSet(r[s]) \cap ToSet(r[z])
        BY <1>11, <2>2 DEF ToSet
    <3>2. QED
        BY <2>1, <2>2, <3>1 DEF Sharing, SharedBlocksHaveKeys
  <2>3. CASE i \in 1 .. Len(hits) /\ table[i] = hits[i]
      BY <1>3, <2>1, <2>3
  <2>4. QED
      BY <1>10, <2>1, <2>2, <2>3
<1>12. KeysNameTheirPlace(k2, q2)
  <2>1. SUFFICES ASSUME NEW x \in DOMAIN r2, NEW i \in DOMAIN r2[x],
                        k2.block_keys[r2[x][i]] # NoKey
                 PROVE  /\ i * BlockSize <= Len(q[x].token_ids)
                        /\ k2.block_keys[r2[x][i]] = BlockKey(q[x], i - 1)
      BY <1>8, <1>9 DEF KeysNameTheirPlace, BlockKey
  <2> DEFINE b == r2[x][i]
  <2>2. b \in Block
      BY <1>9
  <2>3. x \in DOMAIN r \ {s} => r2[x] = r[x] /\ b \in ToSet(r[x]) /\ b \notin ToSet(popped)
    <3>1. ASSUME x \in DOMAIN r \ {s} PROVE r2[x] = r[x] /\ b \in ToSet(r[x])
        BY <1>7, <3>1 DEF ToSet
    <3>2. QED
        BY <1>7, <3>1
  <2>4. CASE k.block_keys[b] # NoKey /\ b \notin ToSet(popped)
    <3>1. k2.block_keys[b] = k.block_keys[b]
        BY <1>7, <2>2, <2>4
    <3>2. CASE x \in DOMAIN r /\ i \in DOMAIN r[x] /\ b = r[x][i]
        BY <2>4, <3>1, <3>2 DEF Sharing, KeysNameTheirPlace
    <3>3. CASE x = s /\ i \in 1 .. Len(hits) /\ b = hits[i]
        BY <1>3, <3>1, <3>3
    <3>4. CASE x = s
        BY <1>10, <2>4, <3>2, <3>3, <3>4 DEF table
    <3>5. QED
        BY <1>7, <2>3, <3>2, <3>4
  <2>5. CASE ~(k.block_keys[b] # NoKey /\ b \notin ToSet(popped))
    <3>1. PICK j \in DOMAIN table : /\ table[j] = b
                                    /\ j * BlockSize <= Len(seq.token_ids)
                                    /\ k2.block_keys[b] = BlockKey(seq, j - 1)
        BY <1>7, <2>1, <2>2, <2>5
    <3>2. ASSUME x # s PROVE FALSE
      <4>1. x \in DOMAIN r \ {s}
          BY <1>7, <3>2
      <4>2. table[j] \in ToSet(r[x])
          BY <2>3, <3>1, <4>1
      <4>3. QED
          BY <1>11, <2>5, <3>1, <4>1, <4>2
    <3>3. j = i
        BY <1>9, <3>1, <3>2 DEF IsInjective, table
    <3>4. QED
        BY <3>1, <3>2, <3>3
  <2>6. QED
      BY <2>4, <2>5
<1>13. SharedBlocksHaveKeys(k2)
  <2>1. \A b \in Block \ ToSet(popped) :
            k.block_keys[b] # NoKey => k2.block_keys[b] # NoKey
      BY <1>7
  <2>2. ASSUME NEW z \in DOMAIN r \ {s}, NEW b \in ToSet(table) \cap ToSet(r[z])
        PROVE  k2.block_keys[b] # NoKey
    <3>1. PICK i \in DOMAIN table : table[i] = b
        BY DEF ToSet
    <3>2. b \in Block
        BY <1>9 DEF ToSet
    <3>3. QED
        BY <1>11, <2>1, <3>1, <3>2
  <2>3. ASSUME NEW x \in DOMAIN r \ {s}, NEW z \in DOMAIN r \ {s}, x # z,
               NEW b \in ToSet(r[x]) \cap ToSet(r[z])
        PROVE  k2.block_keys[b] # NoKey
    <3>1. b \in Block
        BY <1>9 DEF ToSet
    <3>2. k.block_keys[b] # NoKey
        BY <2>3 DEF Sharing, SharedBlocksHaveKeys
    <3>3. QED
        BY <1>7, <2>1, <3>1, <3>2
  <2>4. SUFFICES ASSUME NEW x \in DOMAIN r2, NEW z \in DOMAIN r2, x # z,
                        NEW b \in ToSet(r2[x]) \cap ToSet(r2[z])
                 PROVE  k2.block_keys[b] # NoKey
      BY DEF SharedBlocksHaveKeys
  <2>5. CASE x = s
    <3>1. z \in DOMAIN r \ {s} /\ b \in ToSet(table) \cap ToSet(r[z])
        BY <1>7, <2>4, <2>5 DEF table
    <3>2. QED
        BY <2>2, <3>1
  <2>6. CASE z = s
    <3>1. x \in DOMAIN r \ {s} /\ b \in ToSet(table) \cap ToSet(r[x])
        BY <1>7, <2>4, <2>6 DEF table
    <3>2. QED
        BY <2>2, <3>1
  <2>7. CASE x # s /\ z # s
    <3>1. /\ x \in DOMAIN r \ {s} /\ z \in DOMAIN r \ {s}
          /\ b \in ToSet(r[x]) \cap ToSet(r[z])
        BY <1>7, <2>4, <2>7
    <3>2. QED
        BY <2>3, <2>4, <3>1
  <2>8. QED
      BY <2>5, <2>6, <2>7
<1>14. Len(table) \in Nat /\ Len(seq.token_ids) <= need * BlockSize
       /\ need * BlockSize <= Len(table) * BlockSize
       /\ need * BlockSize \in Nat /\ Len(table) * BlockSize \in Nat
  <2>1. BlockSize \in Nat \ {0}
      BY BlockSizeAssumption
  <2>2. Len(seq.token_ids) <= need * BlockSize
      BY <1>1, <2>1, CeilCovers DEF need
  <2>3. Len(old) \in Nat /\ Len(hits) \in Nat
      BY <1>3, <1>9
  <2>4. Len(table) \in Nat /\ need <= Len(table)
      BY <1>6, <2>3 DEF table, old
  <2>5. QED
      BY <1>6, <2>1, <2>2, <2>4, TimesMonotone
<1>15. s \notin DOMAIN r => Len(hits) < need /\ old = << >>
  <2>1. SUFFICES ASSUME s \notin DOMAIN r, need <= Len(hits) PROVE FALSE
      BY <1>3, <1>6, <1>9
  <2>2. need \in Nat /\ Len(hits) \in Nat /\ BlockSize \in Nat
      BY <1>3, <1>6, BlockSizeAssumption
  <2>3. need * BlockSize <= Len(hits) * BlockSize
      BY <2>1, <2>2, TimesMonotone
  <2>4. QED
      BY <1>1, <1>3, <1>14, <2>3
<1>16. HaveOwnBlocks(k2)
  <2>1. PICK own \in Injection(DOMAIN r, Block) :
            \A x \in DOMAIN r : own[x] \in ToSet(r[x])
      BY DEF Sharing, HaveOwnBlocks
  <2>2. CASE s \in DOMAIN r
    <3>1. table = (r[s] \o << >>) \o popped
        BY <1>7, <1>9, <2>2 DEF table, old
    <3>2. ToSet(r[s]) \subseteq ToSet(table)
        BY <1>9, <2>2, <3>1, ConcatDistinct
    <3>3. \A x \in DOMAIN r2 : own[x] \in ToSet(r2[x])
        BY <1>7, <2>1, <2>2, <3>2 DEF table
    <3>4. DOMAIN r2 = DOMAIN r
        BY <1>7, <2>2
    <3>5. QED
        BY <2>1, <3>3, <3>4 DEF HaveOwnBlocks
  <2>3. CASE s \notin DOMAIN r
    <3>1. popped # << >>
        BY <1>3, <1>5, <1>6, <1>15, <2>3 DEF old
    <3>2. popped[1] \in Block /\ popped[1] \in ToSet(popped)
        BY <3>1 DEF ToSet
    <3>3. popped[1] \in ToSet(table)
      <4> DEFINE front == old \o hits
      <4>1. front \in Seq(Block) /\ table = front \o popped
          BY <1>3, <1>7, <1>9 DEF table, old
      <4> HIDE DEF front
      <4>2. ToSet(popped) \subseteq ToSet(front \o popped)
          BY <4>1, ConcatDistinct
      <4>3. QED
          BY <3>2, <4>1, <4>2
    <3> DEFINE own2 == [x \in DOMAIN r2 |-> IF x = s THEN popped[1] ELSE own[x]]
    <3>4. \A x \in DOMAIN r : own[x] \in Block /\ own[x] # popped[1]
        BY <1>7, <2>1, <3>2 DEF Injection
    <3>5. own2 \in Injection(DOMAIN r2, Block)
        BY <1>7, <2>1, <2>3, <3>2, <3>4 DEF Injection, IsInjective
    <3>6. \A x \in DOMAIN r2 : own2[x] \in ToSet(r2[x])
        BY <1>7, <2>1, <2>3, <3>3 DEF table
    <3>7. QED
        BY <3>5, <3>6 DEF HaveOwnBlocks
  <2>4. QED
      BY <2>2, <2>3
<1>17. ComputedAreHeld(k2, q2)
  <2>1. \A x \in SeqId \ {s} : Holds(k2, x) <=> Holds(k, x)
      BY <1>7 DEF Holds
  <2>2. Holds(k2, s)
      BY <1>7 DEF Holds
  <2>3. q2[s].num_computed_tokens <= Len(seq.token_ids)
    <3>1. CASE s \in DOMAIN r
      <4>1. Len(hits) * BlockSize = 0
          BY <1>9, <3>1, BlockSizeAssumption
      <4>2. QED
          BY <1>1, <1>8, <4>1 DEF Sharing, ComputedAreHeld
    <3>2. CASE s \notin DOMAIN r
      <4>1. seq.num_computed_tokens = 0
          BY <3>2 DEF Sharing, ComputedAreHeld, Holds
      <4>2. QED
          BY <1>1, <1>3, <1>8, <4>1
    <3>3. QED
        BY <3>1, <3>2
  <2>4. QED
      BY <1>8, <2>1, <2>2, <2>3 DEF Sharing, ComputedAreHeld
<1>18. TablesCover(k2, q2)
  <2>1. \A x \in DOMAIN r \ {s} :
            /\ q2[x].num_computed_tokens <= Len(r2[x]) * BlockSize
            /\ Len(r2[x]) <= CeilDiv(Len(q2[x].token_ids), BlockSize)
      BY <1>7, <1>8, <1>9 DEF Sharing, TablesCover
  <2>2. q2[s].num_computed_tokens <= Len(table) * BlockSize
    <3>1. q2[s].num_computed_tokens <= Len(seq.token_ids)
        BY <1>8, <1>17 DEF ComputedAreHeld
    <3>2. q2[s].num_computed_tokens \in Nat
        BY <1>1, <1>3, <1>8
    <3>3. QED
        BY <1>1, <1>14, <3>1, <3>2
  <2>3. Len(table) <= need
    <3>1. CASE s \in DOMAIN r
      <4>1. Len(old) <= need /\ Len(hits) = 0
          BY <1>9, <3>1 DEF Sharing, TablesCover, need
      <4>2. QED
          BY <1>6, <1>9, <4>1 DEF table, old
    <3>2. CASE s \notin DOMAIN r
        BY <1>3, <1>6, <1>15, <3>2 DEF table, old
    <3>3. QED
        BY <3>1, <3>2
  <2>4. QED
      BY <1>7, <1>8, <2>1, <2>2, <2>3 DEF TablesCover, table, need
<1>19. OneWriter(k2, q2)
  <2>1. ASSUME NEW z \in DOMAIN r \ {s}, NEW i \in DOMAIN table, NEW j \in DOMAIN r[z],
               table[i] = r[z][j]
        PROVE  ~(/\ i * BlockSize > q2[s].num_computed_tokens
                 /\ j * BlockSize > q2[z].num_computed_tokens)
    <3>1. table[i] \notin ToSet(popped)
      <4>1. table[i] \in ToSet(r[z])
          BY <2>1 DEF ToSet
      <4>2. QED
          BY <1>11, <4>1
    <3>2. z \in SeqId /\ q2[z].num_computed_tokens = q[z].num_computed_tokens
        BY <1>7, <1>8, <1>9
    <3>3. CASE s \in DOMAIN r /\ hits = << >> /\ i \in DOMAIN r[s] /\ table[i] = r[s][i]
      <4>1. q2[s].num_computed_tokens = seq.num_computed_tokens
          BY <1>1, <1>8, <3>3, BlockSizeAssumption
      <4>2. ~(/\ i * BlockSize > seq.num_computed_tokens
              /\ j * BlockSize > q[z].num_computed_tokens)
          BY <2>1, <3>3 DEF Sharing, OneWriter
      <4>3. QED
          BY <3>2, <4>1, <4>2
    <3>4. CASE s \notin DOMAIN r /\ i \in 1 .. Len(hits)
      <4>1. i * BlockSize <= Len(hits) * BlockSize /\ i * BlockSize \in Nat
          BY <1>3, <3>4, BlockSizeAssumption, TimesMonotone
      <4>2. seq.num_computed_tokens = 0
          BY <3>4 DEF Sharing, ComputedAreHeld, Holds
      <4>3. q2[s].num_computed_tokens = Len(hits) * BlockSize
          BY <1>3, <1>8, <4>2
      <4>4. QED
          BY <1>3, <4>1, <4>3
    <3>5. QED
        BY <1>10, <3>1, <3>3, <3>4
  <2>2. SUFFICES ASSUME NEW x \in DOMAIN r2, NEW z \in DOMAIN r2, x # z,
                        NEW i \in DOMAIN r2[x], NEW j \in DOMAIN r2[z],
                        r2[x][i] = r2[z][j]
                 PROVE  ~(/\ i * BlockSize > q2[x].num_computed_tokens
                          /\ j * BlockSize > q2[z].num_computed_tokens)
      BY DEF OneWriter
  <2>3. CASE x = s
    <3>1. z \in DOMAIN r \ {s} /\ r2[z] = r[z]
        BY <1>7, <2>2, <2>3
    <3>2. QED
        BY <2>1, <2>2, <2>3, <3>1 DEF table
  <2>4. CASE z = s
    <3>1. x \in DOMAIN r \ {s} /\ r2[x] = r[x]
        BY <1>7, <2>2, <2>4
    <3>2. QED
        BY <2>1, <2>2, <2>4, <3>1 DEF table
  <2>5. CASE x # s /\ z # s
    <3>1. /\ x \in DOMAIN r \ {s} /\ r2[x] = r[x]
          /\ z \in DOMAIN r \ {s} /\ r2[z] = r[z]
        BY <1>7, <2>2, <2>5
    <3>2. ~(/\ i * BlockSize > q[x].num_computed_tokens
            /\ j * BlockSize > q[z].num_computed_tokens)
        BY <2>2, <3>1 DEF Sharing, OneWriter
    <3>3. /\ q2[x].num_computed_tokens = q[x].num_computed_tokens
          /\ q2[z].num_computed_tokens = q[z].num_computed_tokens
        BY <1>8, <1>9, <3>1
    <3>4. QED
        BY <3>2, <3>3
  <2>6. QED
      BY <2>3, <2>4, <2>5
<1>20. QED
  <2>1. \A x \in SeqId : q2[x].token_ids # << >>
      BY <1>1, <1>8
  <2>2. Sharing(k2, q2)
      BY <1>4, <1>8, <1>12, <1>13, <1>16, <1>17, <1>18, <1>19, <2>1 DEF Sharing
  <2>3. QED
      BY <2>2 DEF k2, q2

\* The forward pass computes the tokens of s, and the sampled one is appended.
LEMMA ComputeKeepsSharing ==
    ASSUME NEW k, NEW q, Sharing(k, q), NEW s \in SeqId, NEW t \in Token,
           Holds(k, s),
           q[s].num_computed_tokens < Len(q[s].token_ids),
           CeilDiv(Len(q[s].token_ids), BlockSize) <= Len(BlockTable(k, s))
    PROVE  Sharing(k, [q EXCEPT ![s].num_computed_tokens = Len(q[s].token_ids),
                                ![s].token_ids = Append(@, t)])
<1> DEFINE len == Len(q[s].token_ids)
           r == k.request_blocks
           q2 == [q EXCEPT ![s].num_computed_tokens = Len(q[s].token_ids),
                           ![s].token_ids = Append(@, t)]
<1>1. /\ KVInv(k)
      /\ q \in [SeqId -> SeqRecord]
      /\ \A x \in SeqId : /\ q[x].token_ids \in Seq(Token)
                          /\ q[x].token_ids # << >>
                          /\ q[x].num_computed_tokens \in Nat
      /\ len \in Nat
    BY DEF Sharing, SeqRecord
<1>2. /\ s \in DOMAIN r
      /\ q[s].num_computed_tokens < len
      /\ CeilDiv(len, BlockSize) <= Len(r[s])
    BY DEF Holds, BlockTable
<1>3. /\ \A x \in SeqId \ {s} : q2[x] = q[x]
      /\ q2[s].token_ids = Append(q[s].token_ids, t)
      /\ q2[s].num_computed_tokens = len
      /\ q2 \in [SeqId -> SeqRecord]
  <2>1. Append(q[s].token_ids, t) \in Seq(Token)
      BY <1>1
  <2>2. QED
      BY <1>1, <2>1 DEF SeqRecord
<1> HIDE DEF q2
<1>4. /\ Len(q2[s].token_ids) = len + 1
      /\ \A m \in 0 .. len :
             SubSeq(q2[s].token_ids, 1, m) = SubSeq(q[s].token_ids, 1, m)
    BY <1>1, <1>3
<1>5. /\ DOMAIN r \subseteq SeqId
      /\ \A x \in DOMAIN r : Len(r[x]) \in Nat /\ DOMAIN r[x] = 1 .. Len(r[x])
    BY <1>1, TablesAreSequences
<1>6. BlockSize \in Nat \ {0}
    BY BlockSizeAssumption
<1> HIDE DEF len
<1>7. KeysNameTheirPlace(k, q2)
  <2>1. SUFFICES ASSUME NEW x \in DOMAIN r, NEW i \in DOMAIN r[x],
                        k.block_keys[r[x][i]] # NoKey
                 PROVE  /\ i * BlockSize <= Len(q2[x].token_ids)
                        /\ k.block_keys[r[x][i]] = BlockKey(q2[x], i - 1)
      BY DEF KeysNameTheirPlace
  <2>2. /\ i * BlockSize <= Len(q[x].token_ids)
        /\ k.block_keys[r[x][i]] = BlockKey(q[x], i - 1)
      BY <2>1 DEF Sharing, KeysNameTheirPlace
  <2>3. CASE x = s
    <3>1. i * BlockSize \in 0 .. len
        BY <1>1, <1>5, <1>6, <2>2, <2>3 DEF len
    <3>2. i - 1 + 1 = i
        BY <1>5
    <3>3. BlockKey(q2[s], i - 1) = BlockKey(q[s], i - 1)
        BY <1>4, <3>1, <3>2 DEF BlockKey
    <3>4. QED
        BY <1>1, <1>4, <2>2, <2>3, <3>1, <3>3
  <2>4. CASE x # s
      BY <1>3, <1>5, <2>2, <2>4
  <2>5. QED
      BY <2>3, <2>4
<1>8. SharedBlocksHaveKeys(k) /\ HaveOwnBlocks(k)
    BY DEF Sharing
<1>9. ComputedAreHeld(k, q2)
  <2>1. q2[s].num_computed_tokens <= Len(q2[s].token_ids) /\ Holds(k, s)
      BY <1>1, <1>2, <1>3, <1>4 DEF Holds
  <2>2. QED
      BY <1>3, <2>1 DEF Sharing, ComputedAreHeld
<1>10. TablesCover(k, q2)
  <2>1. len <= Len(r[s]) * BlockSize
    <3>1. /\ CeilDiv(len, BlockSize) \in Nat
          /\ len <= CeilDiv(len, BlockSize) * BlockSize
        BY <1>1, <1>6, CeilCovers
    <3>2. CeilDiv(len, BlockSize) * BlockSize <= Len(r[s]) * BlockSize
        BY <1>2, <1>5, <1>6, <3>1, TimesMonotone
    <3>3. /\ CeilDiv(len, BlockSize) * BlockSize \in Nat
          /\ Len(r[s]) * BlockSize \in Nat
        BY <1>2, <1>5, <1>6, <3>1
    <3>4. QED
        BY <1>1, <3>1, <3>2, <3>3
  <2>2. Len(r[s]) <= CeilDiv(len + 1, BlockSize)
    <3>1. Len(r[s]) <= CeilDiv(len, BlockSize)
        BY <1>2 DEF Sharing, TablesCover, len
    <3>2. len + 1 \in Nat /\ len <= len + 1
        BY <1>1
    <3>3. CeilDiv(len + 1, BlockSize) \in Nat
        BY <1>6, <3>2, CeilCovers
    <3>4. /\ CeilDiv(len, BlockSize) \in Nat
          /\ CeilDiv(len, BlockSize) <= CeilDiv(len + 1, BlockSize)
        BY <1>1, <1>6, <3>2, CeilCovers
    <3>5. QED
        BY <1>2, <1>5, <3>1, <3>3, <3>4
  <2>3. \A x \in DOMAIN r \ {s} :
            /\ q2[x].num_computed_tokens <= Len(r[x]) * BlockSize
            /\ Len(r[x]) <= CeilDiv(Len(q2[x].token_ids), BlockSize)
      BY <1>3, <1>5 DEF Sharing, TablesCover
  <2>4. QED
      BY <1>2, <1>3, <1>4, <2>1, <2>2, <2>3 DEF TablesCover
<1>11. OneWriter(k, q2)
  <2>1. SUFFICES ASSUME NEW x \in DOMAIN r, NEW z \in DOMAIN r, x # z,
                        NEW i \in DOMAIN r[x], NEW j \in DOMAIN r[z],
                        r[x][i] = r[z][j]
                 PROVE  ~(/\ i * BlockSize > q2[x].num_computed_tokens
                          /\ j * BlockSize > q2[z].num_computed_tokens)
      BY DEF OneWriter
  <2>2. \A y \in DOMAIN r : q[y].num_computed_tokens \in Nat
      BY <1>1, <1>5
  <2>3. \A y \in DOMAIN r : /\ q2[y].num_computed_tokens >= q[y].num_computed_tokens
                            /\ q2[y].num_computed_tokens \in Nat
    <3>1. ASSUME NEW y \in DOMAIN r, y # s PROVE q2[y] = q[y]
        BY <1>3, <1>5, <3>1
    <3>2. /\ q2[s].num_computed_tokens >= q[s].num_computed_tokens
          /\ q2[s].num_computed_tokens \in Nat
      <4>1. q[s].num_computed_tokens \in Nat
          BY <1>2, <2>2
      <4>2. QED
          BY <1>1, <1>2, <1>3, <4>1
    <3>3. ASSUME NEW m \in Nat PROVE m >= m
        OBVIOUS
    <3>4. QED
        BY <2>2, <3>1, <3>2, <3>3
  <2>4. i * BlockSize \in Nat /\ j * BlockSize \in Nat
      BY <1>5, <1>6
  <2>5. ~(/\ i * BlockSize > q[x].num_computed_tokens
          /\ j * BlockSize > q[z].num_computed_tokens)
      BY <2>1 DEF Sharing, OneWriter
  <2>6. \/ i * BlockSize <= q[x].num_computed_tokens
        \/ j * BlockSize <= q[z].num_computed_tokens
      BY <2>2, <2>4, <2>5
  <2>7. QED
      BY <2>1, <2>2, <2>3, <2>4, <2>6
<1>12. QED
  <2>1. \A x \in SeqId : q2[x].token_ids # << >>
    <3>1. q2[s].token_ids # << >>
        BY <1>1, <1>3
    <3>2. QED
        BY <1>1, <1>3, <3>1
  <2>2. QED
      BY <1>1, <1>3, <1>7, <1>8, <1>9, <1>10, <1>11, <2>1 DEF Sharing, q2

\* A sequence leaves; what the others hold stays as it was.
LEMMA FreeKeepsSharing ==
    ASSUME NEW k, NEW q, Sharing(k, q), NEW s \in SeqId, NEW more \in Seq(Token),
           Holds(k, s)
    PROVE  Sharing(Free(k, s), [q EXCEPT ![s].num_computed_tokens = 0,
                                         ![s].token_ids = @ \o more])
<1> DEFINE k2 == Free(k, s)
           q2 == [q EXCEPT ![s].num_computed_tokens = 0, ![s].token_ids = @ \o more]
           r == k.request_blocks
           r2 == k2.request_blocks
<1>1. /\ KVInv(k) /\ KVInv(k2)
      /\ q \in [SeqId -> SeqRecord]
      /\ \A x \in SeqId : q[x].token_ids \in Seq(Token) /\ q[x].token_ids # << >>
    BY FreeInv DEF Sharing, SeqRecord
<1>2. q[s].token_ids \o more \in Seq(Token) /\ q[s].token_ids \o more # << >>
    BY <1>1
<1>3. /\ \A x \in SeqId \ {s} : q2[x] = q[x]
      /\ q2[s].num_computed_tokens = 0
      /\ q2[s].token_ids = q[s].token_ids \o more
      /\ q2 \in [SeqId -> SeqRecord]
    BY <1>1, <1>2 DEF SeqRecord
<1>4. /\ k2.block_keys = k.block_keys
      /\ DOMAIN r2 = DOMAIN r \ {s}
      /\ \A x \in DOMAIN r2 : r2[x] = r[x]
    BY <1>1 DEF Free, Restrict, KVInv, KVTypes, KVFields
<1> HIDE DEF k2, q2
<1>5. DOMAIN r \subseteq SeqId
    BY <1>1, TablesAreSequences
<1>6. \A x \in DOMAIN r2 : x \in DOMAIN r /\ r2[x] = r[x] /\ q2[x] = q[x]
    BY <1>3, <1>4, <1>5
<1>7. KeysNameTheirPlace(k2, q2)
    BY <1>4, <1>6 DEF Sharing, KeysNameTheirPlace
<1>8. SharedBlocksHaveKeys(k2)
    BY <1>4, <1>6 DEF Sharing, SharedBlocksHaveKeys
<1>9. HaveOwnBlocks(k2)
  <2>1. PICK own \in Injection(DOMAIN r, Block) :
            \A x \in DOMAIN r : own[x] \in ToSet(r[x])
      BY DEF Sharing, HaveOwnBlocks
  <2> DEFINE own2 == [x \in DOMAIN r2 |-> own[x]]
  <2>2. own2 \in Injection(DOMAIN r2, Block)
      BY <1>4, <2>1 DEF Injection, IsInjective
  <2>3. \A x \in DOMAIN r2 : own2[x] \in ToSet(r2[x])
      BY <1>6, <2>1
  <2>4. QED
      BY <2>2, <2>3 DEF HaveOwnBlocks
<1>10. ComputedAreHeld(k2, q2)
  <2>1. \A x \in SeqId \ {s} : Holds(k2, x) <=> Holds(k, x)
      BY <1>4 DEF Holds
  <2>2. 0 <= Len(q2[s].token_ids)
      BY <1>3 DEF SeqRecord
  <2>3. QED
      BY <1>3, <2>1, <2>2 DEF Sharing, ComputedAreHeld
<1>11. TablesCover(k2, q2)
    BY <1>6 DEF Sharing, TablesCover
<1>12. OneWriter(k2, q2)
    BY <1>6 DEF Sharing, OneWriter
<1>13. QED
  <2>1. \A x \in SeqId : q2[x].token_ids # << >>
      BY <1>1, <1>2, <1>3
  <2>2. Sharing(k2, q2)
      BY <1>1, <1>3, <1>7, <1>8, <1>9, <1>10, <1>11, <1>12, <2>1 DEF Sharing
  <2>3. QED
      BY <2>2 DEF k2, q2

\* With no table there is nothing to share.
LEMMA EmptySharing ==
    ASSUME NEW q \in [SeqId -> SeqRecord],
           \A s \in SeqId : q[s].token_ids # << >> /\ q[s].num_computed_tokens = 0
    PROVE  Sharing(EmptyKV, q)
<1> DEFINE k == EmptyKV
<1>1. KVInv(k) /\ DOMAIN k.request_blocks = {}
    BY EmptyKVInv DEF EmptyKV
<1> HIDE DEF k
<1>2. KeysNameTheirPlace(k, q) /\ SharedBlocksHaveKeys(k)
    BY <1>1 DEF KeysNameTheirPlace, SharedBlocksHaveKeys
<1>3. HaveOwnBlocks(k)
  <2>1. [x \in {} |-> 0] \in Injection({}, Block)
      BY DEF Injection, IsInjective
  <2>2. QED
      BY <1>1, <2>1 DEF HaveOwnBlocks
<1>4. ComputedAreHeld(k, q)
    BY DEF SeqRecord, ComputedAreHeld
<1>5. TablesCover(k, q) /\ OneWriter(k, q)
    BY <1>1 DEF TablesCover, OneWriter
<1>6. QED
    BY <1>1, <1>2, <1>3, <1>4, <1>5 DEF Sharing, k

\* What one call of the manager, or none, does to the manager k and to the
\* sequences q it serves: the disjuncts of KVNext.
ManagerCall(k, q, k2, q2) ==
    \/ k2 = k /\ q2 = q
    \/ \E s \in SeqId :
           LET hits == GetComputedBlocks(k, s, q[s])
               n    == Len(q[s].token_ids) - q[s].num_computed_tokens
                           - Len(hits) * BlockSize
           IN  /\ CanAllocate(k, s, q[s], n, hits)
               /\ k2 = AllocateSlots(k, s, q[s], n, hits)
               /\ q2 = [q EXCEPT ![s].num_computed_tokens =
                                     @ + Len(hits) * BlockSize]
    \/ \E s \in SeqId, t \in Token :
           /\ Holds(k, s)
           /\ q[s].num_computed_tokens < Len(q[s].token_ids)
           /\ CeilDiv(Len(q[s].token_ids), BlockSize) <= Len(BlockTable(k, s))
           /\ k2 = k
           /\ q2 = [q EXCEPT ![s].num_computed_tokens = Len(q[s].token_ids),
                             ![s].token_ids = Append(@, t)]
    \/ \E s \in SeqId, more \in {<< >>} \cup {<<t>> : t \in Token} :
           /\ Holds(k, s)
           /\ k2 = Free(k, s)
           /\ q2 = [q EXCEPT ![s].num_computed_tokens = 0,
                             ![s].token_ids = @ \o more]
    \/ /\ k2 = EmptyKV
       /\ q2 = [s \in SeqId |-> [q[s] EXCEPT !.num_computed_tokens = 0]]

LEMMA ManagerCallKeepsSharing ==
    ASSUME NEW k, NEW q, Sharing(k, q), NEW k2, NEW q2, ManagerCall(k, q, k2, q2)
    PROVE  Sharing(k2, q2)
<1>1. CASE k2 = k /\ q2 = q
    BY <1>1
<1>2. ASSUME NEW s \in SeqId,
             LET hits == GetComputedBlocks(k, s, q[s])
                 n    == Len(q[s].token_ids) - q[s].num_computed_tokens
                             - Len(hits) * BlockSize
             IN  /\ CanAllocate(k, s, q[s], n, hits)
                 /\ k2 = AllocateSlots(k, s, q[s], n, hits)
                 /\ q2 = [q EXCEPT ![s].num_computed_tokens =
                                       @ + Len(hits) * BlockSize]
      PROVE  Sharing(k2, q2)
  <2> DEFINE hits == GetComputedBlocks(k, s, q[s])
             n == Len(q[s].token_ids) - q[s].num_computed_tokens
                      - Len(hits) * BlockSize
  <2>1. /\ LegalAllocation(k, q, s, n, hits)
        /\ k2 = AllocateSlots(k, s, q[s], n, hits)
        /\ q2 = [q EXCEPT ![s].num_computed_tokens = @ + Len(hits) * BlockSize]
      BY <1>2 DEF LegalAllocation
  <2> HIDE DEF n, hits
  <2>2. QED
      BY <2>1, AllocateKeepsSharing
<1>3. ASSUME NEW s \in SeqId, NEW t \in Token,
             /\ Holds(k, s)
             /\ q[s].num_computed_tokens < Len(q[s].token_ids)
             /\ CeilDiv(Len(q[s].token_ids), BlockSize) <= Len(BlockTable(k, s))
             /\ k2 = k
             /\ q2 = [q EXCEPT ![s].num_computed_tokens = Len(q[s].token_ids),
                               ![s].token_ids = Append(@, t)]
      PROVE  Sharing(k2, q2)
    BY <1>3, ComputeKeepsSharing
<1>4. ASSUME NEW s \in SeqId, NEW more \in {<< >>} \cup {<<t>> : t \in Token},
             /\ Holds(k, s)
             /\ k2 = Free(k, s)
             /\ q2 = [q EXCEPT ![s].num_computed_tokens = 0,
                               ![s].token_ids = @ \o more]
      PROVE  Sharing(k2, q2)
  <2>1. more \in Seq(Token)
    <3>1. CASE more = << >>
        BY <3>1
    <3>2. CASE \E t \in Token : more = <<t>>
      <4>1. PICK t \in Token : more = <<t>>
          BY <3>2
      <4>2. QED
          BY <4>1
    <3>3. QED
        BY <3>1, <3>2
  <2>2. QED
      BY <1>4, <2>1, FreeKeepsSharing
<1>5. CASE /\ k2 = EmptyKV
           /\ q2 = [s \in SeqId |-> [q[s] EXCEPT !.num_computed_tokens = 0]]
  <2>1. q \in [SeqId -> SeqRecord] /\ \A s \in SeqId : q[s].token_ids # << >>
      BY DEF Sharing
  <2>2. /\ q2 \in [SeqId -> SeqRecord]
        /\ \A s \in SeqId : q2[s].token_ids # << >> /\ q2[s].num_computed_tokens = 0
      BY <1>5, <2>1 DEF SeqRecord
  <2>3. QED
      BY <1>5, <2>2, EmptySharing
<1>6. QED
    BY <1>1, <1>2, <1>3, <1>4, <1>5 DEF ManagerCall

-----------------------------------------------------------------------------
(* The specification.                                                      *)

LEMMA KVInitSharing == KVInit => Sharing(kv, seqs)
<1> SUFFICES ASSUME KVInit PROVE Sharing(kv, seqs)
    OBVIOUS
<1>1. /\ seqs \in [SeqId -> SeqRecord]
      /\ \A s \in SeqId : seqs[s].token_ids # << >>
    BY KVInitInv DEF Inv
<1>2. \A s \in SeqId : seqs[s] \in {[token_ids |-> p, num_computed_tokens |-> 0] :
                                        p \in Prompts}
    BY DEF KVInit
<1>3. \A s \in SeqId : seqs[s].num_computed_tokens = 0
    BY <1>2
<1>4. QED
    BY <1>1, <1>3, EmptySharing DEF KVInit

LEMMA KVNextSharing == Sharing(kv, seqs) /\ [KVNext]_kvVars => Sharing(kv, seqs)'
<1> SUFFICES ASSUME Sharing(kv, seqs), [KVNext]_kvVars PROVE Sharing(kv', seqs')
    OBVIOUS
<1>1. ASSUME NEW s \in SeqId, KVAllocate(s) PROVE ManagerCall(kv, seqs, kv', seqs')
  <2> DEFINE hits == GetComputedBlocks(kv, s, seqs[s])
             n == Len(seqs[s].token_ids) - seqs[s].num_computed_tokens
                      - Len(hits) * BlockSize
  <2>1. /\ CanAllocate(kv, s, seqs[s], n, hits)
        /\ kv' = AllocateSlots(kv, s, seqs[s], n, hits)
        /\ seqs' = [seqs EXCEPT ![s].num_computed_tokens = @ + Len(hits) * BlockSize]
      BY <1>1 DEF KVAllocate
  <2>2. QED
      BY <2>1 DEF ManagerCall
<1>2. ASSUME NEW s \in SeqId, NEW t \in Token, KVCompute(s, t)
      PROVE  ManagerCall(kv, seqs, kv', seqs')
    BY <1>2 DEF KVCompute, ManagerCall
<1>3. ASSUME NEW s \in SeqId, NEW more \in {<< >>} \cup {<<t>> : t \in Token},
             KVFree(s, more)
      PROVE  ManagerCall(kv, seqs, kv', seqs')
    BY <1>3 DEF KVFree, ManagerCall
<1>4. ASSUME KVReset PROVE ManagerCall(kv, seqs, kv', seqs')
    BY <1>4 DEF KVReset, ManagerCall
<1>5. ASSUME UNCHANGED kvVars PROVE ManagerCall(kv, seqs, kv', seqs')
    BY <1>5 DEF kvVars, ManagerCall
<1>6. ManagerCall(kv, seqs, kv', seqs')
    BY <1>1, <1>2, <1>3, <1>4, <1>5 DEF KVNext
<1>7. QED
    BY <1>6, ManagerCallKeepsSharing

LEMMA KVSharing == KVSpec => []Sharing(kv, seqs)
BY KVInitSharing, KVNextSharing, PTL DEF KVSpec

-----------------------------------------------------------------------------
(* The theorems.                                                           *)

\* A block that two sequences share stands at the same place in both tables
\* and holds tokens both agree on: what get_computed_blocks hands out is the
\* sequence's own prefix, whatever was evicted, recomputed or duplicated.
THEOREM SharersAlwaysAgree == KVSpec => []SharersAgree
<1>1. Sharing(kv, seqs) => SharersAgree
  <2>0. SUFFICES ASSUME Sharing(kv, seqs) PROVE SharersAgree
      OBVIOUS
  <2>1. SUFFICES ASSUME NEW s \in DOMAIN kv.request_blocks,
                        NEW t \in DOMAIN kv.request_blocks,
                        NEW i \in DOMAIN kv.request_blocks[s],
                        NEW j \in DOMAIN kv.request_blocks[t],
                        s # t /\ kv.request_blocks[s][i] = kv.request_blocks[t][j]
                 PROVE  /\ i = j
                        /\ i * BlockSize <= Len(seqs[s].token_ids)
                        /\ i * BlockSize <= Len(seqs[t].token_ids)
                        /\ SubSeq(seqs[s].token_ids, 1, i * BlockSize) =
                               SubSeq(seqs[t].token_ids, 1, i * BlockSize)
      BY Zenon DEF SharersAgree
  <2> DEFINE b == kv.request_blocks[s][i]
  <2>2. /\ DOMAIN kv.request_blocks \subseteq SeqId
        /\ i \in Nat \ {0} /\ j \in Nat \ {0}
        /\ seqs[s] \in SeqRecord /\ seqs[t] \in SeqRecord
    <3>1. KVInv(kv) /\ seqs \in [SeqId -> SeqRecord]
        BY <2>0 DEF Sharing
    <3>2. QED
        BY <3>1, TablesAreSequences
  <2>3. kv.block_keys[b] # NoKey
      BY <2>0, <2>1 DEF Sharing, SharedBlocksHaveKeys, ToSet
  <2>4. /\ i * BlockSize <= Len(seqs[s].token_ids)
        /\ kv.block_keys[b] = BlockKey(seqs[s], i - 1)
        /\ j * BlockSize <= Len(seqs[t].token_ids)
        /\ kv.block_keys[b] = BlockKey(seqs[t], j - 1)
      BY <2>0, <2>1, <2>3 DEF Sharing, KeysNameTheirPlace
  <2>5. /\ BlockKey(seqs[s], i - 1) = SubSeq(seqs[s].token_ids, 1, i * BlockSize)
        /\ BlockKey(seqs[t], j - 1) = SubSeq(seqs[t].token_ids, 1, j * BlockSize)
    <3>1. i - 1 + 1 = i /\ j - 1 + 1 = j
        BY <2>2
    <3>2. QED
        BY <3>1 DEF BlockKey
  <2>6. i = j
    <3>1. i * BlockSize \in Nat /\ j * BlockSize \in Nat
        BY <2>2, BlockSizeAssumption
    <3>2. \A x \in {s, t} : \A m \in Nat : m <= Len(seqs[x].token_ids) =>
              Len(SubSeq(seqs[x].token_ids, 1, m)) = m
        BY <2>2 DEF SeqRecord
    <3>3. i * BlockSize = j * BlockSize
        BY <2>4, <2>5, <3>1, <3>2
    <3>4. QED
        BY <2>2, <3>3, BlockSizeAssumption, TimesCancel
  <2>7. QED
      BY <2>4, <2>5, <2>6
<1>2. QED
    BY KVSharing, <1>1, PTL

\* At most one holder of a block still has tokens to write into it: a block is
\* registered and shared before its first forward pass, but those who hit it
\* count its tokens as computed.
THEOREM OneWriterAlways == KVSpec => []OneWriterPerBlock
<1>1. Sharing(kv, seqs) => OneWriterPerBlock
    BY DEF Sharing, OneWriter, OneWriterPerBlock, WillWrite
<1>2. QED
    BY KVSharing, <1>1, PTL

\* A table covers the computed tokens of its sequence and is no longer than
\* the sequence needs.
THEOREM TablesCoverTokens == KVSpec => []TableCoversTokens
<1>1. Sharing(kv, seqs) => TableCoversTokens
    BY DEF Sharing, TablesCover, TableCoversTokens
<1>2. QED
    BY KVSharing, <1>1, PTL

\* There are never more holders than blocks in use: an admission leaves at
\* least one token out of its hits, so it pops a block that no other holds.
THEOREM HoldersAlwaysWithinPool == KVSpec => []HoldersWithinPool
<1>1. Sharing(kv, seqs) => HoldersWithinPool
  <2>1. SUFFICES ASSUME Sharing(kv, seqs) PROVE HoldersWithinPool
      OBVIOUS
  <2> DEFINE D == DOMAIN kv.request_blocks
             U == kv.used_block_ids
  <2>2. KVInv(kv)
      BY <2>1 DEF Sharing
  <2>3. PICK own \in Injection(D, Block) : \A s \in D : own[s] \in ToSet(kv.request_blocks[s])
      BY <2>1 DEF Sharing, HaveOwnBlocks
  <2>4. \A s \in D : own[s] \in Block
      BY <2>3 DEF Injection
  <2>5. \A s \in D : own[s] \in U
      BY <2>2, <2>3, <2>4, UsedAreHeld
  <2>6. own \in Injection(D, U)
      BY <2>3, <2>5 DEF Injection
  <2>7. IsFiniteSet(U)
    <3>1. IsFiniteSet(Block)
        BY NumBlocksAssumption, FS_Interval DEF Block
    <3>2. U \in SUBSET Block
        BY <2>2 DEF KVInv, KVTypes
    <3>3. QED
        BY <3>1, <3>2, FS_Subset
  <2> HIDE DEF D, U
  <2>8. Cardinality(D) <= Cardinality(U)
      BY <2>6, <2>7, FS_Injection
  <2>9. QED
      BY <2>8 DEF HoldersWithinPool, D, U
<1>2. QED
    BY KVSharing, <1>1, PTL

\* can_allocate of a sequence that fits the pool, when no other holds a block.
LEMMA LoneFits ==
    ASSUME NEW k, KVInv(k), NEW s \in SeqId, NEW seq \in SeqRecord,
           seq.token_ids # << >>, DOMAIN k.request_blocks \subseteq {s},
           CeilDiv(Len(seq.token_ids), BlockSize) <= NumBlocks
    PROVE  LET hits == GetComputedBlocks(k, s, seq)
               n    == Len(seq.token_ids) - seq.num_computed_tokens
                           - Len(hits) * BlockSize
           IN  CanAllocate(k, s, seq, n, hits)
<1> DEFINE hits == GetComputedBlocks(k, s, seq)
           n == Len(seq.token_ids) - seq.num_computed_tokens - Len(hits) * BlockSize
           free == k.free_block_ids
           old == BlockTable(k, s)
           need == CeilDiv(Len(seq.token_ids), BlockSize)
           held == Len(old) + Len(hits)
           needed == NumBlocksNeeded(k, s, seq, n, hits)
           revived == {b \in ToSet(hits) : k.ref_counts[b] = 0}
<1>1. /\ KVInv(k) /\ seq \in SeqRecord /\ seq.token_ids # << >>
      /\ Len(seq.token_ids) \in Nat /\ seq.num_computed_tokens \in Nat
    BY DEF SeqRecord
<1>2. /\ hits \in Seq(Block) /\ IsInjective(hits)
      /\ Len(hits) * BlockSize \in Nat
    BY <1>1, HitsProperties
<1>3. /\ free \in Seq(Block) /\ IsInjective(free)
      /\ k.used_block_ids = Block \ ToSet(free)
    BY <1>1 DEF KVInv, KVTypes, FreeAndUsedPartition
<1>4. /\ IsFiniteSet(ToSet(free)) /\ Cardinality(ToSet(free)) = Len(free)
      /\ ToSet(free) \subseteq Block
  <2>1. ToSet(free) \subseteq Block
      BY <1>3 DEF ToSet
  <2>2. IsFiniteSet(ToSet(free)) /\ Cardinality(ToSet(free)) = Len(free)
      BY <1>3, LenIsCardinality
  <2>3. QED
      BY <2>1, <2>2
<1>5. old \in Seq(Block) /\ IsInjective(old) /\ ToSet(old) \subseteq Block
  <2>1. s \in DOMAIN k.request_blocks => old \in Seq(Block) /\ IsInjective(old)
      BY <1>1, TablesAreSequences DEF BlockTable, Holds
  <2>2. s \notin DOMAIN k.request_blocks => old = << >>
      BY DEF BlockTable, Holds
  <2>3. IsInjective(<< >>) /\ << >> \in Seq(Block)
      BY DEF IsInjective
  <2>4. old \in Seq(Block) /\ IsInjective(old)
      BY <2>1, <2>2, <2>3
  <2>5. QED
      BY <2>4 DEF ToSet
<1>6. k.used_block_ids = ToSet(old)
  <2>1. \A b \in Block : b \in k.used_block_ids <=> b \in ToSet(old)
    <3>1. TAKE b \in Block
    <3>2. b \in k.used_block_ids <=>
              \E x \in DOMAIN k.request_blocks : b \in ToSet(k.request_blocks[x])
        BY <1>1, UsedAreHeld
    <3>3. s \notin DOMAIN k.request_blocks => ToSet(old) = {}
        BY DEF BlockTable, Holds, ToSet
    <3>4. s \in DOMAIN k.request_blocks => old = k.request_blocks[s]
        BY DEF BlockTable, Holds
    <3>5. QED
        BY <3>2, <3>3, <3>4
  <2>2. QED
      BY <1>3, <1>5, <2>1
<1>7. Len(free) + Len(old) = NumBlocks
  <2>1. IsFiniteSet(Block) /\ Cardinality(Block) = NumBlocks
      BY NumBlocksAssumption, FS_Interval DEF Block
  <2>2. Cardinality(Block \ ToSet(free)) = Cardinality(Block) - Cardinality(Block \cap ToSet(free))
      BY <2>1, FS_Difference
  <2>3. Block \cap ToSet(free) = ToSet(free)
      BY <1>4
  <2>4. Cardinality(ToSet(old)) = Len(old)
      BY <1>5, LenIsCardinality
  <2>5. Len(old) = NumBlocks - Len(free)
      BY <1>3, <1>4, <1>6, <2>1, <2>2, <2>3, <2>4
  <2>6. Len(free) \in Nat /\ NumBlocks \in Nat
      BY <1>3, NumBlocksAssumption
  <2> HIDE DEF free, old
  <2>7. QED
      BY <2>5, <2>6
<1>8. /\ Cardinality(revived) \in Nat
      /\ Cardinality(revived) <= Len(hits)
      /\ Cardinality(revived) <= Len(free)
  <2>1. IsFiniteSet(ToSet(hits)) /\ Cardinality(ToSet(hits)) = Len(hits)
      BY <1>2, LenIsCardinality
  <2>2. revived \in SUBSET ToSet(hits)
      OBVIOUS
  <2>3. revived \in SUBSET ToSet(free)
    <3>1. ToSet(hits) \subseteq Block
        BY <1>2 DEF ToSet
    <3>2. \A b \in Block : k.ref_counts[b] = 0 => b \in ToSet(free)
        BY <1>1 DEF KVInv, RefCountsCountHolders
    <3>3. QED
        BY <3>1, <3>2
  <2> HIDE DEF revived, free, hits
  <2>4. IsFiniteSet(revived) /\ Cardinality(revived) <= Cardinality(ToSet(hits))
      BY <2>1, <2>2, FS_Subset
  <2>5. Cardinality(revived) <= Cardinality(ToSet(free))
      BY <1>4, <2>3, FS_Subset
  <2>6. QED
      BY <1>4, <2>1, <2>4, <2>5, FS_CardinalityType
<1>9. needed = IF need > held THEN need - held ELSE 0
  <2>1. seq.num_computed_tokens + Len(hits) * BlockSize + n = Len(seq.token_ids)
    <3> HIDE DEF hits
    <3>1. QED
        BY <1>1, <1>2
  <2> HIDE DEF n, hits
  <2>2. QED
      BY <2>1 DEF NumBlocksNeeded
<1>10. need \in Nat /\ need <= NumBlocks
    BY <1>1, BlockSizeAssumption, CeilCovers
<1>11. Len(free) >= needed + Cardinality(revived)
  <2>1. Len(free) \in Nat /\ Len(old) \in Nat /\ Len(hits) \in Nat
      BY <1>2, <1>3, <1>5
  <2> HIDE DEF needed, need, revived, free, old, hits
  <2>2. QED
      BY <1>7, <1>8, <1>9, <1>10, <2>1, NumBlocksAssumption
<1>12. QED
    BY <1>11 DEF CanAllocate, NumRevived

\* A sequence that fits the pool gets its blocks once no other holds any,
\* however many of the blocks it hits still have to leave the free list.
THEOREM LoneSequenceAlwaysFits == KVSpec => []LoneSequenceFits
<1>1. Inv => LoneSequenceFits
    BY LoneFits DEF LoneSequenceFits, Inv
<1>2. QED
    BY KVInitInv, KVNextInv, <1>1, PTL DEF KVSpec

\* A table only grows, and only at its end, while its sequence holds it.
LEMMA TablesGrow ==
    ASSUME Inv, [KVNext]_kvVars
    PROVE  \A s \in DOMAIN kv.request_blocks \cap DOMAIN kv'.request_blocks :
               IsPrefix(kv.request_blocks[s], kv'.request_blocks[s])
<1> DEFINE r == kv.request_blocks
           r2 == kv'.request_blocks
           Grows == \A s \in DOMAIN r \cap DOMAIN r2 : IsPrefix(r[s], r2[s])
<1>1. \A x \in DOMAIN r : r[x] \in Seq(Block)
    BY TablesAreSequences DEF Inv
<1>2. \A x \in DOMAIN r : IsPrefix(r[x], r[x])
    BY <1>1 DEF IsPrefix
<1>3. ASSUME NEW s \in SeqId, KVAllocate(s) PROVE Grows
  <2> DEFINE hits == GetComputedBlocks(kv, s, seqs[s])
             n == Len(seqs[s].token_ids) - seqs[s].num_computed_tokens
                      - Len(hits) * BlockSize
  <2>1. kv' = AllocateSlots(kv, s, seqs[s], n, hits)
      BY <1>3 DEF KVAllocate
  <2>2. ExtendsItsTable(kv, s, seqs[s], n, hits)
    <3>1. LegalAllocation(kv, seqs, s, n, hits)
        BY <1>3 DEF KVAllocate, LegalAllocation
    <3> HIDE DEF n, hits
    <3>2. KVInv(kv) /\ seqs \in [SeqId -> SeqRecord] /\ seqs[s].token_ids # << >>
        BY DEF Inv
    <3>3. QED
        BY <3>1, <3>2, LegalAllocationTables
  <2>3. hits \in Seq(Block)
    <3>1. KVInv(kv) /\ seqs[s] \in SeqRecord /\ seqs[s].token_ids # << >>
        BY DEF Inv
    <3>2. QED
        BY <3>1, HitsProperties
  <2> HIDE DEF n, hits
  <2>4. PICK popped \in Seq(Block) : AllocatedAs(kv, kv', s, seqs[s], hits, popped)
      BY <2>1, <2>2 DEF ExtendsItsTable
  <2>5. /\ \A x \in DOMAIN r \ {s} : r2[x] = r[x]
        /\ r2[s] = (BlockTable(kv, s) \o hits) \o popped
      BY <2>4 DEF AllocatedAs
  <2>6. s \in DOMAIN r => IsPrefix(r[s], r2[s])
    <3>1. SUFFICES ASSUME s \in DOMAIN r PROVE IsPrefix(r[s], (r[s] \o hits) \o popped)
        BY <2>5 DEF BlockTable, Holds
    <3>2. r[s] \in Seq(Block)
        BY <1>1, <3>1
    <3>3. \A a, b, c \in Seq(Block) : IsPrefix(a, (a \o b) \o c)
        BY DEF IsPrefix
    <3>4. QED
        BY <2>3, <2>4, <3>2, <3>3
  <2>7. QED
      BY <1>2, <2>5, <2>6
<1>4. ASSUME NEW s \in SeqId, NEW more, KVFree(s, more) PROVE Grows
  <2>1. kv' = Free(kv, s)
      BY <1>4 DEF KVFree
  <2>2. \A x \in DOMAIN r2 : r2[x] = r[x]
      BY <2>1 DEF Free, Restrict, Inv, KVInv, KVTypes, KVFields
  <2>3. QED
      BY <1>2, <2>2
<1>5. CASE KVReset
  <2>1. DOMAIN r2 = {}
      BY <1>5 DEF KVReset, EmptyKV
  <2>2. QED
      BY <2>1
<1>6. CASE kv' = kv
    BY <1>2, <1>6
<1>7. QED
    BY <1>3, <1>4, <1>5, <1>6 DEF KVNext, KVCompute, kvVars

\* A block table only grows, and only at its end, as long as its sequence holds
\* it: a row of the decode staging may copy the new entries only.
THEOREM TablesOnlyGrow == KVSpec => TablesGrowAtTheEnd
<1>1. Inv /\ [KVNext]_kvVars =>
          [\A s \in DOMAIN kv.request_blocks \cap DOMAIN kv'.request_blocks :
               IsPrefix(kv.request_blocks[s], kv'.request_blocks[s])]_kvVars
    BY TablesGrow
<1>2. QED
    BY KVInitInv, KVNextInv, <1>1, PTL DEF KVSpec, TablesGrowAtTheEnd

-----------------------------------------------------------------------------
(* For the engine: its calls, and the places of tokens in blocks.           *)

\* The sequences as the manager sees them: computed tokens count while it holds
\* their blocks.
Projected(k, q) ==
    [s \in SeqId |->
        [ token_ids |-> q[s].token_ids,
          num_computed_tokens |-> IF Holds(k, s) THEN q[s].num_computed_tokens ELSE 0 ]]

\* The manager reads two fields of a sequence.
LEMMA TwoFields ==
    ASSUME NEW k, NEW s, NEW seq, NEW seq2, NEW n, NEW hits,
           seq2.token_ids = seq.token_ids,
           seq2.num_computed_tokens = seq.num_computed_tokens
    PROVE  /\ GetComputedBlocks(k, s, seq2) = GetComputedBlocks(k, s, seq)
           /\ CanAllocate(k, s, seq2, n, hits) = CanAllocate(k, s, seq, n, hits)
           /\ AllocateSlots(k, s, seq2, n, hits) = AllocateSlots(k, s, seq, n, hits)
<1> DEFINE Hits(tokens) ==
        LET key(i) == SubSeq(tokens, 1, (i + 1) * BlockSize)
            cachedRuns == {m \in 0 .. (Len(tokens) - 1) \div BlockSize :
                               \A i \in 0 .. m - 1 : key(i) \in DOMAIN k.cached_blocks}
        IN  IF ~EnablePrefixCaching \/ Holds(k, s)
            THEN << >>
            ELSE [i \in 1 .. Max(cachedRuns) |-> k.cached_blocks[key(i - 1)]]
           Needed(computed) ==
        LET target == CeilDiv(computed + Len(hits) * BlockSize + n, BlockSize)
            held   == Len(BlockTable(k, s)) + Len(hits)
        IN  IF target > held THEN target - held ELSE 0
<1>1. \A x \in {seq, seq2} : GetComputedBlocks(k, s, x) = Hits(x.token_ids)
    BY DEF GetComputedBlocks, MaxCachedBlocks, BlockKey
<1>2. \A x \in {seq, seq2} :
          NumBlocksNeeded(k, s, x, n, hits) = Needed(x.num_computed_tokens)
    BY DEF NumBlocksNeeded
<1>3. ASSUME NEW j, NEW m PROVE CacheFullBlocks(j, s, seq2, m) = CacheFullBlocks(j, s, seq, m)
  <2> DEFINE Cached(tokens) == CacheFullBlocks(j, s, [token_ids |-> tokens], m)
  <2>1. CacheFullBlocks(j, s, seq, m) = Cached(seq.token_ids)
      BY DEF CacheFullBlocks, Registrable, BlockKey
  <2>2. CacheFullBlocks(j, s, seq2, m) = Cached(seq2.token_ids)
      BY DEF CacheFullBlocks, Registrable, BlockKey
  <2> HIDE DEF Cached
  <2>3. QED
      BY <2>1, <2>2
<1> HIDE DEF Hits, Needed
<1>4. NumBlocksNeeded(k, s, seq2, n, hits) = NumBlocksNeeded(k, s, seq, n, hits)
    BY <1>2
<1>5. AllocateSlots(k, s, seq2, n, hits) = AllocateSlots(k, s, seq, n, hits)
    BY <1>3, <1>4 DEF AllocateSlots
<1>6. QED
    BY <1>1, <1>4, <1>5 DEF CanAllocate

LEMMA ModRange ==
    ASSUME NEW n \in Nat, NEW d \in Nat \ {0}
    PROVE  n % d \in 0 .. d - 1
BY SMT

\* The place of a token in a table of len blocks that cover it.
LEMMA PlaceInTable ==
    ASSUME NEW pos \in Nat, NEW len \in Nat, pos < len * BlockSize
    PROVE  /\ pos \div BlockSize + 1 \in 1 .. len
           /\ pos < (pos \div BlockSize + 1) * BlockSize
           /\ pos % BlockSize \in 0 .. BlockSize - 1
<1> DEFINE d == pos \div BlockSize
<1>1. BlockSize \in Nat \ {0}
    BY BlockSizeAssumption
<1>2. d \in Nat /\ d * BlockSize <= pos /\ pos < (d + 1) * BlockSize
    BY <1>1, DivTimes
<1>3. pos % BlockSize \in 0 .. BlockSize - 1
    BY <1>1, ModRange
<1> HIDE DEF d
<1>4. ASSUME len <= d PROVE FALSE
  <2>1. len * BlockSize <= d * BlockSize
      BY <1>1, <1>2, <1>4, TimesMonotone
  <2>2. len * BlockSize \in Nat /\ d * BlockSize \in Nat
      BY <1>1, <1>2
  <2>3. QED
      BY <1>2, <2>1, <2>2
<1>5. d + 1 \in 1 .. len
    BY <1>2, <1>4
<1>6. QED
    BY <1>2, <1>3, <1>5 DEF d

\* seq, a sequence with seq_id s, has blocks in k for all its tokens, and a
\* token to compute.
CoveredBy(k, s, seq) ==
    /\ KVInv(k)
    /\ s \in DOMAIN k.request_blocks
    /\ seq.token_ids \in Seq(Token)
    /\ seq.num_computed_tokens \in Nat
    /\ seq.num_computed_tokens < Len(seq.token_ids)
    /\ CeilDiv(Len(seq.token_ids), BlockSize) <= Len(BlockTable(k, s))

\* The manager sees no difference between q[t] and q2[t].
SameTokens(q, q2, t) ==
    /\ q2[t].token_ids = q[t].token_ids
    /\ q2[t].num_computed_tokens = q[t].num_computed_tokens

LEMMA SameRecord ==
    ASSUME NEW v \in SeqRecord, NEW w \in SeqRecord,
           v.token_ids = w.token_ids, v.num_computed_tokens = w.num_computed_tokens
    PROVE  v = w
BY DEF SeqRecord

\* A step that leaves the manager and the sequences alone is no call.
LEMMA NoCall ==
    ASSUME UNCHANGED <<kv, seqs>>
    PROVE  ManagerCall(kv, Projected(kv, seqs), kv', Projected(kv', seqs'))
<1> DEFINE q == Projected(kv, seqs)
           q2 == Projected(kv', seqs')
<1>1. kv' = kv /\ q2 = q
    OBVIOUS
<1> HIDE DEF q, q2
<1>2. ManagerCall(kv, q, kv', q2)
    BY <1>1 DEF ManagerCall
<1>3. QED
    BY <1>2 DEF q, q2

\* What AllocationGives says of the keys: a new key is the prefix of s up to the
\* end of a block of its table, and the hits have such keys already.
KeysGrow(s, hits) ==
    LET tokens == seqs[s].token_ids
        table  == BlockTable(kv', s)
    IN  /\ \A b \in Block :
               \/ kv'.block_keys[b] \in {NoKey, kv.block_keys[b]}
               \/ \E i \in DOMAIN table :
                      /\ table[i] = b
                      /\ i * BlockSize <= Len(tokens)
                      /\ kv'.block_keys[b] = SubSeq(tokens, 1, i * BlockSize)
        /\ \A i \in DOMAIN hits :
               /\ i * BlockSize <= Len(tokens)
               /\ kv.block_keys[hits[i]] = SubSeq(tokens, 1, i * BlockSize)
               /\ kv.block_keys[hits[i]] # NoKey

\* The blocks of a table in three parts.
LEMMA TableBlocks ==
    ASSUME NEW a \in Seq(Block), NEW b \in Seq(Block), NEW c \in Seq(Block)
    PROVE  ToSet((a \o b) \o c) = ToSet(a) \cup ToSet(b) \cup ToSet(c)
<1>1. a \o b \in Seq(Block) /\ ToSet(a \o b) = ToSet(a) \cup ToSet(b)
    BY ConcatDistinct
<1>2. ASSUME NEW u \in Seq(Block)
      PROVE  ToSet(u \o c) = ToSet(u) \cup ToSet(c)
    BY ConcatDistinct
<1>3. QED
    BY <1>1, <1>2

LEMMA TextGrows ==
    ASSUME NEW t \in Seq(Token), NEW u \in Seq(Token), NEW p \in Nat, p <= Len(t)
    PROVE  /\ SubSeq(t, p + 1, Len(t)) \in Seq(Token)
           /\ SubSeq(t \o u, p + 1, Len(t \o u)) = SubSeq(t, p + 1, Len(t)) \o u
           /\ p <= Len(t \o u)
<1> DEFINE old == SubSeq(t, p + 1, Len(t))
           new == SubSeq(t \o u, p + 1, Len(t \o u))
<1>1. /\ old \in Seq(Token) /\ Len(old) = Len(t) - p
      /\ \A i \in 1 .. Len(old) : old[i] = t[p + i]
    BY SubSeqProperties
<1>2. /\ t \o u \in Seq(Token) /\ Len(t \o u) = Len(t) + Len(u)
      /\ \A i \in 1 .. Len(t) : (t \o u)[i] = t[i]
      /\ \A i \in 1 .. Len(u) : (t \o u)[Len(t) + i] = u[i]
    OBVIOUS
<1>3. p <= Len(t \o u) /\ Len(t) \in Nat /\ Len(u) \in Nat
    BY <1>2
<1>4. /\ new \in Seq(Token) /\ Len(new) = Len(t) + Len(u) - p
      /\ \A i \in 1 .. Len(new) : new[i] = (t \o u)[p + i]
    BY <1>2, <1>3, SubSeqProperties, SMTT(30)
<1> HIDE DEF old, new
<1>5. /\ old \o u \in Seq(Token) /\ Len(old \o u) = Len(old) + Len(u)
      /\ \A i \in 1 .. Len(old) : (old \o u)[i] = old[i]
      /\ \A i \in 1 .. Len(u) : (old \o u)[Len(old) + i] = u[i]
  <2> PICK a \in Seq(Token) : a = old
      BY <1>1
  <2>1. /\ a \o u \in Seq(Token) /\ Len(a \o u) = Len(a) + Len(u)
        /\ \A i \in 1 .. Len(a) : (a \o u)[i] = a[i]
        /\ \A i \in 1 .. Len(u) : (a \o u)[Len(a) + i] = u[i]
      OBVIOUS
  <2>2. QED
      BY <2>1
<1>6. ASSUME NEW i \in 1 .. Len(new)
      PROVE  new[i] = (old \o u)[i]
  <2>1. CASE i <= Len(old)
    <3>1. i \in 1 .. Len(old) /\ p + i \in 1 .. Len(t)
        BY <1>1, <1>3, <1>4, <2>1
    <3>2. QED
        BY <1>1, <1>2, <1>4, <1>5, <3>1
  <2>2. CASE i > Len(old)
    <3> PICK j \in 1 .. Len(u) : i = Len(old) + j
      <4>1. i - Len(old) \in 1 .. Len(u) /\ i = Len(old) + (i - Len(old))
          BY <1>1, <1>3, <1>4, <2>2
      <4>2. QED
          BY <4>1
    <3>1. p + i = Len(t) + j
        BY <1>1, <1>3
    <3>2. QED
        BY <1>2, <1>4, <1>5, <3>1
  <2>3. QED
      BY <1>1, <1>3, <1>4, <2>1, <2>2
<1>7. new = old \o u
  <2>1. Len(new) = Len(old \o u)
      BY <1>1, <1>3, <1>4, <1>5
  <2>2. QED
      BY <1>4, <1>5, <1>6, <2>1, SeqEqual
<1>8. QED
    BY <1>1, <1>3, <1>7 DEF old, new

Offsets == 0 .. BlockSize - 1

SlotAt(b, o) == b * BlockSize + o

\* The position of the token at offset o of the i-th block of a table.
At(i, o) == (i - 1) * BlockSize + o

UpTo(tokens, i, o) == SubSeq(tokens, 1, At(i, o) + 1)

\* The positions of the i-th block follow those of the blocks before it.
LEMMA Places ==
    ASSUME NEW i \in Nat \ {0}, NEW o \in Offsets
    PROVE  /\ At(i, o) \in Nat /\ i * BlockSize \in Nat
           /\ At(i, o) < i * BlockSize
           /\ i * BlockSize - BlockSize + o + 1 = At(i, o) + 1
           /\ \A m \in Nat : /\ m * BlockSize \in Nat
                             /\ m < i => m * BlockSize <= At(i, o)
<1>1. BlockSize \in Nat \ {0}
    BY BlockSizeAssumption
<1>2. i - 1 \in Nat /\ i = (i - 1) + 1 /\ o \in Nat /\ o < BlockSize
    BY <1>1 DEF Offsets
<1>3. \A m \in Nat : m * BlockSize \in Nat /\ (m + 1) * BlockSize = m * BlockSize + BlockSize
    BY <1>1
<1>4. ASSUME NEW m \in Nat, m < i PROVE m * BlockSize <= (i - 1) * BlockSize
    BY <1>1, <1>2, <1>4, TimesMonotone
<1> PICK b \in Nat : b = (i - 1) * BlockSize
    BY <1>2, <1>3
<1>5. i * BlockSize = b + BlockSize
    BY <1>2, <1>3
<1>6. At(i, o) = b + o
    BY DEF At
<1>7. ASSUME NEW m \in Nat, m < i PROVE m * BlockSize <= At(i, o)
  <2> PICK c \in Nat : c = m * BlockSize
      BY <1>3
  <2>1. c <= b
      BY <1>4, <1>7
  <2>2. QED
      BY <1>2, <1>6, <2>1
<1>8. QED
    BY <1>1, <1>2, <1>3, <1>5, <1>6, <1>7

\* Every position is at one offset of one block.
LEMMA PlaceOf ==
    ASSUME NEW pos \in Nat
    PROVE  /\ (pos \div BlockSize) + 1 \in Nat \ {0} /\ pos % BlockSize \in Offsets
           /\ pos = At((pos \div BlockSize) + 1, pos % BlockSize)
<1> DEFINE d == pos \div BlockSize
<1>1. BlockSize \in Nat \ {0}
    BY BlockSizeAssumption
<1>2. d \in Nat
    BY <1>1, DivTimes
<1>3. pos % BlockSize \in Offsets
    BY <1>1, ModRange DEF Offsets
<1>4. pos = d * BlockSize + (pos % BlockSize)
    BY <1>1
<1> HIDE DEF d
<1> PICK r \in Offsets : r = pos % BlockSize
    BY <1>3
<1>5. (d + 1) - 1 = d /\ pos = d * BlockSize + r
    BY <1>2, <1>4
<1>6. pos = At(d + 1, r)
    BY <1>5 DEF At
<1>7. QED
    BY <1>2, <1>3, <1>6 DEF d

\* The keys of a block and the tokens of a sequence that has the block at place i
\* tell the same.
LEMMA KeyTells ==
    ASSUME NEW t \in Seq(Token), NEW i \in Nat \ {0}, NEW o \in Offsets,
           i * BlockSize <= Len(t), NEW key, key = SubSeq(t, 1, i * BlockSize)
    PROVE  SubSeq(key, 1, Len(key) - BlockSize + o + 1) = UpTo(t, i, o)
<1>1. /\ At(i, o) \in Nat /\ i * BlockSize \in Nat /\ At(i, o) < i * BlockSize
      /\ i * BlockSize - BlockSize + o + 1 = At(i, o) + 1
    BY Places
<1> PICK n \in Nat, m \in Nat : n = i * BlockSize /\ m = At(i, o) + 1
    BY <1>1
<1>2. m <= n /\ n <= Len(t) /\ n - BlockSize + o + 1 = m /\ key = SubSeq(t, 1, n)
    BY <1>1
<1>3. key \in Seq(Token) /\ Len(key) = n /\ \A j \in 1 .. n : key[j] = t[j]
    BY <1>2, SubSeqProperties
<1>4. SubSeq(key, 1, m) = SubSeq(t, 1, m)
  <2> DEFINE u == SubSeq(key, 1, m)
             v == SubSeq(t, 1, m)
  <2>1. u \in Seq(Token) /\ Len(u) = m /\ \A j \in 1 .. m : u[j] = key[j]
      BY <1>2, <1>3, SubSeqProperties
  <2>2. v \in Seq(Token) /\ Len(v) = m /\ \A j \in 1 .. m : v[j] = t[j]
      BY <1>2, SubSeqProperties
  <2> HIDE DEF u, v
  <2>3. \A j \in 1 .. m : u[j] = v[j]
      BY <1>2, <1>3, <2>1, <2>2
  <2>4. u = v
      BY <2>1, <2>2, <2>3, SeqEqual
  <2>5. QED
      BY <2>4 DEF u, v
<1>5. QED
    BY <1>2, <1>3, <1>4 DEF UpTo

\* A position is one offset of one block.
LEMMA PlaceIsOne ==
    ASSUME NEW i \in Nat \ {0}, NEW o \in Offsets
    PROVE  (At(i, o) \div BlockSize) + 1 = i /\ At(i, o) % BlockSize = o
<1>1. At(i, o) \in Nat
    BY Places
<1> PICK pos \in Nat : pos = At(i, o)
    BY <1>1
<1> PICK j \in Nat \ {0}, p \in Offsets :
         j = (pos \div BlockSize) + 1 /\ p = pos % BlockSize
    BY PlaceOf
<1>2. pos = At(j, p)
    BY PlaceOf
<1>3. ASSUME NEW a \in Nat \ {0}, NEW b \in Offsets, NEW c \in Nat \ {0}, NEW d \in Offsets,
             At(a, b) = At(c, d), a < c
      PROVE  FALSE
  <2>1. At(a, b) < a * BlockSize /\ At(a, b) \in Nat /\ a * BlockSize \in Nat
      BY Places
  <2>2. a * BlockSize <= At(c, d)
      BY <1>3, Places
  <2>3. QED
      BY <1>3, <2>1, <2>2
<1>4. i = j
  <2>1. ~(i < j) /\ ~(j < i)
      BY <1>2, <1>3
  <2>2. QED
      BY <2>1
<1>5. (i - 1) * BlockSize \in Nat /\ o \in Nat /\ p \in Nat
    BY BlockSizeAssumption DEF Offsets
<1>6. o = p
    BY <1>2, <1>4, <1>5 DEF At
<1>7. QED
    BY <1>4, <1>6

\* A prefix does not change when tokens are appended.
LEMMA UpToGrows ==
    ASSUME NEW t \in Seq(Token), NEW more \in Seq(Token), NEW i \in Nat \ {0},
           NEW o \in Offsets, At(i, o) < Len(t)
    PROVE  UpTo(t \o more, i, o) = UpTo(t, i, o)
<1> PICK m \in Nat : m = At(i, o) + 1
    BY Places
<1>1. At(i, o) \in Nat
    BY Places
<1>2. m <= Len(t) /\ Len(t) \in Nat
    BY <1>1
<1> PICK w : w = t \o more
    OBVIOUS
<1>3. /\ w \in Seq(Token) /\ Len(t) <= Len(w) /\ Len(w) \in Nat
      /\ \A j \in 1 .. Len(t) : w[j] = t[j]
    OBVIOUS
<1> DEFINE u == SubSeq(w, 1, m)
           v == SubSeq(t, 1, m)
<1>4. u \in Seq(Token) /\ Len(u) = m /\ \A j \in 1 .. m : u[j] = w[j]
    BY <1>2, <1>3, SubSeqProperties
<1>5. v \in Seq(Token) /\ Len(v) = m /\ \A j \in 1 .. m : v[j] = t[j]
    BY <1>2, SubSeqProperties
<1> HIDE DEF u, v
<1>6. \A j \in 1 .. m : u[j] = v[j]
    BY <1>2, <1>3, <1>4, <1>5
<1>7. u = v
    BY <1>4, <1>5, <1>6, SeqEqual
<1>8. QED
    BY <1>7 DEF u, v, UpTo

\* Freed blocks stay registered until they are handed out again.
LEMMA FreeKeepsKeys ==
    ASSUME NEW k, KVInv(k), NEW s
    PROVE  FreeIfAllocated(k, s).block_keys = k.block_keys
BY DEF FreeIfAllocated, Free, KVInv, KVTypes, KVFields
-----------------------------------------------------------------------------
(* Queues of sequences.                                                    *)

LEMMA TailDistinct ==
    ASSUME NEW T, NEW q \in Seq(T), q # << >>, NEW s, s = Head(q)
    PROVE  /\ s \in T /\ s = q[1]
           /\ Tail(q) \in Seq(T) /\ Len(Tail(q)) = Len(q) - 1
           /\ \A i \in 1 .. Len(Tail(q)) : Tail(q)[i] = q[i + 1]
           /\ IsInjective(q) => /\ IsInjective(Tail(q))
                                /\ ToSet(Tail(q)) = ToSet(q) \ {s}
<1> DEFINE r == Tail(q)
<1>1. /\ s \in T /\ s = q[1] /\ Len(q) \in Nat \ {0}
      /\ r \in Seq(T) /\ Len(r) = Len(q) - 1
      /\ \A i \in 1 .. Len(r) : r[i] = q[i + 1]
    OBVIOUS
<1>2. DOMAIN r = 1 .. Len(r) /\ DOMAIN q = 1 .. Len(q)
    BY <1>1
<1> HIDE DEF r
<1>3. \A i \in DOMAIN r : i + 1 \in DOMAIN q /\ i + 1 # 1 /\ r[i] = q[i + 1]
    BY <1>1, <1>2
<1>4. ASSUME IsInjective(q) PROVE IsInjective(r) /\ ToSet(r) = ToSet(q) \ {s}
  <2>1. \A i, j \in DOMAIN q : q[i] = q[j] => i = j
      BY <1>4 DEF IsInjective
  <2>2. \A i, j \in DOMAIN r : r[i] = r[j] => i = j
    <3> TAKE i \in DOMAIN r, j \in DOMAIN r
    <3>1. SUFFICES ASSUME r[i] = r[j] PROVE i = j
        OBVIOUS
    <3>2. i + 1 = j + 1
        BY <1>3, <2>1, <3>1
    <3>3. QED
        BY <1>1, <1>2, <3>2
  <2>3. 1 \in DOMAIN q
      BY <1>1, <1>2
  <2>4. \A i \in DOMAIN r : r[i] \in ToSet(q) /\ r[i] # s
      BY <1>1, <1>3, <2>1, <2>3 DEF ToSet
  <2>5. ASSUME NEW i \in DOMAIN q, q[i] # s PROVE q[i] \in ToSet(r)
    <3>1. i - 1 \in DOMAIN r /\ r[i - 1] = q[i - 1 + 1]
        BY <1>1, <1>2, <2>5
    <3>2. i - 1 + 1 = i
        BY <1>2
    <3>3. QED
        BY <3>1, <3>2 DEF ToSet
  <2>6. ToSet(r) = ToSet(q) \ {s}
      BY <2>4, <2>5 DEF ToSet
  <2>7. QED
      BY <2>2, <2>6 DEF IsInjective
<1>5. QED
    BY <1>1, <1>4 DEF r

\* Two members of q2 stand in q in the same order.
Within(q2, q) ==
    \A x, y \in DOMAIN q2 :
        x < y => \E i, j \in DOMAIN q : i < j /\ q[i] = q2[x] /\ q[j] = q2[y]

LEMMA DeleteWithin ==
    ASSUME NEW q \in Seq(SeqId), NEW s
    PROVE  Delete(q, {s}) \in Seq(SeqId) /\ Within(Delete(q, {s}), q)
<1>1. LET d == Delete(q, {s})
      IN  /\ d \in Seq(SeqId)
          /\ \A x, y \in DOMAIN d :
                 x < y => \E i, j \in DOMAIN q : i < j /\ q[i] = d[x] /\ q[j] = d[y]
    BY DeleteProperties, ZenonT(30)
<1>2. QED
    BY <1>1 DEF Within

\* Where an interval fits, a shorter one does.
LEMMA LessNeedsLess ==
    ASSUME NEW a \in Nat, NEW b \in Int, NEW old \in Int, NEW new \in Int,
           new <= old, a + old <= b
    PROVE  a + new <= b
OBVIOUS

\* Along the queue q, whoever never ran stands behind whoever was preempted.
VictimsFirst(q, sq) ==
    \A i, j \in DOMAIN q :
        i < j /\ sq[q[j]].num_preemptions > 0 => sq[q[i]].num_preemptions > 0

\* A queue that keeps its order, of sequences that keep their count.
LEMMA OrderStays ==
    ASSUME NEW q \in Seq(SeqId), NEW q2 \in Seq(SeqId), NEW sq, NEW sq2,
           VictimsFirst(q, sq), Within(q2, q),
           \A s \in ToSet(q) : sq2[s].num_preemptions = sq[s].num_preemptions
    PROVE  VictimsFirst(q2, sq2)
<1>1. SUFFICES ASSUME NEW x \in DOMAIN q2, NEW y \in DOMAIN q2, x < y,
                      sq2[q2[y]].num_preemptions > 0
               PROVE  sq2[q2[x]].num_preemptions > 0
    BY DEF VictimsFirst
<1>2. PICK i \in DOMAIN q, j \in DOMAIN q : i < j /\ q[i] = q2[x] /\ q[j] = q2[y]
    BY <1>1 DEF Within
<1>3. q[i] \in ToSet(q) /\ q[j] \in ToSet(q)
    BY DEF ToSet
<1>4. sq[q[j]].num_preemptions > 0
    BY <1>1, <1>2, <1>3
<1>5. sq[q[i]].num_preemptions > 0
    BY <1>2, <1>4 DEF VictimsFirst
<1>6. QED
    BY <1>2, <1>3, <1>5

\* Appending a token is appending a sequence of one.
LEMMA AppendConcatenates ==
    ASSUME NEW T, NEW t \in Seq(T), NEW x \in T
    PROVE  Append(t, x) = t \o <<x>> /\ <<x>> \in Seq(T)
OBVIOUS

LEMMA KeepAppendId ==
    ASSUME NEW q \in Seq(SeqId), NEW s \in SeqId, NEW S
    PROVE  Keep(Append(q, s), S) = IF s \in S THEN Append(Keep(q, S), s) ELSE Keep(q, S)
BY KeepAppend

LEMMA DeleteAll ==
    ASSUME NEW T, NEW q \in Seq(T), NEW S
    PROVE  /\ Delete(q, S) \in Seq(T)
           /\ ToSet(Delete(q, S)) = ToSet(q) \ S
           /\ IsInjective(q) => IsInjective(Delete(q, S))
<1> DEFINE R == ToSet(q) \ S
<1>1. Delete(q, S) = Keep(q, R)
    BY DEF Delete
<1>2. R = ToSet(q) \cap R
    OBVIOUS
<1> HIDE DEF R
<1>3. QED
    BY <1>1, <1>2, KeepProperties DEF R

\* Concatenation, as an operator of its own.
Join(a, b) == a \o b

LEMMA KeepJoin ==
    ASSUME NEW a \in Seq(SeqId), NEW b \in Seq(SeqId), NEW S
    PROVE  Join(a, b) \in Seq(SeqId) /\ Keep(Join(a, b), S) = Join(Keep(a, S), Keep(b, S))
<1>1. a \o b \in Seq(SeqId)
    OBVIOUS
<1>2. Keep(a \o b, S) = Keep(a, S) \o Keep(b, S)
    BY KeepConcat
<1>3. QED
    BY <1>1, <1>2 DEF Join

LEMMA JoinAssociative ==
    ASSUME NEW a \in Seq(SeqId), NEW b \in Seq(SeqId), NEW c \in Seq(SeqId)
    PROVE  Join(Join(a, b), c) = Join(a, Join(b, c))
<1>1. (a \o b) \o c = a \o (b \o c)
    BY ConcatAssociative
<1>2. QED
    BY <1>1 DEF Join

\* In a row of three queues one is replaced by one that keeps the same.
LEMMA KeepFirst ==
    ASSUME NEW S, NEW a \in Seq(SeqId), NEW b \in Seq(SeqId), NEW c \in Seq(SeqId),
           NEW a2 \in Seq(SeqId), Keep(a2, S) = Keep(a, S)
    PROVE  Keep(Join(a2, Join(b, c)), S) = Keep(Join(a, Join(b, c)), S)
    BY KeepJoin

LEMMA KeepMiddle ==
    ASSUME NEW S, NEW a \in Seq(SeqId), NEW b \in Seq(SeqId), NEW c \in Seq(SeqId),
           NEW b2 \in Seq(SeqId), Keep(b2, S) = Keep(b, S)
    PROVE  Keep(Join(a, Join(b2, c)), S) = Keep(Join(a, Join(b, c)), S)
    BY KeepJoin

\* The head of a queue, moved to the end of the one before it.
LEMMA MoveOver ==
    ASSUME NEW a \in Seq(SeqId), NEW b \in Seq(SeqId), b # << >>
    PROVE  /\ Join(Append(a, Head(b)), Tail(b)) = Join(a, b)
           /\ Head(b) \in SeqId /\ Tail(b) \in Seq(SeqId)
           /\ Append(a, Head(b)) \in Seq(SeqId)
<1> PICK e : e = Head(b)
    OBVIOUS
<1> DEFINE t == Tail(b)
<1>1. e \in SeqId /\ t \in Seq(SeqId) /\ e = b[1] /\ Len(t) = Len(b) - 1 /\ Len(b) \in Nat \ {0}
      /\ \A i \in 1 .. Len(t) : t[i] = b[i + 1]
    BY TailDistinct
<1> HIDE DEF t
<1>2. <<e>> \o t = b
  <2>1. /\ <<e>> \in Seq(SeqId) /\ Len(<<e>>) = 1 /\ <<e>>[1] = e
      BY <1>1
  <2> PICK u \in Seq(SeqId) : u = <<e>>
      BY <2>1
  <2>2. /\ u \o t \in Seq(SeqId) /\ Len(u \o t) = 1 + Len(t)
        /\ (u \o t)[1] = e /\ \A i \in 2 .. 1 + Len(t) : (u \o t)[i] = t[i - 1]
      BY <1>1, <2>1
  <2>3. ASSUME NEW i \in 1 .. Len(b) PROVE (u \o t)[i] = b[i]
    <3>1. CASE i = 1
        BY <1>1, <2>2, <3>1
    <3>2. CASE i # 1
      <4>1. i \in 2 .. 1 + Len(t) /\ i - 1 \in 1 .. Len(t) /\ (i - 1) + 1 = i
          BY <1>1, <3>2
      <4>2. QED
          BY <1>1, <2>2, <4>1
    <3>3. QED
        BY <3>1, <3>2
  <2> PICK v \in Seq(SeqId) : v = u \o t
      BY <2>2
  <2>4. Len(v) = Len(b)
      BY <1>1, <2>2
  <2>5. v = b
      BY <2>3, <2>4, SeqEqual
  <2>6. QED
      BY <2>5
<1>3. Append(a, e) = a \o <<e>> /\ <<e>> \in Seq(SeqId)
    BY <1>1, AppendIsConcat
<1>4. (a \o <<e>>) \o t = a \o (<<e>> \o t)
    BY <1>1, <1>3, ConcatAssociative
<1>5. Append(a, e) \in Seq(SeqId)
    BY <1>1
<1>6. Append(a, e) \o t = a \o b
    BY <1>2, <1>3, <1>4
<1>7. Join(Append(a, e), t) = Join(a, b)
    BY <1>6 DEF Join
<1>8. QED
    BY <1>1, <1>2, <1>5, <1>7 DEF t

\* The head of a queue is none of N: what is left keeps the same.
LEMMA KeepTail ==
    ASSUME NEW N, NEW w \in Seq(SeqId), NEW t \in Seq(SeqId), t # << >>, Head(t) \notin N
    PROVE  Keep(Join(w, Tail(t)), N) = Keep(Join(w, t), N)
<1>6. ASSUME NEW x \in Seq(SeqId), NEW y \in Seq(SeqId)
      PROVE  Keep(Join(x, y), N) = Join(Keep(x, N), Keep(y, N))
    BY KeepJoin
<1>1. /\ Join(Append(w, Head(t)), Tail(t)) = Join(w, t)
      /\ Head(t) \in SeqId /\ Tail(t) \in Seq(SeqId) /\ Append(w, Head(t)) \in Seq(SeqId)
    BY MoveOver
<1>2. Keep(Append(w, Head(t)), N) = Keep(w, N)
    BY <1>1, KeepAppendId
<1> PICK x \in Seq(SeqId), y \in Seq(SeqId) : x = Append(w, Head(t)) /\ y = Tail(t)
    BY <1>1
<1>3. Keep(Join(x, y), N) = Join(Keep(x, N), Keep(y, N))
    BY <1>6
<1>4. Keep(Join(w, y), N) = Join(Keep(w, N), Keep(y, N))
    BY <1>6
<1>5. QED
    BY <1>1, <1>2, <1>3, <1>4

\* The same request, in a queue that keeps the same.
LEMMA KeepRest ==
    ASSUME NEW N, NEW w \in Seq(SeqId), NEW t \in Seq(SeqId),
           NEW w2 \in Seq(SeqId), Keep(w2, N) = Keep(w, N)
    PROVE  Keep(Join(w2, t), N) = Keep(Join(w, t), N)
    BY KeepJoin
=============================================================================
