--------------------------- MODULE StartupProofs ----------------------------
(***************************************************************************)
(* What LLM.__init__ leaves, for any device, any configuration and any     *)
(* checkpoint.                                                             *)
(*                                                                         *)
(* First the cache: padding and the size of the pool, for any memory, any  *)
(* number of layers and any number of out-of-memory errors.  What carries  *)
(* that proof is where an attempt stands: every tensor there is has alloc  *)
(* blocks while the layers are filled, and from the end of the call on     *)
(* nothing changes but the engine, the decode inputs and the blocks padded *)
(* rows have stored into.                                                  *)
(*                                                                         *)
(* Then the model.  While the keys are read, every shard that is kept and  *)
(* every parameter that is loaded is the last tensor read under its name;  *)
(* a merged parameter is its shards, end to end, and as long as it should  *)
(* be.  At most one tensor of a checkpoint has another shape, so that a    *)
(* merged parameter of the right length has all its shards in their place. *)
(***************************************************************************)
EXTENDS Startup, OrderedKeysProofs


\* The larger of one and any number is one at least.
LEMMA OneAtLeast ==
    ASSUME NEW x \in Int
    PROVE  Max({1, x}) \in Nat \ {0}
<1> DEFINE Largest(z) == z \in {1, x} /\ \A w \in {1, x} : z >= w
<1>1. \E z : Largest(z)
  <2>1. CASE 1 >= x
    BY <2>1
  <2>2. CASE ~(1 >= x)
    BY <2>2
  <2> QED BY <2>1, <2>2
<1>2. Max({1, x}) = CHOOSE z : Largest(z)
  BY DEF Max
<1>3. Largest(CHOOSE z : Largest(z))
  BY <1>1
<1> QED BY <1>2, <1>3

LEMMA MinOfTwo ==
    ASSUME NEW x \in Int, NEW y \in Int
    PROVE  Min({x, y}) \in Int
<1> DEFINE Smallest(z) == z \in {x, y} /\ \A w \in {x, y} : z <= w
<1>1. \E z : Smallest(z)
  <2>1. CASE x <= y
    BY <2>1
  <2>2. CASE ~(x <= y)
    BY <2>2
  <2> QED BY <2>1, <2>2
<1>2. Min({x, y}) = CHOOSE z : Smallest(z)
  BY DEF Min
<1>3. Smallest(CHOOSE z : Smallest(z))
  BY <1>1
<1> QED BY <1>2, <1>3

\* One is a bucket, and the bucket of one.
LEMMA BucketOfOne == CeilToBucket(1, BatchBuckets) = 1
<1> DEFINE S == {b \in BatchBuckets : b >= 1}
           Smallest(z) == z \in S /\ \A w \in S : z <= w
<1>1. Smallest(1)
  BY BucketsAssumption
<1>2. \A z : Smallest(z) => z = 1
  BY <1>1, BucketsAssumption
<1>3. Min(S) = CHOOSE z : Smallest(z)
  BY DEF Min
<1>4. Smallest(CHOOSE z : Smallest(z))
  BY <1>1
<1> QED BY <1>2, <1>3, <1>4 DEF CeilToBucket

-----------------------------------------------------------------------------
DeviceInv ==
    /\ cuda \in BOOLEAN
    /\ use_cuda_graphs \in BOOLEAN
    /\ memory \in [allocated : Nat, free : Nat]

\* While the layers are filled.
FillingInv ==
    /\ kv_cache \in [Layer -> Int]
    /\ pc = "filling" =>
          /\ alloc \in Nat \ {0}
          /\ num_blocks = None
          /\ \A l \in Layer : kv_cache[l] \in {None, alloc}

\* Before the call has returned, and after.
BeforeInv ==
    num_blocks = None =>
        /\ pc # "filling" => \A l \in Layer : kv_cache[l] = None
        /\ pool = None
        /\ staging_dummy = None
        /\ padded_into = {}

AfterInv ==
    num_blocks # None =>
        /\ alloc \in Nat \ {0}
        /\ \A l \in Layer : kv_cache[l] = alloc
        /\ num_blocks = PoolBlocks(alloc)
        /\ dummy_block = IF HasDummy(alloc) THEN alloc - 1 ELSE 0
        /\ kv_profile = Profile(num_blocks)
        /\ pool \in {None, num_blocks}
        /\ staging_dummy \in {None, dummy_block}
        /\ padded_into \subseteq {dummy_block}
        /\ padded_into # {} => HasDummy(alloc)

Inv == DeviceInv /\ FillingInv /\ BeforeInv /\ AfterInv

\* The estimate is a block at least.
LEMMA SomeBlocks ==
    ASSUME DeviceInv
    PROVE  DetermineNumBlocks \in Nat \ {0}
<1>1. CASE ~cuda
  BY <1>1, SizesAssumption DEF DetermineNumBlocks
<1>2. CASE cuda /\ AvailableForKV > 0
  <2>1. AvailableForKV \in Int
    BY MinOfTwo, MemoryAssumption DEF AvailableForKV, DeviceInv
  <2>2. PICK n \in Int : n = AvailableForKV \div BytesPerBlock
    BY <2>1, SizesAssumption
  <2>3. Max({1, n}) \in Nat \ {0}
    BY OneAtLeast
  <2>4. DetermineNumBlocks = Max({1, n})
    BY <1>2, <2>2 DEF DetermineNumBlocks
  <2> QED BY <2>3, <2>4
<1>3. CASE cuda /\ ~(AvailableForKV > 0)
  BY <1>3 DEF DetermineNumBlocks
<1> QED BY <1>1, <1>2, <1>3 DEF DeviceInv

LEMMA InitInv == Init => Inv
<1> SUFFICES ASSUME Init PROVE Inv
  OBVIOUS
<1>1. DeviceInv
  BY MemoryAssumption DEF Init, DeviceInv
<1>2. FillingInv /\ BeforeInv /\ AfterInv
  BY DEF Init, FillingInv, BeforeInv, AfterInv, None
<1> QED BY <1>1, <1>2 DEF Inv

LEMMA AllocateInv == Inv /\ Allocate => Inv'
<1> SUFFICES ASSUME Inv, Allocate PROVE Inv'
  OBVIOUS
<1>1. alloc' \in Nat \ {0}
  BY SomeBlocks DEF Allocate, Inv, DeviceInv
<1>2. DeviceInv' /\ BeforeInv' /\ AfterInv'
  BY DEF Inv, Allocate, DeviceInv, BeforeInv, AfterInv
<1>3. FillingInv'
  BY <1>1 DEF Inv, Allocate, FillingInv, BeforeInv
<1> QED BY <1>2, <1>3 DEF Inv

LEMMA AllocLayerInv == Inv /\ AllocLayer => Inv'
<1> SUFFICES ASSUME Inv, AllocLayer PROVE Inv'
  OBVIOUS
<1>1. PICK l \in Layer : kv_cache' = [kv_cache EXCEPT ![l] = alloc]
  BY DEF AllocLayer
<1>2. FillingInv'
  BY <1>1 DEF Inv, AllocLayer, FillingInv
<1>3. DeviceInv' /\ BeforeInv' /\ AfterInv'
  BY DEF Inv, AllocLayer, FillingInv, DeviceInv, BeforeInv, AfterInv
<1> QED BY <1>2, <1>3 DEF Inv

LEMMA HalvedPositive ==
    ASSUME NEW n \in Nat \ {0} PROVE Halved(n) \in Nat \ {0}
<1>1. PICK half \in Int : half = n \div 2
  OBVIOUS
<1>2. Max({1, half}) \in Nat \ {0}
  BY OneAtLeast
<1>3. Halved(n) = Max({1, half})
  BY <1>1, Zenon DEF Halved
<1> QED BY <1>2, <1>3

LEMMA OutOfMemoryInv == Inv /\ OutOfMemory => Inv'
<1> SUFFICES ASSUME Inv, OutOfMemory PROVE Inv'
  OBVIOUS
<1>1. num_blocks = None /\ alloc \in Nat \ {0}
  BY DEF Inv, OutOfMemory, FillingInv
<1>2. alloc' \in Nat \ {0}
  BY <1>1, HalvedPositive DEF OutOfMemory
<1>3. kv_cache' \in [Layer -> Int] /\ \A l \in Layer : kv_cache'[l] = None
  BY DEF OutOfMemory, None
<1>4. FillingInv'
  BY <1>1, <1>2, <1>3 DEF OutOfMemory, FillingInv
<1>5. DeviceInv' /\ BeforeInv' /\ AfterInv'
  BY <1>1, <1>3 DEF Inv, OutOfMemory, DeviceInv, BeforeInv, AfterInv
<1> QED BY <1>4, <1>5 DEF Inv

LEMMA EndAllocateInv == Inv /\ EndAllocate => Inv'
<1> SUFFICES ASSUME Inv, EndAllocate PROVE Inv'
  OBVIOUS
<1>1. alloc \in Nat \ {0} /\ \A l \in Layer : kv_cache[l] = alloc
  BY DEF Inv, EndAllocate, FillingInv
<1>2. num_blocks = None
  BY DEF Inv, EndAllocate, FillingInv
<1>3. num_blocks' = PoolBlocks(alloc) /\ num_blocks' # None
  BY <1>1 DEF EndAllocate, PoolBlocks, HasDummy, None
<1>4. AfterInv'
  BY <1>1, <1>2, <1>3
  DEF Inv, EndAllocate, BeforeInv, AfterInv, PoolBlocks, HasDummy, Profile
<1>5. DeviceInv' /\ FillingInv' /\ BeforeInv'
  BY <1>3 DEF Inv, EndAllocate, DeviceInv, FillingInv, BeforeInv
<1> QED BY <1>4, <1>5 DEF Inv

LEMMA EngineInitInv == Inv /\ EngineInit => Inv'
  BY DEF Inv, EngineInit, DeviceInv, FillingInv, BeforeInv, AfterInv,
         PoolBlocks, HasDummy, Profile

\* A step pads only when the pool has a dummy block of its own: in a pool of
\* one, the only batch is a batch of one.
LEMMA DecodeStepInv ==
    ASSUME Inv, NEW n \in Nat \ {0}, DecodeStep(n)
    PROVE  Inv'
<1>1. num_blocks # None /\ pool = num_blocks
  BY DEF Inv, DecodeStep, BeforeInv, AfterInv
<1>2. staging_dummy' = dummy_block
  BY <1>1 DEF Inv, DecodeStep, AfterInv
<1>3. n < CeilToBucket(n, BatchBuckets) => HasDummy(alloc)
  <2> SUFFICES ASSUME ~HasDummy(alloc) PROVE ~(n < CeilToBucket(n, BatchBuckets))
    OBVIOUS
  <2>1. alloc = 1 /\ pool = 1
    BY <1>1 DEF Inv, DecodeStep, AfterInv, HasDummy, PoolBlocks
  <2>2. n = 1
    BY <2>1 DEF DecodeStep
  <2> QED BY <2>2, BucketOfOne
<1>4. padded_into' \subseteq {dummy_block} /\ (padded_into' # {} => HasDummy(alloc))
  BY <1>1, <1>2, <1>3 DEF Inv, DecodeStep, AfterInv
<1>5. AfterInv'
  BY <1>1, <1>2, <1>4
  DEF Inv, DecodeStep, AfterInv, PoolBlocks, HasDummy, Profile
<1>6. DeviceInv' /\ FillingInv' /\ BeforeInv'
  BY <1>1 DEF Inv, DecodeStep, DeviceInv, FillingInv, BeforeInv
<1> QED BY <1>5, <1>6 DEF Inv

LEMMA NextInv == Inv /\ [Next]_vars => Inv'
<1> SUFFICES ASSUME Inv, [Next]_vars PROVE Inv'
  OBVIOUS
<1>1. CASE Allocate
  BY <1>1, AllocateInv
<1>2. CASE AllocLayer
  BY <1>2, AllocLayerInv
<1>3. CASE OutOfMemory
  BY <1>3, OutOfMemoryInv
<1>4. CASE EndAllocate
  BY <1>4, EndAllocateInv
<1>5. CASE EngineInit
  BY <1>5, EngineInitInv
<1>6. CASE \E n \in 1 .. Max(BatchBuckets) : DecodeStep(n)
  BY <1>6, DecodeStepInv
<1>7. CASE UNCHANGED vars
  BY <1>7 DEF vars, Inv, DeviceInv, FillingInv, BeforeInv, AfterInv,
              PoolBlocks, HasDummy, Profile
<1> QED BY <1>1, <1>2, <1>3, <1>4, <1>5, <1>6, <1>7 DEF Next, AllocationStep

LEMMA AllocationInvariant == Spec => []Inv
  BY InitInv, NextInv, PTL DEF Spec

\* Padded rows store outside the pool and inside every tensor, whatever the
\* device reported and however often it ran out of memory.
THEOREM PaddingKeepsOff == Spec => []PaddingOffThePool
<1>1. Inv => PaddingOffThePool
  <2> SUFFICES ASSUME Inv PROVE PaddingOffThePool
    OBVIOUS
  <2>1. CASE padded_into = {}
    BY <2>1 DEF PaddingOffThePool
  <2>2. CASE padded_into # {}
    <3>1. num_blocks # None
      BY <2>2 DEF Inv, BeforeInv
    <3>2. /\ padded_into \subseteq {alloc - 1} /\ pool \in {None, alloc - 1}
          /\ alloc \in Nat \ {0} /\ \A l \in Layer : kv_cache[l] = alloc
      BY <2>2, <3>1 DEF Inv, AfterInv, PoolBlocks
    <3> QED BY <3>2 DEF PaddingOffThePool, None
  <2> QED BY <2>1, <2>2
<1> QED BY <1>1, AllocationInvariant, PTL

\* The pool the engine hands out exists in the tensor of every layer.
THEOREM PoolBacked == Spec => []PoolIsBacked
<1>1. Inv => PoolIsBacked
  <2> SUFFICES ASSUME Inv, pool # None PROVE
          /\ pool > 0
          /\ \A l \in Layer : kv_cache[l] >= pool /\ kv_cache[l] = kv_cache[1]
          /\ kv_profile = Profile(pool)
    BY DEF PoolIsBacked
  <2>1. num_blocks # None /\ pool = num_blocks
    BY DEF Inv, BeforeInv, AfterInv
  <2>2. pool > 0 /\ pool <= alloc /\ alloc \in Nat
    BY <2>1 DEF Inv, AfterInv, PoolBlocks, HasDummy
  <2>3. 1 \in Layer
    BY SizesAssumption DEF Layer
  <2>4. \A l \in Layer : kv_cache[l] = alloc
    BY <2>1 DEF Inv, AfterInv
  <2> QED BY <2>1, <2>2, <2>3, <2>4 DEF Inv, AfterInv
<1> QED BY <1>1, AllocationInvariant, PTL

-----------------------------------------------------------------------------
(* Names, sizes and checkpoints.                                           *)

Projs == ShardProjs \cup PlainProjs \cup {"lm_head"}
Tails == QKVTails \cup GateTails \cup {name.tail : name \in PlainNames} \cup {"weight", "unknown"}
TensorRows == [proj : Projs, tail : Tails, row : Nat, copy : Nat]
Entries == [name : Names, tensor : Seq(TensorRows)]

HeadsDivide == config.hidden_size % config.num_attention_heads = 0

WellShaped(e) == Len(e.tensor) = NumRows(e.name.proj)

\* At most one tensor of a checkpoint has another shape than it should.
Sound(ck) ==
    /\ ck \in Seq(Entries)
    /\ \A i \in 1 .. Len(ck) : ck[i].name.proj \notin {"qkv_proj", "gate_up_proj"}
    /\ \A i, j \in 1 .. Len(ck) : ~WellShaped(ck[i]) /\ ~WellShaped(ck[j]) => i = j

LEMMA ProductPositive ==
    ASSUME NEW a \in Nat \ {0}, NEW b \in Nat \ {0}
    PROVE  a * b \in Nat \ {0}
OBVIOUS

LEMMA QuotientPositive ==
    ASSUME NEW a \in Nat \ {0}, NEW d \in Nat \ {0}, a % d = 0
    PROVE  a \div d \in Nat \ {0}
<1>1. a = d * (a \div d) + (a % d) /\ a \div d \in Nat
    BY SMT
<1>2. a = d * (a \div d)
    BY <1>1
<1>3. a \div d # 0
    BY <1>1, <1>2
<1>4. QED
    BY <1>1, <1>3

\* The sizes of a configuration that passed the assertions.
LEMMA SizesPositive ==
    ASSUME config \in Configs, HeadsDivide
    PROVE  /\ QSize \in Nat \ {0} /\ KVSize \in Nat \ {0}
           /\ config.intermediate_size \in Nat \ {0}
           /\ config.vocab_size \in Nat \ {0} /\ config.hidden_size \in Nat \ {0}
<1>1. /\ config.vocab_size \in Nat \ {0} /\ config.hidden_size \in Nat \ {0}
      /\ config.intermediate_size \in Nat \ {0}
      /\ config.num_attention_heads \in Nat \ {0}
      /\ config.num_key_value_heads \in Nat \ {0}
    BY ConfigsAssumption
<1>2. HeadDim \in Nat \ {0}
    BY <1>1, QuotientPositive DEF HeadDim, HeadsDivide
<1>3. QED
    BY <1>1, <1>2, ProductPositive DEF QSize, KVSize

LEMMA NumRowsAre ==
    ASSUME config \in Configs, HeadsDivide
    PROVE  /\ NumRows("qkv_proj") = QSize + 2 * KVSize
           /\ NumRows("gate_up_proj") = 2 * config.intermediate_size
           /\ NumRows("q_proj") = QSize
           /\ NumRows("k_proj") = KVSize /\ NumRows("v_proj") = KVSize
           /\ NumRows("gate_proj") = config.intermediate_size
           /\ NumRows("up_proj") = config.intermediate_size
           /\ \A p \in Projs : NumRows(p) \in Nat \ {0}
<1>1. PICK s \in Nat \ {0}, kv \in Nat \ {0}, m \in Nat \ {0}, u \in Nat \ {0}, h \in Nat \ {0} :
          /\ s = QSize /\ kv = KVSize /\ m = config.intermediate_size
          /\ u = config.vocab_size /\ h = config.hidden_size
    BY SizesPositive
<1>2. \A p : NumRows(p) =
          CASE p = "qkv_proj" -> s + 2 * kv
            [] p = "gate_up_proj" -> 2 * m
            [] p = "q_proj" -> s
            [] p \in {"k_proj", "v_proj"} -> kv
            [] p \in {"gate_proj", "up_proj"} -> m
            [] p \in {"embed_tokens", "lm_head"} -> u
            [] OTHER -> h
    BY <1>1 DEF NumRows
<1>3. /\ NumRows("qkv_proj") = s + 2 * kv /\ NumRows("gate_up_proj") = 2 * m
      /\ NumRows("q_proj") = s /\ NumRows("k_proj") = kv /\ NumRows("v_proj") = kv
      /\ NumRows("gate_proj") = m /\ NumRows("up_proj") = m
    BY <1>2
<1>4. \A p \in Projs : NumRows(p) \in Nat \ {0}
  <2>1. TAKE p \in Projs
  <2>2. \/ NumRows(p) = s + 2 * kv \/ NumRows(p) = 2 * m \/ NumRows(p) = s
        \/ NumRows(p) = kv \/ NumRows(p) = m \/ NumRows(p) = u \/ NumRows(p) = h
      BY <1>2
  <2>3. ASSUME NEW x, \/ x = s + 2 * kv \/ x = 2 * m \/ x = s \/ x = kv
                      \/ x = m \/ x = u \/ x = h
        PROVE  x \in Nat \ {0}
      BY <2>3
  <2>4. QED
      BY <2>2, <2>3, Zenon
<1>5. QED
    BY <1>1, <1>3, <1>4

LEMMA NamesAre ==
    /\ Names = [proj : Projs, tail : Tails]
    /\ {"q_proj", "o_proj"} \subseteq Projs /\ "unknown" \in Tails
    /\ \A p \in Projs : p \notin {"qkv_proj", "gate_up_proj"}
BY DEF Names, Projs, Tails, ShardProjs, PlainProjs

LEMMA Replaced ==
    ASSUME NEW T, NEW u \in Seq(T), NEW i \in 1 .. Len(u), NEW x \in T
    PROVE  LET v == [u EXCEPT ![i] = x]
           IN  /\ v \in Seq(T) /\ Len(v) = Len(u) /\ v[i] = x
               /\ \A j \in 1 .. Len(u) : j # i => v[j] = u[j]
OBVIOUS

LEMMA TensorTyped ==
    ASSUME NEW name \in Names, NEW copy \in Nat, NEW n \in Nat
    PROVE  Tensor(name, copy, n) \in Seq(TensorRows) /\ Len(Tensor(name, copy, n)) = n
<1>1. \A i \in 1 .. n : [proj |-> name.proj, tail |-> name.tail, row |-> i, copy |-> copy] \in TensorRows
    BY NamesAre DEF TensorRows
<1>2. QED
    BY <1>1 DEF Tensor

Entry(name, copy, n) == [name |-> name, tensor |-> Tensor(name, copy, n)]

LEMMA EntryTyped ==
    ASSUME NEW name \in Names, NEW copy \in Nat, NEW n \in Nat
    PROVE  /\ Entry(name, copy, n) \in Entries
           /\ Entry(name, copy, n).name = name
           /\ Len(Entry(name, copy, n).tensor) = n
BY TensorTyped DEF Entry, Entries

\* Every checkpoint that is loaded is sound.
LEMMA CheckpointsSound ==
    ASSUME config \in Configs, HeadsDivide,
           NEW order \in KeyOrders, NEW ck \in CheckpointsOf(order)
    PROVE  Sound(ck)
<1> DEFINE whole == [i \in DOMAIN order |-> Entry(order[i], 1, NumRows(order[i].proj))]
           n == Len(order)
           Plain(e) == e.name.proj \notin {"qkv_proj", "gate_up_proj"}
           Good(e) == e \in Entries /\ Plain(e) /\ WellShaped(e)
<1>1. /\ order \in Seq(Names) /\ n \in Nat /\ DOMAIN order = 1 .. n
      /\ \A i \in 1 .. n : order[i] \in Names
                           /\ order[i].proj \notin {"qkv_proj", "gate_up_proj"}
  <2>1. order \in Seq(Names)
      BY NamesAssumption
  <2>2. \A name \in Names : name.proj \notin {"qkv_proj", "gate_up_proj"}
      BY NamesAre
  <2>3. QED
      BY <2>1, <2>2
<1>2. ASSUME NEW name \in Names, NEW copy \in Nat, name.proj \notin {"qkv_proj", "gate_up_proj"}
      PROVE  Good(Entry(name, copy, NumRows(name.proj)))
  <2>1. NumRows(name.proj) \in Nat
      BY NumRowsAre, NamesAre
  <2>2. QED
      BY <1>2, <2>1, EntryTyped DEF WellShaped
<1>3. /\ whole \in Seq(Entries) /\ Len(whole) = n /\ DOMAIN whole = 1 .. n
      /\ \A i \in 1 .. n : Good(whole[i])
  <2>1. \A i \in 1 .. n : Good(Entry(order[i], 1, NumRows(order[i].proj)))
      BY <1>1, <1>2
  <2> HIDE DEF Good
  <2>2. \A i \in 1 .. n : Good(whole[i])
      BY <1>1, <2>1
  <2>3. \A i \in 1 .. n : whole[i] \in Entries
      BY <2>2 DEF Good
  <2>4. whole = [i \in 1 .. n |-> whole[i]]
      BY <1>1
  <2> HIDE DEF whole
  <2>5. whole \in Seq(Entries) /\ Len(whole) = n /\ DOMAIN whole = 1 .. n
      BY <1>1, <2>3, <2>4
  <2>6. QED
      BY <2>2, <2>5
<1>4. \/ ck = whole
      \/ \E i \in DOMAIN whole : ck = RemoveAt(whole, i)
      \/ \E name \in ToSet(order) : ck = Append(whole, Entry(name, 2, NumRows(name.proj)))
      \/ \E i \in DOMAIN whole : ck = [whole EXCEPT ![i].tensor = Tail(@)]
      \/ \E p \in {"q_proj", "o_proj"} : ck = Append(whole, Entry([proj |-> p, tail |-> "unknown"], 1, 1))
    BY DEF CheckpointsOf, Entry
<1>5. ASSUME NEW e \in Entries, Good(e) PROVE WellShaped(e) /\ Plain(e)
    BY <1>5
<1> HIDE DEF whole, n
<1>6. CASE ck = whole
    BY <1>3, <1>6 DEF Sound
<1>7. CASE \E i \in DOMAIN whole : ck = RemoveAt(whole, i)
  <2>1. PICK i \in 1 .. n : ck = SubSeq(whole, 1, i - 1) \o SubSeq(whole, i + 1, n)
      BY <1>3, <1>7 DEF RemoveAt
  <2> DEFINE a == SubSeq(whole, 1, i - 1)
             b == SubSeq(whole, i + 1, n)
  <2>2. /\ a \in Seq(Entries) /\ b \in Seq(Entries)
        /\ \A j \in 1 .. Len(a) : \E l \in 1 .. n : a[j] = whole[l]
        /\ \A j \in 1 .. Len(b) : \E l \in 1 .. n : b[j] = whole[l]
    <3>1. i \in Nat /\ n \in Nat /\ 1 <= i /\ i <= n
        BY <1>1
    <3>2. /\ a \in Seq(Entries) /\ Len(a) = i - 1
          /\ \A j \in 1 .. i - 1 : a[j] = whole[j]
        BY <1>3, <3>1
    <3>3. /\ b \in Seq(Entries) /\ Len(b) = n - i
          /\ \A j \in 1 .. n - i : b[j] = whole[j + i]
        BY <1>3, <3>1
    <3>4. (\A j \in 1 .. i - 1 : j \in 1 .. n) /\ (\A j \in 1 .. n - i : j + i \in 1 .. n)
        BY <3>1
    <3> HIDE DEF a, b
    <3>5. QED
        BY <3>2, <3>3, <3>4
  <2> HIDE DEF a, b
  <2>3. /\ ck \in Seq(Entries)
        /\ \A j \in 1 .. Len(ck) : (\E l \in 1 .. Len(a) : ck[j] = a[l])
                                    \/ (\E l \in 1 .. Len(b) : ck[j] = b[l])
    <3>1. /\ a \o b \in Seq(Entries) /\ Len(a \o b) = Len(a) + Len(b)
          /\ Len(a) \in Nat /\ Len(b) \in Nat
          /\ \A j \in 1 .. Len(a) + Len(b) :
                 (a \o b)[j] = IF j <= Len(a) THEN a[j] ELSE b[j - Len(a)]
        BY <2>2, ConcatProperties
    <3>2. ASSUME NEW j \in 1 .. Len(a) + Len(b)
          PROVE  j \in 1 .. Len(a) \/ (~(j <= Len(a)) /\ j - Len(a) \in 1 .. Len(b))
        BY <3>1
    <3>3. ck = a \o b
        BY <2>1 DEF a, b
    <3>4. QED
        BY <3>1, <3>2, <3>3
  <2>4. \A j \in 1 .. Len(ck) : \E l \in 1 .. n : ck[j] = whole[l]
    <3>1. TAKE j \in 1 .. Len(ck)
    <3>2. CASE \E l \in 1 .. Len(a) : ck[j] = a[l]
      <4>1. PICK l \in 1 .. Len(a) : ck[j] = a[l]
          BY <3>2
      <4>2. QED
          BY <2>2, <4>1
    <3>3. CASE \E l \in 1 .. Len(b) : ck[j] = b[l]
      <4>1. PICK l \in 1 .. Len(b) : ck[j] = b[l]
          BY <3>3
      <4>2. QED
          BY <2>2, <4>1
    <3>4. QED
        BY <2>3, <3>2, <3>3
  <2>5. \A j \in 1 .. Len(ck) : WellShaped(ck[j]) /\ Plain(ck[j])
      BY <1>3, <2>4
  <2>6. QED
      BY <2>3, <2>5 DEF Sound
<1>8. ASSUME NEW e \in Entries, Plain(e), ck = Append(whole, e)
      PROVE  Sound(ck)
  <2>1. /\ ck \in Seq(Entries) /\ Len(ck) = n + 1 /\ ck[n + 1] = e
        /\ \A j \in 1 .. n : ck[j] = whole[j]
      BY <1>1, <1>3, <1>8
  <2>2. \A j \in 1 .. n + 1 : j \in 1 .. n \/ j = n + 1
      BY <1>1
  <2>3. \A j \in 1 .. n : WellShaped(ck[j]) /\ Plain(ck[j])
      BY <1>3, <2>1
  <2>4. QED
      BY <1>8, <2>1, <2>2, <2>3 DEF Sound
<1>9. CASE \E name \in ToSet(order) : ck = Append(whole, Entry(name, 2, NumRows(name.proj)))
  <2>1. PICK name \in ToSet(order) : ck = Append(whole, Entry(name, 2, NumRows(name.proj)))
      BY <1>9
  <2>2. name \in Names /\ name.proj \notin {"qkv_proj", "gate_up_proj"}
      BY <1>1 DEF ToSet
  <2>3. Good(Entry(name, 2, NumRows(name.proj)))
      BY <1>2, <2>2
  <2>4. QED
      BY <1>8, <2>1, <2>3
<1>10. CASE \E p \in {"q_proj", "o_proj"} :
                ck = Append(whole, Entry([proj |-> p, tail |-> "unknown"], 1, 1))
  <2>1. PICK p \in {"q_proj", "o_proj"} :
            ck = Append(whole, Entry([proj |-> p, tail |-> "unknown"], 1, 1))
      BY <1>10
  <2>2. PICK name \in Names : name = [proj |-> p, tail |-> "unknown"]
    <3>1. p \in Projs /\ "unknown" \in Tails
        BY <2>1, NamesAre
    <3>2. [proj |-> p, tail |-> "unknown"] \in Names
        BY <3>1, NamesAre
    <3>3. QED
        BY <3>2
  <2>3. Entry(name, 1, 1) \in Entries /\ Entry(name, 1, 1).name = name
      BY EntryTyped
  <2>4. name.proj = p
      BY <2>2
  <2>5. QED
      BY <1>8, <2>1, <2>2, <2>3, <2>4
<1>11. CASE \E i \in DOMAIN whole : ck = [whole EXCEPT ![i].tensor = Tail(@)]
  <2>1. PICK i \in 1 .. n : ck = [whole EXCEPT ![i].tensor = Tail(@)]
      BY <1>3, <1>11
  <2>2. PICK e \in Entries : e = whole[i] /\ WellShaped(e) /\ Plain(e)
      BY <1>3
  <2>3. e.name \in Names /\ e.tensor \in Seq(TensorRows) /\ Len(e.tensor) # 0
    <3>1. e.name \in Names /\ e.tensor \in Seq(TensorRows)
        BY DEF Entries
    <3>2. NumRows(e.name.proj) \in Nat \ {0}
        BY <3>1, NumRowsAre, NamesAre
    <3>3. QED
        BY <2>2, <3>1, <3>2 DEF WellShaped
  <2>4. PICK w \in Seq(TensorRows) : w = Tail(e.tensor)
    <3>1. \A u \in Seq(TensorRows) : Len(u) # 0 => Tail(u) \in Seq(TensorRows)
        OBVIOUS
    <3>2. Tail(e.tensor) \in Seq(TensorRows)
        BY <2>3, <3>1, Zenon
    <3>3. QED
        BY <3>2
  <2> DEFINE f == [e EXCEPT !.tensor = w]
  <2>5. f \in Entries /\ f.name = e.name
      BY <2>3 DEF Entries
  <2> HIDE DEF f
  <2>6. ck = [whole EXCEPT ![i] = f]
      BY <2>1, <2>2, <2>4 DEF f
  <2>7. /\ ck \in Seq(Entries) /\ Len(ck) = n /\ ck[i] = f
        /\ \A j \in 1 .. n : j # i => ck[j] = whole[j]
      BY <1>3, <2>5, <2>6, Replaced
  <2>8. \A j \in 1 .. n : j # i => WellShaped(ck[j]) /\ Plain(ck[j])
      BY <1>3, <2>7
  <2>9. QED
      BY <2>2, <2>5, <2>7, <2>8 DEF Sound
<1>12. QED
    BY <1>4, <1>6, <1>7, <1>9, <1>10, <1>11


-----------------------------------------------------------------------------
(* What has been read.                                                     *)

\* The places among the first c that have a name, and the tensor of the last.
At(ck, c, name) == {i \in 1 .. c : ck[i].name = name}
TensorAt(ck, c, name) == ck[Max(At(ck, c, name))].tensor

Shard(p, key) == [proj |-> p, tail |-> key.tail]

\* A shard is the last tensor that was read under its name.
ShardsRead(ck, c, mg) ==
    \A key \in DOMAIN mg : \A p \in DOMAIN mg[key] :
        /\ p \in ShardProjs
        /\ key = MergedName(Shard(p, key))
        /\ At(ck, c, Shard(p, key)) # {}
        /\ mg[key][p] = TensorAt(ck, c, Shard(p, key))

\* So is a parameter that is loaded as it is.
ParamsRead(ck, c, ld, ps) ==
    \A name \in ld : name.proj \notin {"qkv_proj", "gate_up_proj"} =>
        /\ At(ck, c, name) # {}
        /\ ps[name] = TensorAt(ck, c, name)

\* A merged parameter that is loaded is its shards.
IsMerged(key, mg, ps) ==
    /\ key \in DOMAIN mg /\ Shards(key) \subseteq DOMAIN mg[key]
    /\ ps[key] = IF key.proj = "qkv_proj"
                 THEN mg[key]["q_proj"] \o mg[key]["k_proj"] \o mg[key]["v_proj"]
                 ELSE mg[key]["gate_proj"] \o mg[key]["up_proj"]
    /\ Len(ps[key]) = NumRows(key.proj)

MergedRight(ld, mg, ps) ==
    \A key \in ld : key.proj \in {"qkv_proj", "gate_up_proj"} => IsMerged(key, mg, ps)

\* c keys are read.
Reading(c) ==
    /\ c \in 0 .. Len(checkpoint)
    /\ keys = SubSeq(checkpoint, c + 1, Len(checkpoint))
    /\ load_pc \in {"merging", "loaded"} => c = Len(checkpoint)
    /\ ShardsRead(checkpoint, c, merged)
    /\ ParamsRead(checkpoint, c, loaded, params)

LoadGoesWell ==
    /\ HeadsDivide
    /\ Sound(checkpoint)
    /\ DOMAIN params = ParamNames
    /\ loaded \subseteq ParamNames
    /\ load_pc = "reading" =>
           \A name \in loaded : name.proj \notin {"qkv_proj", "gate_up_proj"}
    /\ load_pc = "loaded" => loaded = ParamNames
    /\ \E c : Reading(c)
    /\ MergedRight(loaded, merged, params)

\* The inductive invariant of the load.
LoadInv ==
    /\ config \in Configs
    /\ load_pc \in {"reading", "merging", "loaded"} => LoadGoesWell
    /\ load_pc = "none" => merged = << >> /\ loaded = {}

\* Parameters are no shards; the language model head is one if it is not tied.
LEMMA ParamNamesAre ==
    /\ \A name \in ParamNames : name.proj \notin ShardProjs
    /\ LMHead \in ParamNames <=> ~config.tie_word_embeddings
    /\ LMHead.proj = "lm_head" /\ LMHead.tail = "weight"
    /\ \A t : QKV(t).proj = "qkv_proj" /\ QKV(t).tail = t
    /\ \A t : GateUp(t).proj = "gate_up_proj" /\ GateUp(t).tail = t
<1>1. \A name \in PlainNames :
          name.proj \notin ShardProjs /\ name.proj \notin {"qkv_proj", "gate_up_proj", "lm_head"}
    BY NamesAssumption DEF ShardProjs, PlainProjs
<1>2. /\ \A t : QKV(t).proj = "qkv_proj" /\ QKV(t).tail = t
      /\ \A t : GateUp(t).proj = "gate_up_proj" /\ GateUp(t).tail = t
      /\ LMHead.proj = "lm_head" /\ LMHead.tail = "weight" /\ Embedding.proj = "embed_tokens"
    BY DEF QKV, GateUp, LMHead, Embedding
<1>3. /\ "qkv_proj" \notin ShardProjs /\ "gate_up_proj" \notin ShardProjs
      /\ "lm_head" \notin ShardProjs /\ "embed_tokens" \notin ShardProjs
    BY DEF ShardProjs
<1>4. ASSUME NEW name \in ParamNames
      PROVE  \/ \E t \in QKVTails : name = QKV(t)
             \/ \E t \in GateTails : name = GateUp(t)
             \/ name \in PlainNames \/ name = Embedding
             \/ name = LMHead /\ ~config.tie_word_embeddings
    BY DEF ParamNames
<1>5. ~config.tie_word_embeddings => LMHead \in ParamNames
    BY DEF ParamNames
<1>6. LMHead \in ParamNames => ~config.tie_word_embeddings
    BY <1>1, <1>2, <1>4
<1>7. \A name \in ParamNames : name.proj \notin ShardProjs
    BY <1>1, <1>2, <1>3, <1>4
<1>8. QED
    BY <1>2, <1>5, <1>6, <1>7

\* One key more.
LEMMA OneMoreRead ==
    ASSUME NEW ck, NEW c \in Nat, NEW name
    PROVE  /\ ck[c + 1].name = name =>
                  /\ At(ck, c + 1, name) # {}
                  /\ TensorAt(ck, c + 1, name) = ck[c + 1].tensor
           /\ ck[c + 1].name # name =>
                  /\ At(ck, c + 1, name) = At(ck, c, name)
                  /\ TensorAt(ck, c + 1, name) = TensorAt(ck, c, name)
<1>1. 1 .. c + 1 = (1 .. c) \cup {c + 1}
    OBVIOUS
<1>2. CASE ck[c + 1].name = name
  <2> DEFINE S == At(ck, c + 1, name)
  <2>1. c + 1 \in S
      BY <1>2 DEF At
  <2>2. S \in SUBSET (0 .. c + 1) /\ S # {} /\ c + 1 \in Nat
      BY <2>1 DEF At
  <2> HIDE DEF S
  <2>3. Max(S) \in S /\ \A y \in S : y <= Max(S)
      BY <2>2, MaxOfBounded
  <2>4. Max(S) = c + 1
    <3>1. ASSUME NEW m, m \in 0 .. c + 1, c + 1 <= m PROVE m = c + 1
        BY <3>1
    <3>2. Max(S) \in 0 .. c + 1 /\ c + 1 <= Max(S)
        BY <2>1, <2>2, <2>3
    <3>3. QED
        BY <3>1, <3>2, Zenon
  <2>5. QED
      BY <1>2, <2>2, <2>4 DEF S, TensorAt
<1>3. CASE ck[c + 1].name # name
  <2>1. At(ck, c + 1, name) = At(ck, c, name)
      BY <1>1, <1>3 DEF At
  <2>2. QED
      BY <1>3, <2>1 DEF TensorAt
<1>4. QED
    BY <1>2, <1>3

\* What was read of another name stays.
LEMMA ReadKept ==
    ASSUME NEW ck, NEW c \in Nat
    PROVE  /\ \A mg : ShardsRead(ck, c, mg) /\ ck[c + 1].name.proj \notin ShardProjs
                          => ShardsRead(ck, c + 1, mg)
           /\ \A ld, ps : ParamsRead(ck, c, ld, ps) /\ ck[c + 1].name \notin ld
                          => ParamsRead(ck, c + 1, ld, ps)
<1>1. ASSUME NEW mg, ShardsRead(ck, c, mg), ck[c + 1].name.proj \notin ShardProjs
      PROVE  ShardsRead(ck, c + 1, mg)
  <2>1. SUFFICES ASSUME NEW key \in DOMAIN mg, NEW p \in DOMAIN mg[key]
                 PROVE  /\ p \in ShardProjs
                        /\ key = MergedName(Shard(p, key))
                        /\ At(ck, c + 1, Shard(p, key)) # {}
                        /\ mg[key][p] = TensorAt(ck, c + 1, Shard(p, key))
      BY DEF ShardsRead
  <2>2. /\ p \in ShardProjs
        /\ key = MergedName(Shard(p, key))
        /\ At(ck, c, Shard(p, key)) # {}
        /\ mg[key][p] = TensorAt(ck, c, Shard(p, key))
      BY <1>1 DEF ShardsRead
  <2>3. Shard(p, key).proj = p
      BY DEF Shard
  <2>4. ck[c + 1].name # Shard(p, key)
      BY <1>1, <2>2, <2>3
  <2>5. QED
      BY <2>2, <2>4, OneMoreRead
<1>2. ASSUME NEW ld, NEW ps, ParamsRead(ck, c, ld, ps), ck[c + 1].name \notin ld
      PROVE  ParamsRead(ck, c + 1, ld, ps)
  <2>1. SUFFICES ASSUME NEW name \in ld, name.proj \notin {"qkv_proj", "gate_up_proj"}
                 PROVE  /\ At(ck, c + 1, name) # {}
                        /\ ps[name] = TensorAt(ck, c + 1, name)
      BY DEF ParamsRead
  <2>2. At(ck, c, name) # {} /\ ps[name] = TensorAt(ck, c, name)
      BY <1>2, <2>1 DEF ParamsRead
  <2>3. ck[c + 1].name # name
      BY <1>2
  <2>4. QED
      BY <2>2, <2>3, OneMoreRead
<1>3. QED
    BY <1>1, <1>2


\* The head of the keys is the next of the checkpoint.
LEMMA NextKey ==
    ASSUME NEW ck \in Seq(Entries), NEW c \in 0 .. Len(ck), keys = SubSeq(ck, c + 1, Len(ck))
    PROVE  /\ keys = << >> => c = Len(ck)
           /\ keys # << >> =>
                  /\ c + 1 \in 1 .. Len(ck) /\ c + 1 \in 0 .. Len(ck)
                  /\ Head(keys) = ck[c + 1] /\ ck[c + 1] \in Entries
                  /\ Tail(keys) = SubSeq(ck, (c + 1) + 1, Len(ck))
<1>1. /\ Len(ck) \in Nat /\ c \in Nat /\ keys \in Seq(Entries)
      /\ Len(keys) = Len(ck) - c
    OBVIOUS
<1>2. keys = << >> => c = Len(ck)
  <2>1. ASSUME NEW n \in Nat, n - c = 0 PROVE c = n
      BY <1>1, <2>1
  <2>2. SUFFICES ASSUME keys = << >> PROVE c = Len(ck)
      OBVIOUS
  <2>3. Len(<< >>) = 0
      OBVIOUS
  <2>4. Len(ck) - c = 0
      BY <1>1, <2>2, <2>3, Zenon
  <2>5. QED
      BY <1>1, <2>1, <2>4
<1>3. ASSUME keys # << >>
      PROVE  /\ c + 1 \in 1 .. Len(ck) /\ c + 1 \in 0 .. Len(ck)
             /\ Head(keys) = ck[c + 1] /\ ck[c + 1] \in Entries
             /\ Tail(keys) = SubSeq(ck, (c + 1) + 1, Len(ck))
  <2>1. Len(keys) # 0
      BY <1>1, <1>3
  <2>2. c + 1 \in 1 .. Len(ck) /\ c + 1 \in 0 .. Len(ck) /\ c + 1 <= Len(ck)
      BY <1>1, <2>1
  <2>3. Head(keys) = ck[c + 1] /\ ck[c + 1] \in Entries
      BY <1>1, <2>2
  <2>4. Tail(SubSeq(ck, c + 1, Len(ck))) = SubSeq(ck, (c + 1) + 1, Len(ck))
      BY <1>1, <2>2, HeadTailOfSubSeq
  <2>5. QED
      BY <2>2, <2>3, <2>4
<1>4. QED
    BY <1>2, <1>3

LEMMA EntriesAre ==
    \A e \in Entries : /\ e.name \in Names /\ e.tensor \in Seq(TensorRows)
                       /\ e.name = [proj |-> e.name.proj, tail |-> e.name.tail]
BY NamesAre DEF Entries

\* A shard is put beside the others of its parameter.
LEMMA PutKeeps ==
    ASSUME NEW ck, NEW c \in Nat, ck[c + 1] \in Entries, ShardsRead(ck, c, merged),
           ck[c + 1].name.proj \in ShardProjs
    PROVE  LET name == ck[c + 1].name
               key  == MergedName(name)
           IN  ShardsRead(ck, c + 1,
                          Put(merged, key, Put(ShardsOf(key), name.proj, ck[c + 1].tensor)))
<1> DEFINE name == ck[c + 1].name
           key == MergedName(name)
           w == ck[c + 1].tensor
           inner == Put(ShardsOf(key), name.proj, w)
           mg == Put(merged, key, inner)
<1>1. name = [proj |-> name.proj, tail |-> name.tail]
    BY EntriesAre
<1>2. key.tail = name.tail
    BY DEF MergedName, QKV, GateUp
<1>3. Shard(name.proj, key) = name
    BY <1>1, <1>2 DEF Shard
<1>4. /\ DOMAIN mg = DOMAIN merged \cup {key} /\ mg[key] = inner
      /\ \A k \in DOMAIN merged : k # key => mg[k] = merged[k]
    BY DEF Put
<1>5. /\ DOMAIN inner = DOMAIN ShardsOf(key) \cup {name.proj} /\ inner[name.proj] = w
      /\ \A p \in DOMAIN ShardsOf(key) : p # name.proj => inner[p] = ShardsOf(key)[p]
    BY DEF Put
<1>6. \A p \in DOMAIN ShardsOf(key) : key \in DOMAIN merged /\ ShardsOf(key) = merged[key]
  <2>1. CASE key \in DOMAIN merged
      BY <2>1 DEF ShardsOf
  <2>2. CASE key \notin DOMAIN merged
    <3>1. ShardsOf(key) = << >>
        BY <2>2 DEF ShardsOf
    <3>2. DOMAIN << >> = {}
        OBVIOUS
    <3>3. QED
        BY <3>1, <3>2
  <2>3. QED
      BY <2>1, <2>2
<1> HIDE DEF name, key, w, inner, mg
<1>7. At(ck, c + 1, name) # {} /\ TensorAt(ck, c + 1, name) = w
    BY OneMoreRead DEF name, w
<1>8. ASSUME NEW k \in DOMAIN merged, NEW p \in DOMAIN merged[k], Shard(p, k) # name
      PROVE  /\ p \in ShardProjs
             /\ k = MergedName(Shard(p, k))
             /\ At(ck, c + 1, Shard(p, k)) # {}
             /\ merged[k][p] = TensorAt(ck, c + 1, Shard(p, k))
  <2>1. /\ p \in ShardProjs
        /\ k = MergedName(Shard(p, k))
        /\ At(ck, c, Shard(p, k)) # {}
        /\ merged[k][p] = TensorAt(ck, c, Shard(p, k))
      BY DEF ShardsRead
  <2>2. QED
      BY <1>8, <2>1, OneMoreRead DEF name
<1>9. ASSUME NEW k \in DOMAIN mg, NEW p \in DOMAIN mg[k]
      PROVE  /\ p \in ShardProjs
             /\ k = MergedName(Shard(p, k))
             /\ At(ck, c + 1, Shard(p, k)) # {}
             /\ mg[k][p] = TensorAt(ck, c + 1, Shard(p, k))
  <2>1. CASE k = key /\ p = name.proj
    <3>1. Shard(p, k) = name /\ mg[k][p] = w
        BY <1>3, <1>4, <1>5, <2>1
    <3>2. p \in ShardProjs
        BY <2>1 DEF name
    <3>3. QED
        BY <1>7, <2>1, <3>1, <3>2 DEF key
  <2>2. CASE k = key /\ p # name.proj
    <3>1. p \in DOMAIN ShardsOf(key)
        BY <1>4, <1>5, <2>2
    <3>2. key \in DOMAIN merged /\ p \in DOMAIN merged[key] /\ mg[key][p] = merged[key][p]
        BY <1>4, <1>5, <1>6, <2>2, <3>1
    <3>3. Shard(p, key) # name
        BY <2>2 DEF Shard
    <3>4. QED
        BY <1>8, <2>2, <3>2, <3>3
  <2>3. CASE k # key
    <3>1. k \in DOMAIN merged /\ p \in DOMAIN merged[k] /\ mg[k] = merged[k]
        BY <1>4, <2>3
    <3>2. k = MergedName(Shard(p, k))
        BY <3>1 DEF ShardsRead
    <3>3. Shard(p, k) # name
        BY <2>3, <3>2 DEF key
    <3>4. QED
        BY <1>8, <3>1, <3>3
  <2>4. QED
      BY <2>1, <2>2, <2>3
<1>10. ShardsRead(ck, c + 1, mg)
    BY <1>9 DEF ShardsRead
<1>11. QED
    BY <1>10 DEF mg, inner, key, name, w


\* The branches of ReadKey.
ReadSkips(name) ==
    /\ name = LMHead /\ config.tie_word_embeddings
    /\ UNCHANGED <<params, merged, loaded, load_pc>>

ReadShard(name, w) ==
    /\ name.proj \in ShardProjs
    /\ merged' = Put(merged, MergedName(name), Put(ShardsOf(MergedName(name)), name.proj, w))
    /\ UNCHANGED <<params, loaded, load_pc>>

ReadPlain(name, w) ==
    /\ name.proj \notin ShardProjs
    /\ ~(name = LMHead /\ config.tie_word_embeddings)
    /\ CopyTo(name, w)

LEMMA ReadKeyIs ==
    ASSUME ReadKey
    PROVE  /\ load_pc = "reading" /\ keys # << >> /\ keys' = Tail(keys)
           /\ config' = config /\ checkpoint' = checkpoint
           /\ LET e == Head(keys)
              IN  ReadSkips(e.name) \/ ReadShard(e.name, e.tensor) \/ ReadPlain(e.name, e.tensor)
BY DEF ReadKey, ReadSkips, ReadShard, ReadPlain

LEMMA Raised == ASSUME LoadInv, config' = config, load_pc' = "raised" PROVE LoadInv'
BY DEF LoadInv

\* What a load that goes well keeps of the step before.
LEMMA SameConfig ==
    ASSUME config' = config
    PROVE  /\ ParamNames' = ParamNames /\ (HeadsDivide <=> HeadsDivide')
           /\ \A p : NumRows(p)' = NumRows(p)
           /\ \A ck : Sound(ck) => Sound(ck)'
           /\ \A ld, mg, ps : MergedRight(ld, mg, ps) => MergedRight(ld, mg, ps)'
<1>1. ParamNames' = ParamNames /\ (HeadsDivide <=> HeadsDivide')
    BY DEF ParamNames, HeadsDivide
<1>2. \A p : NumRows(p)' = NumRows(p)
    BY DEF NumRows, QSize, KVSize, HeadDim
<1>3. \A ck : Sound(ck) => Sound(ck)'
    BY <1>2 DEF Sound, WellShaped
<1>4. \A ld, mg, ps : MergedRight(ld, mg, ps) => MergedRight(ld, mg, ps)'
    BY <1>2 DEF MergedRight, IsMerged
<1>5. QED
    BY <1>1, <1>2, <1>3, <1>4

LEMMA ReadKeyKeeps == LoadInv /\ ReadKey => LoadInv'
<1> SUFFICES ASSUME LoadInv, ReadKey PROVE LoadInv'
    OBVIOUS
<1> DEFINE e == Head(keys)
           name == e.name
           w == e.tensor
<1>1. /\ load_pc = "reading" /\ keys # << >> /\ keys' = Tail(keys)
      /\ config' = config /\ checkpoint' = checkpoint
      /\ ReadSkips(name) \/ ReadShard(name, w) \/ ReadPlain(name, w)
    BY ReadKeyIs
<1>2. LoadGoesWell /\ config \in Configs
    BY <1>1 DEF LoadInv
<1>3. PICK c : Reading(c)
    BY <1>2 DEF LoadGoesWell
<1>4. /\ checkpoint \in Seq(Entries) /\ c \in 0 .. Len(checkpoint) /\ c \in Nat
      /\ keys = SubSeq(checkpoint, c + 1, Len(checkpoint))
  <2>1. checkpoint \in Seq(Entries)
      BY <1>2 DEF LoadGoesWell, Sound
  <2>2. c \in 0 .. Len(checkpoint) /\ keys = SubSeq(checkpoint, c + 1, Len(checkpoint))
      BY <1>3 DEF Reading
  <2>3. c \in Nat
      BY <2>1, <2>2
  <2>4. QED
      BY <2>1, <2>2, <2>3
<1>5. /\ c + 1 \in 1 .. Len(checkpoint) /\ c + 1 \in 0 .. Len(checkpoint)
      /\ e = checkpoint[c + 1] /\ e \in Entries
      /\ keys' = SubSeq(checkpoint, (c + 1) + 1, Len(checkpoint))
    BY <1>1, <1>4, NextKey
<1>6. name.proj \notin {"qkv_proj", "gate_up_proj"}
    BY <1>2, <1>5 DEF LoadGoesWell, Sound
<1>7. /\ DOMAIN params = ParamNames /\ loaded \subseteq ParamNames
      /\ \A n \in loaded : n.proj \notin {"qkv_proj", "gate_up_proj"}
      /\ ShardsRead(checkpoint, c, merged) /\ ParamsRead(checkpoint, c, loaded, params)
    BY <1>1, <1>2, <1>3 DEF LoadGoesWell, Reading
<1> HIDE DEF e, name, w
<1>8. name = checkpoint[c + 1].name /\ w = checkpoint[c + 1].tensor
    BY <1>5 DEF name, w
<1>9. ASSUME load_pc' = "reading", DOMAIN params' = ParamNames, loaded' \subseteq ParamNames,
             \A n \in loaded' : n.proj \notin {"qkv_proj", "gate_up_proj"},
             ShardsRead(checkpoint, c + 1, merged'),
             ParamsRead(checkpoint, c + 1, loaded', params')
      PROVE  LoadInv'
  <2>1. (HeadsDivide /\ Sound(checkpoint))'
      BY <1>1, <1>2, SameConfig DEF LoadGoesWell
  <2>2. ParamNames' = ParamNames /\ config' \in Configs
      BY <1>1, <1>2, SameConfig
  <2>3. Reading(c + 1)'
      BY <1>1, <1>5, <1>9 DEF Reading, ShardsRead, ParamsRead
  <2>4. MergedRight(loaded, merged, params)'
      BY <1>9 DEF MergedRight
  <2>5. LoadGoesWell'
      BY <1>9, <2>1, <2>2, <2>3, <2>4 DEF LoadGoesWell
  <2>6. QED
      BY <1>9, <2>2, <2>5 DEF LoadInv
<1>10. CASE ReadSkips(name)
  <2>1. /\ name = LMHead /\ config.tie_word_embeddings
        /\ params' = params /\ merged' = merged /\ loaded' = loaded /\ load_pc' = load_pc
      BY <1>10 DEF ReadSkips
  <2>2. name \notin loaded /\ name.proj \notin ShardProjs
    <3>1. "lm_head" \notin ShardProjs
        BY DEF ShardProjs
    <3>2. QED
        BY <1>7, <2>1, <3>1, ParamNamesAre
  <2>3. ShardsRead(checkpoint, c + 1, merged) /\ ParamsRead(checkpoint, c + 1, loaded, params)
      BY <1>4, <1>7, <1>8, <2>2, ReadKept
  <2>4. QED
      BY <1>1, <1>7, <1>9, <2>1, <2>3
<1>11. CASE ReadShard(name, w)
  <2>1. /\ name.proj \in ShardProjs
        /\ merged' = Put(merged, MergedName(name), Put(ShardsOf(MergedName(name)), name.proj, w))
        /\ params' = params /\ loaded' = loaded /\ load_pc' = load_pc
      BY <1>11 DEF ReadShard
  <2>2. name \notin loaded
      BY <1>7, <2>1, ParamNamesAre
  <2>3. ParamsRead(checkpoint, c + 1, loaded, params)
      BY <1>4, <1>7, <1>8, <2>2, ReadKept
  <2>4. checkpoint[c + 1] \in Entries
      BY <1>5
  <2>5. ShardsRead(checkpoint, c + 1, merged')
      BY <1>4, <1>7, <1>8, <2>1, <2>4, PutKeeps
  <2>6. QED
      BY <1>1, <1>7, <1>9, <2>1, <2>3, <2>5
<1>12. CASE ReadPlain(name, w)
  <2>1. name.proj \notin ShardProjs /\ CopyTo(name, w)
      BY <1>12 DEF ReadPlain
  <2>2. CASE name \in ParamNames /\ Len(w) = NumRows(name.proj)
    <3>1. /\ params' = [params EXCEPT ![name] = w] /\ loaded' = loaded \cup {name}
          /\ merged' = merged /\ load_pc' = load_pc
        BY <2>1, <2>2 DEF CopyTo
    <3>2. ShardsRead(checkpoint, c + 1, merged)
        BY <1>4, <1>7, <1>8, <2>1, ReadKept
    <3>3. ASSUME NEW n \in loaded', n.proj \notin {"qkv_proj", "gate_up_proj"}
          PROVE  /\ At(checkpoint, c + 1, n) # {}
                 /\ params'[n] = TensorAt(checkpoint, c + 1, n)
      <4>1. CASE n = name
        <5>1. params'[n] = w
            BY <1>7, <2>2, <3>1, <4>1
        <5>2. QED
            BY <1>4, <1>8, <4>1, <5>1, OneMoreRead
      <4>2. CASE n # name
        <5>1. n \in loaded /\ params'[n] = params[n]
            BY <1>7, <3>1, <4>2
        <5>2. At(checkpoint, c, n) # {} /\ params[n] = TensorAt(checkpoint, c, n)
            BY <1>7, <3>3, <5>1 DEF ParamsRead
        <5>3. QED
            BY <1>4, <1>8, <4>2, <5>1, <5>2, OneMoreRead
      <4>3. QED
          BY <4>1, <4>2
    <3>4. ParamsRead(checkpoint, c + 1, loaded', params')
        BY <3>3 DEF ParamsRead
    <3>5. DOMAIN params' = ParamNames /\ loaded' \subseteq ParamNames
        BY <1>7, <2>2, <3>1
    <3>6. \A n \in loaded' : n.proj \notin {"qkv_proj", "gate_up_proj"}
        BY <1>6, <1>7, <3>1
    <3>7. QED
        BY <1>1, <1>9, <3>1, <3>2, <3>4, <3>5, <3>6
  <2>3. CASE ~(name \in ParamNames /\ Len(w) = NumRows(name.proj))
    <3>1. load_pc' = "raised"
        BY <2>1, <2>3 DEF CopyTo, Raise
    <3>2. QED
        BY <1>1, <3>1, Raised
  <2>4. QED
      BY <2>2, <2>3
<1>13. QED
    BY <1>1, <1>10, <1>11, <1>12


LEMMA LoadModelKeeps == LoadInv /\ HeadsDivide /\ LoadModel => LoadInv'
<1> SUFFICES ASSUME LoadInv, HeadsDivide, LoadModel PROVE LoadInv'
    OBVIOUS
<1>1. /\ load_pc = "none" /\ load_pc' = "reading" /\ keys' = checkpoint'
      /\ config' = config /\ merged' = merged /\ loaded' = loaded
      /\ params' = [name \in ParamNames |-> Uninitialised]
    BY DEF LoadModel
<1>2. PICK order \in KeyOrders : checkpoint' \in CheckpointsOf(order)
    BY DEF LoadModel
<1>3. config \in Configs /\ merged' = << >> /\ loaded' = {}
    BY <1>1 DEF LoadInv
<1>4. PICK ck : ck = checkpoint' /\ Sound(ck)
    BY <1>2, <1>3, CheckpointsSound
<1>5. ck \in Seq(Entries) /\ 0 \in 0 .. Len(ck) /\ SubSeq(ck, 0 + 1, Len(ck)) = ck
    BY <1>4, SubSeqFull DEF Sound
<1>6. ShardsRead(ck, 0, << >>)
  <2>1. DOMAIN << >> = {}
      OBVIOUS
  <2>2. QED
      BY <2>1 DEF ShardsRead
<1>7. ParamsRead(ck, 0, {}, params')
    BY DEF ParamsRead
<1>8. Reading(0)'
  <2>1. 0 \in 0 .. Len(checkpoint') /\ keys' = SubSeq(checkpoint', 0 + 1, Len(checkpoint'))
      BY <1>1, <1>4, <1>5
  <2>2. ShardsRead(checkpoint', 0, merged') /\ ParamsRead(checkpoint', 0, loaded', params')
      BY <1>3, <1>4, <1>6, <1>7
  <2>3. ShardsRead(checkpoint, 0, merged)' /\ ParamsRead(checkpoint, 0, loaded, params)'
      BY <2>2 DEF ShardsRead, ParamsRead
  <2>4. QED
      BY <1>1, <2>1, <2>3 DEF Reading
<1>9. MergedRight(loaded, merged, params)'
    BY <1>3 DEF MergedRight
<1>10. (HeadsDivide /\ Sound(checkpoint))' /\ ParamNames' = ParamNames
    BY <1>1, <1>4, SameConfig
<1>11. DOMAIN params' = ParamNames' /\ loaded' \subseteq ParamNames'
    BY <1>1, <1>3, <1>10
<1>12. LoadGoesWell'
    BY <1>1, <1>3, <1>8, <1>9, <1>10, <1>11 DEF LoadGoesWell
<1>13. QED
    BY <1>1, <1>3, <1>12 DEF LoadInv

LEMMA ReadingDoneKeeps == LoadInv /\ ReadingDone => LoadInv'
<1> SUFFICES ASSUME LoadInv, ReadingDone PROVE LoadInv'
    OBVIOUS
<1>1. /\ load_pc = "reading" /\ load_pc' = "merging" /\ keys = << >>
      /\ config' = config /\ checkpoint' = checkpoint /\ keys' = keys
      /\ params' = params /\ merged' = merged /\ loaded' = loaded
    BY DEF ReadingDone
<1>2. LoadGoesWell /\ config \in Configs
    BY <1>1 DEF LoadInv
<1>3. PICK c : Reading(c)
    BY <1>2 DEF LoadGoesWell
<1>4. checkpoint \in Seq(Entries)
    BY <1>2 DEF LoadGoesWell, Sound
<1>5. /\ c \in 0 .. Len(checkpoint) /\ keys = SubSeq(checkpoint, c + 1, Len(checkpoint))
      /\ ShardsRead(checkpoint, c, merged) /\ ParamsRead(checkpoint, c, loaded, params)
    BY <1>3 DEF Reading
<1>6. c = Len(checkpoint)
    BY <1>1, <1>4, <1>5, NextKey
<1>7. Reading(c)'
    BY <1>1, <1>5, <1>6 DEF Reading, ShardsRead, ParamsRead
<1>8. (HeadsDivide /\ Sound(checkpoint))' /\ ParamNames' = ParamNames
    BY <1>1, <1>2, SameConfig DEF LoadGoesWell
<1>9. MergedRight(loaded, merged, params)'
    BY <1>1, <1>2, SameConfig DEF LoadGoesWell, MergedRight, IsMerged
<1>10. LoadGoesWell'
    BY <1>1, <1>2, <1>7, <1>8, <1>9 DEF LoadGoesWell
<1>11. QED
    BY <1>1, <1>2, <1>10 DEF LoadInv

LEMMA MergeKeeps == ASSUME LoadInv, NEW key \in DOMAIN merged, Merge(key) PROVE LoadInv'
<1>1. /\ load_pc = "merging" /\ key \in DOMAIN merged \ loaded
      /\ config' = config /\ checkpoint' = checkpoint /\ keys' = keys
    BY DEF Merge
<1>2. LoadGoesWell /\ config \in Configs
    BY <1>1 DEF LoadInv
<1>3. PICK c : Reading(c)
    BY <1>2 DEF LoadGoesWell
<1>4. /\ c \in 0 .. Len(checkpoint) /\ c = Len(checkpoint)
      /\ keys = SubSeq(checkpoint, c + 1, Len(checkpoint))
      /\ ShardsRead(checkpoint, c, merged) /\ ParamsRead(checkpoint, c, loaded, params)
    BY <1>1, <1>3 DEF Reading
<1>5. CASE /\ Shards(key) \subseteq DOMAIN merged[key]
           /\ key \in ParamNames /\ Len(Concatenated(key)) = NumRows(key.proj)
  <2>1. /\ params' = [params EXCEPT ![key] = Concatenated(key)]
        /\ loaded' = loaded \cup {key} /\ merged' = merged /\ load_pc' = load_pc
      BY <1>5 DEF Merge, CopyTo
  <2>2. DOMAIN params = ParamNames /\ loaded \subseteq ParamNames
        /\ MergedRight(loaded, merged, params)
      BY <1>2 DEF LoadGoesWell
  <2>3. key.proj \in {"qkv_proj", "gate_up_proj"}
    <3>1. \E p : p \in DOMAIN merged[key]
        BY <1>5 DEF Shards
    <3>2. \E n : key = MergedName(n)
        BY <1>4, <3>1 DEF ShardsRead
    <3>3. QED
        BY <3>2, ParamNamesAre DEF MergedName
  <2>4. ASSUME NEW n \in loaded', n.proj \notin {"qkv_proj", "gate_up_proj"}
        PROVE  /\ At(checkpoint, c, n) # {}
               /\ params'[n] = TensorAt(checkpoint, c, n)
    <3>1. n # key /\ n \in loaded
        BY <2>1, <2>3, <2>4
    <3>2. params'[n] = params[n]
        BY <2>1, <2>2, <3>1
    <3>3. QED
        BY <1>4, <2>4, <3>1, <3>2 DEF ParamsRead
  <2>5. ParamsRead(checkpoint, c, loaded', params')
      BY <2>4 DEF ParamsRead
  <2>6. Reading(c)'
      BY <1>1, <1>4, <2>1, <2>5 DEF Reading, ShardsRead, ParamsRead
  <2>7. ASSUME NEW n \in loaded', n.proj \in {"qkv_proj", "gate_up_proj"}
        PROVE  IsMerged(n, merged, params')
    <3>1. CASE n = key
      <4>1. params'[key] = Concatenated(key)
          BY <1>5, <2>1, <2>2
      <4>2. QED
          BY <1>5, <3>1, <4>1 DEF IsMerged, Concatenated
    <3>2. CASE n # key
      <4>1. n \in loaded /\ params'[n] = params[n]
          BY <2>1, <2>2, <3>2
      <4>2. IsMerged(n, merged, params)
          BY <2>2, <2>7, <4>1 DEF MergedRight
      <4>3. QED
          BY <4>1, <4>2 DEF IsMerged
    <3>3. QED
        BY <3>1, <3>2
  <2>8. MergedRight(loaded', merged', params')
      BY <2>1, <2>7 DEF MergedRight
  <2>9. MergedRight(loaded, merged, params)'
      BY <1>1, <2>8, SameConfig DEF MergedRight, IsMerged
  <2>10. (HeadsDivide /\ Sound(checkpoint))' /\ ParamNames' = ParamNames
      BY <1>1, <1>2, SameConfig DEF LoadGoesWell
  <2>11. DOMAIN params' = ParamNames' /\ loaded' \subseteq ParamNames'
      BY <1>5, <2>1, <2>2, <2>10
  <2>12. LoadGoesWell'
      BY <1>1, <2>1, <2>6, <2>9, <2>10, <2>11 DEF LoadGoesWell
  <2>13. QED
      BY <1>1, <1>2, <2>1, <2>12 DEF LoadInv
<1>6. CASE ~(/\ Shards(key) \subseteq DOMAIN merged[key]
             /\ key \in ParamNames /\ Len(Concatenated(key)) = NumRows(key.proj))
  <2>1. load_pc' = "raised"
      BY <1>6 DEF Merge, CopyTo, Raise
  <2>2. QED
      BY <1>1, <2>1, Raised
<1>7. QED
    BY <1>5, <1>6

LEMMA LoadDoneKeeps == LoadInv /\ LoadDone => LoadInv'
<1> SUFFICES ASSUME LoadInv, LoadDone PROVE LoadInv'
    OBVIOUS
<1>1. /\ load_pc = "merging" /\ load_pc' = IF loaded = ParamNames THEN "loaded" ELSE "raised"
      /\ config' = config /\ checkpoint' = checkpoint /\ keys' = keys
      /\ params' = params /\ merged' = merged /\ loaded' = loaded
    BY DEF LoadDone
<1>2. CASE loaded # ParamNames
    BY <1>1, <1>2, Raised
<1>3. CASE loaded = ParamNames
  <2>1. LoadGoesWell /\ config \in Configs
      BY <1>1 DEF LoadInv
  <2>2. PICK c : Reading(c)
      BY <2>1 DEF LoadGoesWell
  <2>3. Reading(c)'
      BY <1>1, <2>2 DEF Reading, ShardsRead, ParamsRead
  <2>4. (HeadsDivide /\ Sound(checkpoint))' /\ ParamNames' = ParamNames
      BY <1>1, <2>1, SameConfig DEF LoadGoesWell
  <2>5. MergedRight(loaded, merged, params)'
      BY <1>1, <2>1, SameConfig DEF LoadGoesWell, MergedRight, IsMerged
  <2>6. LoadGoesWell'
      BY <1>1, <1>3, <2>1, <2>3, <2>4, <2>5 DEF LoadGoesWell
  <2>7. QED
      BY <1>1, <1>3, <2>1, <2>6 DEF LoadInv
<1>4. QED
    BY <1>2, <1>3

LEMMA LoadStepKeeps == LoadInv /\ LoadStep => LoadInv'
BY ReadKeyKeeps, ReadingDoneKeeps, MergeKeeps, LoadDoneKeeps DEF LoadStep

LEMMA LoadFrame == LoadInv /\ UNCHANGED loadVars => LoadInv'
<1> SUFFICES ASSUME LoadInv, UNCHANGED loadVars PROVE LoadInv'
    OBVIOUS
<1>1. /\ config' = config /\ checkpoint' = checkpoint /\ keys' = keys
      /\ params' = params /\ merged' = merged /\ loaded' = loaded /\ load_pc' = load_pc
    BY DEF loadVars
<1>2. ASSUME LoadGoesWell PROVE LoadGoesWell'
  <2>1. PICK c : Reading(c)
      BY <1>2 DEF LoadGoesWell
  <2>2. Reading(c)'
      BY <1>1, <2>1 DEF Reading, ShardsRead, ParamsRead
  <2>3. (HeadsDivide /\ Sound(checkpoint))' /\ ParamNames' = ParamNames
      BY <1>1, <1>2, SameConfig DEF LoadGoesWell
  <2>4. MergedRight(loaded, merged, params)'
      BY <1>1, <1>2, SameConfig DEF LoadGoesWell, MergedRight, IsMerged
  <2>5. QED
      BY <1>1, <1>2, <2>2, <2>3, <2>4 DEF LoadGoesWell
<1>3. QED
    BY <1>1, <1>2 DEF LoadInv


-----------------------------------------------------------------------------
(* The engine's model.                                                     *)

\* Three sequences, end to end.
LEMMA ThreeParts ==
    ASSUME NEW T, NEW a \in Seq(T), NEW b \in Seq(T), NEW d \in Seq(T)
    PROVE  LET w == a \o b \o d
           IN  /\ SubSeq(w, 1, Len(a)) = a
               /\ SubSeq(w, Len(a) + 1, Len(a) + Len(b)) = b
               /\ SubSeq(w, Len(a) + Len(b) + 1, Len(w)) = d
               /\ Len(w) = Len(a) + Len(b) + Len(d)
<1> DEFINE w == a \o b \o d
<1>1. /\ w \in Seq(T) /\ Len(w) = Len(a) + Len(b) + Len(d)
      /\ Len(a) \in Nat /\ Len(b) \in Nat /\ Len(d) \in Nat
      /\ \A i \in 1 .. Len(a) : w[i] = a[i]
      /\ \A i \in 1 .. Len(b) : w[Len(a) + i] = b[i]
      /\ \A i \in 1 .. Len(d) : w[Len(a) + Len(b) + i] = d[i]
  <2>1. PICK x \in Nat, y \in Nat, z \in Nat : x = Len(a) /\ y = Len(b) /\ z = Len(d)
      OBVIOUS
  <2> DEFINE ab == a \o b
  <2>2. /\ ab \in Seq(T) /\ Len(ab) = x + y
        /\ \A i \in 1 .. x : ab[i] = a[i]
        /\ \A i \in 1 .. y : ab[x + i] = b[i]
      BY <2>1
  <2> HIDE DEF ab
  <2>3. /\ ab \o d \in Seq(T) /\ Len(ab \o d) = Len(ab) + Len(d)
        /\ \A i \in 1 .. Len(ab) : (ab \o d)[i] = ab[i]
        /\ \A i \in 1 .. Len(d) : (ab \o d)[Len(ab) + i] = d[i]
      BY <2>2, SMTT(40)
  <2>4. w = ab \o d
      BY DEF ab
  <2> HIDE DEF w
  <2>5. \A i \in 1 .. x : i \in 1 .. x + y
      BY <2>1
  <2>6. \A i \in 1 .. y : x + i \in 1 .. x + y
      BY <2>1
  <2>7. \A i \in 1 .. x : w[i] = a[i]
      BY <2>2, <2>3, <2>4, <2>5
  <2>8. \A i \in 1 .. y : w[x + i] = b[i]
      BY <2>2, <2>3, <2>4, <2>6
  <2>9. QED
      BY <2>1, <2>2, <2>3, <2>4, <2>7, <2>8
<1> HIDE DEF w
<1>2. SubSeq(w, 1, Len(a)) = a
    BY <1>1
<1>3. SubSeq(w, Len(a) + 1, Len(a) + Len(b)) = b
    BY <1>1, SMTT(40)
<1>4. SubSeq(w, Len(a) + Len(b) + 1, Len(w)) = d
    BY <1>1, SMTT(40)
<1>5. QED
    BY <1>1, <1>2, <1>3, <1>4 DEF w

LEMMA TwoParts ==
    ASSUME NEW T, NEW a \in Seq(T), NEW b \in Seq(T)
    PROVE  LET w == a \o b
           IN  /\ SubSeq(w, 1, Len(a)) = a
               /\ SubSeq(w, Len(a) + 1, Len(w)) = b
               /\ Len(w) = Len(a) + Len(b)
<1> DEFINE w == a \o b
<1>1. /\ w \in Seq(T) /\ Len(w) = Len(a) + Len(b)
      /\ Len(a) \in Nat /\ Len(b) \in Nat
      /\ \A i \in 1 .. Len(a) : w[i] = a[i]
      /\ \A i \in 1 .. Len(b) : w[Len(a) + i] = b[i]
    OBVIOUS
<1> HIDE DEF w
<1>2. SubSeq(w, 1, Len(a)) = a
    BY <1>1
<1>3. SubSeq(w, Len(a) + 1, Len(w)) = b
    BY <1>1
<1>4. QED
    BY <1>1, <1>2, <1>3 DEF w

\* The tensor that was read last under a name.
LEMMA TensorFound ==
    ASSUME NEW ck, Sound(ck), NEW name, At(ck, Len(ck), name) # {}
    PROVE  \E i \in 1 .. Len(ck) :
               /\ ck[i].name = name /\ TensorAt(ck, Len(ck), name) = ck[i].tensor
               /\ ck[i].tensor \in Seq(TensorRows)
<1> DEFINE S == At(ck, Len(ck), name)
<1>1. ck \in Seq(Entries) /\ Len(ck) \in Nat
    BY DEF Sound
<1>2. S \in SUBSET (0 .. Len(ck)) /\ \A i \in S : i \in 1 .. Len(ck) /\ ck[i].name = name
    BY <1>1 DEF At
<1> HIDE DEF S
<1>3. Max(S) \in S
    BY <1>1, <1>2, MaxOfBounded DEF S
<1>4. Max(S) \in 1 .. Len(ck) /\ ck[Max(S)].name = name
    BY <1>2, <1>3
<1>5. ck[Max(S)] \in Entries
    BY <1>1, <1>4
<1>6. TensorAt(ck, Len(ck), name) = ck[Max(S)].tensor
    BY DEF TensorAt, S
<1>7. QED
    BY <1>4, <1>5, <1>6, EntriesAre

\* A loaded model is the checkpoint's: EngineRunsLoadedModel without the engine.
RunsLoadedModel ==
    /\ \A t \in QKVTails :
          LET w == params[QKV(t)]
          IN  /\ SubSeq(w, 1, QSize) = StoredTensor("q_proj", t)
              /\ SubSeq(w, QSize + 1, QSize + KVSize) = StoredTensor("k_proj", t)
              /\ SubSeq(w, QSize + KVSize + 1, Len(w)) = StoredTensor("v_proj", t)
    /\ \A t \in GateTails :
          LET w == params[GateUp(t)]
          IN  /\ SubSeq(w, 1, config.intermediate_size) = StoredTensor("gate_proj", t)
              /\ SubSeq(w, config.intermediate_size + 1, Len(w)) = StoredTensor("up_proj", t)
    /\ \A name \in PlainNames \cup {Embedding} :
          params[name] = StoredTensor(name.proj, name.tail)
    /\ LMHead \in DOMAIN params <=> ~config.tie_word_embeddings
    /\ LMHead \in DOMAIN params => params[LMHead] = StoredTensor("lm_head", "weight")

LEMMA LoadedIsStored ==
    ASSUME LoadInv, load_pc = "loaded"
    PROVE  RunsLoadedModel
<1> DEFINE n == Len(checkpoint)
           Tensor_(p, t) == TensorAt(checkpoint, n, [proj |-> p, tail |-> t])
<1>1. /\ LoadGoesWell /\ config \in Configs /\ HeadsDivide /\ Sound(checkpoint)
      /\ DOMAIN params = ParamNames /\ loaded = ParamNames
      /\ MergedRight(loaded, merged, params)
    BY DEF LoadInv, LoadGoesWell
<1>2. ShardsRead(checkpoint, n, merged) /\ ParamsRead(checkpoint, n, loaded, params)
    BY <1>1 DEF LoadGoesWell, Reading
<1>3. checkpoint \in Seq(Entries) /\ n \in Nat /\ DOMAIN checkpoint = 1 .. n
    BY <1>1 DEF Sound
<1>4. \A p, t : StoredTensor(p, t) = Tensor_(p, t)
    BY <1>3 DEF StoredTensor, Stored, TensorAt, At
<1> HIDE DEF n, Tensor_
<1>5. ASSUME NEW key \in loaded, NEW p \in Shards(key), key.proj \in {"qkv_proj", "gate_up_proj"}
      PROVE  \E i \in 1 .. n :
                 /\ checkpoint[i].name.proj = p
                 /\ merged[key][p] = checkpoint[i].tensor
                 /\ checkpoint[i].tensor \in Seq(TensorRows)
                 /\ merged[key][p] = Tensor_(p, key.tail)
  <2>1. key \in DOMAIN merged /\ p \in DOMAIN merged[key]
      BY <1>1, <1>5 DEF MergedRight, IsMerged
  <2>2. /\ At(checkpoint, n, Shard(p, key)) # {}
        /\ merged[key][p] = TensorAt(checkpoint, n, Shard(p, key))
      BY <1>2, <2>1 DEF ShardsRead
  <2>3. PICK i \in 1 .. n :
            /\ checkpoint[i].name = Shard(p, key)
            /\ TensorAt(checkpoint, n, Shard(p, key)) = checkpoint[i].tensor
            /\ checkpoint[i].tensor \in Seq(TensorRows)
      BY <1>1, <2>2, TensorFound DEF n
  <2>4. Shard(p, key).proj = p
      BY DEF Shard
  <2>5. QED
      BY <2>2, <2>3, <2>4 DEF Tensor_, Shard
<1>6. /\ QSize \in Nat \ {0} /\ KVSize \in Nat \ {0} /\ config.intermediate_size \in Nat \ {0}
    BY <1>1, SizesPositive
<1>7. ASSUME NEW i \in 1 .. n, NEW j \in 1 .. n,
             ~WellShaped(checkpoint[i]), ~WellShaped(checkpoint[j])
      PROVE  checkpoint[i].name.proj = checkpoint[j].name.proj
    BY <1>1, <1>7 DEF Sound, n
<1>8. ASSUME NEW t \in QKVTails
      PROVE  LET w == params[QKV(t)]
             IN  /\ SubSeq(w, 1, QSize) = Tensor_("q_proj", t)
                 /\ SubSeq(w, QSize + 1, QSize + KVSize) = Tensor_("k_proj", t)
                 /\ SubSeq(w, QSize + KVSize + 1, Len(w)) = Tensor_("v_proj", t)
  <2> DEFINE key == QKV(t)
  <2>1. key \in loaded /\ key.proj = "qkv_proj" /\ key.tail = t
      BY <1>1, ParamNamesAre DEF ParamNames
  <2> HIDE DEF key
  <2>2. "q_proj" \in Shards(key) /\ "k_proj" \in Shards(key) /\ "v_proj" \in Shards(key)
      BY <2>1 DEF Shards
  <2>3. PICK i \in 1 .. n :
            /\ checkpoint[i].name.proj = "q_proj"
            /\ merged[key]["q_proj"] = checkpoint[i].tensor
            /\ checkpoint[i].tensor \in Seq(TensorRows)
            /\ merged[key]["q_proj"] = Tensor_("q_proj", t)
      BY <1>5, <2>1, <2>2
  <2>4. PICK j \in 1 .. n :
            /\ checkpoint[j].name.proj = "k_proj"
            /\ merged[key]["k_proj"] = checkpoint[j].tensor
            /\ checkpoint[j].tensor \in Seq(TensorRows)
            /\ merged[key]["k_proj"] = Tensor_("k_proj", t)
      BY <1>5, <2>1, <2>2
  <2>5. PICK k \in 1 .. n :
            /\ checkpoint[k].name.proj = "v_proj"
            /\ merged[key]["v_proj"] = checkpoint[k].tensor
            /\ checkpoint[k].tensor \in Seq(TensorRows)
            /\ merged[key]["v_proj"] = Tensor_("v_proj", t)
      BY <1>5, <2>1, <2>2
  <2>6. PICK a \in Seq(TensorRows), b \in Seq(TensorRows), d \in Seq(TensorRows) :
            /\ a = checkpoint[i].tensor /\ b = checkpoint[j].tensor /\ d = checkpoint[k].tensor
            /\ a = Tensor_("q_proj", t) /\ b = Tensor_("k_proj", t) /\ d = Tensor_("v_proj", t)
      BY <2>3, <2>4, <2>5
  <2>7. IsMerged(key, merged, params)
      BY <1>1, <2>1 DEF MergedRight
  <2>8. params[key] = a \o b \o d /\ Len(params[key]) = QSize + 2 * KVSize
      BY <1>1, <2>1, <2>3, <2>4, <2>5, <2>6, <2>7, NumRowsAre DEF IsMerged
  <2>9. /\ WellShaped(checkpoint[i]) <=> Len(a) = QSize
        /\ WellShaped(checkpoint[j]) <=> Len(b) = KVSize
        /\ WellShaped(checkpoint[k]) <=> Len(d) = KVSize
      BY <1>1, <2>3, <2>4, <2>5, <2>6, NumRowsAre DEF WellShaped
  <2>10. /\ Len(a) = QSize \/ Len(b) = KVSize
         /\ Len(a) = QSize \/ Len(d) = KVSize
         /\ Len(b) = KVSize \/ Len(d) = KVSize
      BY <1>7, <2>3, <2>4, <2>5, <2>9
  <2> DEFINE w == params[key]
  <2>11. /\ SubSeq(w, 1, Len(a)) = a
         /\ SubSeq(w, Len(a) + 1, Len(a) + Len(b)) = b
         /\ SubSeq(w, Len(a) + Len(b) + 1, Len(w)) = d
         /\ Len(w) = Len(a) + Len(b) + Len(d)
      BY <2>8, ThreeParts
  <2>12. Len(a) \in Nat /\ Len(b) \in Nat /\ Len(d) \in Nat
      OBVIOUS
  <2> HIDE DEF w
  <2>13. Len(a) = QSize /\ Len(b) = KVSize
    <3>1. ASSUME NEW x \in Nat, NEW y \in Nat, NEW z \in Nat, NEW q \in Nat, NEW kv \in Nat,
                 x + y + z = q + 2 * kv, x = q \/ y = kv, x = q \/ z = kv, y = kv \/ z = kv
          PROVE  x = q /\ y = kv
        BY <3>1
    <3>2. Len(a) + Len(b) + Len(d) = QSize + 2 * KVSize
        BY <2>8, <2>11 DEF w
    <3>3. QSize \in Nat /\ KVSize \in Nat
        BY <1>6
    <3>4. QED
        BY <2>10, <2>12, <3>1, <3>2, <3>3
  <2>14. QED
      BY <2>6, <2>11, <2>13 DEF w, key
<1>9. ASSUME NEW t \in GateTails
      PROVE  LET w == params[GateUp(t)]
             IN  /\ SubSeq(w, 1, config.intermediate_size) = Tensor_("gate_proj", t)
                 /\ SubSeq(w, config.intermediate_size + 1, Len(w)) = Tensor_("up_proj", t)
  <2> DEFINE key == GateUp(t)
  <2>1. key \in loaded /\ key.proj = "gate_up_proj" /\ key.tail = t
      BY <1>1, ParamNamesAre DEF ParamNames
  <2> HIDE DEF key
  <2>2. "gate_proj" \in Shards(key) /\ "up_proj" \in Shards(key)
      BY <2>1 DEF Shards
  <2>3. PICK i \in 1 .. n :
            /\ checkpoint[i].name.proj = "gate_proj"
            /\ merged[key]["gate_proj"] = checkpoint[i].tensor
            /\ checkpoint[i].tensor \in Seq(TensorRows)
            /\ merged[key]["gate_proj"] = Tensor_("gate_proj", t)
      BY <1>5, <2>1, <2>2
  <2>4. PICK j \in 1 .. n :
            /\ checkpoint[j].name.proj = "up_proj"
            /\ merged[key]["up_proj"] = checkpoint[j].tensor
            /\ checkpoint[j].tensor \in Seq(TensorRows)
            /\ merged[key]["up_proj"] = Tensor_("up_proj", t)
      BY <1>5, <2>1, <2>2
  <2>5. PICK a \in Seq(TensorRows), b \in Seq(TensorRows) :
            /\ a = checkpoint[i].tensor /\ b = checkpoint[j].tensor
            /\ a = Tensor_("gate_proj", t) /\ b = Tensor_("up_proj", t)
      BY <2>3, <2>4
  <2>6. IsMerged(key, merged, params)
      BY <1>1, <2>1 DEF MergedRight
  <2>7. params[key] = a \o b /\ Len(params[key]) = 2 * config.intermediate_size
      BY <1>1, <2>1, <2>3, <2>4, <2>5, <2>6, NumRowsAre DEF IsMerged
  <2>8. /\ WellShaped(checkpoint[i]) <=> Len(a) = config.intermediate_size
        /\ WellShaped(checkpoint[j]) <=> Len(b) = config.intermediate_size
      BY <1>1, <2>3, <2>4, <2>5, NumRowsAre DEF WellShaped
  <2>9. Len(a) = config.intermediate_size \/ Len(b) = config.intermediate_size
      BY <1>7, <2>3, <2>4, <2>8
  <2> DEFINE w == params[key]
  <2>10. /\ SubSeq(w, 1, Len(a)) = a
         /\ SubSeq(w, Len(a) + 1, Len(w)) = b
         /\ Len(w) = Len(a) + Len(b)
      BY <2>7, TwoParts
  <2>11. Len(a) \in Nat /\ Len(b) \in Nat
      OBVIOUS
  <2> HIDE DEF w
  <2>12. Len(a) = config.intermediate_size
    <3>1. ASSUME NEW x \in Nat, NEW y \in Nat, NEW m \in Nat,
                 x + y = 2 * m, x = m \/ y = m
          PROVE  x = m
        BY <3>1
    <3>2. Len(a) + Len(b) = 2 * config.intermediate_size
        BY <2>7, <2>10 DEF w
    <3>3. QED
        BY <1>6, <2>9, <2>11, <3>1, <3>2
  <2>13. QED
      BY <2>5, <2>10, <2>12 DEF w, key
<1>10. ASSUME NEW name \in loaded, name.proj \notin {"qkv_proj", "gate_up_proj"},
              name = [proj |-> name.proj, tail |-> name.tail]
       PROVE  params[name] = Tensor_(name.proj, name.tail)
  <2>1. params[name] = TensorAt(checkpoint, n, name)
      BY <1>2, <1>10 DEF ParamsRead
  <2>2. QED
      BY <1>10, <2>1 DEF Tensor_
<1>11. LMHead \in DOMAIN params => params[LMHead] = Tensor_("lm_head", "weight")
    BY <1>1, <1>10, ParamNamesAre DEF LMHead
<1>12. ASSUME NEW name \in PlainNames \cup {Embedding}
       PROVE  params[name] = Tensor_(name.proj, name.tail)
  <2>1. name \in loaded
      BY <1>1 DEF ParamNames
  <2>2. name.proj \in PlainProjs
      BY NamesAssumption DEF Embedding, PlainProjs
  <2>3. name.proj \notin {"qkv_proj", "gate_up_proj"}
      BY <2>2 DEF PlainProjs
  <2>4. name = [proj |-> name.proj, tail |-> name.tail]
    <3>1. CASE name = Embedding
        BY <3>1 DEF Embedding
    <3>2. CASE name \in PlainNames
        BY <3>2, NamesAssumption
    <3>3. QED
        BY <3>1, <3>2
  <2>5. QED
      BY <1>10, <2>1, <2>3, <2>4
<1>13. QED
    BY <1>1, <1>4, <1>8, <1>9, <1>11, <1>12, ParamNamesAre DEF RunsLoadedModel


-----------------------------------------------------------------------------
(* LLM.__init__.                                                           *)

\* The order of the constructor: the heads divide before there is a model, and
\* the model is loaded before there is a pool.
OrderOfStartup ==
    /\ startup \in {"config", "build"} => load_pc = "none"
    /\ startup = "build" => HeadsDivide
    /\ startup \in {"config", "build", "load"} => pool = None
    /\ startup = "cache" => load_pc = "loaded"
    /\ pool # None => load_pc = "loaded"

StartInv == LoadInv /\ OrderOfStartup

LEMMA StartupInitInv == StartupInit => StartInv
<1> SUFFICES ASSUME StartupInit PROVE StartInv
    OBVIOUS
<1>1. LoadInv
    BY DEF StartupInit, LoadInit, LoadInv
<1>2. OrderOfStartup
    BY DEF StartupInit, Init, LoadInit, OrderOfStartup
<1>3. QED
    BY <1>1, <1>2 DEF StartInv

\* A step that leaves the load alone.
LEMMA LoadAlone ==
    ASSUME LoadInv, UNCHANGED loadVars
    PROVE  /\ LoadInv' /\ load_pc' = load_pc
           /\ HeadsDivide <=> HeadsDivide'
<1>1. config' = config /\ load_pc' = load_pc
    BY DEF loadVars
<1>2. QED
    BY <1>1, LoadFrame DEF HeadsDivide

LEMMA LoadStepBefore == LoadStep => load_pc \in {"reading", "merging"}
BY DEF LoadStep, ReadKey, ReadingDone, Merge, LoadDone

LEMMA StartupStepInv == StartInv /\ [StartupNext]_startupVars => StartInv'
<1> SUFFICES ASSUME StartInv, [StartupNext]_startupVars PROVE StartInv'
    OBVIOUS
<1> USE DEF StartInv, OrderOfStartup
<1>1. CASE FromHF
  <2>1. UNCHANGED loadVars /\ pool' = pool /\ startup = "config"
      BY <1>1 DEF FromHF, vars
  <2>2. LoadInv' /\ load_pc' = load_pc /\ (HeadsDivide <=> HeadsDivide')
      BY <2>1, LoadAlone
  <2>3. startup' \in {"build", "failed"} /\ (startup' = "build" => HeadsDivide)
      BY <1>1 DEF FromHF, HeadsDivide
  <2>4. QED
      BY <2>1, <2>2, <2>3
<1>2. CASE BuildModel
  <2>1. startup = "build" /\ pool' = pool
      BY <1>2 DEF BuildModel, vars
  <2>2. CASE startup' = "load" /\ LoadModel
    <3>1. LoadInv'
        BY <2>1, <2>2, LoadModelKeeps
    <3>2. QED
        BY <2>1, <2>2, <3>1
  <2>3. CASE startup' = "failed" /\ UNCHANGED loadVars
    <3>1. LoadInv' /\ load_pc' = load_pc
        BY <2>3, LoadAlone
    <3>2. QED
        BY <2>1, <2>3, <3>1
  <2>4. QED
      BY <1>2, <2>2, <2>3 DEF BuildModel
<1>3. CASE Load
  <2>1. startup = "load" /\ pool' = pool
      BY <1>3 DEF Load, vars
  <2>2. CASE LoadStep /\ UNCHANGED startup
    <3>1. LoadInv'
        BY <2>2, LoadStepKeeps
    <3>2. QED
        BY <2>1, <2>2, <3>1
  <2>3. CASE /\ load_pc \in {"loaded", "raised"}
             /\ startup' = IF load_pc = "loaded" THEN "cache" ELSE "failed"
             /\ UNCHANGED loadVars
    <3>1. LoadInv' /\ load_pc' = load_pc
        BY <2>3, LoadAlone
    <3>2. QED
        BY <2>1, <2>3, <3>1
  <2>4. QED
      BY <1>3, <2>2, <2>3 DEF Load
<1>4. CASE SizingRaises
  <2>1. UNCHANGED loadVars /\ pool' = pool /\ startup' = "failed"
      BY <1>4 DEF SizingRaises, vars
  <2>2. LoadInv' /\ load_pc' = load_pc
      BY <2>1, LoadAlone
  <2>3. QED
      BY <2>1, <2>2
<1>5. CASE AllocateAndServe
  <2>1. UNCHANGED loadVars /\ startup = "cache" /\ startup' = "cache"
      BY <1>5 DEF AllocateAndServe
  <2>2. LoadInv' /\ load_pc' = load_pc
      BY <2>1, LoadAlone
  <2>3. QED
      BY <2>1, <2>2
<1>6. CASE UNCHANGED startupVars
  <2>1. UNCHANGED loadVars /\ pool' = pool /\ startup' = startup
      BY <1>6 DEF startupVars, vars
  <2>2. LoadInv' /\ load_pc' = load_pc /\ (HeadsDivide <=> HeadsDivide')
      BY <2>1, LoadAlone
  <2>3. QED
      BY <2>1, <2>2
<1>7. QED
    BY <1>1, <1>2, <1>3, <1>4, <1>5, <1>6 DEF StartupNext

\* Whatever the checkpoint, an engine serves its model.
THEOREM LoadedModelServed == StartupSpec => []EngineRunsLoadedModel
<1>1. StartInv => EngineRunsLoadedModel
  <2>1. SUFFICES ASSUME StartInv, pool # None PROVE RunsLoadedModel
      BY DEF EngineRunsLoadedModel, RunsLoadedModel
  <2>2. QED
      BY <2>1, LoadedIsStored DEF StartInv, OrderOfStartup
<1>2. StartupSpec => []StartInv
    BY StartupInitInv, StartupStepInv, PTL DEF StartupSpec
<1>3. QED
    BY <1>1, <1>2, PTL

\* The constructor, seen from the cache alone, is the allocation: its failures
\* and the load are steps that leave the cache as it is.
THEOREM StartupAllocates == StartupSpec => Spec
<1>1. StartupInit => Init
    BY DEF StartupInit
<1>2. [StartupNext]_startupVars => [Next]_vars
    BY DEF StartupNext, FromHF, BuildModel, Load, SizingRaises, AllocateAndServe, startupVars, vars
<1>3. QED
    BY <1>1, <1>2, PTL DEF StartupSpec, Spec
=============================================================================
