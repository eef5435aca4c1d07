---------------------------- MODULE EngineProofs ----------------------------
(***************************************************************************)
(* The engine keeps its books, for every pool, batch limit, set of         *)
(* requests and token alphabet, and with forward passes that may raise: the *)
(* queues and the block tables agree, what schedule() recorded for a       *)
(* sequence stays true until its tokens are appended, and every step of    *)
(* the engine is a legal call of the KV cache manager or none.             *)
(*                                                                         *)
(* The scheduler leaves nobody out: a step runs every running sequence, it *)
(* always has something to do, a preemption frees blocks and spares the    *)
(* oldest sequence, and a victim waits in front of whoever never ran.      *)
(* What callers are told in the end is what was generated, once.           *)
(*                                                                         *)
(* And what attention reads is the reader's own prefix, as long as no      *)
(* forward pass raises: the physical cache, the block tables and the keys  *)
(* of the prefix cache agree, or will once the step under way has stored   *)
(* its tokens.                                                             *)
(*                                                                         *)
(* Last, the client (module Generate): generate() answers every prompt     *)
(* that the scheduler accepts, in full and in the order of the prompts.    *)
(***************************************************************************)
EXTENDS Generate, KVCacheManagerProofs

-----------------------------------------------------------------------------
(* The inductive invariant.                                                *)

EngineSeq ==
    [ token_ids : Seq(Token), num_computed_tokens : Nat,
      status : Statuses, finish_reason : Reasons \cup {"NONE"},
      prompt_len : Nat, num_preemptions : Nat ]

Entry ==
    [ seq_id : SeqId, num_tokens : Nat, block_table : Seq(Block),
      slot_mapping : Seq(Slots) ]

\* TypeOK, and the types of what a step carries along.
Types ==
    /\ TypeOK
    /\ scheduled \in Seq(Entry)
    /\ phase = "update" => sampled \in [ScheduledIds -> Token]

\* Which sequences the queues hold, and why no queue holds one twice.
Queues ==
    /\ IsInjective(waiting) /\ IsInjective(running)
    /\ DOMAIN kv.request_blocks = ToSet(running)
    /\ \A s \in ToSet(running) : seqs[s].status = "RUNNING" /\ s \in sequences
    /\ \A s \in ToSet(waiting) : seqs[s].status = "WAITING" /\ s \in sequences
    /\ \A s \in ToSet(finished_seqs) : seqs[s].status = "DONE"
    /\ \A s \in sequences :
          /\ seqs[s].status # "NEW"
          /\ seqs[s].status = "RUNNING" => s \in ToSet(running)
          /\ seqs[s].status = "WAITING" =>
                s \in ToSet(waiting) \cup
                      (IF phase = "running" THEN ToSet(preempted_seqs) ELSE {})
          /\ seqs[s].status = "DONE" => s \in ToSet(finished_seqs)
    /\ phase = "idle" => preempted_seqs = << >>
    /\ phase = "running" =>
          /\ IsInjective(preempted_seqs)
          /\ ToSet(preempted_seqs) \cap ToSet(waiting) = {}
          /\ \A s \in ToSet(preempted_seqs) : seqs[s].status = "WAITING" /\ s \in sequences

\* In the running loop, running is what has been scheduled followed by the
\* part of todo that is still to come; the rest of todo was preempted.
RunningLoop ==
    LET left == Len(running) - Len(scheduled)
    IN  /\ left \in 0 .. Len(todo)
        /\ \A i \in DOMAIN scheduled : running[i] = scheduled[i].seq_id
        /\ \A i \in 1 .. left : running[Len(scheduled) + i] = todo[i]
        /\ \A i \in left + 1 .. Len(todo) : seqs[todo[i]].status # "RUNNING"

\* The loops of step() handle each sequence once.
Loops ==
    /\ phase = "idle" => scheduled = << >>
    /\ \A i, j \in DOMAIN scheduled :
           i # j => scheduled[i].seq_id # scheduled[j].seq_id
    /\ phase = "running" => RunningLoop
    /\ phase = "update" =>
          /\ IsInjective(todo)
          /\ ToSet(todo) \subseteq ToSet(running) \cap ScheduledIds

\* What is known of the tokens of a sequence in each of its states.
Tokens ==
    \A s \in SeqId :
        /\ seqs[s].token_ids # << >>
        /\ seqs[s].status \in {"NEW", "WAITING"} => seqs[s].num_computed_tokens = 0
        /\ s \in ToSet(running) =>
               seqs[s].num_computed_tokens < Len(seqs[s].token_ids)
        /\ \E p \in Prompts : seqs[s].prompt_len = Len(p)
        /\ GeneratedLen(seqs[s]) <= MaxTokens
        /\ seqs[s].status # "DONE" => GeneratedLen(seqs[s]) < MaxTokens

\* e is what schedule() would record now for its sequence, whose table covers
\* all its tokens.
Live(e) ==
    LET s == e.seq_id
    IN  /\ s \in ToSet(running)
        /\ e = Scheduled(s, kv, seqs[s], NumTokensToCompute(seqs[s]))
        /\ CeilDiv(Len(seqs[s].token_ids), BlockSize) <= Len(BlockTable(kv, s))

LiveSchedule ==
    \A e \in ToSet(scheduled) :
        \/ phase \in {"running", "waiting", "execute"}
        \/ phase = "update" /\ e.seq_id \in ToSet(todo)
        => Live(e)

EngineInv ==
    /\ Types
    /\ Queues
    /\ Loops
    /\ Tokens
    /\ LiveSchedule
    /\ NoSlotWrittenTwice
    /\ Sharing(kv, Projected(kv, seqs))

-----------------------------------------------------------------------------
(* The KV cache manager as the engine calls it.                            *)

\* Two slots are equal only in the same block.
LEMMA SlotsOfBlocks ==
    ASSUME NEW b \in Block, NEW r \in 0 .. BlockSize - 1
    PROVE  /\ b * BlockSize + r \in Slots
           /\ \A c \in Block, o \in 0 .. BlockSize - 1 :
                  b * BlockSize + r = c * BlockSize + o => b = c
<1>1. BlockSize \in Nat \ {0} /\ NumBlocks \in Nat /\ b \in Nat
      /\ b + 1 \in Nat /\ b + 1 <= NumBlocks
    BY BlockSizeAssumption, NumBlocksAssumption DEF Block
<1>2. ASSUME NEW x \in Nat PROVE x * BlockSize \in Nat /\ (x + 1) * BlockSize = x * BlockSize + BlockSize
    BY <1>1
<1>3. ASSUME NEW x \in Nat, NEW y \in Nat, x + 1 <= y
      PROVE  x * BlockSize + BlockSize <= y * BlockSize
  <2>1. (x + 1) * BlockSize <= y * BlockSize
      BY <1>1, <1>3, TimesMonotone
  <2>2. QED
      BY <1>2, <2>1
<1>4. b * BlockSize + r \in Slots
    BY <1>1, <1>2, <1>3 DEF Slots
<1>5. ASSUME NEW c \in Block, NEW o \in 0 .. BlockSize - 1,
             b * BlockSize + r = c * BlockSize + o
      PROVE  b = c
  <2>1. c \in Nat
      BY DEF Block
  <2>2. ASSUME b + 1 <= c PROVE FALSE
    <3>1. b * BlockSize + BlockSize <= c * BlockSize
        BY <1>1, <1>3, <2>1, <2>2
    <3>2. b * BlockSize \in Nat /\ c * BlockSize \in Nat
        BY <1>1, <1>2, <2>1
    <3>3. QED
        BY <1>1, <1>5, <3>1, <3>2
  <2>3. ASSUME c + 1 <= b PROVE FALSE
    <3>1. c * BlockSize + BlockSize <= b * BlockSize
        BY <1>1, <1>3, <2>1, <2>3
    <3>2. b * BlockSize \in Nat /\ c * BlockSize \in Nat
        BY <1>1, <1>2, <2>1
    <3>3. QED
        BY <1>1, <1>5, <3>1, <3>2
  <2>4. QED
      BY <1>1, <2>1, <2>2, <2>3
<1>6. QED
    BY <1>4, <1>5

\* What schedule() records is well formed, and its slots are in the blocks of
\* the table that the tokens to compute reach into.
LEMMA ScheduledSlots ==
    ASSUME NEW k, NEW s, NEW seq, CoveredBy(k, s, seq)
    PROVE  LET n     == NumTokensToCompute(seq)
               e     == Scheduled(s, k, seq, n)
               table == k.request_blocks[s]
           IN  /\ n \in Nat \ {0}
               /\ e \in Entry
               /\ DOMAIN e.slot_mapping = 1 .. n
               /\ \A j \in 1 .. n :
                      \E i \in DOMAIN table, o \in 0 .. BlockSize - 1 :
                          /\ e.slot_mapping[j] = table[i] * BlockSize + o
                          /\ i * BlockSize > seq.num_computed_tokens
<1> DEFINE n == NumTokensToCompute(seq)
           e == Scheduled(s, k, seq, n)
           table == k.request_blocks[s]
           len == Len(seq.token_ids)
<1>1. /\ KVInv(k) /\ s \in DOMAIN k.request_blocks
      /\ seq.num_computed_tokens \in Nat /\ len \in Nat
      /\ seq.num_computed_tokens < len
      /\ CeilDiv(len, BlockSize) <= Len(table)
      /\ BlockTable(k, s) = table
    BY DEF CoveredBy, BlockTable, Holds
<1>2. s \in SeqId /\ table \in Seq(Block) /\ Len(table) \in Nat
    BY <1>1, TablesAreSequences
<1>3. BlockSize \in Nat \ {0}
    BY BlockSizeAssumption
<1>4. n \in Nat \ {0} /\ n = len - seq.num_computed_tokens
    BY <1>1 DEF NumTokensToCompute
<1>5. len <= Len(table) * BlockSize
  <2>1. CeilDiv(len, BlockSize) \in Nat /\ len <= CeilDiv(len, BlockSize) * BlockSize
      BY <1>1, <1>3, CeilCovers
  <2>2. CeilDiv(len, BlockSize) * BlockSize <= Len(table) * BlockSize
      BY <1>1, <1>2, <1>3, <2>1, TimesMonotone
  <2>3. /\ CeilDiv(len, BlockSize) * BlockSize \in Nat
        /\ Len(table) * BlockSize \in Nat
      BY <1>2, <1>3, <2>1
  <2>4. QED
      BY <1>1, <2>1, <2>2, <2>3
<1>6. e = [ seq_id |-> s, num_tokens |-> n, block_table |-> table,
            slot_mapping |-> SlotMapping(k, s, seq, n) ]
    BY <1>1 DEF Scheduled
<1> HIDE DEF n, len, table
<1>7. SlotMapping(k, s, seq, n) =
          [j \in 1 .. n |->
              LET pos == seq.num_computed_tokens + j - 1
              IN  table[pos \div BlockSize + 1] * BlockSize + (pos % BlockSize)]
    BY DEF SlotMapping, table
<1> HIDE DEF e
<1>8. ASSUME NEW j \in 1 .. n
      PROVE  /\ SlotMapping(k, s, seq, n)[j] \in Slots
             /\ \E i \in DOMAIN table, o \in 0 .. BlockSize - 1 :
                    /\ SlotMapping(k, s, seq, n)[j] = table[i] * BlockSize + o
                    /\ i * BlockSize > seq.num_computed_tokens
  <2> DEFINE pos == seq.num_computed_tokens + j - 1
             i == pos \div BlockSize + 1
             o == pos % BlockSize
  <2>1. pos \in Nat /\ pos < len /\ seq.num_computed_tokens <= pos
      BY <1>1, <1>4
  <2>2. SlotMapping(k, s, seq, n)[j] = table[i] * BlockSize + o
      BY <1>7
  <2> HIDE DEF pos
  <2>3. pos < Len(table) * BlockSize
    <3>1. Len(table) * BlockSize \in Nat
        BY <1>2, <1>3
    <3>2. QED
        BY <1>1, <1>5, <2>1, <3>1
  <2>4. i \in 1 .. Len(table) /\ pos < i * BlockSize /\ o \in 0 .. BlockSize - 1
      BY <1>2, <2>1, <2>3, PlaceInTable
  <2> HIDE DEF i, o
  <2>5. i \in DOMAIN table /\ table[i] \in Block
      BY <1>2, <2>4
  <2>6. table[i] * BlockSize + o \in Slots
      BY <2>4, <2>5, SlotsOfBlocks
  <2>7. i * BlockSize > seq.num_computed_tokens
    <3>1. i * BlockSize \in Nat
        BY <1>2, <1>3, <2>4
    <3>2. QED
        BY <1>1, <2>1, <2>4, <3>1
  <2>8. QED
      BY <2>2, <2>4, <2>5, <2>6, <2>7
<1>9. SlotMapping(k, s, seq, n) \in Seq(Slots) /\ DOMAIN SlotMapping(k, s, seq, n) = 1 .. n
  <2>1. DOMAIN SlotMapping(k, s, seq, n) = 1 .. n
      BY <1>7
  <2>2. SlotMapping(k, s, seq, n) \in [1 .. n -> Slots]
      BY <1>7, <1>8, <2>1
  <2>3. QED
      BY <1>4, <2>1, <2>2
<1>10. e \in Entry
    BY <1>2, <1>4, <1>6, <1>9 DEF Entry
<1>11. QED
    BY <1>4, <1>6, <1>8, <1>9, <1>10 DEF n, e, table

\* Two sequences are scheduled into different slots: of a block they share,
\* at most one still has tokens to write.
LEMMA ScheduledSlotsDiffer ==
    ASSUME NEW k, NEW s, NEW seq, CoveredBy(k, s, seq),
           NEW t, NEW seq2, CoveredBy(k, t, seq2), s # t,
           NEW q, OneWriter(k, q),
           q[s].num_computed_tokens = seq.num_computed_tokens,
           q[t].num_computed_tokens = seq2.num_computed_tokens
    PROVE  ToSet(Scheduled(s, k, seq, NumTokensToCompute(seq)).slot_mapping)
               \cap ToSet(Scheduled(t, k, seq2, NumTokensToCompute(seq2)).slot_mapping) = {}
<1> DEFINE e == Scheduled(s, k, seq, NumTokensToCompute(seq))
           f == Scheduled(t, k, seq2, NumTokensToCompute(seq2))
           n == NumTokensToCompute(seq)
           m == NumTokensToCompute(seq2)
           r == k.request_blocks
<1>1. /\ DOMAIN e.slot_mapping = 1 .. n
      /\ \A j \in 1 .. n :
             \E i \in DOMAIN r[s], o \in 0 .. BlockSize - 1 :
                 /\ e.slot_mapping[j] = r[s][i] * BlockSize + o
                 /\ i * BlockSize > seq.num_computed_tokens
    BY ScheduledSlots
<1>2. /\ DOMAIN f.slot_mapping = 1 .. m
      /\ \A j \in 1 .. m :
             \E i \in DOMAIN r[t], o \in 0 .. BlockSize - 1 :
                 /\ f.slot_mapping[j] = r[t][i] * BlockSize + o
                 /\ i * BlockSize > seq2.num_computed_tokens
    BY ScheduledSlots
<1>3. s \in DOMAIN r /\ t \in DOMAIN r /\ KVInv(k)
    BY DEF CoveredBy
<1>4. \A x \in DOMAIN r : \A i \in DOMAIN r[x] : r[x][i] \in Block
    BY <1>3, TablesAreSequences
<1> HIDE DEF e, f, n, m
<1>5. ASSUME NEW x, x \in ToSet(e.slot_mapping), x \in ToSet(f.slot_mapping) PROVE FALSE
  <2>1. PICK i \in DOMAIN r[s], o \in 0 .. BlockSize - 1 :
            /\ x = r[s][i] * BlockSize + o
            /\ i * BlockSize > seq.num_computed_tokens
      BY <1>1, <1>5 DEF ToSet
  <2>2. PICK j \in DOMAIN r[t], p \in 0 .. BlockSize - 1 :
            /\ x = r[t][j] * BlockSize + p
            /\ j * BlockSize > seq2.num_computed_tokens
      BY <1>2, <1>5 DEF ToSet
  <2>3. r[s][i] \in Block /\ r[t][j] \in Block
      BY <1>3, <1>4
  <2>4. r[s][i] = r[t][j]
      BY <2>1, <2>2, <2>3, SlotsOfBlocks
  <2>5. QED
      BY <1>3, <2>1, <2>2, <2>4 DEF OneWriter
<1>6. QED
    BY <1>5 DEF e, f

LEMMA ProjectedTypes ==
    ASSUME NEW k, NEW q \in [SeqId -> EngineSeq]
    PROVE  /\ Projected(k, q) \in [SeqId -> SeqRecord]
           /\ \A s \in SeqId :
                  /\ Projected(k, q)[s].token_ids = q[s].token_ids
                  /\ Projected(k, q)[s].num_computed_tokens =
                         IF Holds(k, s) THEN q[s].num_computed_tokens ELSE 0
                  /\ q[s].token_ids \in Seq(Token) /\ Len(q[s].token_ids) \in Nat
                  /\ q[s].num_computed_tokens \in Nat
BY DEF Projected, EngineSeq, SeqRecord

\* A call for the running sequence s, or for s at its admission, that gives it
\* blocks for all its tokens.
LEMMA AllocationEffects ==
    ASSUME NEW k, NEW q \in [SeqId -> EngineSeq], Sharing(k, Projected(k, q)),
           NEW s \in SeqId, NEW hits, NEW n, NEW k2,
           hits = GetComputedBlocks(k, s, q[s]),
           n = NumTokensToCompute(q[s]) - Len(hits) * BlockSize,
           CanAllocate(k, s, q[s], n, hits),
           k2 = AllocateSlots(k, s, q[s], n, hits),
           q[s].num_computed_tokens < Len(q[s].token_ids),
           Holds(k, s) \/ q[s].num_computed_tokens = 0
    PROVE  /\ Len(hits) * BlockSize \in Nat
           /\ q[s].num_computed_tokens + Len(hits) * BlockSize < Len(q[s].token_ids)
           /\ KVInv(k2)
           /\ DOMAIN k2.request_blocks = DOMAIN k.request_blocks \cup {s}
           /\ \A t : t # s => BlockTable(k2, t) = BlockTable(k, t)
           /\ CeilDiv(Len(q[s].token_ids), BlockSize) <= Len(BlockTable(k2, s))
           /\ \A q2 \in [SeqId -> EngineSeq] :
                  /\ \A t \in SeqId \ {s} : SameTokens(q, q2, t)
                  /\ q2[s].token_ids = q[s].token_ids
                  /\ q2[s].num_computed_tokens =
                         q[s].num_computed_tokens + Len(hits) * BlockSize
                  => ManagerCall(k, Projected(k, q), k2, Projected(k2, q2))
<1> DEFINE v == Projected(k, q)
           seq == v[s]
<1>1. /\ v \in [SeqId -> SeqRecord]
      /\ \A x \in SeqId :
             /\ v[x].token_ids = q[x].token_ids
             /\ v[x].num_computed_tokens =
                    IF Holds(k, x) THEN q[x].num_computed_tokens ELSE 0
             /\ q[x].token_ids \in Seq(Token) /\ Len(q[x].token_ids) \in Nat
             /\ q[x].num_computed_tokens \in Nat
    BY ProjectedTypes
<1>2. KVInv(k) /\ \A x \in SeqId : v[x].token_ids # << >>
    BY DEF Sharing
<1> HIDE DEF v
<1>3. /\ seq \in SeqRecord /\ seq.token_ids # << >>
      /\ seq.token_ids = q[s].token_ids
      /\ seq.num_computed_tokens = q[s].num_computed_tokens
    BY <1>1, <1>2
<1> HIDE DEF seq
<1>4. /\ hits = GetComputedBlocks(k, s, seq)
      /\ CanAllocate(k, s, seq, n, hits)
      /\ k2 = AllocateSlots(k, s, seq, n, hits)
    BY <1>3, TwoFields
<1>5. /\ hits \in Seq(Block) /\ Len(hits) * BlockSize \in Nat
      /\ Len(hits) * BlockSize < Len(seq.token_ids)
      /\ hits # << >> => ~Holds(k, s)
    BY <1>2, <1>3, <1>4, HitsProperties
<1>6. q[s].num_computed_tokens + Len(hits) * BlockSize < Len(q[s].token_ids)
  <2>1. CASE Holds(k, s)
    <3>1. Len(hits) * BlockSize = 0
        BY <1>5, <2>1, BlockSizeAssumption
    <3>2. QED
        BY <1>1, <3>1
  <2>2. CASE q[s].num_computed_tokens = 0
      BY <1>3, <1>5, <2>2
  <2>3. QED
      BY <2>1, <2>2
<1>7. n = Len(seq.token_ids) - seq.num_computed_tokens - Len(hits) * BlockSize
    BY <1>3 DEF NumTokensToCompute
<1>8. /\ n \in Int
      /\ seq.num_computed_tokens + Len(hits) * BlockSize + n = Len(seq.token_ids)
      /\ Len(seq.token_ids) \in Nat
    BY <1>1, <1>3, <1>5, <1>7
<1>9. KVInv(k2) /\ ExtendsItsTable(k, s, seq, n, hits)
    BY <1>2, <1>3, <1>4, <1>8, AllocateSlotsInv, AllocateSlotsTables
<1>10. PICK popped \in Seq(Block) : AllocatedAs(k, k2, s, seq, hits, popped)
    BY <1>4, <1>9 DEF ExtendsItsTable
<1>11. /\ DOMAIN k2.request_blocks = DOMAIN k.request_blocks \cup {s}
       /\ \A x \in DOMAIN k.request_blocks \ {s} :
              k2.request_blocks[x] = k.request_blocks[x]
    BY <1>10 DEF AllocatedAs
<1>12. \A x : x # s => BlockTable(k2, x) = BlockTable(k, x)
    BY <1>11 DEF BlockTable, Holds
<1>13. CeilDiv(Len(seq.token_ids), BlockSize) <= Len(BlockTable(k2, s))
  <2>1. /\ BlockTable(k2, s) = k2.request_blocks[s]
        /\ BlockTable(k2, s) \in Seq(Block)
      BY <1>9, <1>11, TablesAreSequences DEF BlockTable, Holds
  <2>2. LET held == Len(BlockTable(k, s)) + Len(hits)
            need == CeilDiv(Len(seq.token_ids), BlockSize)
        IN  /\ held \in Nat /\ need \in Nat
            /\ Len(k2.request_blocks[s]) = IF need > held THEN need ELSE held
      BY <1>4, <1>9 DEF ExtendsItsTable
  <2>3. QED
      BY <2>1, <2>2
<1>14. ASSUME NEW q2 \in [SeqId -> EngineSeq],
              \A x \in SeqId \ {s} : SameTokens(q, q2, x),
              q2[s].token_ids = q[s].token_ids,
              q2[s].num_computed_tokens =
                  q[s].num_computed_tokens + Len(hits) * BlockSize
       PROVE  ManagerCall(k, v, k2, Projected(k2, q2))
  <2> DEFINE v2 == Projected(k2, q2)
  <2>1. \A x \in SeqId : Holds(k2, x) <=> Holds(k, x) \/ x = s
      BY <1>11 DEF Holds
  <2>2. /\ v2 \in [SeqId -> SeqRecord]
        /\ \A x \in SeqId :
               /\ v2[x].token_ids = q2[x].token_ids
               /\ v2[x].num_computed_tokens =
                      IF Holds(k2, x) THEN q2[x].num_computed_tokens ELSE 0
      BY ProjectedTypes
  <2> HIDE DEF v2
  <2>3. \A x \in SeqId \ {s} :
            /\ v2[x].token_ids = v[x].token_ids
            /\ v2[x].num_computed_tokens = v[x].num_computed_tokens
      BY <1>1, <1>14, <2>1, <2>2 DEF SameTokens
  <2>4. /\ v2[s].token_ids = v[s].token_ids
        /\ v2[s].num_computed_tokens =
               v[s].num_computed_tokens + Len(hits) * BlockSize
      BY <1>3, <1>14, <2>1, <2>2 DEF seq
  <2>5. v2 = [v EXCEPT ![s].num_computed_tokens = @ + Len(hits) * BlockSize]
    <3>1. \A x \in SeqId : x # s => v2[x] = v[x]
        BY <1>1, <2>2, <2>3, SameRecord
    <3>2. v2[s] = [v[s] EXCEPT !.num_computed_tokens = @ + Len(hits) * BlockSize]
      <4> DEFINE new == v[s].num_computed_tokens + Len(hits) * BlockSize
                 w == [v[s] EXCEPT !.num_computed_tokens = new]
      <4>1. v2[s] \in SeqRecord /\ v[s] \in SeqRecord
          BY <1>1, <2>2
      <4>2. v2[s].num_computed_tokens = new
          BY <2>4
      <4>3. v2[s].num_computed_tokens \in Nat
          BY <4>1 DEF SeqRecord
      <4> HIDE DEF new
      <4>4. /\ w \in SeqRecord
            /\ w.token_ids = v[s].token_ids /\ w.num_computed_tokens = new
          BY <4>1, <4>2, <4>3 DEF SeqRecord
      <4> HIDE DEF w
      <4>5. v2[s] = w
          BY <2>4, <4>1, <4>2, <4>4, SameRecord
      <4>6. QED
          BY <4>5 DEF w, new
    <3>3. QED
        BY <1>1, <2>2, <3>1, <3>2
  <2> DEFINE h == GetComputedBlocks(k, s, v[s])
             m == Len(v[s].token_ids) - v[s].num_computed_tokens
                      - Len(h) * BlockSize
  <2>6. /\ CanAllocate(k, s, v[s], n, hits)
        /\ k2 = AllocateSlots(k, s, v[s], n, hits)
        /\ hits = h
        /\ n = m
      BY <1>4, <1>7 DEF seq
  <2>7. /\ CanAllocate(k, s, v[s], m, h)
        /\ k2 = AllocateSlots(k, s, v[s], m, h)
        /\ v2 = [v EXCEPT ![s].num_computed_tokens = @ + Len(h) * BlockSize]
    <3> HIDE DEF h, m
    <3>1. QED
        BY <2>5, <2>6
  <2>8. ManagerCall(k, v, k2, v2)
      BY <2>7 DEF ManagerCall
  <2>9. QED
      BY <2>8 DEF v2
<1>15. QED
    BY <1>3, <1>5, <1>6, <1>9, <1>11, <1>12, <1>13, <1>14 DEF v

\* A call that takes the blocks of s back, if it has any.
LEMMA FreeEffects ==
    ASSUME NEW k, NEW q \in [SeqId -> EngineSeq], Sharing(k, Projected(k, q)),
           NEW s \in SeqId, NEW k2, k2 = FreeIfAllocated(k, s)
    PROVE  /\ KVInv(k2)
           /\ DOMAIN k2.request_blocks = DOMAIN k.request_blocks \ {s}
           /\ \A t : t # s => BlockTable(k2, t) = BlockTable(k, t)
           /\ \A q2 \in [SeqId -> EngineSeq] :
                  \A more \in {<< >>} \cup {<<t>> : t \in Token} :
                      /\ \A t \in SeqId \ {s} : SameTokens(q, q2, t)
                      /\ q2[s].token_ids = q[s].token_ids \o more
                      /\ Holds(k, s) \/ more = << >>
                      => ManagerCall(k, Projected(k, q), k2, Projected(k2, q2))
<1> DEFINE v == Projected(k, q)
<1>1. /\ v \in [SeqId -> SeqRecord]
      /\ \A x \in SeqId :
             /\ v[x].token_ids = q[x].token_ids
             /\ v[x].num_computed_tokens =
                    IF Holds(k, x) THEN q[x].num_computed_tokens ELSE 0
             /\ q[x].token_ids \in Seq(Token)
    BY ProjectedTypes
<1>2. KVInv(k)
    BY DEF Sharing
<1>3. /\ KVInv(k2)
      /\ DOMAIN k2.request_blocks = DOMAIN k.request_blocks \ {s}
      /\ \A x \in DOMAIN k2.request_blocks :
             k2.request_blocks[x] = k.request_blocks[x]
  <2>1. CASE Holds(k, s)
    <3>1. k2 = Free(k, s)
        BY <2>1 DEF FreeIfAllocated
    <3>2. KVInv(k2)
        BY <1>2, <2>1, <3>1, FreeInv
    <3>3. k2.request_blocks = Restrict(k.request_blocks, DOMAIN k.request_blocks \ {s})
        BY <1>2, <3>1 DEF Free, KVInv, KVTypes, KVFields
    <3>4. QED
        BY <3>2, <3>3 DEF Restrict
  <2>2. CASE ~Holds(k, s)
      BY <1>2, <2>2 DEF FreeIfAllocated, Holds
  <2>3. QED
      BY <2>1, <2>2
<1>4. \A x : x # s => BlockTable(k2, x) = BlockTable(k, x)
    BY <1>3 DEF BlockTable, Holds
<1> HIDE DEF v
<1>5. ASSUME NEW q2 \in [SeqId -> EngineSeq],
             NEW more \in {<< >>} \cup {<<t>> : t \in Token},
             \A x \in SeqId \ {s} : SameTokens(q, q2, x),
             q2[s].token_ids = q[s].token_ids \o more,
             Holds(k, s) \/ more = << >>
      PROVE  ManagerCall(k, v, k2, Projected(k2, q2))
  <2> DEFINE v2 == Projected(k2, q2)
  <2>1. \A x \in SeqId : Holds(k2, x) <=> Holds(k, x) /\ x # s
      BY <1>3 DEF Holds
  <2>2. /\ v2 \in [SeqId -> SeqRecord]
        /\ \A x \in SeqId :
               /\ v2[x].token_ids = q2[x].token_ids
               /\ v2[x].num_computed_tokens =
                      IF Holds(k2, x) THEN q2[x].num_computed_tokens ELSE 0
      BY ProjectedTypes
  <2> HIDE DEF v2
  <2>3. \A x \in SeqId \ {s} :
            /\ v2[x].token_ids = v[x].token_ids
            /\ v2[x].num_computed_tokens = v[x].num_computed_tokens
      BY <1>1, <1>5, <2>1, <2>2 DEF SameTokens
  <2>4. /\ v2[s].token_ids = v[s].token_ids \o more
        /\ v2[s].num_computed_tokens = 0
      BY <1>1, <1>5, <2>1, <2>2
  <2>5. CASE Holds(k, s)
    <3>1. k2 = Free(k, s)
        BY <2>5 DEF FreeIfAllocated
    <3>2. v2 = [v EXCEPT ![s].num_computed_tokens = 0, ![s].token_ids = @ \o more]
      <4>1. \A x \in SeqId : x # s => v2[x] = v[x]
          BY <1>1, <2>2, <2>3, SameRecord
      <4>2. v2[s] = [v[s] EXCEPT !.num_computed_tokens = 0, !.token_ids = @ \o more]
        <5> DEFINE w == [v[s] EXCEPT !.num_computed_tokens = 0, !.token_ids = @ \o more]
        <5>1. v2[s] \in SeqRecord /\ v[s] \in SeqRecord
            BY <1>1, <2>2
        <5>2. v2[s].token_ids \in Seq(Token)
            BY <5>1 DEF SeqRecord
        <5>3. /\ w \in SeqRecord
              /\ w.token_ids = v2[s].token_ids /\ w.num_computed_tokens = 0
            BY <2>4, <5>1, <5>2 DEF SeqRecord
        <5> HIDE DEF w
        <5>4. v2[s] = w
            BY <2>4, <5>1, <5>3, SameRecord
        <5>5. QED
            BY <5>4 DEF w
      <4>3. QED
          BY <1>1, <2>2, <4>1, <4>2
    <3>3. QED
        BY <2>5, <3>1, <3>2 DEF ManagerCall, v2
  <2>6. CASE ~Holds(k, s)
    <3>1. k2 = k /\ more = << >>
        BY <1>5, <2>6 DEF FreeIfAllocated
    <3>2. /\ v2[s].token_ids = v[s].token_ids
          /\ v2[s].num_computed_tokens = v[s].num_computed_tokens
        BY <1>1, <2>4, <2>6, <3>1
    <3>3. v2 = v
      <4>1. \A x \in SeqId : v2[x] = v[x]
          BY <1>1, <2>2, <2>3, <3>2, SameRecord
      <4>2. QED
          BY <1>1, <2>2, <4>1
    <3>4. QED
        BY <3>1, <3>3 DEF ManagerCall, v2
  <2>7. QED
      BY <2>5, <2>6
<1>6. QED
    BY <1>3, <1>4, <1>5 DEF v

-----------------------------------------------------------------------------
(* What the invariant says of the scheduled sequences.                     *)

LEMMA LiveCovered ==
    ASSUME Types, Queues, Tokens, Sharing(kv, Projected(kv, seqs)),
           NEW s \in ToSet(running),
           CeilDiv(Len(seqs[s].token_ids), BlockSize) <= Len(BlockTable(kv, s))
    PROVE  s \in SeqId /\ CoveredBy(kv, s, seqs[s])
<1>1. s \in SeqId
    BY DEF Types, TypeOK, ToSet
<1>2. seqs[s].token_ids \in Seq(Token) /\ seqs[s].num_computed_tokens \in Nat
    BY <1>1 DEF Types, TypeOK
<1>3. seqs[s].num_computed_tokens < Len(seqs[s].token_ids)
    BY <1>1 DEF Tokens
<1>4. KVInv(kv) /\ s \in DOMAIN kv.request_blocks
    BY DEF Sharing, Queues
<1>5. QED
    BY <1>1, <1>2, <1>3, <1>4 DEF CoveredBy

\* While the schedule is live no two of its entries meet in a slot.
LEMMA SlotsApart ==
    /\ Types /\ Queues /\ Loops /\ Tokens /\ LiveSchedule
    /\ Sharing(kv, Projected(kv, seqs))
    /\ phase \in {"running", "waiting", "execute"}
    => NoSlotWrittenTwice
<1> SUFFICES ASSUME Types, Queues, Loops, Tokens, LiveSchedule,
                    Sharing(kv, Projected(kv, seqs)),
                    phase \in {"running", "waiting", "execute"},
                    NEW i \in DOMAIN scheduled, NEW j \in DOMAIN scheduled, i # j
             PROVE  /\ scheduled[i].seq_id # scheduled[j].seq_id
                    /\ ToSet(scheduled[i].slot_mapping)
                           \cap ToSet(scheduled[j].slot_mapping) = {}
    BY DEF NoSlotWrittenTwice
<1> DEFINE s == scheduled[i].seq_id
           t == scheduled[j].seq_id
           q == Projected(kv, seqs)
<1>1. s # t
    BY DEF Loops
<1>2. Live(scheduled[i]) /\ Live(scheduled[j])
    BY DEF LiveSchedule, ToSet
<1>3. /\ s \in ToSet(running) /\ t \in ToSet(running)
      /\ scheduled[i] = Scheduled(s, kv, seqs[s], NumTokensToCompute(seqs[s]))
      /\ scheduled[j] = Scheduled(t, kv, seqs[t], NumTokensToCompute(seqs[t]))
      /\ CeilDiv(Len(seqs[s].token_ids), BlockSize) <= Len(BlockTable(kv, s))
      /\ CeilDiv(Len(seqs[t].token_ids), BlockSize) <= Len(BlockTable(kv, t))
    BY <1>2 DEF Live
<1> HIDE DEF s, t
<1>4. /\ s \in SeqId /\ CoveredBy(kv, s, seqs[s])
      /\ t \in SeqId /\ CoveredBy(kv, t, seqs[t])
    BY <1>3, LiveCovered
<1>5. /\ q[s].num_computed_tokens = seqs[s].num_computed_tokens
      /\ q[t].num_computed_tokens = seqs[t].num_computed_tokens
    BY <1>4 DEF CoveredBy, Projected, Holds
<1>6. OneWriter(kv, q)
    BY DEF Sharing
<1> HIDE DEF q
<1>7. ToSet(Scheduled(s, kv, seqs[s], NumTokensToCompute(seqs[s])).slot_mapping)
          \cap ToSet(Scheduled(t, kv, seqs[t], NumTokensToCompute(seqs[t])).slot_mapping) = {}
    BY <1>1, <1>4, <1>5, <1>6, ScheduledSlotsDiffer
<1>8. QED
    BY <1>1, <1>3, <1>7 DEF s, t

-----------------------------------------------------------------------------
(* The initial states, and the steps that leave the manager and the        *)
(* sequences alone.                                                        *)

LEMMA InitInv == Init => EngineInv
<1> SUFFICES ASSUME Init PROVE EngineInv
    OBVIOUS
<1>1. \A s \in SeqId : \E p \in Prompts :
          seqs[s] = [ token_ids |-> p, num_computed_tokens |-> 0,
                      status |-> "NEW", finish_reason |-> "NONE",
                      prompt_len |-> Len(p), num_preemptions |-> 0 ]
    BY DEF Init
<1>2. ASSUME NEW s \in SeqId
      PROVE  /\ seqs[s] \in EngineSeq
             /\ seqs[s].token_ids # << >> /\ seqs[s].num_computed_tokens = 0
             /\ seqs[s].status = "NEW"
             /\ \E p \in Prompts : seqs[s].prompt_len = Len(p)
             /\ GeneratedLen(seqs[s]) < MaxTokens
             /\ GeneratedLen(seqs[s]) <= MaxTokens
  <2>1. PICK p \in Prompts :
            seqs[s] = [ token_ids |-> p, num_computed_tokens |-> 0,
                        status |-> "NEW", finish_reason |-> "NONE",
                        prompt_len |-> Len(p), num_preemptions |-> 0 ]
      BY <1>1
  <2>2. p \in Seq(Token) /\ p # << >> /\ Len(p) \in Nat
      BY PromptsAssumption
  <2>3. QED
      BY <2>1, <2>2, BudgetAssumption DEF EngineSeq, Statuses, GeneratedLen
<1>3. /\ DOMAIN seqs = SeqId /\ seqs = [s \in SeqId |-> seqs[s]]
    BY DEF Init
<1>4. seqs \in [SeqId -> EngineSeq]
    BY <1>2, <1>3
<1>5. Types
    BY <1>4 DEF Init, Types, TypeOK, EngineSeq, Phases
<1>6. IsInjective(<< >>) /\ ToSet(<< >>) = {} /\ DOMAIN EmptyKV.request_blocks = {}
    BY DEF IsInjective, ToSet, EmptyKV
<1>7. Queues
    BY <1>6 DEF Init, Queues
<1>8. Loops
    BY DEF Init, Loops
<1>9. Tokens
    BY <1>2, <1>6 DEF Init, Tokens
<1>10. LiveSchedule /\ NoSlotWrittenTwice
    BY <1>6 DEF Init, LiveSchedule, NoSlotWrittenTwice
<1>11. Sharing(kv, Projected(kv, seqs))
  <2> DEFINE q == Projected(kv, seqs)
  <2>1. q \in [SeqId -> SeqRecord]
      BY <1>4, ProjectedTypes
  <2>2. \A s \in SeqId : q[s].token_ids # << >> /\ q[s].num_computed_tokens = 0
      BY <1>2 DEF Projected
  <2> HIDE DEF q
  <2>3. Sharing(EmptyKV, q)
      BY <2>1, <2>2, EmptySharing
  <2>4. QED
      BY <2>3 DEF Init, q
<1>12. QED
    BY <1>5, <1>7, <1>8, <1>9, <1>10, <1>11 DEF EngineInv

\* A step that changes neither the manager, the sequences nor running keeps
\* what the invariant says of the tokens and of sharing.
LEMMA UntouchedTokens ==
    ASSUME EngineInv, UNCHANGED <<kv, seqs, running>>
    PROVE  Tokens' /\ Sharing(kv, Projected(kv, seqs))'
BY DEF EngineInv, Tokens

LEMMA BeginStepKeeps == EngineInv /\ BeginStep => EngineInv'
<1> SUFFICES ASSUME EngineInv, BeginStep PROVE EngineInv'
    OBVIOUS
<1>1. /\ Types /\ Queues /\ Loops /\ Tokens /\ LiveSchedule
      /\ phase = "idle" /\ phase' \in {"running", "outputs"}
      /\ todo' = running /\ budget' = MaxNumBatchedTokens
      /\ UNCHANGED <<kv, seqs, waiting, running, finished_seqs, scheduled,
                     preempted_seqs, sampled, sequences, content>>
    BY DEF EngineInv, BeginStep, queueVars
<1>2. scheduled = << >> /\ preempted_seqs = << >>
    BY <1>1 DEF Loops, Queues
<1>3. IsInjective(<< >>) /\ ToSet(<< >>) = {}
    BY DEF IsInjective, ToSet
<1>4. Types'
    BY <1>1, BudgetAssumption DEF Types, TypeOK, Phases
<1>5. Queues'
    BY <1>1, <1>2, <1>3 DEF Queues
<1>6. Loops'
  <2>1. RunningLoop'
    <3>1. running \in Seq(SeqId)
        BY <1>1 DEF Types, TypeOK
    <3>2. QED
        BY <1>1, <1>2, <3>1 DEF RunningLoop
  <2>2. QED
      BY <1>1, <1>2, <2>1 DEF Loops
<1>7. LiveSchedule' /\ NoSlotWrittenTwice'
    BY <1>1, <1>2, <1>3 DEF LiveSchedule, NoSlotWrittenTwice
<1>8. Tokens' /\ Sharing(kv, Projected(kv, seqs))'
    BY <1>1, UntouchedTokens
<1>9. QED
    BY <1>4, <1>5, <1>6, <1>7, <1>8 DEF EngineInv

LEMMA SkipPreemptedKeeps == EngineInv /\ SkipPreempted => EngineInv'
<1> SUFFICES ASSUME EngineInv, SkipPreempted PROVE EngineInv'
    OBVIOUS
<1>1. /\ Types /\ Queues /\ Loops /\ Tokens /\ LiveSchedule /\ NoSlotWrittenTwice
      /\ phase = "running" /\ todo # << >> /\ seqs[Head(todo)].status # "RUNNING"
      /\ todo' = Tail(todo)
      /\ UNCHANGED <<kv, seqs, waiting, running, finished_seqs, phase, budget, scheduled,
                     preempted_seqs, sampled, sequences, content>>
    BY DEF EngineInv, SkipPreempted, queueVars
<1>2. todo \in Seq(SeqId) /\ running \in Seq(SeqId)
    BY <1>1 DEF Types, TypeOK
<1>3. todo' \in Seq(SeqId) /\ Len(todo') = Len(todo) - 1
      /\ \A i \in 1 .. Len(todo') : todo'[i] = todo[i + 1]
    BY <1>1, <1>2
<1>4. Types'
    BY <1>1, <1>3 DEF Types, TypeOK, ScheduledIds
<1>5. Queues'
    BY <1>1 DEF Queues
<1>6. RunningLoop'
  <2> DEFINE left == Len(running) - Len(scheduled)
  <2>1. /\ left \in 0 .. Len(todo)
        /\ \A i \in DOMAIN scheduled : running[i] = scheduled[i].seq_id
        /\ \A i \in 1 .. left : running[Len(scheduled) + i] = todo[i]
        /\ \A i \in left + 1 .. Len(todo) : seqs[todo[i]].status # "RUNNING"
      BY <1>1 DEF Loops, RunningLoop
  <2>2. scheduled \in Seq(Entry) /\ Len(scheduled) \in Nat
      BY <1>1 DEF Types
  <2>3. left = 0
    <3>1. SUFFICES ASSUME left # 0 PROVE FALSE
        OBVIOUS
    <3>2. 1 \in 1 .. left /\ Len(scheduled) + 1 \in DOMAIN running
        BY <1>2, <2>1, <2>2, <3>1
    <3>3. running[Len(scheduled) + 1] = todo[1] /\ Head(todo) = todo[1]
        BY <1>1, <1>2, <2>1, <3>2
    <3>4. running[Len(scheduled) + 1] \in ToSet(running)
        BY <3>2 DEF ToSet
    <3>5. QED
        BY <1>1, <3>3, <3>4 DEF Queues
  <2>4. \A i \in 1 .. Len(todo') : seqs[todo'[i]].status # "RUNNING"
    <3>1. TAKE i \in 1 .. Len(todo')
    <3>2. i + 1 \in left + 1 .. Len(todo) /\ todo'[i] = todo[i + 1]
        BY <1>2, <1>3, <2>3
    <3>3. QED
        BY <2>1, <3>2
  <2>5. QED
      BY <1>1, <1>2, <1>3, <2>1, <2>3, <2>4 DEF RunningLoop
<1>7. Loops'
    BY <1>1, <1>6 DEF Loops
<1>8. LiveSchedule' /\ NoSlotWrittenTwice'
    BY <1>1 DEF LiveSchedule, Live, NoSlotWrittenTwice
<1>9. Tokens' /\ Sharing(kv, Projected(kv, seqs))'
    BY <1>1, UntouchedTokens
<1>10. QED
    BY <1>4, <1>5, <1>7, <1>8, <1>9 DEF EngineInv

\* The victims go back to the queue, in front.
LEMMA RequeuePreemptedKeeps == EngineInv /\ RequeuePreempted => EngineInv'
<1> SUFFICES ASSUME EngineInv, RequeuePreempted PROVE EngineInv'
    OBVIOUS
<1>1. /\ Types /\ Queues /\ Loops /\ Tokens /\ LiveSchedule /\ NoSlotWrittenTwice
      /\ phase = "running" /\ phase' = "waiting"
      /\ waiting' = preempted_seqs \o waiting /\ todo' = << >>
      /\ UNCHANGED <<kv, seqs, running, finished_seqs, budget, scheduled,
                     preempted_seqs, sampled, sequences, content>>
    BY DEF EngineInv, RequeuePreempted
<1>2. preempted_seqs \in Seq(SeqId) /\ waiting \in Seq(SeqId)
    BY <1>1 DEF Types, TypeOK
<1>3. IsInjective(preempted_seqs) /\ IsInjective(waiting)
      /\ ToSet(preempted_seqs) \cap ToSet(waiting) = {}
    BY <1>1 DEF Queues
<1>4. /\ waiting' \in Seq(SeqId) /\ IsInjective(waiting')
      /\ ToSet(waiting') = ToSet(preempted_seqs) \cup ToSet(waiting)
    BY <1>1, <1>2, <1>3, ConcatDistinct
<1>5. Types'
    BY <1>1, <1>4 DEF Types, TypeOK, Phases
<1>6. Queues'
    BY <1>1, <1>4 DEF Queues
<1>7. Loops'
    BY <1>1 DEF Loops
<1>8. LiveSchedule' /\ NoSlotWrittenTwice'
    BY <1>1 DEF LiveSchedule, Live, NoSlotWrittenTwice
<1>9. Tokens' /\ Sharing(kv, Projected(kv, seqs))'
    BY <1>1, UntouchedTokens
<1>10. QED
    BY <1>5, <1>6, <1>7, <1>8, <1>9 DEF EngineInv

LEMMA StopAdmittingKeeps == EngineInv /\ StopAdmitting => EngineInv'
<1> SUFFICES ASSUME EngineInv, StopAdmitting PROVE EngineInv'
    OBVIOUS
<1>1. /\ Types /\ Queues /\ Loops /\ Tokens /\ LiveSchedule /\ NoSlotWrittenTwice
      /\ phase = "waiting" /\ phase' = "execute"
      /\ UNCHANGED <<kv, seqs, waiting, running, finished_seqs, todo, budget, scheduled,
                     preempted_seqs, sampled, sequences, content>>
    BY DEF EngineInv, StopAdmitting, queueVars
<1>2. Types' /\ Queues' /\ Loops'
    BY <1>1 DEF Types, TypeOK, Phases, Queues, Loops
<1>3. LiveSchedule' /\ NoSlotWrittenTwice'
    BY <1>1 DEF LiveSchedule, Live, NoSlotWrittenTwice
<1>4. Tokens' /\ Sharing(kv, Projected(kv, seqs))'
    BY <1>1, UntouchedTokens
<1>5. QED
    BY <1>2, <1>3, <1>4 DEF EngineInv

LEMMA NothingToExecuteKeeps == EngineInv /\ NothingToExecute => EngineInv'
<1> SUFFICES ASSUME EngineInv, NothingToExecute PROVE EngineInv'
    OBVIOUS
<1>1. /\ Types /\ Queues /\ Loops /\ Tokens /\ NoSlotWrittenTwice
      /\ phase = "execute" /\ phase' \in {"outputs", "stalled"}
      /\ UNCHANGED <<kv, seqs, waiting, running, finished_seqs, todo, budget, scheduled,
                     preempted_seqs, sampled, sequences, content>>
    BY DEF EngineInv, NothingToExecute, queueVars
<1>2. Types' /\ Queues' /\ Loops'
    BY <1>1 DEF Types, TypeOK, Phases, Queues, Loops
<1>3. LiveSchedule' /\ NoSlotWrittenTwice'
    BY <1>1 DEF LiveSchedule, NoSlotWrittenTwice
<1>4. Tokens' /\ Sharing(kv, Projected(kv, seqs))'
    BY <1>1, UntouchedTokens
<1>5. QED
    BY <1>2, <1>3, <1>4 DEF EngineInv

\* The slots hold prefixes of token sequences.
LEMMA StoredType ==
    ASSUME EngineInv, phase = "execute"
    PROVE  Stored \in [Slots -> Seq(Token)]
<1>1. /\ Types /\ Queues /\ Tokens /\ LiveSchedule
      /\ Sharing(kv, Projected(kv, seqs))
    BY DEF EngineInv
<1>2. content \in [Slots -> Seq(Token)]
    BY <1>1 DEF Types, TypeOK
<1>3. ASSUME NEW x \in Slots, NEW e \in ToSet(scheduled), x \in ToSet(e.slot_mapping)
      PROVE  LET k == CHOOSE k \in 1 .. e.num_tokens : e.slot_mapping[k] = x
             IN  SubSeq(seqs[e.seq_id].token_ids, 1,
                        seqs[e.seq_id].num_computed_tokens + k) \in Seq(Token)
  <2> DEFINE s == e.seq_id
             seq == seqs[s]
             n == NumTokensToCompute(seq)
             k == CHOOSE k \in 1 .. e.num_tokens : e.slot_mapping[k] = x
  <2>1. /\ s \in ToSet(running)
        /\ e = Scheduled(s, kv, seq, n)
        /\ CeilDiv(Len(seq.token_ids), BlockSize) <= Len(BlockTable(kv, s))
      BY <1>1 DEF LiveSchedule, Live
  <2>2. CoveredBy(kv, s, seq)
      BY <1>1, <2>1, LiveCovered
  <2>3. e.num_tokens = n
      BY <2>1 DEF Scheduled
  <2>4. DOMAIN e.slot_mapping = 1 .. n
    <3> HIDE DEF n, seq, s
    <3>1. DOMAIN Scheduled(s, kv, seq, NumTokensToCompute(seq)).slot_mapping
              = 1 .. NumTokensToCompute(seq)
        BY <2>2, ScheduledSlots
    <3>2. QED
        BY <2>1, <3>1 DEF n
  <2>5. \E j \in 1 .. e.num_tokens : e.slot_mapping[j] = x
      BY <1>3, <2>3, <2>4 DEF ToSet
  <2>6. k \in 1 .. n
    <3>1. k \in 1 .. e.num_tokens
        BY <2>5
    <3>2. QED
        BY <2>3, <3>1
  <2> HIDE DEF k
  <2>7. /\ seq.token_ids \in Seq(Token)
        /\ seq.num_computed_tokens + k \in 0 .. Len(seq.token_ids)
      BY <2>2, <2>6 DEF CoveredBy, NumTokensToCompute
  <2> HIDE DEF seq
  <2>8. SubSeq(seq.token_ids, 1, seq.num_computed_tokens + k) \in Seq(Token)
      BY <2>7
  <2>9. QED
      BY <2>8 DEF k, seq
<1>4. ASSUME NEW x \in Slots PROVE Stored[x] \in Seq(Token)
  <2>1. CASE \E e \in ToSet(scheduled) : x \in ToSet(e.slot_mapping)
    <3> DEFINE e == CHOOSE e \in ToSet(scheduled) : x \in ToSet(e.slot_mapping)
    <3>1. e \in ToSet(scheduled) /\ x \in ToSet(e.slot_mapping)
        BY <2>1
    <3>2. Stored[x] =
              LET k == CHOOSE k \in 1 .. e.num_tokens : e.slot_mapping[k] = x
              IN  SubSeq(seqs[e.seq_id].token_ids, 1,
                         seqs[e.seq_id].num_computed_tokens + k)
        BY <2>1 DEF Stored
    <3> HIDE DEF e
    <3>3. QED
        BY <1>3, <3>1, <3>2
  <2>2. CASE ~ \E e \in ToSet(scheduled) : x \in ToSet(e.slot_mapping)
      BY <1>2, <2>2 DEF Stored
  <2>3. QED
      BY <2>1, <2>2
<1>5. Stored = [x \in Slots |-> Stored[x]]
    BY DEF Stored
<1>6. QED
    BY <1>4, <1>5

LEMMA ExecuteModelKeeps == EngineInv /\ ExecuteModel => EngineInv'
<1> SUFFICES ASSUME EngineInv, ExecuteModel PROVE EngineInv'
    OBVIOUS
<1>1. /\ Types /\ Queues /\ Loops /\ Tokens /\ LiveSchedule /\ NoSlotWrittenTwice
      /\ phase = "execute" /\ phase' = "update"
      /\ content' = Stored /\ sampled' \in [ScheduledIds -> Token]
      /\ todo' = [i \in DOMAIN scheduled |-> scheduled[i].seq_id]
      /\ UNCHANGED <<kv, seqs, waiting, running, finished_seqs, budget, scheduled,
                     preempted_seqs, sequences>>
    BY DEF EngineInv, ExecuteModel, queueVars
<1>2. content' \in [Slots -> Seq(Token)]
    BY <1>1, StoredType
<1>3. /\ todo' \in Seq(SeqId)
      /\ ToSet(todo') = ScheduledIds
      /\ IsInjective(todo')
  <2>1. scheduled \in Seq(Entry)
      BY <1>1 DEF Types
  <2>2. \A i \in DOMAIN scheduled : scheduled[i].seq_id \in SeqId
    <3>1. \A i \in DOMAIN scheduled : scheduled[i] \in Entry
        BY <2>1
    <3>2. QED
        BY <3>1 DEF Entry
  <2>3. todo' \in Seq(SeqId)
      BY <1>1, <2>1, <2>2
  <2>4. ToSet(todo') = ScheduledIds
      BY <1>1 DEF ToSet, ScheduledIds
  <2>5. IsInjective(todo')
      BY <1>1 DEF Loops, IsInjective
  <2>6. QED
      BY <2>3, <2>4, <2>5
<1>4. Types'
    BY <1>1, <1>2, <1>3 DEF Types, TypeOK, Phases, ScheduledIds
<1>5. Queues'
    BY <1>1 DEF Queues
<1>6. Loops'
  <2>1. ScheduledIds \subseteq ToSet(running)
      BY <1>1 DEF LiveSchedule, Live, ScheduledIds, ToSet
  <2>2. ScheduledIds' = ScheduledIds
      BY <1>1 DEF ScheduledIds
  <2>3. QED
      BY <1>1, <1>3, <2>1, <2>2 DEF Loops
<1>7. LiveSchedule' /\ NoSlotWrittenTwice'
    BY <1>1 DEF LiveSchedule, Live, NoSlotWrittenTwice
<1>8. Tokens' /\ Sharing(kv, Projected(kv, seqs))'
    BY <1>1, UntouchedTokens
<1>9. QED
    BY <1>4, <1>5, <1>6, <1>7, <1>8 DEF EngineInv

\* schedule()'s work stays when the forward pass raises; only its output is lost.
LEMMA ExecuteRaisesKeeps == EngineInv /\ ExecuteRaises => EngineInv'
<1> SUFFICES ASSUME EngineInv, ExecuteRaises PROVE EngineInv'
    OBVIOUS
<1>1. /\ Types /\ Queues /\ Loops /\ Tokens
      /\ phase = "execute" /\ phase' = "idle"
      /\ content' \in {content, Stored}
      /\ scheduled' = << >> /\ preempted_seqs' = << >> /\ budget' = 0
      /\ UNCHANGED <<kv, seqs, waiting, running, finished_seqs, todo, sampled, sequences>>
    BY DEF EngineInv, ExecuteRaises, queueVars
<1>2. content' \in [Slots -> Seq(Token)]
    BY <1>1, StoredType DEF Types, TypeOK
<1>3. ToSet(<< >>) = {}
    BY DEF ToSet
<1>4. Types'
    BY <1>1, <1>2 DEF Types, TypeOK, Phases
<1>5. Queues' /\ Loops'
    BY <1>1 DEF Queues, Loops
<1>6. LiveSchedule' /\ NoSlotWrittenTwice'
    BY <1>1, <1>3 DEF LiveSchedule, NoSlotWrittenTwice
<1>7. Tokens' /\ Sharing(kv, Projected(kv, seqs))'
    BY <1>1, UntouchedTokens
<1>8. QED
    BY <1>4, <1>5, <1>6, <1>7 DEF EngineInv

LEMMA UpdateDoneKeeps == EngineInv /\ UpdateDone => EngineInv'
<1> SUFFICES ASSUME EngineInv, UpdateDone PROVE EngineInv'
    OBVIOUS
<1>1. /\ Types /\ Queues /\ Loops /\ Tokens /\ NoSlotWrittenTwice
      /\ phase = "update" /\ phase' = "outputs"
      /\ UNCHANGED <<kv, seqs, waiting, running, finished_seqs, todo, budget, scheduled,
                     preempted_seqs, sampled, sequences, content>>
    BY DEF EngineInv, UpdateDone, queueVars
<1>2. Types' /\ Queues' /\ Loops'
    BY <1>1 DEF Types, TypeOK, Phases, Queues, Loops
<1>3. LiveSchedule' /\ NoSlotWrittenTwice'
    BY <1>1 DEF LiveSchedule, NoSlotWrittenTwice
<1>4. Tokens' /\ Sharing(kv, Projected(kv, seqs))'
    BY <1>1, UntouchedTokens
<1>5. QED
    BY <1>2, <1>3, <1>4 DEF EngineInv

\* The engine forgets the finished sequences; none of them is in a queue.
LEMMA OutputsKeeps == EngineInv /\ Outputs => EngineInv'
<1> SUFFICES ASSUME EngineInv, Outputs PROVE EngineInv'
    OBVIOUS
<1>1. /\ Types /\ Queues /\ Loops /\ Tokens
      /\ phase = "outputs" /\ phase' = "idle"
      /\ sequences' = sequences \ ToSet(finished_seqs) /\ finished_seqs' = << >>
      /\ todo' = << >> /\ budget' = 0 /\ scheduled' = << >>
      /\ preempted_seqs' = << >> /\ sampled' = << >>
      /\ UNCHANGED <<kv, seqs, waiting, running, content>>
    BY DEF EngineInv, Outputs
<1>2. ToSet(<< >>) = {}
    BY DEF ToSet
<1>3. Types'
    BY <1>1 DEF Types, TypeOK, Phases
<1>4. Queues'
    BY <1>1, <1>2 DEF Queues
<1>5. Loops' /\ LiveSchedule' /\ NoSlotWrittenTwice'
    BY <1>1, <1>2 DEF Loops, LiveSchedule, NoSlotWrittenTwice
<1>6. Tokens' /\ Sharing(kv, Projected(kv, seqs))'
    BY <1>1, UntouchedTokens
<1>7. QED
    BY <1>3, <1>4, <1>5, <1>6 DEF EngineInv

LEMMA ResetKeeps ==
    ASSUME EngineInv, Reset
    PROVE  /\ EngineInv'
           /\ ManagerCall(kv, Projected(kv, seqs), kv', Projected(kv', seqs'))
<1>1. /\ Types /\ Queues /\ Loops /\ Tokens /\ Sharing(kv, Projected(kv, seqs))
      /\ phase = "idle" /\ kv' = EmptyKV /\ sequences' = {}
      /\ waiting' = << >> /\ running' = << >> /\ finished_seqs' = << >>
      /\ UNCHANGED <<seqs, phase, todo, budget, scheduled, preempted_seqs, sampled, content>>
    BY DEF EngineInv, Reset, stepVars
<1>2. /\ ToSet(<< >>) = {} /\ IsInjective(<< >>)
      /\ DOMAIN EmptyKV.request_blocks = {}
    BY DEF ToSet, IsInjective, EmptyKV
<1>3. scheduled = << >>
    BY <1>1 DEF Loops
<1>4. Types' /\ Queues' /\ Loops'
    BY <1>1, <1>2, <1>3 DEF Types, TypeOK, Queues, Loops
<1>5. LiveSchedule' /\ NoSlotWrittenTwice'
    BY <1>1, <1>2, <1>3 DEF LiveSchedule, NoSlotWrittenTwice
<1>6. Tokens'
    BY <1>1, <1>2 DEF Tokens
<1>7. ManagerCall(kv, Projected(kv, seqs), kv', Projected(kv', seqs'))
  <2> DEFINE q == Projected(kv, seqs)
             q2 == Projected(EmptyKV, seqs)
  <2>1. seqs \in [SeqId -> EngineSeq]
      BY <1>1 DEF Types, TypeOK, EngineSeq
  <2>2. q2 = [s \in SeqId |-> [q[s] EXCEPT !.num_computed_tokens = 0]]
      BY <1>2 DEF Projected, Holds
  <2>3. kv' = EmptyKV /\ Projected(kv', seqs') = q2
      BY <1>1
  <2> HIDE DEF q, q2
  <2>4. ManagerCall(kv, q, kv', q2)
      BY <2>2, <2>3 DEF ManagerCall
  <2>5. QED
      BY <2>3, <2>4 DEF q
<1>8. Sharing(kv, Projected(kv, seqs))'
    BY <1>1, <1>7, ManagerCallKeepsSharing
<1>9. QED
    BY <1>4, <1>5, <1>6, <1>7, <1>8 DEF EngineInv

-----------------------------------------------------------------------------
(* The steps that take blocks back.                                        *)

\* An entry stays live while its sequence runs, unchanged, on the same table.
LEMMA LiveStays ==
    ASSUME Queues, Queues', NEW e, Live(e), NEW x, x = e.seq_id,
           x \in ToSet(running'),
           BlockTable(kv', x) = BlockTable(kv, x), seqs'[x] = seqs[x]
    PROVE  Live(e)'
<1>1. x \in DOMAIN kv.request_blocks /\ x \in DOMAIN kv'.request_blocks
    BY DEF Queues, Live
<1>2. kv'.request_blocks[x] = kv.request_blocks[x]
    BY <1>1 DEF BlockTable, Holds
<1>3. Scheduled(x, kv', seqs'[x], NumTokensToCompute(seqs'[x]))
          = Scheduled(x, kv, seqs[x], NumTokensToCompute(seqs[x]))
    BY <1>2 DEF Scheduled, SlotMapping
<1>4. QED
    BY <1>3 DEF Live

\* Scheduler._finish and Scheduler._preempt take a sequence out of its queue.
LEMMA FreeSeqQueues ==
    ASSUME Types, Queues, NEW s \in SeqId, FreeSeq(s)
    PROVE  /\ running' \in Seq(SeqId) /\ waiting' \in Seq(SeqId)
           /\ IsInjective(running') /\ IsInjective(waiting')
           /\ ToSet(running') = ToSet(running) \ {s}
           /\ ToSet(waiting') = ToSet(waiting) \ {s}
<1>1. running \in Seq(SeqId) /\ waiting \in Seq(SeqId)
    BY DEF Types, TypeOK
<1>2. IsInjective(running) /\ IsInjective(waiting)
    BY DEF Queues
<1>3. /\ running' = Delete(running, {s})
      /\ waiting' = IF s \in ToSet(running) THEN waiting ELSE Delete(waiting, {s})
    BY DEF FreeSeq
<1>4. /\ Delete(running, {s}) \in Seq(SeqId)
      /\ IsInjective(Delete(running, {s}))
      /\ ToSet(Delete(running, {s})) = ToSet(running) \ {s}
    BY <1>1, <1>2, DeleteProperties
<1>5. /\ Delete(waiting, {s}) \in Seq(SeqId)
      /\ IsInjective(Delete(waiting, {s}))
      /\ ToSet(Delete(waiting, {s})) = ToSet(waiting) \ {s}
    BY <1>1, <1>2, DeleteProperties
<1>6. s \in ToSet(running) => s \notin ToSet(waiting)
    BY DEF Queues
<1>7. QED
    BY <1>1, <1>2, <1>3, <1>4, <1>5, <1>6

\* A request ends: rejected, aborted, stopped or at its token limit.
LEMMA FinishKeeps ==
    ASSUME EngineInv, NEW s \in SeqId, NEW seq \in EngineSeq, NEW reason \in Reasons,
           Finish(s, seq, reason),
           phase \in {"idle", "waiting", "update"},
           seqs[s].status # "DONE",
           phase = "waiting" => s \notin ToSet(running),
           IF phase = "update" THEN todo # << >> /\ s = Head(todo) /\ todo' = Tail(todo)
                               ELSE todo' = todo,
           sequences' \in {sequences, sequences \cup {s}},
           UNCHANGED <<phase, budget, scheduled, preempted_seqs, sampled, content>>,
           NEW more \in {<< >>} \cup {<<t>> : t \in Token},
           seq.token_ids = seqs[s].token_ids \o more,
           seq.prompt_len = seqs[s].prompt_len,
           Holds(kv, s) \/ more = << >>
    PROVE  /\ EngineInv'
           /\ ManagerCall(kv, Projected(kv, seqs), kv', Projected(kv', seqs'))
<1>1. /\ Types /\ Queues /\ Loops /\ Tokens /\ LiveSchedule /\ NoSlotWrittenTwice
      /\ Sharing(kv, Projected(kv, seqs))
    BY DEF EngineInv
<1>2. /\ seqs \in [SeqId -> EngineSeq] /\ finished_seqs \in Seq(SeqId)
      /\ todo \in Seq(SeqId) /\ sequences \subseteq SeqId
    BY <1>1 DEF Types, TypeOK, EngineSeq
<1>3. /\ seqs' = [seqs EXCEPT ![s] = Finished(seq, reason)]
      /\ FreeSeq(s) /\ finished_seqs' = Append(finished_seqs, s)
      /\ kv' = FreeIfAllocated(kv, s)
    BY DEF Finish, FreeSeq
<1>4. /\ seqs' \in [SeqId -> EngineSeq]
      /\ seqs'[s].token_ids = seq.token_ids
      /\ seqs'[s].status = "DONE"
      /\ seqs'[s].prompt_len = seq.prompt_len
      /\ \A x \in SeqId : x # s => seqs'[x] = seqs[x]
  <2>1. /\ Finished(seq, reason) \in EngineSeq
        /\ Finished(seq, reason).token_ids = seq.token_ids
        /\ Finished(seq, reason).status = "DONE"
        /\ Finished(seq, reason).prompt_len = seq.prompt_len
      BY DEF Finished, EngineSeq, Statuses
  <2>2. QED
      BY <1>2, <1>3, <2>1
<1>5. /\ running' \in Seq(SeqId) /\ waiting' \in Seq(SeqId)
      /\ IsInjective(running') /\ IsInjective(waiting')
      /\ ToSet(running') = ToSet(running) \ {s}
      /\ ToSet(waiting') = ToSet(waiting) \ {s}
    BY <1>1, <1>3, FreeSeqQueues
<1>6. /\ finished_seqs' \in Seq(SeqId)
      /\ ToSet(finished_seqs') = ToSet(finished_seqs) \cup {s}
    BY <1>2, <1>3, AppendDistinct
<1>7. /\ DOMAIN kv'.request_blocks = DOMAIN kv.request_blocks \ {s}
      /\ \A x : x # s => BlockTable(kv', x) = BlockTable(kv, x)
      /\ ManagerCall(kv, Projected(kv, seqs), kv', Projected(kv', seqs'))
  <2>1. \A x \in SeqId \ {s} : SameTokens(seqs, seqs', x)
      BY <1>4 DEF SameTokens
  <2>2. seqs'[s].token_ids = seqs[s].token_ids \o more
      BY <1>4
  <2>3. /\ DOMAIN kv'.request_blocks = DOMAIN kv.request_blocks \ {s}
        /\ \A x : x # s => BlockTable(kv', x) = BlockTable(kv, x)
      BY <1>1, <1>2, <1>3, FreeEffects
  <2>4. \A q2 \in [SeqId -> EngineSeq] :
            \A extra \in {<< >>} \cup {<<t>> : t \in Token} :
                /\ \A t \in SeqId \ {s} : SameTokens(seqs, q2, t)
                /\ q2[s].token_ids = seqs[s].token_ids \o extra
                /\ Holds(kv, s) \/ extra = << >>
                => ManagerCall(kv, Projected(kv, seqs), kv', Projected(kv', q2))
      BY <1>1, <1>2, <1>3, FreeEffects
  <2>5. QED
      BY <1>4, <2>1, <2>2, <2>3, <2>4
<1>8. /\ todo' \in Seq(SeqId)
      /\ phase = "update" => /\ IsInjective(todo')
                             /\ ToSet(todo') \subseteq ToSet(todo) \ {s}
  <2>1. CASE phase # "update"
      BY <1>2, <2>1
  <2>2. CASE phase = "update"
    <3>1. todo # << >> /\ s = Head(todo) /\ todo' = Tail(todo)
        BY <2>2
    <3>2. IsInjective(todo)
        BY <1>1, <2>2 DEF Loops
    <3>3. QED
        BY <1>2, <3>1, <3>2, TailDistinct
  <2>3. QED
      BY <2>1, <2>2
<1>9. Types'
  <2>1. TypeOK'
      BY <1>1, <1>2, <1>4, <1>5, <1>6, <1>8 DEF Types, TypeOK, EngineSeq
  <2>2. ScheduledIds' = ScheduledIds
      BY DEF ScheduledIds
  <2>3. QED
      BY <1>1, <2>1, <2>2 DEF Types
<1>10. Queues'
  <2>1. /\ IsInjective(waiting') /\ IsInjective(running')
        /\ DOMAIN kv'.request_blocks = ToSet(running')
      BY <1>1, <1>5, <1>7 DEF Queues
  <2>2. \A x \in ToSet(running) \cup ToSet(waiting) : x \in SeqId
    <3>1. running \in Seq(SeqId) /\ waiting \in Seq(SeqId)
        BY <1>1 DEF Types, TypeOK
    <3>2. QED
        BY <3>1 DEF ToSet
  <2>3. /\ \A x \in ToSet(running') : seqs'[x].status = "RUNNING" /\ x \in sequences'
        /\ \A x \in ToSet(waiting') : seqs'[x].status = "WAITING" /\ x \in sequences'
    <3>1. /\ \A x \in ToSet(running) : seqs[x].status = "RUNNING" /\ x \in sequences
          /\ \A x \in ToSet(waiting) : seqs[x].status = "WAITING" /\ x \in sequences
        BY <1>1 DEF Queues
    <3>2. /\ \A x \in ToSet(running') : x \in ToSet(running) /\ seqs'[x] = seqs[x]
          /\ \A x \in ToSet(waiting') : x \in ToSet(waiting) /\ seqs'[x] = seqs[x]
        BY <1>4, <1>5, <2>2
    <3>3. sequences \subseteq sequences'
        OBVIOUS
    <3>4. QED
        BY <3>1, <3>2, <3>3
  <2>4. \A x \in ToSet(finished_seqs') : seqs'[x].status = "DONE"
    <3>1. \A x \in ToSet(finished_seqs) : x \in SeqId
        BY <1>2 DEF ToSet
    <3>2. QED
        BY <1>1, <1>4, <1>6, <3>1 DEF Queues
  <2>5. ASSUME NEW x \in sequences'
        PROVE  /\ seqs'[x].status # "NEW"
               /\ seqs'[x].status = "RUNNING" => x \in ToSet(running')
               /\ seqs'[x].status = "WAITING" => x \in ToSet(waiting')
               /\ seqs'[x].status = "DONE" => x \in ToSet(finished_seqs')
    <3>1. CASE x = s
        BY <1>4, <1>6, <3>1
    <3>2. CASE x # s
      <4>1. x \in sequences /\ x \in SeqId /\ seqs'[x] = seqs[x]
          BY <1>2, <1>4, <3>2
      <4>2. QED
          BY <1>1, <1>5, <1>6, <3>2, <4>1 DEF Queues
    <3>3. QED
        BY <3>1, <3>2
  <2>6. QED
      BY <1>1, <2>1, <2>3, <2>4, <2>5 DEF Queues
<1>11. Loops'
    BY <1>1, <1>5, <1>8 DEF Loops, ScheduledIds
<1>12. Tokens'
  <2>1. seqs[s].token_ids \in Seq(Token) /\ seqs[s].token_ids # << >>
      BY <1>1, <1>2 DEF Tokens, EngineSeq
  <2>2. seq.token_ids # << >> /\ Len(seq.token_ids) <= Len(seqs[s].token_ids) + 1
      BY <2>1
  <2>3. GeneratedLen(seqs[s]) < MaxTokens /\ \E p \in Prompts : seqs[s].prompt_len = Len(p)
      BY <1>1 DEF Tokens
  <2>4. Len(seq.token_ids) - seq.prompt_len <= MaxTokens
    <3>1. /\ seqs[s].prompt_len \in Nat /\ Len(seqs[s].token_ids) \in Nat
          /\ Len(seq.token_ids) \in Nat
      <4>1. seqs[s] \in EngineSeq
          BY <1>2
      <4>2. seqs[s].prompt_len \in Nat /\ seq.token_ids \in Seq(Token)
          BY <4>1 DEF EngineSeq
      <4>3. QED
          BY <2>1, <4>2
    <3>2. QED
        BY <2>2, <2>3, <3>1, BudgetAssumption DEF GeneratedLen
  <2>5. GeneratedLen(seqs'[s]) <= MaxTokens
      BY <1>4, <2>4 DEF GeneratedLen
  <2>6. QED
      BY <1>1, <1>4, <1>5, <2>2, <2>3, <2>5 DEF Tokens
<1>13. LiveSchedule'
  <2>1. SUFFICES ASSUME NEW e \in ToSet(scheduled),
                        \/ phase = "waiting"
                        \/ phase = "update" /\ e.seq_id \in ToSet(todo')
                 PROVE  Live(e)'
      BY DEF LiveSchedule
  <2>2. Live(e) /\ e.seq_id \in ToSet(running)
      BY <1>1, <1>8, <2>1 DEF LiveSchedule, Live
  <2>3. e.seq_id # s
      BY <1>8, <2>1, <2>2
  <2>4. e.seq_id \in SeqId
      BY <1>1, <2>2 DEF Types, TypeOK, ToSet
  <2>5. QED
      BY <1>1, <1>4, <1>5, <1>7, <1>10, <2>2, <2>3, <2>4, LiveStays
<1>14. NoSlotWrittenTwice'
    BY <1>1 DEF NoSlotWrittenTwice
<1>15. Sharing(kv, Projected(kv, seqs))'
    BY <1>1, <1>7, ManagerCallKeepsSharing
<1>16. QED
    BY <1>7, <1>9, <1>10, <1>11, <1>12, <1>13, <1>14, <1>15 DEF EngineInv

LEMMA AbortRequestKeeps ==
    ASSUME EngineInv, NEW s \in SeqId, AbortRequest(s)
    PROVE  /\ EngineInv'
           /\ ManagerCall(kv, Projected(kv, seqs), kv', Projected(kv', seqs'))
<1>1. /\ phase = "idle" /\ seqs[s].status # "DONE"
      /\ Finish(s, seqs[s], "ABORT")
      /\ UNCHANGED <<phase, todo, budget, scheduled, preempted_seqs, sampled,
                     sequences, content>>
    BY DEF AbortRequest, stepVars
<1>2. seqs[s] \in EngineSeq /\ seqs[s].token_ids = seqs[s].token_ids \o << >>
    BY DEF EngineInv, Types, TypeOK, EngineSeq
<1>3. "ABORT" \in Reasons
    BY DEF Reasons
<1>4. QED
    BY <1>1, <1>2, <1>3, FinishKeeps

LEMMA RejectWaitingKeeps ==
    ASSUME EngineInv, NEW s \in SeqId, RejectWaiting(s)
    PROVE  /\ EngineInv'
           /\ ManagerCall(kv, Projected(kv, seqs), kv', Projected(kv', seqs'))
<1>1. /\ phase = "waiting" /\ waiting # << >> /\ s = Head(waiting)
      /\ Finish(s, seqs[s], "LENGTH")
      /\ UNCHANGED <<phase, todo, budget, scheduled, preempted_seqs, sampled,
                     sequences, content>>
    BY DEF RejectWaiting, HandlesWaiting, stepVars
<1>2. seqs[s] \in EngineSeq /\ seqs[s].token_ids = seqs[s].token_ids \o << >>
    BY DEF EngineInv, Types, TypeOK, EngineSeq
<1>3. "LENGTH" \in Reasons
    BY DEF Reasons
<1>4. s \in ToSet(waiting)
  <2>1. waiting \in Seq(SeqId)
      BY DEF EngineInv, Types, TypeOK
  <2>2. 1 \in DOMAIN waiting /\ s = waiting[1]
      BY <1>1, <2>1
  <2>3. QED
      BY <2>2 DEF ToSet
<1>5. seqs[s].status = "WAITING" /\ s \notin ToSet(running)
    BY <1>4 DEF EngineInv, Queues
<1>6. QED
    BY <1>1, <1>2, <1>3, <1>5, FinishKeeps

LEMMA AddRequestKeeps ==
    ASSUME EngineInv, NEW s \in SeqId, AddRequest(s)
    PROVE  /\ EngineInv'
           /\ ManagerCall(kv, Projected(kv, seqs), kv', Projected(kv', seqs'))
<1>1. /\ phase = "idle" /\ seqs[s].status = "NEW"
      /\ sequences' = sequences \cup {s}
      /\ UNCHANGED <<phase, todo, budget, scheduled, preempted_seqs, sampled, content>>
    BY DEF AddRequest, stepVars
<1>2. /\ Types /\ Queues /\ Loops /\ Tokens /\ Sharing(kv, Projected(kv, seqs))
      /\ seqs \in [SeqId -> EngineSeq] /\ waiting \in Seq(SeqId)
      /\ sequences \subseteq SeqId
    BY DEF EngineInv, Types, TypeOK, EngineSeq
<1>3. CASE Finish(s, seqs[s], "LENGTH")
  <2>1. seqs[s] \in EngineSeq /\ seqs[s].token_ids = seqs[s].token_ids \o << >>
      BY <1>2 DEF EngineSeq
  <2>2. "LENGTH" \in Reasons
      BY DEF Reasons
  <2>3. QED
      BY <1>1, <1>3, <2>1, <2>2, FinishKeeps
<1>4. CASE /\ seqs' = [seqs EXCEPT ![s].status = "WAITING"]
           /\ waiting' = Append(waiting, s)
           /\ UNCHANGED <<kv, running, finished_seqs>>
  <2>1. /\ seqs' \in [SeqId -> EngineSeq]
        /\ seqs'[s].status = "WAITING"
        /\ seqs'[s].prompt_len = seqs[s].prompt_len
        /\ seqs'[s].token_ids = seqs[s].token_ids
        /\ seqs'[s].num_computed_tokens = seqs[s].num_computed_tokens
        /\ \A x \in SeqId : x # s => seqs'[x] = seqs[x]
      BY <1>2, <1>4 DEF EngineSeq, Statuses
  <2>2. /\ s \notin ToSet(waiting) /\ s \notin ToSet(running)
        /\ s \notin sequences /\ s \notin ToSet(finished_seqs)
      BY <1>1, <1>2 DEF Queues
  <2>3. /\ waiting' \in Seq(SeqId) /\ IsInjective(waiting')
        /\ ToSet(waiting') = ToSet(waiting) \cup {s}
      BY <1>2, <1>4, <2>2, AppendDistinct DEF Queues
  <2>4. scheduled = << >> /\ ToSet(<< >>) = {}
      BY <1>1, <1>2 DEF Loops, ToSet
  <2>5. Types'
      BY <1>1, <1>2, <1>4, <2>1, <2>3 DEF Types, TypeOK, EngineSeq
  <2>6. Queues'
    <3>1. running \in Seq(SeqId) /\ finished_seqs \in Seq(SeqId)
        BY <1>2 DEF Types, TypeOK
    <3>2. /\ \A x \in ToSet(running) : x \in SeqId
          /\ \A x \in ToSet(finished_seqs) : x \in SeqId
          /\ \A x \in ToSet(waiting) : x \in SeqId
        BY <1>2, <3>1 DEF ToSet
    <3>3. /\ \A x \in ToSet(running) : seqs'[x].status = "RUNNING" /\ x \in sequences'
          /\ \A x \in ToSet(finished_seqs) : seqs'[x].status = "DONE"
          /\ \A x \in ToSet(waiting') : seqs'[x].status = "WAITING" /\ x \in sequences'
        BY <1>1, <1>2, <2>1, <2>2, <2>3, <3>2 DEF Queues
    <3>4. ASSUME NEW x \in sequences'
          PROVE  /\ seqs'[x].status # "NEW"
                 /\ seqs'[x].status = "RUNNING" => x \in ToSet(running)
                 /\ seqs'[x].status = "WAITING" => x \in ToSet(waiting')
                 /\ seqs'[x].status = "DONE" => x \in ToSet(finished_seqs)
      <4>1. CASE x = s
          BY <2>1, <2>3, <4>1
      <4>2. CASE x # s
        <5>1. x \in sequences /\ seqs'[x] = seqs[x]
            BY <1>1, <1>2, <2>1, <4>2
        <5>2. QED
            BY <1>1, <1>2, <2>3, <5>1 DEF Queues
      <4>3. QED
          BY <4>1, <4>2
    <3>5. QED
        BY <1>1, <1>2, <1>4, <2>3, <3>3, <3>4 DEF Queues
  <2>7. Loops' /\ LiveSchedule' /\ NoSlotWrittenTwice'
      BY <1>1, <2>4 DEF Loops, LiveSchedule, NoSlotWrittenTwice
  <2>8. Tokens'
      BY <1>1, <1>2, <1>4, <2>1, <2>2 DEF Tokens, GeneratedLen
  <2>9. kv' = kv /\ Projected(kv', seqs') = Projected(kv, seqs)
      BY <1>2, <1>4, <2>1 DEF Projected
  <2>10. ManagerCall(kv, Projected(kv, seqs), kv', Projected(kv', seqs'))
    <3> DEFINE q == Projected(kv, seqs)
               q2 == Projected(kv', seqs')
    <3> HIDE DEF q, q2
    <3>1. kv' = kv /\ q2 = q
        BY <2>9 DEF q, q2
    <3>2. ManagerCall(kv, q, kv', q2)
        BY <3>1 DEF ManagerCall
    <3>3. QED
        BY <3>2 DEF q, q2
  <2>11. Sharing(kv, Projected(kv, seqs))'
      BY <1>2, <2>10, ManagerCallKeepsSharing
  <2>12. QED
      BY <2>5, <2>6, <2>7, <2>8, <2>10, <2>11 DEF EngineInv
<1>5. QED
    BY <1>3, <1>4 DEF AddRequest

-----------------------------------------------------------------------------
(* Appending the sampled token.                                            *)

\* The token count update_from_output reads is that of the sequence's entry.
LEMMA UpdatedEntry ==
    ASSUME EngineInv, NEW s \in SeqId, phase = "update", todo # << >>, s = Head(todo)
    PROVE  /\ s \in ToSet(running) /\ s \in ScheduledIds /\ sampled[s] \in Token
           /\ (CHOOSE e \in ToSet(scheduled) : e.seq_id = s).num_tokens
                  = NumTokensToCompute(seqs[s])
           /\ CeilDiv(Len(seqs[s].token_ids), BlockSize) <= Len(BlockTable(kv, s))
<1>1. Types /\ Loops /\ LiveSchedule /\ todo \in Seq(SeqId)
    BY DEF EngineInv, Types, TypeOK
<1>2. s \in ToSet(todo)
  <2>1. 1 \in DOMAIN todo /\ s = todo[1]
      BY <1>1
  <2>2. QED
      BY <2>1 DEF ToSet
<1>3. s \in ToSet(running) /\ s \in ScheduledIds /\ sampled[s] \in Token
    BY <1>1, <1>2 DEF Loops, Types
<1>4. \E e \in ToSet(scheduled) : e.seq_id = s
    BY <1>3 DEF ScheduledIds, ToSet
<1> DEFINE e == CHOOSE e \in ToSet(scheduled) : e.seq_id = s
<1>5. e \in ToSet(scheduled) /\ e.seq_id = s
    BY <1>4
<1> HIDE DEF e
<1>6. Live(e)
    BY <1>1, <1>2, <1>5 DEF LiveSchedule
<1>7. /\ e.num_tokens = NumTokensToCompute(seqs[s])
      /\ CeilDiv(Len(seqs[s].token_ids), BlockSize) <= Len(BlockTable(kv, s))
    BY <1>5, <1>6 DEF Live, Scheduled
<1>8. QED
    BY <1>3, <1>7 DEF e

LEMMA UpdateSeqKeeps ==
    ASSUME EngineInv, NEW s \in SeqId, UpdateSeq(s)
    PROVE  /\ EngineInv'
           /\ ManagerCall(kv, Projected(kv, seqs), kv', Projected(kv', seqs'))
<1> DEFINE token == sampled[s]
           seq == [seqs[s] EXCEPT !.num_computed_tokens = Len(seqs[s].token_ids)]
           grown == [seq EXCEPT !.token_ids = Append(@, token)]
<1>1. /\ phase = "update" /\ todo # << >> /\ s = Head(todo) /\ todo' = Tail(todo)
      /\ UNCHANGED <<phase, budget, scheduled, preempted_seqs, sampled, sequences, content>>
    BY DEF UpdateSeq
<1>2. /\ Types /\ Queues /\ Loops /\ Tokens /\ LiveSchedule /\ NoSlotWrittenTwice
      /\ Sharing(kv, Projected(kv, seqs))
      /\ seqs \in [SeqId -> EngineSeq] /\ todo \in Seq(SeqId) /\ running \in Seq(SeqId)
    BY DEF EngineInv, Types, TypeOK, EngineSeq
<1>3. /\ s \in ToSet(running) /\ s \in ScheduledIds /\ token \in Token
      /\ (CHOOSE e \in ToSet(scheduled) : e.seq_id = s).num_tokens
             = NumTokensToCompute(seqs[s])
      /\ CeilDiv(Len(seqs[s].token_ids), BlockSize) <= Len(BlockTable(kv, s))
    BY <1>1, UpdatedEntry
<1>4. /\ seqs[s] \in EngineSeq /\ seqs[s].token_ids \in Seq(Token)
      /\ seqs[s].num_computed_tokens \in Nat /\ Len(seqs[s].token_ids) \in Nat
      /\ seqs[s].prompt_len \in Nat
    BY <1>2 DEF EngineSeq
<1>5. Holds(kv, s) /\ seqs[s].status = "RUNNING"
    BY <1>2, <1>3 DEF Queues, Holds
<1>6. seqs[s].num_computed_tokens + NumTokensToCompute(seqs[s]) = Len(seqs[s].token_ids)
    BY <1>4 DEF NumTokensToCompute
<1>7. \/ Finish(s, seq, "STOP")
      \/ Finish(s, grown, "LENGTH")
      \/ /\ GeneratedLen(grown) < MaxTokens
         /\ seqs' = [seqs EXCEPT ![s] = grown]
         /\ UNCHANGED <<kv, waiting, running, finished_seqs>>
    BY <1>3, <1>6 DEF UpdateSeq, queueVars
<1>8. /\ seq \in EngineSeq /\ seq.token_ids = seqs[s].token_ids
      /\ seq.prompt_len = seqs[s].prompt_len
      /\ grown \in EngineSeq /\ grown.token_ids = Append(seqs[s].token_ids, token)
      /\ grown.num_computed_tokens = Len(seqs[s].token_ids)
      /\ grown.prompt_len = seqs[s].prompt_len
      /\ grown.status = seqs[s].status
  <2>1. Append(seqs[s].token_ids, token) \in Seq(Token)
      BY <1>3, <1>4
  <2>2. /\ seq \in EngineSeq /\ seq.token_ids = seqs[s].token_ids
        /\ seq.prompt_len = seqs[s].prompt_len
        /\ seq.num_computed_tokens = Len(seqs[s].token_ids)
        /\ seq.status = seqs[s].status
      BY <1>4 DEF EngineSeq
  <2> HIDE DEF seq, token
  <2>3. QED
      BY <2>1, <2>2 DEF EngineSeq
<1> HIDE DEF token, seq, grown
<1>9. CASE Finish(s, seq, "STOP")
  <2>1. seq.token_ids = seqs[s].token_ids \o << >>
      BY <1>4, <1>8
  <2>2. "STOP" \in Reasons
      BY DEF Reasons
  <2>3. QED
      BY <1>1, <1>5, <1>8, <1>9, <2>1, <2>2, FinishKeeps
<1>10. CASE Finish(s, grown, "LENGTH")
  <2>1. grown.token_ids = seqs[s].token_ids \o <<token>>
      BY <1>3, <1>4, <1>8
  <2>2. "LENGTH" \in Reasons /\ <<token>> \in {<< >>} \cup {<<t>> : t \in Token}
      BY <1>3 DEF Reasons
  <2>3. QED
      BY <1>1, <1>5, <1>8, <1>10, <2>1, <2>2, FinishKeeps
<1>11. CASE /\ GeneratedLen(grown) < MaxTokens
            /\ seqs' = [seqs EXCEPT ![s] = grown]
            /\ UNCHANGED <<kv, waiting, running, finished_seqs>>
  <2>1. /\ seqs' \in [SeqId -> EngineSeq] /\ seqs'[s] = grown
        /\ \A x \in SeqId : x # s => seqs'[x] = seqs[x]
        /\ \A x \in SeqId : seqs'[x].status = seqs[x].status
      BY <1>2, <1>8, <1>11
  <2>2. /\ todo' \in Seq(SeqId) /\ IsInjective(todo')
        /\ ToSet(todo') = ToSet(todo) \ {s}
    <3>1. IsInjective(todo)
        BY <1>1, <1>2 DEF Loops
    <3>2. QED
        BY <1>1, <1>2, <3>1, TailDistinct
  <2>3. ScheduledIds' = ScheduledIds
      BY <1>1 DEF ScheduledIds
  <2>4. Types'
    <3>1. TypeOK'
        BY <1>1, <1>2, <1>11, <2>1, <2>2 DEF Types, TypeOK, EngineSeq
    <3>2. QED
        BY <1>1, <1>2, <2>3, <3>1 DEF Types
  <2>5. Queues'
    <3>1. waiting \in Seq(SeqId) /\ finished_seqs \in Seq(SeqId) /\ sequences \subseteq SeqId
        BY <1>2 DEF Types, TypeOK
    <3>2. /\ \A x \in ToSet(running) : x \in SeqId
          /\ \A x \in ToSet(finished_seqs) : x \in SeqId
          /\ \A x \in ToSet(waiting) : x \in SeqId
        BY <1>2, <3>1 DEF ToSet
    <3>3. QED
        BY <1>1, <1>2, <1>11, <2>1, <3>1, <3>2 DEF Queues
  <2>6. Loops'
      BY <1>1, <1>2, <1>11, <2>2, <2>3 DEF Loops
  <2>7. Tokens'
    <3>1. /\ grown.token_ids # << >>
          /\ Len(grown.token_ids) = Len(seqs[s].token_ids) + 1
        BY <1>3, <1>4, <1>8
    <3>2. grown.num_computed_tokens < Len(grown.token_ids)
        BY <1>4, <1>8, <3>1
    <3>3. GeneratedLen(grown) <= MaxTokens
      <4>1. GeneratedLen(grown) \in Int
          BY <1>4, <1>8, <3>1 DEF GeneratedLen
      <4>2. QED
          BY <1>11, <4>1, BudgetAssumption
    <3>4. \E p \in Prompts : grown.prompt_len = Len(p)
        BY <1>2, <1>8 DEF Tokens
    <3>5. grown.status = "RUNNING"
        BY <1>5, <1>8
    <3>6. ASSUME NEW x \in SeqId
          PROVE  /\ seqs'[x].token_ids # << >>
                 /\ seqs'[x].status \in {"NEW", "WAITING"}
                        => seqs'[x].num_computed_tokens = 0
                 /\ x \in ToSet(running) =>
                        seqs'[x].num_computed_tokens < Len(seqs'[x].token_ids)
                 /\ \E p \in Prompts : seqs'[x].prompt_len = Len(p)
                 /\ GeneratedLen(seqs'[x]) <= MaxTokens
                 /\ seqs'[x].status # "DONE" => GeneratedLen(seqs'[x]) < MaxTokens
      <4>1. CASE x = s
          BY <1>11, <2>1, <3>1, <3>2, <3>3, <3>4, <3>5, <4>1
      <4>2. CASE x # s
        <5>1. seqs'[x] = seqs[x]
            BY <2>1, <4>2
        <5>2. QED
            BY <1>2, <5>1 DEF Tokens
      <4>3. QED
          BY <4>1, <4>2
    <3>7. running' = running
        BY <1>11
    <3>8. QED
        BY <3>6, <3>7 DEF Tokens
  <2>8. LiveSchedule'
    <3>1. SUFFICES ASSUME NEW e \in ToSet(scheduled), e.seq_id \in ToSet(todo')
                   PROVE  Live(e)'
        BY <1>1 DEF LiveSchedule
    <3>2. Live(e) /\ e.seq_id \in ToSet(running)
        BY <1>1, <1>2, <2>2, <3>1 DEF LiveSchedule, Live
    <3>3. e.seq_id # s
        BY <2>2, <3>1
    <3>4. e.seq_id \in SeqId
        BY <1>2, <3>2 DEF ToSet
    <3>5. /\ e.seq_id \in ToSet(running') /\ seqs'[e.seq_id] = seqs[e.seq_id]
          /\ BlockTable(kv', e.seq_id) = BlockTable(kv, e.seq_id)
        BY <1>11, <2>1, <3>2, <3>3, <3>4
    <3>6. QED
        BY <1>2, <2>5, <3>2, <3>5, LiveStays
  <2>9. NoSlotWrittenTwice'
      BY <1>1, <1>2 DEF NoSlotWrittenTwice
  <2>10. ManagerCall(kv, Projected(kv, seqs), kv', Projected(kv', seqs'))
    <3> DEFINE q == Projected(kv, seqs)
               q2 == Projected(kv', seqs')
    <3>1. /\ q \in [SeqId -> SeqRecord] /\ q2 \in [SeqId -> SeqRecord]
          /\ \A x \in SeqId :
                 /\ q[x].token_ids = seqs[x].token_ids
                 /\ q[x].num_computed_tokens =
                        IF Holds(kv, x) THEN seqs[x].num_computed_tokens ELSE 0
                 /\ q2[x].token_ids = seqs'[x].token_ids
                 /\ q2[x].num_computed_tokens =
                        IF Holds(kv, x) THEN seqs'[x].num_computed_tokens ELSE 0
      <4>1. /\ q \in [SeqId -> SeqRecord]
            /\ \A x \in SeqId :
                   /\ q[x].token_ids = seqs[x].token_ids
                   /\ q[x].num_computed_tokens =
                          IF Holds(kv, x) THEN seqs[x].num_computed_tokens ELSE 0
          BY <1>2, ProjectedTypes
      <4>2. /\ q2 \in [SeqId -> SeqRecord]
            /\ \A x \in SeqId :
                   /\ q2[x].token_ids = seqs'[x].token_ids
                   /\ q2[x].num_computed_tokens =
                          IF Holds(kv', x) THEN seqs'[x].num_computed_tokens ELSE 0
          BY <2>1, ProjectedTypes
      <4> HIDE DEF q, q2
      <4>3. QED
          BY <1>11, <4>1, <4>2
    <3> HIDE DEF q, q2
    <3>2. \A x \in SeqId : x # s => q2[x] = q[x]
        BY <2>1, <3>1, SameRecord
    <3>3. q2[s] = [q[s] EXCEPT !.num_computed_tokens = Len(q[s].token_ids),
                               !.token_ids = Append(@, token)]
      <4> DEFINE w == [q[s] EXCEPT !.num_computed_tokens = Len(q[s].token_ids),
                                   !.token_ids = Append(@, token)]
      <4>1. q2[s] \in SeqRecord /\ q[s] \in SeqRecord
          BY <3>1
      <4>2. /\ w \in SeqRecord /\ w.token_ids = Append(q[s].token_ids, token)
            /\ w.num_computed_tokens = Len(q[s].token_ids)
        <5>1. /\ q[s].token_ids \in Seq(Token) /\ Len(q[s].token_ids) \in Nat
              /\ Append(q[s].token_ids, token) \in Seq(Token)
            BY <1>3, <4>1 DEF SeqRecord
        <5>2. QED
            BY <4>1, <5>1 DEF SeqRecord
      <4> HIDE DEF w
      <4>3. /\ q2[s].token_ids = w.token_ids
            /\ q2[s].num_computed_tokens = w.num_computed_tokens
          BY <1>5, <1>8, <2>1, <3>1, <4>2
      <4>4. q2[s] = w
          BY <4>1, <4>2, <4>3, SameRecord
      <4>5. QED
          BY <4>4 DEF w
    <3>4. q2 = [q EXCEPT ![s].num_computed_tokens = Len(q[s].token_ids),
                         ![s].token_ids = Append(@, token)]
        BY <3>1, <3>2, <3>3
    <3>5. /\ q[s].num_computed_tokens < Len(q[s].token_ids)
          /\ CeilDiv(Len(q[s].token_ids), BlockSize) <= Len(BlockTable(kv, s))
        BY <1>2, <1>3, <1>5, <3>1 DEF Tokens
    <3>6. ManagerCall(kv, q, kv', q2)
        BY <1>3, <1>5, <1>11, <3>4, <3>5 DEF ManagerCall
    <3>7. QED
        BY <3>6 DEF q, q2
  <2>11. Sharing(kv, Projected(kv, seqs))'
      BY <1>2, <2>10, ManagerCallKeepsSharing
  <2>12. QED
      BY <2>4, <2>5, <2>6, <2>7, <2>8, <2>9, <2>10, <2>11 DEF EngineInv
<1>12. QED
    BY <1>7, <1>9, <1>10, <1>11

-----------------------------------------------------------------------------
(* The running loop.                                                       *)

\* The loop has come to the running sequence s.
Visits(s) ==
    /\ phase = "running"
    /\ todo # << >>
    /\ s = Head(todo)
    /\ seqs[s].status = "RUNNING"

\* The sequence the loop visits is the next of running, and not scheduled yet.
LEMMA RunningHead ==
    ASSUME EngineInv, NEW s \in SeqId, Visits(s)
    PROVE  /\ phase = "running" /\ todo # << >> /\ s = todo[1]
           /\ Len(scheduled) \in Nat /\ Len(running) \in Nat
           /\ Len(scheduled) < Len(running)
           /\ s = running[Len(scheduled) + 1]
           /\ s \in ToSet(running)
           /\ seqs[s].status = "RUNNING"
           /\ \A i \in DOMAIN scheduled : /\ i \in DOMAIN running
                                          /\ i < Len(scheduled) + 1
                                          /\ running[i] = scheduled[i].seq_id
<1> DEFINE left == Len(running) - Len(scheduled)
<1>1. /\ Types /\ Loops /\ running \in Seq(SeqId) /\ todo \in Seq(SeqId)
      /\ scheduled \in Seq(Entry)
    BY DEF EngineInv, Types, TypeOK
<1>2. /\ phase = "running" /\ todo # << >> /\ s = Head(todo)
      /\ seqs[s].status = "RUNNING"
    BY DEF Visits
<1>3. /\ left \in 0 .. Len(todo)
      /\ \A i \in DOMAIN scheduled : running[i] = scheduled[i].seq_id
      /\ \A i \in 1 .. left : running[Len(scheduled) + i] = todo[i]
      /\ \A i \in left + 1 .. Len(todo) : seqs[todo[i]].status # "RUNNING"
    BY <1>1, <1>2 DEF Loops, RunningLoop
<1>4. /\ s = todo[1] /\ Len(todo) \in Nat \ {0}
      /\ Len(scheduled) \in Nat /\ Len(running) \in Nat
      /\ DOMAIN scheduled = 1 .. Len(scheduled) /\ DOMAIN running = 1 .. Len(running)
    BY <1>1, <1>2
<1>5. left # 0
  <2>1. SUFFICES ASSUME left = 0 PROVE FALSE
      OBVIOUS
  <2>2. 1 \in left + 1 .. Len(todo)
      BY <1>4, <2>1
  <2>3. QED
      BY <1>2, <1>3, <1>4, <2>2
<1>6. Len(scheduled) < Len(running) /\ 1 \in 1 .. left
  <2>1. left \in 0 .. Len(todo) /\ Len(todo) \in Nat
      BY <1>3, <1>4
  <2> HIDE DEF left
  <2>2. left \in Nat /\ left >= 1
      BY <1>5, <2>1
  <2>3. QED
      BY <1>4, <2>2 DEF left
<1>7. s = running[Len(scheduled) + 1]
    BY <1>3, <1>4, <1>6
<1>8. Len(scheduled) + 1 \in DOMAIN running
    BY <1>4, <1>6
<1>9. s \in ToSet(running)
    BY <1>7, <1>8 DEF ToSet
<1>10. \A i \in DOMAIN scheduled : i \in DOMAIN running /\ i < Len(scheduled) + 1
    BY <1>4, <1>6
<1>11. QED
    BY <1>2, <1>3, <1>4, <1>6, <1>7, <1>9, <1>10

\* What an allocation for all tokens of s appends to the schedule is live, and
\* leaves the rest of the schedule live.
LEMMA ScheduleOne ==
    ASSUME NEW s \in SeqId, Types, Queues, LiveSchedule, Queues',
           phase \in {"running", "waiting"}, phase' = phase,
           CoveredBy(kv', s, seqs'[s]),
           scheduled' = Append(scheduled,
                               Scheduled(s, kv', seqs'[s], NumTokensToCompute(seqs'[s]))),
           s \in ToSet(running'), ToSet(running) \subseteq ToSet(running'),
           \A x \in SeqId \ {s} : /\ seqs'[x] = seqs[x]
                                  /\ BlockTable(kv', x) = BlockTable(kv, x),
           \A e \in ToSet(scheduled) : e.seq_id # s
    PROVE  /\ scheduled' \in Seq(Entry)
           /\ LiveSchedule'
           /\ Len(scheduled') = Len(scheduled) + 1
           /\ \A i \in DOMAIN scheduled : scheduled'[i] = scheduled[i]
           /\ scheduled'[Len(scheduled) + 1].seq_id = s
<1> PICK new : new = Scheduled(s, kv', seqs'[s], NumTokensToCompute(seqs'[s]))
    OBVIOUS
<1>1. new \in Entry
    BY ScheduledSlots
<1>2. new.seq_id = s
    BY DEF Scheduled
<1>3. Live(new)'
    BY <1>2 DEF CoveredBy, Live
<1>4. scheduled \in Seq(Entry)
    BY DEF Types
<1>5. scheduled' = Append(scheduled, new)
    OBVIOUS
<1>6. /\ scheduled' \in Seq(Entry) /\ Len(scheduled') = Len(scheduled) + 1
      /\ \A i \in DOMAIN scheduled : scheduled'[i] = scheduled[i]
      /\ scheduled'[Len(scheduled) + 1] = new
    BY <1>1, <1>4, <1>5
<1>7. ToSet(scheduled') = ToSet(scheduled) \cup {new}
    BY <1>1, <1>4, <1>5, AppendDistinct
<1>8. ASSUME NEW e \in ToSet(scheduled) PROVE Live(e)'
  <2>1. Live(e) /\ e.seq_id \in ToSet(running)
      BY DEF LiveSchedule, Live
  <2>2. running \in Seq(SeqId)
      BY DEF Types, TypeOK
  <2>3. e.seq_id \in SeqId \ {s}
      BY <2>1, <2>2 DEF ToSet
  <2>4. QED
      BY <2>1, <2>3, LiveStays
<1>9. LiveSchedule'
  <2>1. SUFFICES ASSUME NEW e \in ToSet(scheduled') PROVE Live(e)'
      BY DEF LiveSchedule
  <2>2. QED
      BY <1>3, <1>7, <1>8, <2>1
<1>10. QED
    BY <1>2, <1>6, <1>9

LEMMA ScheduleRunningKeeps ==
    ASSUME EngineInv, NEW s \in SeqId, ScheduleRunning(s)
    PROVE  /\ EngineInv'
           /\ ManagerCall(kv, Projected(kv, seqs), kv', Projected(kv', seqs'))
<1> DEFINE n == NumTokensToCompute(seqs[s])
<1>1. /\ HandlesRunning(s)
      /\ CanAllocate(kv, s, seqs[s], n, << >>)
      /\ kv' = AllocateSlots(kv, s, seqs[s], n, << >>)
      /\ scheduled' = Append(scheduled, Scheduled(s, kv', seqs[s], n))
      /\ budget' = budget - n /\ todo' = Tail(todo)
      /\ UNCHANGED <<seqs, waiting, running, finished_seqs, phase, preempted_seqs,
                     sampled, sequences, content>>
    BY DEF ScheduleRunning, queueVars
<1>2. /\ Types /\ Queues /\ Loops /\ Tokens /\ LiveSchedule
      /\ Sharing(kv, Projected(kv, seqs))
      /\ seqs \in [SeqId -> EngineSeq] /\ todo \in Seq(SeqId) /\ running \in Seq(SeqId)
      /\ scheduled \in Seq(Entry)
    BY DEF EngineInv, Types, TypeOK, EngineSeq
<1>3. /\ phase = "running" /\ todo # << >> /\ s = todo[1]
      /\ Len(scheduled) \in Nat /\ Len(running) \in Nat
      /\ Len(scheduled) < Len(running)
      /\ s = running[Len(scheduled) + 1]
      /\ s \in ToSet(running)
      /\ \A i \in DOMAIN scheduled : /\ i \in DOMAIN running
                                     /\ i < Len(scheduled) + 1
                                     /\ running[i] = scheduled[i].seq_id
    BY <1>1, RunningHead DEF HandlesRunning, Visits
<1>4. Holds(kv, s)
    BY <1>2, <1>3 DEF Queues, Holds
<1>5. << >> = GetComputedBlocks(kv, s, seqs[s])
    BY <1>4 DEF GetComputedBlocks
<1>6. /\ seqs[s].token_ids \in Seq(Token) /\ seqs[s].num_computed_tokens \in Nat
      /\ Len(seqs[s].token_ids) \in Nat
      /\ seqs[s].num_computed_tokens < Len(seqs[s].token_ids)
  <2>1. seqs[s] \in EngineSeq
      BY <1>2
  <2>2. seqs[s].num_computed_tokens < Len(seqs[s].token_ids)
      BY <1>2, <1>3 DEF Tokens
  <2>3. QED
      BY <2>1, <2>2 DEF EngineSeq
<1>7. n \in Nat /\ n = n - Len(<< >>) * BlockSize
  <2>1. n \in Nat
      BY <1>6 DEF NumTokensToCompute
  <2> HIDE DEF n
  <2>2. Len(<< >>) * BlockSize = 0
      BY BlockSizeAssumption
  <2>3. QED
      BY <2>1, <2>2
<1> HIDE DEF n
<1>8. /\ KVInv(kv')
      /\ DOMAIN kv'.request_blocks = DOMAIN kv.request_blocks \cup {s}
      /\ \A t : t # s => BlockTable(kv', t) = BlockTable(kv, t)
      /\ CeilDiv(Len(seqs[s].token_ids), BlockSize) <= Len(BlockTable(kv', s))
      /\ \A q2 \in [SeqId -> EngineSeq] :
             /\ \A t \in SeqId \ {s} : SameTokens(seqs, q2, t)
             /\ q2[s].token_ids = seqs[s].token_ids
             /\ q2[s].num_computed_tokens =
                    seqs[s].num_computed_tokens + Len(<< >>) * BlockSize
             => ManagerCall(kv, Projected(kv, seqs), kv', Projected(kv', q2))
  <2> DEFINE hits == << >>
  <2>1. n = NumTokensToCompute(seqs[s]) - Len(hits) * BlockSize
      BY <1>7 DEF n
  <2>2. /\ hits = GetComputedBlocks(kv, s, seqs[s])
        /\ CanAllocate(kv, s, seqs[s], n, hits)
        /\ kv' = AllocateSlots(kv, s, seqs[s], n, hits)
      BY <1>1, <1>5 DEF n
  <2> HIDE DEF hits
  <2>3. /\ Sharing(kv, Projected(kv, seqs)) /\ seqs \in [SeqId -> EngineSeq]
        /\ seqs[s].num_computed_tokens < Len(seqs[s].token_ids)
        /\ Holds(kv, s)
      BY <1>2, <1>4, <1>6
  <2>4. /\ KVInv(kv')
        /\ DOMAIN kv'.request_blocks = DOMAIN kv.request_blocks \cup {s}
        /\ \A t : t # s => BlockTable(kv', t) = BlockTable(kv, t)
        /\ CeilDiv(Len(seqs[s].token_ids), BlockSize) <= Len(BlockTable(kv', s))
      BY <2>1, <2>2, <2>3, AllocationEffects
  <2>5. \A q2 \in [SeqId -> EngineSeq] :
            /\ \A t \in SeqId \ {s} : SameTokens(seqs, q2, t)
            /\ q2[s].token_ids = seqs[s].token_ids
            /\ q2[s].num_computed_tokens =
                   seqs[s].num_computed_tokens + Len(hits) * BlockSize
            => ManagerCall(kv, Projected(kv, seqs), kv', Projected(kv', q2))
      BY <2>1, <2>2, <2>3, AllocationEffects
  <2>6. QED
      BY <2>4, <2>5 DEF hits
<1>9. ManagerCall(kv, Projected(kv, seqs), kv', Projected(kv', seqs'))
  <2>1. /\ \A t \in SeqId \ {s} : SameTokens(seqs, seqs, t)
        /\ seqs[s].num_computed_tokens =
               seqs[s].num_computed_tokens + Len(<< >>) * BlockSize
      BY <1>6, BlockSizeAssumption DEF SameTokens
  <2>2. seqs' = seqs
      BY <1>1
  <2>3. QED
      BY <1>2, <1>8, <2>1, <2>2
<1>10. Sharing(kv, Projected(kv, seqs))'
    BY <1>2, <1>9, ManagerCallKeepsSharing
<1>11. Queues'
  <2>1. DOMAIN kv'.request_blocks = DOMAIN kv.request_blocks
      BY <1>4, <1>8 DEF Holds
  <2>2. QED
      BY <1>1, <1>2, <2>1 DEF Queues
<1>12. CoveredBy(kv', s, seqs'[s])
    BY <1>1, <1>6, <1>8 DEF CoveredBy
<1>13. \A e \in ToSet(scheduled) : e.seq_id # s
  <2>1. Len(scheduled) + 1 \in DOMAIN running
      BY <1>2, <1>3
  <2>2. \A i \in DOMAIN scheduled : running[i] # running[Len(scheduled) + 1]
      BY <1>2, <1>3, <2>1 DEF Queues, IsInjective
  <2>3. QED
      BY <1>3, <2>2 DEF ToSet
<1>14. /\ scheduled' \in Seq(Entry)
       /\ LiveSchedule'
       /\ Len(scheduled') = Len(scheduled) + 1
       /\ \A i \in DOMAIN scheduled : scheduled'[i] = scheduled[i]
       /\ scheduled'[Len(scheduled) + 1].seq_id = s
  <2>1. scheduled' = Append(scheduled,
                            Scheduled(s, kv', seqs'[s], NumTokensToCompute(seqs'[s])))
      BY <1>1 DEF n
  <2>2. \A x \in SeqId \ {s} : /\ seqs'[x] = seqs[x]
                               /\ BlockTable(kv', x) = BlockTable(kv, x)
      BY <1>1, <1>8
  <2>3. ToSet(running) \subseteq ToSet(running') /\ s \in ToSet(running')
      BY <1>1, <1>3
  <2>4. QED
      BY <1>1, <1>2, <1>3, <1>11, <1>12, <1>13, <2>1, <2>2, <2>3, ScheduleOne
<1>15. /\ todo' \in Seq(SeqId) /\ Len(todo') = Len(todo) - 1
       /\ \A i \in 1 .. Len(todo') : todo'[i] = todo[i + 1]
    BY <1>1, <1>2, <1>3
<1>16. budget' \in Nat
  <2>1. budget \in Nat /\ ~(budget < n)
      BY <1>1, <1>2 DEF Types, TypeOK, HandlesRunning, OutOfBudget, n
  <2>2. QED
      BY <1>1, <1>7, <2>1
<1>17. Types'
  <2>1. TypeOK'
      BY <1>1, <1>2, <1>15, <1>16 DEF Types, TypeOK
  <2>2. QED
      BY <1>1, <1>3, <1>14, <2>1 DEF Types
<1>18. RunningLoop'
  <2> DEFINE m == Len(scheduled)
             left == Len(running) - m
  <2>1. /\ left \in 0 .. Len(todo)
        /\ \A i \in 1 .. left : running[m + i] = todo[i]
        /\ \A i \in left + 1 .. Len(todo) : seqs[todo[i]].status # "RUNNING"
      BY <1>2, <1>3 DEF Loops, RunningLoop
  <2>2. m \in Nat /\ Len(running) \in Nat /\ m < Len(running) /\ Len(todo) \in Nat
      BY <1>2, <1>3
  <2>3. \A i \in DOMAIN scheduled' : running[i] = scheduled'[i].seq_id
    <3>1. \A i \in DOMAIN scheduled' : i \in DOMAIN scheduled \/ i = m + 1
        BY <1>2, <1>14
    <3>2. QED
        BY <1>3, <1>14, <3>1
  <2> HIDE DEF m
  <2>4. left - 1 \in 0 .. Len(todo')
      BY <1>15, <2>1, <2>2
  <2>5. \A i \in 1 .. left - 1 : running[m + 1 + i] = todo'[i]
    <3>1. TAKE i \in 1 .. left - 1
    <3>2. /\ i + 1 \in 1 .. left /\ m + (i + 1) = m + 1 + i
          /\ i \in 1 .. Len(todo')
        BY <1>15, <2>1, <2>2
    <3>3. QED
        BY <1>15, <2>1, <3>2
  <2>6. \A i \in left - 1 + 1 .. Len(todo') : seqs[todo'[i]].status # "RUNNING"
    <3>1. TAKE i \in left - 1 + 1 .. Len(todo')
    <3>2. i + 1 \in left + 1 .. Len(todo) /\ i \in 1 .. Len(todo')
        BY <1>15, <2>1, <2>2
    <3>3. QED
        BY <1>15, <2>1, <3>2
  <2>7. Len(running) - (m + 1) = left - 1
      BY <2>2
  <2>8. Len(scheduled') = m + 1 /\ running' = running /\ seqs' = seqs
      BY <1>1, <1>14 DEF m
  <2> HIDE DEF left
  <2>9. QED
      BY <2>3, <2>4, <2>5, <2>6, <2>7, <2>8 DEF RunningLoop
<1>19. Loops'
  <2>1. \A i, j \in DOMAIN scheduled' :
            i # j => scheduled'[i].seq_id # scheduled'[j].seq_id
    <3>1. \A i \in DOMAIN scheduled' :
              i \in DOMAIN scheduled \/ i = Len(scheduled) + 1
        BY <1>2, <1>14
    <3>2. \A i \in DOMAIN scheduled : scheduled[i].seq_id # s
        BY <1>13 DEF ToSet
    <3>3. QED
        BY <1>2, <1>14, <3>1, <3>2 DEF Loops
  <2>2. QED
      BY <1>1, <1>3, <1>18, <2>1 DEF Loops
<1>20. Tokens'
    BY <1>1, <1>2 DEF Tokens
<1>21. (phase \in {"running", "waiting", "execute"})'
    BY <1>1, <1>3
<1>22. NoSlotWrittenTwice'
    BY <1>10, <1>11, <1>14, <1>17, <1>19, <1>20, <1>21, SlotsApart, PTL
<1>23. QED
    BY <1>9, <1>10, <1>11, <1>14, <1>17, <1>19, <1>20, <1>22 DEF EngineInv

\* The victim is the last of running, and comes after all that is scheduled.
LEMMA VictimIsLast ==
    ASSUME EngineInv, NEW s \in SeqId, HandlesRunning(s), NEW v, v = Victim(s)
    PROVE  /\ running # << >> /\ v = running[Len(running)]
           /\ v \in SeqId /\ v \in ToSet(running)
           /\ v = s <=> Len(running) = Len(scheduled) + 1
           /\ \A i \in DOMAIN scheduled : i < Len(running) /\ scheduled[i].seq_id # v
<1>1. running \in Seq(SeqId) /\ IsInjective(running) /\ scheduled \in Seq(Entry)
    BY DEF EngineInv, Types, TypeOK, Queues
<1>2. /\ Len(scheduled) \in Nat /\ Len(running) \in Nat
      /\ Len(scheduled) < Len(running)
      /\ s = running[Len(scheduled) + 1]
      /\ \A i \in DOMAIN scheduled : /\ i \in DOMAIN running
                                     /\ i < Len(scheduled) + 1
                                     /\ running[i] = scheduled[i].seq_id
    BY RunningHead DEF HandlesRunning, Visits
<1>3. running # << >> /\ Len(running) \in DOMAIN running
      /\ Len(scheduled) + 1 \in DOMAIN running
    BY <1>1, <1>2
<1>4. v = running[Len(running)]
  <2>1. CASE Len(running) > 1
      BY <2>1 DEF Victim, Last
  <2>2. CASE ~(Len(running) > 1)
    <3>1. Len(scheduled) + 1 = Len(running)
        BY <1>2, <2>2
    <3>2. QED
        BY <1>2, <2>2, <3>1 DEF Victim
  <2>3. QED
      BY <2>1, <2>2
<1>5. v \in ToSet(running) /\ v \in SeqId
    BY <1>1, <1>3, <1>4 DEF ToSet
<1>6. v = s <=> Len(running) = Len(scheduled) + 1
    BY <1>1, <1>2, <1>3, <1>4 DEF IsInjective
<1>7. ASSUME NEW i \in DOMAIN scheduled
      PROVE  i < Len(running) /\ scheduled[i].seq_id # v
  <2>1. i \in DOMAIN running /\ running[i] = scheduled[i].seq_id /\ i \in Nat
        /\ i < Len(scheduled) + 1
      BY <1>1, <1>2
  <2>2. i < Len(running)
      BY <1>2, <2>1
  <2>3. QED
      BY <1>1, <1>3, <1>4, <2>1, <2>2 DEF IsInjective
<1>8. QED
    BY <1>3, <1>4, <1>5, <1>6, <1>7

\* What a preemption keeps, the place of the running loop aside.
LEMMA PreemptKeeps ==
    ASSUME EngineInv, NEW s \in SeqId, HandlesRunning(s), NEW v, v = Victim(s),
           Preempt(v), todo' \in Seq(SeqId)
    PROVE  /\ running \in Seq(SeqId) /\ running # << >> /\ v = running[Len(running)]
           /\ running' = SubSeq(running, 1, Len(running) - 1)
           /\ \A x \in SeqId : seqs[x].status # "RUNNING" => seqs'[x].status # "RUNNING"
           /\ seqs'[v].status # "RUNNING"
           /\ RunningLoop' => EngineInv'
           /\ ManagerCall(kv, Projected(kv, seqs), kv', Projected(kv', seqs'))
<1>1. /\ Types /\ Queues /\ Loops /\ Tokens /\ LiveSchedule /\ NoSlotWrittenTwice
      /\ Sharing(kv, Projected(kv, seqs))
      /\ seqs \in [SeqId -> EngineSeq] /\ running \in Seq(SeqId)
      /\ waiting \in Seq(SeqId) /\ finished_seqs \in Seq(SeqId)
      /\ preempted_seqs \in Seq(SeqId) /\ sequences \subseteq SeqId
    BY DEF EngineInv, Types, TypeOK, EngineSeq
<1>2. /\ seqs' = [seqs EXCEPT ![v] = ResetForRecompute(@)]
      /\ running' = Delete(running, {v})
      /\ preempted_seqs' = Append(preempted_seqs, v)
      /\ kv' = FreeIfAllocated(kv, v)
      /\ UNCHANGED <<waiting, finished_seqs, phase, budget, scheduled, sampled,
                     sequences, content>>
    BY DEF Preempt
<1>3. /\ running # << >> /\ v = running[Len(running)]
      /\ v \in SeqId /\ v \in ToSet(running)
      /\ \A i \in DOMAIN scheduled : i < Len(running) /\ scheduled[i].seq_id # v
    BY VictimIsLast
<1>4. /\ running' \in Seq(SeqId) /\ IsInjective(running')
      /\ ToSet(running') = ToSet(running) \ {v}
      /\ running' = SubSeq(running, 1, Len(running) - 1)
  <2>1. IsInjective(running)
      BY <1>1 DEF Queues
  <2>2. /\ running' \in Seq(SeqId) /\ IsInjective(running')
        /\ ToSet(running') = ToSet(running) \ {v}
      BY <1>1, <1>2, <2>1, DeleteProperties
  <2>3. running' = SubSeq(running, 1, Len(running) - 1)
      BY <1>1, <1>2, <1>3, <2>1, DeleteProperties
  <2>4. QED
      BY <2>2, <2>3
<1>5. /\ seqs' \in [SeqId -> EngineSeq]
      /\ seqs'[v].status = "WAITING" /\ seqs'[v].num_computed_tokens = 0
      /\ seqs'[v].token_ids = seqs[v].token_ids
      /\ seqs'[v].prompt_len = seqs[v].prompt_len
      /\ \A x \in SeqId : x # v => seqs'[x] = seqs[x]
  <2> DEFINE r == ResetForRecompute(seqs[v])
  <2>1. /\ r \in EngineSeq /\ r.status = "WAITING" /\ r.num_computed_tokens = 0
        /\ r.token_ids = seqs[v].token_ids /\ r.prompt_len = seqs[v].prompt_len
    <3> PICK w \in EngineSeq : w = seqs[v]
        BY <1>1, <1>3
    <3>1. r = [w EXCEPT !.status = "WAITING", !.num_computed_tokens = 0,
                        !.num_preemptions = w.num_preemptions + 1]
        BY DEF ResetForRecompute
    <3>2. w.num_preemptions + 1 \in Nat
        BY DEF EngineSeq
    <3> HIDE DEF r
    <3>3. /\ r \in EngineSeq /\ r.status = "WAITING" /\ r.num_computed_tokens = 0
          /\ r.token_ids = w.token_ids /\ r.prompt_len = w.prompt_len
        BY <3>1, <3>2 DEF EngineSeq, Statuses
    <3>4. QED
        BY <3>3
  <2>2. seqs' = [seqs EXCEPT ![v] = r]
      BY <1>2
  <2> HIDE DEF r
  <2>3. QED
      BY <1>1, <1>3, <2>1, <2>2
<1>6. /\ DOMAIN kv'.request_blocks = DOMAIN kv.request_blocks \ {v}
      /\ \A x : x # v => BlockTable(kv', x) = BlockTable(kv, x)
  <2>1. v \in SeqId /\ kv' = FreeIfAllocated(kv, v) /\ seqs \in [SeqId -> EngineSeq]
      BY <1>1, <1>2, <1>3
  <2>2. QED
      BY <1>1, <2>1, FreeEffects
<1>7. ManagerCall(kv, Projected(kv, seqs), kv', Projected(kv', seqs'))
  <2>1. \A q2 \in [SeqId -> EngineSeq] :
            \A extra \in {<< >>} \cup {<<t>> : t \in Token} :
                /\ \A t \in SeqId \ {v} : SameTokens(seqs, q2, t)
                /\ q2[v].token_ids = seqs[v].token_ids \o extra
                /\ Holds(kv, v) \/ extra = << >>
                => ManagerCall(kv, Projected(kv, seqs), kv', Projected(kv', q2))
      BY <1>1, <1>2, <1>3, FreeEffects
  <2>2. \A t \in SeqId \ {v} : SameTokens(seqs, seqs', t)
      BY <1>5 DEF SameTokens
  <2>3. seqs'[v].token_ids = seqs[v].token_ids \o << >>
    <3>1. seqs[v].token_ids \in Seq(Token)
        BY <1>1, <1>3 DEF EngineSeq
    <3>2. QED
        BY <1>5, <3>1
  <2>4. << >> \in {<< >>} \cup {<<t>> : t \in Token}
      OBVIOUS
  <2>5. QED
      BY <1>5, <2>1, <2>2, <2>3, <2>4
<1>8. Sharing(kv, Projected(kv, seqs))'
    BY <1>1, <1>7, ManagerCallKeepsSharing
<1>9. phase = "running" /\ phase' = "running"
    BY <1>2 DEF HandlesRunning
<1>10. /\ seqs[v].status = "RUNNING" /\ v \in sequences
       /\ v \notin ToSet(preempted_seqs) /\ v \notin ToSet(waiting)
       /\ v \notin ToSet(finished_seqs)
    BY <1>1, <1>3, <1>9 DEF Queues
<1>11. /\ preempted_seqs' \in Seq(SeqId) /\ IsInjective(preempted_seqs')
       /\ ToSet(preempted_seqs') = ToSet(preempted_seqs) \cup {v}
  <2>1. IsInjective(preempted_seqs)
      BY <1>1, <1>9 DEF Queues
  <2>2. QED
      BY <1>1, <1>2, <1>3, <1>10, <2>1, AppendDistinct
<1>12. Types'
  <2>1. TypeOK'
      BY <1>1, <1>2, <1>4, <1>5, <1>11 DEF Types, TypeOK, EngineSeq
  <2>2. QED
      BY <1>1, <1>2, <1>9, <2>1 DEF Types
<1>13. Queues'
  <2>1. /\ \A x \in ToSet(running) : x \in SeqId
        /\ \A x \in ToSet(waiting) : x \in SeqId
        /\ \A x \in ToSet(finished_seqs) : x \in SeqId
        /\ \A x \in ToSet(preempted_seqs) : x \in SeqId
      BY <1>1 DEF ToSet
  <2>2. /\ \A x \in ToSet(running') : seqs'[x].status = "RUNNING" /\ x \in sequences
        /\ \A x \in ToSet(waiting) : seqs'[x].status = "WAITING" /\ x \in sequences
        /\ \A x \in ToSet(finished_seqs) : seqs'[x].status = "DONE"
    <3>1. /\ \A x \in ToSet(running) : seqs[x].status = "RUNNING" /\ x \in sequences
          /\ \A x \in ToSet(waiting) : seqs[x].status = "WAITING" /\ x \in sequences
          /\ \A x \in ToSet(finished_seqs) : seqs[x].status = "DONE"
        BY <1>1 DEF Queues
    <3>2. /\ \A x \in ToSet(running') : x \in ToSet(running) /\ seqs'[x] = seqs[x]
          /\ \A x \in ToSet(waiting) : seqs'[x] = seqs[x]
          /\ \A x \in ToSet(finished_seqs) : seqs'[x] = seqs[x]
        BY <1>4, <1>5, <1>10, <2>1
    <3>3. QED
        BY <3>1, <3>2
  <2>3. \A x \in ToSet(preempted_seqs') : seqs'[x].status = "WAITING" /\ x \in sequences
      BY <1>1, <1>5, <1>9, <1>10, <1>11, <2>1 DEF Queues
  <2>4. ToSet(preempted_seqs') \cap ToSet(waiting) = {}
      BY <1>1, <1>9, <1>10, <1>11 DEF Queues
  <2>5. ASSUME NEW x \in sequences
        PROVE  /\ seqs'[x].status # "NEW"
               /\ seqs'[x].status = "RUNNING" => x \in ToSet(running')
               /\ seqs'[x].status = "WAITING" =>
                      x \in ToSet(waiting) \cup ToSet(preempted_seqs')
               /\ seqs'[x].status = "DONE" => x \in ToSet(finished_seqs)
    <3>1. CASE x = v
        BY <1>5, <1>11, <3>1
    <3>2. CASE x # v
      <4>1. seqs'[x] = seqs[x]
          BY <1>1, <1>5, <3>2
      <4>2. QED
          BY <1>1, <1>4, <1>9, <1>11, <3>2, <4>1 DEF Queues
    <3>3. QED
        BY <3>1, <3>2
  <2>6. DOMAIN kv'.request_blocks = ToSet(running')
      BY <1>1, <1>4, <1>6 DEF Queues
  <2>7. QED
      BY <1>1, <1>2, <1>4, <1>9, <1>11, <2>2, <2>3, <2>4, <2>5, <2>6 DEF Queues
<1>14. RunningLoop' => Loops'
    BY <1>1, <1>2, <1>9 DEF Loops
<1>15. Tokens'
  <2>1. GeneratedLen(seqs'[v]) = GeneratedLen(seqs[v]) /\ v \notin ToSet(running')
      BY <1>4, <1>5 DEF GeneratedLen
  <2>2. ASSUME NEW x \in SeqId
        PROVE  /\ seqs'[x].token_ids # << >>
               /\ seqs'[x].status \in {"NEW", "WAITING"}
                      => seqs'[x].num_computed_tokens = 0
               /\ x \in ToSet(running') =>
                      seqs'[x].num_computed_tokens < Len(seqs'[x].token_ids)
               /\ \E p \in Prompts : seqs'[x].prompt_len = Len(p)
               /\ GeneratedLen(seqs'[x]) <= MaxTokens
               /\ seqs'[x].status # "DONE" => GeneratedLen(seqs'[x]) < MaxTokens
    <3>1. CASE x = v
        BY <1>1, <1>5, <1>10, <2>1, <3>1 DEF Tokens
    <3>2. CASE x # v
      <4>1. seqs'[x] = seqs[x] /\ (x \in ToSet(running') => x \in ToSet(running))
          BY <1>4, <1>5, <3>2
      <4>2. QED
          BY <1>1, <4>1 DEF Tokens
    <3>3. QED
        BY <3>1, <3>2
  <2>3. QED
      BY <2>2 DEF Tokens
<1>16. LiveSchedule'
  <2>1. SUFFICES ASSUME NEW e \in ToSet(scheduled) PROVE Live(e)'
      BY <1>2 DEF LiveSchedule
  <2>2. Live(e) /\ e.seq_id \in ToSet(running)
      BY <1>1, <1>9 DEF LiveSchedule, Live
  <2>3. e.seq_id # v
      BY <1>3, <2>1 DEF ToSet
  <2>4. e.seq_id \in SeqId
      BY <1>1, <2>2 DEF ToSet
  <2>5. QED
      BY <1>1, <1>4, <1>5, <1>6, <1>13, <2>2, <2>3, <2>4, LiveStays
<1>17. NoSlotWrittenTwice'
    BY <1>1, <1>2 DEF NoSlotWrittenTwice
<1>18. RunningLoop' => EngineInv'
    BY <1>8, <1>12, <1>13, <1>14, <1>15, <1>16, <1>17 DEF EngineInv
<1>19. /\ \A x \in SeqId : seqs[x].status # "RUNNING" => seqs'[x].status # "RUNNING"
       /\ seqs'[v].status # "RUNNING"
    BY <1>5, <1>10
<1>20. QED
    BY <1>1, <1>3, <1>4, <1>7, <1>18, <1>19

LEMMA PreemptOtherKeeps ==
    ASSUME EngineInv, NEW s \in SeqId, PreemptOther(s)
    PROVE  /\ EngineInv'
           /\ ManagerCall(kv, Projected(kv, seqs), kv', Projected(kv', seqs'))
<1> DEFINE v == Victim(s)
           m == Len(scheduled)
           len == Len(running)
<1>1. HandlesRunning(s) /\ v # s /\ Preempt(v) /\ todo' = todo
    BY DEF PreemptOther
<1>2. Types /\ Loops /\ todo \in Seq(SeqId) /\ scheduled \in Seq(Entry)
    BY DEF EngineInv, Types, TypeOK
<1>3. /\ len # m + 1
      /\ \A i \in DOMAIN scheduled : i < len /\ scheduled[i].seq_id # v
    BY <1>1, VictimIsLast
<1>4. /\ running \in Seq(SeqId) /\ running # << >> /\ v = running[len]
      /\ running' = SubSeq(running, 1, len - 1)
      /\ \A x \in SeqId : seqs[x].status # "RUNNING" => seqs'[x].status # "RUNNING"
      /\ seqs'[v].status # "RUNNING"
      /\ RunningLoop' => EngineInv'
      /\ ManagerCall(kv, Projected(kv, seqs), kv', Projected(kv', seqs'))
    BY <1>1, <1>2, PreemptKeeps
<1>5. /\ len - m \in 0 .. Len(todo)
      /\ \A i \in DOMAIN scheduled : running[i] = scheduled[i].seq_id
      /\ \A i \in 1 .. len - m : running[m + i] = todo[i]
      /\ \A i \in len - m + 1 .. Len(todo) : seqs[todo[i]].status # "RUNNING"
    BY <1>1, <1>2 DEF HandlesRunning, Loops, RunningLoop
<1>6. m \in Nat /\ len \in Nat /\ Len(todo) \in Nat /\ m < len
      /\ DOMAIN scheduled = 1 .. m
    BY <1>1, <1>2, <1>4, RunningHead DEF HandlesRunning, Visits
<1> HIDE DEF v
<1>7. /\ Len(running') = len - 1
      /\ \A i \in 1 .. len - 1 : running'[i] = running[i]
  <2>1. running \in Seq(SeqId) /\ running' = SubSeq(running, 1, len - 1)
      BY <1>4
  <2>2. len - 1 \in 0 .. Len(running)
      BY <1>6
  <2> HIDE DEF len
  <2>3. QED
      BY <2>1, <2>2
<1>8. \A i \in 1 .. Len(todo) : todo[i] \in SeqId
    BY <1>2
<1>9. scheduled' = scheduled
    BY <1>1 DEF Preempt
<1> HIDE DEF m, len
<1>10. len - 1 - m \in 0 .. Len(todo)
    BY <1>3, <1>5, <1>6
<1>11. \A i \in DOMAIN scheduled : running'[i] = scheduled[i].seq_id
  <2>1. \A i \in DOMAIN scheduled : i \in 1 .. len - 1
      BY <1>3, <1>6
  <2>2. QED
      BY <1>5, <1>7, <2>1
<1>12. \A i \in 1 .. len - 1 - m : running'[m + i] = todo[i]
  <2>1. \A i \in 1 .. len - 1 - m : m + i \in 1 .. len - 1 /\ i \in 1 .. len - m
      BY <1>6
  <2>2. QED
      BY <1>5, <1>7, <2>1
<1>13. ASSUME NEW i \in len - 1 - m + 1 .. Len(todo)
       PROVE  seqs'[todo[i]].status # "RUNNING"
  <2>1. i \in 1 .. Len(todo)
      BY <1>6
  <2>2. CASE i = len - m
    <3>1. i \in 1 .. len - m /\ m + i = len
        BY <1>6, <2>2
    <3>2. todo[i] = v
        BY <1>4, <1>5, <3>1 DEF len
    <3>3. QED
        BY <1>4, <3>2
  <2>3. CASE i # len - m
    <3>1. i \in len - m + 1 .. Len(todo)
        BY <1>6, <2>3
    <3>2. QED
        BY <1>4, <1>5, <1>8, <2>1, <3>1
  <2>4. QED
      BY <2>2, <2>3
<1>14. RunningLoop'
    BY <1>1, <1>7, <1>9, <1>10, <1>11, <1>12, <1>13 DEF RunningLoop, m
<1>15. QED
    BY <1>4, <1>14

LEMMA PreemptSelfKeeps ==
    ASSUME EngineInv, NEW s \in SeqId, PreemptSelf(s)
    PROVE  /\ EngineInv'
           /\ ManagerCall(kv, Projected(kv, seqs), kv', Projected(kv', seqs'))
<1> DEFINE m == Len(scheduled)
           len == Len(running)
<1>1. HandlesRunning(s) /\ s = Victim(s) /\ Preempt(s) /\ todo' = Tail(todo)
    BY DEF PreemptSelf
<1>2. Types /\ Loops /\ todo \in Seq(SeqId) /\ scheduled \in Seq(Entry)
    BY DEF EngineInv, Types, TypeOK
<1>3. len = m + 1
    BY <1>1, VictimIsLast
<1>4. todo # << >> /\ m \in Nat /\ DOMAIN scheduled = 1 .. m
    BY <1>1, <1>2, RunningHead DEF HandlesRunning, Visits
<1>5. /\ todo' \in Seq(SeqId) /\ Len(todo') = Len(todo) - 1 /\ Len(todo) \in Nat
      /\ \A i \in 1 .. Len(todo') : todo'[i] = todo[i + 1]
    BY <1>1, <1>2, <1>4
<1>6. /\ running \in Seq(SeqId)
      /\ running' = SubSeq(running, 1, len - 1)
      /\ \A x \in SeqId : seqs[x].status # "RUNNING" => seqs'[x].status # "RUNNING"
      /\ RunningLoop' => EngineInv'
      /\ ManagerCall(kv, Projected(kv, seqs), kv', Projected(kv', seqs'))
    BY <1>1, <1>5, PreemptKeeps
<1>7. /\ \A i \in DOMAIN scheduled : running[i] = scheduled[i].seq_id
      /\ \A i \in len - m + 1 .. Len(todo) : seqs[todo[i]].status # "RUNNING"
    BY <1>1, <1>2 DEF HandlesRunning, Loops, RunningLoop
<1>8. /\ Len(running') = m
      /\ \A i \in 1 .. m : running'[i] = running[i]
    BY <1>3, <1>4, <1>6
<1>9. scheduled' = scheduled
    BY <1>1 DEF Preempt
<1>10. \A i \in 1 .. Len(todo) : todo[i] \in SeqId
    BY <1>2
<1> HIDE DEF m, len
<1>11. len - m + 1 = 2
    BY <1>3, <1>4
<1>12. ASSUME NEW i \in 1 .. Len(todo')
       PROVE  seqs'[todo'[i]].status # "RUNNING"
  <2>1. i + 1 \in len - m + 1 .. Len(todo) /\ i + 1 \in 1 .. Len(todo)
      BY <1>5, <1>11
  <2>2. QED
      BY <1>5, <1>6, <1>7, <1>10, <2>1
<1>13. RunningLoop'
  <2>1. Len(running') - Len(scheduled') = 0 /\ Len(todo') \in Nat
      BY <1>4, <1>5, <1>8, <1>9 DEF m
  <2>2. \A i \in DOMAIN scheduled' : running'[i] = scheduled'[i].seq_id
      BY <1>4, <1>7, <1>8, <1>9
  <2>3. QED
      BY <1>12, <2>1, <2>2 DEF RunningLoop
<1>14. QED
    BY <1>6, <1>13

-----------------------------------------------------------------------------
(* The admission loop.                                                     *)

LEMMA AdmitKeeps ==
    ASSUME EngineInv, NEW s \in SeqId, Admit(s)
    PROVE  /\ EngineInv'
           /\ ManagerCall(kv, Projected(kv, seqs), kv', Projected(kv', seqs'))
<1> DEFINE hits == GetComputedBlocks(kv, s, seqs[s])
           n == NumUncached(s)
           cached == Len(hits) * BlockSize
<1>1. /\ HandlesWaiting(s)
      /\ budget >= n /\ CanAllocate(kv, s, seqs[s], n, hits)
      /\ kv' = AllocateSlots(kv, s, seqs[s], n, hits)
      /\ seqs' = [seqs EXCEPT ![s].num_computed_tokens = @ + cached,
                              ![s].status = "RUNNING"]
      /\ waiting' = Tail(waiting) /\ running' = Append(running, s)
      /\ scheduled' = Append(scheduled, Scheduled(s, kv', seqs'[s], n))
      /\ budget' = budget - n
      /\ UNCHANGED <<finished_seqs, phase, todo, preempted_seqs, sampled,
                     sequences, content>>
    BY DEF Admit, Admissible
<1>2. n = NumTokensToCompute(seqs[s]) - cached
    BY DEF NumUncached
<1> HIDE DEF n
<1>3. /\ Types /\ Queues /\ Loops /\ Tokens /\ LiveSchedule
      /\ Sharing(kv, Projected(kv, seqs))
      /\ seqs \in [SeqId -> EngineSeq] /\ waiting \in Seq(SeqId) /\ running \in Seq(SeqId)
      /\ finished_seqs \in Seq(SeqId) /\ sequences \subseteq SeqId
      /\ scheduled \in Seq(Entry) /\ budget \in Nat
    BY DEF EngineInv, Types, TypeOK, EngineSeq
<1>4. phase = "waiting" /\ waiting # << >> /\ s = Head(waiting)
    BY <1>1 DEF HandlesWaiting
<1>5. /\ waiting' \in Seq(SeqId) /\ IsInjective(waiting')
      /\ ToSet(waiting') = ToSet(waiting) \ {s}
      /\ s \in ToSet(waiting)
  <2>1. IsInjective(waiting)
      BY <1>3 DEF Queues
  <2>2. 1 \in DOMAIN waiting /\ s = waiting[1]
      BY <1>3, <1>4
  <2>3. s \in ToSet(waiting)
      BY <2>2 DEF ToSet
  <2>4. QED
      BY <1>1, <1>3, <1>4, <2>1, <2>3, TailDistinct
<1>6. /\ seqs[s].status = "WAITING" /\ s \in sequences /\ s \notin ToSet(running)
      /\ s \notin ToSet(finished_seqs) /\ seqs[s].num_computed_tokens = 0
  <2>1. seqs[s].status = "WAITING" /\ s \in sequences
      BY <1>3, <1>5 DEF Queues
  <2>2. s \notin ToSet(running) /\ s \notin ToSet(finished_seqs)
      BY <1>3, <2>1 DEF Queues
  <2>3. seqs[s].num_computed_tokens = 0
      BY <1>3, <2>1 DEF Tokens
  <2>4. QED
      BY <2>1, <2>2, <2>3
<1>7. /\ seqs[s].token_ids \in Seq(Token) /\ Len(seqs[s].token_ids) \in Nat
      /\ seqs[s].num_computed_tokens < Len(seqs[s].token_ids)
  <2>1. seqs[s].token_ids \in Seq(Token) /\ seqs[s].token_ids # << >>
      BY <1>3 DEF EngineSeq, Tokens
  <2>2. QED
      BY <1>6, <2>1
<1> HIDE DEF hits, cached
<1>8. /\ cached \in Nat
      /\ seqs[s].num_computed_tokens + cached < Len(seqs[s].token_ids)
      /\ KVInv(kv')
      /\ DOMAIN kv'.request_blocks = DOMAIN kv.request_blocks \cup {s}
      /\ \A t : t # s => BlockTable(kv', t) = BlockTable(kv, t)
      /\ CeilDiv(Len(seqs[s].token_ids), BlockSize) <= Len(BlockTable(kv', s))
      /\ \A q2 \in [SeqId -> EngineSeq] :
             /\ \A t \in SeqId \ {s} : SameTokens(seqs, q2, t)
             /\ q2[s].token_ids = seqs[s].token_ids
             /\ q2[s].num_computed_tokens = seqs[s].num_computed_tokens + cached
             => ManagerCall(kv, Projected(kv, seqs), kv', Projected(kv', q2))
  <2>1. /\ hits = GetComputedBlocks(kv, s, seqs[s])
        /\ n = NumTokensToCompute(seqs[s]) - Len(hits) * BlockSize
        /\ cached = Len(hits) * BlockSize
      BY <1>2 DEF hits, cached
  <2>2. /\ CanAllocate(kv, s, seqs[s], n, hits)
        /\ kv' = AllocateSlots(kv, s, seqs[s], n, hits)
        /\ Sharing(kv, Projected(kv, seqs)) /\ seqs \in [SeqId -> EngineSeq]
        /\ seqs[s].num_computed_tokens = 0
        /\ seqs[s].num_computed_tokens < Len(seqs[s].token_ids)
      BY <1>1, <1>3, <1>6, <1>7
  <2>3. /\ Len(hits) * BlockSize \in Nat
        /\ seqs[s].num_computed_tokens + Len(hits) * BlockSize < Len(seqs[s].token_ids)
      BY <2>1, <2>2, AllocationEffects
  <2>4. /\ KVInv(kv')
        /\ DOMAIN kv'.request_blocks = DOMAIN kv.request_blocks \cup {s}
        /\ \A t : t # s => BlockTable(kv', t) = BlockTable(kv, t)
        /\ CeilDiv(Len(seqs[s].token_ids), BlockSize) <= Len(BlockTable(kv', s))
      BY <2>1, <2>2, AllocationEffects
  <2>5. \A q2 \in [SeqId -> EngineSeq] :
            /\ \A t \in SeqId \ {s} : SameTokens(seqs, q2, t)
            /\ q2[s].token_ids = seqs[s].token_ids
            /\ q2[s].num_computed_tokens =
                   seqs[s].num_computed_tokens + Len(hits) * BlockSize
            => ManagerCall(kv, Projected(kv, seqs), kv', Projected(kv', q2))
      BY <2>1, <2>2, AllocationEffects
  <2>6. QED
      BY <2>1, <2>3, <2>4, <2>5
<1>9. /\ seqs' \in [SeqId -> EngineSeq]
      /\ seqs'[s].num_computed_tokens = cached /\ seqs'[s].status = "RUNNING"
      /\ seqs'[s].token_ids = seqs[s].token_ids
      /\ seqs'[s].prompt_len = seqs[s].prompt_len
      /\ \A x \in SeqId : x # s => seqs'[x] = seqs[x]
  <2> PICK w \in EngineSeq : w = seqs[s]
      BY <1>3
  <2> DEFINE r == [w EXCEPT !.num_computed_tokens = w.num_computed_tokens + cached,
                            !.status = "RUNNING"]
  <2>1. w.num_computed_tokens + cached = cached
      BY <1>6, <1>8
  <2>2. r = [w EXCEPT !.num_computed_tokens = cached, !.status = "RUNNING"]
      BY <2>1
  <2>3. seqs' = [seqs EXCEPT ![s] = r]
      BY <1>1, <1>3
  <2> HIDE DEF r
  <2>4. /\ r \in EngineSeq /\ r.num_computed_tokens = cached /\ r.status = "RUNNING"
        /\ r.token_ids = w.token_ids /\ r.prompt_len = w.prompt_len
      BY <1>8, <2>2 DEF EngineSeq, Statuses
  <2>5. QED
      BY <1>3, <2>3, <2>4
<1>10. ManagerCall(kv, Projected(kv, seqs), kv', Projected(kv', seqs'))
  <2>1. \A t \in SeqId \ {s} : SameTokens(seqs, seqs', t)
      BY <1>9 DEF SameTokens
  <2>2. seqs'[s].num_computed_tokens = seqs[s].num_computed_tokens + cached
      BY <1>6, <1>8, <1>9
  <2>3. QED
      BY <1>8, <1>9, <2>1, <2>2
<1>11. Sharing(kv, Projected(kv, seqs))'
    BY <1>3, <1>10, ManagerCallKeepsSharing
<1>12. /\ running' \in Seq(SeqId) /\ IsInjective(running')
       /\ ToSet(running') = ToSet(running) \cup {s}
  <2>1. IsInjective(running)
      BY <1>3 DEF Queues
  <2>2. QED
      BY <1>1, <1>3, <1>6, <2>1, AppendDistinct
<1>13. Queues'
  <2>1. /\ \A x \in ToSet(running) : x \in SeqId
        /\ \A x \in ToSet(waiting) : x \in SeqId
        /\ \A x \in ToSet(finished_seqs) : x \in SeqId
      BY <1>3 DEF ToSet
  <2>2. /\ \A x \in ToSet(running') : seqs'[x].status = "RUNNING" /\ x \in sequences
        /\ \A x \in ToSet(waiting') : seqs'[x].status = "WAITING" /\ x \in sequences
        /\ \A x \in ToSet(finished_seqs) : seqs'[x].status = "DONE"
      BY <1>3, <1>5, <1>6, <1>9, <1>12, <2>1 DEF Queues
  <2>3. ASSUME NEW x \in sequences
        PROVE  /\ seqs'[x].status # "NEW"
               /\ seqs'[x].status = "RUNNING" => x \in ToSet(running')
               /\ seqs'[x].status = "WAITING" => x \in ToSet(waiting')
               /\ seqs'[x].status = "DONE" => x \in ToSet(finished_seqs)
    <3>1. CASE x = s
        BY <1>9, <1>12, <3>1
    <3>2. CASE x # s
      <4>1. seqs'[x] = seqs[x]
          BY <1>3, <1>9, <3>2
      <4>2. QED
          BY <1>3, <1>4, <1>5, <1>12, <3>2, <4>1 DEF Queues
    <3>3. QED
        BY <3>1, <3>2
  <2>4. DOMAIN kv'.request_blocks = ToSet(running')
      BY <1>3, <1>8, <1>12 DEF Queues
  <2>5. QED
      BY <1>1, <1>4, <1>5, <1>12, <2>2, <2>3, <2>4 DEF Queues
<1>14. n = NumTokensToCompute(seqs'[s]) /\ n \in Nat
    BY <1>2, <1>6, <1>7, <1>8, <1>9 DEF NumTokensToCompute
<1>15. CoveredBy(kv', s, seqs'[s])
    BY <1>6, <1>7, <1>8, <1>9 DEF CoveredBy
<1>16. \A e \in ToSet(scheduled) : e.seq_id # s
    BY <1>3, <1>4, <1>6 DEF LiveSchedule, Live
<1>17. /\ scheduled' \in Seq(Entry)
       /\ LiveSchedule'
       /\ Len(scheduled') = Len(scheduled) + 1
       /\ \A i \in DOMAIN scheduled : scheduled'[i] = scheduled[i]
       /\ scheduled'[Len(scheduled) + 1].seq_id = s
  <2>1. scheduled' = Append(scheduled,
                            Scheduled(s, kv', seqs'[s], NumTokensToCompute(seqs'[s])))
      BY <1>1, <1>14
  <2>2. \A x \in SeqId \ {s} : /\ seqs'[x] = seqs[x]
                               /\ BlockTable(kv', x) = BlockTable(kv, x)
      BY <1>8, <1>9
  <2>3. ToSet(running) \subseteq ToSet(running') /\ s \in ToSet(running')
      BY <1>12
  <2>4. phase \in {"running", "waiting"} /\ phase' = phase
      BY <1>1, <1>4
  <2>5. QED
      BY <1>3, <1>13, <1>15, <1>16, <2>1, <2>2, <2>3, <2>4, ScheduleOne
<1>18. Types'
  <2>1. budget' \in Nat
      BY <1>1, <1>3, <1>14
  <2>2. TypeOK'
      BY <1>1, <1>3, <1>5, <1>9, <1>12, <2>1 DEF Types, TypeOK, EngineSeq
  <2>3. QED
      BY <1>1, <1>4, <1>17, <2>2 DEF Types
<1>19. Loops'
  <2>1. \A i \in DOMAIN scheduled' :
            i \in DOMAIN scheduled \/ i = Len(scheduled) + 1
      BY <1>3, <1>17
  <2>2. \A i \in DOMAIN scheduled : scheduled[i].seq_id # s
      BY <1>16 DEF ToSet
  <2>3. \A i, j \in DOMAIN scheduled' :
            i # j => scheduled'[i].seq_id # scheduled'[j].seq_id
      BY <1>3, <1>17, <2>1, <2>2 DEF Loops
  <2>4. QED
      BY <1>1, <1>4, <2>3 DEF Loops
<1>20. Tokens'
  <2>1. seqs'[s].num_computed_tokens < Len(seqs'[s].token_ids)
      BY <1>6, <1>8, <1>9
  <2>2. QED
      BY <1>3, <1>6, <1>9, <1>12, <2>1 DEF Tokens, GeneratedLen
<1>21. (phase \in {"running", "waiting", "execute"})'
    BY <1>1, <1>4
<1>22. NoSlotWrittenTwice'
    BY <1>11, <1>13, <1>17, <1>18, <1>19, <1>20, <1>21, SlotsApart, PTL
<1>23. QED
    BY <1>10, <1>11, <1>13, <1>17, <1>18, <1>19, <1>20, <1>22 DEF EngineInv

-----------------------------------------------------------------------------
(* The specification.                                                      *)

\* Every step of the engine keeps the invariant and is a call of the manager,
\* or none.
LEMMA NextInv ==
    ASSUME EngineInv, [Next]_vars
    PROVE  /\ EngineInv'
           /\ ManagerCall(kv, Projected(kv, seqs), kv', Projected(kv', seqs'))
<1>1. CASE BeginStep
    BY <1>1, BeginStepKeeps, NoCall DEF BeginStep
<1>2. CASE SkipPreempted
    BY <1>2, SkipPreemptedKeeps, NoCall DEF SkipPreempted
<1>3. CASE RequeuePreempted
    BY <1>3, RequeuePreemptedKeeps, NoCall DEF RequeuePreempted
<1>4. CASE StopAdmitting
    BY <1>4, StopAdmittingKeeps, NoCall DEF StopAdmitting
<1>5. ASSUME NEW s \in SeqId,
             \/ ScheduleRunning(s) \/ PreemptOther(s) \/ PreemptSelf(s)
             \/ RejectWaiting(s) \/ Admit(s) \/ UpdateSeq(s)
             \/ AddRequest(s) \/ AbortRequest(s)
      PROVE  /\ EngineInv'
             /\ ManagerCall(kv, Projected(kv, seqs), kv', Projected(kv', seqs'))
    BY <1>5, ScheduleRunningKeeps, PreemptOtherKeeps, PreemptSelfKeeps,
       RejectWaitingKeeps, AdmitKeeps, UpdateSeqKeeps, AddRequestKeeps,
       AbortRequestKeeps
<1>6. CASE NothingToExecute
    BY <1>6, NothingToExecuteKeeps, NoCall DEF NothingToExecute
<1>7. CASE ExecuteModel
    BY <1>7, ExecuteModelKeeps, NoCall DEF ExecuteModel
<1>8. CASE ExecuteRaises
    BY <1>8, ExecuteRaisesKeeps, NoCall DEF ExecuteRaises
<1>9. CASE UpdateDone
    BY <1>9, UpdateDoneKeeps, NoCall DEF UpdateDone
<1>10. CASE Outputs
    BY <1>10, OutputsKeeps, NoCall DEF Outputs
<1>11. CASE Reset
    BY <1>11, ResetKeeps
<1>12. CASE UNCHANGED vars
  <2>1. UNCHANGED <<kv, seqs, waiting, running, finished_seqs, phase, todo, budget,
                    scheduled, preempted_seqs, sampled, sequences, content>>
      BY <1>12 DEF vars, queueVars, stepVars
  <2>2. Types' /\ Queues' /\ Loops'
      BY <2>1 DEF EngineInv, Types, TypeOK, Queues, Loops, RunningLoop, ScheduledIds
  <2>3. LiveSchedule' /\ NoSlotWrittenTwice'
      BY <2>1 DEF EngineInv, LiveSchedule, Live, NoSlotWrittenTwice
  <2>4. Tokens' /\ Sharing(kv, Projected(kv, seqs))'
      BY <2>1, UntouchedTokens
  <2>5. EngineInv'
      BY <2>2, <2>3, <2>4 DEF EngineInv
  <2>6. QED
      BY <2>1, <2>5, NoCall
<1>13. QED
    BY <1>1, <1>2, <1>3, <1>4, <1>5, <1>6, <1>7, <1>8, <1>9, <1>10, <1>11, <1>12
       DEF Next, RestOfStep, Schedule

LEMMA EngineInvariant == Spec => []EngineInv
<1>1. EngineInv /\ [Next]_vars => EngineInv'
    BY NextInv
<1>2. QED
    BY <1>1, InitInv, PTL DEF Spec

-----------------------------------------------------------------------------
(* The theorems.                                                           *)

\* The fields of the scheduler, the sequences and the step stay in their types.
THEOREM EngineTypeCorrect == Spec => []TypeOK
<1>1. EngineInv => TypeOK
    BY DEF EngineInv, Types
<1>2. QED
    BY <1>1, EngineInvariant, PTL

\* A request is in exactly the queue its status says, and exactly the running
\* sequences hold blocks, through rejects, aborts, finishes, preemptions, resets
\* and forward passes that raise.
THEOREM QueuesAndBlocksAlwaysAgree == Spec => []QueuesAndBlocksAgree
<1>1. EngineInv => QueuesAndBlocksAgree
  <2>1. SUFFICES ASSUME Queues PROVE QueuesAndBlocksAgree
      BY DEF EngineInv
  <2>2. ASSUME NEW s \in sequences, seqs[s].status = "DONE"
        PROVE  s \in ToSet(finished_seqs) \ (ToSet(waiting) \cup ToSet(running))
      BY <2>1, <2>2 DEF Queues
  <2>3. QED
      BY <2>1, <2>2 DEF Queues, QueuesAndBlocksAgree
<1>2. QED
    BY <1>1, EngineInvariant, PTL

\* What schedule() recorded for a sequence is still true when the forward pass
\* runs it: the sequence runs, on the recorded table, with that many tokens to
\* compute, at least one.
THEOREM ScheduleAlwaysTrue == Spec => []ScheduleStaysTrue
<1>1. EngineInv => ScheduleStaysTrue
  <2>1. SUFFICES ASSUME EngineInv, phase \in {"running", "waiting", "execute"},
                        NEW e \in ToSet(scheduled)
                 PROVE  /\ e.seq_id \in ToSet(running)
                        /\ e.block_table = BlockTable(kv, e.seq_id)
                        /\ e.num_tokens = NumTokensToCompute(seqs[e.seq_id])
                        /\ e.num_tokens > 0
      BY DEF ScheduleStaysTrue
  <2> DEFINE s == e.seq_id
  <2>2. Live(e)
      BY <2>1 DEF EngineInv, LiveSchedule
  <2>3. /\ s \in ToSet(running)
        /\ e = Scheduled(s, kv, seqs[s], NumTokensToCompute(seqs[s]))
        /\ CeilDiv(Len(seqs[s].token_ids), BlockSize) <= Len(BlockTable(kv, s))
      BY <2>2 DEF Live
  <2> HIDE DEF s
  <2>4. /\ e.block_table = BlockTable(kv, s)
        /\ e.num_tokens = NumTokensToCompute(seqs[s])
      BY <2>3 DEF Scheduled
  <2>5. NumTokensToCompute(seqs[s]) \in Nat \ {0}
    <3>1. s \in SeqId /\ CoveredBy(kv, s, seqs[s])
        BY <2>1, <2>3, LiveCovered DEF EngineInv
    <3>2. QED
        BY <3>1, ScheduledSlots
  <2>6. QED
      BY <2>3, <2>4, <2>5 DEF s
<1>2. QED
    BY <1>1, EngineInvariant, PTL

\* No step schedules a sequence twice or writes one slot of the cache for two
\* sequences, prefix sharing and preemption included.
THEOREM NoSlotEverWrittenTwice == Spec => []NoSlotWrittenTwice
<1>1. EngineInv => NoSlotWrittenTwice
    BY DEF EngineInv
<1>2. QED
    BY <1>1, EngineInvariant, PTL

-----------------------------------------------------------------------------
(* The engine implements the manager's specification.                      *)

\* The operators that Manager!KVNext is made of are the engine's own.
LEMMA ManagerOperators ==
    /\ Manager!EmptyKV = EmptyKV
    /\ \A k, s : Manager!Holds(k, s) = Holds(k, s)
    /\ \A k, s : Manager!BlockTable(k, s) = BlockTable(k, s)
    /\ \A n, d : Manager!CeilDiv(n, d) = CeilDiv(n, d)
    /\ \A k, s, seq : Manager!GetComputedBlocks(k, s, seq) = GetComputedBlocks(k, s, seq)
    /\ \A k, s, seq, n, hits :
           Manager!CanAllocate(k, s, seq, n, hits) = CanAllocate(k, s, seq, n, hits)
    /\ \A k, s, seq, n, hits :
           Manager!AllocateSlots(k, s, seq, n, hits) = AllocateSlots(k, s, seq, n, hits)
    /\ \A k, s : Manager!Free(k, s) = Free(k, s)
<1>1. Manager!EmptyKV = EmptyKV
    BY DEF EmptyKV, Manager!EmptyKV, Block, Manager!Block, NoKey, Manager!NoKey
<1>2. ASSUME NEW k, NEW s PROVE Manager!Holds(k, s) = Holds(k, s)
    BY DEF Holds, Manager!Holds
<1>3. ASSUME NEW k, NEW s PROVE Manager!BlockTable(k, s) = BlockTable(k, s)
    BY DEF BlockTable, Manager!BlockTable, Holds, Manager!Holds
<1>4. ASSUME NEW n, NEW d PROVE Manager!CeilDiv(n, d) = CeilDiv(n, d)
    BY DEF CeilDiv, Manager!CeilDiv
<1>5. ASSUME NEW k, NEW s, NEW seq
      PROVE  Manager!GetComputedBlocks(k, s, seq) = GetComputedBlocks(k, s, seq)
    BY DEF GetComputedBlocks, Manager!GetComputedBlocks, Holds, Manager!Holds,
           MaxCachedBlocks, Manager!MaxCachedBlocks, BlockKey, Manager!BlockKey,
           Max, Manager!Max
<1>6. ASSUME NEW k, NEW s, NEW seq, NEW n, NEW hits
      PROVE  Manager!NumBlocksNeeded(k, s, seq, n, hits) = NumBlocksNeeded(k, s, seq, n, hits)
    BY <1>3, <1>4 DEF NumBlocksNeeded, Manager!NumBlocksNeeded
<1>7. ASSUME NEW k, NEW s, NEW seq, NEW n, NEW hits
      PROVE  Manager!CanAllocate(k, s, seq, n, hits) = CanAllocate(k, s, seq, n, hits)
  <2>1. Manager!NumRevived(k, hits) = NumRevived(k, hits)
      BY DEF NumRevived, Manager!NumRevived, ToSet, Manager!ToSet,
             Cardinality, Manager!Cardinality
  <2>2. QED
      BY <1>6, <2>1 DEF CanAllocate, Manager!CanAllocate
<1>8. ASSUME NEW k, NEW s, NEW seq, NEW n, NEW hits
      PROVE  Manager!AllocateSlots(k, s, seq, n, hits) = AllocateSlots(k, s, seq, n, hits)
  <2>1. ASSUME NEW t PROVE Manager!WithTable(k, s, t) = WithTable(k, s, t)
      BY DEF WithTable, Manager!WithTable
  <2>2. Manager!AcquireHits(k, s, hits) = AcquireHits(k, s, hits)
      BY <1>3, <2>1 DEF AcquireHits, Manager!AcquireHits, CountHits, Manager!CountHits,
                        Delete, Manager!Delete, Keep, Manager!Keep,
                        ToSet, Manager!ToSet, Block, Manager!Block
  <2>3. ASSUME NEW j, NEW m PROVE Manager!PopFreeBlocks(j, s, m) = PopFreeBlocks(j, s, m)
    <3>1. ASSUME NEW t PROVE Manager!WithTable(j, s, t) = WithTable(j, s, t)
        BY DEF WithTable, Manager!WithTable
    <3>2. QED
        BY <1>3, <3>1 DEF PopFreeBlocks, Manager!PopFreeBlocks, Extend, Manager!Extend,
                          Evict, Manager!Evict, Restrict, Manager!Restrict,
                          ToSet, Manager!ToSet, Block, Manager!Block,
                          NoKey, Manager!NoKey
  <2>4. ASSUME NEW j, NEW m PROVE Manager!CacheFullBlocks(j, s, seq, m) = CacheFullBlocks(j, s, seq, m)
      BY DEF CacheFullBlocks, Manager!CacheFullBlocks, Registrable, Manager!Registrable,
             NumRegistered, Manager!NumRegistered, BlockKey, Manager!BlockKey,
             Block, Manager!Block, NoKey, Manager!NoKey
  <2>5. QED
      BY <1>6, <2>2, <2>3, <2>4 DEF AllocateSlots, Manager!AllocateSlots
<1>9. ASSUME NEW k, NEW s PROVE Manager!Free(k, s) = Free(k, s)
    BY DEF Free, Manager!Free, Uncount, Manager!Uncount, Block, Manager!Block,
           Keep, Manager!Keep, Reverse, Manager!Reverse, Restrict, Manager!Restrict,
           ToSet, Manager!ToSet
<1>10. QED
    BY <1>1, <1>2, <1>3, <1>4, <1>5, <1>7, <1>8, <1>9

\* No sequence outgrows MaxLen.
LEMMA LengthBound ==
    ASSUME EngineInv, \A p \in Prompts : Len(p) + MaxTokens <= MaxLen
    PROVE  \A s \in SeqId : Len(seqs[s].token_ids) <= MaxLen
<1> TAKE s \in SeqId
<1>1. seqs[s].token_ids \in Seq(Token) /\ Len(seqs[s].token_ids) \in Nat
    BY DEF EngineInv, Types, TypeOK
<1>2. PICK p \in Prompts : seqs[s].prompt_len = Len(p)
    BY DEF EngineInv, Tokens
<1>3. Len(p) \in Nat
    BY PromptsAssumption
<1>4. Len(seqs[s].token_ids) - Len(p) <= MaxTokens
    BY <1>2 DEF EngineInv, Tokens, GeneratedLen
<1>5. Len(p) + MaxTokens <= MaxLen
    OBVIOUS
<1>6. QED
    BY <1>1, <1>3, <1>4, <1>5, BudgetAssumption, MaxLenAssumption

\* A call of the manager on the projected sequences is a step of KVNext, while
\* no sequence outgrows MaxLen.
LEMMA CallIsAStep ==
    ASSUME Sharing(kv, Projected(kv, seqs)), Sharing(kv', Projected(kv', seqs')),
           seqs \in [SeqId -> EngineSeq], seqs' \in [SeqId -> EngineSeq],
           ManagerCall(kv, Projected(kv, seqs), kv', Projected(kv', seqs')),
           \A s \in SeqId : Len(seqs'[s].token_ids) <= MaxLen
    PROVE  [Manager!KVNext]_(Manager!kvVars)
<1> DEFINE q == Projected(kv, seqs)
           q2 == Projected(kv', seqs')
<1>1. /\ q = [s \in SeqId |->
                 [ token_ids |-> seqs[s].token_ids,
                   num_computed_tokens |->
                       IF Holds(kv, s) THEN seqs[s].num_computed_tokens ELSE 0 ]]
      /\ q2 = [s \in SeqId |->
                  [ token_ids |-> seqs'[s].token_ids,
                    num_computed_tokens |->
                        IF Holds(kv', s) THEN seqs'[s].num_computed_tokens ELSE 0 ]]
    BY DEF Projected
<1>2. /\ q \in [SeqId -> SeqRecord] /\ q2 \in [SeqId -> SeqRecord]
      /\ \A s \in SeqId : Len(q2[s].token_ids) <= MaxLen
  <2>1. \A s \in SeqId : q2[s].token_ids = seqs'[s].token_ids
      BY DEF Projected
  <2>2. QED
      BY <2>1, ProjectedTypes
<1> HIDE DEF q, q2
<1>3. CASE kv' = kv /\ q2 = q
    BY <1>1, <1>3 DEF Manager!kvVars
<1>4. ASSUME NEW s \in SeqId,
             LET hits == GetComputedBlocks(kv, s, q[s])
                 n    == Len(q[s].token_ids) - q[s].num_computed_tokens
                             - Len(hits) * BlockSize
             IN  /\ CanAllocate(kv, s, q[s], n, hits)
                 /\ kv' = AllocateSlots(kv, s, q[s], n, hits)
                 /\ q2 = [q EXCEPT ![s].num_computed_tokens =
                                       @ + Len(hits) * BlockSize]
      PROVE  Manager!KVNext
  <2>1. Manager!KVAllocate(s)
      BY <1>1, <1>4, ManagerOperators DEF Manager!KVAllocate
  <2>2. QED
      BY <2>1 DEF Manager!KVNext
<1>5. ASSUME NEW s \in SeqId, NEW t \in Token,
             /\ Holds(kv, s)
             /\ q[s].num_computed_tokens < Len(q[s].token_ids)
             /\ CeilDiv(Len(q[s].token_ids), BlockSize) <= Len(BlockTable(kv, s))
             /\ kv' = kv
             /\ q2 = [q EXCEPT ![s].num_computed_tokens = Len(q[s].token_ids),
                               ![s].token_ids = Append(@, t)]
      PROVE  Manager!KVNext
  <2>1. q[s].token_ids \in Seq(Token) /\ Len(q[s].token_ids) \in Nat
      BY <1>2 DEF SeqRecord
  <2>2. q2[s].token_ids = Append(q[s].token_ids, t)
    <3>1. q2[s] = [q[s] EXCEPT !.num_computed_tokens = Len(q[s].token_ids),
                               !.token_ids = Append(@, t)]
        BY <1>2, <1>5
    <3>2. q[s] \in SeqRecord
        BY <1>2
    <3>3. QED
        BY <3>1, <3>2 DEF SeqRecord
  <2>3. Len(q[s].token_ids) < MaxLen
      BY <1>2, <1>5, <2>1, <2>2, MaxLenAssumption
  <2>4. Manager!KVCompute(s, t)
      BY <1>1, <1>5, <2>3, ManagerOperators DEF Manager!KVCompute
  <2>5. QED
      BY <2>4 DEF Manager!KVNext
<1>6. ASSUME NEW s \in SeqId, NEW more \in {<< >>} \cup {<<t>> : t \in Token},
             /\ Holds(kv, s)
             /\ kv' = Free(kv, s)
             /\ q2 = [q EXCEPT ![s].num_computed_tokens = 0,
                               ![s].token_ids = @ \o more]
      PROVE  Manager!KVNext
  <2>1. q[s].token_ids \in Seq(Token) /\ Len(q[s].token_ids) \in Nat
      BY <1>2 DEF SeqRecord
  <2>2. q2[s].token_ids = q[s].token_ids \o more
    <3>1. q2[s] = [q[s] EXCEPT !.num_computed_tokens = 0, !.token_ids = @ \o more]
        BY <1>2, <1>6
    <3>2. q[s] \in SeqRecord
        BY <1>2
    <3>3. QED
        BY <3>1, <3>2 DEF SeqRecord
  <2>3. more \in Seq(Token)
    <3>1. CASE more = << >>
        BY <3>1
    <3>2. CASE \E t \in Token : more = <<t>>
      <4>1. PICK t \in Token : more = <<t>>
          BY <3>2
      <4>2. QED
          BY <4>1
    <3>3. QED
        BY <3>1, <3>2
  <2>4. Len(q[s].token_ids) + Len(more) <= MaxLen
    <3>1. Len(q[s].token_ids \o more) = Len(q[s].token_ids) + Len(more)
        BY <2>1, <2>3
    <3>2. QED
        BY <1>2, <2>2, <3>1
  <2>5. Manager!KVFree(s, more)
      BY <1>1, <1>6, <2>4, ManagerOperators DEF Manager!KVFree
  <2>6. QED
      BY <2>5 DEF Manager!KVNext
<1>7. ASSUME /\ kv' = EmptyKV
             /\ q2 = [s \in SeqId |-> [q[s] EXCEPT !.num_computed_tokens = 0]]
      PROVE  Manager!KVNext
  <2>1. Manager!KVReset
      BY <1>1, <1>7, ManagerOperators DEF Manager!KVReset
  <2>2. QED
      BY <2>1 DEF Manager!KVNext
<1>8. ManagerCall(kv, q, kv', q2)
    BY DEF q, q2
<1>9. QED
    BY <1>3, <1>4, <1>5, <1>6, <1>7, <1>8 DEF ManagerCall

\* Every behaviour of the engine is, for its KV cache manager, a behaviour of
\* KVSpec: what is proved of the manager under any legal caller holds in the
\* engine.  MaxLen stands for no limit of the program: it is the bound of
\* KVSpec's sequences, here no smaller than what a request can grow to.
THEOREM EngineIsALegalCaller ==
    ASSUME \A p \in Prompts : Len(p) + MaxTokens <= MaxLen
    PROVE  Spec => ManagerSpec
<1>1. Init => Manager!KVInit
  <2>1. SUFFICES ASSUME Init PROVE Manager!KVInit
      OBVIOUS
  <2> DEFINE q == Projected(kv, seqs)
  <2>2. \A s \in SeqId : q[s] \in {[token_ids |-> p, num_computed_tokens |-> 0] :
                                      p \in Prompts}
    <3> TAKE s \in SeqId
    <3>1. PICK p \in Prompts :
              seqs[s] = [ token_ids |-> p, num_computed_tokens |-> 0,
                          status |-> "NEW", finish_reason |-> "NONE",
                          prompt_len |-> Len(p), num_preemptions |-> 0 ]
        BY <2>1 DEF Init
    <3>2. seqs[s].token_ids = p /\ seqs[s].num_computed_tokens = 0
        BY <3>1
    <3>3. q[s] = [token_ids |-> p, num_computed_tokens |-> 0]
        BY <3>2 DEF Projected
    <3>4. QED
        BY <3>3
  <2>3. q \in [SeqId -> {[token_ids |-> p, num_computed_tokens |-> 0] : p \in Prompts}]
      BY <2>2 DEF Projected
  <2>4. kv = Manager!EmptyKV
      BY <2>1, ManagerOperators DEF Init
  <2>5. QED
      BY <2>3, <2>4 DEF Manager!KVInit, Projected
<1>2. EngineInv /\ [Next]_vars => [Manager!KVNext]_(Manager!kvVars)
  <2>1. SUFFICES ASSUME EngineInv, [Next]_vars
                 PROVE  [Manager!KVNext]_(Manager!kvVars)
      OBVIOUS
  <2>2. /\ EngineInv'
        /\ ManagerCall(kv, Projected(kv, seqs), kv', Projected(kv', seqs'))
      BY <2>1, NextInv
  <2>3. /\ seqs \in [SeqId -> EngineSeq] /\ seqs' \in [SeqId -> EngineSeq]
        /\ Sharing(kv, Projected(kv, seqs)) /\ Sharing(kv', Projected(kv', seqs'))
      BY <2>1, <2>2 DEF EngineInv, Types, TypeOK, EngineSeq
  <2>4. (\A s \in SeqId : Len(seqs[s].token_ids) <= MaxLen)'
      BY <2>2, LengthBound, PTL
  <2>5. QED
      BY <2>2, <2>3, <2>4, CallIsAStep
<1>3. QED
    BY <1>1, <1>2, EngineInvariant, PTL DEF Spec, ManagerSpec, Manager!KVSpec

-----------------------------------------------------------------------------
(* The budget of a step.                                                   *)

\* The tokens to compute of the sequences in r fill intervals that begin where
\* at says, in the order of r, none of which overlap or exceed the budget.
InOrder(at, r, q) ==
    /\ \A i, j \in DOMAIN r :
           i < j => at[r[i]] + NumTokensToCompute(q[r[i]]) <= at[r[j]]
    /\ \A i \in DOMAIN r :
           at[r[i]] + NumTokensToCompute(q[r[i]]) <= MaxNumBatchedTokens

Spent == MaxNumBatchedTokens - budget

\* What is spent lies after the sequences that are scheduled and before the
\* others.
Placed(at) ==
    /\ InOrder(at, running, seqs)
    /\ phase = "running" =>
          /\ \A i \in DOMAIN running :
                 i <= Len(scheduled) =>
                     at[running[i]] + NumTokensToCompute(seqs[running[i]]) <= Spent
          /\ \A i \in DOMAIN running : i > Len(scheduled) => Spent <= at[running[i]]
    /\ phase = "waiting" =>
          \A i \in DOMAIN running :
              at[running[i]] + NumTokensToCompute(seqs[running[i]]) <= Spent

Room == \E at \in [SeqId -> Nat] : Placed(at)

\* After the running loop, and after each admission, the schedule is running.
AllScheduled ==
    /\ Len(scheduled) = Len(running)
    /\ \A i \in DOMAIN scheduled : scheduled[i].seq_id = running[i]

Limits ==
    /\ budget <= MaxNumBatchedTokens
    /\ Len(running) <= MaxNumSeqs
    /\ phase \in {"waiting", "execute"} => AllScheduled

-----------------------------------------------------------------------------
(* What keeps the budget.                                                  *)

LEMMA RunningNeeds ==
    ASSUME EngineInv
    PROVE  /\ running \in Seq(SeqId) /\ Len(running) \in Nat
           /\ scheduled \in Seq(Entry) /\ Len(scheduled) \in Nat
           /\ budget \in Nat /\ MaxNumBatchedTokens \in Nat
           /\ seqs \in [SeqId -> EngineSeq]
           /\ \A s \in SeqId : NumTokensToCompute(seqs[s]) \in Int
           /\ \A s \in ToSet(running) :
                  s \in SeqId /\ NumTokensToCompute(seqs[s]) \in Nat \ {0}
           /\ \A i \in DOMAIN running : running[i] \in ToSet(running)
<1>1. /\ running \in Seq(SeqId) /\ scheduled \in Seq(Entry) /\ budget \in Nat
      /\ seqs \in [SeqId -> EngineSeq]
    BY DEF EngineInv, Types, TypeOK, EngineSeq
<1>2. \A s \in SeqId : /\ seqs[s].num_computed_tokens \in Nat
                       /\ Len(seqs[s].token_ids) \in Nat
    BY <1>1 DEF EngineSeq
<1>3. ASSUME NEW s \in ToSet(running)
      PROVE  s \in SeqId /\ NumTokensToCompute(seqs[s]) \in Nat \ {0}
  <2>1. s \in SeqId
      BY <1>1 DEF ToSet
  <2>2. seqs[s].num_computed_tokens < Len(seqs[s].token_ids)
      BY <2>1 DEF EngineInv, Tokens
  <2>3. QED
      BY <1>2, <2>1, <2>2 DEF NumTokensToCompute
<1>4. \A s \in SeqId : NumTokensToCompute(seqs[s]) \in Int
    BY <1>2 DEF NumTokensToCompute
<1>5. \A i \in DOMAIN running : running[i] \in ToSet(running)
    BY DEF ToSet
<1>6. QED
    BY <1>1, <1>3, <1>4, <1>5, BudgetAssumption

LEMMA RunningNeed ==
    ASSUME EngineInv
    PROVE  \A x \in ToSet(running) : NumTokensToCompute(seqs[x]) \in Nat \ {0}
BY RunningNeeds

\* Sequences that leave, or have fewer tokens to compute, make room.
LEMMA PlacesStay ==
    ASSUME NEW at \in [SeqId -> Nat], NEW r \in Seq(SeqId), NEW r2 \in Seq(SeqId),
           NEW q, NEW q2, InOrder(at, r, q),
           ToSet(r2) \subseteq ToSet(r),
           Within(r2, r),
           \A s \in ToSet(r2) : /\ NumTokensToCompute(q[s]) \in Int
                                /\ NumTokensToCompute(q2[s]) \in Int
                                /\ NumTokensToCompute(q2[s]) <= NumTokensToCompute(q[s])
    PROVE  InOrder(at, r2, q2)
<1>1. \A x \in DOMAIN r2 : r2[x] \in ToSet(r2) /\ at[r2[x]] \in Nat
    BY DEF ToSet
<1>2. ASSUME NEW x \in DOMAIN r2, NEW y \in DOMAIN r2, x < y
      PROVE  at[r2[x]] + NumTokensToCompute(q2[r2[x]]) <= at[r2[y]]
  <2>1. PICK i \in DOMAIN r, j \in DOMAIN r : i < j /\ r[i] = r2[x] /\ r[j] = r2[y]
      BY <1>2 DEF Within
  <2>2. at[r2[x]] + NumTokensToCompute(q[r2[x]]) <= at[r2[y]]
      BY <2>1 DEF InOrder
  <2> PICK a, b, old, new : /\ a = at[r2[x]] /\ b = at[r2[y]]
                            /\ old = NumTokensToCompute(q[r2[x]])
                            /\ new = NumTokensToCompute(q2[r2[x]])
      OBVIOUS
  <2>3. a \in Nat /\ b \in Nat /\ old \in Int /\ new \in Int /\ new <= old
    <3>1. r2[x] \in ToSet(r2)
        BY <1>1
    <3>2. a \in Nat /\ b \in Nat
        BY <1>1
    <3>3. old \in Int /\ new \in Int /\ new <= old
        BY <3>1
    <3>4. QED
        BY <3>2, <3>3
  <2>4. a + new <= b
    <3>1. a + old <= b
        BY <2>2
    <3>2. QED
        BY <2>3, <3>1, LessNeedsLess, SMTT(30)
  <2>5. QED
      BY <2>4
<1>3. ASSUME NEW x \in DOMAIN r2
      PROVE  at[r2[x]] + NumTokensToCompute(q2[r2[x]]) <= MaxNumBatchedTokens
  <2>1. PICK i \in DOMAIN r : r[i] = r2[x]
      BY <1>1 DEF ToSet
  <2>2. at[r2[x]] + NumTokensToCompute(q[r2[x]]) <= MaxNumBatchedTokens
      BY <2>1 DEF InOrder
  <2>3. QED
      BY <1>1, <2>2, BudgetAssumption
<1>4. QED
    BY <1>2, <1>3 DEF InOrder

\* Every step outside the two loops of schedule().
LEMMA OutsideTheLoops ==
    ASSUME EngineInv, EngineInv', Room, Limits,
           ToSet(running') \subseteq ToSet(running), Len(running') <= Len(running),
           \A x, y \in DOMAIN running' :
               x < y => \E i, j \in DOMAIN running :
                            i < j /\ running[i] = running'[x] /\ running[j] = running'[y],
           \A s \in ToSet(running') :
               NumTokensToCompute(seqs'[s]) <= NumTokensToCompute(seqs[s]),
           phase' \notin {"running", "waiting"}, budget' \in {budget, 0, MaxNumBatchedTokens},
           phase' = "execute" => AllScheduled'
    PROVE  Room' /\ Limits'
<1>1. /\ running \in Seq(SeqId) /\ Len(running) \in Nat /\ MaxNumBatchedTokens \in Nat
      /\ \A s \in SeqId : NumTokensToCompute(seqs[s]) \in Int
      /\ \A s \in ToSet(running) : s \in SeqId
    BY RunningNeeds
<1>2. (/\ running \in Seq(SeqId) /\ Len(running) \in Nat
       /\ \A s \in SeqId : NumTokensToCompute(seqs[s]) \in Int)'
    BY RunningNeeds, PTL
<1>3. PICK at \in [SeqId -> Nat] : Placed(at)
    BY DEF Room
<1>4. InOrder(at, running', seqs')
  <2>1. InOrder(at, running, seqs)
      BY <1>3 DEF Placed
  <2>2. Within(running', running)
      BY DEF Within
  <2>3. QED
      BY <1>1, <1>2, <2>1, <2>2, PlacesStay
<1>5. Room'
    BY <1>4 DEF Room, Placed
<1>6. Limits'
  <2>1. Len(running') <= MaxNumSeqs
      BY <1>1, <1>2, BudgetAssumption DEF Limits
  <2>2. budget' <= MaxNumBatchedTokens
      BY <1>1 DEF Limits
  <2>3. QED
      BY <2>1, <2>2 DEF Limits
<1>7. QED
    BY <1>5, <1>6

\* A step that leaves the running sequences and what was scheduled alone.
LEMMA RunningUntouched ==
    ASSUME EngineInv, Room, Limits,
           UNCHANGED <<running, budget, scheduled, phase>>,
           \A s \in ToSet(running) : seqs'[s] = seqs[s]
    PROVE  Room' /\ Limits'
<1>1. \A i \in DOMAIN running : seqs'[running[i]] = seqs[running[i]]
    BY DEF ToSet
<1>2. PICK at \in [SeqId -> Nat] : Placed(at)
    BY DEF Room
<1>3. InOrder(at, running', seqs')
    BY <1>1, <1>2 DEF Placed, InOrder
<1>4. Placed(at)'
    BY <1>1, <1>2, <1>3 DEF Placed, Spent
<1>5. QED
    BY <1>4 DEF Room, Limits, AllScheduled

\* Neither limit of the batch ever stops the running loop.
LEMMA WithinBudget ==
    ASSUME EngineInv, Room, Limits, NEW s \in SeqId, Visits(s)
    PROVE  ~OutOfBudget(s)
<1>1. /\ Len(scheduled) \in Nat /\ Len(running) \in Nat
      /\ Len(scheduled) < Len(running)
      /\ s = running[Len(scheduled) + 1] /\ phase = "running"
    BY RunningHead
<1>2. /\ running \in Seq(SeqId) /\ MaxNumBatchedTokens \in Nat /\ budget \in Nat
      /\ NumTokensToCompute(seqs[s]) \in Int
    BY RunningNeeds
<1>3. PICK at \in [SeqId -> Nat] : Placed(at)
    BY DEF Room
<1> DEFINE k == Len(scheduled) + 1
<1>4. k \in DOMAIN running /\ k > Len(scheduled) /\ s = running[k]
    BY <1>1, <1>2
<1> HIDE DEF k
<1>5. /\ at[s] + NumTokensToCompute(seqs[s]) <= MaxNumBatchedTokens
      /\ Spent <= at[s]
    BY <1>1, <1>3, <1>4 DEF Placed, InOrder
<1>6. at[s] \in Nat
    OBVIOUS
<1>7. ~(budget < NumTokensToCompute(seqs[s]))
    BY <1>2, <1>5, <1>6 DEF Spent
<1>8. ~(Len(scheduled) >= MaxNumSeqs)
    BY <1>1, BudgetAssumption DEF Limits
<1>9. QED
    BY <1>7, <1>8 DEF OutOfBudget

\* So the running loop ends with all of running scheduled.
LEMMA LoopEndsComplete ==
    ASSUME EngineInv, Room, Limits, phase = "running", RunningLoopOver
    PROVE  todo = << >> /\ AllScheduled
<1>1. /\ todo \in Seq(SeqId) /\ running \in Seq(SeqId) /\ scheduled \in Seq(Entry)
      /\ RunningLoop
    BY DEF EngineInv, Types, TypeOK, Loops
<1>2. todo = << >>
  <2>1. SUFFICES ASSUME todo # << >> PROVE FALSE
      OBVIOUS
  <2> PICK s \in SeqId : s = Head(todo)
      BY <1>1, <2>1
  <2>2. Visits(s) /\ OutOfBudget(s)
      BY <2>1 DEF RunningLoopOver, Visits
  <2>3. QED
      BY <2>2, WithinBudget
<1>3. Len(todo) = 0
    BY <1>2
<1>4. Len(scheduled) = Len(running)
    BY <1>1, <1>3 DEF RunningLoop
<1>5. QED
    BY <1>1, <1>2, <1>4 DEF RunningLoop, AllScheduled

-----------------------------------------------------------------------------
(* The budget, action by action.                                           *)

LEMMA BeginStepRoom ==
    ASSUME EngineInv, EngineInv', Room, Limits, BeginStep
    PROVE  Room' /\ Limits'
<1>1. /\ phase = "idle" /\ phase' \in {"running", "outputs"}
      /\ budget' = MaxNumBatchedTokens
      /\ running' = running /\ seqs' = seqs /\ scheduled' = scheduled
    BY DEF BeginStep, queueVars
<1>2. scheduled = << >>
    BY <1>1 DEF EngineInv, Loops
<1>3. /\ running \in Seq(SeqId) /\ MaxNumBatchedTokens \in Nat
    BY RunningNeeds
<1>4. PICK at \in [SeqId -> Nat] : Placed(at)
    BY DEF Room
<1>5. /\ Spent' = 0
      /\ \A i \in DOMAIN running : at[running[i]] >= 0 /\ i > 0
    BY <1>1, <1>3 DEF Spent
<1>6. Len(scheduled') = 0
    BY <1>1, <1>2
<1>7. InOrder(at, running', seqs')
    BY <1>1, <1>4 DEF Placed
<1>8. Placed(at)'
  <2>1. phase' # "waiting"
      BY <1>1
  <2>2. \A i \in DOMAIN running' : ~(i <= Len(scheduled'))
      BY <1>1, <1>3, <1>6
  <2>3. \A i \in DOMAIN running' : Spent' <= at[running'[i]]
      BY <1>1, <1>3, <1>5
  <2>4. QED
      BY <1>7, <2>1, <2>2, <2>3 DEF Placed
<1>9. Limits'
    BY <1>1, <1>3 DEF Limits
<1>10. QED
    BY <1>8, <1>9 DEF Room

LEMMA RequeuePreemptedRoom ==
    ASSUME EngineInv, Room, Limits, RequeuePreempted
    PROVE  Room' /\ Limits'
<1>1. /\ phase = "running" /\ RunningLoopOver /\ phase' = "waiting"
      /\ UNCHANGED <<seqs, running, budget, scheduled>>
    BY DEF RequeuePreempted
<1>2. AllScheduled
    BY <1>1, LoopEndsComplete
<1>3. PICK at \in [SeqId -> Nat] : Placed(at)
    BY DEF Room
<1>4. running \in Seq(SeqId)
    BY RunningNeeds
<1>5. \A i \in DOMAIN running : i <= Len(scheduled)
    BY <1>2, <1>4 DEF AllScheduled
<1>6. Placed(at)'
    BY <1>1, <1>3, <1>5 DEF Placed, Spent
<1>7. QED
    BY <1>1, <1>2, <1>6 DEF Room, Limits, AllScheduled

\* The steps that change neither running nor what its sequences have to compute.
LEMMA RunningAlone ==
    ASSUME EngineInv, EngineInv', Room, Limits,
           running' = running, \A s \in ToSet(running) : seqs'[s] = seqs[s],
           phase' \notin {"running", "waiting"}, budget' \in {budget, 0, MaxNumBatchedTokens},
           phase' = "execute" => AllScheduled'
    PROVE  Room' /\ Limits'
<1>1. \A s \in ToSet(running) : NumTokensToCompute(seqs[s]) \in Int
    BY RunningNeeds
<1>2. \A s \in ToSet(running') :
          NumTokensToCompute(seqs'[s]) <= NumTokensToCompute(seqs[s])
    BY <1>1
<1>3. Len(running') <= Len(running)
  <2>1. Len(running) \in Nat
      BY RunningNeeds
  <2>2. QED
      BY <2>1
<1>4. QED
    BY <1>2, <1>3, OutsideTheLoops

\* A request that ends outside schedule().
LEMMA FinishRoom ==
    ASSUME EngineInv, EngineInv', Room, Limits, NEW s \in SeqId, NEW seq, NEW reason,
           Finish(s, seq, reason), phase' = phase, phase \in {"idle", "update"},
           budget' = budget
    PROVE  Room' /\ Limits'
<1>1. /\ seqs' = [seqs EXCEPT ![s] = Finished(seq, reason)]
      /\ running' = Delete(running, {s})
    BY DEF Finish, FreeSeq
<1>2. /\ running \in Seq(SeqId) /\ seqs \in [SeqId -> EngineSeq]
      /\ \A x \in ToSet(running) : x \in SeqId /\ NumTokensToCompute(seqs[x]) \in Int
    BY RunningNeeds
<1>3. /\ ToSet(running') = ToSet(running) \ {s}
      /\ \A x, y \in DOMAIN running' :
             x < y => \E i, j \in DOMAIN running :
                          i < j /\ running[i] = running'[x] /\ running[j] = running'[y]
  <2>1. ToSet(running') = ToSet(running) \ {s}
      BY <1>1, <1>2, DeleteProperties
  <2>2. Within(running', running)
      BY <1>1, <1>2, DeleteWithin
  <2>3. QED
      BY <2>1, <2>2 DEF Within
<1>4. \A x \in ToSet(running') : seqs'[x] = seqs[x]
    BY <1>1, <1>2, <1>3
<1>5. \A x \in ToSet(running') : NumTokensToCompute(seqs'[x]) <= NumTokensToCompute(seqs[x])
    BY <1>2, <1>3, <1>4
<1>6. Len(running') <= Len(running)
  <2>1. IsInjective(running) /\ IsInjective(running')
      BY DEF EngineInv, Queues
  <2>2. running' \in Seq(SeqId)
      BY <1>1, <1>2, DeleteProperties
  <2>3. /\ IsFiniteSet(ToSet(running)) /\ Cardinality(ToSet(running)) = Len(running)
        /\ Cardinality(ToSet(running')) = Len(running')
      BY <1>2, <2>1, <2>2, LenIsCardinality
  <2>4. QED
      BY <1>3, <2>3, FS_Subset
<1>7. QED
    BY <1>3, <1>5, <1>6, OutsideTheLoops

LEMMA ScheduleRunningRoom ==
    ASSUME EngineInv, Room, Limits, NEW s \in SeqId, ScheduleRunning(s)
    PROVE  Room' /\ Limits'
<1> DEFINE m == Len(scheduled)
           len == Len(running)
           N(i) == NumTokensToCompute(seqs[running[i]])
<1>1. /\ HandlesRunning(s)
      /\ Len(scheduled') = m + 1
      /\ budget' = budget - NumTokensToCompute(seqs[s])
      /\ UNCHANGED <<seqs, running, phase>>
  <2>1. /\ HandlesRunning(s)
        /\ budget' = budget - NumTokensToCompute(seqs[s])
        /\ UNCHANGED <<seqs, running, phase>>
      BY DEF ScheduleRunning, queueVars
  <2>2. PICK e : scheduled' = Append(scheduled, e)
      BY DEF ScheduleRunning
  <2>3. scheduled \in Seq(Entry)
      BY RunningNeeds
  <2>4. QED
      BY <2>1, <2>2, <2>3
<1>2. /\ phase = "running" /\ m \in Nat /\ len \in Nat /\ m < len
      /\ s = running[m + 1]
    BY <1>1, RunningHead DEF HandlesRunning, Visits
<1>3. /\ running \in Seq(SeqId) /\ MaxNumBatchedTokens \in Nat /\ budget \in Nat
      /\ DOMAIN running = 1 .. len
      /\ \A i \in 1 .. len : running[i] \in SeqId /\ N(i) \in Nat \ {0}
  <2>1. running \in Seq(SeqId) /\ MaxNumBatchedTokens \in Nat /\ budget \in Nat
      BY RunningNeeds
  <2>2. \A i \in DOMAIN running : running[i] \in SeqId /\ N(i) \in Nat \ {0}
      BY RunningNeeds
  <2>3. QED
      BY <2>1, <2>2
<1>4. \A i \in 1 .. len : running[i] = s => i = m + 1
  <2>1. IsInjective(running)
      BY DEF EngineInv, Queues
  <2>2. QED
      BY <1>2, <1>3, <2>1 DEF IsInjective
<1>5. PICK at \in [SeqId -> Nat] : Placed(at)
    BY DEF Room
<1>6. Spent \in Nat
    BY <1>3 DEF Spent, Limits
<1>7. PICK at2 \in [SeqId -> Nat] : at2 = [at EXCEPT ![s] = Spent]
    BY <1>6
<1> DEFINE A(i) == at[running[i]]
           B(i) == at2[running[i]]
<1>8. \A i \in 1 .. len : A(i) \in Nat /\ B(i) = (IF i = m + 1 THEN Spent ELSE A(i))
    BY <1>2, <1>3, <1>4, <1>7
<1>9. /\ \A i, j \in 1 .. len : i < j => A(i) + N(i) <= A(j)
      /\ \A i \in 1 .. len : A(i) + N(i) <= MaxNumBatchedTokens
      /\ \A i \in 1 .. len : i <= m => A(i) + N(i) <= Spent
      /\ \A i \in 1 .. len : i > m => Spent <= A(i)
    BY <1>2, <1>3, <1>5 DEF Placed, InOrder
<1>10. m + 1 \in 1 .. len /\ N(m + 1) = NumTokensToCompute(seqs[s])
    BY <1>2
<1>11. Spent' = Spent + N(m + 1)
  <2>1. N(m + 1) \in Nat
      BY <1>3, <1>10
  <2> HIDE DEF N
  <2>2. QED
      BY <1>1, <1>3, <1>10, <2>1 DEF Spent
<1> PICK spent : spent = Spent
    OBVIOUS
<1>12. /\ \A i, j \in 1 .. len : i < j => B(i) + N(i) <= B(j)
       /\ \A i \in 1 .. len : B(i) + N(i) <= MaxNumBatchedTokens
       /\ \A i \in 1 .. len : i <= m + 1 => B(i) + N(i) <= spent + N(m + 1)
       /\ \A i \in 1 .. len : i > m + 1 => spent + N(m + 1) <= B(i)
  <2> HIDE DEF A, B, N, len, m
  <2>1. spent \in Nat /\ m \in Nat /\ MaxNumBatchedTokens \in Nat /\ m + 1 \in 1 .. len
        /\ len \in Nat
      BY <1>2, <1>3, <1>6, <1>10
  <2>2. \A i \in 1 .. len : /\ N(i) \in Nat /\ A(i) \in Nat
                            /\ B(i) = (IF i = m + 1 THEN spent ELSE A(i))
      BY <1>3, <1>8
  <2>3. /\ spent <= A(m + 1)
        /\ \A i \in 1 .. len : i <= m => A(i) + N(i) <= spent
      BY <1>9, <2>1
  <2>4. ASSUME NEW i \in 1 .. len, NEW j \in 1 .. len, i < j
        PROVE  B(i) + N(i) <= B(j)
    <3>1. A(i) + N(i) <= A(j)
        BY <1>9, <2>4
    <3>2. CASE i = m + 1
        BY <2>1, <2>2, <2>3, <2>4, <3>1, <3>2
    <3>3. CASE j = m + 1
        BY <2>1, <2>2, <2>3, <2>4, <3>3
    <3>4. CASE i # m + 1 /\ j # m + 1
        BY <2>2, <3>1, <3>4
    <3>5. QED
        BY <3>2, <3>3, <3>4
  <2>5. ASSUME NEW i \in 1 .. len
        PROVE  /\ B(i) + N(i) <= MaxNumBatchedTokens
               /\ i <= m + 1 => B(i) + N(i) <= spent + N(m + 1)
               /\ i > m + 1 => spent + N(m + 1) <= B(i)
    <3>1. A(i) + N(i) <= MaxNumBatchedTokens
        BY <1>9
    <3>2. i > m + 1 => A(m + 1) + N(m + 1) <= A(i)
        BY <1>9, <2>1
    <3>3. N(m + 1) \in Nat /\ A(m + 1) \in Nat
        BY <2>1, <2>2
    <3>4. CASE i = m + 1
        BY <2>1, <2>2, <2>3, <3>1, <3>3, <3>4
    <3>5. CASE i < m + 1
      <4>1. i <= m
          BY <2>1, <3>5
      <4>2. A(i) + N(i) <= spent /\ B(i) = A(i)
          BY <2>2, <2>3, <3>5, <4>1
      <4>3. QED
          BY <2>1, <2>2, <3>1, <3>3, <3>5, <4>2
    <3>6. CASE i > m + 1
      <4>1. B(i) = A(i)
          BY <2>2, <3>6
      <4>2. spent + N(m + 1) <= B(i)
          BY <2>1, <2>2, <2>3, <3>2, <3>3, <3>6, <4>1
      <4>3. QED
          BY <2>1, <3>1, <3>6, <4>1, <4>2
    <3>7. QED
        BY <2>1, <3>4, <3>5, <3>6
  <2>6. QED
      BY <2>4, <2>5
<1>13. Placed(at2)'
  <2>1. InOrder(at2, running, seqs)
      BY <1>3, <1>12 DEF InOrder
  <2>2. /\ running' = running /\ seqs' = seqs /\ phase' = "running"
        /\ Spent' = spent + N(m + 1) /\ Len(scheduled') = m + 1
      BY <1>1, <1>2, <1>11
  <2> HIDE DEF m
  <2>3. QED
      BY <1>3, <1>12, <2>1, <2>2 DEF Placed
<1>14. Limits'
  <2>1. budget' <= budget
      BY <1>1, <1>3, <1>10
  <2>2. budget' \in Int
      BY <1>1, <1>3, <1>10
  <2>3. QED
      BY <1>1, <1>2, <1>3, <2>1, <2>2 DEF Limits
<1>15. QED
    BY <1>7, <1>13, <1>14 DEF Room

LEMMA PreemptRoom ==
    ASSUME EngineInv, Room, Limits, NEW s \in SeqId, HandlesRunning(s),
           Preempt(Victim(s)), todo' \in Seq(SeqId)
    PROVE  Room' /\ Limits'
<1> PICK v : v = Victim(s)
    OBVIOUS
<1>1. /\ running \in Seq(SeqId) /\ running # << >> /\ v = running[Len(running)]
      /\ running' = SubSeq(running, 1, Len(running) - 1)
    BY PreemptKeeps
<1>2. v \in SeqId /\ v \in ToSet(running)
    BY VictimIsLast
<1>3. /\ seqs' = [seqs EXCEPT ![v] = ResetForRecompute(@)]
      /\ UNCHANGED <<phase, budget, scheduled>>
    BY DEF Preempt
<1>4. /\ IsInjective(running) /\ phase = "running"
    BY DEF EngineInv, Queues, HandlesRunning
<1>5. Len(running) \in Nat \ {0}
    BY <1>1
<1>6. /\ Len(running') = Len(running) - 1
      /\ \A i \in DOMAIN running' : /\ i \in DOMAIN running /\ i # Len(running)
                                    /\ running'[i] = running[i]
  <2> PICK l \in Nat \ {0} : l = Len(running)
      BY <1>5
  <2>1. running' = SubSeq(running, 1, l - 1) /\ l - 1 \in 0 .. Len(running)
      BY <1>1
  <2>2. /\ Len(running') = l - 1
        /\ \A i \in 1 .. l - 1 : running'[i] = running[i]
        /\ DOMAIN running' = 1 .. l - 1
      BY <1>1, <2>1
  <2>3. \A i \in 1 .. l - 1 : i \in DOMAIN running /\ i # l
      BY <1>1
  <2>4. QED
      BY <2>2, <2>3
<1>7. \A i \in DOMAIN running' : seqs'[running[i]] = seqs[running[i]]
  <2> TAKE i \in DOMAIN running'
  <2>1. i \in DOMAIN running /\ Len(running) \in DOMAIN running /\ i # Len(running)
      BY <1>1, <1>5, <1>6
  <2>2. running[i] # v
      BY <1>1, <1>4, <2>1 DEF IsInjective
  <2>3. running[i] \in SeqId /\ seqs \in [SeqId -> EngineSeq]
      BY <1>1, <2>1, RunningNeeds
  <2>4. QED
      BY <1>3, <2>2, <2>3
<1>8. PICK at \in [SeqId -> Nat] : Placed(at)
    BY DEF Room
<1>9. InOrder(at, running', seqs')
    BY <1>6, <1>7, <1>8 DEF Placed, InOrder
<1>10. Placed(at)'
    BY <1>3, <1>4, <1>6, <1>7, <1>8, <1>9 DEF Placed, Spent
<1>11. Limits'
  <2>1. Len(running') <= MaxNumSeqs
      BY <1>5, <1>6, BudgetAssumption DEF Limits
  <2>2. QED
      BY <1>3, <1>4, <2>1 DEF Limits
<1>12. QED
    BY <1>10, <1>11 DEF Room

\* An admitted sequence has the tokens to compute that schedule() counted.
LEMMA AdmittedLast ==
    ASSUME EngineInv, EngineInv', NEW s \in SeqId, Admit(s)
    PROVE  /\ phase = "waiting" /\ phase' = "waiting"
           /\ Len(scheduled) < MaxNumSeqs
           /\ NumUncached(s) \in Nat \ {0} /\ NumUncached(s) <= budget
           /\ NumTokensToCompute(seqs'[s]) = NumUncached(s)
           /\ budget' = budget - NumUncached(s)
           /\ s \notin ToSet(running)
           /\ Len(running') = Len(running) + 1 /\ running'[Len(running) + 1] = s
           /\ \A i \in DOMAIN running : /\ i \in DOMAIN running' /\ running'[i] = running[i]
                                        /\ seqs'[running[i]] = seqs[running[i]]
           /\ Len(scheduled') = Len(scheduled) + 1
           /\ scheduled'[Len(scheduled) + 1].seq_id = s
           /\ \A i \in DOMAIN scheduled : scheduled'[i] = scheduled[i]
<1> PICK n : n = NumUncached(s)
    OBVIOUS
<1>1. /\ HandlesWaiting(s) /\ budget >= n
      /\ waiting' = Tail(waiting) /\ running' = Append(running, s)
      /\ budget' = budget - n /\ phase' = phase
    BY DEF Admit, Admissible
<1>2. PICK e : e = Scheduled(s, kv', seqs'[s], n) /\ scheduled' = Append(scheduled, e)
    BY DEF Admit
<1>3. e.seq_id = s /\ e.num_tokens = n
    BY <1>2 DEF Scheduled
<1>4. /\ running \in Seq(SeqId) /\ scheduled \in Seq(Entry) /\ budget \in Nat
      /\ seqs \in [SeqId -> EngineSeq]
    BY RunningNeeds
<1>5. phase = "waiting" /\ s = Head(waiting) /\ waiting # << >> /\ Len(scheduled) < MaxNumSeqs
    BY <1>1 DEF HandlesWaiting
<1>6. /\ Len(scheduled') = Len(scheduled) + 1
      /\ scheduled'[Len(scheduled) + 1] = e
      /\ \A i \in DOMAIN scheduled : scheduled'[i] = scheduled[i]
      /\ e \in ToSet(scheduled')
  <2>1. scheduled' \in Seq(Entry)
      BY DEF EngineInv, Types
  <2>2. /\ Len(scheduled') = Len(scheduled) + 1
        /\ scheduled'[Len(scheduled) + 1] = e
        /\ \A i \in DOMAIN scheduled : scheduled'[i] = scheduled[i]
      BY <1>2, <1>4
  <2>3. Len(scheduled) + 1 \in DOMAIN scheduled'
      BY <1>4, <2>1, <2>2
  <2>4. QED
      BY <2>2, <2>3 DEF ToSet
<1>7. Live(e)'
    BY <1>1, <1>5, <1>6 DEF EngineInv, LiveSchedule
<1>8. e.num_tokens = NumTokensToCompute(seqs'[s]) /\ s \in ToSet(running')
    BY <1>3, <1>7 DEF Live, Scheduled
<1>9. (\A x \in ToSet(running) : NumTokensToCompute(seqs[x]) \in Nat \ {0})'
    BY RunningNeed, PTL
<1>10. n \in Nat \ {0} /\ n = NumTokensToCompute(seqs'[s])
    BY <1>3, <1>8, <1>9
<1>11. s \notin ToSet(running)
  <2>1. waiting \in Seq(SeqId)
      BY DEF EngineInv, Types, TypeOK
  <2>2. s \in ToSet(waiting)
      BY <1>5, <2>1 DEF ToSet
  <2>3. QED
      BY <2>2 DEF EngineInv, Queues
<1>12. \A x \in SeqId : x # s => seqs'[x] = seqs[x]
    BY <1>4 DEF Admit
<1>13. /\ Len(running') = Len(running) + 1 /\ running'[Len(running) + 1] = s
       /\ \A i \in DOMAIN running : i \in DOMAIN running' /\ running'[i] = running[i]
    BY <1>1, <1>4
<1>14. \A i \in DOMAIN running : seqs'[running[i]] = seqs[running[i]]
    BY <1>4, <1>11, <1>12 DEF ToSet
<1>15. QED
    BY <1>1, <1>3, <1>5, <1>6, <1>10, <1>11, <1>13, <1>14

LEMMA AdmitRoom ==
    ASSUME EngineInv, EngineInv', Room, Limits, NEW s \in SeqId, Admit(s)
    PROVE  Room' /\ Limits'
<1> DEFINE len == Len(running)
           N(i) == NumTokensToCompute(seqs[running[i]])
<1> PICK n : n = NumUncached(s)
    OBVIOUS
<1>1. /\ phase = "waiting" /\ phase' = "waiting"
      /\ Len(scheduled) < MaxNumSeqs
      /\ n \in Nat \ {0} /\ n <= budget
      /\ NumTokensToCompute(seqs'[s]) = n
      /\ budget' = budget - n
      /\ s \notin ToSet(running)
      /\ Len(running') = len + 1 /\ running'[len + 1] = s
      /\ \A i \in DOMAIN running : /\ i \in DOMAIN running' /\ running'[i] = running[i]
                                   /\ seqs'[running[i]] = seqs[running[i]]
      /\ Len(scheduled') = Len(scheduled) + 1
      /\ scheduled'[Len(scheduled) + 1].seq_id = s
      /\ \A i \in DOMAIN scheduled : scheduled'[i] = scheduled[i]
    BY AdmittedLast
<1>2. /\ running \in Seq(SeqId) /\ MaxNumBatchedTokens \in Nat /\ budget \in Nat
      /\ DOMAIN running = 1 .. len /\ len \in Nat
      /\ \A i \in 1 .. len : running[i] \in SeqId \ {s} /\ N(i) \in Nat
      /\ scheduled \in Seq(Entry)
  <2>1. /\ running \in Seq(SeqId) /\ MaxNumBatchedTokens \in Nat /\ budget \in Nat
        /\ scheduled \in Seq(Entry)
      BY RunningNeeds
  <2>2. \A i \in DOMAIN running : running[i] \in SeqId \ {s} /\ N(i) \in Nat
      BY <1>1, RunningNeeds
  <2>3. QED
      BY <2>1, <2>2
<1>3. PICK at \in [SeqId -> Nat] : Placed(at)
    BY DEF Room
<1>4. Spent \in Nat
    BY <1>2 DEF Spent, Limits
<1>5. PICK at2 \in [SeqId -> Nat] : at2 = [at EXCEPT ![s] = Spent]
    BY <1>4
<1>6. /\ at2[s] = Spent
      /\ \A i \in 1 .. len : at2[running[i]] = at[running[i]] /\ at[running[i]] \in Nat
    BY <1>2, <1>4, <1>5
<1>7. /\ \A i, j \in 1 .. len : i < j => at[running[i]] + N(i) <= at[running[j]]
      /\ \A i \in 1 .. len : at[running[i]] + N(i) <= Spent
    BY <1>1, <1>2, <1>3 DEF Placed, InOrder
<1>8. /\ Spent' = Spent + n /\ Spent + n <= MaxNumBatchedTokens
    BY <1>1, <1>2 DEF Spent
<1>9. DOMAIN running' = 1 .. len + 1
  <2>1. running' \in Seq(SeqId)
      BY DEF EngineInv, Types, TypeOK
  <2>2. QED
      BY <1>1, <2>1
<1>10. /\ \A i \in 1 .. len : /\ at2[running'[i]] = at[running[i]]
                              /\ NumTokensToCompute(seqs'[running'[i]]) = N(i)
       /\ at2[running'[len + 1]] = Spent
       /\ NumTokensToCompute(seqs'[running'[len + 1]]) = n
    BY <1>1, <1>2, <1>6
<1>11. InOrder(at2, running', seqs')
  <2> PICK spent \in Nat : spent = Spent
      BY <1>4
  <2>1. ASSUME NEW i \in DOMAIN running', NEW j \in DOMAIN running', i < j
        PROVE  at2[running'[i]] + NumTokensToCompute(seqs'[running'[i]]) <= at2[running'[j]]
    <3>1. i \in 1 .. len /\ (j \in 1 .. len \/ j = len + 1)
        BY <1>2, <1>9, <2>1
    <3>2. QED
        BY <1>7, <1>10, <2>1, <3>1
  <2>2. ASSUME NEW i \in DOMAIN running'
        PROVE  at2[running'[i]] + NumTokensToCompute(seqs'[running'[i]]) <= MaxNumBatchedTokens
    <3>1. i \in 1 .. len \/ i = len + 1
        BY <1>2, <1>9
    <3>2. CASE i = len + 1
        BY <1>8, <1>10, <3>2
    <3>3. CASE i \in 1 .. len
      <4>1. at[running[i]] + N(i) <= spent /\ at[running[i]] + N(i) \in Nat
          BY <1>2, <1>6, <1>7, <3>3
      <4>2. spent <= MaxNumBatchedTokens
          BY <1>1, <1>2, <1>8
      <4>3. at2[running'[i]] + NumTokensToCompute(seqs'[running'[i]])
                = at[running[i]] + N(i)
          BY <1>10, <3>3
      <4> HIDE DEF N
      <4>4. QED
          BY <1>2, <4>1, <4>2, <4>3
    <3>4. QED
        BY <3>1, <3>2, <3>3
  <2>3. QED
      BY <2>1, <2>2 DEF InOrder
<1>12. ASSUME NEW i \in DOMAIN running'
       PROVE  at2[running'[i]] + NumTokensToCompute(seqs'[running'[i]]) <= Spent'
  <2>1. i \in 1 .. len \/ i = len + 1
      BY <1>2, <1>9
  <2>2. CASE i = len + 1
      BY <1>1, <1>4, <1>8, <1>10, <2>2
  <2>3. CASE i \in 1 .. len
    <3>1. at[running[i]] + N(i) <= Spent /\ at[running[i]] + N(i) \in Nat
        BY <1>2, <1>6, <1>7, <2>3
    <3>2. QED
        BY <1>1, <1>4, <1>8, <1>10, <2>3, <3>1, SMTT(30)
  <2>4. QED
      BY <2>1, <2>2, <2>3
<1>13. Placed(at2)'
    BY <1>1, <1>11, <1>12 DEF Placed
<1>14. Limits'
  <2>1. AllScheduled
      BY <1>1 DEF Limits
  <2>2. AllScheduled'
    <3>1. Len(scheduled') = Len(running')
        BY <1>1, <2>1 DEF AllScheduled
    <3>2. \A i \in DOMAIN scheduled : i \in DOMAIN running /\ scheduled[i].seq_id = running[i]
        BY <1>2, <2>1 DEF AllScheduled
    <3>3. \A i \in DOMAIN scheduled' : i \in DOMAIN scheduled \/ i = Len(scheduled) + 1
      <4>1. scheduled' \in Seq(Entry)
          BY DEF EngineInv, Types
      <4>2. QED
          BY <1>1, <1>2, <4>1
    <3>4. QED
        BY <1>1, <2>1, <3>1, <3>2, <3>3 DEF AllScheduled
  <2>3. Len(running') <= MaxNumSeqs
      BY <1>1, <1>2, <2>1, BudgetAssumption DEF AllScheduled
  <2>4. budget' <= MaxNumBatchedTokens
      BY <1>1, <1>2 DEF Limits
  <2>5. QED
      BY <2>2, <2>3, <2>4 DEF Limits
<1>15. QED
    BY <1>13, <1>14 DEF Room

LEMMA SkipPreemptedRoom ==
    ASSUME EngineInv, Room, Limits, SkipPreempted
    PROVE  Room' /\ Limits'
<1>1. UNCHANGED <<running, budget, scheduled, phase, seqs>>
    BY DEF SkipPreempted, queueVars
<1>2. QED
    BY <1>1, RunningUntouched

LEMMA RejectWaitingRoom ==
    ASSUME EngineInv, Room, Limits, NEW s \in SeqId, RejectWaiting(s)
    PROVE  Room' /\ Limits'
<1>1. /\ waiting # << >> /\ s = Head(waiting)
      /\ seqs' = [seqs EXCEPT ![s] = Finished(seqs[s], "LENGTH")]
      /\ running' = Delete(running, {s})
      /\ UNCHANGED <<budget, scheduled, phase>>
    BY DEF RejectWaiting, HandlesWaiting, Finish, FreeSeq, stepVars
<1>2. waiting \in Seq(SeqId) /\ running \in Seq(SeqId) /\ seqs \in [SeqId -> EngineSeq]
    BY DEF EngineInv, Types, TypeOK, EngineSeq
<1>3. s \in ToSet(waiting)
    BY <1>1, <1>2 DEF ToSet
<1>4. s \notin ToSet(running)
    BY <1>3 DEF EngineInv, Queues
<1>5. running' = running
    BY <1>1, <1>2, <1>4, DeleteProperties
<1>6. \A x \in ToSet(running) : x \in SeqId
    BY <1>2 DEF ToSet
<1>7. \A x \in ToSet(running) : seqs'[x] = seqs[x]
    BY <1>1, <1>2, <1>4, <1>6
<1>8. QED
    BY <1>1, <1>5, <1>7, RunningUntouched

LEMMA PreemptOtherRoom ==
    ASSUME EngineInv, Room, Limits, NEW s \in SeqId, PreemptOther(s) \/ PreemptSelf(s)
    PROVE  Room' /\ Limits'
<1>1. CASE PreemptOther(s)
  <2>1. HandlesRunning(s) /\ Preempt(Victim(s)) /\ todo' = todo
      BY <1>1 DEF PreemptOther
  <2>2. todo' \in Seq(SeqId)
      BY <2>1 DEF EngineInv, Types, TypeOK
  <2>3. QED
      BY <2>1, <2>2, PreemptRoom
<1>2. CASE PreemptSelf(s)
  <2>1. HandlesRunning(s) /\ Victim(s) = s /\ Preempt(s) /\ todo' = Tail(todo)
        /\ todo # << >>
      BY <1>2 DEF PreemptSelf, HandlesRunning
  <2>2. todo \in Seq(SeqId)
      BY DEF EngineInv, Types, TypeOK
  <2>3. todo' \in Seq(SeqId)
      BY <2>1, <2>2
  <2>4. Preempt(Victim(s))
      BY <2>1
  <2>5. QED
      BY <2>1, <2>3, <2>4, PreemptRoom
<1>3. QED
    BY <1>1, <1>2

\* A sequence that ran to its last token has one token to compute, the next one.
LEMMA UpdateSeqRoom ==
    ASSUME EngineInv, EngineInv', Room, Limits, NEW s \in SeqId, UpdateSeq(s)
    PROVE  Room' /\ Limits'
<1> DEFINE token == sampled[s]
           n == (CHOOSE e \in ToSet(scheduled) : e.seq_id = s).num_tokens
           seq == [seqs[s] EXCEPT !.num_computed_tokens = @ + n]
           grown == [seq EXCEPT !.token_ids = Append(@, token)]
<1>1. /\ phase = "update" /\ phase' = phase /\ budget' = budget
      /\ todo # << >> /\ s = Head(todo)
      /\ \/ Finish(s, seq, "STOP") \/ Finish(s, grown, "LENGTH")
         \/ seqs' = [seqs EXCEPT ![s] = grown] /\ running' = running
    BY DEF UpdateSeq, queueVars
<1>2. /\ s \in ToSet(running) /\ token \in Token
      /\ n = NumTokensToCompute(seqs[s])
    BY <1>1, UpdatedEntry
<1> HIDE DEF n, token, seq, grown
<1>3. /\ seqs \in [SeqId -> EngineSeq] /\ running \in Seq(SeqId)
      /\ seqs[s].token_ids \in Seq(Token) /\ Len(seqs[s].token_ids) \in Nat
      /\ seqs[s].num_computed_tokens \in Nat
  <2>1. seqs \in [SeqId -> EngineSeq] /\ running \in Seq(SeqId)
      BY RunningNeeds
  <2>2. seqs[s] \in EngineSeq
      BY <2>1
  <2>3. seqs[s].token_ids \in Seq(Token) /\ seqs[s].num_computed_tokens \in Nat
      BY <2>2 DEF EngineSeq
  <2>4. QED
      BY <2>1, <2>3
<1>4. /\ grown.token_ids = Append(seqs[s].token_ids, token)
      /\ grown.num_computed_tokens = Len(seqs[s].token_ids)
  <2>1. seqs[s].num_computed_tokens + n = Len(seqs[s].token_ids)
      BY <1>2, <1>3 DEF NumTokensToCompute
  <2>2. seqs[s] \in EngineSeq
      BY <1>3
  <2>3. QED
      BY <2>1, <2>2 DEF EngineSeq, seq, grown
<1>5. NumTokensToCompute(grown) = 1
    BY <1>2, <1>3, <1>4 DEF NumTokensToCompute
<1>6. CASE Finish(s, seq, "STOP") \/ Finish(s, grown, "LENGTH")
    BY <1>1, <1>6, FinishRoom
<1>7. CASE seqs' = [seqs EXCEPT ![s] = grown] /\ running' = running
  <2>1. NumTokensToCompute(seqs'[s]) = 1
      BY <1>3, <1>5, <1>7
  <2>2. \A x \in SeqId : x # s => seqs'[x] = seqs[x]
      BY <1>3, <1>7
  <2>3. \A x \in ToSet(running) : x \in SeqId /\ NumTokensToCompute(seqs[x]) \in Nat \ {0}
      BY RunningNeeds
  <2>4. \A x \in ToSet(running') :
            NumTokensToCompute(seqs'[x]) <= NumTokensToCompute(seqs[x])
    <3> TAKE x \in ToSet(running')
    <3>1. x \in SeqId /\ NumTokensToCompute(seqs[x]) \in Nat \ {0}
        BY <1>7, <2>3
    <3>2. CASE x = s
        BY <2>1, <3>1, <3>2
    <3>3. CASE x # s
        BY <2>2, <3>1, <3>3
    <3>4. QED
        BY <3>2, <3>3
  <2>5. Len(running') <= Len(running)
    <3>1. Len(running) \in Nat
        BY <1>3
    <3>2. QED
        BY <1>7, <3>1
  <2>6. QED
      BY <1>1, <1>7, <2>4, <2>5, OutsideTheLoops
<1>8. QED
    BY <1>1, <1>6, <1>7

LEMMA BetweenStepsRoom ==
    ASSUME EngineInv, EngineInv', Room, Limits, NEW s \in SeqId,
           AddRequest(s) \/ AbortRequest(s)
    PROVE  Room' /\ Limits'
<1>1. /\ phase = "idle" /\ phase' = phase /\ budget' = budget
    BY DEF AddRequest, AbortRequest, stepVars
<1>2. CASE Finish(s, seqs[s], "LENGTH") \/ Finish(s, seqs[s], "ABORT")
    BY <1>1, <1>2, FinishRoom
<1>3. CASE /\ seqs[s].status = "NEW"
           /\ seqs' = [seqs EXCEPT ![s].status = "WAITING"] /\ running' = running
  <2>1. s \notin ToSet(running)
      BY <1>3 DEF EngineInv, Queues
  <2>2. seqs \in [SeqId -> EngineSeq] /\ \A x \in ToSet(running) : x \in SeqId
      BY RunningNeeds
  <2>3. \A x \in ToSet(running) : seqs'[x] = seqs[x]
      BY <1>3, <2>1, <2>2
  <2>4. QED
      BY <1>1, <1>3, <2>3, RunningAlone
<1>4. QED
    BY <1>2, <1>3 DEF AddRequest, AbortRequest

\* The steps that touch no sequence and no queue of the scheduler.
LEMMA QuietRoom ==
    ASSUME EngineInv, EngineInv', Room, Limits,
           \/ StopAdmitting \/ NothingToExecute \/ ExecuteModel \/ ExecuteRaises
           \/ UpdateDone \/ Outputs
    PROVE  Room' /\ Limits'
<1>1. UNCHANGED <<seqs, running>> /\ budget' \in {budget, 0}
    BY DEF StopAdmitting, NothingToExecute, ExecuteModel, ExecuteRaises, UpdateDone,
           Outputs, queueVars
<1>2. phase' \notin {"running", "waiting"}
    BY DEF StopAdmitting, NothingToExecute, ExecuteModel, ExecuteRaises, UpdateDone,
           Outputs
<1>3. ASSUME phase' = "execute" PROVE AllScheduled'
  <2>1. /\ phase = "waiting" /\ UNCHANGED <<running, scheduled>>
      BY <1>3 DEF StopAdmitting, NothingToExecute, ExecuteModel, ExecuteRaises,
                  UpdateDone, Outputs, queueVars
  <2>2. QED
      BY <2>1 DEF Limits, AllScheduled
<1>4. QED
    BY <1>1, <1>2, <1>3, RunningAlone

LEMMA ResetRoom ==
    ASSUME EngineInv, EngineInv', Room, Limits, Reset
    PROVE  Room' /\ Limits'
<1>1. /\ phase = "idle" /\ phase' = phase /\ budget' = budget
      /\ running' = << >>
    BY DEF Reset, stepVars
<1>2. Len(running) \in Nat /\ ToSet(running') = {} /\ Len(running') = 0
    BY <1>1, RunningNeeds DEF ToSet
<1>3. DOMAIN running' = {}
    BY <1>1
<1>4. QED
    BY <1>1, <1>2, <1>3, OutsideTheLoops

LEMMA NextRoom ==
    ASSUME EngineInv, [Next]_vars, Room, Limits
    PROVE  Room' /\ Limits'
<1>1. EngineInv'
    BY NextInv
<1>2. CASE BeginStep
    BY <1>1, <1>2, BeginStepRoom
<1>3. CASE SkipPreempted
    BY <1>3, SkipPreemptedRoom
<1>4. CASE RequeuePreempted
    BY <1>4, RequeuePreemptedRoom
<1>5. ASSUME NEW s \in SeqId, ScheduleRunning(s)
      PROVE  Room' /\ Limits'
    BY <1>5, ScheduleRunningRoom
<1>6. ASSUME NEW s \in SeqId, PreemptOther(s) \/ PreemptSelf(s)
      PROVE  Room' /\ Limits'
    BY <1>6, PreemptOtherRoom
<1>7. ASSUME NEW s \in SeqId, RejectWaiting(s)
      PROVE  Room' /\ Limits'
    BY <1>7, RejectWaitingRoom
<1>8. ASSUME NEW s \in SeqId, Admit(s)
      PROVE  Room' /\ Limits'
    BY <1>1, <1>8, AdmitRoom
<1>9. ASSUME NEW s \in SeqId, UpdateSeq(s)
      PROVE  Room' /\ Limits'
    BY <1>1, <1>9, UpdateSeqRoom
<1>10. ASSUME NEW s \in SeqId, AddRequest(s) \/ AbortRequest(s)
       PROVE  Room' /\ Limits'
    BY <1>1, <1>10, BetweenStepsRoom
<1>11. CASE \/ StopAdmitting \/ NothingToExecute \/ ExecuteModel \/ ExecuteRaises
            \/ UpdateDone \/ Outputs
    BY <1>1, <1>11, QuietRoom
<1>12. CASE Reset
    BY <1>1, <1>12, ResetRoom
<1>13. CASE UNCHANGED vars
  <2>1. UNCHANGED <<running, budget, scheduled, phase, seqs>>
      BY <1>13 DEF vars, stepVars, queueVars
  <2>2. QED
      BY <2>1, RunningUntouched
<1>14. QED
    BY <1>2, <1>3, <1>4, <1>5, <1>6, <1>7, <1>8, <1>9, <1>10, <1>11, <1>12, <1>13
       DEF Next, RestOfStep, Schedule

LEMMA RoomInvariant == Spec => [](Room /\ Limits)
<1>1. Init => Room /\ Limits
  <2>1. SUFFICES ASSUME Init PROVE Room /\ Limits
      OBVIOUS
  <2>2. running = << >> /\ phase = "idle" /\ budget = 0
      BY <2>1 DEF Init
  <2> PICK at \in [SeqId -> Nat] : at = [s \in SeqId |-> 0]
      OBVIOUS
  <2>3. Placed(at)
      BY <2>2 DEF Placed, InOrder
  <2>4. QED
      BY <2>2, <2>3, BudgetAssumption DEF Room, Limits
<1>2. EngineInv /\ (Room /\ Limits) /\ [Next]_vars => (Room /\ Limits)'
    BY NextRoom
<1>3. QED
    BY <1>1, <1>2, EngineInvariant, PTL DEF Spec

\* Every forward pass runs every running sequence: the step's budget has room for
\* all of them, and the admissions of a step never take a place from one.
THEOREM NobodyIsLeftOut == Spec => []EveryRunningIsScheduled
<1>1. EngineInv /\ Limits => EveryRunningIsScheduled
  <2>1. SUFFICES ASSUME EngineInv, Limits, phase = "execute"
                 PROVE  ToSet(running) = ScheduledIds
      BY DEF EveryRunningIsScheduled
  <2>2. AllScheduled
      BY <2>1 DEF Limits
  <2>3. running \in Seq(SeqId) /\ scheduled \in Seq(Entry)
      BY <2>1, RunningNeeds
  <2>4. DOMAIN running = DOMAIN scheduled
      BY <2>2, <2>3 DEF AllScheduled
  <2>5. QED
      BY <2>2, <2>4 DEF AllScheduled, ScheduledIds, ToSet
<1>2. QED
    BY <1>1, RoomInvariant, EngineInvariant, PTL

-----------------------------------------------------------------------------
(* A step always has something to do.                                      *)

\* A step has a reason to run; until something is scheduled its whole budget is
\* left, so that a queue whose head is refused means a batch that is not empty.
Busy ==
    /\ phase # "stalled"
    /\ phase \in {"running", "waiting"} =>
          /\ \/ waiting # << >> \/ running # << >>
             \/ finished_seqs # << >> \/ preempted_seqs # << >>
          /\ scheduled = << >> => budget = MaxNumBatchedTokens
    /\ phase = "execute" /\ scheduled = << >> =>
          finished_seqs # << >> \/ preempted_seqs # << >>

\* A sequence with the pool to itself is given the blocks of all its tokens.
LEMMA AloneItFits ==
    ASSUME EngineInv, NEW s \in SeqId, ToSet(running) \subseteq {s},
           s \in ToSet(running) \/ seqs[s].num_computed_tokens = 0,
           CeilDiv(Len(seqs[s].token_ids), BlockSize) <= NumBlocks,
           NEW hits, hits = GetComputedBlocks(kv, s, seqs[s])
    PROVE  CanAllocate(kv, s, seqs[s],
                       NumTokensToCompute(seqs[s]) - Len(hits) * BlockSize, hits)
<1> DEFINE seq == Projected(kv, seqs)[s]
           n == NumTokensToCompute(seqs[s]) - Len(hits) * BlockSize
<1>1. seqs \in [SeqId -> EngineSeq]
    BY RunningNeeds
<1>2. /\ seq \in SeqRecord /\ seq.token_ids = seqs[s].token_ids
      /\ seq.num_computed_tokens = IF Holds(kv, s) THEN seqs[s].num_computed_tokens ELSE 0
    BY <1>1, ProjectedTypes
<1> HIDE DEF seq
<1>3. DOMAIN kv.request_blocks = ToSet(running) /\ KVInv(kv)
    BY DEF EngineInv, Queues, Sharing
<1>4. seq.num_computed_tokens = seqs[s].num_computed_tokens
    BY <1>2, <1>3 DEF Holds
<1>5. seqs[s].token_ids # << >>
    BY DEF EngineInv, Tokens
<1>6. GetComputedBlocks(kv, s, seq) = hits
    BY <1>2, <1>4, TwoFields
<1>7. CanAllocate(kv, s, seq, Len(seq.token_ids) - seq.num_computed_tokens
                                  - Len(hits) * BlockSize, hits)
  <2>1. LET h == GetComputedBlocks(kv, s, seq)
            m == Len(seq.token_ids) - seq.num_computed_tokens - Len(h) * BlockSize
        IN  CanAllocate(kv, s, seq, m, h)
      BY <1>2, <1>3, <1>5, LoneFits
  <2>2. QED
      BY <1>6, <2>1
<1>8. CanAllocate(kv, s, seq, n, hits)
    BY <1>2, <1>4, <1>7 DEF NumTokensToCompute
<1>9. QED
    BY <1>2, <1>4, <1>8, TwoFields

\* The head of the queue is not refused when nothing runs.
LEMMA SomeoneIsAdmitted ==
    ASSUME EngineInv, Limits, Busy, StopAdmitting, scheduled = << >>
    PROVE  finished_seqs # << >> \/ preempted_seqs # << >>
<1>1. SUFFICES ASSUME waiting # << >>, running = << >> PROVE FALSE
  <2>1. phase = "waiting"
      BY DEF StopAdmitting
  <2>2. running \in Seq(SeqId) /\ Len(running) = 0
      BY <2>1, RunningNeeds DEF Limits, AllScheduled
  <2>3. running = << >>
      BY <2>2
  <2>4. QED
      BY <2>1, <2>3 DEF Busy
<1>2. /\ phase = "waiting" /\ waiting \in Seq(SeqId) /\ budget = MaxNumBatchedTokens
      /\ ToSet(running) = {}
    BY <1>1 DEF StopAdmitting, Busy, EngineInv, Types, TypeOK, ToSet
<1> PICK s \in SeqId : s = Head(waiting)
    BY <1>1, <1>2
<1>3. s \in ToSet(waiting)
    BY <1>1, <1>2 DEF ToSet
<1>4. HandlesWaiting(s)
    BY <1>1, <1>2, BudgetAssumption DEF HandlesWaiting
<1>5. ~NeverFits(s, seqs[s]) /\ ~Admissible(s)
    BY <1>4 DEF StopAdmitting
<1>6. /\ seqs[s].token_ids \in Seq(Token) /\ Len(seqs[s].token_ids) \in Nat
      /\ seqs[s].num_computed_tokens = 0
  <2>1. seqs[s].status = "WAITING"
      BY <1>3 DEF EngineInv, Queues
  <2>2. seqs[s].num_computed_tokens = 0
      BY <2>1 DEF EngineInv, Tokens
  <2>3. seqs[s] \in EngineSeq
      BY RunningNeeds
  <2>4. QED
      BY <2>2, <2>3 DEF EngineSeq
<1>7. CeilDiv(Len(seqs[s].token_ids), BlockSize) <= NumBlocks
  <2> DEFINE target == CeilDiv(seqs[s].num_computed_tokens + Len(<< >>) * BlockSize
                                   + NumTokensToCompute(seqs[s]), BlockSize)
  <2>1. BlockTable(kv, s) = << >>
      BY <1>2 DEF EngineInv, Queues, BlockTable, Holds
  <2>2. /\ Len(<< >>) * BlockSize = 0
        /\ seqs[s].num_computed_tokens + 0 + NumTokensToCompute(seqs[s])
               = Len(seqs[s].token_ids)
      BY <1>6, BlockSizeAssumption DEF NumTokensToCompute
  <2>3. target = CeilDiv(Len(seqs[s].token_ids), BlockSize)
      BY <2>2
  <2>4. target \in Int
    <3>1. CeilDiv(Len(seqs[s].token_ids), BlockSize) \in Int
        BY <1>6, BlockSizeAssumption DEF CeilDiv
    <3>2. QED
        BY <2>3, <3>1
  <2> HIDE DEF target
  <2>5. Len(BlockTable(kv, s)) + Len(<< >>) = 0 /\ target - 0 = target
      BY <2>1, <2>4
  <2>6. NumBlocksNeeded(kv, s, seqs[s], NumTokensToCompute(seqs[s]), << >>)
            = IF target > 0 THEN target ELSE 0
      BY <2>5 DEF NumBlocksNeeded, target
  <2>7. ~((IF target > 0 THEN target ELSE 0) > NumBlocks)
      BY <1>5, <2>6 DEF NeverFits
  <2>8. QED
      BY <2>3, <2>4, <2>7, NumBlocksAssumption
<1> PICK hits : hits = GetComputedBlocks(kv, s, seqs[s])
    OBVIOUS
<1>8. Len(hits) * BlockSize \in Nat
  <2> PICK seq : seq = Projected(kv, seqs)[s]
      OBVIOUS
  <2>1. seqs \in [SeqId -> EngineSeq]
      BY RunningNeeds
  <2>2. /\ seq \in SeqRecord /\ seq.token_ids = seqs[s].token_ids
        /\ seq.num_computed_tokens = seqs[s].num_computed_tokens
      BY <1>6, <2>1, ProjectedTypes
  <2>3. /\ hits = GetComputedBlocks(kv, s, seq)
        /\ CanAllocate(kv, s, seq, 0, hits) = CanAllocate(kv, s, seqs[s], 0, hits)
      BY <2>2, TwoFields
  <2>4. KVInv(kv) /\ seq.token_ids # << >>
      BY <2>2 DEF EngineInv, Sharing, Tokens
  <2>5. QED
      BY <2>2, <2>3, <2>4, HitsProperties
<1>9. budget >= NumUncached(s)
  <2>1. ~(NumTokensToCompute(seqs[s]) > MaxNumBatchedTokens)
      BY <1>5 DEF NeverFits
  <2>2. NumTokensToCompute(seqs[s]) \in Int
      BY RunningNeeds
  <2>3. NumUncached(s) = NumTokensToCompute(seqs[s]) - Len(hits) * BlockSize
      BY DEF NumUncached
  <2>4. QED
      BY <1>2, <1>8, <2>1, <2>2, <2>3, BudgetAssumption
<1>10. CanAllocate(kv, s, seqs[s], NumUncached(s), GetComputedBlocks(kv, s, seqs[s]))
    BY <1>2, <1>6, <1>7, AloneItFits DEF NumUncached
<1>11. QED
    BY <1>5, <1>9, <1>10 DEF Admissible

LEMMA NextBusy ==
    ASSUME EngineInv, [Next]_vars, Limits, Busy
    PROVE  Busy'
<1>1. EngineInv'
    BY NextInv
<1>2. CASE BeginStep
  <2>1. /\ phase = "idle" /\ phase' \in {"running", "outputs"}
        /\ budget' = MaxNumBatchedTokens
        /\ UNCHANGED <<waiting, running, finished_seqs, preempted_seqs, scheduled>>
      BY <1>2 DEF BeginStep, queueVars
  <2>2. phase' = "running" => waiting # << >> \/ running # << >>
      BY <1>2 DEF BeginStep, HasUnfinished
  <2>3. QED
      BY <2>1, <2>2 DEF Busy
<1>3. CASE SkipPreempted
    BY <1>3 DEF Busy, SkipPreempted, queueVars
<1>4. CASE RequeuePreempted
    BY <1>4 DEF Busy, RequeuePreempted
<1>5. ASSUME NEW s \in SeqId, ScheduleRunning(s)
      PROVE  Busy'
  <2>1. /\ phase = "running" /\ UNCHANGED <<phase, running>>
        /\ \E e : scheduled' = Append(scheduled, e)
      BY <1>5 DEF ScheduleRunning, HandlesRunning, queueVars
  <2>2. running # << >>
      BY <1>5, VictimIsLast DEF ScheduleRunning
  <2>3. scheduled' # << >>
    <3>1. scheduled \in Seq(Entry)
        BY RunningNeeds
    <3>2. QED
        BY <2>1, <3>1
  <2>4. QED
      BY <2>1, <2>2, <2>3 DEF Busy
<1>6. ASSUME NEW s \in SeqId, PreemptOther(s) \/ PreemptSelf(s)
      PROVE  Busy'
  <2>1. PICK v : Preempt(v) /\ phase = "running"
      BY <1>6 DEF PreemptOther, PreemptSelf, HandlesRunning
  <2>2. preempted_seqs' # << >>
    <3>1. preempted_seqs \in Seq(SeqId)
        BY DEF EngineInv, Types, TypeOK
    <3>2. QED
        BY <2>1, <3>1 DEF Preempt
  <2>3. QED
      BY <2>1, <2>2 DEF Preempt, Busy
<1>7. ASSUME NEW s \in SeqId, RejectWaiting(s)
      PROVE  Busy'
  <2>1. /\ phase = "waiting" /\ UNCHANGED <<phase, budget, scheduled>>
        /\ finished_seqs' = Append(finished_seqs, s)
      BY <1>7 DEF RejectWaiting, HandlesWaiting, Finish, stepVars
  <2>2. finished_seqs' # << >>
    <3>1. finished_seqs \in Seq(SeqId)
        BY DEF EngineInv, Types, TypeOK
    <3>2. QED
        BY <2>1, <3>1
  <2>3. QED
      BY <2>1, <2>2 DEF Busy
<1>8. ASSUME NEW s \in SeqId, Admit(s)
      PROVE  Busy'
  <2>1. /\ phase = "waiting" /\ phase' = phase
        /\ Len(scheduled') = Len(scheduled) + 1 /\ Len(running') = Len(running) + 1
      BY <1>1, <1>8, AdmittedLast
  <2>2. Len(scheduled) \in Nat /\ Len(running) \in Nat
      BY RunningNeeds
  <2>3. scheduled' # << >> /\ running' # << >>
      BY <2>1, <2>2
  <2>4. QED
      BY <2>1, <2>3 DEF Busy
<1>9. CASE StopAdmitting
  <2>1. /\ phase' = "execute"
        /\ UNCHANGED <<finished_seqs, preempted_seqs, scheduled>>
      BY <1>9 DEF StopAdmitting, queueVars
  <2>2. QED
      BY <1>9, <2>1, SomeoneIsAdmitted DEF Busy
<1>10. CASE NothingToExecute
    BY <1>10 DEF Busy, NothingToExecute
<1>11. CASE ExecuteModel \/ ExecuteRaises \/ UpdateDone \/ Outputs
    BY <1>11 DEF Busy, ExecuteModel, ExecuteRaises, UpdateDone, Outputs
<1>12. ASSUME NEW s \in SeqId, UpdateSeq(s) \/ AddRequest(s) \/ AbortRequest(s)
       PROVE  Busy'
  <2>1. phase \in {"idle", "update"} /\ phase' = phase
      BY <1>12 DEF UpdateSeq, AddRequest, AbortRequest, stepVars
  <2>2. QED
      BY <2>1 DEF Busy
<1>13. CASE Reset
    BY <1>13 DEF Busy, Reset, stepVars
<1>14. CASE UNCHANGED vars
    BY <1>14 DEF Busy, vars, stepVars, queueVars
<1>15. QED
    BY <1>2, <1>3, <1>4, <1>5, <1>6, <1>7, <1>8, <1>9, <1>10, <1>11, <1>12, <1>13,
       <1>14 DEF Next, RestOfStep, Schedule

LEMMA BusyInvariant == Spec => []Busy
<1>1. Init => Busy
    BY DEF Init, Busy
<1>2. EngineInv /\ Limits /\ Busy /\ [Next]_vars => Busy'
    BY NextBusy
<1>3. QED
    BY <1>1, <1>2, EngineInvariant, RoomInvariant, PTL DEF Spec

\* step() never raises "Engine stalled": with work in the queues, a step runs a
\* sequence, preempts one or ends one.
THEOREM EngineNeverStalls == Spec => []NeverStalls
<1>1. Busy => NeverStalls
    BY DEF Busy, NeverStalls
<1>2. QED
    BY <1>1, BusyInvariant, PTL

-----------------------------------------------------------------------------
(* Preemption.                                                             *)

\* v is preempted as often as before, and is new only if it was.
RankKept(v) ==
    /\ seqs'[v].num_preemptions = seqs[v].num_preemptions
    /\ seqs'[v].status = "NEW" => seqs[v].status = "NEW"

\* The steps that change no request.
Quiet ==
    \/ BeginStep \/ SkipPreempted \/ RequeuePreempted \/ StopAdmitting
    \/ NothingToExecute \/ ExecuteModel \/ ExecuteRaises \/ UpdateDone \/ UNCHANGED vars
    \/ \E s \in SeqId : ScheduleRunning(s)

LEMMA QuietKeeps ==
    /\ Quiet \/ Outputs \/ Reset => seqs' = seqs
    /\ Quiet => UNCHANGED <<finished_seqs, sequences, delivered>>
BY DEF Quiet, BeginStep, SkipPreempted, RequeuePreempted, StopAdmitting, NothingToExecute,
       ExecuteModel, ExecuteRaises, UpdateDone, Outputs, Reset, vars, queueVars,
       ScheduleRunning

\* The only step that preempts is the running loop's, and it takes the last.
LEMMA OnlyPreempted ==
    ASSUME EngineInv, [Next]_vars, NEW v \in SeqId, ~RankKept(v)
    PROVE  \E s \in SeqId :
               /\ HandlesRunning(s) /\ v = Victim(s) /\ Preempt(v)
               /\ ~CanAllocate(kv, s, seqs[s], NumTokensToCompute(seqs[s]), << >>)
<1> DEFINE Kept == RankKept(v)
<1>1. seqs \in [SeqId -> EngineSeq] /\ seqs[v].num_preemptions \in Nat
    BY RunningNeeds DEF EngineSeq
<1>2. ~Kept
    OBVIOUS
<1>3. CASE seqs' = seqs
    BY <1>2, <1>3 DEF RankKept
<1>4. ASSUME NEW s \in SeqId, NEW q, NEW reason,
             seqs' = [seqs EXCEPT ![s] = Finished(q, reason)],
             q.num_preemptions = seqs[s].num_preemptions, q \in EngineSeq
      PROVE  Kept
  <2>1. /\ Finished(q, reason).num_preemptions = seqs[s].num_preemptions
        /\ Finished(q, reason).status = "DONE"
      BY <1>4 DEF Finished, EngineSeq
  <2>2. QED
      BY <1>1, <1>4, <2>1 DEF RankKept
<1>5. ASSUME NEW s \in SeqId, seqs[s] \in EngineSeq,
             AddRequest(s) \/ AbortRequest(s) \/ RejectWaiting(s)
      PROVE  Kept
  <2>1. CASE \E reason : seqs' = [seqs EXCEPT ![s] = Finished(seqs[s], reason)]
      BY <1>4, <1>5, <2>1
  <2>2. CASE seqs' = [seqs EXCEPT ![s].status = "WAITING"]
      BY <1>1, <1>5, <2>2 DEF EngineSeq, RankKept
  <2>3. QED
      BY <1>5, <2>1, <2>2 DEF AddRequest, AbortRequest, RejectWaiting, Finish
<1>6. ASSUME NEW s \in SeqId, Admit(s)
      PROVE  Kept
  <2> PICK hits : hits = GetComputedBlocks(kv, s, seqs[s])
      OBVIOUS
  <2>1. seqs' = [seqs EXCEPT ![s].num_computed_tokens = @ + Len(hits) * BlockSize,
                             ![s].status = "RUNNING"]
      BY <1>6 DEF Admit
  <2>2. QED
      BY <1>1, <2>1 DEF EngineSeq, RankKept
<1>7. ASSUME NEW s \in SeqId, UpdateSeq(s)
      PROVE  Kept
  <2> PICK n, token : /\ n = (CHOOSE e \in ToSet(scheduled) : e.seq_id = s).num_tokens
                      /\ token = sampled[s]
      OBVIOUS
  <2> DEFINE seq == [seqs[s] EXCEPT !.num_computed_tokens = @ + n]
             grown == [seq EXCEPT !.token_ids = Append(@, token)]
  <2>1. /\ phase = "update" /\ todo # << >> /\ s = Head(todo)
        /\ \/ \E reason : \/ seqs' = [seqs EXCEPT ![s] = Finished(seq, reason)]
                          \/ seqs' = [seqs EXCEPT ![s] = Finished(grown, reason)]
           \/ seqs' = [seqs EXCEPT ![s] = grown]
      BY <1>7 DEF UpdateSeq, Finish
  <2>2. n = NumTokensToCompute(seqs[s]) /\ token \in Token
      BY <2>1, UpdatedEntry
  <2>3. seqs[s] \in EngineSeq /\ seqs[s].num_computed_tokens + n \in Nat
    <3>1. seqs[s] \in EngineSeq
        BY <1>1
    <3>2. Len(seqs[s].token_ids) \in Nat /\ seqs[s].num_computed_tokens \in Nat
        BY <3>1 DEF EngineSeq
    <3>3. QED
        BY <2>2, <3>1, <3>2 DEF NumTokensToCompute
  <2>4. /\ seq \in EngineSeq /\ seq.num_preemptions = seqs[s].num_preemptions
        /\ seq.status = seqs[s].status
      BY <2>3 DEF EngineSeq
  <2> HIDE DEF seq
  <2>5. /\ grown \in EngineSeq /\ grown.num_preemptions = seqs[s].num_preemptions
        /\ grown.status = seqs[s].status
    <3>1. seq.token_ids \in Seq(Token)
        BY <2>4 DEF EngineSeq
    <3>2. Append(seq.token_ids, token) \in Seq(Token)
        BY <2>2, <3>1
    <3>3. QED
        BY <2>4, <3>2 DEF EngineSeq
  <2> HIDE DEF grown
  <2>6. CASE seqs' = [seqs EXCEPT ![s] = grown]
      BY <1>1, <2>5, <2>6 DEF RankKept
  <2>7. QED
      BY <1>4, <2>1, <2>4, <2>5, <2>6
<1>8. ASSUME NEW s \in SeqId, PreemptOther(s) \/ PreemptSelf(s)
      PROVE  \E t \in SeqId :
                 /\ HandlesRunning(t) /\ v = Victim(t) /\ Preempt(v)
                 /\ ~CanAllocate(kv, t, seqs[t], NumTokensToCompute(seqs[t]), << >>)
  <2>1. /\ HandlesRunning(s) /\ Preempt(Victim(s))
        /\ ~CanAllocate(kv, s, seqs[s], NumTokensToCompute(seqs[s]), << >>)
      BY <1>8 DEF PreemptOther, PreemptSelf
  <2>2. seqs' = [seqs EXCEPT ![Victim(s)] = ResetForRecompute(@)]
      BY <2>1 DEF Preempt
  <2>3. v = Victim(s)
      BY <1>1, <1>2, <2>2 DEF RankKept
  <2>4. QED
      BY <2>1, <2>3
<1>9. CASE Quiet \/ Outputs \/ Reset
    BY <1>3, <1>9, QuietKeeps
<1>10. QED
    BY <1>1, <1>2, <1>5, <1>6, <1>7, <1>8, <1>9 DEF Next, RestOfStep, Schedule, Quiet

LEMMA OnlyTheVictim ==
    ASSUME EngineInv, [Next]_vars, NEW v \in SeqId, WasPreempted(v)
    PROVE  \E s \in SeqId :
               /\ HandlesRunning(s) /\ v = Victim(s) /\ Preempt(v)
               /\ ~CanAllocate(kv, s, seqs[s], NumTokensToCompute(seqs[s]), << >>)
<1>1. seqs[v].num_preemptions \in Nat
    BY RunningNeeds DEF EngineSeq
<1>2. ~RankKept(v)
    BY <1>1 DEF WasPreempted, RankKept
<1>3. QED
    BY <1>2, OnlyPreempted

\* The oldest running sequence is preempted only when it runs alone and its
\* tokens have outgrown the whole pool, so that some sequence always advances.
THEOREM OldestAlwaysKeepsRunning == Spec => OldestKeepsRunning
<1> DEFINE OldestKept ==
        \A s \in SeqId : WasPreempted(s) /\ s = Head(running) =>
            /\ Len(running) = 1
            /\ CeilDiv(Len(seqs[s].token_ids), BlockSize) > NumBlocks
<1>1. ASSUME EngineInv, [Next]_vars PROVE OldestKept
  <2>1. SUFFICES ASSUME NEW v \in SeqId, WasPreempted(v), v = Head(running)
                 PROVE  /\ Len(running) = 1
                        /\ CeilDiv(Len(seqs[v].token_ids), BlockSize) > NumBlocks
      OBVIOUS
  <2>2. PICK s \in SeqId :
            /\ HandlesRunning(s) /\ v = Victim(s) /\ Preempt(v)
            /\ ~CanAllocate(kv, s, seqs[s], NumTokensToCompute(seqs[s]), << >>)
      BY <1>1, <2>1, OnlyTheVictim
  <2>3. running # << >> /\ v = running[Len(running)]
      BY <1>1, <2>2, VictimIsLast
  <2>4. running \in Seq(SeqId) /\ IsInjective(running)
      BY <1>1 DEF EngineInv, Types, TypeOK, Queues
  <2>5. v = running[1] /\ 1 \in DOMAIN running /\ Len(running) \in DOMAIN running
      BY <2>1, <2>3, <2>4
  <2>6. Len(running) = 1
      BY <2>3, <2>4, <2>5 DEF IsInjective
  <2>7. ToSet(running) = {v}
      BY <2>4, <2>5, <2>6 DEF ToSet
  <2>8. s = v
      BY <2>2, <2>6 DEF Victim
  <2>9. GetComputedBlocks(kv, v, seqs[v]) = << >>
      BY <1>1, <2>7 DEF EngineInv, Queues, GetComputedBlocks, Holds
  <2>10. NumTokensToCompute(seqs[v]) - Len(<< >>) * BlockSize = NumTokensToCompute(seqs[v])
    <3>1. Len(<< >>) * BlockSize = 0
        BY BlockSizeAssumption
    <3>2. NumTokensToCompute(seqs[v]) \in Int
        BY <1>1, RunningNeeds
    <3>3. QED
        BY <3>1, <3>2
  <2>11. ~(CeilDiv(Len(seqs[v].token_ids), BlockSize) <= NumBlocks)
    <3>1. SUFFICES ASSUME CeilDiv(Len(seqs[v].token_ids), BlockSize) <= NumBlocks
                   PROVE  FALSE
        OBVIOUS
    <3> PICK hits : hits = << >>
        OBVIOUS
    <3>2. hits = GetComputedBlocks(kv, v, seqs[v])
        BY <2>9
    <3>3. CanAllocate(kv, v, seqs[v], NumTokensToCompute(seqs[v]) - Len(hits) * BlockSize,
                      hits)
        BY <1>1, <2>7, <3>1, <3>2, AloneItFits
    <3>4. QED
        BY <2>2, <2>8, <2>10, <3>3
  <2>12. CeilDiv(Len(seqs[v].token_ids), BlockSize) \in Int
    <3>1. seqs[v] \in EngineSeq
        BY <1>1, RunningNeeds
    <3>2. Len(seqs[v].token_ids) \in Nat
        BY <3>1 DEF EngineSeq
    <3>3. QED
        BY <3>2, BlockSizeAssumption DEF CeilDiv
  <2>13. QED
      BY <2>6, <2>11, <2>12, NumBlocksAssumption
<1>2. QED
    BY <1>1, EngineInvariant, PTL DEF Spec, OldestKeepsRunning

\* Each running sequence holds a block that no sequence in front of it holds: the
\* first of its table that it did not hit.
EachHasItsOwn ==
    \A j \in DOMAIN running :
        \E b \in ToSet(BlockTable(kv, running[j])) :
            \A i \in DOMAIN running :
                i < j => b \notin ToSet(BlockTable(kv, running[i]))

\* What AllocationGives says of the blocks taken off the free list.
TakesFree(s, hits, popped) ==
    /\ BlockTable(kv', s) = (BlockTable(kv, s) \o hits) \o popped
    /\ \A b \in ToSet(popped) : \A t : b \notin ToSet(BlockTable(kv, t))
    /\ s \notin ToSet(running) => popped # << >>

\* An allocation for all tokens of s extends its table by the hits and by blocks
\* nobody held, of which an admission takes one at least.
LEMMA AllocationGives ==
    ASSUME EngineInv, NEW s \in SeqId, NEW hits, NEW n,
           hits = GetComputedBlocks(kv, s, seqs[s]),
           n = NumTokensToCompute(seqs[s]) - Len(hits) * BlockSize,
           CanAllocate(kv, s, seqs[s], n, hits),
           kv' = AllocateSlots(kv, s, seqs[s], n, hits),
           s \in ToSet(running) \/ seqs[s].num_computed_tokens = 0
    PROVE  /\ \A t : t # s => BlockTable(kv', t) = BlockTable(kv, t)
           /\ hits \in Seq(Block) /\ BlockTable(kv, s) \in Seq(Block)
           /\ \E popped \in Seq(Block) : TakesFree(s, hits, popped)
           /\ KeysGrow(s, hits)
<1> DEFINE q == Projected(kv, seqs)
           seq == q[s]
<1>1. seqs \in [SeqId -> EngineSeq]
    BY RunningNeeds
<1>2. /\ q \in [SeqId -> SeqRecord] /\ seq.token_ids = seqs[s].token_ids
      /\ seq.num_computed_tokens = IF Holds(kv, s) THEN seqs[s].num_computed_tokens ELSE 0
      /\ Len(seq.token_ids) \in Nat
    BY <1>1, ProjectedTypes
<1> HIDE DEF q
<1>3. DOMAIN kv.request_blocks = ToSet(running) /\ KVInv(kv)
    BY DEF EngineInv, Queues, Sharing
<1>4. /\ seq.num_computed_tokens = seqs[s].num_computed_tokens
      /\ seq.token_ids # << >> /\ seq \in SeqRecord
    BY <1>2, <1>3 DEF Holds, EngineInv, Tokens
<1>5. /\ hits = GetComputedBlocks(kv, s, seq)
      /\ CanAllocate(kv, s, seq, n, hits)
      /\ kv' = AllocateSlots(kv, s, seq, n, hits)
    BY <1>2, <1>4, TwoFields, SMTT(30)
<1>6. n = Len(seq.token_ids) - seq.num_computed_tokens - Len(hits) * BlockSize
    BY <1>2, <1>4 DEF NumTokensToCompute
<1>7. KVInv(kv') /\ ExtendsItsTable(kv, s, seq, n, hits)
    BY <1>2, <1>3, <1>4, <1>5, <1>6, LegalAllocationTables DEF LegalAllocation
<1> HIDE DEF seq
<1> DEFINE need == CeilDiv(Len(seq.token_ids), BlockSize)
           old == BlockTable(kv, s)
<1>8. PICK popped \in Seq(Block) :
          /\ AllocatedAs(kv, kv', s, seq, hits, popped)
          /\ popped = << >> => need <= Len(old) + Len(hits)
    BY <1>5, <1>7 DEF ExtendsItsTable
<1> HIDE DEF need
<1>9. /\ DOMAIN kv'.request_blocks = DOMAIN kv.request_blocks \cup {s}
      /\ \A x \in DOMAIN kv.request_blocks \ {s} :
             kv'.request_blocks[x] = kv.request_blocks[x]
      /\ kv'.request_blocks[s] = (old \o hits) \o popped
      /\ \A b \in ToSet(popped) :
             \A x \in DOMAIN kv.request_blocks : b \notin ToSet(kv.request_blocks[x])
    BY <1>8 DEF AllocatedAs
<1>10. /\ \A t : t # s => BlockTable(kv', t) = BlockTable(kv, t)
       /\ BlockTable(kv', s) = (old \o hits) \o popped
    BY <1>9 DEF BlockTable, Holds
<1>11. ASSUME NEW b \in ToSet(popped), NEW t
       PROVE  b \notin ToSet(BlockTable(kv, t))
  <2>1. ToSet(<< >>) = {}
      BY DEF ToSet
  <2>2. QED
      BY <1>9, <2>1 DEF BlockTable, Holds
<1>12. /\ hits \in Seq(Block)
       /\ Len(hits) * BlockSize \in Nat /\ Len(hits) * BlockSize < Len(seq.token_ids)
    BY <1>3, <1>4, <1>5, HitsProperties
<1>13. old \in Seq(Block)
    BY <1>3, TablesAreSequences
<1>14. ASSUME s \notin ToSet(running) PROVE popped # << >>
  <2>1. SUFFICES ASSUME popped = << >> PROVE FALSE
      OBVIOUS
  <2>2. old = << >>
      BY <1>3, <1>14 DEF BlockTable, Holds
  <2>3. /\ need \in Nat /\ Len(seq.token_ids) <= need * BlockSize
      BY <1>2, BlockSizeAssumption, CeilCovers DEF need
  <2>4. need <= Len(hits) /\ Len(hits) \in Nat
      BY <1>8, <1>12, <2>1, <2>2
  <2>5. need * BlockSize <= Len(hits) * BlockSize
      BY <2>3, <2>4, BlockSizeAssumption, TimesMonotone
  <2> PICK a \in Nat, h \in Nat : a = need * BlockSize /\ h = Len(hits) * BlockSize
      BY <1>12, <2>3, BlockSizeAssumption
  <2>6. Len(seq.token_ids) <= a /\ a <= h /\ h < Len(seq.token_ids)
      BY <1>12, <2>3, <2>5
  <2>7. QED
      BY <1>2, <2>6
<1>15. \A i \in Nat : BlockKey(seq, i - 1) = SubSeq(seqs[s].token_ids, 1, i * BlockSize)
  <2>1. \A i \in Nat : i - 1 + 1 = i
      OBVIOUS
  <2>2. QED
      BY <1>2, <2>1 DEF BlockKey
<1>16. ASSUME NEW b \in Block, kv'.block_keys[b] \notin {NoKey, kv.block_keys[b]}
       PROVE  \E i \in DOMAIN BlockTable(kv', s) :
                  /\ BlockTable(kv', s)[i] = b
                  /\ i * BlockSize <= Len(seqs[s].token_ids)
                  /\ kv'.block_keys[b] = SubSeq(seqs[s].token_ids, 1, i * BlockSize)
  <2>1. ~(kv.block_keys[b] # NoKey /\ b \notin ToSet(popped))
      BY <1>8, <1>16 DEF AllocatedAs
  <2>2. BlockTable(kv', s) = kv'.request_blocks[s]
      BY <1>9 DEF BlockTable, Holds
  <2>3. PICK i \in DOMAIN BlockTable(kv', s) :
            /\ BlockTable(kv', s)[i] = b
            /\ i * BlockSize <= Len(seq.token_ids)
            /\ kv'.block_keys[b] = BlockKey(seq, i - 1)
      BY <1>8, <1>16, <2>1, <2>2 DEF AllocatedAs
  <2>4. i \in Nat
      BY <1>10, <1>12, <1>13
  <2>5. QED
      BY <1>2, <1>15, <2>3, <2>4
<1>17. ASSUME NEW i \in DOMAIN hits
       PROVE  /\ i * BlockSize <= Len(seqs[s].token_ids)
              /\ kv.block_keys[hits[i]] = SubSeq(seqs[s].token_ids, 1, i * BlockSize)
              /\ kv.block_keys[hits[i]] # NoKey
  <2>1. i \in 1 .. Len(hits) /\ i \in Nat \ {0}
      BY <1>12
  <2>2. /\ i * BlockSize <= Len(seq.token_ids)
        /\ kv.block_keys[hits[i]] = BlockKey(seq, i - 1)
      BY <1>3, <1>4, <1>5, <2>1, HitsProperties
  <2>3. BlockKey(seq, i - 1) # NoKey
    <3>1. i - 1 \in Nat /\ i - 1 + 1 = i
        BY <2>1
    <3>2. (i - 1 + 1) * BlockSize <= Len(seq.token_ids)
        BY <2>2, <3>1
    <3>3. QED
        BY <1>4, <3>1, <3>2, BlockKeysDiffer
  <2>4. QED
      BY <1>2, <1>15, <2>1, <2>2, <2>3
<1>18. KeysGrow(s, hits)
    BY <1>16, <1>17 DEF KeysGrow
<1>19. QED
    BY <1>10, <1>11, <1>12, <1>13, <1>14, <1>18 DEF TakesFree

\* Sequences that leave, the rest keeping their order and their tables.
LEMMA OwnStays ==
    ASSUME EngineInv, EachHasItsOwn, NEW s \in SeqId,
           running' = Delete(running, {s}), kv' = FreeIfAllocated(kv, s)
    PROVE  EachHasItsOwn'
<1>1. /\ running \in Seq(SeqId) /\ IsInjective(running)
      /\ seqs \in [SeqId -> EngineSeq] /\ Sharing(kv, Projected(kv, seqs))
    BY RunningNeeds DEF EngineInv, Queues
<1>2. \A t : t # s => BlockTable(kv', t) = BlockTable(kv, t)
    BY <1>1, FreeEffects
<1>3. /\ ToSet(running') = ToSet(running) \ {s}
      /\ \A x, y \in DOMAIN running' : x < y =>
             \E i, j \in DOMAIN running :
                 i < j /\ running[i] = running'[x] /\ running[j] = running'[y]
  <2>1. ToSet(Delete(running, {s})) = ToSet(running) \ {s}
      BY <1>1, DeleteProperties
  <2>2. Within(Delete(running, {s}), running)
      BY <1>1, DeleteWithin
  <2>3. QED
      BY <2>1, <2>2 DEF Within
<1>4. \A x \in DOMAIN running' : /\ running'[x] \in ToSet(running)
                                 /\ BlockTable(kv', running'[x]) = BlockTable(kv, running'[x])
    BY <1>2, <1>3 DEF ToSet
<1>5. SUFFICES ASSUME NEW y \in DOMAIN running'
               PROVE  \E b \in ToSet(BlockTable(kv', running'[y])) :
                          \A x \in DOMAIN running' :
                              x < y => b \notin ToSet(BlockTable(kv', running'[x]))
    BY DEF EachHasItsOwn
<1>6. PICK j \in DOMAIN running : running[j] = running'[y]
    BY <1>4 DEF ToSet
<1>7. PICK b \in ToSet(BlockTable(kv, running[j])) :
          \A i \in DOMAIN running : i < j => b \notin ToSet(BlockTable(kv, running[i]))
    BY DEF EachHasItsOwn
<1>8. ASSUME NEW x \in DOMAIN running', x < y
      PROVE  b \notin ToSet(BlockTable(kv', running'[x]))
  <2>1. PICK i \in DOMAIN running, jj \in DOMAIN running :
            i < jj /\ running[i] = running'[x] /\ running[jj] = running'[y]
      BY <1>3, <1>8
  <2>2. jj = j
      BY <1>1, <1>6, <2>1 DEF IsInjective
  <2>3. QED
      BY <1>4, <1>7, <2>1, <2>2
<1>9. QED
    BY <1>4, <1>6, <1>7, <1>8

\* A running sequence that grows, or an admission.
LEMMA OwnGrows ==
    ASSUME EngineInv, EachHasItsOwn, NEW s \in SeqId, NEW hits, NEW n,
           hits = GetComputedBlocks(kv, s, seqs[s]),
           n = NumTokensToCompute(seqs[s]) - Len(hits) * BlockSize,
           CanAllocate(kv, s, seqs[s], n, hits),
           kv' = AllocateSlots(kv, s, seqs[s], n, hits),
           \/ s \in ToSet(running) /\ hits = << >> /\ running' = running
           \/ /\ s \notin ToSet(running) /\ seqs[s].num_computed_tokens = 0
              /\ running' = Append(running, s)
    PROVE  EachHasItsOwn'
<1>1. \A t : t # s => BlockTable(kv', t) = BlockTable(kv, t)
    BY AllocationGives
<1>2. hits \in Seq(Block) /\ BlockTable(kv, s) \in Seq(Block)
    BY AllocationGives
<1> PICK popped \in Seq(Block) : TakesFree(s, hits, popped)
    BY AllocationGives
<1>3. /\ BlockTable(kv', s) = (BlockTable(kv, s) \o hits) \o popped
      /\ \A b \in ToSet(popped) : \A t : b \notin ToSet(BlockTable(kv, t))
      /\ s \notin ToSet(running) => popped # << >>
    BY DEF TakesFree
<1>4. running \in Seq(SeqId)
    BY RunningNeeds
<1> DEFINE old == BlockTable(kv, s)
           new == BlockTable(kv', s)
<1>5. ToSet(new) = ToSet(old) \cup ToSet(hits) \cup ToSet(popped)
  <2> PICK o \in Seq(Block), h \in Seq(Block) : o = old /\ h = hits
      BY <1>2
  <2>1. ToSet((o \o h) \o popped) = ToSet(o) \cup ToSet(h) \cup ToSet(popped)
      BY TableBlocks
  <2>2. QED
      BY <1>3, <2>1
<1> HIDE DEF old, new
<1>6. CASE s \in ToSet(running) /\ hits = << >> /\ running' = running
  <2>1. ToSet(hits) = {}
      BY <1>6 DEF ToSet
  <2>2. \A t : /\ ToSet(BlockTable(kv, t)) \subseteq ToSet(BlockTable(kv', t))
               /\ \A b \in ToSet(BlockTable(kv', t)) :
                      b \in ToSet(BlockTable(kv, t)) \/ b \in ToSet(popped)
      BY <1>1, <1>5, <2>1 DEF old, new
  <2>3. SUFFICES ASSUME NEW j \in DOMAIN running
                 PROVE  \E b \in ToSet(BlockTable(kv', running[j])) :
                            \A i \in DOMAIN running :
                                i < j => b \notin ToSet(BlockTable(kv', running[i]))
      BY <1>6 DEF EachHasItsOwn
  <2>4. PICK b \in ToSet(BlockTable(kv, running[j])) :
            \A i \in DOMAIN running : i < j => b \notin ToSet(BlockTable(kv, running[i]))
      BY DEF EachHasItsOwn
  <2>5. b \notin ToSet(popped)
      BY <1>3
  <2>6. QED
      BY <2>2, <2>4, <2>5
<1>7. CASE /\ s \notin ToSet(running) /\ running' = Append(running, s)
  <2>1. /\ \A j \in DOMAIN running : running'[j] = running[j] /\ running[j] # s
        /\ running'[Len(running) + 1] = s
        /\ DOMAIN running' = DOMAIN running \cup {Len(running) + 1}
        /\ \A j \in DOMAIN running : ~(Len(running) + 1 < j)
      BY <1>4, <1>7 DEF ToSet
  <2>2. \A j \in DOMAIN running : BlockTable(kv', running'[j]) = BlockTable(kv, running[j])
      BY <1>1, <2>1
  <2>3. ASSUME NEW j \in DOMAIN running
        PROVE  \E b \in ToSet(BlockTable(kv', running'[j])) :
                   \A i \in DOMAIN running' :
                       i < j => b \notin ToSet(BlockTable(kv', running'[i]))
    <3>1. PICK b \in ToSet(BlockTable(kv, running[j])) :
              \A i \in DOMAIN running : i < j => b \notin ToSet(BlockTable(kv, running[i]))
        BY DEF EachHasItsOwn
    <3>2. \A i \in DOMAIN running' : i < j => i \in DOMAIN running
        BY <2>1
    <3>3. QED
        BY <2>2, <3>1, <3>2
  <2>4. \E b \in ToSet(BlockTable(kv', s)) :
            \A i \in DOMAIN running' :
                i < Len(running) + 1 => b \notin ToSet(BlockTable(kv', running'[i]))
    <3>1. 1 \in DOMAIN popped
        BY <1>3, <1>7
    <3>2. PICK b : b \in ToSet(popped)
        BY <3>1 DEF ToSet
    <3>3. b \in ToSet(BlockTable(kv', s))
        BY <1>5, <3>2 DEF new
    <3>4. \A i \in DOMAIN running' : i < Len(running) + 1 => i \in DOMAIN running
        BY <1>4, <2>1
    <3>5. QED
        BY <1>3, <2>2, <3>2, <3>3, <3>4
  <2>5. QED
      BY <2>1, <2>3, <2>4 DEF EachHasItsOwn
<1>8. QED
    BY <1>6, <1>7

LEMMA NextOwn ==
    ASSUME EngineInv, [Next]_vars, EachHasItsOwn
    PROVE  EachHasItsOwn'
<1>1. ASSUME NEW s \in SeqId, ScheduleRunning(s)
      PROVE  EachHasItsOwn'
  <2> PICK hits, n : hits = << >> /\ n = NumTokensToCompute(seqs[s])
      OBVIOUS
  <2>1. /\ HandlesRunning(s)
        /\ CanAllocate(kv, s, seqs[s], n, hits)
        /\ kv' = AllocateSlots(kv, s, seqs[s], n, hits)
        /\ running' = running
      BY <1>1 DEF ScheduleRunning, queueVars
  <2>2. s \in ToSet(running)
      BY <2>1, RunningHead DEF HandlesRunning, Visits
  <2>3. hits = GetComputedBlocks(kv, s, seqs[s])
      BY <2>2 DEF EngineInv, Queues, GetComputedBlocks, Holds
  <2>4. n = NumTokensToCompute(seqs[s]) - Len(hits) * BlockSize
    <3>1. Len(hits) * BlockSize = 0 /\ n \in Int
        BY BlockSizeAssumption, RunningNeeds
    <3>2. QED
        BY <3>1
  <2>5. QED
      BY <2>1, <2>2, <2>3, <2>4, OwnGrows
<1>2. ASSUME NEW s \in SeqId, Admit(s)
      PROVE  EachHasItsOwn'
  <2> PICK hits, n : hits = GetComputedBlocks(kv, s, seqs[s]) /\ n = NumUncached(s)
      OBVIOUS
  <2>1. /\ waiting # << >> /\ s = Head(waiting)
        /\ CanAllocate(kv, s, seqs[s], n, hits)
        /\ kv' = AllocateSlots(kv, s, seqs[s], n, hits)
        /\ running' = Append(running, s)
      BY <1>2 DEF Admit, Admissible, HandlesWaiting
  <2>2. n = NumTokensToCompute(seqs[s]) - Len(hits) * BlockSize
      BY DEF NumUncached
  <2>3. s \in ToSet(waiting)
    <3>1. waiting \in Seq(SeqId)
        BY DEF EngineInv, Types, TypeOK
    <3>2. QED
        BY <2>1, <3>1 DEF ToSet
  <2>4. s \notin ToSet(running) /\ seqs[s].num_computed_tokens = 0
      BY <2>3 DEF EngineInv, Queues, Tokens
  <2>5. QED
      BY <2>1, <2>2, <2>4, OwnGrows
<1>3. ASSUME NEW s \in SeqId, PreemptOther(s) \/ PreemptSelf(s)
      PROVE  EachHasItsOwn'
  <2> PICK v : v = Victim(s)
      OBVIOUS
  <2>1. HandlesRunning(s) /\ Preempt(v)
      BY <1>3 DEF PreemptOther, PreemptSelf
  <2>2. v \in SeqId
      BY <2>1, VictimIsLast
  <2>3. QED
      BY <2>1, <2>2, OwnStays DEF Preempt
<1>4. ASSUME NEW s \in SeqId, NEW q, NEW reason, Finish(s, q, reason)
      PROVE  EachHasItsOwn'
    BY <1>4, OwnStays DEF Finish, FreeSeq
<1>5. CASE UNCHANGED <<kv, running>>
    BY <1>5 DEF EachHasItsOwn
<1>6. CASE Reset
  <2>1. running' = << >>
      BY <1>6 DEF Reset
  <2>2. DOMAIN running' = {}
      BY <2>1
  <2>3. QED
      BY <2>2 DEF EachHasItsOwn
<1>7. ASSUME NEW s \in SeqId,
             RejectWaiting(s) \/ UpdateSeq(s) \/ AddRequest(s) \/ AbortRequest(s)
      PROVE  UNCHANGED <<kv, running>> \/ \E q, reason : Finish(s, q, reason)
    BY <1>7 DEF RejectWaiting, UpdateSeq, AddRequest, AbortRequest, queueVars
<1>8. CASE \/ BeginStep \/ SkipPreempted \/ RequeuePreempted \/ StopAdmitting
           \/ NothingToExecute \/ ExecuteModel \/ ExecuteRaises \/ UpdateDone
           \/ Outputs \/ UNCHANGED vars
  <2>1. UNCHANGED <<kv, running>>
      BY <1>8 DEF BeginStep, SkipPreempted, RequeuePreempted, StopAdmitting,
                  NothingToExecute, ExecuteModel, ExecuteRaises, UpdateDone, Outputs,
                  vars, queueVars
  <2>2. QED
      BY <1>5, <2>1
<1>9. QED
    BY <1>1, <1>2, <1>3, <1>4, <1>5, <1>6, <1>7, <1>8 DEF Next, RestOfStep, Schedule

LEMMA OwnInvariant == Spec => []EachHasItsOwn
<1>1. Init => EachHasItsOwn
  <2>1. SUFFICES ASSUME Init PROVE EachHasItsOwn
      OBVIOUS
  <2>2. DOMAIN running = {}
      BY <2>1 DEF Init
  <2>3. QED
      BY <2>2 DEF EachHasItsOwn
<1>2. EngineInv /\ EachHasItsOwn /\ [Next]_vars => EachHasItsOwn'
    BY NextOwn
<1>3. QED
    BY <1>1, <1>2, EngineInvariant, PTL DEF Spec

\* A victim gives blocks back, even when the prefix cache shares most of its
\* table: the loop that preempts until the next token fits ends without having
\* emptied the batch for nothing.
THEOREM PreemptionAlwaysFrees == Spec => PreemptionFreesBlocks
<1> DEFINE Frees == (\E s \in SeqId : WasPreempted(s)) =>
                        Len(kv'.free_block_ids) > Len(kv.free_block_ids)
<1>1. ASSUME EngineInv, EachHasItsOwn, [Next]_vars PROVE Frees
  <2>1. SUFFICES ASSUME NEW v \in SeqId, WasPreempted(v)
                 PROVE  Len(kv'.free_block_ids) > Len(kv.free_block_ids)
      OBVIOUS
  <2>2. PICK s \in SeqId : HandlesRunning(s) /\ v = Victim(s) /\ Preempt(v)
      BY <1>1, <2>1, OnlyTheVictim
  <2>3. /\ running \in Seq(SeqId) /\ running # << >> /\ v = running[Len(running)]
        /\ v \in ToSet(running)
      BY <1>1, <2>2, VictimIsLast, RunningNeeds
  <2>4. /\ DOMAIN kv.request_blocks = ToSet(running) /\ KVInv(kv)
        /\ Holds(kv, v)
      BY <1>1, <2>3 DEF EngineInv, Queues, Sharing, Holds
  <2> DEFINE table == kv.request_blocks[v]
             released == {b \in ToSet(table) : kv.ref_counts[b] = 1}
             back == Keep(Reverse(table), released)
  <2>5. kv'.free_block_ids = kv.free_block_ids \o back
    <3>1. kv' = Free(kv, v)
        BY <2>2, <2>4 DEF Preempt, FreeIfAllocated
    <3>2. DOMAIN kv = KVFields /\ "free_block_ids" \in KVFields
        BY <2>4 DEF KVInv, KVTypes, KVFields
    <3>3. QED
        BY <3>1, <3>2 DEF Free
  <2>6. Len(running) \in DOMAIN running
      BY <2>3
  <2>7. PICK b \in ToSet(BlockTable(kv, v)) :
            \A i \in DOMAIN running :
                i < Len(running) => b \notin ToSet(BlockTable(kv, running[i]))
      BY <1>1, <2>3, <2>6 DEF EachHasItsOwn
  <2>8. b \in ToSet(table) /\ table \in Seq(Block) /\ b \in Block
    <3>1. table \in Seq(Block)
        BY <2>4, TablesAreSequences DEF Holds
    <3>2. QED
        BY <2>4, <2>7, <3>1 DEF BlockTable, ToSet
  <2>9. Holders(kv, b) = {v}
    <3>1. v \in Holders(kv, b)
        BY <2>4, <2>8 DEF Holders, Holds
    <3>2. ASSUME NEW t \in Holders(kv, b) PROVE t = v
      <4>1. t \in ToSet(running) /\ b \in ToSet(BlockTable(kv, t))
          BY <2>4, <3>2 DEF Holders, BlockTable, Holds
      <4>2. PICK i \in DOMAIN running : running[i] = t
          BY <4>1 DEF ToSet
      <4>3. ~(i < Len(running))
          BY <2>7, <4>1, <4>2
      <4>4. i = Len(running)
          BY <2>3, <4>3
      <4>5. QED
          BY <2>3, <4>2, <4>4
    <3>3. QED
        BY <3>1, <3>2
  <2>10. kv.ref_counts[b] = 1
    <3>1. Cardinality({v}) = 1
        BY FS_Singleton
    <3>2. QED
        BY <2>4, <2>8, <2>9, <3>1 DEF KVInv, RefCountsCountHolders
  <2>11. back \in Seq(Block) /\ b \in ToSet(back)
    <3> HIDE DEF table
    <3>1. Reverse(table) \in Seq(Block) /\ ToSet(Reverse(table)) = ToSet(table)
        BY <2>8, ReverseDistinct
    <3>2. b \in released
        BY <2>8, <2>10
    <3> HIDE DEF released
    <3> PICK r \in Seq(Block) : r = Reverse(table)
        BY <3>1
    <3>3. Keep(r, released) \in Seq(Block) /\ ToSet(Keep(r, released)) = ToSet(r) \cap released
        BY KeepProperties
    <3>4. QED
        BY <2>8, <3>1, <3>2, <3>3
  <2> HIDE DEF back
  <2>12. Len(back) \in Nat \ {0}
      BY <2>11 DEF ToSet
  <2>13. kv.free_block_ids \in Seq(Block)
      BY <2>4 DEF KVInv, KVTypes
  <2>14. Len(kv.free_block_ids \o back) = Len(kv.free_block_ids) + Len(back)
      BY <2>11, <2>13
  <2>15. QED
      BY <2>5, <2>12, <2>13, <2>14
<1>2. QED
    BY <1>1, EngineInvariant, OwnInvariant, PTL DEF Spec, PreemptionFreesBlocks

-----------------------------------------------------------------------------
(* The order of the waiting queue.                                         *)

\* Why requeueing puts victims where they belong.
Seniority ==
    /\ \A s \in SeqId : seqs[s].status = "NEW" => seqs[s].num_preemptions = 0
    /\ phase = "running" =>
          \A s \in ToSet(preempted_seqs) : seqs[s].num_preemptions > 0
    /\ VictimsFirst(waiting, seqs)

\* Scheduler._finish.
LEMMA FinishOrder ==
    ASSUME EngineInv, Seniority, NEW s \in SeqId, FreeSeq(s),
           \A x \in ToSet(waiting) :
               seqs'[x].num_preemptions = seqs[x].num_preemptions
    PROVE  VictimsFirst(waiting, seqs)'
<1>1. waiting \in Seq(SeqId) /\ VictimsFirst(waiting, seqs)
    BY DEF EngineInv, Types, TypeOK, Seniority
<1>2. CASE waiting' = waiting
  <2>1. Within(waiting, waiting)
      BY DEF Within
  <2>2. QED
      BY <1>1, <1>2, <2>1, OrderStays
<1>3. CASE waiting' = Delete(waiting, {s})
  <2> PICK q \in Seq(SeqId) : q = Delete(waiting, {s})
      BY <1>1, DeleteWithin
  <2>1. Within(q, waiting)
      BY <1>1, DeleteWithin
  <2>2. VictimsFirst(q, seqs')
      BY <1>1, <2>1, OrderStays
  <2>3. QED
      BY <1>3, <2>2
<1>4. QED
    BY <1>2, <1>3 DEF FreeSeq

LEMMA NextSeniority ==
    ASSUME EngineInv, [Next]_vars, Seniority
    PROVE  Seniority'
<1>1. /\ waiting \in Seq(SeqId) /\ running \in Seq(SeqId) /\ preempted_seqs \in Seq(SeqId)
      /\ seqs \in [SeqId -> EngineSeq]
      /\ \A s \in SeqId : seqs[s].num_preemptions \in Nat
    BY DEF EngineInv, Types, TypeOK, EngineSeq
<1>2. ASSUME NEW v \in SeqId, ~RankKept(v)
      PROVE  /\ v \in ToSet(running) /\ seqs'[v].num_preemptions > 0
             /\ seqs'[v].status # "NEW"
  <2>1. PICK s \in SeqId : HandlesRunning(s) /\ v = Victim(s) /\ Preempt(v)
      BY <1>2, OnlyPreempted
  <2>2. v \in ToSet(running)
      BY <2>1, VictimIsLast
  <2>3. /\ seqs'[v].num_preemptions = seqs[v].num_preemptions + 1
        /\ seqs'[v].status = "WAITING"
      BY <1>1, <2>1 DEF Preempt, ResetForRecompute, EngineSeq
  <2>4. QED
      BY <1>1, <2>2, <2>3
<1>3. \A s \in SeqId : seqs'[s].status = "NEW" => seqs'[s].num_preemptions = 0
    BY <1>2 DEF Seniority, RankKept
<1>4. \A s \in SeqId : seqs[s].num_preemptions > 0 => seqs'[s].num_preemptions > 0
    BY <1>2 DEF RankKept
<1>5. \A s \in ToSet(waiting) : /\ s \in SeqId
                                /\ seqs'[s].num_preemptions = seqs[s].num_preemptions
  <2> TAKE s \in ToSet(waiting)
  <2>1. s \in SeqId
      BY <1>1 DEF ToSet
  <2>2. s \notin ToSet(running)
    <3>1. seqs[s].status = "WAITING"
        BY DEF EngineInv, Queues
    <3>2. \A x \in ToSet(running) : seqs[x].status = "RUNNING"
        BY DEF EngineInv, Queues
    <3>3. QED
        BY <3>1, <3>2
  <2>3. QED
      BY <1>2, <2>1, <2>2 DEF RankKept
<1>6. ASSUME UNCHANGED <<waiting, phase, preempted_seqs>>
      PROVE  Seniority'
  <2>1. VictimsFirst(waiting, seqs')
      BY <1>5 DEF Seniority, VictimsFirst, ToSet
  <2>2. \A s \in ToSet(preempted_seqs) : s \in SeqId
      BY <1>1 DEF ToSet
  <2>3. QED
      BY <1>3, <1>4, <1>6, <2>1, <2>2 DEF Seniority
<1>7. ASSUME waiting' = waiting, phase' # "running"
      PROVE  Seniority'
  <2>1. VictimsFirst(waiting, seqs')
      BY <1>5 DEF Seniority, VictimsFirst, ToSet
  <2>2. QED
      BY <1>3, <1>7, <2>1 DEF Seniority
<1>8. CASE BeginStep
  <2>1. preempted_seqs' = << >> /\ waiting' = waiting
      BY <1>8 DEF BeginStep, EngineInv, Queues, queueVars
  <2>2. ToSet(preempted_seqs') = {}
      BY <2>1 DEF ToSet
  <2>3. VictimsFirst(waiting, seqs')
      BY <1>5 DEF Seniority, VictimsFirst, ToSet
  <2>4. QED
      BY <1>3, <2>1, <2>2, <2>3 DEF Seniority
<1>9. CASE RequeuePreempted
  <2>1. /\ phase = "running" /\ phase' = "waiting" /\ seqs' = seqs
        /\ waiting' = preempted_seqs \o waiting
      BY <1>9 DEF RequeuePreempted
  <2> DEFINE m == Len(preempted_seqs)
  <2>2. /\ DOMAIN waiting' = 1 .. m + Len(waiting)
        /\ \A i \in 1 .. m : waiting'[i] = preempted_seqs[i]
        /\ \A i \in m + 1 .. m + Len(waiting) : waiting'[i] = waiting[i - m]
        /\ m \in Nat
      BY <1>1, <2>1
  <2>3. \A i \in 1 .. m : seqs[preempted_seqs[i]].num_preemptions > 0
      BY <1>1, <2>1 DEF Seniority, ToSet
  <2> HIDE DEF m
  <2>4. ASSUME NEW x \in DOMAIN waiting', NEW y \in DOMAIN waiting', x < y,
               seqs[waiting'[y]].num_preemptions > 0
        PROVE  seqs[waiting'[x]].num_preemptions > 0
    <3>1. CASE x \in 1 .. m
        BY <2>2, <2>3, <3>1
    <3>2. CASE ~(x \in 1 .. m)
      <4>1. x - m \in DOMAIN waiting /\ y - m \in DOMAIN waiting /\ x - m < y - m
          BY <1>1, <2>2, <2>4, <3>2
      <4>2. waiting'[x] = waiting[x - m] /\ waiting'[y] = waiting[y - m]
          BY <1>1, <2>2, <2>4, <3>2
      <4>3. QED
          BY <2>4, <4>1, <4>2 DEF Seniority, VictimsFirst
    <3>3. QED
        BY <3>1, <3>2
  <2>5. VictimsFirst(waiting', seqs')
      BY <2>1, <2>4 DEF VictimsFirst
  <2>6. QED
      BY <1>3, <2>1, <2>5 DEF Seniority
<1>10. ASSUME NEW s \in SeqId, PreemptOther(s) \/ PreemptSelf(s)
       PROVE  Seniority'
  <2> PICK v : v = Victim(s)
      OBVIOUS
  <2>1. HandlesRunning(s) /\ Preempt(v)
      BY <1>10 DEF PreemptOther, PreemptSelf
  <2>2. v \in SeqId
      BY <2>1, VictimIsLast
  <2>3. /\ seqs' = [seqs EXCEPT ![v] = ResetForRecompute(@)]
        /\ preempted_seqs' = Append(preempted_seqs, v)
        /\ phase = "running" /\ UNCHANGED <<waiting, phase>>
      BY <2>1 DEF Preempt, HandlesRunning
  <2>4. seqs'[v].num_preemptions > 0
    <3>1. seqs'[v].num_preemptions = seqs[v].num_preemptions + 1
        BY <1>1, <2>2, <2>3 DEF ResetForRecompute, EngineSeq
    <3>2. QED
        BY <1>1, <2>2, <3>1
  <2>5. ToSet(preempted_seqs') = ToSet(preempted_seqs) \cup {v}
      BY <1>1, <2>2, <2>3, AppendDistinct
  <2>6. \A x \in ToSet(preempted_seqs) : x \in SeqId /\ seqs[x].num_preemptions > 0
      BY <1>1, <2>3 DEF Seniority, ToSet
  <2>7. VictimsFirst(waiting, seqs')
      BY <1>5 DEF Seniority, VictimsFirst, ToSet
  <2>8. QED
      BY <1>3, <1>4, <2>3, <2>4, <2>5, <2>6, <2>7 DEF Seniority
<1>11. ASSUME NEW s \in SeqId, Admit(s)
       PROVE  Seniority'
  <2>1. /\ waiting # << >> /\ waiting' = Tail(waiting) /\ phase' # "running"
      BY <1>11 DEF Admit, HandlesWaiting
  <2>0. Tail(waiting) \in Seq(SeqId)
      BY <1>1, <2>1
  <2> PICK q \in Seq(SeqId) : q = Tail(waiting)
      BY <2>0
  <2>2. \A x \in DOMAIN q : x + 1 \in DOMAIN waiting /\ q[x] = waiting[x + 1]
      BY <1>1, <2>1
  <2>3. Within(q, waiting)
    <3>1. SUFFICES ASSUME NEW x \in DOMAIN q, NEW y \in DOMAIN q, x < y
                   PROVE  \E i, j \in DOMAIN waiting :
                              i < j /\ waiting[i] = q[x] /\ waiting[j] = q[y]
        BY DEF Within
    <3>2. x + 1 < y + 1
        BY <3>1
    <3>3. QED
        BY <2>2, <3>2
  <2>4. VictimsFirst(q, seqs')
      BY <1>1, <1>5, <2>3, OrderStays DEF Seniority
  <2>5. QED
      BY <1>3, <2>1, <2>4 DEF Seniority
<1>12. ASSUME NEW s \in SeqId, AddRequest(s), waiting' = Append(waiting, s)
       PROVE  Seniority'
  <2>1. /\ phase = "idle" /\ seqs[s].status = "NEW" /\ phase' = phase
      BY <1>12 DEF AddRequest, stepVars
  <2>2. seqs'[s].num_preemptions = 0
    <3>1. s \notin ToSet(running)
        BY <2>1 DEF EngineInv, Queues
    <3>2. seqs'[s].num_preemptions = seqs[s].num_preemptions
        BY <1>2, <3>1 DEF RankKept
    <3>3. QED
        BY <2>1, <3>2 DEF Seniority
  <2>3. /\ DOMAIN waiting' = 1 .. Len(waiting) + 1
        /\ \A i \in 1 .. Len(waiting) : waiting'[i] = waiting[i]
        /\ waiting'[Len(waiting) + 1] = s
        /\ Len(waiting) \in Nat /\ DOMAIN waiting = 1 .. Len(waiting)
      BY <1>1, <1>12
  <2>4. ASSUME NEW x \in DOMAIN waiting', NEW y \in DOMAIN waiting', x < y,
               seqs'[waiting'[y]].num_preemptions > 0
        PROVE  seqs'[waiting'[x]].num_preemptions > 0
    <3>1. y \in DOMAIN waiting
        BY <2>2, <2>3, <2>4
    <3>2. x \in DOMAIN waiting
        BY <2>3, <2>4, <3>1
    <3>3. /\ waiting'[x] = waiting[x] /\ waiting'[y] = waiting[y]
          /\ waiting[x] \in ToSet(waiting) /\ waiting[y] \in ToSet(waiting)
        BY <2>3, <3>1, <3>2 DEF ToSet
    <3>4. QED
        BY <1>5, <2>4, <3>1, <3>2, <3>3 DEF Seniority, VictimsFirst
  <2>5. VictimsFirst(waiting', seqs')
      BY <2>4 DEF VictimsFirst
  <2>6. QED
      BY <1>3, <2>1, <2>5 DEF Seniority
<1>13. ASSUME NEW s \in SeqId, FreeSeq(s), phase' # "running"
       PROVE  Seniority'
    BY <1>3, <1>5, <1>13, FinishOrder DEF Seniority
<1>14. CASE Reset
  <2>1. waiting' = << >> /\ phase' # "running"
      BY <1>14 DEF Reset, stepVars
  <2>2. DOMAIN waiting' = {}
      BY <2>1
  <2>3. QED
      BY <1>3, <2>1, <2>2 DEF Seniority, VictimsFirst
<1>15. ASSUME NEW s \in SeqId,
              RejectWaiting(s) \/ UpdateSeq(s) \/ AddRequest(s) \/ AbortRequest(s)
       PROVE  /\ phase' # "running"
              /\ \/ waiting' = waiting
                 \/ FreeSeq(s)
                 \/ AddRequest(s) /\ waiting' = Append(waiting, s)
    BY <1>15 DEF RejectWaiting, HandlesWaiting, UpdateSeq, AddRequest, AbortRequest,
                 Finish, stepVars, queueVars
<1>16. CASE \/ SkipPreempted \/ UNCHANGED vars
            \/ \E s \in SeqId : ScheduleRunning(s)
  <2>1. UNCHANGED <<waiting, phase, preempted_seqs>>
      BY <1>16 DEF SkipPreempted, ScheduleRunning, vars, queueVars, stepVars
  <2>2. QED
      BY <1>6, <2>1
<1>17. CASE \/ StopAdmitting \/ NothingToExecute \/ ExecuteModel \/ ExecuteRaises
            \/ UpdateDone \/ Outputs
  <2>1. waiting' = waiting /\ phase' # "running"
      BY <1>17 DEF StopAdmitting, NothingToExecute, ExecuteModel, ExecuteRaises,
                   UpdateDone, Outputs, queueVars
  <2>2. QED
      BY <1>7, <2>1
<1>18. QED
    BY <1>7, <1>8, <1>9, <1>10, <1>11, <1>12, <1>13, <1>14, <1>15, <1>16, <1>17
       DEF Next, RestOfStep, Schedule

\* The waiting queue never lets a request that never ran pass a preempted one,
\* however preemptions, rejects, aborts and new requests interleave.
THEOREM PreemptedAlwaysInFront == Spec => []PreemptedWaitInFront
<1>1. Init => Seniority
  <2>1. SUFFICES ASSUME Init PROVE Seniority
      OBVIOUS
  <2>2. \A s \in SeqId : seqs[s].num_preemptions = 0
      BY <2>1 DEF Init
  <2>3. DOMAIN waiting = {} /\ phase # "running"
      BY <2>1 DEF Init
  <2>4. QED
      BY <2>2, <2>3 DEF Seniority, VictimsFirst
<1>2. EngineInv /\ Seniority /\ [Next]_vars => Seniority'
    BY NextSeniority
<1>3. Seniority => PreemptedWaitInFront
    BY DEF Seniority, VictimsFirst, PreemptedWaitInFront
<1>4. QED
    BY <1>1, <1>2, <1>3, EngineInvariant, PTL DEF Spec

-----------------------------------------------------------------------------
(* What the callers are told.                                              *)

TextKept(x) ==
    /\ seqs'[x].token_ids = seqs[x].token_ids
    /\ seqs'[x].prompt_len = seqs[x].prompt_len

EndKept(x) ==
    /\ seqs'[x].finish_reason = seqs[x].finish_reason
    /\ seqs'[x].status = "DONE" <=> seqs[x].status = "DONE"

Ends(x) ==
    /\ seqs[x].status # "DONE"
    /\ seqs'[x].status = "DONE" /\ seqs'[x].finish_reason \in Reasons

\* _finish, of the sequence s with its record q at the call.
LEMMA FinishEnds ==
    ASSUME EngineInv, NEW s \in SeqId, NEW q \in EngineSeq, NEW reason \in Reasons,
           Finish(s, q, reason), seqs[s].status # "DONE"
    PROVE  /\ Ends(s) /\ finished_seqs' = Append(finished_seqs, s)
           /\ seqs'[s].token_ids = q.token_ids /\ seqs'[s].prompt_len = q.prompt_len
           /\ \A x \in SeqId : x # s => seqs'[x] = seqs[x]
<1>1. seqs \in [SeqId -> EngineSeq]
    BY RunningNeeds
<1>2. /\ Finished(q, reason).token_ids = q.token_ids
      /\ Finished(q, reason).prompt_len = q.prompt_len
      /\ Finished(q, reason).status = "DONE"
      /\ Finished(q, reason).finish_reason = reason
    BY DEF Finished, EngineSeq
<1>3. /\ seqs' = [seqs EXCEPT ![s] = Finished(q, reason)]
      /\ finished_seqs' = Append(finished_seqs, s)
    BY DEF Finish
<1>4. QED
    BY <1>1, <1>2, <1>3 DEF Ends

\* update_from_output appends the token that the step will deliver.
LEMMA UpdatedText ==
    ASSUME EngineInv, NEW s \in SeqId, UpdateSeq(s)
    PROVE  /\ phase = "update" /\ phase' = phase /\ todo # << >> /\ s = Head(todo)
           /\ todo' = Tail(todo) /\ s \in ToSet(running) /\ s \in ScheduledIds
           /\ UNCHANGED <<scheduled, sampled, sequences, delivered>>
           /\ seqs'[s].prompt_len = seqs[s].prompt_len
           /\ NewTokens(s) \in Seq(Token)
           /\ seqs'[s].token_ids = seqs[s].token_ids \o NewTokens(s)
           /\ \A x \in SeqId : x # s => seqs'[x] = seqs[x]
           /\ \/ EndKept(s) /\ finished_seqs' = finished_seqs
              \/ Ends(s) /\ finished_seqs' = Append(finished_seqs, s)
<1> PICK n, token : /\ n = (CHOOSE e \in ToSet(scheduled) : e.seq_id = s).num_tokens
                    /\ token = sampled[s]
    OBVIOUS
<1> DEFINE seq == [seqs[s] EXCEPT !.num_computed_tokens = @ + n]
           grown == [seq EXCEPT !.token_ids = Append(@, token)]
<1>1. /\ phase = "update" /\ phase' = phase /\ todo # << >> /\ s = Head(todo)
      /\ todo' = Tail(todo) /\ UNCHANGED <<scheduled, sampled, sequences, delivered>>
    BY DEF UpdateSeq
<1>2. \/ token \in StopTokens /\ Finish(s, seq, "STOP")
      \/ token \notin StopTokens /\ Finish(s, grown, "LENGTH")
      \/ /\ token \notin StopTokens /\ seqs' = [seqs EXCEPT ![s] = grown]
         /\ finished_seqs' = finished_seqs
    BY DEF UpdateSeq, queueVars
<1>3. /\ s \in ToSet(running) /\ s \in ScheduledIds /\ token \in Token
      /\ n = NumTokensToCompute(seqs[s])
    BY <1>1, UpdatedEntry
<1>4. seqs \in [SeqId -> EngineSeq] /\ seqs[s].status = "RUNNING"
    BY <1>3, RunningNeeds DEF EngineInv, Queues
<1>5. seqs[s] \in EngineSeq /\ seqs[s].num_computed_tokens + n \in Nat
  <2>1. seqs[s] \in EngineSeq
      BY <1>4
  <2>2. Len(seqs[s].token_ids) \in Nat /\ seqs[s].num_computed_tokens \in Nat
      BY <2>1 DEF EngineSeq
  <2>3. QED
      BY <1>3, <2>1, <2>2 DEF NumTokensToCompute
<1>6. /\ seq \in EngineSeq /\ seq.prompt_len = seqs[s].prompt_len
      /\ seq.token_ids = seqs[s].token_ids /\ seq.status = seqs[s].status
      /\ seq.finish_reason = seqs[s].finish_reason /\ seq.token_ids \in Seq(Token)
    BY <1>5 DEF EngineSeq
<1> HIDE DEF seq
<1>7. /\ grown \in EngineSeq /\ grown.prompt_len = seqs[s].prompt_len
      /\ grown.token_ids = Append(seqs[s].token_ids, token)
      /\ grown.status = seqs[s].status
      /\ grown.finish_reason = seqs[s].finish_reason
  <2>1. Append(seq.token_ids, token) \in Seq(Token)
      BY <1>3, <1>6
  <2>2. QED
      BY <1>6, <2>1 DEF EngineSeq
<1> HIDE DEF grown
<1>8. NewTokens(s) = IF token \notin StopTokens THEN <<token>> ELSE << >>
    BY <1>3 DEF NewTokens
<1>9. /\ seqs[s].token_ids \o << >> = seqs[s].token_ids
      /\ seqs[s].token_ids \o <<token>> = Append(seqs[s].token_ids, token)
      /\ <<token>> \in Seq(Token)
    BY <1>3, <1>6
<1>10. "STOP" \in Reasons /\ "LENGTH" \in Reasons
    BY DEF Reasons
<1>11. CASE token \in StopTokens /\ Finish(s, seq, "STOP")
  <2>1. NewTokens(s) = << >> /\ << >> \in Seq(Token)
      BY <1>8, <1>11
  <2>2. /\ Ends(s) /\ finished_seqs' = Append(finished_seqs, s)
        /\ seqs'[s].token_ids = seq.token_ids /\ seqs'[s].prompt_len = seq.prompt_len
        /\ \A x \in SeqId : x # s => seqs'[x] = seqs[x]
      BY <1>4, <1>6, <1>10, <1>11, FinishEnds
  <2>3. QED
      BY <1>1, <1>3, <1>6, <1>9, <2>1, <2>2
<1>12. CASE token \notin StopTokens /\ Finish(s, grown, "LENGTH")
  <2>1. NewTokens(s) = <<token>>
      BY <1>8, <1>12
  <2>2. /\ Ends(s) /\ finished_seqs' = Append(finished_seqs, s)
        /\ seqs'[s].token_ids = grown.token_ids
        /\ seqs'[s].prompt_len = grown.prompt_len
        /\ \A x \in SeqId : x # s => seqs'[x] = seqs[x]
      BY <1>4, <1>7, <1>10, <1>12, FinishEnds
  <2>3. QED
      BY <1>1, <1>3, <1>7, <1>9, <2>1, <2>2
<1>13. CASE /\ token \notin StopTokens /\ seqs' = [seqs EXCEPT ![s] = grown]
            /\ finished_seqs' = finished_seqs
  <2>1. NewTokens(s) = <<token>>
      BY <1>8, <1>13
  <2>2. seqs'[s] = grown /\ \A x \in SeqId : x # s => seqs'[x] = seqs[x]
      BY <1>4, <1>13
  <2>3. EndKept(s)
      BY <1>7, <2>2 DEF EndKept
  <2>4. QED
      BY <1>1, <1>3, <1>7, <1>9, <1>13, <2>1, <2>2, <2>3
<1>14. QED
    BY <1>2, <1>11, <1>12, <1>13

\* Every other step leaves the text of a request alone, and ends a request only
\* by telling why.
LEMMA OnlyUpdatesGrow ==
    ASSUME EngineInv, [Next]_vars, NEW x \in SeqId
    PROVE  \/ TextKept(x) /\ (EndKept(x) \/ Ends(x))
           \/ UpdateSeq(x)
<1> DEFINE Kept == TextKept(x) /\ (EndKept(x) \/ Ends(x))
<1>1. seqs \in [SeqId -> EngineSeq]
    BY RunningNeeds
<1>2. ASSUME seqs'[x] = seqs[x] PROVE Kept
    BY <1>2 DEF TextKept, EndKept
<1>3. ASSUME NEW s \in SeqId, NEW reason \in Reasons, Finish(s, seqs[s], reason),
             seqs[s].status # "DONE"
      PROVE  Kept
  <2>1. /\ Ends(s) /\ seqs'[s].token_ids = seqs[s].token_ids
        /\ seqs'[s].prompt_len = seqs[s].prompt_len
        /\ \A y \in SeqId : y # s => seqs'[y] = seqs[y]
      BY <1>1, <1>3, FinishEnds
  <2>2. QED
      BY <1>2, <2>1 DEF TextKept
<1>4. "LENGTH" \in Reasons /\ "ABORT" \in Reasons
    BY DEF Reasons
<1>5. ASSUME NEW s \in SeqId, AddRequest(s) PROVE Kept
  <2>1. seqs[s].status = "NEW"
      BY <1>5 DEF AddRequest
  <2>2. CASE Finish(s, seqs[s], "LENGTH")
      BY <1>3, <1>4, <2>1, <2>2
  <2>3. CASE seqs' = [seqs EXCEPT ![s].status = "WAITING"]
      BY <1>1, <2>1, <2>3 DEF TextKept, EndKept, EngineSeq
  <2>4. QED
      BY <1>5, <2>2, <2>3 DEF AddRequest
<1>6. ASSUME NEW s \in SeqId, AbortRequest(s) PROVE Kept
    BY <1>3, <1>4, <1>6 DEF AbortRequest
<1>7. ASSUME NEW s \in SeqId, waiting # << >>, s = Head(waiting)
      PROVE  seqs[s].status = "WAITING"
  <2>1. waiting \in Seq(SeqId)
      BY DEF EngineInv, Types, TypeOK
  <2>2. s \in ToSet(waiting)
      BY <1>7, <2>1 DEF ToSet
  <2>3. QED
      BY <2>2 DEF EngineInv, Queues
<1>8. ASSUME NEW s \in SeqId, RejectWaiting(s) PROVE Kept
  <2>1. seqs[s].status = "WAITING" /\ Finish(s, seqs[s], "LENGTH")
      BY <1>7, <1>8 DEF RejectWaiting, HandlesWaiting
  <2>2. QED
      BY <1>3, <1>4, <2>1
<1>9. ASSUME NEW s \in SeqId, Admit(s) PROVE Kept
  <2> PICK hits : hits = GetComputedBlocks(kv, s, seqs[s])
      OBVIOUS
  <2>1. seqs' = [seqs EXCEPT ![s].num_computed_tokens = @ + Len(hits) * BlockSize,
                             ![s].status = "RUNNING"]
      BY <1>9 DEF Admit
  <2>2. seqs[s].status = "WAITING"
      BY <1>7, <1>9 DEF Admit, HandlesWaiting
  <2>3. QED
      BY <1>1, <2>1, <2>2 DEF TextKept, EndKept, EngineSeq
<1>10. ASSUME NEW s \in SeqId, PreemptOther(s) \/ PreemptSelf(s) PROVE Kept
  <2> PICK v : v = Victim(s)
      OBVIOUS
  <2>1. HandlesRunning(s) /\ Preempt(v)
      BY <1>10 DEF PreemptOther, PreemptSelf
  <2>2. v \in SeqId /\ v \in ToSet(running)
      BY <2>1, VictimIsLast
  <2>3. seqs[v].status = "RUNNING"
      BY <2>2 DEF EngineInv, Queues
  <2>4. seqs' = [seqs EXCEPT ![v] = ResetForRecompute(@)]
      BY <2>1 DEF Preempt
  <2>5. /\ seqs'[v].token_ids = seqs[v].token_ids
        /\ seqs'[v].prompt_len = seqs[v].prompt_len
        /\ seqs'[v].finish_reason = seqs[v].finish_reason
        /\ seqs'[v].status = "WAITING"
      BY <1>1, <2>2, <2>4 DEF ResetForRecompute, EngineSeq
  <2>6. CASE x = v
      BY <2>3, <2>5, <2>6 DEF TextKept, EndKept
  <2>7. CASE x # v
      BY <1>1, <1>2, <2>4, <2>7
  <2>8. QED
      BY <2>6, <2>7
<1>11. ASSUME NEW s \in SeqId, UpdateSeq(s), x # s PROVE Kept
    BY <1>2, <1>11, UpdatedText
<1>12. CASE Quiet \/ Outputs \/ Reset
    BY <1>2, <1>12, QuietKeeps
<1>13. QED
    BY <1>5, <1>6, <1>8, <1>9, <1>10, <1>11, <1>12 DEF Next, RestOfStep, Schedule, Quiet

\* The text a request has generated, and the part of it that the step under way
\* has appended and not delivered yet.
Text(s) ==
    SubSeq(seqs[s].token_ids, seqs[s].prompt_len + 1, Len(seqs[s].token_ids))

Appended(s) ==
    \/ phase = "outputs"
    \/ phase = "update" /\ s \notin ToSet(todo)

Pending(s) == IF Appended(s) THEN NewTokens(s) ELSE << >>

Streams ==
    \A s \in SeqId :
        /\ delivered[s].tokens \in Seq(Token)
        /\ delivered[s].tokens \o Pending(s) = Text(s)
        /\ seqs[s].prompt_len <= Len(seqs[s].token_ids)

LEMMA NextStreams ==
    ASSUME EngineInv, [Next]_vars, Streams
    PROVE  Streams'
<1> DEFINE Goal(x) == /\ delivered'[x].tokens \in Seq(Token)
                      /\ delivered'[x].tokens \o Pending(x)' = Text(x)'
                      /\ seqs'[x].prompt_len <= Len(seqs'[x].token_ids)
<1> SUFFICES ASSUME NEW x \in SeqId PROVE Goal(x)
    BY DEF Streams
<1>1. /\ delivered[x].tokens \in Seq(Token)
      /\ delivered[x].tokens \o Pending(x) = Text(x)
      /\ seqs[x].prompt_len <= Len(seqs[x].token_ids)
    BY DEF Streams
<1>2. /\ todo \in Seq(SeqId) /\ scheduled \in Seq(Entry) /\ seqs[x] \in EngineSeq
      /\ seqs[x].token_ids \in Seq(Token) /\ seqs[x].prompt_len \in Nat
  <2>1. seqs[x] \in EngineSeq /\ todo \in Seq(SeqId) /\ scheduled \in Seq(Entry)
      BY RunningNeeds DEF EngineInv, Types, TypeOK
  <2>2. QED
      BY <2>1 DEF EngineSeq
<1>3. Text(x) \in Seq(Token)
  <2>1. << >> \in Seq(Token)
      OBVIOUS
  <2>2. QED
      BY <1>1, <1>2, <2>1, TextGrows DEF Text
<1>4. ASSUME TextKept(x), delivered'[x].tokens = delivered[x].tokens,
             Pending(x)' = Pending(x)
      PROVE  Goal(x)
  <2>1. Text(x)' = Text(x)
      BY <1>4 DEF TextKept, Text
  <2>2. QED
      BY <1>1, <1>4, <2>1 DEF TextKept
<1>5. CASE UpdateSeq(x)
  <2>1. /\ phase = "update" /\ phase' = phase /\ todo # << >> /\ x = Head(todo)
        /\ todo' = Tail(todo) /\ UNCHANGED <<scheduled, sampled, delivered>>
        /\ seqs'[x].prompt_len = seqs[x].prompt_len
        /\ NewTokens(x) \in Seq(Token)
        /\ seqs'[x].token_ids = seqs[x].token_ids \o NewTokens(x)
      BY <1>5, UpdatedText
  <2>2. IsInjective(todo)
      BY <2>1 DEF EngineInv, Loops
  <2>3. x \in ToSet(todo) /\ x \notin ToSet(todo')
    <3>1. ToSet(todo') = ToSet(todo) \ {x}
        BY <1>2, <2>1, <2>2, TailDistinct
    <3>2. 1 \in DOMAIN todo /\ x = todo[1]
        BY <1>2, <2>1
    <3>3. x \in ToSet(todo)
        BY <3>2 DEF ToSet
    <3>4. QED
        BY <3>1, <3>3
  <2>4. Pending(x) = << >>
      BY <2>1, <2>3 DEF Pending, Appended
  <2>5. NewTokens(x)' = NewTokens(x)
      BY <2>1 DEF NewTokens, ScheduledIds
  <2>6. Pending(x)' = NewTokens(x)
      BY <2>1, <2>3, <2>5 DEF Pending, Appended
  <2>7. delivered[x].tokens = Text(x)
      BY <1>1, <2>4, ConcatEmptySeq
  <2> PICK u \in Seq(Token) : u = NewTokens(x)
      BY <2>1
  <2>8. /\ Text(x)' = Text(x) \o u
        /\ seqs[x].prompt_len <= Len(seqs'[x].token_ids)
    <3> PICK t \in Seq(Token), p \in Nat :
              t = seqs[x].token_ids /\ p = seqs[x].prompt_len
        BY <1>2
    <3>1. p <= Len(t) /\ seqs'[x].token_ids = t \o u /\ seqs'[x].prompt_len = p
        BY <1>1, <2>1
    <3>2. /\ SubSeq(t \o u, p + 1, Len(t \o u)) = SubSeq(t, p + 1, Len(t)) \o u
          /\ p <= Len(t \o u)
        BY <3>1, TextGrows
    <3>3. Text(x)' = SubSeq(t \o u, p + 1, Len(t \o u))
        BY <3>1 DEF Text
    <3>4. Text(x) = SubSeq(t, p + 1, Len(t))
        BY DEF Text
    <3>5. QED
        BY <3>1, <3>2, <3>3, <3>4
  <2>9. QED
      BY <1>1, <2>1, <2>6, <2>7, <2>8
<1>6. ASSUME NEW s \in SeqId, UpdateSeq(s), x # s
      PROVE  Goal(x)
  <2>1. /\ phase = "update" /\ phase' = phase /\ todo # << >> /\ s = Head(todo)
        /\ todo' = Tail(todo) /\ UNCHANGED <<scheduled, sampled, delivered>>
        /\ seqs'[x] = seqs[x]
      BY <1>6, UpdatedText
  <2>2. IsInjective(todo)
      BY <2>1 DEF EngineInv, Loops
  <2>3. ToSet(todo') = ToSet(todo) \ {s}
      BY <1>2, <2>1, <2>2, TailDistinct
  <2>4. NewTokens(x)' = NewTokens(x)
      BY <2>1 DEF NewTokens, ScheduledIds
  <2>5. Pending(x)' = Pending(x)
      BY <1>6, <2>1, <2>3, <2>4 DEF Pending, Appended
  <2>6. TextKept(x)
      BY <2>1 DEF TextKept
  <2>7. QED
      BY <1>4, <2>1, <2>5, <2>6
<1>7. CASE Outputs
  <2>1. /\ phase = "outputs" /\ phase' = "idle" /\ seqs' = seqs
        /\ delivered'[x].tokens = delivered[x].tokens \o NewTokens(x)
      BY <1>7 DEF Outputs
  <2>2. Pending(x) = NewTokens(x) /\ Pending(x)' = << >>
    <3>1. Appended(x) /\ ~Appended(x)'
        BY <2>1 DEF Appended
    <3>2. QED
        BY <3>1, Zenon DEF Pending
  <2>3. delivered'[x].tokens = Text(x) /\ Text(x)' = Text(x)
      BY <1>1, <2>1, <2>2 DEF Text
  <2>4. Text(x) \o << >> = Text(x)
      BY <1>3, ConcatEmptySeq
  <2>5. QED
      BY <1>1, <1>3, <2>1, <2>2, <2>3, <2>4
<1>8. CASE UpdateDone
  <2>1. /\ phase = "update" /\ phase' = "outputs" /\ todo = << >>
        /\ UNCHANGED <<seqs, scheduled, sampled, delivered>>
      BY <1>8 DEF UpdateDone
  <2>2. x \notin ToSet(todo)
      BY <2>1 DEF ToSet
  <2>3. NewTokens(x)' = NewTokens(x)
      BY <2>1 DEF NewTokens, ScheduledIds
  <2>4. Pending(x)' = Pending(x)
    <3>1. Appended(x) /\ Appended(x)'
        BY <2>1, <2>2 DEF Appended
    <3>2. QED
        BY <2>3, <3>1, Zenon DEF Pending
  <2>5. QED
      BY <1>4, <2>1, <2>4 DEF TextKept
<1>9. CASE ExecuteModel
  <2>1. /\ phase = "execute" /\ phase' = "update"
        /\ todo' = [i \in DOMAIN scheduled |-> scheduled[i].seq_id]
        /\ UNCHANGED <<seqs, scheduled, delivered>>
      BY <1>9 DEF ExecuteModel
  <2>2. x \notin ToSet(todo') => x \notin ScheduledIds'
      BY <2>1 DEF ScheduledIds, ToSet
  <2>3. Pending(x)' = << >> /\ Pending(x) = << >>
      BY <2>1, <2>2 DEF Pending, Appended, NewTokens
  <2>4. QED
      BY <1>4, <2>1, <2>3 DEF TextKept
<1>10. CASE BeginStep \/ NothingToExecute
  <2>1. /\ scheduled = << >> /\ phase \in {"idle", "execute"}
        /\ phase' \in {"running", "outputs", "stalled"}
        /\ UNCHANGED <<seqs, scheduled, delivered>>
      BY <1>10 DEF BeginStep, NothingToExecute, EngineInv, Loops
  <2>2. NewTokens(x)' = << >>
    <3>1. ScheduledIds' = {}
        BY <2>1 DEF ScheduledIds
    <3>2. QED
        BY <3>1 DEF NewTokens
  <2>3. Pending(x)' = << >> /\ Pending(x) = << >>
      BY <2>1, <2>2 DEF Pending, Appended
  <2>4. QED
      BY <1>4, <2>1, <2>3 DEF TextKept
<1>11. ASSUME phase \notin {"update", "outputs"}, phase' \notin {"update", "outputs"},
              delivered'[x].tokens = delivered[x].tokens, TextKept(x)
       PROVE  Goal(x)
  <2>1. Pending(x)' = << >> /\ Pending(x) = << >>
      BY <1>11 DEF Pending, Appended
  <2>2. QED
      BY <1>4, <1>11, <2>1
<1>12. CASE \/ SkipPreempted \/ RequeuePreempted \/ StopAdmitting \/ ExecuteRaises
            \/ Reset
            \/ \E s \in SeqId : \/ ScheduleRunning(s) \/ PreemptOther(s) \/ PreemptSelf(s)
                                \/ RejectWaiting(s) \/ Admit(s)
                                \/ AddRequest(s) \/ AbortRequest(s)
  <2>1. /\ phase \notin {"update", "outputs"} /\ phase' \notin {"update", "outputs"}
        /\ ~Reset => delivered' = delivered
      BY <1>12 DEF SkipPreempted, RequeuePreempted, StopAdmitting, ExecuteRaises, Reset,
                   ScheduleRunning, PreemptOther, PreemptSelf, Preempt, RejectWaiting,
                   Admit, AddRequest, AbortRequest, HandlesRunning, HandlesWaiting,
                   stepVars
  <2>4. Reset => delivered'[x].tokens = delivered[x].tokens
      BY DEF Reset
  <2>2. TextKept(x)
    <3>1. ~UpdateSeq(x)
        BY <2>1 DEF UpdateSeq
    <3>2. QED
        BY <3>1, OnlyUpdatesGrow
  <2>3. QED
      BY <1>11, <2>1, <2>2, <2>4
<1>13. CASE UNCHANGED vars
  <2>1. UNCHANGED <<seqs, phase, todo, scheduled, sampled, delivered>>
      BY <1>13 DEF vars, stepVars
  <2>2. Pending(x)' = Pending(x)
      BY <2>1 DEF Pending, Appended, NewTokens, ScheduledIds
  <2>3. QED
      BY <1>4, <2>1, <2>2 DEF TextKept
<1>14. QED
    BY <1>5, <1>6, <1>7, <1>8, <1>9, <1>10, <1>12, <1>13
       DEF Next, RestOfStep, Schedule

\* A finish is told once, when the engine forgets the request, unless by a reset.
Reports ==
    /\ \A s \in SeqId :
          /\ seqs[s].finish_reason # "NONE" <=> seqs[s].status = "DONE"
          /\ IF s \in sequences \/ seqs[s].status = "NEW" THEN delivered[s].reasons = << >>
             ELSE \/ delivered[s].reasons = <<"RESET">>
                  \/ /\ seqs[s].status = "DONE"
                     /\ delivered[s].reasons = <<seqs[s].finish_reason>>
    /\ ToSet(finished_seqs) \subseteq sequences
    /\ ScheduledIds \subseteq sequences

\* A request the engine does not know is left alone until it is added.
LEMMA OthersStay ==
    ASSUME EngineInv, [Next]_vars, NEW x \in SeqId, x \notin sequences
    PROVE  AddRequest(x) \/ seqs'[x] = seqs[x]
<1>1. /\ seqs \in [SeqId -> EngineSeq] /\ waiting \in Seq(SeqId)
      /\ x \notin ToSet(running) /\ x \notin ToSet(waiting)
    BY RunningNeeds DEF EngineInv, Queues, Types, TypeOK
<1>2. ASSUME NEW s \in SeqId, AddRequest(s) \/ AbortRequest(s)
      PROVE  AddRequest(x) \/ seqs'[x] = seqs[x]
    BY <1>1, <1>2 DEF AddRequest, AbortRequest, Finish
<1>3. ASSUME NEW s \in SeqId, RejectWaiting(s) \/ Admit(s)
      PROVE  seqs'[x] = seqs[x]
  <2>1. waiting # << >> /\ s = Head(waiting)
      BY <1>3 DEF RejectWaiting, Admit, HandlesWaiting
  <2>2. x # s
      BY <1>1, <2>1 DEF ToSet
  <2>3. QED
      BY <1>1, <1>3, <2>2 DEF RejectWaiting, Admit, Finish
<1>4. ASSUME NEW s \in SeqId, PreemptOther(s) \/ PreemptSelf(s)
      PROVE  seqs'[x] = seqs[x]
  <2>1. x # Victim(s)
      BY <1>1, <1>4, VictimIsLast DEF PreemptOther, PreemptSelf
  <2>2. QED
      BY <1>1, <1>4, <2>1 DEF PreemptOther, PreemptSelf, Preempt
<1>5. ASSUME NEW s \in SeqId, UpdateSeq(s) PROVE seqs'[x] = seqs[x]
    BY <1>1, <1>5, UpdatedText
<1>6. Quiet \/ Outputs \/ Reset => seqs'[x] = seqs[x]
    BY QuietKeeps
<1>7. QED
    BY <1>2, <1>3, <1>4, <1>5, <1>6 DEF Next, RestOfStep, Schedule, Quiet

\* The requests that are in hand stay known to the engine.
LEMMA KnownStay ==
    ASSUME EngineInv, [Next]_vars, Reports
    PROVE  ToSet(finished_seqs') \subseteq sequences' /\ ScheduledIds' \subseteq sequences'
<1> DEFINE Known == ToSet(finished_seqs') \subseteq sequences' /\ ScheduledIds' \subseteq sequences'
<1>1. /\ finished_seqs \in Seq(SeqId) /\ scheduled \in Seq(Entry)
      /\ waiting \in Seq(SeqId)
    BY DEF EngineInv, Types, TypeOK
<1>2. /\ ToSet(finished_seqs) \subseteq sequences /\ ScheduledIds \subseteq sequences
      /\ \A s \in ToSet(running) \cup ToSet(waiting) : s \in sequences
    BY DEF Reports, EngineInv, Queues
<1>3. ASSUME sequences \subseteq sequences', NEW s \in SeqId, s \in sequences',
             finished_seqs' \in {finished_seqs, Append(finished_seqs, s)},
             scheduled' = scheduled
      PROVE  Known
  <2>1. ToSet(Append(finished_seqs, s)) = ToSet(finished_seqs) \cup {s}
      BY <1>1, AppendDistinct
  <2>2. QED
      BY <1>2, <1>3, <2>1 DEF ScheduledIds
<1>4. ASSUME UNCHANGED <<sequences, finished_seqs>>,
             scheduled' = scheduled \/ scheduled' = << >>
      PROVE  Known
    BY <1>2, <1>4 DEF ScheduledIds
<1>5. ASSUME NEW s \in SeqId, NEW e \in Entry, e.seq_id \in sequences,
             UNCHANGED <<sequences, finished_seqs>>, scheduled' = Append(scheduled, e)
      PROVE  Known
  <2>1. ToSet(scheduled') = ToSet(scheduled) \cup {e}
      BY <1>1, <1>5, AppendDistinct
  <2>2. \A id \in ScheduledIds' : \E x \in ToSet(scheduled') : id = x.seq_id
      BY DEF ScheduledIds, ToSet
  <2>3. \A x \in ToSet(scheduled) : x.seq_id \in ScheduledIds
      BY DEF ScheduledIds, ToSet
  <2>4. QED
      BY <1>2, <1>5, <2>1, <2>2, <2>3
<1>6. \A s : waiting # << >> /\ s = Head(waiting) => s \in sequences
    BY <1>1, <1>2 DEF ToSet
<1>7. ASSUME NEW s \in SeqId, ScheduleRunning(s) \/ Admit(s)
      PROVE  /\ UNCHANGED <<sequences, finished_seqs>> /\ s \in sequences
             /\ \E n, q : scheduled' = Append(scheduled, Scheduled(s, kv', q, n))
  <2>1. CASE ScheduleRunning(s)
    <3>1. s \in ToSet(running)
        BY <2>1, RunningHead DEF ScheduleRunning, HandlesRunning, Visits
    <3>2. QED
        BY <1>2, <2>1, <3>1 DEF ScheduleRunning, queueVars
  <2>2. CASE Admit(s)
      BY <1>6, <2>2 DEF Admit, HandlesWaiting
  <2>3. QED
      BY <1>7, <2>1, <2>2
<1>8. ASSUME NEW s \in SeqId, ScheduleRunning(s) \/ Admit(s)
      PROVE  Known
  <2> PICK n, q : scheduled' = Append(scheduled, Scheduled(s, kv', q, n))
      BY <1>7, <1>8
  <2> PICK e : e = Scheduled(s, kv', q, n)
      OBVIOUS
  <2>3. scheduled' = Append(scheduled, e) /\ e.seq_id = s
      BY DEF Scheduled
  <2>1. e \in Entry
    <3>1. scheduled' \in Seq(Entry)
        BY NextInv DEF EngineInv, Types
    <3>2. scheduled'[Len(scheduled) + 1] = e /\ Len(scheduled) + 1 \in DOMAIN scheduled'
        BY <1>1, <2>3
    <3>3. QED
        BY <3>1, <3>2
  <2>2. QED
      BY <1>5, <1>7, <1>8, <2>1, <2>3
<1>9. ASSUME NEW s \in SeqId,
             AddRequest(s) \/ AbortRequest(s) \/ RejectWaiting(s) \/ UpdateSeq(s)
      PROVE  /\ sequences \subseteq sequences' /\ s \in sequences'
             /\ finished_seqs' \in {finished_seqs, Append(finished_seqs, s)}
             /\ scheduled' = scheduled
  <2>1. CASE UpdateSeq(s)
    <3>1. /\ s \in ToSet(running) /\ UNCHANGED <<sequences, scheduled>>
          /\ finished_seqs' \in {finished_seqs, Append(finished_seqs, s)}
        BY <2>1, UpdatedText
    <3>2. QED
        BY <1>2, <3>1
  <2>2. CASE AddRequest(s)
      BY <2>2 DEF AddRequest, Finish, stepVars
  <2>3. CASE AbortRequest(s)
      BY <2>3 DEF AbortRequest, Finish, stepVars
  <2>4. CASE RejectWaiting(s)
      BY <1>6, <2>4 DEF RejectWaiting, HandlesWaiting, Finish, stepVars
  <2>5. QED
      BY <1>9, <2>1, <2>2, <2>3, <2>4
<1>10. CASE Outputs \/ Reset
  <2>1. finished_seqs' = << >> /\ scheduled' = << >>
      BY <1>10 DEF Outputs, Reset, stepVars, EngineInv, Loops
  <2>2. ToSet(finished_seqs') = {} /\ ScheduledIds' = {}
      BY <2>1 DEF ToSet, ScheduledIds
  <2>3. QED
      BY <2>2
<1>11. CASE \/ BeginStep \/ SkipPreempted \/ RequeuePreempted \/ StopAdmitting
            \/ NothingToExecute \/ ExecuteModel \/ ExecuteRaises \/ UpdateDone
            \/ UNCHANGED vars
            \/ \E s \in SeqId : PreemptOther(s) \/ PreemptSelf(s)
  <2>1. /\ UNCHANGED <<sequences, finished_seqs>>
        /\ scheduled' = scheduled \/ scheduled' = << >>
      BY <1>11 DEF BeginStep, SkipPreempted, RequeuePreempted, StopAdmitting,
                   NothingToExecute, ExecuteModel, ExecuteRaises, UpdateDone,
                   PreemptOther, PreemptSelf, Preempt, vars, queueVars, stepVars
  <2>2. QED
      BY <1>4, <2>1
<1>12. QED
    BY <1>3, <1>8, <1>9, <1>10, <1>11 DEF Next, RestOfStep, Schedule

LEMMA NextReports ==
    ASSUME EngineInv, [Next]_vars, Reports
    PROVE  Reports'
<1> DEFINE Right(q, known, r) ==
               IF known \/ q.status = "NEW" THEN r = << >>
               ELSE r = <<"RESET">> \/ (q.status = "DONE" /\ r = <<q.finish_reason>>)
<1> SUFFICES ASSUME NEW x \in SeqId
             PROVE  /\ seqs'[x].finish_reason # "NONE" <=> seqs'[x].status = "DONE"
                    /\ Right(seqs'[x], x \in sequences', delivered'[x].reasons)
    BY KnownStay DEF Reports
<1>1. /\ seqs[x].finish_reason # "NONE" <=> seqs[x].status = "DONE"
      /\ Right(seqs[x], x \in sequences, delivered[x].reasons)
      /\ ToSet(finished_seqs) \subseteq sequences
      /\ ScheduledIds \subseteq sequences
    BY DEF Reports
<1>2. seqs'[x].finish_reason # "NONE" <=> seqs'[x].status = "DONE"
  <2>1. EndKept(x) \/ Ends(x)
    <3>1. UpdateSeq(x) => EndKept(x) \/ Ends(x)
        BY UpdatedText
    <3>2. QED
        BY <3>1, OnlyUpdatesGrow
  <2>2. QED
      BY <1>1, <2>1 DEF EndKept, Ends, Reasons
<1>3. CASE Outputs
  <2>1. /\ seqs' = seqs /\ sequences' = sequences \ ToSet(finished_seqs)
        /\ delivered'[x].reasons = delivered[x].reasons \o NewReasons(x)
      BY <1>3 DEF Outputs
  <2> PICK q, r : q = seqs[x].finish_reason /\ r = delivered[x].reasons
      OBVIOUS
  <2>2. CASE NewReasons(x) = << >>
    <3>1. r \o << >> = r
      <4>1. << >> \o << >> = << >>
          OBVIOUS
      <4>2. <<q>> \o << >> = <<q>> /\ <<"RESET">> \o << >> = <<"RESET">>
          BY ConcatOne
      <4>3. r \in {<< >>, <<q>>, <<"RESET">>}
          BY <1>1
      <4>4. QED
          BY <4>1, <4>2, <4>3
    <3>2. x \notin ToSet(finished_seqs)
        BY <1>1, <2>2 DEF NewReasons, EngineInv, Queues
    <3>3. QED
        BY <1>1, <1>2, <2>1, <2>2, <3>1, <3>2
  <2>3. CASE NewReasons(x) # << >>
    <3>1. NewReasons(x) = <<q>> /\ q # "NONE" /\ x \in sequences
        BY <1>1, <2>3 DEF NewReasons
    <3>2. << >> \o <<q>> = <<q>>
        BY ConcatOne
    <3>3. seqs[x].status = "DONE" /\ x \in ToSet(finished_seqs)
        BY <1>1, <3>1 DEF EngineInv, Queues
    <3>4. QED
        BY <1>1, <1>2, <2>1, <3>1, <3>2, <3>3
  <2>4. QED
      BY <2>2, <2>3
<1>4. CASE Reset
  <2>1. /\ seqs' = seqs /\ x \notin sequences' /\ (x \in sequences => seqs[x].status # "NEW")
      BY <1>4 DEF Reset, EngineInv, Queues
  <2>2. delivered'[x].reasons =
            IF x \in sequences THEN Append(delivered[x].reasons, "RESET")
            ELSE delivered[x].reasons
      BY <1>4 DEF Reset
  <2>3. Append(<< >>, "RESET") = <<"RESET">>
      OBVIOUS
  <2>4. QED
      BY <1>1, <1>2, <2>1, <2>2, <2>3
<1>5. ASSUME NEW s \in SeqId, AddRequest(s)
      PROVE  Right(seqs'[x], x \in sequences', delivered'[x].reasons)
  <2>1. /\ delivered' = delivered /\ sequences' = sequences \cup {s}
        /\ seqs[s].status = "NEW"
      BY <1>5 DEF AddRequest
  <2>2. x = s \/ x \in sequences \/ seqs'[x] = seqs[x]
      BY <1>5, OthersStay DEF AddRequest
  <2>3. QED
      BY <1>1, <2>1, <2>2
<1>6. ASSUME delivered' = delivered, sequences' = sequences,
             \A s \in SeqId : ~AddRequest(s)
      PROVE  Right(seqs'[x], x \in sequences', delivered'[x].reasons)
    BY <1>1, <1>6, OthersStay
<1>7. CASE \/ Quiet
           \/ \E s \in SeqId : \/ PreemptOther(s) \/ PreemptSelf(s) \/ RejectWaiting(s)
                               \/ Admit(s) \/ AbortRequest(s) \/ UpdateSeq(s)
  <2>1. delivered' = delivered /\ sequences' = sequences
      BY <1>7, QuietKeeps DEF PreemptOther, PreemptSelf, Preempt, RejectWaiting, Admit,
                              AbortRequest, UpdateSeq, stepVars
  <2>2. QED
      BY <1>2, <1>5, <1>6, <2>1
<1>8. QED
    BY <1>2, <1>3, <1>4, <1>5, <1>7 DEF Next, RestOfStep, Schedule, Quiet

\* Nobody has been told anything yet.
LEMMA StartsTold == Init => Streams /\ Reports
<1> SUFFICES ASSUME Init PROVE Streams /\ Reports
    OBVIOUS
<1>1. finished_seqs = << >> /\ scheduled = << >> /\ sequences = {} /\ phase = "idle"
    BY DEF Init
<1>2. ToSet(finished_seqs) = {} /\ ScheduledIds = {}
    BY <1>1 DEF ToSet, ScheduledIds
<1>3. ASSUME NEW s \in SeqId
      PROVE  /\ delivered[s].tokens = << >> /\ delivered[s].reasons = << >>
             /\ seqs[s].status = "NEW" /\ seqs[s].finish_reason = "NONE"
             /\ \E p \in Prompts : seqs[s].token_ids = p /\ seqs[s].prompt_len = Len(p)
    BY DEF Init
<1>4. ASSUME NEW s \in SeqId
      PROVE  /\ delivered[s].tokens \in Seq(Token)
             /\ delivered[s].tokens \o Pending(s) = Text(s)
             /\ seqs[s].prompt_len <= Len(seqs[s].token_ids)
  <2> PICK p \in Prompts : seqs[s].token_ids = p /\ seqs[s].prompt_len = Len(p)
      BY <1>3
  <2>1. p \in Seq(Token) /\ Len(p) \in Nat
      BY PromptsAssumption
  <2>2. SubSeq(p, Len(p) + 1, Len(p)) = << >>
      BY <2>1, SubSeqProperties
  <2>3. Text(s) = << >>
      BY <2>2 DEF Text
  <2>4. Pending(s) = << >>
      BY <1>1 DEF Pending, Appended
  <2>5. << >> \in Seq(Token) /\ << >> \o << >> = << >>
      OBVIOUS
  <2>6. delivered[s].tokens = << >>
      BY <1>3
  <2>7. seqs[s].prompt_len <= Len(seqs[s].token_ids)
      BY <2>1
  <2>8. delivered[s].tokens \o Pending(s) = Text(s)
      BY <2>3, <2>4, <2>5, <2>6
  <2>9. QED
      BY <2>5, <2>6, <2>7, <2>8
<1>5. QED
    BY <1>1, <1>2, <1>3, <1>4 DEF Streams, Reports

\* Between two steps, what a caller has been told of a request is its generated
\* text, token by token, whatever was preempted, recomputed or raised, and its
\* finish, exactly once, with its reason, if the engine has forgotten it and not
\* by a reset.
THEOREM DeliveredIsAlwaysGenerated == Spec => []DeliveredIsGenerated
<1>1. Init => Streams /\ Reports
    BY StartsTold
<1>2. EngineInv /\ Streams /\ Reports /\ [Next]_vars => Streams' /\ Reports'
    BY NextStreams, NextReports
<1>3. Streams /\ Reports => DeliveredIsGenerated
  <2> SUFFICES ASSUME Streams, Reports, phase = "idle", NEW s \in SeqId
               PROVE  /\ delivered[s].tokens = Text(s)
                      /\ delivered[s].reasons \in
                             IF seqs[s].status = "NEW" \/ s \in sequences THEN {<< >>}
                             ELSE {<<seqs[s].finish_reason>>, <<"RESET">>}
      BY DEF DeliveredIsGenerated, Text
  <2>1. Pending(s) = << >>
      BY DEF Pending, Appended
  <2>2. /\ delivered[s].tokens \in Seq(Token)
        /\ delivered[s].tokens \o << >> = Text(s)
      BY <2>1 DEF Streams
  <2>3. delivered[s].tokens = Text(s)
      BY <2>2, ConcatEmptySeq
  <2>4. QED
      BY <2>3 DEF Reports
<1>4. QED
    BY <1>1, <1>2, <1>3, EngineInvariant, PTL DEF Spec

-----------------------------------------------------------------------------
(* What the cache holds.                                                   *)

\* The step under way will store x for the sequence s, which has it at offset o
\* of the i-th block of its table.
StoresAt(s, i, o, x) ==
    /\ s \in ScheduledIds
    /\ i \in DOMAIN BlockTable(kv, s)
    /\ o \in Offsets
    /\ x = SlotAt(BlockTable(kv, s)[i], o)
    /\ seqs[s].num_computed_tokens <= At(i, o)
    /\ At(i, o) < Len(seqs[s].token_ids)

Due(x) ==
    /\ phase \in {"running", "waiting", "execute"}
    /\ \E s, i, o : StoresAt(s, i, o, x)

\* What the cache holds for s: once the forward pass has run, all its tokens.
Filled(s) ==
    IF phase = "update" /\ s \in ToSet(todo)
    THEN Len(seqs[s].token_ids) ELSE seqs[s].num_computed_tokens

\* A registered block holds the prefix its key names, held by a sequence or not.
KeysTell ==
    \A b \in Block, o \in Offsets :
        \/ kv.block_keys[b] = NoKey
        \/ Due(SlotAt(b, o))
        \/ content[SlotAt(b, o)] =
               SubSeq(kv.block_keys[b], 1, Len(kv.block_keys[b]) - BlockSize + o + 1)

\* The blocks of a running sequence hold its own prefix.
TablesTell ==
    \A s \in ToSet(running) : \A i \in DOMAIN BlockTable(kv, s), o \in Offsets :
        \/ At(i, o) >= Filled(s)
        \/ Due(SlotAt(BlockTable(kv, s)[i], o))
        \/ content[SlotAt(BlockTable(kv, s)[i], o)] = UpTo(seqs[s].token_ids, i, o)

\* A slot is one place of one block.
LEMMA SlotParts ==
    ASSUME NEW b \in Block, NEW o \in Offsets
    PROVE  /\ SlotAt(b, o) \in Slots
           /\ \A c \in Block, p \in Offsets : SlotAt(b, o) = SlotAt(c, p) => b = c /\ o = p
<1>1. b * BlockSize + o \in Slots
    BY SlotsOfBlocks DEF Offsets
<1>2. ASSUME NEW c \in Block, NEW p \in Offsets, SlotAt(b, o) = SlotAt(c, p)
      PROVE  b = c /\ o = p
  <2>1. b = c
      BY <1>2, SlotsOfBlocks DEF Offsets, SlotAt
  <2>2. b * BlockSize \in Nat /\ o \in Nat /\ p \in Nat
      BY BlockSizeAssumption DEF Block, Offsets
  <2>3. o = p
      BY <1>2, <2>1, <2>2 DEF SlotAt
  <2>4. QED
      BY <2>1, <2>3
<1>3. QED
    BY <1>1, <1>2 DEF SlotAt

\* What the invariant says of the table of a running sequence.
LEMMA TableOf ==
    ASSUME EngineInv, NEW s \in ToSet(running)
    PROVE  /\ s \in SeqId /\ s \in DOMAIN kv.request_blocks
           /\ BlockTable(kv, s) = kv.request_blocks[s]
           /\ BlockTable(kv, s) \in Seq(Block) /\ IsInjective(BlockTable(kv, s))
           /\ \A i \in DOMAIN BlockTable(kv, s) :
                  i \in Nat \ {0} /\ BlockTable(kv, s)[i] \in Block
           /\ seqs[s].token_ids \in Seq(Token) /\ Len(seqs[s].token_ids) \in Nat
           /\ seqs[s].num_computed_tokens \in Nat
           /\ seqs[s].num_computed_tokens < Len(seqs[s].token_ids)
           /\ seqs[s].num_computed_tokens <= Len(BlockTable(kv, s)) * BlockSize
           /\ Projected(kv, seqs)[s].token_ids = seqs[s].token_ids
<1>1. /\ seqs \in [SeqId -> EngineSeq] /\ running \in Seq(SeqId)
      /\ s \in DOMAIN kv.request_blocks /\ KVInv(kv)
    BY RunningNeeds DEF EngineInv, Queues, Sharing
<1>2. s \in SeqId
    BY <1>1 DEF ToSet
<1>3. /\ Projected(kv, seqs)[s].token_ids = seqs[s].token_ids
      /\ Projected(kv, seqs)[s].num_computed_tokens = seqs[s].num_computed_tokens
      /\ seqs[s].token_ids \in Seq(Token) /\ Len(seqs[s].token_ids) \in Nat
      /\ seqs[s].num_computed_tokens \in Nat
    BY <1>1, <1>2, ProjectedTypes DEF Holds
<1>4. /\ kv.request_blocks[s] \in Seq(Block) /\ IsInjective(kv.request_blocks[s])
      /\ BlockTable(kv, s) = kv.request_blocks[s]
    BY <1>1, TablesAreSequences DEF BlockTable, Holds
<1>5. \A i \in DOMAIN BlockTable(kv, s) :
          i \in Nat \ {0} /\ BlockTable(kv, s)[i] \in Block
    BY <1>4
<1>6. seqs[s].num_computed_tokens < Len(seqs[s].token_ids)
    BY <1>2 DEF EngineInv, Tokens
<1>7. seqs[s].num_computed_tokens <= Len(BlockTable(kv, s)) * BlockSize
    BY <1>1, <1>3, <1>4 DEF EngineInv, Sharing, TablesCover
<1>8. QED
    BY <1>1, <1>2, <1>3, <1>4, <1>5, <1>6, <1>7

\* The key of a block in the table of a running sequence is that sequence's.
LEMMA KeyOfTable ==
    ASSUME EngineInv, NEW s \in ToSet(running), NEW i \in DOMAIN BlockTable(kv, s),
           kv.block_keys[BlockTable(kv, s)[i]] # NoKey
    PROVE  /\ i * BlockSize <= Len(seqs[s].token_ids)
           /\ kv.block_keys[BlockTable(kv, s)[i]] = SubSeq(seqs[s].token_ids, 1, i * BlockSize)
<1> PICK b : b = BlockTable(kv, s)[i]
    OBVIOUS
<1>1. /\ s \in DOMAIN kv.request_blocks /\ i \in DOMAIN kv.request_blocks[s]
      /\ b = kv.request_blocks[s][i] /\ kv.block_keys[b] # NoKey
      /\ Projected(kv, seqs)[s].token_ids = seqs[s].token_ids
      /\ i \in Nat \ {0}
    BY TableOf
<1>2. KeysNameTheirPlace(kv, Projected(kv, seqs))
    BY DEF EngineInv, Sharing
<1>3. /\ i * BlockSize <= Len(seqs[s].token_ids)
      /\ kv.block_keys[b] = BlockKey(Projected(kv, seqs)[s], i - 1)
    BY <1>1, <1>2 DEF KeysNameTheirPlace
<1>4. i - 1 + 1 = i
    BY <1>1
<1>5. kv.block_keys[b] = SubSeq(seqs[s].token_ids, 1, i * BlockSize)
    BY <1>1, <1>3, <1>4 DEF BlockKey
<1>6. QED
    BY <1>3, <1>5

\* Two running sequences that have the same slot in their tables have it for the
\* same prefix.
LEMMA SamePlace ==
    ASSUME EngineInv, NEW s \in ToSet(running), NEW t \in ToSet(running),
           NEW i \in DOMAIN BlockTable(kv, s), NEW j \in DOMAIN BlockTable(kv, t),
           NEW o \in Offsets, NEW p \in Offsets,
           SlotAt(BlockTable(kv, s)[i], o) = SlotAt(BlockTable(kv, t)[j], p)
    PROVE  UpTo(seqs[s].token_ids, i, o) = UpTo(seqs[t].token_ids, j, p)
<1> PICK b \in Block, c \in Block : b = BlockTable(kv, s)[i] /\ c = BlockTable(kv, t)[j]
    BY TableOf
<1>1. b = c /\ o = p
    BY SlotParts
<1>2. CASE s = t
  <2>1. IsInjective(BlockTable(kv, s))
      BY TableOf
  <2>2. i = j
      BY <1>1, <1>2, <2>1 DEF IsInjective
  <2>3. QED
      BY <1>1, <1>2, <2>2
<1>3. CASE s # t
  <2>1. /\ s \in DOMAIN kv.request_blocks /\ BlockTable(kv, s) = kv.request_blocks[s]
        /\ t \in DOMAIN kv.request_blocks /\ BlockTable(kv, t) = kv.request_blocks[t]
        /\ seqs[s].token_ids \in Seq(Token) /\ seqs[t].token_ids \in Seq(Token)
        /\ i \in Nat \ {0} /\ j \in Nat \ {0}
      BY TableOf
  <2>2. kv.block_keys[b] # NoKey
    <3>1. b \in ToSet(kv.request_blocks[s]) \cap ToSet(kv.request_blocks[t])
        BY <1>1, <2>1 DEF ToSet
    <3>2. QED
        BY <1>3, <2>1, <3>1 DEF EngineInv, Sharing, SharedBlocksHaveKeys
  <2>3. /\ i * BlockSize <= Len(seqs[s].token_ids)
        /\ kv.block_keys[b] = SubSeq(seqs[s].token_ids, 1, i * BlockSize)
      BY <2>2, KeyOfTable
  <2>4. /\ j * BlockSize <= Len(seqs[t].token_ids)
        /\ kv.block_keys[b] = SubSeq(seqs[t].token_ids, 1, j * BlockSize)
      BY <1>1, <2>2, KeyOfTable
  <2> PICK key : key = kv.block_keys[b]
      OBVIOUS
  <2>5. SubSeq(key, 1, Len(key) - BlockSize + o + 1) = UpTo(seqs[s].token_ids, i, o)
      BY <2>1, <2>3, KeyTells, SMTT(30)
  <2>6. SubSeq(key, 1, Len(key) - BlockSize + p + 1) = UpTo(seqs[t].token_ids, j, p)
      BY <2>1, <2>4, KeyTells, SMTT(30)
  <2>7. QED
      BY <1>1, <2>5, <2>6
<1>4. QED
    BY <1>2, <1>3

\* The slots schedule() recorded for a sequence are those of its positions that
\* are not computed yet, in order.
LEMMA SlotsToStore ==
    ASSUME EngineInv, phase \in {"running", "waiting", "execute"},
           NEW e \in ToSet(scheduled), NEW s, s = e.seq_id
    PROVE  /\ s \in ToSet(running) /\ s \in ScheduledIds
           /\ DOMAIN e.slot_mapping = 1 .. e.num_tokens
           /\ e.num_tokens \in Nat
           /\ \A k \in 1 .. e.num_tokens :
                  \E i, o : /\ StoresAt(s, i, o, e.slot_mapping[k])
                            /\ At(i, o) + 1 = seqs[s].num_computed_tokens + k
           /\ \A i, o, x : StoresAt(s, i, o, x) => x \in ToSet(e.slot_mapping)
<1> DEFINE table == BlockTable(kv, s)
           len == Len(seqs[s].token_ids)
           done == seqs[s].num_computed_tokens
           n == NumTokensToCompute(seqs[s])
<1>1. /\ s \in ToSet(running)
      /\ e = Scheduled(s, kv, seqs[s], n)
      /\ CeilDiv(len, BlockSize) <= Len(table)
    BY DEF EngineInv, LiveSchedule, Live
<1>2. s \in ScheduledIds
    BY DEF ScheduledIds, ToSet
<1>3. /\ table = kv.request_blocks[s] /\ table \in Seq(Block)
      /\ \A i \in DOMAIN table : i \in Nat \ {0} /\ table[i] \in Block
      /\ len \in Nat /\ done \in Nat /\ done < len
    BY <1>1, TableOf
<1>4. n = len - done /\ n \in Nat
    BY <1>3 DEF NumTokensToCompute
<1>5. /\ e.num_tokens = n
      /\ e.slot_mapping = SlotMapping(kv, s, seqs[s], n)
    BY <1>1 DEF Scheduled
<1>6. /\ len <= Len(table) * BlockSize /\ Len(table) * BlockSize \in Nat
      /\ Len(table) \in Nat
  <2>1. CeilDiv(len, BlockSize) \in Nat /\ len <= CeilDiv(len, BlockSize) * BlockSize
      BY <1>3, BlockSizeAssumption, CeilCovers
  <2>2. Len(table) \in Nat
      BY <1>3
  <2>3. CeilDiv(len, BlockSize) * BlockSize <= Len(table) * BlockSize
      BY <1>1, <2>1, <2>2, BlockSizeAssumption, TimesMonotone
  <2> PICK a \in Nat, b \in Nat : /\ a = CeilDiv(len, BlockSize) * BlockSize
                                  /\ b = Len(table) * BlockSize
      BY <2>1, <2>2, BlockSizeAssumption
  <2>4. len <= b
      BY <1>3, <2>1, <2>3
  <2>5. QED
      BY <2>2, <2>4
<1> HIDE DEF table, len, done, n
<1>7. /\ DOMAIN e.slot_mapping = 1 .. n
      /\ \A k \in 1 .. n : \A pos : pos = done + k - 1 =>
             e.slot_mapping[k] = table[(pos \div BlockSize) + 1] * BlockSize
                                     + (pos % BlockSize)
    BY <1>3, <1>5 DEF SlotMapping, done
<1>8. ASSUME NEW k \in 1 .. n
      PROVE  \E i, o : /\ StoresAt(s, i, o, e.slot_mapping[k])
                       /\ At(i, o) + 1 = done + k
  <2> PICK pos \in Nat : pos = done + k - 1
      BY <1>3, <1>4
  <2>1. pos < len /\ done <= pos /\ pos + 1 = done + k
      BY <1>3, <1>4
  <2>2. pos < Len(table) * BlockSize
      BY <1>3, <1>6, <2>1
  <2> PICK i, o : i = (pos \div BlockSize) + 1 /\ o = pos % BlockSize
      OBVIOUS
  <2>3. i \in 1 .. Len(table)
      BY <1>6, <2>2, PlaceInTable
  <2>4. o \in Offsets /\ pos = At(i, o)
      BY PlaceOf
  <2>5. e.slot_mapping[k] = SlotAt(table[i], o)
      BY <1>7 DEF SlotAt
  <2>6. i \in DOMAIN table
      BY <1>3, <2>3
  <2>7. StoresAt(s, i, o, e.slot_mapping[k])
      BY <1>2, <2>1, <2>4, <2>5, <2>6 DEF StoresAt, table, len, done
  <2>8. QED
      BY <2>1, <2>4, <2>7
<1>9. ASSUME NEW i, NEW o, NEW x, StoresAt(s, i, o, x)
      PROVE  x \in ToSet(e.slot_mapping)
  <2>1. /\ i \in DOMAIN table /\ o \in Offsets /\ x = SlotAt(table[i], o)
        /\ done <= At(i, o) /\ At(i, o) < len
      BY <1>9 DEF StoresAt, table, len, done
  <2>2. i \in Nat \ {0}
      BY <1>3, <2>1
  <2> PICK pos \in Nat : pos = At(i, o)
      BY <2>1, <2>2, Places
  <2>3. (pos \div BlockSize) + 1 = i /\ pos % BlockSize = o
      BY <2>1, <2>2, PlaceIsOne
  <2> PICK k \in 1 .. n : pos = done + k - 1
    <3>1. pos - done + 1 \in 1 .. n /\ pos = done + (pos - done + 1) - 1
        BY <1>3, <1>4, <2>1
    <3>2. QED
        BY <3>1
  <2>4. e.slot_mapping[k] = table[i] * BlockSize + o
      BY <1>7, <2>3
  <2>5. x = e.slot_mapping[k]
      BY <2>1, <2>4 DEF SlotAt
  <2>6. QED
      BY <1>7, <2>5 DEF ToSet
<1>10. QED
    BY <1>1, <1>2, <1>4, <1>5, <1>7, <1>8, <1>9 DEF done

\* The forward pass stores what is due, and nothing else.
LEMMA StoresWhatIsDue ==
    ASSUME EngineInv, phase = "execute", NEW x \in Slots
    PROVE  IF Due(x)
           THEN \E s, i, o : /\ StoresAt(s, i, o, x)
                             /\ Stored[x] = UpTo(seqs[s].token_ids, i, o)
           ELSE Stored[x] = content[x]
<1>1. CASE \E e \in ToSet(scheduled) : x \in ToSet(e.slot_mapping)
  <2> DEFINE e == CHOOSE e \in ToSet(scheduled) : x \in ToSet(e.slot_mapping)
             k == CHOOSE k \in 1 .. e.num_tokens : e.slot_mapping[k] = x
             seq == seqs[e.seq_id]
  <2>1. e \in ToSet(scheduled) /\ x \in ToSet(e.slot_mapping)
      BY <1>1
  <2>2. Stored[x] = SubSeq(seq.token_ids, 1, seq.num_computed_tokens + k)
      BY <1>1 DEF Stored
  <2> HIDE DEF e
  <2>3. DOMAIN e.slot_mapping = 1 .. e.num_tokens
      BY <2>1, SlotsToStore
  <2>4. k \in 1 .. e.num_tokens /\ e.slot_mapping[k] = x
    <3>1. \E m \in 1 .. e.num_tokens : e.slot_mapping[m] = x
        BY <2>1, <2>3 DEF ToSet
    <3>2. QED
        BY <3>1
  <2> HIDE DEF k
  <2>5. PICK i, o : /\ StoresAt(e.seq_id, i, o, x)
                    /\ At(i, o) + 1 = seq.num_computed_tokens + k
    <3>1. \E i, o : /\ StoresAt(e.seq_id, i, o, e.slot_mapping[k])
                    /\ At(i, o) + 1 = seqs[e.seq_id].num_computed_tokens + k
        BY <2>1, <2>4, SlotsToStore
    <3>2. QED
        BY <2>4, <3>1
  <2>6. Stored[x] = UpTo(seq.token_ids, i, o)
      BY <2>2, <2>5 DEF UpTo
  <2>7. Due(x)
      BY <2>5 DEF Due
  <2>8. \E s, ii, oo : /\ StoresAt(s, ii, oo, x)
                       /\ Stored[x] = UpTo(seqs[s].token_ids, ii, oo)
      BY <2>5, <2>6
  <2>9. QED
      BY <2>7, <2>8
<1>2. CASE ~\E e \in ToSet(scheduled) : x \in ToSet(e.slot_mapping)
  <2>1. Stored[x] = content[x]
      BY <1>2 DEF Stored
  <2>2. ~Due(x)
    <3>1. SUFFICES ASSUME NEW s, NEW i, NEW o, StoresAt(s, i, o, x) PROVE FALSE
        BY DEF Due
    <3>2. PICK e \in ToSet(scheduled) : e.seq_id = s
        BY <3>1 DEF StoresAt, ScheduledIds, ToSet
    <3>3. x \in ToSet(e.slot_mapping)
        BY <3>1, <3>2, SlotsToStore
    <3>4. QED
        BY <1>2, <3>2, <3>3
  <2>3. QED
      BY <2>1, <2>2
<1>3. QED
    BY <1>1, <1>2

\* A step that stores nothing and, of the tokens that attention may read of s,
\* changes none.
StaysRead(s) ==
    /\ s \in ToSet(running)
    /\ BlockTable(kv', s) = BlockTable(kv, s)
    /\ Filled(s)' \in Nat /\ Filled(s)' <= Filled(s)
    /\ \E more \in Seq(Token) : seqs'[s].token_ids = seqs[s].token_ids \o more

\* What the cache holds for a running sequence is no more than its tokens.
LEMMA FilledBound ==
    ASSUME EngineInv, NEW s \in ToSet(running)
    PROVE  Filled(s) \in Nat /\ Filled(s) <= Len(seqs[s].token_ids)
<1>1. /\ Len(seqs[s].token_ids) \in Nat /\ seqs[s].num_computed_tokens \in Nat
      /\ seqs[s].num_computed_tokens < Len(seqs[s].token_ids)
    BY TableOf
<1> PICK n \in Nat, m \in Nat :
         n = Len(seqs[s].token_ids) /\ m = seqs[s].num_computed_tokens
    BY <1>1
<1>2. Filled(s) = n \/ Filled(s) = m
    BY DEF Filled
<1>3. QED
    BY <1>1, <1>2

\* A step that stores nothing, registers nothing and leaves the tables of those
\* that go on running alone.
LEMMA ContentStays ==
    ASSUME EngineInv, KeysTell, TablesTell, content' = content,
           \A b \in Block : kv'.block_keys[b] \in {NoKey, kv.block_keys[b]},
           \A s \in ToSet(running') : StaysRead(s),
           \A x : Due(x) => Due(x)'
    PROVE  KeysTell' /\ TablesTell'
<1>1. KeysTell'
  <2>1. SUFFICES ASSUME NEW b \in Block, NEW o \in Offsets,
                        kv'.block_keys[b] # NoKey, ~Due(SlotAt(b, o))'
                 PROVE  content'[SlotAt(b, o)] =
                            SubSeq(kv'.block_keys[b], 1,
                                   Len(kv'.block_keys[b]) - BlockSize + o + 1)
      BY DEF KeysTell
  <2>2. kv'.block_keys[b] = kv.block_keys[b] /\ kv.block_keys[b] # NoKey
      BY <2>1
  <2>3. ~Due(SlotAt(b, o))
      BY <2>1
  <2>4. content[SlotAt(b, o)] =
            SubSeq(kv.block_keys[b], 1, Len(kv.block_keys[b]) - BlockSize + o + 1)
      BY <2>2, <2>3 DEF KeysTell
  <2>5. QED
      BY <2>2, <2>4
<1>2. TablesTell'
  <2>1. SUFFICES ASSUME NEW s \in ToSet(running'), NEW i \in DOMAIN BlockTable(kv', s),
                        NEW o \in Offsets, NEW x, x = SlotAt(BlockTable(kv', s)[i], o),
                        ~(At(i, o) >= Filled(s)'), ~Due(x)'
                 PROVE  content'[x] = UpTo(seqs'[s].token_ids, i, o)
      BY DEF TablesTell
  <2>2. /\ s \in ToSet(running) /\ BlockTable(kv', s) = BlockTable(kv, s)
        /\ Filled(s)' \in Nat /\ Filled(s)' <= Filled(s)
      BY DEF StaysRead
  <2> PICK more \in Seq(Token) : seqs'[s].token_ids = seqs[s].token_ids \o more
      BY DEF StaysRead
  <2>3. i \in Nat \ {0} /\ seqs[s].token_ids \in Seq(Token)
      BY <2>2, TableOf
  <2>4. Filled(s) \in Nat /\ Filled(s) <= Len(seqs[s].token_ids)
      BY <2>2, FilledBound
  <2>5. At(i, o) \in Nat
      BY <2>3, Places
  <2>6. ~(At(i, o) >= Filled(s)) /\ At(i, o) < Len(seqs[s].token_ids)
    <3> PICK a, f, g, n : /\ a = At(i, o) /\ f = Filled(s)' /\ g = Filled(s)
                          /\ n = Len(seqs[s].token_ids)
        OBVIOUS
    <3>1. a \in Nat /\ f \in Nat /\ g \in Nat /\ n \in Nat
          /\ ~(a >= f) /\ f <= g /\ g <= n
        BY <2>1, <2>2, <2>3, <2>4, <2>5
    <3>2. QED
        BY <3>1
  <2>7. ~Due(x)
      BY <2>1
  <2>8. content[x] = UpTo(seqs[s].token_ids, i, o)
      BY <2>1, <2>2, <2>6, <2>7 DEF TablesTell
  <2>9. UpTo(seqs'[s].token_ids, i, o) = UpTo(seqs[s].token_ids, i, o)
      BY <2>3, <2>6, UpToGrows
  <2>10. QED
      BY <2>8, <2>9
<1>3. QED
    BY <1>1, <1>2

\* What is due stays due while the schedule, and what it says of the scheduled
\* sequences, stays.
LEMMA DuesStay ==
    ASSUME \/ phase \notin {"running", "waiting", "execute"}
           \/ scheduled = << >>
           \/ /\ phase' \in {"running", "waiting", "execute"}
              /\ scheduled' = scheduled
              /\ \A t \in ScheduledIds :
                     /\ BlockTable(kv', t) = BlockTable(kv, t)
                     /\ seqs'[t].token_ids = seqs[t].token_ids
                     /\ seqs'[t].num_computed_tokens = seqs[t].num_computed_tokens
    PROVE  \A x : Due(x) => Due(x)'
<1> SUFFICES ASSUME NEW x, Due(x) PROVE Due(x)'
    OBVIOUS
<1> PICK s, i, o : StoresAt(s, i, o, x)
    BY DEF Due
<1>1. phase \in {"running", "waiting", "execute"} /\ s \in ScheduledIds
    BY DEF Due, StoresAt
<1>2. scheduled # << >>
  <2>1. DOMAIN scheduled # {}
      BY <1>1 DEF ScheduledIds
  <2>2. QED
      BY <2>1
<1>3. /\ phase' \in {"running", "waiting", "execute"}
      /\ scheduled' = scheduled
      /\ BlockTable(kv', s) = BlockTable(kv, s)
      /\ seqs'[s].token_ids = seqs[s].token_ids
      /\ seqs'[s].num_computed_tokens = seqs[s].num_computed_tokens
    BY <1>1, <1>2
<1>4. s \in ScheduledIds'
    BY <1>1, <1>3 DEF ScheduledIds
<1>5. StoresAt(s, i, o, x)'
    BY <1>3, <1>4 DEF StoresAt
<1>6. QED
    BY <1>3, <1>5 DEF Due

\* A sequence that goes on running with the tokens and the table it had.
LEMMA Unchanged ==
    ASSUME EngineInv, NEW s \in ToSet(running),
           BlockTable(kv', s) = BlockTable(kv, s),
           seqs'[s].token_ids = seqs[s].token_ids,
           seqs'[s].num_computed_tokens = seqs[s].num_computed_tokens,
           \/ phase' # "update"
           \/ phase' = phase /\ (s \in ToSet(todo') <=> s \in ToSet(todo))
    PROVE  StaysRead(s)
<1>1. /\ Len(seqs[s].token_ids) \in Nat /\ seqs[s].num_computed_tokens \in Nat
      /\ seqs[s].num_computed_tokens < Len(seqs[s].token_ids)
      /\ seqs[s].token_ids \in Seq(Token)
    BY TableOf
<1> PICK n \in Nat, m \in Nat :
         n = Len(seqs[s].token_ids) /\ m = seqs[s].num_computed_tokens
    BY <1>1
<1>2. Filled(s)' = IF phase' = "update" /\ s \in ToSet(todo') THEN n ELSE m
    BY DEF Filled
<1>3. Filled(s) = IF phase = "update" /\ s \in ToSet(todo) THEN n ELSE m
    BY DEF Filled
<1>4. Filled(s)' \in Nat /\ Filled(s)' <= Filled(s)
  <2>1. CASE phase' # "update"
      BY <1>1, <1>2, <1>3, <2>1
  <2>2. CASE phase' = phase /\ (s \in ToSet(todo') <=> s \in ToSet(todo))
    <3>1. Filled(s)' = Filled(s) /\ Filled(s) \in {n, m}
        BY <1>2, <1>3, <2>2
    <3>2. QED
        BY <3>1
  <2>3. QED
      BY <2>1, <2>2
<1>5. seqs'[s].token_ids = seqs[s].token_ids \o << >> /\ << >> \in Seq(Token)
    BY <1>1, ConcatEmptySeq
<1>6. QED
    BY <1>4, <1>5 DEF StaysRead

\* A scheduled sequence runs while the step is not executed.
LEMMA ScheduledRun ==
    ASSUME EngineInv, phase \in {"running", "waiting", "execute"}, NEW s \in ScheduledIds
    PROVE  s \in ToSet(running)
<1>1. PICK e \in ToSet(scheduled) : e.seq_id = s
    BY DEF ScheduledIds, ToSet
<1>2. QED
    BY <1>1, SlotsToStore

\* A sequence that is not scheduled leaves and gives its blocks back.
LEMMA LeaveTells ==
    ASSUME EngineInv, KeysTell, TablesTell, NEW s \in SeqId,
           running' = Delete(running, {s}), kv' = FreeIfAllocated(kv, s),
           UNCHANGED <<content, phase, scheduled>>,
           \A x \in SeqId \ {s} : seqs'[x] = seqs[x],
           phase = "update" => \A x \in SeqId \ {s} : x \in ToSet(todo') <=> x \in ToSet(todo),
           \/ phase \notin {"running", "waiting", "execute"}
           \/ s \notin ScheduledIds
    PROVE  KeysTell' /\ TablesTell'
<1>1. /\ running \in Seq(SeqId) /\ IsInjective(running) /\ seqs \in [SeqId -> EngineSeq]
      /\ Sharing(kv, Projected(kv, seqs)) /\ KVInv(kv)
    BY RunningNeeds DEF EngineInv, Queues, Sharing
<1>2. \A t : t # s => BlockTable(kv', t) = BlockTable(kv, t)
    BY <1>1, FreeEffects
<1>3. kv'.block_keys = kv.block_keys
    BY <1>1, FreeKeepsKeys
<1>4. ToSet(running') = ToSet(running) \ {s}
    BY <1>1, DeleteProperties
<1>5. ASSUME NEW x \in ToSet(running') PROVE StaysRead(x)
  <2>1. x \in ToSet(running) /\ x # s /\ x \in SeqId
      BY <1>4, TableOf
  <2>2. seqs'[x] = seqs[x] /\ BlockTable(kv', x) = BlockTable(kv, x)
      BY <1>2, <2>1
  <2>3. \/ phase' # "update"
        \/ phase' = phase /\ (x \in ToSet(todo') <=> x \in ToSet(todo))
      BY <2>1
  <2>4. QED
      BY <2>1, <2>2, <2>3, Unchanged
<1>6. \/ phase \notin {"running", "waiting", "execute"}
      \/ /\ phase' \in {"running", "waiting", "execute"}
         /\ scheduled' = scheduled
         /\ \A t \in ScheduledIds :
                /\ BlockTable(kv', t) = BlockTable(kv, t)
                /\ seqs'[t].token_ids = seqs[t].token_ids
                /\ seqs'[t].num_computed_tokens = seqs[t].num_computed_tokens
  <2>1. SUFFICES ASSUME phase \in {"running", "waiting", "execute"}, s \notin ScheduledIds,
                        NEW t \in ScheduledIds
                 PROVE  BlockTable(kv', t) = BlockTable(kv, t) /\ seqs'[t] = seqs[t]
      OBVIOUS
  <2>2. t \in SeqId /\ t # s
      BY <2>1, ScheduledRun, TableOf
  <2>3. QED
      BY <1>2, <2>2
<1>7. \A x : Due(x) => Due(x)'
    BY <1>6, DuesStay
<1>8. QED
    BY <1>3, <1>5, <1>7, ContentStays

\* Where requests end: between steps, refused by the admission loop, or updated.
MayEnd(s) ==
    \/ phase = "idle"
    \/ phase = "waiting" /\ s \in ToSet(waiting)
    \/ phase = "update" /\ todo # << >> /\ s = Head(todo) /\ todo' = Tail(todo)

LEMMA FinishTells ==
    ASSUME EngineInv, KeysTell, TablesTell, NEW s \in SeqId, NEW seq, NEW reason,
           Finish(s, seq, reason),
           UNCHANGED <<content, phase, scheduled>>, MayEnd(s)
    PROVE  KeysTell' /\ TablesTell'
<1>1. /\ running' = Delete(running, {s}) /\ kv' = FreeIfAllocated(kv, s)
      /\ seqs' = [seqs EXCEPT ![s] = Finished(seq, reason)]
    BY DEF Finish, FreeSeq
<1>2. seqs \in [SeqId -> EngineSeq]
    BY RunningNeeds
<1>3. \A x \in SeqId \ {s} : seqs'[x] = seqs[x]
    BY <1>1, <1>2
<1>4. \/ phase \notin {"running", "waiting", "execute"}
      \/ s \notin ScheduledIds
  <2>1. CASE phase = "waiting" /\ s \in ToSet(waiting)
    <3>1. s \notin ToSet(running)
        BY <2>1 DEF EngineInv, Queues
    <3>2. QED
        BY <2>1, <3>1, ScheduledRun
  <2>2. QED
      BY <2>1 DEF MayEnd
<1>5. phase = "update" => \A x \in SeqId \ {s} : x \in ToSet(todo') <=> x \in ToSet(todo)
  <2>1. SUFFICES ASSUME phase = "update"
                 PROVE  \A x \in SeqId \ {s} : x \in ToSet(todo') <=> x \in ToSet(todo)
      OBVIOUS
  <2>2. todo # << >> /\ s = Head(todo) /\ todo' = Tail(todo)
      BY <2>1 DEF MayEnd
  <2>3. todo \in Seq(SeqId) /\ IsInjective(todo)
      BY <2>1 DEF EngineInv, Types, TypeOK, Loops
  <2>4. ToSet(todo') = ToSet(todo) \ {s}
      BY <2>2, <2>3, TailDistinct
  <2>5. QED
      BY <2>4
<1>6. QED
    BY <1>1, <1>3, <1>4, <1>5, LeaveTells

\* The sequence goes on with one token more: what was stored counts as computed.
LEMMA UpdateTells ==
    ASSUME EngineInv, KeysTell, TablesTell, NEW s \in SeqId, UpdateSeq(s)
    PROVE  KeysTell' /\ TablesTell'
<1> DEFINE token == sampled[s]
           seq == [seqs[s] EXCEPT !.num_computed_tokens = Len(seqs[s].token_ids)]
           grown == [seq EXCEPT !.token_ids = Append(@, token)]
<1>1. /\ phase = "update" /\ todo # << >> /\ s = Head(todo) /\ todo' = Tail(todo)
      /\ UNCHANGED <<content, phase, scheduled>>
    BY DEF UpdateSeq
<1>2. /\ s \in ToSet(running) /\ token \in Token
      /\ (CHOOSE e \in ToSet(scheduled) : e.seq_id = s).num_tokens
             = NumTokensToCompute(seqs[s])
    BY <1>1, UpdatedEntry
<1>3. /\ seqs \in [SeqId -> EngineSeq] /\ running \in Seq(SeqId)
      /\ todo \in Seq(SeqId) /\ IsInjective(todo)
    BY <1>1, RunningNeeds DEF EngineInv, Types, TypeOK, Loops
<1>4. /\ seqs[s].token_ids \in Seq(Token) /\ Len(seqs[s].token_ids) \in Nat
      /\ seqs[s].num_computed_tokens \in Nat
      /\ seqs[s] \in EngineSeq
    BY <1>2, <1>3, TableOf
<1>5. seqs[s].num_computed_tokens + NumTokensToCompute(seqs[s]) = Len(seqs[s].token_ids)
    BY <1>4 DEF NumTokensToCompute
<1>6. \/ Finish(s, seq, "STOP") \/ Finish(s, grown, "LENGTH")
      \/ seqs' = [seqs EXCEPT ![s] = grown] /\ kv' = kv /\ running' = running
    BY <1>2, <1>5 DEF UpdateSeq, queueVars
<1>7. /\ grown.token_ids = Append(seqs[s].token_ids, token)
      /\ grown.num_computed_tokens = Len(seqs[s].token_ids)
    BY <1>4 DEF EngineSeq
<1> HIDE DEF token, seq, grown
<1>8. CASE Finish(s, seq, "STOP") \/ Finish(s, grown, "LENGTH")
    BY <1>1, <1>8, FinishTells DEF MayEnd
<1>9. CASE seqs' = [seqs EXCEPT ![s] = grown] /\ kv' = kv /\ running' = running
  <2>1. ToSet(todo') = ToSet(todo) \ {s} /\ s \in ToSet(todo)
    <3>1. ToSet(todo') = ToSet(todo) \ {s}
        BY <1>1, <1>3, TailDistinct
    <3>2. 1 \in DOMAIN todo /\ s = todo[1]
        BY <1>1, <1>3
    <3>3. QED
        BY <3>1, <3>2 DEF ToSet
  <2>2. seqs'[s] = grown /\ \A x \in SeqId \ {s} : seqs'[x] = seqs[x]
      BY <1>3, <1>9
  <2>3. StaysRead(s)
    <3>1. Filled(s) = Len(seqs[s].token_ids)
        BY <1>1, <2>1 DEF Filled
    <3>2. Filled(s)' = Len(seqs[s].token_ids)
        BY <1>7, <2>1, <2>2 DEF Filled
    <3>3. /\ seqs'[s].token_ids = seqs[s].token_ids \o <<token>>
          /\ <<token>> \in Seq(Token)
      <4>1. seqs'[s].token_ids = Append(seqs[s].token_ids, token)
          BY <1>7, <2>2
      <4>2. QED
          BY <1>2, <1>4, <4>1, AppendConcatenates
    <3>4. Filled(s)' \in Nat /\ Filled(s)' <= Filled(s)
        BY <1>4, <3>1, <3>2
    <3>5. QED
        BY <1>2, <1>9, <3>3, <3>4 DEF StaysRead
  <2>4. ASSUME NEW x \in ToSet(running'), x # s PROVE StaysRead(x)
    <3>1. x \in ToSet(running) /\ x \in SeqId
        BY <1>9, TableOf
    <3>2. seqs'[x] = seqs[x] /\ (x \in ToSet(todo') <=> x \in ToSet(todo))
        BY <2>1, <2>2, <2>4, <3>1
    <3>3. QED
        BY <1>1, <1>9, <3>1, <3>2, Unchanged
  <2>5. \A x : Due(x) => Due(x)'
      BY <1>1, DuesStay
  <2>6. QED
      BY <1>1, <1>9, <2>3, <2>4, <2>5, ContentStays
<1>10. QED
    BY <1>6, <1>8, <1>9

\* The steps that leave the manager and the tokens of the running sequences alone.
LEMMA QuietTells ==
    ASSUME EngineInv, KeysTell, TablesTell,
           UNCHANGED <<content, kv, running>>,
           \A s \in ToSet(running) : seqs'[s] = seqs[s],
           \/ phase' # "update"
           \/ phase' = phase /\ todo' = todo,
           \/ phase \notin {"running", "waiting", "execute"}
           \/ scheduled = << >>
           \/ phase' \in {"running", "waiting", "execute"} /\ scheduled' = scheduled
    PROVE  KeysTell' /\ TablesTell'
<1>1. \A s \in ToSet(running') : StaysRead(s)
    BY Unchanged
<1>2. \/ phase \notin {"running", "waiting", "execute"}
      \/ scheduled = << >>
      \/ /\ phase' \in {"running", "waiting", "execute"}
         /\ scheduled' = scheduled
         /\ \A t \in ScheduledIds :
                /\ BlockTable(kv', t) = BlockTable(kv, t)
                /\ seqs'[t].token_ids = seqs[t].token_ids
                /\ seqs'[t].num_computed_tokens = seqs[t].num_computed_tokens
    BY ScheduledRun
<1>3. \A x : Due(x) => Due(x)'
    BY <1>2, DuesStay
<1>4. QED
    BY <1>1, <1>3, ContentStays

\* After the forward pass nothing is due any more.
LEMMA ExecuteTells ==
    ASSUME EngineInv, KeysTell, TablesTell, ExecuteModel
    PROVE  KeysTell' /\ TablesTell'
<1>1. /\ phase = "execute" /\ phase' = "update" /\ content' = Stored
      /\ UNCHANGED <<kv, seqs, running, scheduled>>
      /\ todo' = [i \in DOMAIN scheduled |-> scheduled[i].seq_id]
    BY DEF ExecuteModel, queueVars
<1>2. ToSet(todo') = ScheduledIds
    BY <1>1 DEF ToSet, ScheduledIds
<1>3. KeysTell'
  <2>1. SUFFICES ASSUME NEW b \in Block, NEW o \in Offsets, kv.block_keys[b] # NoKey
                 PROVE  Stored[SlotAt(b, o)] =
                            SubSeq(kv.block_keys[b], 1,
                                   Len(kv.block_keys[b]) - BlockSize + o + 1)
      BY <1>1 DEF KeysTell
  <2> PICK x \in Slots : x = SlotAt(b, o)
      BY SlotParts
  <2>2. CASE ~Due(x)
      BY <1>1, <2>1, <2>2, StoresWhatIsDue DEF KeysTell
  <2>3. CASE Due(x)
    <3>1. PICK s, i, p : /\ StoresAt(s, i, p, x)
                         /\ Stored[x] = UpTo(seqs[s].token_ids, i, p)
        BY <1>1, <2>3, StoresWhatIsDue
    <3>2. /\ s \in ToSet(running) /\ i \in DOMAIN BlockTable(kv, s)
          /\ p \in Offsets /\ x = SlotAt(BlockTable(kv, s)[i], p)
        BY <1>1, <3>1, ScheduledRun DEF StoresAt
    <3>3. BlockTable(kv, s)[i] \in Block /\ i \in Nat \ {0}
          /\ seqs[s].token_ids \in Seq(Token)
        BY <3>2, TableOf
    <3> PICK c \in Block : c = BlockTable(kv, s)[i]
        BY <3>3
    <3>4. c = b /\ p = o
      <4>1. SlotAt(b, o) = SlotAt(c, p)
          BY <3>2
      <4>2. QED
          BY <3>2, <4>1, SlotParts
    <3>5. /\ i * BlockSize <= Len(seqs[s].token_ids)
          /\ kv.block_keys[b] = SubSeq(seqs[s].token_ids, 1, i * BlockSize)
        BY <2>1, <3>2, <3>4, KeyOfTable
    <3> PICK key : key = kv.block_keys[b]
        OBVIOUS
    <3>6. SubSeq(key, 1, Len(key) - BlockSize + o + 1) = UpTo(seqs[s].token_ids, i, o)
        BY <3>3, <3>5, KeyTells
    <3>7. QED
        BY <3>1, <3>4, <3>6
  <2>4. QED
      BY <2>2, <2>3
<1>4. TablesTell'
  <2>1. SUFFICES ASSUME NEW s \in ToSet(running), NEW i \in DOMAIN BlockTable(kv, s),
                        NEW o \in Offsets, NEW x, x = SlotAt(BlockTable(kv, s)[i], o),
                        ~(At(i, o) >= Filled(s)')
                 PROVE  Stored[x] = UpTo(seqs[s].token_ids, i, o)
      BY <1>1 DEF TablesTell
  <2>2. /\ BlockTable(kv, s)[i] \in Block /\ i \in Nat \ {0}
        /\ Len(seqs[s].token_ids) \in Nat /\ seqs[s].num_computed_tokens \in Nat
      BY TableOf
  <2>3. x \in Slots
      BY <2>1, <2>2, SlotParts
  <2>4. CASE Due(x)
    <3>1. PICK t, j, p : /\ StoresAt(t, j, p, x)
                         /\ Stored[x] = UpTo(seqs[t].token_ids, j, p)
        BY <1>1, <2>3, <2>4, StoresWhatIsDue
    <3>2. /\ t \in ToSet(running) /\ j \in DOMAIN BlockTable(kv, t)
          /\ p \in Offsets /\ x = SlotAt(BlockTable(kv, t)[j], p)
        BY <1>1, <3>1, ScheduledRun DEF StoresAt
    <3>3. UpTo(seqs[s].token_ids, i, o) = UpTo(seqs[t].token_ids, j, p)
      <4>1. SlotAt(BlockTable(kv, s)[i], o) = SlotAt(BlockTable(kv, t)[j], p)
          BY <2>1, <3>2
      <4>2. QED
          BY <3>2, <4>1, SamePlace
    <3>4. QED
        BY <3>1, <3>3
  <2>5. CASE ~Due(x)
    <3>1. Stored[x] = content[x]
        BY <1>1, <2>3, <2>5, StoresWhatIsDue
    <3>2. ~(At(i, o) >= Filled(s))
      <4>1. Filled(s) = seqs[s].num_computed_tokens
          BY <1>1 DEF Filled
      <4>2. Filled(s)' = IF s \in ScheduledIds THEN Len(seqs[s].token_ids)
                         ELSE seqs[s].num_computed_tokens
          BY <1>1, <1>2 DEF Filled
      <4>3. CASE s \in ScheduledIds
        <5>1. At(i, o) \in Nat
            BY <2>2, Places
        <5>2. At(i, o) < Len(seqs[s].token_ids)
            BY <2>1, <2>2, <4>2, <4>3, <5>1
        <5>3. ~(seqs[s].num_computed_tokens <= At(i, o))
          <6>1. ~StoresAt(s, i, o, x)
              BY <1>1, <2>5 DEF Due
          <6>2. QED
              BY <2>1, <4>3, <5>2, <6>1 DEF StoresAt
        <5>4. QED
            BY <2>2, <4>1, <5>1, <5>3
      <4>4. CASE s \notin ScheduledIds
          BY <2>1, <4>1, <4>2, <4>4
      <4>5. QED
          BY <4>3, <4>4
    <3>3. QED
        BY <2>1, <2>5, <3>1, <3>2 DEF TablesTell
  <2>6. QED
      BY <2>4, <2>5
<1>5. QED
    BY <1>3, <1>4

\* A reset leaves no keys and no running sequence.
LEMMA ResetTells ==
    ASSUME EngineInv, KeysTell, TablesTell, Reset
    PROVE  KeysTell' /\ TablesTell'
<1>1. kv' = EmptyKV /\ running' = << >> /\ phase = "idle" /\ content' = content
    BY DEF Reset
<1>2. \A b \in Block : kv'.block_keys[b] = NoKey
    BY <1>1 DEF EmptyKV
<1>3. ToSet(running') = {}
    BY <1>1 DEF ToSet
<1>4. QED
    BY <1>2, <1>3 DEF KeysTell, TablesTell

\* A sequence that is given blocks: the hits tell its prefix already, or will
\* before it reads them; what follows them it stores itself.
LEMMA GrowTells ==
    ASSUME EngineInv, KeysTell, TablesTell, NEW s \in SeqId, NEW hits, NEW n, NEW e,
           hits = GetComputedBlocks(kv, s, seqs[s]),
           n = NumTokensToCompute(seqs[s]) - Len(hits) * BlockSize,
           CanAllocate(kv, s, seqs[s], n, hits),
           kv' = AllocateSlots(kv, s, seqs[s], n, hits),
           \/ s \in ToSet(running) /\ hits = << >> /\ running' = running
           \/ /\ s \notin ToSet(running) /\ seqs[s].num_computed_tokens = 0
              /\ running' = Append(running, s),
           phase \in {"running", "waiting"}, phase' = phase, content' = content,
           s \notin ScheduledIds, scheduled' = Append(scheduled, e), e.seq_id = s,
           \A x \in SeqId \ {s} : seqs'[x] = seqs[x],
           seqs'[s].token_ids = seqs[s].token_ids,
           seqs'[s].num_computed_tokens =
               seqs[s].num_computed_tokens + Len(hits) * BlockSize
    PROVE  KeysTell' /\ TablesTell'
<1> DEFINE tokens == seqs[s].token_ids
           old == BlockTable(kv, s)
           table == BlockTable(kv', s)
           done == seqs[s].num_computed_tokens
           hit == Len(hits) * BlockSize
<1>1. \A t : t # s => BlockTable(kv', t) = BlockTable(kv, t)
    BY AllocationGives
<1>2. hits \in Seq(Block) /\ old \in Seq(Block)
    BY AllocationGives
<1>3. KeysGrow(s, hits)
    BY AllocationGives
<1> PICK popped \in Seq(Block) : TakesFree(s, hits, popped)
    BY AllocationGives
<1>4. table = (old \o hits) \o popped
    BY DEF TakesFree
<1>5. /\ seqs \in [SeqId -> EngineSeq] /\ scheduled \in Seq(Entry)
      /\ running \in Seq(SeqId)
    BY RunningNeeds
<1>6. /\ tokens \in Seq(Token) /\ Len(tokens) \in Nat /\ done \in Nat
      /\ hit \in Nat /\ Len(old) \in Nat /\ Len(hits) \in Nat
      /\ Len(old) * BlockSize \in Nat
    BY <1>2, <1>5, BlockSizeAssumption DEF EngineSeq
<1>7. ToSet(running') = ToSet(running) \cup {s}
  <2>1. CASE s \in ToSet(running) /\ running' = running
      BY <2>1
  <2>2. CASE running' = Append(running, s)
      BY <1>5, <2>2, AppendDistinct
  <2>3. QED
      BY <2>1, <2>2
<1>8. ScheduledIds' = ScheduledIds \cup {s}
  <2>1. scheduled \in Seq(Entry \cup {e}) /\ e \in Entry \cup {e}
      BY <1>5
  <2>2. ToSet(scheduled') = ToSet(scheduled) \cup {e}
    <3> PICK T : T = Entry \cup {e}
        OBVIOUS
    <3>1. scheduled \in Seq(T) /\ e \in T
        BY <2>1
    <3>2. QED
        BY <3>1, AppendDistinct
  <2>3. ScheduledIds = {f.seq_id : f \in ToSet(scheduled)}
      BY DEF ScheduledIds, ToSet
  <2>4. ScheduledIds' = {f.seq_id : f \in ToSet(scheduled')}
      BY DEF ScheduledIds, ToSet
  <2>5. QED
      BY <2>2, <2>3, <2>4
<1> HIDE DEF tokens, old, table, done, hit
<1>9. ASSUME NEW x, Due(x) PROVE Due(x)'
  <2>1. PICK t, i, o : StoresAt(t, i, o, x)
      BY <1>9 DEF Due
  <2>2. t \in ScheduledIds /\ t # s /\ t \in SeqId
    <3>1. t \in ScheduledIds
        BY <2>1 DEF StoresAt
    <3>2. QED
        BY <3>1, ScheduledRun, TableOf
  <2>3. BlockTable(kv', t) = BlockTable(kv, t) /\ seqs'[t] = seqs[t]
      BY <1>1, <2>2
  <2>4. StoresAt(t, i, o, x)'
      BY <1>8, <2>1, <2>2, <2>3 DEF StoresAt
  <2>5. QED
      BY <2>4 DEF Due
<1>10. ASSUME NEW i \in DOMAIN table, NEW o \in Offsets, NEW x, x = SlotAt(table[i], o),
              done + hit <= At(i, o), At(i, o) < Len(tokens)
       PROVE  Due(x)'
  <2>1. StoresAt(s, i, o, x)'
      BY <1>8, <1>10 DEF StoresAt, table, tokens, done, hit
  <2>2. QED
      BY <2>1 DEF Due
<1>11. \A i \in DOMAIN table : i \in Nat \ {0}
    BY <1>2, <1>4
<1>12. ASSUME NEW i \in DOMAIN table, NEW o \in Offsets, NEW x, x = SlotAt(table[i], o),
              ~(At(i, o) >= done + hit)
       PROVE  Due(x)' \/ content[x] = UpTo(tokens, i, o)
  <2>1. i \in Nat \ {0} /\ At(i, o) \in Nat
      BY <1>11, Places
  <2>2. CASE s \in ToSet(running) /\ hits = << >>
    <3>1. hit = 0
        BY <2>2, BlockSizeAssumption DEF hit
    <3>2. done <= Len(old) * BlockSize
        BY <2>2, TableOf DEF done, old
    <3>3. ~(At(i, o) >= done)
        BY <1>6, <1>12, <2>1, <3>1
    <3>4. i <= Len(old)
      <4>1. SUFFICES ASSUME Len(old) < i PROVE FALSE
          BY <1>6, <2>1
      <4>2. Len(old) * BlockSize <= At(i, o)
          BY <1>6, <2>1, <4>1, Places
      <4>3. QED
          BY <1>6, <2>1, <3>2, <3>3, <4>2
    <3>5. i \in DOMAIN old /\ table[i] = old[i]
      <4>1. table = old \o popped
          BY <1>2, <1>4, <2>2, ConcatEmptySeq
      <4>2. QED
          BY <1>2, <1>6, <2>1, <3>4, <4>1
    <3>6. Filled(s) = done
        BY DEF Filled, done
    <3>7. \/ At(i, o) >= Filled(s)
          \/ Due(SlotAt(old[i], o))
          \/ content[SlotAt(old[i], o)] = UpTo(tokens, i, o)
        BY <2>2, <3>5 DEF TablesTell, old, tokens
    <3>8. Due(x) \/ content[x] = UpTo(tokens, i, o)
        BY <1>12, <3>3, <3>5, <3>6, <3>7
    <3>9. QED
        BY <1>9, <3>8
  <2>3. CASE s \notin ToSet(running) /\ done = 0
    <3>1. old = << >>
        BY <2>3 DEF old, BlockTable, Holds, EngineInv, Queues
    <3>2. ~(At(i, o) >= hit)
        BY <1>6, <1>12, <2>1, <2>3
    <3>3. i <= Len(hits)
      <4>1. SUFFICES ASSUME Len(hits) < i PROVE FALSE
          BY <1>6, <2>1
      <4>2. Len(hits) * BlockSize <= At(i, o)
          BY <1>6, <2>1, <4>1, Places
      <4>3. QED
          BY <1>6, <2>1, <3>2, <4>2 DEF hit
    <3>4. i \in DOMAIN hits /\ table[i] = hits[i] /\ hits[i] \in Block
      <4>1. table = hits \o popped
          BY <1>2, <1>4, <3>1, ConcatEmptySeq
      <4>2. QED
          BY <1>2, <1>6, <2>1, <3>3, <4>1
    <3>5. /\ i * BlockSize <= Len(tokens)
          /\ kv.block_keys[hits[i]] = SubSeq(tokens, 1, i * BlockSize)
          /\ kv.block_keys[hits[i]] # NoKey
        BY <1>3, <3>4 DEF KeysGrow, tokens
    <3> PICK b, key : b \in Block /\ b = hits[i] /\ key = kv.block_keys[b]
        BY <3>4
    <3>6. \/ Due(SlotAt(b, o))
          \/ content[SlotAt(b, o)] = SubSeq(key, 1, Len(key) - BlockSize + o + 1)
        BY <3>5 DEF KeysTell
    <3>7. SubSeq(key, 1, Len(key) - BlockSize + o + 1) = UpTo(tokens, i, o)
        BY <1>6, <2>1, <3>5, KeyTells
    <3>8. Due(x) \/ content[x] = UpTo(tokens, i, o)
        BY <1>12, <3>4, <3>6, <3>7
    <3>9. QED
        BY <1>9, <3>8
  <2>4. QED
      BY <2>2, <2>3 DEF done
<1>13. KeysTell'
  <2>1. SUFFICES ASSUME NEW b \in Block, NEW o \in Offsets, NEW x, x = SlotAt(b, o),
                        kv'.block_keys[b] # NoKey, ~Due(x)'
                 PROVE  content[x] =
                            SubSeq(kv'.block_keys[b], 1,
                                   Len(kv'.block_keys[b]) - BlockSize + o + 1)
      BY DEF KeysTell
  <2>2. CASE kv'.block_keys[b] = kv.block_keys[b]
    <3>1. ~Due(x)
        BY <1>9, <2>1
    <3>2. QED
        BY <2>1, <2>2, <3>1 DEF KeysTell
  <2>3. CASE kv'.block_keys[b] # kv.block_keys[b]
    <3>1. PICK i \in DOMAIN table :
              /\ table[i] = b
              /\ i * BlockSize <= Len(tokens)
              /\ kv'.block_keys[b] = SubSeq(tokens, 1, i * BlockSize)
        BY <1>3, <2>1, <2>3 DEF KeysGrow, table, tokens
    <3>2. i \in Nat \ {0}
        BY <1>11
    <3>3. At(i, o) \in Nat /\ At(i, o) < i * BlockSize /\ i * BlockSize \in Nat
        BY <3>2, Places
    <3>4. At(i, o) < Len(tokens)
        BY <1>6, <3>1, <3>3
    <3>5. ~(done + hit <= At(i, o))
        BY <1>10, <2>1, <3>1, <3>4
    <3>6. ~(At(i, o) >= done + hit)
        BY <1>6, <3>3, <3>5
    <3>7. content[x] = UpTo(tokens, i, o)
        BY <1>12, <2>1, <3>1, <3>6
    <3> PICK key : key = kv'.block_keys[b]
        OBVIOUS
    <3>8. SubSeq(key, 1, Len(key) - BlockSize + o + 1) = UpTo(tokens, i, o)
        BY <1>6, <3>1, <3>2, KeyTells
    <3>9. QED
        BY <3>7, <3>8
  <2>4. QED
      BY <2>2, <2>3
<1>14. TablesTell'
  <2>1. SUFFICES ASSUME NEW t \in ToSet(running'), NEW i \in DOMAIN BlockTable(kv', t),
                        NEW o \in Offsets, NEW x, x = SlotAt(BlockTable(kv', t)[i], o),
                        ~(At(i, o) >= Filled(t)'), ~Due(x)'
                 PROVE  content[x] = UpTo(seqs'[t].token_ids, i, o)
      BY DEF TablesTell
  <2>2. Filled(t)' = seqs'[t].num_computed_tokens
      BY DEF Filled
  <2>3. CASE t = s
    <3>1. ~(At(i, o) >= done + hit)
        BY <2>1, <2>2, <2>3 DEF done, hit
    <3>2. i \in DOMAIN table /\ x = SlotAt(table[i], o)
        BY <2>1, <2>3 DEF table
    <3>3. content[x] = UpTo(tokens, i, o)
        BY <1>12, <2>1, <3>1, <3>2
    <3>4. QED
        BY <2>3, <3>3 DEF tokens
  <2>4. CASE t # s
    <3>1. t \in ToSet(running) /\ t \in SeqId
        BY <1>7, <2>1, <2>4, TableOf
    <3>2. BlockTable(kv', t) = BlockTable(kv, t) /\ seqs'[t] = seqs[t]
        BY <1>1, <2>4, <3>1
    <3>3. Filled(t) = seqs[t].num_computed_tokens
        BY DEF Filled
    <3>4. ~Due(x)
        BY <1>9, <2>1
    <3>5. ~(At(i, o) >= Filled(t))
        BY <2>1, <2>2, <3>2, <3>3
    <3>6. content[x] = UpTo(seqs[t].token_ids, i, o)
        BY <2>1, <3>1, <3>2, <3>4, <3>5 DEF TablesTell
    <3>7. QED
        BY <3>2, <3>6
  <2>5. QED
      BY <2>3, <2>4
<1>15. QED
    BY <1>13, <1>14

\* The running loop gives a running sequence the blocks for its next tokens.
LEMMA ScheduleRunningTells ==
    ASSUME EngineInv, KeysTell, TablesTell, NEW s \in SeqId, ScheduleRunning(s)
    PROVE  KeysTell' /\ TablesTell'
<1> PICK hits, n : hits = << >> /\ n = NumTokensToCompute(seqs[s])
    OBVIOUS
<1>1. /\ HandlesRunning(s) /\ phase = "running" /\ phase' = phase
      /\ CanAllocate(kv, s, seqs[s], n, hits)
      /\ kv' = AllocateSlots(kv, s, seqs[s], n, hits)
      /\ scheduled' = Append(scheduled, Scheduled(s, kv', seqs[s], n))
      /\ UNCHANGED <<running, seqs, content>>
    BY DEF ScheduleRunning, HandlesRunning, queueVars
<1>2. /\ s \in ToSet(running)
      /\ \A i \in DOMAIN scheduled : scheduled[i].seq_id # s
  <2>1. /\ s = running[Len(scheduled) + 1] /\ Len(scheduled) < Len(running)
        /\ s \in ToSet(running)
        /\ \A i \in DOMAIN scheduled : /\ i \in DOMAIN running
                                       /\ i < Len(scheduled) + 1
                                       /\ running[i] = scheduled[i].seq_id
      BY <1>1, RunningHead DEF HandlesRunning, Visits
  <2>2. /\ running \in Seq(SeqId) /\ scheduled \in Seq(Entry) /\ IsInjective(running)
      BY RunningNeeds DEF EngineInv, Queues
  <2>3. Len(scheduled) + 1 \in DOMAIN running
      BY <2>1, <2>2
  <2>4. QED
      BY <2>1, <2>2, <2>3 DEF IsInjective
<1>3. s \notin ScheduledIds
    BY <1>2 DEF ScheduledIds
<1>4. hits = GetComputedBlocks(kv, s, seqs[s])
    BY <1>2 DEF EngineInv, Queues, GetComputedBlocks, Holds
<1>5. /\ n = NumTokensToCompute(seqs[s]) - Len(hits) * BlockSize
      /\ seqs'[s].num_computed_tokens =
             seqs[s].num_computed_tokens + Len(hits) * BlockSize
  <2>1. Len(hits) * BlockSize = 0 /\ n \in Int /\ seqs[s].num_computed_tokens \in Nat
      BY <1>2, BlockSizeAssumption, RunningNeeds, TableOf
  <2>2. QED
      BY <1>1, <2>1
<1> PICK e : e = Scheduled(s, kv', seqs[s], n)
    OBVIOUS
<1>6. e.seq_id = s
    BY DEF Scheduled
<1>7. QED
    BY <1>1, <1>2, <1>3, <1>4, <1>5, <1>6, GrowTells

\* The waiting loop: a sequence is admitted with the blocks it hits.
LEMMA AdmitTells ==
    ASSUME EngineInv, KeysTell, TablesTell, NEW s \in SeqId, Admit(s)
    PROVE  KeysTell' /\ TablesTell'
<1> PICK hits, n : hits = GetComputedBlocks(kv, s, seqs[s]) /\ n = NumUncached(s)
    OBVIOUS
<1>1. /\ waiting # << >> /\ s = Head(waiting) /\ phase = "waiting" /\ phase' = phase
      /\ CanAllocate(kv, s, seqs[s], n, hits)
      /\ kv' = AllocateSlots(kv, s, seqs[s], n, hits)
      /\ seqs' = [seqs EXCEPT ![s].num_computed_tokens = @ + Len(hits) * BlockSize,
                              ![s].status = "RUNNING"]
      /\ running' = Append(running, s) /\ content' = content
      /\ scheduled' = Append(scheduled, Scheduled(s, kv', seqs'[s], n))
    BY DEF Admit, Admissible, HandlesWaiting
<1>2. n = NumTokensToCompute(seqs[s]) - Len(hits) * BlockSize
    BY DEF NumUncached
<1>3. s \in ToSet(waiting)
  <2>1. waiting \in Seq(SeqId)
      BY DEF EngineInv, Types, TypeOK
  <2>2. QED
      BY <1>1, <2>1 DEF ToSet
<1>4. s \notin ToSet(running) /\ seqs[s].num_computed_tokens = 0
    BY <1>3 DEF EngineInv, Queues, Tokens
<1>5. s \notin ScheduledIds
    BY <1>1, <1>4, ScheduledRun
<1>6. seqs \in [SeqId -> EngineSeq]
    BY RunningNeeds
<1>7. /\ \A x \in SeqId \ {s} : seqs'[x] = seqs[x]
      /\ seqs'[s].token_ids = seqs[s].token_ids
      /\ seqs'[s].num_computed_tokens =
             seqs[s].num_computed_tokens + Len(hits) * BlockSize
    BY <1>1, <1>6 DEF EngineSeq
<1> PICK e : e = Scheduled(s, kv', seqs'[s], n)
    OBVIOUS
<1>8. e.seq_id = s
    BY DEF Scheduled
<1>9. QED
    BY <1>1, <1>2, <1>4, <1>5, <1>7, <1>8, GrowTells

\* Every step of the engine keeps what the keys and the tables tell.
LEMMA NextTells ==
    ASSUME EngineInv, ~ExecutionMayFail, [Next]_vars, KeysTell, TablesTell
    PROVE  KeysTell' /\ TablesTell'
<1>1. ASSUME NEW s \in SeqId, PreemptOther(s) \/ PreemptSelf(s)
      PROVE  KeysTell' /\ TablesTell'
  <2> PICK v : v = Victim(s)
      OBVIOUS
  <2>1. HandlesRunning(s) /\ Preempt(v)
      BY <1>1 DEF PreemptOther, PreemptSelf
  <2>2. v \in SeqId /\ \A i \in DOMAIN scheduled : scheduled[i].seq_id # v
      BY <2>1, VictimIsLast
  <2>3. v \notin ScheduledIds
      BY <2>2 DEF ScheduledIds
  <2>4. /\ running' = Delete(running, {v}) /\ kv' = FreeIfAllocated(kv, v)
        /\ seqs' = [seqs EXCEPT ![v] = ResetForRecompute(@)]
        /\ UNCHANGED <<content, phase, scheduled>> /\ phase = "running"
      BY <2>1 DEF Preempt, HandlesRunning
  <2>5. \A x \in SeqId \ {v} : seqs'[x] = seqs[x]
    <3>1. seqs \in [SeqId -> EngineSeq]
        BY RunningNeeds
    <3>2. QED
        BY <2>4, <3>1
  <2>6. QED
      BY <2>2, <2>3, <2>4, <2>5, LeaveTells
<1>2. ASSUME NEW s \in SeqId, RejectWaiting(s)
      PROVE  KeysTell' /\ TablesTell'
  <2>1. /\ phase = "waiting" /\ waiting # << >> /\ s = Head(waiting)
        /\ Finish(s, seqs[s], "LENGTH") /\ UNCHANGED <<content, phase, scheduled>>
      BY <1>2 DEF RejectWaiting, HandlesWaiting, stepVars
  <2>2. waiting \in Seq(SeqId)
      BY DEF EngineInv, Types, TypeOK
  <2>3. s \in ToSet(waiting)
      BY <2>1, <2>2 DEF ToSet
  <2>4. MayEnd(s)
      BY <2>1, <2>3 DEF MayEnd
  <2>5. QED
      BY <2>1, <2>4, FinishTells
<1>3. ASSUME NEW s \in SeqId, AbortRequest(s)
      PROVE  KeysTell' /\ TablesTell'
  <2>1. /\ phase = "idle" /\ Finish(s, seqs[s], "ABORT")
        /\ UNCHANGED <<content, phase, scheduled>>
      BY <1>3 DEF AbortRequest, stepVars
  <2>2. MayEnd(s)
      BY <2>1 DEF MayEnd
  <2>3. QED
      BY <2>1, <2>2, FinishTells
<1>4. ASSUME NEW s \in SeqId, AddRequest(s)
      PROVE  KeysTell' /\ TablesTell'
  <2>1. /\ phase = "idle" /\ seqs[s].status = "NEW"
        /\ UNCHANGED <<content, phase, scheduled, todo>>
        /\ \/ Finish(s, seqs[s], "LENGTH")
           \/ /\ seqs' = [seqs EXCEPT ![s].status = "WAITING"]
              /\ UNCHANGED <<kv, running>>
      BY <1>4 DEF AddRequest, stepVars
  <2>2. CASE Finish(s, seqs[s], "LENGTH")
    <3>1. UNCHANGED <<content, phase, scheduled>>
        BY <2>1
    <3>2. MayEnd(s)
        BY <2>1 DEF MayEnd
    <3>3. QED
        BY <2>2, <3>1, <3>2, FinishTells
  <2>3. CASE seqs' = [seqs EXCEPT ![s].status = "WAITING"] /\ UNCHANGED <<kv, running>>
    <3>1. s \notin ToSet(running)
        BY <2>1 DEF EngineInv, Queues
    <3>2. \A x \in ToSet(running) : seqs'[x] = seqs[x]
      <4>1. seqs \in [SeqId -> EngineSeq] /\ \A x \in ToSet(running) : x \in SeqId
          BY RunningNeeds
      <4>2. QED
          BY <2>3, <3>1, <4>1
    <3>3. QED
        BY <2>1, <2>3, <3>2, QuietTells
  <2>4. QED
      BY <2>1, <2>2, <2>3
<1>5. CASE \/ BeginStep \/ SkipPreempted \/ RequeuePreempted \/ StopAdmitting
           \/ NothingToExecute \/ UpdateDone \/ Outputs \/ UNCHANGED vars
  <2>1. UNCHANGED <<content, kv, running, seqs>>
      BY <1>5 DEF BeginStep, SkipPreempted, RequeuePreempted, StopAdmitting,
                  NothingToExecute, UpdateDone, Outputs, vars, queueVars
  <2>2. \/ phase' # "update"
        \/ phase' = phase /\ todo' = todo
      BY <1>5 DEF BeginStep, SkipPreempted, RequeuePreempted, StopAdmitting,
                  NothingToExecute, UpdateDone, Outputs, vars, stepVars
  <2>3. \/ phase \notin {"running", "waiting", "execute"}
        \/ scheduled = << >>
        \/ phase' \in {"running", "waiting", "execute"} /\ scheduled' = scheduled
      BY <1>5 DEF BeginStep, SkipPreempted, RequeuePreempted, StopAdmitting,
                  NothingToExecute, UpdateDone, Outputs, vars, stepVars
  <2>4. QED
      BY <2>1, <2>2, <2>3, QuietTells
<1>6. ~ExecuteRaises
    BY DEF ExecuteRaises
<1>7. QED
    BY <1>1, <1>2, <1>3, <1>4, <1>5, <1>6, ScheduleRunningTells, AdmitTells,
       UpdateTells, ExecuteTells, ResetTells DEF Next, RestOfStep, Schedule

\* Attention reads the reader's own prefix, whatever was shared, registered before
\* it was written, evicted or recomputed, as long as no forward pass raises: a
\* pass that does leaves keys for blocks nobody will store (run engine_stale_hit).
THEOREM OwnContextAlwaysRead ==
    ASSUME ~ExecutionMayFail
    PROVE  Spec => []ReadsOwnContext
<1>1. Init => KeysTell /\ TablesTell
  <2>1. SUFFICES ASSUME Init PROVE KeysTell /\ TablesTell
      OBVIOUS
  <2>2. running = << >> /\ kv = EmptyKV
      BY <2>1 DEF Init
  <2>3. ToSet(running) = {} /\ \A b \in Block : kv.block_keys[b] = NoKey
      BY <2>2 DEF ToSet, EmptyKV
  <2>4. QED
      BY <2>3 DEF KeysTell, TablesTell
<1>2. EngineInv /\ KeysTell /\ TablesTell /\ [Next]_vars => KeysTell' /\ TablesTell'
    BY NextTells
<1>3. EngineInv /\ TablesTell => ReadsOwnContext
  <2>1. SUFFICES ASSUME EngineInv, TablesTell, phase = "update",
                        NEW e \in ToSet(scheduled), e.seq_id \in ToSet(todo),
                        NEW pos \in 0 .. Len(seqs[e.seq_id].token_ids) - 1
                 PROVE  content[e.block_table[pos \div BlockSize + 1] * BlockSize
                                    + (pos % BlockSize)]
                            = SubSeq(seqs[e.seq_id].token_ids, 1, pos + 1)
      BY DEF ReadsOwnContext
  <2> PICK s : s = e.seq_id
      OBVIOUS
  <2> DEFINE table == BlockTable(kv, s)
             tokens == seqs[s].token_ids
  <2>2. /\ s \in ToSet(running) /\ e.block_table = table
        /\ CeilDiv(Len(tokens), BlockSize) <= Len(table)
      BY <2>1 DEF EngineInv, LiveSchedule, Live, Scheduled
  <2>3. table \in Seq(Block) /\ Len(tokens) \in Nat
      BY <2>1, <2>2, TableOf
  <2>4. Filled(s) = Len(tokens)
      BY <2>1 DEF Filled
  <2> HIDE DEF table, tokens
  <2>5. pos \in Nat /\ pos < Len(tokens)
      BY <2>1, <2>3 DEF tokens
  <2>6. pos < Len(table) * BlockSize
    <3>1. CeilDiv(Len(tokens), BlockSize) \in Nat
          /\ Len(tokens) <= CeilDiv(Len(tokens), BlockSize) * BlockSize
        BY <2>3, BlockSizeAssumption, CeilCovers
    <3>2. Len(table) \in Nat
        BY <2>3
    <3>3. CeilDiv(Len(tokens), BlockSize) * BlockSize <= Len(table) * BlockSize
        BY <2>2, <3>1, <3>2, BlockSizeAssumption, TimesMonotone
    <3> PICK a \in Nat, b \in Nat : /\ a = CeilDiv(Len(tokens), BlockSize) * BlockSize
                                    /\ b = Len(table) * BlockSize
        BY <3>1, <3>2, BlockSizeAssumption
    <3>4. pos < b
        BY <2>3, <2>5, <3>1, <3>3
    <3>5. QED
        BY <3>4
  <2> PICK i, o : i = (pos \div BlockSize) + 1 /\ o = pos % BlockSize
      OBVIOUS
  <2>7. o \in Offsets /\ pos = At(i, o)
      BY <2>5, PlaceOf
  <2>8. i \in 1 .. Len(table)
      BY <2>3, <2>5, <2>6, PlaceInTable
  <2>9. i \in DOMAIN table
      BY <2>3, <2>8
  <2>10. ~(At(i, o) >= Filled(s))
      BY <2>3, <2>4, <2>5, <2>7
  <2>11. ~Due(SlotAt(table[i], o))
      BY <2>1 DEF Due
  <2>12. content[SlotAt(table[i], o)] = UpTo(tokens, i, o)
      BY <2>1, <2>2, <2>7, <2>9, <2>10, <2>11 DEF TablesTell, table, tokens
  <2>13. QED
      BY <2>2, <2>7, <2>12 DEF SlotAt, UpTo, tokens
<1>4. QED
    BY <1>1, <1>2, <1>3, EngineInvariant, PTL DEF Spec

-----------------------------------------------------------------------------
(* What run() accumulates.                                                 *)

RequestOutput ==
    [ seq_id : SeqId, tokens : Seq(Token), reason : Reasons \cup {"NONE"} ]

Ids(outputs) == [i \in DOMAIN outputs |-> outputs[i].seq_id]

\* A dict: no request has two entries.
Outputs1 == {outputs \in Seq(RequestOutput) : IsInjective(Ids(outputs))}

\* What outputs say of s, nothing if it has no entry.
Told(outputs, s) ==
    IF s \in ToSet(Ids(outputs))
    THEN outputs[CHOOSE i \in DOMAIN outputs : outputs[i].seq_id = s]
    ELSE [seq_id |-> s, tokens |-> << >>, reason |-> "NONE"]

Merged(old, out) ==
    [ seq_id |-> out.seq_id, tokens |-> old.tokens \o out.tokens,
      reason |-> IF out.reason = "NONE" THEN old.reason ELSE out.reason ]

LEMMA IdsOf ==
    ASSUME NEW outputs \in Seq(RequestOutput)
    PROVE  /\ Ids(outputs) \in Seq(SeqId) /\ Len(Ids(outputs)) = Len(outputs)
           /\ DOMAIN Ids(outputs) = DOMAIN outputs /\ DOMAIN outputs = 1 .. Len(outputs)
           /\ \A i \in DOMAIN outputs : /\ outputs[i] \in RequestOutput
                                        /\ Ids(outputs)[i] = outputs[i].seq_id
                                        /\ outputs[i].seq_id \in ToSet(Ids(outputs))
           /\ \A s \in ToSet(Ids(outputs)) : \E i \in DOMAIN outputs : outputs[i].seq_id = s
<1>1. \A i \in DOMAIN outputs : outputs[i] \in RequestOutput
    OBVIOUS
<1>2. DOMAIN outputs = 1 .. Len(outputs) /\ Len(outputs) \in Nat
    OBVIOUS
<1>3. \A i \in DOMAIN outputs : outputs[i].seq_id \in SeqId
    BY <1>1 DEF RequestOutput
<1>4. /\ Ids(outputs) \in Seq(SeqId) /\ Len(Ids(outputs)) = Len(outputs)
      /\ DOMAIN Ids(outputs) = DOMAIN outputs
      /\ \A i \in DOMAIN outputs : Ids(outputs)[i] = outputs[i].seq_id
    BY <1>2, <1>3 DEF Ids
<1>5. \A s : s \in ToSet(Ids(outputs)) <=> \E i \in DOMAIN Ids(outputs) : Ids(outputs)[i] = s
    BY DEF ToSet
<1>6. QED
    BY <1>1, <1>2, <1>4, <1>5

\* The one entry of a request.
LEMMA ToldEntry ==
    ASSUME NEW outputs \in Outputs1, NEW i \in DOMAIN outputs
    PROVE  Told(outputs, outputs[i].seq_id) = outputs[i]
<1> DEFINE s == outputs[i].seq_id
           k == CHOOSE j \in DOMAIN outputs : outputs[j].seq_id = s
<1>1. outputs \in Seq(RequestOutput) /\ IsInjective(Ids(outputs))
    BY DEF Outputs1
<1>2. k \in DOMAIN outputs /\ outputs[k].seq_id = s
    OBVIOUS
<1>3. s \in ToSet(Ids(outputs))
    BY <1>1, IdsOf
<1>4. Told(outputs, s) = outputs[k]
    BY <1>3 DEF Told
<1> HIDE DEF k
<1>5. k = i
    BY <1>1, <1>2, IdsOf DEF IsInjective
<1>6. QED
    BY <1>4, <1>5

LEMMA ToldType ==
    ASSUME NEW outputs \in Outputs1, NEW s \in SeqId
    PROVE  /\ Told(outputs, s) \in RequestOutput /\ Told(outputs, s).seq_id = s
           /\ s \in ToSet(Ids(outputs)) =>
                 \E i \in DOMAIN outputs : outputs[i] = Told(outputs, s)
<1>1. outputs \in Seq(RequestOutput)
    BY DEF Outputs1
<1>2. CASE s \in ToSet(Ids(outputs))
  <2>1. PICK i \in DOMAIN outputs : outputs[i].seq_id = s
      BY <1>1, <1>2, IdsOf
  <2>2. Told(outputs, s) = outputs[i]
      BY <2>1, ToldEntry
  <2>3. QED
      BY <1>1, <2>1, <2>2, IdsOf
<1>3. CASE s \notin ToSet(Ids(outputs))
  <2>1. Told(outputs, s) = [seq_id |-> s, tokens |-> << >>, reason |-> "NONE"]
      BY <1>3 DEF Told
  <2>2. << >> \in Seq(Token)
      OBVIOUS
  <2>3. QED
      BY <1>3, <2>1, <2>2 DEF RequestOutput
<1>4. QED
    BY <1>2, <1>3

LEMMA MergedType ==
    ASSUME NEW old \in RequestOutput, NEW out \in RequestOutput
    PROVE  Merged(old, out) \in RequestOutput /\ Merged(old, out).seq_id = out.seq_id
<1>1. old.tokens \o out.tokens \in Seq(Token)
  <2>1. old.tokens \in Seq(Token) /\ out.tokens \in Seq(Token)
      BY DEF RequestOutput
  <2>2. QED
      BY <2>1, ConcatProperties
<1>2. QED
    BY <1>1 DEF Merged, RequestOutput

LEMMA SameOutput ==
    ASSUME NEW q \in RequestOutput, NEW r \in RequestOutput,
           q.seq_id = r.seq_id, q.tokens = r.tokens, q.reason = r.reason
    PROVE  q = r
<1> DEFINE R == Reasons \cup {"NONE"}
<1> HIDE DEF R
<1>1. /\ q \in [seq_id : SeqId, tokens : Seq(Token), reason : R]
      /\ r \in [seq_id : SeqId, tokens : Seq(Token), reason : R]
    BY DEF RequestOutput, R
<1>2. QED
    BY <1>1

LEMMA IdsAppend ==
    ASSUME NEW outputs \in Seq(RequestOutput), NEW out \in RequestOutput
    PROVE  Ids(Append(outputs, out)) = Append(Ids(outputs), out.seq_id)
<1> DEFINE new == Append(outputs, out)
           id == out.seq_id
<1>1. id \in SeqId
    BY DEF RequestOutput
<1>2. /\ new \in Seq(RequestOutput) /\ Len(new) = Len(outputs) + 1 /\ Len(outputs) \in Nat
      /\ \A i \in 1 .. Len(outputs) : new[i] = outputs[i]
      /\ new[Len(outputs) + 1] = out
      /\ DOMAIN new = 1 .. Len(outputs) + 1 /\ DOMAIN outputs = 1 .. Len(outputs)
    BY AppendProperties
<1> HIDE DEF new
<1>3. /\ Ids(outputs) \in Seq(SeqId) /\ Len(Ids(outputs)) = Len(outputs)
      /\ \A i \in DOMAIN outputs : Ids(outputs)[i] = outputs[i].seq_id
    BY IdsOf
<1>4. /\ Ids(new) \in Seq(SeqId) /\ Len(Ids(new)) = Len(new)
      /\ \A i \in DOMAIN new : Ids(new)[i] = new[i].seq_id
    BY <1>2, IdsOf
<1>5. /\ Append(Ids(outputs), id) \in Seq(SeqId)
      /\ Len(Append(Ids(outputs), id)) = Len(outputs) + 1
      /\ \A i \in 1 .. Len(outputs) : Append(Ids(outputs), id)[i] = Ids(outputs)[i]
      /\ Append(Ids(outputs), id)[Len(outputs) + 1] = id
    BY <1>1, <1>3, AppendProperties
<1>6. ASSUME NEW i \in 1 .. Len(outputs) + 1
      PROVE  Ids(new)[i] = Append(Ids(outputs), id)[i]
  <2>1. Ids(new)[i] = new[i].seq_id
      BY <1>2, <1>4
  <2>2. CASE i = Len(outputs) + 1
      BY <1>2, <1>5, <2>1, <2>2
  <2>3. CASE i \in 1 .. Len(outputs)
      BY <1>2, <1>3, <1>5, <2>1, <2>3
  <2>4. i = Len(outputs) + 1 \/ i \in 1 .. Len(outputs)
      BY <1>2
  <2>5. QED
      BY <2>2, <2>3, <2>4
<1> PICK a \in Seq(SeqId), b \in Seq(SeqId) : a = Ids(new) /\ b = Append(Ids(outputs), id)
    BY <1>4, <1>5
<1>7. a = b
    BY <1>2, <1>4, <1>5, <1>6, SeqEqual
<1>8. QED
    BY <1>7 DEF new

\* An output at the end, of a request that has none yet.
LEMMA AppendOutput ==
    ASSUME NEW outputs \in Outputs1, NEW out \in RequestOutput,
           out.seq_id \notin ToSet(Ids(outputs))
    PROVE  /\ Append(outputs, out) \in Outputs1
           /\ Ids(Append(outputs, out)) = Append(Ids(outputs), out.seq_id)
           /\ \A s \in SeqId :
                 Told(Append(outputs, out), s) = IF s = out.seq_id THEN out ELSE Told(outputs, s)
<1> DEFINE new == Append(outputs, out)
           id == out.seq_id
<1>1. outputs \in Seq(RequestOutput) /\ IsInjective(Ids(outputs)) /\ id \in SeqId
    BY DEF Outputs1, RequestOutput
<1>2. /\ new \in Seq(RequestOutput) /\ Len(new) = Len(outputs) + 1 /\ Len(outputs) \in Nat
      /\ \A i \in 1 .. Len(outputs) : new[i] = outputs[i]
      /\ new[Len(outputs) + 1] = out
      /\ DOMAIN new = 1 .. Len(outputs) + 1 /\ DOMAIN outputs = 1 .. Len(outputs)
    BY <1>1, AppendProperties
<1> HIDE DEF new
<1>3. Ids(new) = Append(Ids(outputs), id)
    BY <1>1, IdsAppend DEF new
<1>4. new \in Outputs1
  <2>1. IsInjective(Append(Ids(outputs), id))
      BY <1>1, IdsOf, AppendDistinct
  <2>2. QED
      BY <1>2, <1>3, <2>1 DEF Outputs1
<1>5. ToSet(Ids(new)) = ToSet(Ids(outputs)) \cup {id}
    BY <1>1, <1>3, IdsOf, AppendDistinct
<1>6. ASSUME NEW s \in SeqId
      PROVE  Told(new, s) = IF s = id THEN out ELSE Told(outputs, s)
  <2>1. CASE s \in ToSet(Ids(outputs))
    <3>1. PICK i \in DOMAIN outputs : outputs[i].seq_id = s
        BY <1>1, <2>1, IdsOf
    <3>2. Told(outputs, s) = outputs[i]
        BY <3>1, ToldEntry
    <3>3. i \in DOMAIN new /\ new[i] = outputs[i]
        BY <1>2
    <3>4. Told(new, s) = new[i]
        BY <1>4, <3>1, <3>3, ToldEntry
    <3>5. s # id
        BY <2>1
    <3>6. QED
        BY <3>2, <3>3, <3>4, <3>5
  <2>2. CASE s = id
    <3>1. Len(outputs) + 1 \in DOMAIN new
        BY <1>2
    <3>2. QED
        BY <1>2, <1>4, <2>2, <3>1, ToldEntry
  <2>3. CASE s \notin ToSet(Ids(outputs)) /\ s # id
      BY <1>5, <2>3 DEF Told
  <2>4. QED
      BY <2>1, <2>2, <2>3
<1>7. QED
    BY <1>3, <1>4, <1>6 DEF new

\* And back.
LEMMA FrontOutputs ==
    ASSUME NEW outputs \in Seq(RequestOutput), NEW out \in RequestOutput,
           Append(outputs, out) \in Outputs1
    PROVE  outputs \in Outputs1 /\ out.seq_id \notin ToSet(Ids(outputs))
<1> DEFINE a == Ids(outputs)
           b == Append(a, out.seq_id)
<1>1. out.seq_id \in SeqId
    BY DEF RequestOutput
<1>2. a \in Seq(SeqId) /\ IsInjective(b)
    BY IdsOf, IdsAppend DEF Outputs1
<1> HIDE DEF a
<1>3. /\ DOMAIN b = 1 .. Len(a) + 1 /\ DOMAIN a = 1 .. Len(a) /\ Len(a) \in Nat
      /\ \A i \in 1 .. Len(a) : b[i] = a[i]
      /\ b[Len(a) + 1] = out.seq_id
    BY <1>1, <1>2
<1> HIDE DEF b
<1>4. IsInjective(a)
    BY <1>2, <1>3 DEF IsInjective
<1>5. ASSUME NEW i \in DOMAIN a, a[i] = out.seq_id PROVE FALSE
  <2>1. i \in DOMAIN b /\ Len(a) + 1 \in DOMAIN b /\ i # Len(a) + 1 /\ b[i] = b[Len(a) + 1]
      BY <1>3, <1>5
  <2>2. QED
      BY <1>2, <2>1 DEF IsInjective
<1>6. out.seq_id \notin ToSet(a)
    BY <1>5 DEF ToSet
<1>7. QED
    BY <1>4, <1>6 DEF a, Outputs1

\* One RequestOutput.
LEMMA AccumulateOne ==
    ASSUME NEW outputs \in Outputs1, NEW out \in RequestOutput
    PROVE  LET new == Accumulate(outputs, out)
           IN  /\ new \in Outputs1
               /\ Ids(new) = IF out.seq_id \in ToSet(Ids(outputs)) THEN Ids(outputs)
                             ELSE Append(Ids(outputs), out.seq_id)
               /\ \A s \in SeqId :
                     Told(new, s) = IF s = out.seq_id THEN Merged(Told(outputs, s), out)
                                    ELSE Told(outputs, s)
<1> DEFINE new == Accumulate(outputs, out)
           id == out.seq_id
<1>1. outputs \in Seq(RequestOutput) /\ IsInjective(Ids(outputs)) /\ id \in SeqId
    BY DEF Outputs1, RequestOutput
<1>2. CASE id \in ToSet(Ids(outputs))
  <2>1. \E i \in DOMAIN outputs : outputs[i].seq_id = id
      BY <1>1, <1>2, IdsOf
  <2> DEFINE Joined(i) == [out EXCEPT !.tokens = outputs[i].tokens \o @,
                                      !.reason = IF @ = "NONE" THEN outputs[i].reason ELSE @]
  <2>2. new = [i \in DOMAIN outputs |-> IF outputs[i].seq_id # id THEN outputs[i] ELSE Joined(i)]
      BY <2>1 DEF Accumulate
  <2>3. ASSUME NEW i \in DOMAIN outputs PROVE Joined(i) = Merged(outputs[i], out)
    <3> PICK a, b : /\ a = outputs[i].tokens \o out.tokens
                    /\ b = IF out.reason = "NONE" THEN outputs[i].reason ELSE out.reason
        OBVIOUS
    <3>1. /\ Merged(outputs[i], out) \in RequestOutput /\ Merged(outputs[i], out).seq_id = id
          /\ Merged(outputs[i], out).tokens = a /\ Merged(outputs[i], out).reason = b
        BY <1>1, IdsOf, MergedType DEF Merged
    <3>2. a \in Seq(Token) /\ b \in Reasons \cup {"NONE"}
        BY <3>1 DEF RequestOutput
    <3> DEFINE joined == [out EXCEPT !.tokens = a, !.reason = b]
    <3>3. Joined(i) = joined
        OBVIOUS
    <3>4. /\ joined \in RequestOutput /\ joined.seq_id = id
          /\ joined.tokens = a /\ joined.reason = b
        BY <3>2 DEF RequestOutput
    <3> HIDE DEF joined
    <3>5. joined = Merged(outputs[i], out)
        BY <3>1, <3>4, SameOutput
    <3>6. QED
        BY <3>3, <3>5
  <2> HIDE DEF Joined
  <2>4. \A i \in DOMAIN outputs :
            new[i] = IF outputs[i].seq_id # id THEN outputs[i] ELSE Merged(outputs[i], out)
      BY <2>2, <2>3
  <2>5. DOMAIN new = 1 .. Len(outputs) /\ DOMAIN outputs = 1 .. Len(outputs)
      BY <1>1, <2>2
  <2> HIDE DEF new
  <2>6. \A i \in DOMAIN outputs : new[i] \in RequestOutput /\ new[i].seq_id = outputs[i].seq_id
      BY <1>1, <2>4, IdsOf, MergedType
  <2>7. new \in Seq(RequestOutput)
    <3>1. new = [i \in 1 .. Len(outputs) |-> new[i]] /\ Len(outputs) \in Nat
        BY <1>1, <2>2, <2>5 DEF new
    <3>2. QED
        BY <2>5, <2>6, <3>1
  <2>8. Ids(new) = Ids(outputs)
      BY <2>5, <2>6 DEF Ids
  <2>9. new \in Outputs1
      BY <1>1, <2>7, <2>8 DEF Outputs1
  <2>10. ASSUME NEW s \in SeqId
         PROVE  Told(new, s) = IF s = id THEN Merged(Told(outputs, s), out) ELSE Told(outputs, s)
    <3>1. CASE s \in ToSet(Ids(outputs))
      <4>1. PICK i \in DOMAIN outputs : outputs[i].seq_id = s
          BY <1>1, <3>1, IdsOf
      <4>2. Told(outputs, s) = outputs[i]
          BY <4>1, ToldEntry
      <4>3. Told(new, s) = new[i]
          BY <2>5, <2>6, <2>9, <4>1, ToldEntry
      <4>4. QED
          BY <2>4, <4>1, <4>2, <4>3
    <3>2. CASE s \notin ToSet(Ids(outputs))
      <4>1. s # id
          BY <1>2, <3>2
      <4>2. QED
          BY <2>8, <3>2, <4>1 DEF Told
    <3>3. QED
        BY <3>1, <3>2
  <2>11. QED
      BY <1>2, <2>8, <2>9, <2>10 DEF new
<1>3. CASE id \notin ToSet(Ids(outputs))
  <2>1. ~\E i \in DOMAIN outputs : outputs[i].seq_id = id
      BY <1>1, <1>3, IdsOf
  <2>2. new = Append(outputs, out)
      BY <2>1 DEF Accumulate
  <2>3. /\ Append(outputs, out) \in Outputs1
        /\ Ids(Append(outputs, out)) = Append(Ids(outputs), id)
        /\ \A s \in SeqId : Told(Append(outputs, out), s) = IF s = id THEN out ELSE Told(outputs, s)
      BY <1>3, AppendOutput
  <2> HIDE DEF new
  <2>4. Merged(Told(outputs, id), out) = out
    <3>1. Told(outputs, id) = [seq_id |-> id, tokens |-> << >>, reason |-> "NONE"]
        BY <1>3 DEF Told
    <3>2. << >> \o out.tokens = out.tokens
      <4>1. out.tokens \in Seq(Token)
          BY DEF RequestOutput
      <4>2. QED
          BY <4>1, ConcatEmptySeq
    <3>3. QED
        BY <3>1, <3>2 DEF Merged, RequestOutput
  <2>5. QED
      BY <1>3, <2>2, <2>3, <2>4 DEF new
<1>4. QED
    BY <1>2, <1>3

\* The recursion, one output at a time.
AccumulateStep(outputs, outs, f, i) ==
    IF i = 0 THEN outputs ELSE Accumulate(f[i - 1], outs[i])

AccumulateSolved(outputs, outs, n, f) ==
    f = [i \in 0 .. n |-> AccumulateStep(outputs, outs, f, i)]

LEMMA AccumulateExists ==
    ASSUME NEW outputs, NEW outs, NEW n \in Nat
    PROVE  \E f : AccumulateSolved(outputs, outs, n, f)
<1> DEFINE X == {m \in Nat : \E f : AccumulateSolved(outputs, outs, m, f)}
<1>1. 0 \in X
  <2>1. AccumulateSolved(outputs, outs, 0, [i \in 0 .. 0 |-> outputs])
      BY DEF AccumulateSolved, AccumulateStep
  <2>2. QED
      BY <2>1
<1>2. ASSUME NEW m \in Nat, m \in X PROVE m + 1 \in X
  <2>1. PICK f : AccumulateSolved(outputs, outs, m, f)
      BY <1>2
  <2> DEFINE g == [i \in 0 .. m + 1 |-> IF i <= m THEN f[i]
                                        ELSE AccumulateStep(outputs, outs, f, i)]
  <2>2. \A i \in 0 .. m : f[i] = AccumulateStep(outputs, outs, f, i)
      BY <2>1 DEF AccumulateSolved
  <2>3. \A i \in 0 .. m + 1 :
            AccumulateStep(outputs, outs, f, i) = AccumulateStep(outputs, outs, g, i)
      BY DEF AccumulateStep
  <2>4. \A i \in 0 .. m + 1 : g[i] = AccumulateStep(outputs, outs, g, i)
      BY <2>2, <2>3
  <2>5. g = [i \in 0 .. m + 1 |-> g[i]]
      OBVIOUS
  <2> HIDE DEF g
  <2>6. AccumulateSolved(outputs, outs, m + 1, g)
      BY <2>4, <2>5 DEF AccumulateSolved
  <2>7. QED
      BY <2>6
<1> HIDE DEF X
<1>3. n \in X
    BY <1>1, <1>2, NatSetInduction
<1>4. QED
    BY <1>3 DEF X

LEMMA AccumulateUnfolds ==
    ASSUME NEW outputs, NEW outs, Len(outs) \in Nat
    PROVE  \E f : /\ AccumulateAll(outputs, outs) = f[Len(outs)]
                  /\ f[0] = outputs
                  /\ \A i \in 0 .. Len(outs) - 1 : f[i + 1] = Accumulate(f[i], outs[i + 1])
<1> DEFINE f == CHOOSE g : AccumulateSolved(outputs, outs, Len(outs), g)
<1>1. AccumulateSolved(outputs, outs, Len(outs), f)
    BY AccumulateExists
<1>2. AccumulateAll(outputs, outs) = f[Len(outs)]
    BY DEF AccumulateAll, AccumulateStep, AccumulateSolved
<1> HIDE DEF f
<1>3. \A i \in 0 .. Len(outs) : f[i] = AccumulateStep(outputs, outs, f, i)
    BY <1>1 DEF AccumulateSolved
<1>4. f[0] = outputs
    BY <1>3 DEF AccumulateStep
<1>5. ASSUME NEW i \in 0 .. Len(outs) - 1
      PROVE  f[i + 1] = Accumulate(f[i], outs[i + 1])
  <2>1. i + 1 \in 0 .. Len(outs) /\ i + 1 # 0 /\ (i + 1) - 1 = i
      OBVIOUS
  <2>2. f[i + 1] = AccumulateStep(outputs, outs, f, i + 1)
      BY <1>3, <2>1
  <2>3. QED
      BY <2>1, <2>2 DEF AccumulateStep
<1>6. QED
    BY <1>2, <1>4, <1>5

LEMMA AccumulateNothing == ASSUME NEW outputs PROVE AccumulateAll(outputs, << >>) = outputs
<1>1. Len(<< >>) = 0
    OBVIOUS
<1>2. QED
    BY <1>1, AccumulateUnfolds

LEMMA AccumulateOneMore ==
    ASSUME NEW outputs, NEW T, NEW outs \in Seq(T), NEW out \in T
    PROVE  AccumulateAll(outputs, Append(outs, out)) =
               Accumulate(AccumulateAll(outputs, outs), out)
<1> DEFINE more == Append(outs, out)
           n == Len(outs)
<1>1. /\ Len(more) = n + 1 /\ n \in Nat /\ more[n + 1] = out
      /\ \A i \in 1 .. n : more[i] = outs[i]
    OBVIOUS
<1> HIDE DEF more
<1>2. PICK f : /\ AccumulateAll(outputs, outs) = f[n]
               /\ f[0] = outputs
               /\ \A i \in 0 .. n - 1 : f[i + 1] = Accumulate(f[i], outs[i + 1])
  <2>1. Len(outs) \in Nat
      BY <1>1
  <2>2. QED
      BY <2>1, AccumulateUnfolds
<1> HIDE DEF n
<1>3. PICK g : /\ AccumulateAll(outputs, more) = g[n + 1]
               /\ g[0] = outputs
               /\ \A i \in 0 .. n : g[i + 1] = Accumulate(g[i], more[i + 1])
  <2>1. Len(more) \in Nat
      BY <1>1
  <2>2. PICK g : /\ AccumulateAll(outputs, more) = g[Len(more)]
                 /\ g[0] = outputs
                 /\ \A i \in 0 .. Len(more) - 1 : g[i + 1] = Accumulate(g[i], more[i + 1])
      BY <2>1, AccumulateUnfolds
  <2>3. Len(more) - 1 = n
      BY <1>1
  <2>4. QED
      BY <1>1, <2>2, <2>3
<1> DEFINE X == {i \in Nat : i <= n => f[i] = g[i]}
<1>4. 0 \in X
    BY <1>2, <1>3
<1>5. ASSUME NEW i \in Nat, i \in X PROVE i + 1 \in X
  <2>1. SUFFICES ASSUME i + 1 <= n PROVE f[i + 1] = g[i + 1]
      OBVIOUS
  <2>2. i \in 0 .. n - 1 /\ i \in 0 .. n /\ i + 1 \in 1 .. n /\ f[i] = g[i]
      BY <1>1, <1>5, <2>1
  <2>3. more[i + 1] = outs[i + 1]
      BY <1>1, <2>2
  <2>4. QED
      BY <1>2, <1>3, <2>2, <2>3
<1> HIDE DEF X
<1>6. n \in X
    BY <1>1, <1>4, <1>5, NatSetInduction
<1>7. f[n] = g[n] /\ n \in 0 .. n
    BY <1>1, <1>6 DEF X
<1>8. g[n + 1] = Accumulate(g[n], out)
    BY <1>1, <1>3, <1>7
<1>9. QED
    BY <1>2, <1>3, <1>7, <1>8 DEF more

\* All the outputs of a step: each request is told what it was told before and
\* what this step says, and who has no entry yet gets one behind the others, in
\* the order of the step.
LEMMA AccumulatedAll ==
    ASSUME NEW outputs \in Outputs1, NEW outs \in Outputs1
    PROVE  LET new == AccumulateAll(outputs, outs)
           IN  /\ new \in Outputs1
               /\ ToSet(Ids(new)) = ToSet(Ids(outputs)) \cup ToSet(Ids(outs))
               /\ \A s \in SeqId :
                     Told(new, s) = IF s \in ToSet(Ids(outs))
                                    THEN Merged(Told(outputs, s), Told(outs, s))
                                    ELSE Told(outputs, s)
               /\ \A A : Keep(Ids(new), A) =
                            Keep(Ids(outputs), A) \o Keep(Ids(outs), A \ ToSet(Ids(outputs)))
<1> DEFINE Right(w, new) ==
               /\ new \in Outputs1
               /\ ToSet(Ids(new)) = ToSet(Ids(outputs)) \cup ToSet(Ids(w))
               /\ \A s \in SeqId :
                     Told(new, s) = IF s \in ToSet(Ids(w))
                                    THEN Merged(Told(outputs, s), Told(w, s))
                                    ELSE Told(outputs, s)
               /\ \A A : Keep(Ids(new), A) =
                            Keep(Ids(outputs), A) \o Keep(Ids(w), A \ ToSet(Ids(outputs)))
           X == {w \in Seq(RequestOutput) :
                     w \in Outputs1 => Right(w, AccumulateAll(outputs, w))}
<1>0. outputs \in Seq(RequestOutput) /\ Ids(outputs) \in Seq(SeqId)
    BY IdsOf DEF Outputs1
<1>1. << >> \in X
  <2>1. Ids(<< >>) = << >> /\ ToSet(<< >>) = {} /\ << >> \in Seq(RequestOutput)
      BY DEF Ids, ToSet
  <2>2. ASSUME NEW A
        PROVE  Keep(Ids(outputs), A) =
                   Keep(Ids(outputs), A) \o Keep(<< >>, A \ ToSet(Ids(outputs)))
    <3>1. Keep(Ids(outputs), A) \in Seq(SeqId)
        BY <1>0, KeepProperties
    <3>2. QED
        BY <3>1, KeepNothing, ConcatEmptySeq
  <2>3. Right(<< >>, outputs)
      BY <2>1, <2>2
  <2>4. QED
      BY <2>1, <2>3, AccumulateNothing
<1>2. ASSUME NEW w \in Seq(RequestOutput), NEW e \in RequestOutput, w \in X
      PROVE  Append(w, e) \in X
  <2>1. SUFFICES ASSUME Append(w, e) \in Outputs1
                 PROVE  Right(Append(w, e), AccumulateAll(outputs, Append(w, e)))
      BY AppendProperties
  <2> DEFINE id == e.seq_id
             old == AccumulateAll(outputs, w)
             new == Accumulate(old, e)
  <2>2. w \in Outputs1 /\ id \notin ToSet(Ids(w)) /\ id \in SeqId
      BY <2>1, FrontOutputs DEF RequestOutput
  <2>3. Right(w, old)
      BY <1>2, <2>2
  <2>4. AccumulateAll(outputs, Append(w, e)) = new
      BY AccumulateOneMore
  <2> HIDE DEF old, Right
  <2>5. old \in Outputs1 /\ ToSet(Ids(old)) = ToSet(Ids(outputs)) \cup ToSet(Ids(w))
      BY <2>3 DEF Right
  <2>6. /\ new \in Outputs1
        /\ Ids(new) = IF id \in ToSet(Ids(old)) THEN Ids(old) ELSE Append(Ids(old), id)
        /\ \A s \in SeqId :
               Told(new, s) = IF s = id THEN Merged(Told(old, s), e) ELSE Told(old, s)
      BY <2>5, AccumulateOne
  <2> HIDE DEF new
  <2>7. /\ Ids(Append(w, e)) = Append(Ids(w), id)
        /\ \A s \in SeqId : Told(Append(w, e), s) = IF s = id THEN e ELSE Told(w, s)
      BY <2>2, AppendOutput
  <2>8. /\ Ids(old) \in Seq(SeqId) /\ Ids(w) \in Seq(SeqId)
        /\ ToSet(Append(Ids(old), id)) = ToSet(Ids(old)) \cup {id}
        /\ ToSet(Append(Ids(w), id)) = ToSet(Ids(w)) \cup {id}
    <3>1. Ids(old) \in Seq(SeqId) /\ Ids(w) \in Seq(SeqId)
        BY <2>5, IdsOf DEF Outputs1
    <3>2. QED
        BY <2>2, <3>1, AppendDistinct
  <2>9. ToSet(Ids(new)) = ToSet(Ids(outputs)) \cup ToSet(Ids(Append(w, e)))
      BY <2>5, <2>6, <2>7, <2>8
  <2>10. ASSUME NEW s \in SeqId
         PROVE  Told(new, s) = IF s \in ToSet(Ids(Append(w, e)))
                               THEN Merged(Told(outputs, s), Told(Append(w, e), s))
                               ELSE Told(outputs, s)
    <3>1. Told(old, s) = IF s \in ToSet(Ids(w)) THEN Merged(Told(outputs, s), Told(w, s))
                         ELSE Told(outputs, s)
        BY <2>3 DEF Right
    <3>2. s \in ToSet(Ids(Append(w, e))) <=> s \in ToSet(Ids(w)) \/ s = id
        BY <2>7, <2>8
    <3>3. CASE s = id
        BY <2>2, <2>6, <2>7, <3>1, <3>2, <3>3
    <3>4. CASE s # id
        BY <2>6, <2>7, <3>1, <3>2, <3>4
    <3>5. QED
        BY <3>3, <3>4
  <2>11. ASSUME NEW A
         PROVE  Keep(Ids(new), A) =
                    Keep(Ids(outputs), A) \o Keep(Ids(Append(w, e)), A \ ToSet(Ids(outputs)))
    <3> DEFINE B == A \ ToSet(Ids(outputs))
               a == Keep(Ids(outputs), A)
               b == Keep(Ids(w), B)
    <3>1. a \in Seq(SeqId) /\ b \in Seq(SeqId)
        BY <1>0, <2>8, KeepProperties
    <3>2. Keep(Ids(old), A) = a \o b
        BY <2>3 DEF Right
    <3>3. Keep(Ids(Append(w, e)), B) = IF id \in B THEN Append(b, id) ELSE b
      <4> PICK u \in Seq(SeqId) : u = Ids(w)
          BY <2>8
      <4>1. Keep(Append(u, id), B) = IF id \in B THEN Append(Keep(u, B), id) ELSE Keep(u, B)
          BY <2>2, KeepAppendId
      <4>2. QED
          BY <2>7, <4>1
    <3>4. Keep(Append(Ids(old), id), A) =
              IF id \in A THEN Append(Keep(Ids(old), A), id) ELSE Keep(Ids(old), A)
      <4> PICK u \in Seq(SeqId) : u = Ids(old)
          BY <2>8
      <4>1. \A S : Keep(Append(u, id), S) =
                      IF id \in S THEN Append(Keep(u, S), id) ELSE Keep(u, S)
          BY <2>2, KeepAppendId
      <4>2. QED
          BY <4>1
    <3> HIDE DEF a, b
    <3>5. Append(a \o b, id) = a \o Append(b, id)
      <4>1. a \o b \in Seq(SeqId) /\ <<id>> \in Seq(SeqId)
          BY <2>2, <3>1
      <4>2. Append(a \o b, id) = (a \o b) \o <<id>> /\ Append(b, id) = b \o <<id>>
          BY <2>2, <3>1, <4>1, AppendIsConcat
      <4>3. QED
          BY <3>1, <4>1, <4>2, ConcatAssociative
    <3>6. CASE id \in ToSet(Ids(outputs))
      <4>1. Ids(new) = Ids(old) /\ id \notin B
          BY <2>5, <2>6, <3>6
      <4>2. QED
          BY <3>2, <3>3, <4>1 DEF a, b
    <3>7. CASE id \notin ToSet(Ids(outputs))
      <4>1. Ids(new) = Append(Ids(old), id) /\ (id \in B <=> id \in A)
          BY <2>2, <2>5, <2>6, <3>7
      <4>2. CASE id \in A
          BY <3>2, <3>3, <3>4, <3>5, <4>1, <4>2 DEF a, b
      <4>3. CASE id \notin A
          BY <3>2, <3>3, <3>4, <4>1, <4>3 DEF a, b
      <4>4. QED
          BY <4>2, <4>3
    <3>8. QED
        BY <3>6, <3>7
  <2>12. QED
      BY <2>4, <2>6, <2>9, <2>10, <2>11 DEF Right
<1>3. Seq(RequestOutput) \subseteq X
  <2> HIDE DEF X
  <2>1. QED
      BY <1>1, <1>2, SeqSetInduction
<1>4. Right(outs, AccumulateAll(outputs, outs))
  <2>1. outs \in Seq(RequestOutput)
      BY DEF Outputs1
  <2> HIDE DEF Right
  <2>2. QED
      BY <1>3, <2>1
<1>5. QED
    BY <1>4

-----------------------------------------------------------------------------
(* What the steps keep for run().                                          *)

\* The outputs of a step are well formed: it finishes a request once, and what
\* it scheduled it has sampled, of requests that run or have just ended.
StepBooks ==
    /\ \A s \in SeqId :
           seqs[s].status = "NEW" => Len(seqs[s].token_ids) = seqs[s].prompt_len
    /\ IsInjective(finished_seqs)
    /\ phase \in {"update", "outputs"} => \A s \in ScheduledIds : sampled[s] \in Token
    /\ \A s \in ScheduledIds : seqs[s].status \in {"RUNNING", "DONE"}

\* What every step leaves alone in a request x.
LEMMA StepLeaves ==
    ASSUME EngineInv, [Next]_vars, NEW x \in SeqId
    PROVE  /\ seqs'[x].prompt_len = seqs[x].prompt_len
           /\ seqs'[x].status = "NEW" =>
                 seqs[x].status = "NEW" /\ seqs'[x].token_ids = seqs[x].token_ids
           /\ EndKept(x) \/ Ends(x)
<1>1. CASE UpdateSeq(x)
  <2>1. /\ x \in ToSet(running) /\ seqs'[x].prompt_len = seqs[x].prompt_len
        /\ EndKept(x) \/ Ends(x)
      BY <1>1, UpdatedText
  <2>2. seqs[x].status = "RUNNING"
      BY <2>1 DEF EngineInv, Queues
  <2>3. seqs'[x].status # "NEW"
    <3>1. SUFFICES ASSUME ~RankKept(x) PROVE seqs'[x].status # "NEW"
        BY <2>2 DEF RankKept
    <3>2. PICK s \in SeqId : HandlesRunning(s)
        BY <3>1, OnlyPreempted
    <3>3. QED
        BY <1>1, <3>2 DEF UpdateSeq, HandlesRunning
  <2>4. QED
      BY <2>1, <2>3
<1>2. CASE ~UpdateSeq(x)
  <2>1. TextKept(x) /\ (EndKept(x) \/ Ends(x))
      BY <1>2, OnlyUpdatesGrow
  <2>2. seqs'[x].status = "NEW" => seqs[x].status = "NEW"
    <3>1. CASE RankKept(x)
        BY <3>1 DEF RankKept
    <3>2. CASE ~RankKept(x)
      <4>1. Preempt(x) /\ seqs \in [SeqId -> EngineSeq]
          BY <3>2, OnlyPreempted, RunningNeeds
      <4>2. seqs'[x].status = "WAITING"
          BY <4>1 DEF Preempt, ResetForRecompute, EngineSeq
      <4>3. QED
          BY <4>2
    <3>3. QED
        BY <3>1, <3>2
  <2>3. QED
      BY <2>1, <2>2 DEF TextKept
<1>3. QED
    BY <1>1, <1>2

\* update_from_output on the sequence s.
LEMMA UpdateLeaves ==
    ASSUME EngineInv, NEW s \in SeqId, UpdateSeq(s)
    PROVE  /\ seqs[s].status = "RUNNING" /\ seqs'[s].status \in {"RUNNING", "DONE"}
           /\ s \in ToSet(running) /\ s \in ScheduledIds
           /\ \A x \in SeqId : x # s => seqs'[x] = seqs[x]
           /\ waiting' = waiting /\ ToSet(running') \subseteq ToSet(running)
           /\ \/ finished_seqs' = finished_seqs
              \/ finished_seqs' = Append(finished_seqs, s)
           /\ UNCHANGED <<phase, scheduled, preempted_seqs, sampled, sequences, delivered>>
<1>1. /\ s \in ToSet(running) /\ s \in ScheduledIds
      /\ \A x \in SeqId : x # s => seqs'[x] = seqs[x]
      /\ UNCHANGED <<phase, scheduled, sampled, sequences, delivered>>
      /\ \/ finished_seqs' = finished_seqs
         \/ finished_seqs' = Append(finished_seqs, s)
    BY UpdatedText
<1>2. preempted_seqs' = preempted_seqs
    BY DEF UpdateSeq
<1>3. seqs[s].status = "RUNNING" /\ Types /\ Queues /\ seqs \in [SeqId -> EngineSeq]
    BY <1>1, RunningNeeds DEF EngineInv, Queues
<1>4. ASSUME FreeSeq(s)
      PROVE  waiting' = waiting /\ ToSet(running') \subseteq ToSet(running)
    BY <1>1, <1>3, <1>4, FreeSeqQueues DEF FreeSeq
<1>5. \/ /\ FreeSeq(s)
         /\ \E q, reason : seqs' = [seqs EXCEPT ![s] = Finished(q, reason)] /\ q \in EngineSeq
      \/ /\ UNCHANGED queueVars
         /\ seqs'[s].status = seqs[s].status
  <2> PICK n, token : /\ n = (CHOOSE e \in ToSet(scheduled) : e.seq_id = s).num_tokens
                      /\ token = sampled[s]
      OBVIOUS
  <2> DEFINE seq == [seqs[s] EXCEPT !.num_computed_tokens = @ + n]
             grown == [seq EXCEPT !.token_ids = Append(@, token)]
  <2>1. \/ Finish(s, seq, "STOP") \/ Finish(s, grown, "LENGTH")
        \/ seqs' = [seqs EXCEPT ![s] = grown] /\ UNCHANGED queueVars
      BY DEF UpdateSeq
  <2>2. seq \in EngineSeq /\ grown \in EngineSeq /\ grown.status = seqs[s].status
    <3>1. n \in Nat /\ token \in Token
      <4>1. /\ n = NumTokensToCompute(seqs[s]) /\ token \in Token
          BY UpdatedEntry DEF UpdateSeq
      <4>2. seqs[s].num_computed_tokens < Len(seqs[s].token_ids)
          BY <1>1 DEF EngineInv, Tokens
      <4>3. seqs[s].num_computed_tokens \in Nat /\ Len(seqs[s].token_ids) \in Nat
          BY <1>3 DEF EngineSeq
      <4>4. QED
          BY <4>1, <4>2, <4>3 DEF NumTokensToCompute
    <3>2. seqs[s] \in EngineSeq /\ seqs[s].num_computed_tokens + n \in Nat
      <4>1. seqs[s] \in EngineSeq
          BY <1>3
      <4>2. QED
          BY <3>1, <4>1 DEF EngineSeq
    <3>3. seq \in EngineSeq /\ seq.status = seqs[s].status
        BY <3>2 DEF EngineSeq
    <3> HIDE DEF seq
    <3>4. Append(seq.token_ids, token) \in Seq(Token)
        BY <3>1, <3>3 DEF EngineSeq
    <3>5. grown \in EngineSeq /\ grown.status = seq.status
        BY <3>3, <3>4 DEF EngineSeq
    <3>6. QED
        BY <3>3, <3>5
  <2> HIDE DEF seq, grown
  <2>3. QED
      BY <1>3, <2>1, <2>2 DEF Finish
<1>6. CASE \/ /\ FreeSeq(s)
              /\ \E q, reason : seqs' = [seqs EXCEPT ![s] = Finished(q, reason)] /\ q \in EngineSeq
  <2>1. PICK q, reason : seqs' = [seqs EXCEPT ![s] = Finished(q, reason)] /\ q \in EngineSeq
      BY <1>6
  <2>2. seqs'[s].status = "DONE"
      BY <1>3, <2>1 DEF Finished, EngineSeq
  <2>3. QED
      BY <1>1, <1>2, <1>3, <1>4, <1>6, <2>2
<1>7. CASE UNCHANGED queueVars /\ seqs'[s].status = seqs[s].status
    BY <1>1, <1>2, <1>3, <1>7 DEF queueVars
<1>8. QED
    BY <1>5, <1>6, <1>7

LEMMA NextStepBooks ==
    ASSUME EngineInv, [Next]_vars, StepBooks
    PROVE  StepBooks'
<1>1. EngineInv'
    BY NextInv
<1>2. finished_seqs \in Seq(SeqId) /\ waiting \in Seq(SeqId) /\ scheduled \in Seq(Entry)
    BY DEF EngineInv, Types, TypeOK
<1>3. \A s \in SeqId :
          seqs'[s].status = "NEW" => Len(seqs'[s].token_ids) = seqs'[s].prompt_len
    BY StepLeaves DEF StepBooks
<1>4. \/ finished_seqs' = finished_seqs \/ finished_seqs' = << >>
      \/ \E s \in SeqId : /\ finished_seqs' = Append(finished_seqs, s)
                          /\ seqs[s].status # "DONE"
  <2>1. ASSUME NEW s \in SeqId, UpdateSeq(s)
        PROVE  \/ finished_seqs' = finished_seqs
               \/ finished_seqs' = Append(finished_seqs, s) /\ seqs[s].status # "DONE"
      BY <2>1, UpdateLeaves
  <2>2. ASSUME NEW s \in SeqId, AddRequest(s) \/ AbortRequest(s)
        PROVE  \/ finished_seqs' = finished_seqs
               \/ finished_seqs' = Append(finished_seqs, s) /\ seqs[s].status # "DONE"
      BY <2>2 DEF AddRequest, AbortRequest, Finish
  <2>3. ASSUME NEW s \in SeqId, RejectWaiting(s)
        PROVE  finished_seqs' = Append(finished_seqs, s) /\ seqs[s].status # "DONE"
    <3>1. waiting # << >> /\ s = waiting[1] /\ finished_seqs' = Append(finished_seqs, s)
        BY <1>2, <2>3 DEF RejectWaiting, HandlesWaiting, Finish
    <3>2. s \in ToSet(waiting)
        BY <1>2, <3>1 DEF ToSet
    <3>3. QED
        BY <3>1, <3>2 DEF EngineInv, Queues
  <2>4. CASE Outputs \/ Reset
      BY <2>4 DEF Outputs, Reset
  <2>5. CASE Quiet \/ \E s \in SeqId : PreemptOther(s) \/ PreemptSelf(s) \/ Admit(s)
      BY <2>5, QuietKeeps DEF PreemptOther, PreemptSelf, Preempt, Admit
  <2>6. QED
      BY <2>1, <2>2, <2>3, <2>4, <2>5 DEF Next, RestOfStep, Schedule, Quiet
<1>5. IsInjective(finished_seqs')
  <2>1. IsInjective(finished_seqs) /\ IsInjective(<< >>)
      BY DEF StepBooks, IsInjective
  <2>2. ASSUME NEW s \in SeqId, finished_seqs' = Append(finished_seqs, s),
               seqs[s].status # "DONE"
        PROVE  IsInjective(finished_seqs')
    <3>1. s \notin ToSet(finished_seqs)
        BY <2>2 DEF EngineInv, Queues
    <3>2. QED
        BY <1>2, <2>1, <2>2, <3>1, AppendDistinct
  <2>3. QED
      BY <1>4, <2>1, <2>2
<1>6. ASSUME phase' \in {"update", "outputs", "stalled"}
      PROVE  \/ ExecuteModel \/ UpdateDone \/ UNCHANGED vars
             \/ NothingToExecute \/ BeginStep \/ \E s \in SeqId : UpdateSeq(s)
    BY <1>6 DEF SkipPreempted, RequeuePreempted, StopAdmitting, ExecuteRaises, Outputs,
                Reset, ScheduleRunning, PreemptOther, PreemptSelf, Preempt, RejectWaiting,
                Admit, AddRequest, AbortRequest, HandlesRunning, HandlesWaiting, stepVars,
                Next, RestOfStep, Schedule
<1>7. phase' \in {"update", "outputs"} => \A s \in ScheduledIds' : sampled'[s] \in Token
  <2>1. CASE phase' = "update"
      BY <1>1, <2>1 DEF EngineInv, Types
  <2>2. CASE phase' = "outputs" /\ (NothingToExecute \/ BeginStep)
    <3>1. scheduled' = << >>
        BY <2>2 DEF NothingToExecute, BeginStep, EngineInv, Loops
    <3>2. QED
        BY <3>1 DEF ScheduledIds
  <2>3. CASE phase' = "outputs" /\ (UpdateDone \/ UNCHANGED vars)
    <3>1. /\ phase \in {"update", "outputs"} /\ sampled' = sampled /\ scheduled' = scheduled
        BY <2>3 DEF UpdateDone, vars, stepVars
    <3>2. QED
        BY <3>1 DEF StepBooks, ScheduledIds
  <2>4. CASE phase' = "outputs" /\ (ExecuteModel \/ \E s \in SeqId : UpdateSeq(s))
      BY <2>4 DEF ExecuteModel, UpdateSeq
  <2>5. QED
      BY <1>6, <2>1, <2>2, <2>3, <2>4
<1>8. ASSUME NEW s \in ScheduledIds'
      PROVE  seqs'[s].status \in {"RUNNING", "DONE"}
  <2>1. CASE phase' = "idle"
    <3>1. scheduled' = << >>
        BY <1>1, <2>1 DEF EngineInv, Loops
    <3>2. QED
        BY <3>1 DEF ScheduledIds
  <2>2. CASE phase' \in {"running", "waiting", "execute"}
    <3>1. PICK e \in ToSet(scheduled') : e.seq_id = s
        BY DEF ScheduledIds, ToSet
    <3>2. s \in ToSet(running')
        BY <1>1, <2>2, <3>1 DEF EngineInv, LiveSchedule, Live
    <3>3. QED
        BY <1>1, <3>2 DEF EngineInv, Queues
  <2>3. CASE phase' \in {"update", "outputs", "stalled"}
    <3>1. CASE ExecuteModel \/ UpdateDone \/ UNCHANGED vars \/ NothingToExecute \/ BeginStep
      <4>1. scheduled' = scheduled /\ seqs' = seqs
          BY <3>1 DEF ExecuteModel, UpdateDone, NothingToExecute, BeginStep, vars, stepVars
      <4>2. QED
          BY <4>1 DEF StepBooks, ScheduledIds
    <3>2. ASSUME NEW x \in SeqId, UpdateSeq(x)
          PROVE  seqs'[s].status \in {"RUNNING", "DONE"}
      <4>1. /\ scheduled' = scheduled /\ seqs'[x].status \in {"RUNNING", "DONE"}
            /\ \A y \in SeqId : y # x => seqs'[y] = seqs[y]
          BY <3>2, UpdateLeaves
      <4>2. s \in ScheduledIds /\ s \in SeqId
        <5>1. s \in ScheduledIds
            BY <4>1 DEF ScheduledIds
        <5>2. PICK i \in DOMAIN scheduled : s = scheduled[i].seq_id
            BY <5>1 DEF ScheduledIds
        <5>3. scheduled[i] \in Entry
            BY <1>2
        <5>4. QED
            BY <5>1, <5>2, <5>3 DEF Entry
      <4>3. QED
          BY <4>1, <4>2 DEF StepBooks
    <3>3. QED
        BY <1>6, <2>3, <3>1, <3>2
  <2>4. phase' \in Phases
      BY <1>1 DEF EngineInv, Types, TypeOK
  <2>5. QED
      BY <2>1, <2>2, <2>3, <2>4 DEF Phases
<1>9. QED
    BY <1>3, <1>5, <1>7, <1>8 DEF StepBooks

-----------------------------------------------------------------------------
(* The outputs of a step.                                                  *)

ScheduledSeq == [i \in DOMAIN scheduled |-> scheduled[i].seq_id]

LEMMA ScheduledSeqIs ==
    ASSUME EngineInv
    PROVE  /\ ScheduledSeq \in Seq(SeqId) /\ Len(ScheduledSeq) = Len(scheduled)
           /\ \A i \in 1 .. Len(scheduled) : ScheduledSeq[i] = scheduled[i].seq_id
           /\ ToSet(ScheduledSeq) = ScheduledIds /\ ScheduledIds \subseteq SeqId
           /\ IsInjective(ScheduledSeq)
<1>1. scheduled \in Seq(Entry) /\ Loops
    BY DEF EngineInv, Types
<1>2. \A i \in DOMAIN scheduled : scheduled[i] \in Entry /\ scheduled[i].seq_id \in SeqId
  <2> TAKE i \in DOMAIN scheduled
  <2>1. scheduled[i] \in Entry
      BY <1>1
  <2>2. QED
      BY <2>1 DEF Entry
<1>3. DOMAIN scheduled = 1 .. Len(scheduled) /\ Len(scheduled) \in Nat
    BY <1>1
<1>4. /\ ScheduledSeq \in Seq(SeqId) /\ Len(ScheduledSeq) = Len(scheduled)
      /\ DOMAIN ScheduledSeq = DOMAIN scheduled
      /\ \A i \in DOMAIN scheduled : ScheduledSeq[i] = scheduled[i].seq_id
    BY <1>2, <1>3 DEF ScheduledSeq
<1>5. ToSet(ScheduledSeq) = ScheduledIds /\ ScheduledIds \subseteq SeqId
    BY <1>2, <1>4 DEF ToSet, ScheduledIds
<1>6. IsInjective(ScheduledSeq)
    BY <1>1, <1>4 DEF IsInjective, Loops
<1>7. QED
    BY <1>3, <1>4, <1>5, <1>6

\* One RequestOutput for each scheduled sequence and each other finished one.
LEMMA StepOutputsAre ==
    ASSUME EngineInv, StepBooks, phase = "outputs"
    PROVE  /\ StepOutputs \in Outputs1
           /\ Ids(StepOutputs) = ScheduledSeq \o Delete(finished_seqs, ScheduledIds)
           /\ ToSet(Ids(StepOutputs)) = ScheduledIds \cup ToSet(finished_seqs)
           /\ \A s \in ToSet(Ids(StepOutputs)) :
                 /\ Told(StepOutputs, s).tokens = NewTokens(s)
                 /\ Told(StepOutputs, s).reason = seqs[s].finish_reason
<1> DEFINE u == ScheduledSeq
           d == Delete(finished_seqs, ScheduledIds)
           ids == u \o d
           Output(s) == [seq_id |-> s, tokens |-> NewTokens(s),
                         reason |-> seqs[s].finish_reason]
           left == [i \in DOMAIN scheduled |-> Output(scheduled[i].seq_id)]
           right == [i \in DOMAIN d |-> Output(d[i])]
<1>1. /\ u \in Seq(SeqId) /\ Len(u) = Len(scheduled) /\ Len(scheduled) \in Nat
      /\ \A i \in 1 .. Len(scheduled) : u[i] = scheduled[i].seq_id
      /\ ToSet(u) = ScheduledIds /\ IsInjective(u)
      /\ DOMAIN scheduled = 1 .. Len(scheduled)
  <2>1. scheduled \in Seq(Entry)
      BY DEF EngineInv, Types
  <2>2. QED
      BY <2>1, ScheduledSeqIs
<1>2. /\ d \in Seq(SeqId) /\ ToSet(d) = ToSet(finished_seqs) \ ScheduledIds
      /\ IsInjective(d)
  <2>1. finished_seqs \in Seq(SeqId) /\ IsInjective(finished_seqs)
      BY DEF EngineInv, Types, TypeOK, StepBooks
  <2>2. QED
      BY <2>1, DeleteAll
<1>3. StepOutputs = left \o right
    BY DEF StepOutputs
<1> HIDE DEF u, d
<1>4. /\ ids \in Seq(SeqId) /\ IsInjective(ids) /\ Len(ids) = Len(u) + Len(d)
      /\ ToSet(ids) = ScheduledIds \cup ToSet(finished_seqs)
    BY <1>1, <1>2, ConcatDistinct
<1>5. /\ \A i \in 1 .. Len(u) : ids[i] = u[i]
      /\ \A i \in Len(u) + 1 .. Len(u) + Len(d) : ids[i] = d[i - Len(u)]
    BY <1>1, <1>2
<1> HIDE DEF ids
<1>6. ASSUME NEW s \in SeqId
      PROVE  /\ Output(s) \in RequestOutput /\ Output(s).seq_id = s
             /\ Output(s).tokens = NewTokens(s)
             /\ Output(s).reason = seqs[s].finish_reason
  <2>1. seqs[s].finish_reason \in Reasons \cup {"NONE"}
      BY RunningNeeds DEF EngineSeq
  <2>2. NewTokens(s) \in Seq(Token)
    <3>1. s \in ScheduledIds => sampled[s] \in Token
        BY DEF StepBooks
    <3>2. << >> \in Seq(Token) /\ \A t \in Token : <<t>> \in Seq(Token)
        OBVIOUS
    <3>3. QED
        BY <3>1, <3>2 DEF NewTokens
  <2>3. QED
      BY <2>1, <2>2 DEF RequestOutput
<1> HIDE DEF Output
<1>7. /\ left \in Seq(RequestOutput) /\ Len(left) = Len(u)
      /\ \A i \in 1 .. Len(u) : left[i] = Output(u[i])
  <2>1. \A i \in DOMAIN scheduled : u[i] \in SeqId /\ scheduled[i].seq_id = u[i]
      BY <1>1
  <2>2. left = [i \in 1 .. Len(u) |-> Output(u[i])] /\ Len(u) \in Nat
      BY <1>1, <2>1
  <2>3. \A i \in 1 .. Len(u) : Output(u[i]) \in RequestOutput
      BY <1>1, <1>6
  <2> HIDE DEF left
  <2>4. QED
      BY <2>2, <2>3
<1>8. /\ right \in Seq(RequestOutput) /\ Len(right) = Len(d)
      /\ \A i \in 1 .. Len(d) : right[i] = Output(d[i])
  <2>1. right = [i \in 1 .. Len(d) |-> Output(d[i])] /\ Len(d) \in Nat
      BY <1>2
  <2>2. \A i \in 1 .. Len(d) : Output(d[i]) \in RequestOutput
      BY <1>2, <1>6
  <2> HIDE DEF right
  <2>3. QED
      BY <2>1, <2>2
<1> HIDE DEF left, right
<1> PICK outs : outs = left \o right
    OBVIOUS
<1>9. /\ outs \in Seq(RequestOutput) /\ Len(outs) = Len(ids)
      /\ \A i \in 1 .. Len(u) : outs[i] = left[i]
      /\ \A i \in Len(u) + 1 .. Len(u) + Len(d) : outs[i] = right[i - Len(u)]
  <2> PICK l \in Seq(RequestOutput), r \in Seq(RequestOutput) : l = left /\ r = right
      BY <1>7, <1>8
  <2>1. /\ l \o r \in Seq(RequestOutput) /\ Len(l \o r) = Len(l) + Len(r)
        /\ \A i \in 1 .. Len(l) : (l \o r)[i] = l[i]
        /\ \A i \in Len(l) + 1 .. Len(l) + Len(r) : (l \o r)[i] = r[i - Len(l)]
      OBVIOUS
  <2>2. Len(l) = Len(u) /\ Len(r) = Len(d) /\ outs = l \o r
      BY <1>7, <1>8
  <2>3. QED
      BY <1>4, <2>1, <2>2
<1>10. ASSUME NEW i \in 1 .. Len(ids)
       PROVE  outs[i] = Output(ids[i]) /\ outs[i].seq_id = ids[i]
  <2>1. Len(u) \in Nat /\ Len(d) \in Nat
      BY <1>1, <1>2
  <2>2. outs[i] = Output(ids[i])
    <3>1. CASE i \in 1 .. Len(u)
        BY <1>5, <1>7, <1>9, <3>1
    <3>2. CASE i \in Len(u) + 1 .. Len(u) + Len(d)
      <4>1. i - Len(u) \in 1 .. Len(d)
          BY <2>1, <3>2
      <4>2. QED
          BY <1>5, <1>8, <1>9, <3>2, <4>1
    <3>3. i \in 1 .. Len(u) \/ i \in Len(u) + 1 .. Len(u) + Len(d)
        BY <1>4, <2>1
    <3>4. QED
        BY <3>1, <3>2, <3>3
  <2>3. ids[i] \in SeqId
      BY <1>4
  <2>4. QED
      BY <1>6, <2>2, <2>3
<1>11. Ids(outs) = ids
  <2>1. /\ Ids(outs) \in Seq(SeqId) /\ Len(Ids(outs)) = Len(ids)
        /\ \A i \in 1 .. Len(ids) : Ids(outs)[i] = outs[i].seq_id
      BY <1>9, IdsOf
  <2> PICK v \in Seq(SeqId) : v = Ids(outs)
      BY <2>1
  <2>2. \A i \in 1 .. Len(v) : v[i] = ids[i]
      BY <1>10, <2>1
  <2>3. QED
      BY <1>4, <2>1, <2>2, SeqEqual
<1>12. outs \in Outputs1
    BY <1>4, <1>9, <1>11 DEF Outputs1
<1>13. ASSUME NEW s \in ToSet(ids)
       PROVE  Told(outs, s).tokens = NewTokens(s) /\ Told(outs, s).reason = seqs[s].finish_reason
  <2>1. PICK i \in 1 .. Len(ids) : ids[i] = s
      BY <1>4 DEF ToSet
  <2>2. i \in DOMAIN outs /\ outs[i].seq_id = s /\ outs[i] = Output(s) /\ s \in SeqId
      BY <1>4, <1>9, <1>10, <2>1
  <2>3. Told(outs, s) = outs[i]
      BY <1>12, <2>2, ToldEntry
  <2>4. QED
      BY <1>6, <2>2, <2>3
<1>14. QED
    BY <1>3, <1>4, <1>11, <1>12, <1>13 DEF ids, u, d

-----------------------------------------------------------------------------
(* The invariant of generate().                                            *)

Answerable == {s \in ToSet(asked) : Accepted(s)}
Unanswered == Answerable \ ToSet(Ids(final_outputs))

\* The call and what it has accumulated are well formed, and no request that is
\* still to be added has been seen by the engine.
Asking ==
    /\ asked \in Seq(SeqId) /\ toAdd \in Seq(SeqId) /\ calling \in BOOLEAN
    /\ final_outputs \in Outputs1
    /\ IsInjective(toAdd) /\ ToSet(toAdd) \subseteq ToSet(asked)
    /\ \A s \in ToSet(Ids(final_outputs)) : seqs[s].status # "NEW"
    /\ calling => \A s \in ToSet(toAdd) : seqs[s].status = "NEW"
    /\ ~calling => phase = "idle"

\* run() has accumulated all that step() has returned of the prompts.
AllTold ==
    calling =>
        \A s \in ToSet(asked) :
            LET told == Told(final_outputs, s)
            IN  /\ told.tokens = delivered[s].tokens
                /\ delivered[s].reasons =
                       IF told.reason = "NONE" THEN << >> ELSE <<told.reason>>

\* The engine knows a prompt until it has told that it ended.
NoneLost ==
    calling =>
        /\ \A s \in ToSet(asked) \ ToSet(toAdd) :
              \/ s \in sequences
              \/ /\ seqs[s].status = "DONE"
                 /\ delivered[s].reasons = <<seqs[s].finish_reason>>
        /\ phase = "idle" => ToSet(finished_seqs) \cap Answerable = {}

\* The prompts without an output wait in the order of the prompts, behind those
\* that have one: a sequence runs, is preempted or ends before its first output
\* only if the step that admitted it is still under way.
Line == Join(ScheduledSeq, Join(waiting, toAdd))

InLine ==
    calling =>
        /\ Join(Keep(Ids(final_outputs), Answerable), Keep(Line, Unanswered))
               = Keep(asked, Answerable)
        /\ (ToSet(running) \cup ToSet(finished_seqs)) \cap Unanswered \subseteq ScheduledIds
        /\ phase = "running" =>
              (ScheduledIds \cup ToSet(preempted_seqs)) \cap Unanswered = {}

Answered == Returned => ~calling /\ AnsweredInFull /\ AnsweredInOrder

\* The engine as its client needs it.
Served == EngineInv /\ StepBooks /\ Streams /\ Reports

LEMMA ClientStep ==
    ASSUME Asking, [GenerateNext]_generateVars
    PROVE  [Next]_vars
<1>1. CASE AddPrompt
  <2>1. Head(toAdd) \in SeqId /\ AddRequest(Head(toAdd))
      BY <1>1, TailDistinct DEF AddPrompt, Asking
  <2>2. QED
      BY <2>1 DEF Next
<1>2. CASE RunStep
    BY <1>2 DEF RunStep, Next
<1>3. CASE RunAccumulates
    BY <1>3 DEF RunAccumulates, Next, RestOfStep
<1>4. CASE CallRaises
    BY <1>4 DEF CallRaises, Next
<1>5. CASE Return
    BY <1>5 DEF Return
<1>6. CASE UNCHANGED generateVars
    BY <1>6 DEF generateVars
<1>7. ASSUME NEW prompts, Call(prompts) PROVE UNCHANGED vars
    BY <1>7 DEF Call
<1>8. QED
    BY <1>1, <1>2, <1>3, <1>4, <1>5, <1>6, <1>7 DEF GenerateNext

\* A call begins with prompts the engine has not seen.
LEMMA CallStarts ==
    ASSUME Served, Asking, NEW n \in Nat, NEW prompts \in [1 .. n -> SeqId],
           IsInjective(prompts), \A i \in 1 .. n : seqs[prompts[i]].status = "NEW",
           Call(prompts)
    PROVE  /\ calling' /\ asked' = prompts /\ toAdd' = prompts /\ prompts \in Seq(SeqId)
           /\ final_outputs' = << >> /\ Ids(final_outputs') = << >>
           /\ ToSet(Ids(final_outputs')) = {} /\ UNCHANGED vars /\ phase = "idle"
           /\ final_outputs' \in Outputs1
           /\ \A s \in ToSet(prompts) : s \in SeqId /\ seqs[s].status = "NEW"
<1>1. prompts \in Seq(SeqId) /\ DOMAIN prompts = 1 .. n
    OBVIOUS
<1>2. Ids(<< >>) = << >> /\ ToSet(<< >>) = {} /\ << >> \in Seq(RequestOutput)
    BY DEF Ids, ToSet
<1>3. << >> \in Outputs1
    BY <1>2 DEF Outputs1, IsInjective
<1>4. \A s \in ToSet(prompts) : s \in SeqId /\ seqs[s].status = "NEW"
    BY <1>1 DEF ToSet
<1>5. QED
    BY <1>1, <1>2, <1>3, <1>4 DEF Call, Asking

\* add_request, on the next prompt of the call.
LEMMA PromptAdded ==
    ASSUME Served, Asking, AddPrompt, NEW h, h = Head(toAdd)
    PROVE  /\ calling /\ UNCHANGED <<asked, calling, final_outputs, returned, delivered>>
           /\ h \in SeqId /\ h \in ToSet(toAdd) /\ h \in ToSet(asked)
           /\ seqs[h].status = "NEW" /\ phase = "idle" /\ phase' = "idle"
           /\ sequences' = sequences \cup {h} /\ UNCHANGED <<scheduled, preempted_seqs>>
           /\ toAdd # << >> /\ toAdd' = Tail(toAdd) /\ toAdd' \in Seq(SeqId)
           /\ IsInjective(toAdd') /\ ToSet(toAdd') = ToSet(toAdd) \ {h}
           /\ \A x \in SeqId : x # h => seqs'[x] = seqs[x]
           /\ \/ /\ ~Accepted(h)
                 /\ FreeSeq(h) /\ finished_seqs' = Append(finished_seqs, h)
              \/ /\ waiting' = Append(waiting, h)
                 /\ UNCHANGED <<running, finished_seqs>>
<1>1. /\ calling /\ UNCHANGED <<asked, calling, final_outputs, returned, delivered>>
      /\ phase = "idle" /\ phase' = "idle" /\ seqs[h].status = "NEW"
      /\ sequences' = sequences \cup {h} /\ UNCHANGED <<scheduled, preempted_seqs>>
      /\ toAdd # << >> /\ toAdd' = Tail(toAdd) /\ AddRequest(h)
    BY DEF AddPrompt, AddRequest, stepVars
<1>2. /\ h \in SeqId /\ toAdd' \in Seq(SeqId)
      /\ IsInjective(toAdd') /\ ToSet(toAdd') = ToSet(toAdd) \ {h} /\ h = toAdd[1]
    BY <1>1, TailDistinct DEF Asking
<1>3. h \in ToSet(toAdd) /\ h \in ToSet(asked)
  <2>1. 1 \in DOMAIN toAdd
      BY <1>1 DEF Asking
  <2>2. h \in ToSet(toAdd)
      BY <1>2, <2>1 DEF ToSet
  <2>3. QED
      BY <2>2 DEF Asking
<1>4. seqs \in [SeqId -> EngineSeq] /\ EngineInv
    BY RunningNeeds DEF Served
<1>5. \A x \in SeqId : x # h => seqs'[x] = seqs[x]
    BY <1>1, <1>4 DEF AddRequest, Finish
<1>6. NeverFits(h, seqs[h]) => ~Accepted(h)
  <2>1. /\ seqs[h].num_computed_tokens = 0 /\ Len(seqs[h].token_ids) = seqs[h].prompt_len
        /\ seqs[h].prompt_len \in Nat
      BY <1>1, <1>2, <1>4 DEF EngineInv, Tokens, Served, StepBooks, EngineSeq
  <2>2. NumTokensToCompute(seqs[h]) = seqs[h].prompt_len
      BY <2>1 DEF NumTokensToCompute
  <2>3. BlockTable(kv, h) = << >>
      BY <1>1, <1>4 DEF EngineInv, Queues, BlockTable, Holds
  <2> PICK p \in Nat : p = seqs[h].prompt_len
      BY <2>1
  <2>4. 0 + Len(<< >>) * BlockSize + p = p /\ Len(<< >>) + Len(<< >>) = 0
      BY BlockSizeAssumption
  <2>5. CeilDiv(p, BlockSize) \in Nat
      BY BlockSizeAssumption, CeilCovers
  <2>6. NumBlocksNeeded(kv, h, seqs[h], p, << >>) = CeilDiv(p, BlockSize)
      BY <2>1, <2>3, <2>4, <2>5 DEF NumBlocksNeeded
  <2>7. NumBlocks \in Nat /\ MaxNumBatchedTokens \in Nat
      BY NumBlocksAssumption, BudgetAssumption
  <2>8. QED
      BY <2>2, <2>5, <2>6, <2>7 DEF NeverFits, Accepted
<1>7. \/ /\ ~Accepted(h)
         /\ FreeSeq(h) /\ finished_seqs' = Append(finished_seqs, h)
      \/ /\ waiting' = Append(waiting, h)
         /\ UNCHANGED <<running, finished_seqs>>
    BY <1>1, <1>6 DEF AddRequest, Finish
<1>8. QED
    BY <1>1, <1>2, <1>3, <1>5, <1>7

\* run() on the outputs of a step.
LEMMA StepAccumulated ==
    ASSUME Served, Asking, RunAccumulates
    PROVE  /\ calling /\ UNCHANGED <<asked, toAdd, calling, returned>>
           /\ phase = "outputs" /\ phase' = "idle"
           /\ final_outputs' \in Outputs1
           /\ ToSet(Ids(final_outputs')) =
                  ToSet(Ids(final_outputs)) \cup (ScheduledIds \cup ToSet(finished_seqs))
           /\ \A s \in SeqId :
                 Told(final_outputs', s) =
                     IF s \in ScheduledIds \cup ToSet(finished_seqs)
                     THEN Merged(Told(final_outputs, s), Told(StepOutputs, s))
                     ELSE Told(final_outputs, s)
           /\ \A s \in ScheduledIds \cup ToSet(finished_seqs) :
                 /\ Told(StepOutputs, s).tokens = NewTokens(s)
                 /\ Told(StepOutputs, s).reason = seqs[s].finish_reason
           /\ \A A : Keep(Ids(final_outputs'), A) =
                        Join(Keep(Ids(final_outputs), A),
                             Keep(Join(ScheduledSeq, Delete(finished_seqs, ScheduledIds)),
                                  A \ ToSet(Ids(final_outputs))))
<1>1. /\ calling /\ UNCHANGED <<asked, toAdd, calling, returned>>
      /\ phase = "outputs" /\ phase' = "idle"
      /\ final_outputs' = AccumulateAll(final_outputs, StepOutputs)
    BY DEF RunAccumulates, Outputs
<1>2. /\ StepOutputs \in Outputs1
      /\ Ids(StepOutputs) = ScheduledSeq \o Delete(finished_seqs, ScheduledIds)
      /\ ToSet(Ids(StepOutputs)) = ScheduledIds \cup ToSet(finished_seqs)
      /\ \A s \in ToSet(Ids(StepOutputs)) :
            /\ Told(StepOutputs, s).tokens = NewTokens(s)
            /\ Told(StepOutputs, s).reason = seqs[s].finish_reason
    BY <1>1, StepOutputsAre DEF Served
<1> PICK outputs \in Outputs1, outs \in Outputs1 :
          outputs = final_outputs /\ outs = StepOutputs
    BY <1>2 DEF Asking
<1>3. LET new == AccumulateAll(outputs, outs)
      IN  /\ new \in Outputs1
          /\ ToSet(Ids(new)) = ToSet(Ids(outputs)) \cup ToSet(Ids(outs))
          /\ \A s \in SeqId :
                Told(new, s) = IF s \in ToSet(Ids(outs))
                               THEN Merged(Told(outputs, s), Told(outs, s))
                               ELSE Told(outputs, s)
          /\ \A A : Keep(Ids(new), A) =
                       Keep(Ids(outputs), A) \o Keep(Ids(outs), A \ ToSet(Ids(outputs)))
    BY AccumulatedAll
<1>4. final_outputs' = AccumulateAll(outputs, outs)
    BY <1>1
<1>5. QED
    BY <1>1, <1>2, <1>3, <1>4 DEF Join

-----------------------------------------------------------------------------
(* What run() has accumulated.                                             *)

LEMMA RunStepIs ==
    ASSUME RunStep
    PROVE  /\ calling /\ toAdd = << >> /\ UNCHANGED clientVars
           /\ delivered' = delivered /\ sequences' = sequences /\ phase' # "idle"
<1>1. calling /\ toAdd = << >> /\ UNCHANGED clientVars
    BY DEF RunStep
<1>2. ASSUME phase # "outputs", RestOfStep
      PROVE  delivered' = delivered /\ sequences' = sequences /\ phase' # "idle"
    BY <1>2 DEF RestOfStep, Schedule, SkipPreempted, RequeuePreempted, StopAdmitting,
                NothingToExecute, ExecuteModel, UpdateDone, Outputs, ScheduleRunning,
                PreemptOther, PreemptSelf, Preempt, RejectWaiting, Admit, UpdateSeq,
                HandlesRunning, HandlesWaiting, stepVars
<1>3. ASSUME BeginStep
      PROVE  delivered' = delivered /\ sequences' = sequences /\ phase' # "idle"
    BY <1>3 DEF BeginStep
<1>4. QED
    BY <1>1, <1>2, <1>3 DEF RunStep

\* The requests of a call, and which of them can be answered.
LEMMA AnswerableStays ==
    ASSUME Served, Asking, [GenerateNext]_generateVars, asked' = asked
    PROVE  Answerable' = Answerable /\ Answerable \subseteq SeqId
<1>1. ToSet(asked) \subseteq SeqId
    BY DEF Asking, ToSet
<1>2. \A s \in SeqId : seqs'[s].prompt_len = seqs[s].prompt_len
    BY ClientStep, StepLeaves DEF Served
<1>3. \A s \in SeqId : Accepted(s)' <=> Accepted(s)
    BY <1>2 DEF Accepted
<1>4. QED
    BY <1>1, <1>3 DEF Answerable

LEMMA NextAsking ==
    ASSUME Served, Asking, [GenerateNext]_generateVars
    PROVE  Asking'
<1>1. /\ asked \in Seq(SeqId) /\ toAdd \in Seq(SeqId) /\ calling \in BOOLEAN
      /\ final_outputs \in Outputs1
      /\ IsInjective(toAdd) /\ ToSet(toAdd) \subseteq ToSet(asked)
      /\ \A s \in ToSet(Ids(final_outputs)) : seqs[s].status # "NEW"
      /\ calling => \A s \in ToSet(toAdd) : seqs[s].status = "NEW"
      /\ ~calling => phase = "idle"
    BY DEF Asking
<1>2. \A s \in SeqId : seqs'[s].status = "NEW" => seqs[s].status = "NEW"
    BY ClientStep, StepLeaves DEF Served
<1>3. ToSet(Ids(final_outputs)) \subseteq SeqId
  <2>1. Ids(final_outputs) \in Seq(SeqId)
      BY <1>1, IdsOf DEF Outputs1
  <2>2. QED
      BY <2>1 DEF ToSet
<1>4. final_outputs' = final_outputs =>
          \A s \in ToSet(Ids(final_outputs')) : seqs'[s].status # "NEW"
    BY <1>1, <1>2, <1>3
<1>5. ASSUME NEW n \in 1 .. MaxPrompts, NEW prompts \in [1 .. n -> SeqId],
             IsInjective(prompts), \A i \in 1 .. n : seqs[prompts[i]].status = "NEW",
             Call(prompts)
      PROVE  Asking'
  <2>1. n \in Nat
      BY MaxPromptsAssumption
  <2>2. /\ calling' /\ asked' = prompts /\ toAdd' = prompts /\ prompts \in Seq(SeqId)
        /\ ToSet(Ids(final_outputs')) = {} /\ UNCHANGED vars
        /\ final_outputs' \in Outputs1
        /\ \A s \in ToSet(prompts) : seqs[s].status = "NEW"
      BY <1>5, <2>1, CallStarts
  <2>3. seqs' = seqs /\ calling' = TRUE
      BY <1>5, <2>2 DEF vars, Call
  <2>4. QED
      BY <1>5, <2>2, <2>3 DEF Asking
<1>6. CASE AddPrompt
  <2> PICK h : h = Head(toAdd)
      OBVIOUS
  <2>1. /\ calling /\ UNCHANGED <<asked, calling, final_outputs>>
        /\ toAdd' \in Seq(SeqId) /\ h \in SeqId
        /\ IsInjective(toAdd') /\ ToSet(toAdd') = ToSet(toAdd) \ {h}
        /\ \A x \in SeqId : x # h => seqs'[x] = seqs[x]
      BY <1>6, PromptAdded
  <2>2. ToSet(toAdd) \subseteq SeqId
      BY <1>1 DEF ToSet
  <2>3. QED
      BY <1>1, <1>4, <2>1, <2>2 DEF Asking
<1>7. CASE RunStep
  <2>1. calling /\ toAdd = << >> /\ UNCHANGED clientVars
      BY <1>7, RunStepIs
  <2>2. ToSet(toAdd) = {} /\ UNCHANGED <<asked, toAdd, calling, final_outputs>>
      BY <2>1 DEF ToSet, clientVars
  <2>3. QED
      BY <1>1, <1>4, <2>1, <2>2 DEF Asking
<1>8. CASE RunAccumulates
  <2>1. /\ calling /\ UNCHANGED <<asked, toAdd, calling>>
        /\ final_outputs' \in Outputs1
        /\ ToSet(Ids(final_outputs')) =
               ToSet(Ids(final_outputs)) \cup (ScheduledIds \cup ToSet(finished_seqs))
      BY <1>8, StepAccumulated
  <2>2. seqs' = seqs
      BY <1>8 DEF RunAccumulates, Outputs
  <2>3. \A s \in ScheduledIds \cup ToSet(finished_seqs) : seqs[s].status # "NEW"
      BY DEF Served, StepBooks, EngineInv, Queues
  <2>4. QED
      BY <1>1, <2>1, <2>2, <2>3 DEF Asking
<1>9. CASE CallRaises
  <2>1. /\ calling' = FALSE /\ final_outputs' = << >> /\ UNCHANGED <<asked, toAdd>>
        /\ phase' = "idle"
      BY <1>9 DEF CallRaises, ExecuteRaises
  <2>2. Ids(<< >>) = << >> /\ ToSet(<< >>) = {} /\ << >> \in Seq(RequestOutput)
      BY DEF Ids, ToSet
  <2>3. << >> \in Outputs1
      BY <2>2 DEF Outputs1, IsInjective
  <2>4. QED
      BY <1>1, <2>1, <2>2, <2>3 DEF Asking
<1>10. CASE Return
  <2>1. /\ calling' = FALSE /\ UNCHANGED <<asked, toAdd, final_outputs>> /\ phase' = "idle"
      BY <1>10 DEF Return, vars, stepVars
  <2>2. QED
      BY <1>1, <1>4, <2>1 DEF Asking
<1>11. CASE UNCHANGED generateVars
  <2>1. UNCHANGED <<asked, toAdd, calling, final_outputs, seqs, phase>>
      BY <1>11 DEF generateVars, clientVars, vars, stepVars
  <2>2. QED
      BY <1>1, <2>1 DEF Asking
<1>12. QED
    BY <1>5, <1>6, <1>7, <1>8, <1>9, <1>10, <1>11 DEF GenerateNext

\* Nothing has been delivered of a request the engine has not seen.
LEMMA NewIsUntold ==
    ASSUME Served, phase = "idle", NEW s \in SeqId, seqs[s].status = "NEW"
    PROVE  delivered[s].tokens = << >> /\ delivered[s].reasons = << >>
<1>1. /\ delivered[s].tokens \in Seq(Token)
      /\ delivered[s].tokens \o Pending(s) = Text(s) /\ Pending(s) = << >>
    BY DEF Served, Streams, Pending, Appended
<1>2. /\ seqs[s].token_ids \in Seq(Token)
      /\ Len(seqs[s].token_ids) = seqs[s].prompt_len
  <2>1. seqs[s] \in EngineSeq
      BY RunningNeeds DEF Served
  <2>2. QED
      BY <2>1 DEF Served, StepBooks, EngineSeq
<1>3. Text(s) = << >>
  <2> PICK t \in Seq(Token) : t = seqs[s].token_ids
      BY <1>2
  <2>1. SubSeq(t, Len(t) + 1, Len(t)) = << >>
      BY SubSeqProperties
  <2>2. QED
      BY <1>2, <2>1 DEF Text
<1>4. delivered[s].tokens = << >>
    BY <1>1, <1>3, ConcatEmptySeq
<1>5. delivered[s].reasons = << >>
    BY DEF Served, Reports
<1>6. QED
    BY <1>4, <1>5

LEMMA NextAllTold ==
    ASSUME Served, Asking, AllTold, [GenerateNext]_generateVars
    PROVE  AllTold'
<1> DEFINE Right(outputs, given, s) ==
               LET told == Told(outputs, s)
               IN  /\ told.tokens = given[s].tokens
                   /\ given[s].reasons =
                          IF told.reason = "NONE" THEN << >> ELSE <<told.reason>>
<1>1. ToSet(asked) \subseteq SeqId
    BY DEF Asking, ToSet
<1>2. calling => \A s \in ToSet(asked) : Right(final_outputs, delivered, s)
    BY DEF AllTold
<1>3. AllTold' = (calling' => \A s \in ToSet(asked') : Right(final_outputs', delivered', s))
    BY DEF AllTold, Told, Ids
<1>4. ASSUME calling' = calling, asked' = asked, final_outputs' = final_outputs,
             delivered' = delivered
      PROVE  AllTold'
    BY <1>2, <1>3, <1>4
<1>5. CASE CallRaises \/ Return
    BY <1>5 DEF CallRaises, Return, AllTold
<1>6. CASE AddPrompt \/ RunStep \/ UNCHANGED generateVars
  <2>1. UNCHANGED <<calling, asked, final_outputs, delivered>>
      BY <1>6, PromptAdded, RunStepIs DEF generateVars, clientVars, vars
  <2>2. QED
      BY <1>4, <2>1
<1>7. ASSUME NEW n \in 1 .. MaxPrompts, NEW prompts \in [1 .. n -> SeqId],
             IsInjective(prompts), \A i \in 1 .. n : seqs[prompts[i]].status = "NEW",
             Call(prompts)
      PROVE  AllTold'
  <2>1. n \in Nat
      BY MaxPromptsAssumption
  <2>2. /\ asked' = prompts /\ ToSet(Ids(final_outputs')) = {} /\ UNCHANGED vars
        /\ phase = "idle" /\ \A s \in ToSet(prompts) : s \in SeqId /\ seqs[s].status = "NEW"
      BY <1>7, <2>1, CallStarts
  <2>3. ASSUME NEW s \in ToSet(prompts) PROVE Right(final_outputs', delivered', s)
    <3>1. /\ delivered[s].tokens = << >> /\ delivered[s].reasons = << >>
          /\ delivered' = delivered
        BY <2>2, NewIsUntold DEF vars
    <3>2. Told(final_outputs', s) = [seq_id |-> s, tokens |-> << >>, reason |-> "NONE"]
        BY <2>2 DEF Told
    <3>3. QED
        BY <3>1, <3>2
  <2> HIDE DEF Right
  <2>4. QED
      BY <1>3, <2>2, <2>3
<1>8. CASE RunAccumulates
  <2>1. /\ calling /\ UNCHANGED <<asked, calling>>
        /\ \A s \in SeqId :
              Told(final_outputs', s) =
                  IF s \in ScheduledIds \cup ToSet(finished_seqs)
                  THEN Merged(Told(final_outputs, s), Told(StepOutputs, s))
                  ELSE Told(final_outputs, s)
        /\ \A s \in ScheduledIds \cup ToSet(finished_seqs) :
              /\ Told(StepOutputs, s).tokens = NewTokens(s)
              /\ Told(StepOutputs, s).reason = seqs[s].finish_reason
      BY <1>8, StepAccumulated
  <2>2. ASSUME NEW s \in ToSet(asked) PROVE Right(final_outputs', delivered', s)
    <3>1. s \in SeqId /\ Right(final_outputs, delivered, s)
        BY <1>1, <1>2, <2>1
    <3>2. /\ delivered'[s].tokens = delivered[s].tokens \o NewTokens(s)
          /\ delivered'[s].reasons = delivered[s].reasons \o NewReasons(s)
        BY <1>8, <3>1 DEF RunAccumulates, Outputs
    <3> PICK old, new, r, q : /\ old = Told(final_outputs, s) /\ new = Told(StepOutputs, s)
                              /\ r = delivered[s].reasons /\ q = seqs[s].finish_reason
        OBVIOUS
    <3>3. r \in Seq({q, old.reason}) /\ r \in {<< >>, <<old.reason>>}
      <4>1. r \in {<< >>, <<old.reason>>}
          BY <3>1
      <4>2. << >> \in Seq({q, old.reason}) /\ <<old.reason>> \in Seq({q, old.reason})
          OBVIOUS
      <4>3. QED
          BY <4>1, <4>2
    <3>4. r \o << >> = r
        BY <3>3, ConcatEmptySeq
    <3>5. CASE s \in ScheduledIds \cup ToSet(finished_seqs)
      <4>1. /\ Told(final_outputs', s) = Merged(old, new)
            /\ new.tokens = NewTokens(s) /\ new.reason = q
          BY <2>1, <3>1, <3>5
      <4>2. Told(final_outputs', s).tokens = delivered'[s].tokens
        <5>1. Told(final_outputs', s).tokens = old.tokens \o new.tokens
            BY <4>1 DEF Merged
        <5>2. old.tokens = delivered[s].tokens
            BY <3>1
        <5>3. QED
            BY <3>2, <4>1, <5>1, <5>2
      <4>3. Told(final_outputs', s).reason = IF q = "NONE" THEN old.reason ELSE q
          BY <4>1 DEF Merged
      <4>4. CASE q = "NONE"
        <5>1. NewReasons(s) = << >>
            BY <4>4 DEF NewReasons
        <5>2. delivered'[s].reasons = r
            BY <3>2, <3>4, <5>1
        <5>3. QED
            BY <3>1, <4>2, <4>3, <4>4, <5>2
      <4>5. CASE q # "NONE"
        <5>1. NewReasons(s) = <<q>>
            BY <3>5, <4>5 DEF NewReasons
        <5>2. s \in sequences
            BY <3>5 DEF Served, Reports
        <5>3. r = << >>
            BY <3>1, <5>2 DEF Served, Reports
        <5>4. << >> \o <<q>> = <<q>>
            BY ConcatOne
        <5>5. delivered'[s].reasons = <<q>>
            BY <3>2, <5>1, <5>3, <5>4
        <5>6. QED
            BY <4>2, <4>3, <4>5, <5>5
      <4>6. QED
          BY <4>4, <4>5
    <3>6. CASE s \notin ScheduledIds \cup ToSet(finished_seqs)
      <4>1. Told(final_outputs', s) = old
          BY <2>1, <3>1, <3>6
      <4>2. NewTokens(s) = << >> /\ NewReasons(s) = << >>
          BY <3>6 DEF NewTokens, NewReasons
      <4>3. delivered[s].tokens \in Seq(Token)
          BY <3>1 DEF Served, Streams
      <4>4. delivered[s].tokens \o << >> = delivered[s].tokens
          BY <4>3, ConcatEmptySeq
      <4>5. QED
          BY <3>1, <3>2, <3>4, <4>1, <4>2, <4>4
    <3>7. QED
        BY <3>5, <3>6
  <2> HIDE DEF Right
  <2>3. QED
      BY <1>3, <2>1, <2>2
<1>9. QED
    BY <1>5, <1>6, <1>7, <1>8 DEF GenerateNext

LEMMA NextNoneLost ==
    ASSUME Served, Asking, NoneLost, [GenerateNext]_generateVars
    PROVE  NoneLost'
<1> DEFINE Over(given, sq, s) == /\ sq[s].status = "DONE"
                                 /\ given[s].reasons = <<sq[s].finish_reason>>
<1>1. /\ ToSet(asked) \subseteq SeqId
      /\ calling =>
            /\ \A s \in ToSet(asked) \ ToSet(toAdd) :
                  s \in sequences \/ Over(delivered, seqs, s)
            /\ phase = "idle" => ToSet(finished_seqs) \cap Answerable = {}
    BY DEF Asking, ToSet, NoneLost
<1>2. NoneLost' =
          (calling' =>
              /\ \A s \in ToSet(asked') \ ToSet(toAdd') :
                    s \in sequences' \/ Over(delivered', seqs', s)
              /\ phase' = "idle" => ToSet(finished_seqs') \cap Answerable' = {})
    BY DEF NoneLost
<1>3. ASSUME NEW s \in SeqId, Over(delivered, seqs, s), delivered' = delivered
      PROVE  Over(delivered', seqs', s)
  <2>1. EndKept(s)
      BY <1>3, ClientStep, StepLeaves DEF Served, Ends
  <2>2. QED
      BY <1>3, <2>1 DEF EndKept
<1>4. CASE CallRaises \/ Return
    BY <1>4 DEF CallRaises, Return, NoneLost
<1>5. CASE UNCHANGED generateVars
  <2>1. UNCHANGED <<asked, toAdd, calling, sequences, delivered, seqs, phase, finished_seqs>>
      BY <1>5 DEF generateVars, clientVars, vars, stepVars, queueVars
  <2>2. Answerable' = Answerable
      BY <2>1, AnswerableStays
  <2>3. QED
      BY <1>1, <1>2, <2>1, <2>2
<1>6. CASE RunStep
  <2>1. /\ calling /\ UNCHANGED <<asked, toAdd, calling, sequences, delivered>>
        /\ phase' # "idle"
      BY <1>6, RunStepIs DEF clientVars
  <2> HIDE DEF Over
  <2>2. QED
      BY <1>1, <1>2, <1>3, <2>1
<1>7. CASE AddPrompt
  <2> PICK h : h = Head(toAdd)
      OBVIOUS
  <2>1. /\ calling /\ UNCHANGED <<asked, calling, delivered>> /\ h \in SeqId
        /\ phase = "idle" /\ sequences' = sequences \cup {h}
        /\ ToSet(toAdd') = ToSet(toAdd) \ {h}
        /\ \/ ~Accepted(h) /\ finished_seqs' = Append(finished_seqs, h)
           \/ finished_seqs' = finished_seqs
      BY <1>7, PromptAdded
  <2>2. Answerable' = Answerable
      BY <2>1, AnswerableStays
  <2>3. ToSet(finished_seqs') \cap Answerable = {}
    <3>1. finished_seqs \in Seq(SeqId)
        BY DEF Served, EngineInv, Types, TypeOK
    <3>2. ToSet(Append(finished_seqs, h)) = ToSet(finished_seqs) \cup {h}
        BY <2>1, <3>1, AppendDistinct
    <3>3. ~Accepted(h) => h \notin Answerable
        BY DEF Answerable
    <3>4. QED
        BY <1>1, <2>1, <3>2, <3>3
  <2> HIDE DEF Over
  <2>4. QED
      BY <1>1, <1>2, <1>3, <2>1, <2>2, <2>3
<1>8. ASSUME NEW n \in 1 .. MaxPrompts, NEW prompts \in [1 .. n -> SeqId],
             IsInjective(prompts), \A i \in 1 .. n : seqs[prompts[i]].status = "NEW",
             Call(prompts)
      PROVE  NoneLost'
  <2>1. n \in Nat
      BY MaxPromptsAssumption
  <2>2. /\ asked' = prompts /\ toAdd' = prompts /\ UNCHANGED vars
        /\ \A s \in ToSet(prompts) : s \in SeqId /\ seqs[s].status = "NEW"
      BY <1>8, <2>1, CallStarts
  <2>3. \A s \in ToSet(finished_seqs') : seqs[s].status = "DONE"
      BY <2>2 DEF vars, queueVars, Served, EngineInv, Queues
  <2>4. Answerable' \subseteq ToSet(prompts)
      BY <2>2 DEF Answerable
  <2>5. ToSet(finished_seqs') \cap Answerable' = {}
      BY <2>2, <2>3, <2>4
  <2> HIDE DEF Over
  <2>6. QED
      BY <1>2, <2>2, <2>5
<1>9. CASE RunAccumulates
  <2>1. calling /\ UNCHANGED <<asked, toAdd, calling>>
      BY <1>9, StepAccumulated
  <2>2. /\ seqs' = seqs /\ sequences' = sequences \ ToSet(finished_seqs)
        /\ finished_seqs' = << >>
        /\ \A s \in SeqId : delivered'[s].reasons = delivered[s].reasons \o NewReasons(s)
      BY <1>9 DEF RunAccumulates, Outputs
  <2>3. ToSet(finished_seqs') = {}
      BY <2>2 DEF ToSet
  <2>4. /\ \A s \in ToSet(finished_seqs) : seqs[s].status = "DONE"
        /\ ToSet(finished_seqs) \subseteq sequences /\ ScheduledIds \subseteq sequences
      BY DEF Served, EngineInv, Queues, Reports
  <2>5. ASSUME NEW s \in ToSet(asked) \ ToSet(toAdd)
        PROVE  s \in sequences' \/ Over(delivered', seqs', s)
    <3>1. s \in SeqId
        BY <1>1
    <3> PICK q : q = seqs[s].finish_reason
        OBVIOUS
    <3>2. CASE s \in ToSet(finished_seqs)
      <4>1. seqs[s].status = "DONE" /\ q # "NONE" /\ delivered[s].reasons = << >>
          BY <2>4, <3>1, <3>2 DEF Served, Reports
      <4>2. NewReasons(s) = <<q>>
          BY <3>2, <4>1 DEF NewReasons
      <4>3. << >> \o <<q>> = <<q>>
          BY ConcatOne
      <4>4. delivered'[s].reasons = <<q>>
          BY <2>2, <3>1, <4>1, <4>2, <4>3
      <4>5. QED
          BY <2>2, <4>1, <4>4
    <3>3. CASE s \in sequences /\ s \notin ToSet(finished_seqs)
        BY <2>2, <3>3
    <3>4. CASE s \notin sequences
      <4>1. Over(delivered, seqs, s)
          BY <1>1, <2>1, <3>4
      <4>2. NewReasons(s) = << >>
          BY <2>4, <3>4 DEF NewReasons
      <4>3. <<q>> \o << >> = <<q>>
          BY ConcatOne
      <4>4. delivered'[s].reasons = <<q>>
          BY <2>2, <3>1, <4>1, <4>2, <4>3
      <4>5. QED
          BY <2>2, <4>1, <4>4
    <3>5. QED
        BY <3>2, <3>3, <3>4
  <2> HIDE DEF Over
  <2>6. QED
      BY <1>2, <2>1, <2>3, <2>5
<1>10. QED
    BY <1>4, <1>5, <1>6, <1>7, <1>8, <1>9 DEF GenerateNext

-----------------------------------------------------------------------------
(* The order of the answers.                                               *)

LEMMA ScheduledGrows ==
    ASSUME EngineInv, NEW s \in SeqId, ScheduleRunning(s) \/ Admit(s)
    PROVE  /\ ScheduledSeq' = Append(ScheduledSeq, s)
           /\ ScheduledIds' = ScheduledIds \cup {s}
<1>1. scheduled \in Seq(Entry)
    BY DEF EngineInv, Types
<1> PICK n, q : scheduled' = Append(scheduled, Scheduled(s, kv', q, n))
    BY DEF ScheduleRunning, Admit
<1> PICK e : e = Scheduled(s, kv', q, n)
    OBVIOUS
<1>2. scheduled' = Append(scheduled, e) /\ e.seq_id = s
    BY DEF Scheduled
<1>3. /\ DOMAIN scheduled' = 1 .. Len(scheduled) + 1 /\ Len(scheduled) \in Nat
      /\ DOMAIN scheduled = 1 .. Len(scheduled)
      /\ \A i \in 1 .. Len(scheduled) : scheduled'[i] = scheduled[i]
      /\ scheduled'[Len(scheduled) + 1] = e
    BY <1>1, <1>2
<1>4. /\ ScheduledSeq \in Seq(SeqId) /\ Len(ScheduledSeq) = Len(scheduled)
      /\ \A i \in 1 .. Len(scheduled) : ScheduledSeq[i] = scheduled[i].seq_id
    BY ScheduledSeqIs
<1> PICK u \in Seq(SeqId) : u = ScheduledSeq
    BY <1>4
<1>5. /\ Append(u, s) \in Seq(SeqId) /\ Len(Append(u, s)) = Len(scheduled) + 1
      /\ \A i \in 1 .. Len(scheduled) : Append(u, s)[i] = scheduled[i].seq_id
      /\ Append(u, s)[Len(scheduled) + 1] = s
    BY <1>4
<1>6. ASSUME NEW i \in 1 .. Len(scheduled) + 1
      PROVE  Append(u, s)[i] = scheduled'[i].seq_id
  <2>1. CASE i = Len(scheduled) + 1
      BY <1>2, <1>3, <1>5, <2>1
  <2>2. CASE i \in 1 .. Len(scheduled)
      BY <1>3, <1>5, <2>2
  <2>3. i = Len(scheduled) + 1 \/ i \in 1 .. Len(scheduled)
      BY <1>3
  <2>4. QED
      BY <2>1, <2>2, <2>3
<1>7. ScheduledSeq' = [i \in 1 .. Len(scheduled) + 1 |-> scheduled'[i].seq_id]
    BY <1>3 DEF ScheduledSeq
<1>8. ScheduledSeq' = Append(u, s)
  <2>1. ScheduledSeq' \in Seq(SeqId) /\ Len(ScheduledSeq') = Len(scheduled) + 1
    <3>1. \A i \in 1 .. Len(scheduled) + 1 : scheduled'[i].seq_id \in SeqId
        BY <1>5, <1>6
    <3>2. QED
        BY <1>3, <1>7, <3>1
  <2>2. \A i \in 1 .. Len(scheduled) + 1 : ScheduledSeq'[i] = Append(u, s)[i]
      BY <1>6, <1>7
  <2> PICK v \in Seq(SeqId), v2 \in Seq(SeqId) : v = Append(u, s) /\ v2 = ScheduledSeq'
      BY <1>5, <2>1
  <2>3. v = v2
      BY <1>5, <2>1, <2>2, SeqEqual
  <2>4. QED
      BY <2>3
<1>9. ScheduledIds' = {scheduled'[i].seq_id : i \in 1 .. Len(scheduled) + 1}
    BY <1>3 DEF ScheduledIds
<1>10. ScheduledIds = {scheduled[i].seq_id : i \in 1 .. Len(scheduled)}
    BY <1>3 DEF ScheduledIds
<1>11. ScheduledIds' = ScheduledIds \cup {s}
  <2>1. \A i \in 1 .. Len(scheduled) + 1 :
            i = Len(scheduled) + 1 \/ i \in 1 .. Len(scheduled)
      BY <1>3
  <2>2. Len(scheduled) + 1 \in 1 .. Len(scheduled) + 1
        /\ \A i \in 1 .. Len(scheduled) : i \in 1 .. Len(scheduled) + 1
      BY <1>3
  <2>3. QED
      BY <1>2, <1>3, <1>9, <1>10, <2>1, <2>2
<1>12. QED
    BY <1>8, <1>11

\* Who has no output yet and was not scheduled in this step has generated
\* nothing: the admission loop does not refuse what add_seq accepted.
LEMMA UnansweredFits ==
    ASSUME Served, Asking, AllTold, calling, phase = "waiting",
           NEW s \in Unanswered, s \in ToSet(waiting)
    PROVE  ~NeverFits(s, seqs[s])
<1>1. /\ s \in SeqId /\ s \in ToSet(asked) /\ s \notin ToSet(Ids(final_outputs))
      /\ Accepted(s)
    BY DEF Unanswered, Answerable, Asking, ToSet
<1>2. delivered[s].tokens = << >>
    BY <1>1 DEF AllTold, Told
<1>3. /\ delivered[s].tokens \o Pending(s) = Text(s) /\ Pending(s) = << >>
      /\ seqs[s].prompt_len <= Len(seqs[s].token_ids)
    BY <1>1 DEF Served, Streams, Pending, Appended
<1>4. seqs[s] \in EngineSeq /\ EngineInv
    BY <1>1, RunningNeeds DEF Served
<1> PICK t \in Seq(Token), p \in Nat : t = seqs[s].token_ids /\ p = seqs[s].prompt_len
    BY <1>4 DEF EngineSeq
<1>5. Len(t) = p
  <2>1. SubSeq(t, p + 1, Len(t)) = << >>
    <3>1. << >> \o << >> = << >>
        OBVIOUS
    <3>2. QED
        BY <1>2, <1>3, <3>1 DEF Text
  <2>2. p <= Len(t)
      BY <1>3
  <2>3. Len(SubSeq(t, p + 1, Len(t))) = Len(t) - p
      BY <2>2, SubSeqProperties
  <2>4. Len(<< >>) = 0 /\ Len(t) \in Nat
      OBVIOUS
  <2>5. Len(SubSeq(t, p + 1, Len(t))) = 0
      BY <2>1, <2>4
  <2>6. QED
      BY <2>3, <2>4, <2>5
<1>6. seqs[s].num_computed_tokens = 0 /\ BlockTable(kv, s) = << >>
  <2>1. seqs[s].status = "WAITING"
      BY <1>4 DEF EngineInv, Queues
  <2>2. QED
      BY <1>1, <1>4, <2>1 DEF EngineInv, Queues, Tokens, BlockTable, Holds
<1>7. NumTokensToCompute(seqs[s]) = p
    BY <1>5, <1>6 DEF NumTokensToCompute
<1>8. 0 + Len(<< >>) * BlockSize + p = p /\ Len(<< >>) + Len(<< >>) = 0
    BY BlockSizeAssumption
<1>9. CeilDiv(p, BlockSize) \in Nat
    BY BlockSizeAssumption, CeilCovers
<1>10. NumBlocksNeeded(kv, s, seqs[s], p, << >>) = CeilDiv(p, BlockSize)
    BY <1>6, <1>8, <1>9 DEF NumBlocksNeeded
<1>11. NumBlocks \in Nat /\ MaxNumBatchedTokens \in Nat
    BY NumBlocksAssumption, BudgetAssumption
<1>12. QED
    BY <1>1, <1>7, <1>9, <1>10, <1>11 DEF NeverFits, Accepted

\* A step of the engine that accumulates nothing.
LEMMA StepInLine ==
    ASSUME Served, Asking, AllTold, InLine, RunStep
    PROVE  InLine'
<1> PICK A, N : A = Answerable /\ N = Unanswered
    OBVIOUS
<1> PICK u, w, t, p :
          u = ScheduledSeq /\ w = waiting /\ t = toAdd /\ p = preempted_seqs
    OBVIOUS
<1>1. /\ calling /\ toAdd = << >> /\ UNCHANGED <<asked, toAdd, calling, final_outputs>>
      /\ [Next]_vars
    BY RunStepIs DEF RunStep, Next, clientVars
<1>2. EngineInv /\ EngineInv'
    BY <1>1, NextInv DEF Served
<1>3. Answerable' = A /\ Unanswered' = N
  <2>1. [GenerateNext]_generateVars
      BY DEF GenerateNext
  <2>2. Answerable' = Answerable
      BY <1>1, <2>1, AnswerableStays
  <2>3. QED
      BY <1>1, <2>2 DEF Unanswered
<1>4. /\ u \in Seq(SeqId) /\ w \in Seq(SeqId) /\ p \in Seq(SeqId)
      /\ running \in Seq(SeqId) /\ finished_seqs \in Seq(SeqId)
      /\ t \in Seq(SeqId)
    BY <1>2, ScheduledSeqIs DEF EngineInv, Types, TypeOK, Asking
<1>0. u \in Seq(SeqId) /\ w \in Seq(SeqId) /\ t \in Seq(SeqId)
    BY <1>4
<1>21. ASSUME NEW x \in Seq(SeqId), Keep(x, N) = Keep(u, N)
       PROVE  Keep(Join(x, Join(w, t)), N) = Keep(Join(u, Join(w, t)), N)
    BY <1>0, <1>21, KeepFirst
<1>22. ASSUME NEW x \in Seq(SeqId), NEW y \in Seq(SeqId)
       PROVE  Join(Join(x, y), t) = Join(x, Join(y, t))
    BY <1>0, JoinAssociative
<1>23. w # << >> => /\ Join(Append(u, Head(w)), Tail(w)) = Join(u, w)
                    /\ Tail(w) \in Seq(SeqId) /\ Append(u, Head(w)) \in Seq(SeqId)
    BY <1>0, MoveOver
<1>5. /\ Join(Keep(Ids(final_outputs), A), Keep(Join(u, Join(w, t)), N)) = Keep(asked, A)
      /\ (ToSet(running) \cup ToSet(finished_seqs)) \cap N \subseteq ScheduledIds
      /\ phase = "running" => (ScheduledIds \cup ToSet(preempted_seqs)) \cap N = {}
    BY <1>1 DEF InLine, Line
<1>6. ASSUME NEW u2 \in Seq(SeqId), NEW w2 \in Seq(SeqId),
             u2 = ScheduledSeq', w2 = waiting',
             Keep(Join(u2, Join(w2, t)), N) = Keep(Join(u, Join(w, t)), N),
             (ToSet(running') \cup ToSet(finished_seqs')) \cap N \subseteq ScheduledIds',
             phase' = "running" => (ScheduledIds' \cup ToSet(preempted_seqs')) \cap N = {}
      PROVE  InLine'
  <2>1. Line' = Join(u2, Join(w2, t))
      BY <1>1, <1>6 DEF Line
  <2>2. Ids(final_outputs)' = Ids(final_outputs)
      BY <1>1 DEF Ids
  <2>3. Join(Keep(Ids(final_outputs)', Answerable'), Keep(Line', Unanswered'))
            = Keep(asked', Answerable')
      BY <1>1, <1>3, <1>5, <1>6, <2>1, <2>2
  <2>4. QED
      BY <1>3, <1>6, <2>3 DEF InLine
<1>7. ASSUME UNCHANGED <<waiting, scheduled>>,
             (ToSet(running') \cup ToSet(finished_seqs')) \cap N \subseteq ScheduledIds,
             phase' = "running" => (ScheduledIds \cup ToSet(preempted_seqs')) \cap N = {}
      PROVE  InLine'
  <2>1. ScheduledSeq' = u /\ waiting' = w /\ ScheduledIds' = ScheduledIds
      BY <1>7 DEF ScheduledSeq, ScheduledIds
  <2>2. QED
      BY <1>4, <1>6, <1>7, <2>1
<1>8. CASE BeginStep
  <2>1. /\ UNCHANGED <<waiting, scheduled, running, finished_seqs, preempted_seqs>>
        /\ phase = "idle"
      BY <1>8 DEF BeginStep, queueVars
  <2>2. scheduled = << >> /\ preempted_seqs = << >>
      BY <1>2, <2>1 DEF EngineInv, Loops, Queues
  <2>3. ScheduledIds = {} /\ ToSet(preempted_seqs') = {}
      BY <2>1, <2>2 DEF ScheduledIds, ToSet
  <2>4. QED
      BY <1>5, <1>7, <2>1, <2>3
<1>9. CASE SkipPreempted \/ StopAdmitting \/ NothingToExecute \/ ExecuteModel \/ UpdateDone
  <2>1. /\ UNCHANGED <<waiting, scheduled, running, finished_seqs, preempted_seqs>>
        /\ phase' = "running" => phase = "running"
      BY <1>9 DEF SkipPreempted, StopAdmitting, NothingToExecute, ExecuteModel, UpdateDone,
                  queueVars
  <2>2. QED
      BY <1>5, <1>7, <2>1
<1>10. CASE RequeuePreempted
  <2>1. /\ UNCHANGED <<scheduled, running, finished_seqs, preempted_seqs>>
        /\ phase = "running" /\ phase' = "waiting" /\ waiting' = Join(p, w)
      BY <1>10 DEF RequeuePreempted, Join
  <2> PICK w2 \in Seq(SeqId) : w2 = Join(p, w)
      BY <1>4, KeepJoin
  <2>2. Keep(p, N) = << >>
      BY <1>4, <1>5, <2>1, KeepNone
  <2>3. Keep(w2, N) = Keep(w, N)
    <3>1. Keep(w, N) \in Seq(SeqId)
        BY <1>4, KeepProperties
    <3>2. Keep(Join(p, w), N) = Join(Keep(p, N), Keep(w, N))
        BY <1>4, KeepJoin
    <3>3. Join(<< >>, Keep(w, N)) = Keep(w, N)
        BY <3>1, ConcatEmptySeq DEF Join
    <3>4. QED
        BY <2>2, <3>2, <3>3
  <2>4. Keep(Join(u, Join(w2, t)), N) = Keep(Join(u, Join(w, t)), N)
      BY <1>4, <2>3, KeepMiddle
  <2>5. ScheduledSeq' = u /\ ScheduledIds' = ScheduledIds
      BY <2>1 DEF ScheduledSeq, ScheduledIds
  <2>6. QED
      BY <1>4, <1>5, <1>6, <2>1, <2>4, <2>5
<1>11. ASSUME NEW s \in SeqId, ScheduleRunning(s)
       PROVE  InLine'
  <2>1. /\ UNCHANGED <<waiting, running, finished_seqs, preempted_seqs>>
        /\ phase = "running" /\ phase' = "running"
      BY <1>11 DEF ScheduleRunning, HandlesRunning, queueVars
  <2>2. s \in ToSet(running)
      BY <1>2, <1>11, RunningHead DEF ScheduleRunning, HandlesRunning, Visits
  <2>3. s \notin N
      BY <1>5, <2>1, <2>2
  <2>4. ScheduledSeq' = Append(u, s) /\ ScheduledIds' = ScheduledIds \cup {s}
      BY <1>2, <1>11, ScheduledGrows
  <2> PICK u2 \in Seq(SeqId) : u2 = Append(u, s)
      BY <1>4, AppendProperties
  <2>5. Keep(u2, N) = Keep(u, N)
      BY <1>4, <2>3, KeepAppendId
  <2>6. Keep(Join(u2, Join(w, t)), N) = Keep(Join(u, Join(w, t)), N)
      BY <2>5, <1>21
  <2>7. QED
      BY <1>4, <1>5, <1>6, <2>1, <2>3, <2>4, <2>6
<1>12. ASSUME NEW s \in SeqId, PreemptOther(s) \/ PreemptSelf(s)
       PROVE  InLine'
  <2> PICK v : v = Victim(s)
      OBVIOUS
  <2>1. HandlesRunning(s) /\ Preempt(v)
      BY <1>12 DEF PreemptOther, PreemptSelf
  <2>2. /\ UNCHANGED <<waiting, scheduled, finished_seqs>>
        /\ phase = "running" /\ phase' = "running"
        /\ preempted_seqs' = Append(preempted_seqs, v) /\ running' = Delete(running, {v})
      BY <2>1 DEF Preempt, HandlesRunning
  <2>3. v \in SeqId /\ v \in ToSet(running)
      BY <1>2, <2>1, VictimIsLast
  <2>4. v \notin N
      BY <1>5, <2>2, <2>3
  <2>5. ToSet(preempted_seqs') = ToSet(preempted_seqs) \cup {v}
      BY <1>4, <2>2, <2>3, AppendDistinct
  <2>6. ToSet(running') \subseteq ToSet(running)
      BY <1>4, <2>2, DeleteProperties
  <2>7. QED
      BY <1>5, <1>7, <2>2, <2>4, <2>5, <2>6
<1>13. ASSUME NEW s \in SeqId, RejectWaiting(s)
       PROVE  InLine'
  <2>1. /\ phase = "waiting" /\ phase' = "waiting" /\ waiting # << >> /\ s = Head(waiting)
        /\ NeverFits(s, seqs[s]) /\ FreeSeq(s) /\ finished_seqs' = Append(finished_seqs, s)
        /\ scheduled' = scheduled
      BY <1>13 DEF RejectWaiting, HandlesWaiting, Finish, stepVars
  <2>2. s \in ToSet(waiting)
    <3>1. 1 \in DOMAIN waiting /\ s = waiting[1]
        BY <1>4, <2>1
    <3>2. QED
        BY <3>1 DEF ToSet
  <2>3. s \notin N
      BY <1>1, <2>1, <2>2, UnansweredFits
  <2>4. /\ waiting' \in Seq(SeqId) /\ ToSet(running') = ToSet(running) \ {s}
        /\ waiting' = waiting \/ waiting' = Delete(waiting, {s})
      BY <1>2, <2>1, FreeSeqQueues DEF EngineInv, FreeSeq
  <2> PICK w2 \in Seq(SeqId) : w2 = waiting'
      BY <2>4
  <2>5. Keep(w2, N) = Keep(w, N)
    <3>1. {s} \cap N = {}
        BY <2>3
    <3>2. Keep(Delete(w, {s}), N) = Keep(w, N)
        BY <1>4, <3>1, KeepOfDelete
    <3>3. QED
        BY <2>4, <3>2
  <2>6. Keep(Join(u, Join(w2, t)), N) = Keep(Join(u, Join(w, t)), N)
      BY <1>4, <2>5, KeepMiddle
  <2>7. ToSet(finished_seqs') = ToSet(finished_seqs) \cup {s}
      BY <1>4, <2>1, AppendDistinct
  <2>8. ScheduledSeq' = u /\ ScheduledIds' = ScheduledIds
      BY <2>1 DEF ScheduledSeq, ScheduledIds
  <2>9. QED
      BY <1>4, <1>5, <1>6, <2>1, <2>3, <2>4, <2>6, <2>7, <2>8
<1>14. ASSUME NEW s \in SeqId, Admit(s)
       PROVE  InLine'
  <2>1. /\ phase = "waiting" /\ phase' = "waiting" /\ waiting # << >> /\ s = Head(waiting)
        /\ waiting' = Tail(waiting) /\ running' = Append(running, s)
        /\ finished_seqs' = finished_seqs
      BY <1>14 DEF Admit, HandlesWaiting
  <2>2. ScheduledSeq' = Append(u, s) /\ ScheduledIds' = ScheduledIds \cup {s}
      BY <1>2, <1>14, ScheduledGrows
  <2>3. /\ Join(Append(u, s), Tail(w)) = Join(u, w)
        /\ Tail(w) \in Seq(SeqId) /\ Append(u, s) \in Seq(SeqId)
      BY <2>1, <1>23
  <2> PICK u2 \in Seq(SeqId), w2 \in Seq(SeqId) : u2 = Append(u, s) /\ w2 = Tail(w)
      BY <2>3
  <2>4. Join(Join(u2, w2), t) = Join(u2, Join(w2, t))
      BY <1>22
  <2>8. Join(Join(u, w), t) = Join(u, Join(w, t))
      BY <1>0, <1>22
  <2>5. Join(u2, Join(w2, t)) = Join(u, Join(w, t))
      BY <2>3, <2>4, <2>8
  <2>6. ToSet(running') = ToSet(running) \cup {s}
      BY <1>4, <2>1, AppendDistinct
  <2>7. QED
      BY <1>5, <1>6, <2>1, <2>2, <2>5, <2>6
<1>15. ASSUME NEW s \in SeqId, UpdateSeq(s)
       PROVE  InLine'
  <2>1. /\ s \in ScheduledIds /\ UNCHANGED <<waiting, scheduled>>
        /\ ToSet(running') \subseteq ToSet(running)
        /\ finished_seqs' = finished_seqs \/ finished_seqs' = Append(finished_seqs, s)
        /\ phase' = phase /\ phase = "update"
      BY <1>2, <1>15, UpdateLeaves DEF UpdateSeq
  <2>2. ToSet(Append(finished_seqs, s)) = ToSet(finished_seqs) \cup {s}
      BY <1>4, AppendDistinct
  <2>3. (ToSet(running') \cup ToSet(finished_seqs')) \cap N \subseteq ScheduledIds
      BY <1>5, <2>1, <2>2
  <2>4. QED
      BY <1>7, <2>1, <2>3
<1>16. QED
  <2>1. BeginStep \/ (phase # "outputs" /\ RestOfStep)
      BY DEF RunStep
  <2>2. ~(phase # "outputs" /\ Outputs)
      BY DEF Outputs
  <2>3. QED
      BY <1>8, <1>9, <1>10, <1>11, <1>12, <1>13, <1>14, <1>15, <2>1, <2>2
         DEF RestOfStep, Schedule

LEMMA PromptInLine ==
    ASSUME Served, Asking, InLine, AddPrompt
    PROVE  InLine'
<1> PICK A, N, u, w, t, h : /\ A = Answerable /\ N = Unanswered /\ u = ScheduledSeq
                            /\ w = waiting /\ t = toAdd /\ h = Head(toAdd)
    OBVIOUS
<1>1. /\ calling /\ UNCHANGED <<asked, calling, final_outputs, scheduled, preempted_seqs>>
      /\ h \in SeqId /\ phase' = "idle" /\ toAdd # << >> /\ toAdd' = Tail(toAdd)
      /\ toAdd' \in Seq(SeqId)
      /\ \/ /\ ~Accepted(h)
            /\ FreeSeq(h) /\ finished_seqs' = Append(finished_seqs, h)
         \/ /\ waiting' = Append(waiting, h)
            /\ UNCHANGED <<running, finished_seqs>>
    BY PromptAdded
<1>2. /\ u \in Seq(SeqId) /\ w \in Seq(SeqId) /\ t \in Seq(SeqId)
      /\ running \in Seq(SeqId) /\ finished_seqs \in Seq(SeqId)
    BY ScheduledSeqIs DEF Served, EngineInv, Types, TypeOK, Asking
<1>3. Answerable' = A /\ Unanswered' = N
  <2>1. Answerable' = Answerable
      BY <1>1, AnswerableStays DEF GenerateNext
  <2>2. QED
      BY <1>1, <2>1 DEF Unanswered
<1>4. /\ Join(Keep(Ids(final_outputs), A), Keep(Join(u, Join(w, t)), N)) = Keep(asked, A)
      /\ (ToSet(running) \cup ToSet(finished_seqs)) \cap N \subseteq ScheduledIds
    BY <1>1 DEF InLine, Line
<1>5. ScheduledSeq' = u /\ ScheduledIds' = ScheduledIds
    BY <1>1 DEF ScheduledSeq, ScheduledIds
<1>6. ASSUME Keep(Join(u, Join(waiting', toAdd')), N) = Keep(Join(u, Join(w, t)), N),
             (ToSet(running') \cup ToSet(finished_seqs')) \cap N \subseteq ScheduledIds
      PROVE  InLine'
  <2>1. Line' = Join(u, Join(waiting', toAdd'))
      BY <1>5 DEF Line
  <2>2. Ids(final_outputs)' = Ids(final_outputs)
      BY <1>1 DEF Ids
  <2>3. Join(Keep(Ids(final_outputs)', Answerable'), Keep(Line', Unanswered'))
            = Keep(asked', Answerable')
      BY <1>1, <1>3, <1>4, <1>6, <2>1, <2>2
  <2>4. QED
      BY <1>1, <1>3, <1>5, <1>6, <2>3 DEF InLine
<1>7. CASE waiting' = Append(waiting, h) /\ UNCHANGED <<running, finished_seqs>>
  <2>1. Join(Append(w, Head(t)), Tail(t)) = Join(w, t)
    <3>1. w \in Seq(SeqId) /\ t \in Seq(SeqId) /\ t # << >>
        BY <1>1, <1>2
    <3>2. QED
        BY <3>1, MoveOver
  <2>2. waiting' = Append(w, Head(t)) /\ toAdd' = Tail(t)
      BY <1>1, <1>7
  <2>3. Join(waiting', toAdd') = Join(w, t)
      BY <2>1, <2>2
  <2>4. Keep(Join(u, Join(waiting', toAdd')), N) = Keep(Join(u, Join(w, t)), N)
      BY <2>3
  <2>5. (ToSet(running') \cup ToSet(finished_seqs')) \cap N \subseteq ScheduledIds
      BY <1>4, <1>7
  <2>6. QED
      BY <1>6, <2>4, <2>5
<1>8. CASE ~Accepted(h) /\ FreeSeq(h) /\ finished_seqs' = Append(finished_seqs, h)
  <2>1. h \notin N
      BY <1>8 DEF Unanswered, Answerable
  <2>2. /\ waiting' \in Seq(SeqId) /\ ToSet(running') = ToSet(running) \ {h}
        /\ waiting' = waiting \/ waiting' = Delete(waiting, {h})
      BY <1>1, <1>8, FreeSeqQueues DEF Served, EngineInv, FreeSeq
  <2> PICK w2 \in Seq(SeqId) : w2 = waiting'
      BY <2>2
  <2>3. Keep(w2, N) = Keep(w, N)
    <3>1. {h} \cap N = {}
        BY <2>1
    <3>2. Keep(Delete(w, {h}), N) = Keep(w, N)
        BY <1>2, <3>1, KeepOfDelete
    <3>3. QED
        BY <2>2, <3>2
  <2> PICK y \in Seq(SeqId) : y = toAdd'
      BY <1>1
  <2>4. Keep(Join(w2, y), N) = Keep(Join(w, y), N)
    <3>1. w \in Seq(SeqId)
        BY <1>2
    <3>2. QED
        BY <2>3, <3>1, KeepRest
  <2>5. Keep(Join(w, y), N) = Keep(Join(w, t), N)
    <3>1. w \in Seq(SeqId) /\ t \in Seq(SeqId) /\ t # << >> /\ Head(t) \notin N
        BY <1>1, <1>2, <2>1
    <3>2. Keep(Join(w, Tail(t)), N) = Keep(Join(w, t), N)
        BY <3>1, KeepTail
    <3>3. QED
        BY <1>1, <3>2
  <2>6. Keep(Join(u, Join(w2, y)), N) = Keep(Join(u, Join(w, t)), N)
    <3>1. /\ Join(w2, y) \in Seq(SeqId) /\ Join(w, t) \in Seq(SeqId) /\ u \in Seq(SeqId)
        BY <1>2, KeepJoin
    <3> PICK a \in Seq(SeqId), b \in Seq(SeqId) : a = Join(w2, y) /\ b = Join(w, t)
        BY <3>1
    <3>2. Keep(a, N) = Keep(b, N)
        BY <2>4, <2>5
    <3>3. Keep(Join(u, a), N) = Join(Keep(u, N), Keep(a, N))
        BY <3>1, KeepJoin
    <3>4. Keep(Join(u, b), N) = Join(Keep(u, N), Keep(b, N))
        BY <3>1, KeepJoin
    <3>5. QED
        BY <3>2, <3>3, <3>4
  <2>7. ToSet(finished_seqs') = ToSet(finished_seqs) \cup {h}
      BY <1>1, <1>2, <1>8, AppendDistinct
  <2>8. (ToSet(running') \cup ToSet(finished_seqs')) \cap N \subseteq ScheduledIds
      BY <1>4, <2>1, <2>2, <2>7
  <2>9. QED
      BY <1>6, <2>6, <2>8
<1>9. QED
    BY <1>1, <1>7, <1>8

LEMMA CallInLine ==
    ASSUME Served, Asking, NEW n \in Nat, NEW prompts \in [1 .. n -> SeqId],
           IsInjective(prompts), \A i \in 1 .. n : seqs[prompts[i]].status = "NEW",
           Call(prompts)
    PROVE  InLine'
<1>1. /\ calling' /\ asked' = prompts /\ toAdd' = prompts /\ prompts \in Seq(SeqId)
      /\ Ids(final_outputs') = << >> /\ ToSet(Ids(final_outputs')) = {}
      /\ UNCHANGED <<scheduled, waiting, running, finished_seqs, seqs, phase>>
      /\ phase = "idle"
      /\ \A s \in ToSet(prompts) : s \in SeqId /\ seqs[s].status = "NEW"
    BY CallStarts DEF vars, queueVars, stepVars
<1> PICK B, w, p : B = Answerable' /\ w = waiting /\ p = prompts
    OBVIOUS
<1>2. B \subseteq ToSet(prompts) /\ Unanswered' = B
    BY <1>1 DEF Unanswered, Answerable
<1>3. /\ w \in Seq(SeqId) /\ p \in Seq(SeqId) /\ scheduled = << >>
      /\ ToSet(w) \cap B = {}
      /\ \A s \in ToSet(running) \cup ToSet(finished_seqs) : s \notin B
    BY <1>1, <1>2 DEF Served, EngineInv, Types, TypeOK, Loops, Queues
<1>4. ScheduledSeq' = << >> /\ ScheduledIds' = {}
    BY <1>1, <1>3 DEF ScheduledSeq, ScheduledIds
<1>5. Keep(w, B) = << >> /\ Keep(<< >>, B) = << >> /\ Keep(p, B) \in Seq(SeqId)
    BY <1>3, KeepNone, KeepNothing, KeepProperties
<1>6. \A x \in Seq(SeqId) : Join(<< >>, x) = x
    BY ConcatEmptySeq DEF Join
<1>7. Keep(Line', B) = Keep(p, B)
  <2>1. Join(w, p) \in Seq(SeqId) /\ Keep(Join(w, p), B) = Join(Keep(w, B), Keep(p, B))
      BY <1>3, KeepJoin
  <2>2. Line' = Join(<< >>, Join(w, p))
      BY <1>1, <1>4 DEF Line
  <2>3. QED
      BY <1>5, <1>6, <2>1, <2>2
<1>8. Join(Keep(Ids(final_outputs'), B), Keep(Line', B)) = Keep(asked', B)
    BY <1>1, <1>5, <1>6, <1>7
<1>9. QED
    BY <1>1, <1>2, <1>3, <1>4, <1>8 DEF InLine, Ids

LEMMA AccumulatedInLine ==
    ASSUME Served, Asking, InLine, RunAccumulates
    PROVE  InLine'
<1> PICK A, N, u, w, t, d, ids :
          /\ A = Answerable /\ N = Unanswered /\ u = ScheduledSeq /\ w = waiting
          /\ t = toAdd /\ d = Delete(finished_seqs, ScheduledIds) /\ ids = Ids(final_outputs)
    OBVIOUS
<1> DEFINE Told2 == ScheduledIds \cup ToSet(finished_seqs)
<1>1. /\ calling /\ UNCHANGED <<asked, toAdd, calling>> /\ phase' = "idle"
      /\ final_outputs' \in Outputs1
      /\ ToSet(Ids(final_outputs')) = ToSet(ids) \cup Told2
      /\ Keep(Ids(final_outputs'), A) =
             Join(Keep(ids, A), Keep(Join(u, d), A \ ToSet(ids)))
    BY StepAccumulated
<1>2. /\ scheduled' = << >> /\ finished_seqs' = << >>
      /\ UNCHANGED <<waiting, running, seqs>>
    BY DEF RunAccumulates, Outputs
<1>3. /\ u \in Seq(SeqId) /\ w \in Seq(SeqId) /\ t \in Seq(SeqId)
      /\ finished_seqs \in Seq(SeqId) /\ ids \in Seq(SeqId)
  <2>1. ids \in Seq(SeqId)
      BY IdsOf DEF Asking, Outputs1
  <2>2. QED
      BY <2>1, ScheduledSeqIs DEF Served, EngineInv, Types, TypeOK, Asking
<1>4. d \in Seq(SeqId) /\ ToSet(d) = ToSet(finished_seqs) \ ScheduledIds
    BY <1>3, DeleteAll
<1>5. N = A \ ToSet(ids)
    BY DEF Unanswered
<1>6. Answerable' = A /\ Unanswered' = N \ Told2
  <2>1. Answerable' = Answerable
      BY <1>1, AnswerableStays DEF GenerateNext
  <2>2. QED
      BY <1>1, <1>5, <2>1 DEF Unanswered
<1>7. /\ Join(Keep(ids, A), Keep(Join(u, Join(w, t)), N)) = Keep(asked, A)
      /\ (ToSet(running) \cup ToSet(finished_seqs)) \cap N \subseteq ScheduledIds
    BY <1>1 DEF InLine, Line
<1> PICK M : M = N \ Told2
    OBVIOUS
<1>8. ScheduledSeq' = << >> /\ ScheduledIds' = {} /\ ToSet(finished_seqs') = {}
    BY <1>2 DEF ScheduledSeq, ScheduledIds, ToSet
<1>9. (ToSet(running) \cup ToSet(finished_seqs)) \cap M = {}
    BY <1>7
<1>10. Keep(w, N) = Keep(w, M) /\ Keep(t, N) = Keep(t, M)
  <2>1. ASSUME NEW s, s \in ToSet(w) \/ s \in ToSet(t) PROVE s \notin Told2
    <3>1. s \in ToSet(w) => seqs[s].status = "WAITING"
        BY DEF Served, EngineInv, Queues
    <3>2. s \in ToSet(t) => seqs[s].status = "NEW"
        BY <1>1 DEF Asking
    <3>3. s \in Told2 => seqs[s].status \in {"RUNNING", "DONE"}
        BY DEF Served, EngineInv, Queues, StepBooks
    <3>4. QED
        BY <2>1, <3>1, <3>2, <3>3
  <2>2. ToSet(w) \cap N = ToSet(w) \cap M /\ ToSet(t) \cap N = ToSet(t) \cap M
      BY <2>1
  <2>3. QED
      BY <1>3, <2>2, KeepSame
<1> HIDE DEF Told2
<1>11. ASSUME NEW a \in Seq(SeqId), NEW b \in Seq(SeqId), NEW S
       PROVE  Join(a, b) \in Seq(SeqId) /\ Keep(Join(a, b), S) = Join(Keep(a, S), Keep(b, S))
    BY KeepJoin
<1>12. ASSUME NEW a \in Seq(SeqId), NEW b \in Seq(SeqId), NEW c \in Seq(SeqId)
       PROVE  Join(Join(a, b), c) = Join(a, Join(b, c))
    BY JoinAssociative
<1>13. \A x \in Seq(SeqId) : Join(<< >>, x) = x /\ Join(x, << >>) = x
    BY ConcatEmptySeq DEF Join
<1>14. \A x \in Seq(SeqId) : \A S : Keep(x, S) \in Seq(SeqId)
    BY KeepProperties
<1> PICK x \in Seq(SeqId) : x = Join(w, t)
    BY <1>3, <1>11
<1>15. Keep(x, N) = Keep(x, M)
    BY <1>3, <1>10, <1>11
<1>16. Keep(Join(u, d), N) = Keep(u, N)
  <2>1. ToSet(d) \cap N = {}
      BY <1>4, <1>7
  <2>2. Keep(d, N) = << >>
      BY <1>4, <2>1, KeepNone
  <2>3. QED
      BY <1>3, <1>4, <1>11, <1>13, <1>14, <2>2
<1>17. Join(Keep(ids, A), Join(Keep(u, N), Keep(x, N))) = Keep(asked, A)
    BY <1>3, <1>7, <1>11
<1>18. Join(Join(Keep(ids, A), Keep(u, N)), Keep(x, N)) = Keep(asked, A)
    BY <1>3, <1>12, <1>14, <1>17
<1>19. Keep(Ids(final_outputs'), A) = Join(Keep(ids, A), Keep(u, N))
    BY <1>1, <1>5, <1>16
<1>20. Line' = x
    BY <1>1, <1>2, <1>8, <1>13 DEF Line
<1>21. Join(Keep(Ids(final_outputs'), A), Keep(Line', M)) = Keep(asked, A)
    BY <1>15, <1>18, <1>19, <1>20
<1>22. QED
    BY <1>1, <1>2, <1>6, <1>8, <1>9, <1>21 DEF InLine, Ids

LEMMA NextInLine ==
    ASSUME Served, Asking, AllTold, InLine, [GenerateNext]_generateVars
    PROVE  InLine'
<1>1. CASE CallRaises \/ Return
    BY <1>1 DEF CallRaises, Return, InLine
<1>2. CASE UNCHANGED generateVars
  <2>1. UNCHANGED <<asked, toAdd, calling, final_outputs, phase, scheduled, waiting,
                    running, finished_seqs, preempted_seqs>>
      BY <1>2 DEF generateVars, clientVars, vars, stepVars, queueVars
  <2>2. Answerable' = Answerable
      BY <2>1, AnswerableStays
  <2>3. /\ Ids(final_outputs)' = Ids(final_outputs) /\ ScheduledIds' = ScheduledIds
        /\ Line' = Line
      BY <2>1 DEF Ids, ScheduledIds, Line, ScheduledSeq
  <2>4. Unanswered' = Unanswered
      BY <2>2, <2>3 DEF Unanswered
  <2>5. QED
      BY <2>1, <2>2, <2>3, <2>4 DEF InLine
<1>3. ASSUME NEW n \in 1 .. MaxPrompts, NEW prompts \in [1 .. n -> SeqId],
             IsInjective(prompts), \A i \in 1 .. n : seqs[prompts[i]].status = "NEW",
             Call(prompts)
      PROVE  InLine'
  <2>1. n \in Nat
      BY MaxPromptsAssumption
  <2>2. QED
      BY <1>3, <2>1, CallInLine
<1>4. QED
    BY <1>1, <1>2, <1>3, StepInLine, PromptInLine, AccumulatedInLine DEF GenerateNext

-----------------------------------------------------------------------------
(* What generate() returns.                                                *)

\* When nothing waits or runs, every prompt that can be answered has been.
LEMMA ReturnAnswers ==
    ASSUME Served, Asking, AllTold, NoneLost, InLine, Return
    PROVE  ~calling' /\ AnsweredInFull' /\ AnsweredInOrder'
<1> PICK outs \in Outputs1 : outs = final_outputs
    BY DEF Asking
<1>1. /\ calling /\ ~calling' /\ toAdd = << >> /\ phase = "idle"
      /\ waiting = << >> /\ running = << >>
      /\ returned' = <<outs>> /\ UNCHANGED <<seqs, asked>>
    BY DEF Return, HasUnfinished, vars
<1>2. returned'[1] = outs /\ OutputIds' = Ids(outs)
    BY <1>1 DEF OutputIds, Ids
<1>3. \A s : Accepted(s)' = Accepted(s)
    BY <1>1 DEF Accepted
<1>4. ToSet(toAdd) = {} /\ ToSet(waiting) = {} /\ ToSet(running) = {}
    BY <1>1 DEF ToSet
<1>5. ASSUME NEW s \in Answerable
      PROVE  \E i \in DOMAIN outs :
                /\ outs[i].seq_id = s /\ outs[i].tokens = Text(s)
                /\ outs[i].reason = seqs[s].finish_reason
  <2>1. s \in ToSet(asked) /\ s \in SeqId
      BY DEF Answerable, Asking, ToSet
  <2> PICK q, told : q = seqs[s].finish_reason /\ told = Told(outs, s)
      OBVIOUS
  <2>2. seqs[s].status = "DONE" /\ delivered[s].reasons = <<q>>
    <3>1. s \in sequences \/ (seqs[s].status = "DONE" /\ delivered[s].reasons = <<q>>)
        BY <1>1, <1>4, <2>1 DEF NoneLost
    <3>2. s \notin ToSet(finished_seqs)
        BY <1>1 DEF NoneLost
    <3>3. seqs[s].status \in {"NEW", "WAITING", "RUNNING", "DONE"}
        BY <2>1, RunningNeeds DEF Served, EngineSeq, Statuses
    <3>4. s \notin sequences
        BY <1>1, <1>4, <3>2, <3>3 DEF Served, EngineInv, Queues
    <3>5. QED
        BY <3>1, <3>4
  <2>3. q # "NONE"
      BY <2>1, <2>2 DEF Served, Reports
  <2>4. /\ told.tokens = delivered[s].tokens
        /\ delivered[s].reasons = IF told.reason = "NONE" THEN << >> ELSE <<told.reason>>
      BY <1>1, <2>1 DEF AllTold
  <2>5. told.reason = q
    <3>1. <<q>> # << >>
        OBVIOUS
    <3>2. told.reason # "NONE"
        BY <2>2, <2>4, <3>1
    <3>3. <<told.reason>> = <<q>>
        BY <2>2, <2>4, <3>2
    <3>4. QED
        BY <3>3
  <2>6. delivered[s].tokens = Text(s)
    <3>1. Pending(s) = << >>
        BY <1>1 DEF Pending, Appended
    <3>2. delivered[s].tokens \in Seq(Token) /\ delivered[s].tokens \o << >> = Text(s)
        BY <2>1, <3>1 DEF Served, Streams
    <3>3. QED
        BY <3>2, ConcatEmptySeq
  <2>7. s \in ToSet(Ids(outs))
      BY <2>3, <2>5 DEF Told
  <2>8. told.seq_id = s /\ \E i \in DOMAIN outs : outs[i] = told
      BY <2>1, <2>7, ToldType
  <2>9. QED
      BY <2>4, <2>5, <2>6, <2>8
<1>6. outs \in Seq(RequestOutput) /\ IsInjective(Ids(outs))
    BY DEF Outputs1
<1>7. \A i \in DOMAIN outs : outs[i].seq_id \in ToSet(Ids(outs)) /\ outs[i] \in ToSet(outs)
    BY <1>6, IdsOf DEF ToSet
<1>8. AnsweredInFull'
  <2>1. ASSUME NEW s \in ToSet(asked), Accepted(s)
        PROVE  \E out \in ToSet(outs) :
                  /\ out.seq_id = s
                  /\ out.tokens = SubSeq(seqs[s].token_ids, seqs[s].prompt_len + 1,
                                         Len(seqs[s].token_ids))
                  /\ out.reason = seqs[s].finish_reason
    <3>1. s \in Answerable
        BY <2>1 DEF Answerable
    <3>2. QED
        BY <1>5, <1>7, <3>1 DEF Text
  <2>2. QED
      BY <1>1, <1>2, <1>3, <1>6, <2>1 DEF AnsweredInFull
<1>9. AnsweredInOrder'
  <2>1. Unanswered = {}
      BY <1>5, <1>7 DEF Unanswered
  <2>2. ScheduledSeq \in Seq(SeqId) /\ Line \in Seq(SeqId)
    <3>1. ScheduledSeq \in Seq(SeqId) /\ waiting \in Seq(SeqId) /\ toAdd \in Seq(SeqId)
        BY ScheduledSeqIs DEF Served, EngineInv, Types, TypeOK, Asking
    <3>2. \A a, b \in Seq(SeqId) : Join(a, b) \in Seq(SeqId)
        BY KeepJoin
    <3>3. QED
        BY <3>1, <3>2 DEF Line
  <2>3. Keep(Line, {}) = << >>
      BY <2>2, KeepNone
  <2>4. Join(Keep(Ids(outs), Answerable), << >>) = Keep(asked, Answerable)
      BY <1>1, <2>1, <2>3 DEF InLine
  <2>5. Keep(Ids(outs), Answerable) \in Seq(SeqId)
      BY <1>6, IdsOf, KeepProperties
  <2>6. Keep(Ids(outs), Answerable) = Keep(asked, Answerable)
      BY <2>4, <2>5, ConcatEmptySeq DEF Join
  <2>7. {s \in ToSet(asked') : Accepted(s)'} = Answerable
      BY <1>1, <1>3 DEF Answerable
  <2>8. QED
      BY <1>1, <1>2, <2>6, <2>7 DEF AnsweredInOrder
<1>10. QED
    BY <1>1, <1>8, <1>9

\* What the last call returned stays right.
LEMMA NextAnswered ==
    ASSUME Served, Asking, AllTold, NoneLost, InLine, Answered,
           [GenerateNext]_generateVars
    PROVE  Answered'
<1>1. CASE Return
    BY <1>1, ReturnAnswers DEF Answered
<1>2. CASE UNCHANGED generateVars
  <2>1. UNCHANGED <<returned, calling, asked, seqs>>
      BY <1>2 DEF generateVars, clientVars, vars
  <2>2. /\ Returned' = Returned /\ OutputIds' = OutputIds
        /\ \A s : Accepted(s)' = Accepted(s)
      BY <2>1 DEF Returned, OutputIds, Accepted
  <2>3. AnsweredInFull' = AnsweredInFull /\ AnsweredInOrder' = AnsweredInOrder
      BY <2>1, <2>2 DEF AnsweredInFull, AnsweredInOrder
  <2>4. QED
      BY <2>1, <2>2, <2>3 DEF Answered
<1>3. CASE AddPrompt \/ RunStep \/ RunAccumulates \/ CallRaises
  <2>1. calling /\ returned' = returned
      BY <1>3 DEF AddPrompt, RunStep, RunAccumulates, CallRaises, clientVars
  <2>2. QED
      BY <2>1 DEF Answered, Returned
<1>4. ASSUME NEW prompts, Call(prompts) PROVE Answered'
    BY <1>4 DEF Call, Answered, Returned
<1>5. QED
    BY <1>1, <1>2, <1>3, <1>4 DEF GenerateNext

\* The inductive invariant of the client and its engine.
GenerateInv == Served /\ Asking /\ AllTold /\ NoneLost /\ InLine /\ Answered

LEMMA NextGenerateInv ==
    ASSUME GenerateInv, [GenerateNext]_generateVars
    PROVE  GenerateInv'
<1>1. [Next]_vars
    BY ClientStep DEF GenerateInv
<1>2. Served'
    BY <1>1, NextInv, NextStepBooks, NextStreams, NextReports DEF GenerateInv, Served
<1>3. Asking' /\ AllTold'
    BY NextAsking, NextAllTold DEF GenerateInv
<1>4. NoneLost' /\ InLine'
    BY NextNoneLost, NextInLine DEF GenerateInv
<1>5. Answered'
    BY NextAnswered DEF GenerateInv
<1>6. QED
    BY <1>2, <1>3, <1>4, <1>5 DEF GenerateInv

LEMMA GenerateStarts == GenerateInit => GenerateInv
<1> SUFFICES ASSUME GenerateInit PROVE GenerateInv
    OBVIOUS
<1>1. /\ Init /\ asked = << >> /\ toAdd = << >> /\ calling = FALSE
      /\ final_outputs = << >> /\ returned = << >>
    BY DEF GenerateInit
<1>2. EngineInv /\ Streams /\ Reports
    BY <1>1, InitInv, StartsTold
<1>3. finished_seqs = << >> /\ scheduled = << >> /\ phase = "idle"
    BY <1>1 DEF Init
<1>4. StepBooks
  <2>1. IsInjective(<< >>)
      BY DEF IsInjective
  <2>2. ScheduledIds = {}
      BY <1>3 DEF ScheduledIds
  <2>3. \A s \in SeqId : \E p \in Prompts :
            seqs[s].token_ids = p /\ seqs[s].prompt_len = Len(p)
      BY <1>1 DEF Init
  <2>4. QED
      BY <1>3, <2>1, <2>2, <2>3 DEF StepBooks
<1>5. Asking
  <2>1. << >> \in Outputs1 /\ ToSet(Ids(<< >>)) = {}
      BY DEF Outputs1, Ids, IsInjective, ToSet
  <2>2. << >> \in Seq(SeqId) /\ IsInjective(<< >>) /\ ToSet(<< >>) = {}
      BY DEF IsInjective, ToSet
  <2>3. QED
      BY <1>1, <1>3, <2>1, <2>2 DEF Asking
<1>6. AllTold /\ NoneLost /\ InLine /\ Answered
    BY <1>1 DEF AllTold, NoneLost, InLine, Answered, Returned
<1>7. QED
    BY <1>2, <1>4, <1>5, <1>6 DEF GenerateInv, Served

LEMMA GenerateInvariant == GenerateSpec => []GenerateInv
    BY GenerateStarts, NextGenerateInv, PTL DEF GenerateSpec

\* Every prompt the scheduler accepts is answered by the call of generate() that
\* asked, once, with the whole of its text and the reason it ended: for every
\* pool and batch limit, any number of calls and of prompts, through preemption
\* and recompute, and after calls that a forward pass made raise.
THEOREM EveryPromptAnswered == GenerateSpec => []AnsweredInFull
<1>1. GenerateInv => AnsweredInFull
    BY DEF GenerateInv, Answered, AnsweredInFull
<1>2. QED
    BY <1>1, GenerateInvariant, PTL

\* The answers come back in the order of the prompts, in whatever order the
\* scheduler admitted, preempted, readmitted and finished them.
THEOREM AnswersInOrder == GenerateSpec => []AnsweredInOrder
<1>1. GenerateInv => AnsweredInOrder
    BY DEF GenerateInv, Answered, AnsweredInOrder
<1>2. QED
    BY <1>1, GenerateInvariant, PTL
=============================================================================
