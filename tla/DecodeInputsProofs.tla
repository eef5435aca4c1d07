------------------------- MODULE DecodeInputsProofs -------------------------
(***************************************************************************)
(* The captured decode path reads what the step meant it to read, for      *)
(* every pool, every set of batch and context buckets that a row is wide   *)
(* enough for, every number of recomputes and any work left on the         *)
(* streams by steps that raised.                                           *)
(*                                                                         *)
(* The scheduler's steps are steps of the KV cache manager, so the         *)
(* invariant Inv of module KVCacheManagerProofs is kept; that a table only *)
(* grows at its end (TablesGrow) is what lets a row be edited in place.    *)
(***************************************************************************)
EXTENDS DecodeInputs, KVCacheManagerProofs

RowRecord ==
    [ key : {NoKeyRow} \cup (SeqId \X Nat), blocks : Nat,
      table : [1 .. MaxBlocks -> Nat], input_id : Token \cup {PadToken},
      position : Nat, seq_len : Nat, slot : Nat ]

Work == [op : {"copy", "forward"}, key : Nat \X Nat, current : BOOLEAN]
WarmUpWork == [key : Nat \X Nat, after : Nat, current : BOOLEAN]

DecodeTypes ==
    /\ num_preemptions \in [SeqId -> Nat]
    /\ host \in [Row -> RowRecord]
    /\ live \in Nat
    /\ stream \in Seq(Work)
    /\ side \in Seq(WarmUpWork)
    /\ launch \in {"idle", "prepared", "replayed"}

\* The row holds the first blocks of the table of s and nothing else.
StagesTable(row, k, s) ==
    /\ row.blocks <= Len(BlockTable(k, s))
    /\ \A j \in 1 .. MaxBlocks :
          row.table[j] = IF j <= row.blocks THEN BlockTable(k, s)[j] ELSE DummyBlock

\* The key a row carries is of this life of a sequence that holds its table,
\* or of an earlier one; it is never of a life that has not begun.
KeysAreLives(h, k, epochs) ==
    \A i \in Row, s \in SeqId, e \in Nat :
        h[i].key = <<s, e>> =>
            /\ e <= epochs[s]
            /\ e = epochs[s] => Holds(k, s) /\ StagesTable(h[i], k, s)

SpareRowsAreClear(h, n) ==
    \A i \in Row : i > n => h[i].key = NoKeyRow /\ h[i].table = PaddedTable

\* A batch the step may run captured.
Decodable(b) ==
    /\ \E n \in Row : b \in [1 .. n -> SeqId]
    /\ \A i \in DOMAIN b : DecodesNow(b[i])
    /\ CanGraphDecode(b)

BatchInFlight ==
    IF launch = "idle" THEN batch = << >>
    ELSE /\ Decodable(batch)
         /\ [i \in 1 .. BatchBucket(batch) |-> Input(host[i])] = Rebuilt(batch)

\* A current forward is of the step in flight: the replay is on the current
\* stream, the warm-ups are beside it before there is a graph to replay.
ForwardsAreOfTheStep ==
    /\ \A k \in DOMAIN stream : stream[k].op = "forward" /\ stream[k].current =>
          launch = "replayed" /\ stream[k].key = GraphKey(batch)
    /\ \A i \in DOMAIN side : side[i].current =>
          launch = "prepared" /\ side[i].key = GraphKey(batch)

\* No warm-up is left of a graph that is captured, and none else is replayed.
CapturedIsQuiet ==
    /\ \A i \in DOMAIN side : side[i].key \notin captured
    /\ launch = "replayed" => GraphKey(batch) \in captured

\* A copy for the graph is in the stream, ahead of every current forward.
CopyAhead(q, beside, key) ==
    \E k \in DOMAIN q :
        /\ q[k].op = "copy" /\ q[k].key = key
        /\ \A j \in 1 .. k : ~(q[j].op = "forward" /\ q[j].current)
        /\ \A i \in DOMAIN beside : beside[i].current => k <= beside[i].after

CopyComesFirst ==
    launch # "idle" =>
        buffer = Rebuilt(batch) \/ CopyAhead(stream, side, GraphKey(batch))

DecodeInv ==
    /\ Inv
    /\ DecodeTypes
    /\ KeysAreLives(host, kv, num_preemptions)
    /\ SpareRowsAreClear(host, live)
    /\ BatchInFlight
    /\ ForwardsAreOfTheStep
    /\ CapturedIsQuiet
    /\ CopyComesFirst

-----------------------------------------------------------------------------
(* Buckets and places.                                                     *)

\* No pair is the key of an empty row.
LEMMA PairIsNoEmptyRow == \A x, y : <<x, y>> # NoKeyRow
<1>1. \A x, y : Len(<<x, y>>) = 2
    OBVIOUS
<1>2. Len(NoKeyRow) = 0
    BY DEF NoKeyRow
<1>3. QED
    BY <1>1, <1>2

\* The greatest bucket is a bucket, and a number it covers has a bucket.
LEMMA BucketCovers ==
    ASSUME NEW buckets \in SUBSET (Nat \ {0}), buckets # {}, IsFiniteSet(buckets)
    PROVE  /\ Max(buckets) \in Nat \ {0}
           /\ \A n \in Nat : n <= Max(buckets) =>
                 /\ CeilToBucket(n, buckets) \in Nat
                 /\ n <= CeilToBucket(n, buckets)
                 /\ CeilToBucket(n, buckets) <= Max(buckets)
<1>1. Max(buckets) \in buckets /\ \A y \in buckets : y <= Max(buckets)
    BY MaxOfFinite
<1>2. Max(buckets) \in Nat \ {0}
    BY <1>1
<1>3. ASSUME NEW n \in Nat, n <= Max(buckets)
      PROVE  /\ CeilToBucket(n, buckets) \in buckets
             /\ n <= CeilToBucket(n, buckets)
  <2> DEFINE S == {b \in buckets : b >= n}
  <2>1. S \in SUBSET Nat /\ S # {}
      BY <1>1, <1>2, <1>3
  <2>2. Min(S) \in S
      BY <2>1, MinOfNats
  <2>3. Min(S) = CeilToBucket(n, buckets)
      BY DEF CeilToBucket
  <2>4. QED
      BY <2>2, <2>3
<1>4. QED
    BY <1>1, <1>2, <1>3

\* A batch fits its bucket, and its graph key is a pair of numbers.
LEMMA BatchFitsBucket ==
    ASSUME Inv, NEW b, Decodable(b)
    PROVE  /\ Len(b) \in Row /\ DOMAIN b = 1 .. Len(b)
           /\ \A i \in 1 .. Len(b) : b[i] \in SeqId
           /\ MaxBatch \in Nat
           /\ BatchBucket(b) \in Row /\ Len(b) <= BatchBucket(b)
           /\ GraphKey(b) \in Nat \X Nat
<1>1. PICK n \in Row : b \in [1 .. n -> SeqId]
    BY DEF Decodable
<1>2. MaxBatch \in Nat \ {0}
    BY BucketCovers, BucketsAssumption DEF MaxBatch
<1>3. n \in Nat /\ Len(b) = n /\ DOMAIN b = 1 .. n /\ b # << >> /\ 1 \in 1 .. n
    BY <1>1, <1>2 DEF Row
<1>4. /\ BatchBucket(b) \in Nat /\ Len(b) <= BatchBucket(b)
      /\ BatchBucket(b) <= MaxBatch
    BY <1>1, <1>2, <1>3, BucketCovers, BucketsAssumption DEF BatchBucket, MaxBatch, Row
<1>5. CeilToBucket(Max({seqs[b[i]].num_computed_tokens : i \in DOMAIN b}) + 1, CtxBuckets) \in Nat
  <2> DEFINE S == {seqs[b[i]].num_computed_tokens : i \in DOMAIN b}
             C == Max(CtxBuckets)
  <2>1. C \in Nat
      BY BucketCovers, BucketsAssumption
  <2>2. \A i \in DOMAIN b : /\ seqs[b[i]].num_computed_tokens \in Nat
                            /\ seqs[b[i]].num_computed_tokens + 1 <= C
      BY <1>1 DEF Decodable, CanGraphDecode, Inv, SeqRecord
  <2> HIDE DEF C
  <2>3. S \in SUBSET (0 .. C) /\ S # {}
    <3>1. seqs[b[1]].num_computed_tokens \in S
        BY <1>3
    <3>2. QED
        BY <2>1, <2>2, <3>1
  <2>4. Max(S) \in S
      BY <2>1, <2>3, MaxOfBounded
  <2>5. Max(S) + 1 \in Nat /\ Max(S) + 1 <= C
      BY <2>2, <2>4
  <2>6. CeilToBucket(Max(S) + 1, CtxBuckets) \in Nat
      BY <2>5, BucketCovers, BucketsAssumption DEF C
  <2>7. QED
      BY <2>6
<1>6. GraphKey(b) \in Nat \X Nat
    BY <1>4, <1>5 DEF GraphKey
<1>7. QED
    BY <1>1, <1>2, <1>3, <1>4, <1>6 DEF Row

\* The table entry of the token a sequence decodes is in its table, and a row
\* has a place for it.
LEMMA TokenHasItsEntry ==
    ASSUME Inv, NEW s \in SeqId, DecodesNow(s),
           seqs[s].num_computed_tokens + 1 <= Max(CtxBuckets)
    PROVE  LET e == seqs[s].num_computed_tokens \div BlockSize + 1
           IN  e \in 1 .. MaxBlocks /\ e <= Len(BlockTable(kv, s))
<1> DEFINE pos == seqs[s].num_computed_tokens
           q == pos \div BlockSize
           m == Len(BlockTable(kv, s))
<1>1. pos \in Nat /\ BlockSize \in Nat \ {0} /\ pos + 1 = Len(seqs[s].token_ids)
    BY BlockSizeAssumption DEF Inv, SeqRecord, DecodesNow
<1>2. m \in Nat
    BY TablesAreSequences DEF Inv
<1>3. CeilDiv(pos + 1, BlockSize) <= m
    BY <1>1 DEF DecodesNow
<1> HIDE DEF m, pos
<1>4. q \in Nat /\ q * BlockSize <= pos
    BY <1>1, DivTimes
<1>5. \A c \in Nat : pos + 1 <= c * BlockSize => q + 1 <= c
  <2>1. SUFFICES ASSUME NEW c \in Nat, pos + 1 <= c * BlockSize, c <= q PROVE FALSE
      BY <1>4
  <2>2. c * BlockSize <= q * BlockSize
      BY <1>1, <1>4, <2>1, TimesMonotone
  <2>3. c * BlockSize \in Nat /\ q * BlockSize \in Nat
      BY <1>1, <1>4
  <2>4. QED
      BY <1>1, <1>4, <2>1, <2>2, <2>3
<1>6. q + 1 <= m
  <2>1. /\ CeilDiv(pos + 1, BlockSize) \in Nat
        /\ pos + 1 <= CeilDiv(pos + 1, BlockSize) * BlockSize
      BY <1>1, CeilCovers
  <2>2. QED
      BY <1>2, <1>3, <1>4, <1>5, <2>1
<1>7. q + 1 <= MaxBlocks
  <2>1. Max(CtxBuckets) \in Nat
      BY BucketCovers, BucketsAssumption
  <2>2. pos + 1 <= MaxBlocks * BlockSize
    <3>1. MaxBlocks * BlockSize \in Nat
        BY <1>1, WidthAssumption
    <3>2. QED
        BY <1>1, <2>1, <3>1, WidthAssumption DEF pos
  <2>3. QED
      BY <1>5, <2>2, WidthAssumption
<1>8. QED
    BY <1>4, <1>6, <1>7, WidthAssumption DEF pos, m

-----------------------------------------------------------------------------
(* One row.                                                                *)

\* The padded row is a row that holds no block of the pool.
LEMMA PaddedTableType == PaddedTable \in [1 .. MaxBlocks -> Nat] /\ DummyBlock * BlockSize \in Nat
BY DummyAssumption, BlockSizeAssumption DEF PaddedTable

\* Staging a sequence into a row leaves the row with its whole table, whatever
\* the row held before.
LEMMA StagedHoldsTable ==
    ASSUME Inv, NEW s \in SeqId, Holds(kv, s), num_preemptions \in [SeqId -> Nat],
           NEW row \in RowRecord,
           row.key = RowKey(s) => StagesTable(row, kv, s)
    PROVE  LET staged == Staged(row, s)
           IN  /\ staged \in RowRecord
               /\ staged.key = RowKey(s)
               /\ StagesTable(staged, kv, s)
               /\ staged.blocks = Len(BlockTable(kv, s))
<1> DEFINE staged == Staged(row, s)
           table == BlockTable(kv, s)
           m == Len(table)
           from == IF row.key # RowKey(s) THEN 0 ELSE row.blocks
           entry(j) == IF j \in from + 1 .. m THEN table[j]
                       ELSE IF row.key # RowKey(s) THEN DummyBlock ELSE row.table[j]
<1>1. table \in Seq(Block) /\ m \in Nat /\ \A j \in 1 .. m : table[j] \in Nat
  <2>1. table \in Seq(Block)
      BY TablesAreSequences DEF Inv
  <2>2. \A b \in Block : b \in Nat
      BY NumBlocksAssumption DEF Block
  <2>3. QED
      BY <2>1, <2>2
<1>2. /\ staged = [row EXCEPT !.key = RowKey(s), !.blocks = m,
                              !.table = [j \in 1 .. MaxBlocks |-> entry(j)]]
    BY DEF Staged
<1>3. row.blocks \in Nat /\ row.table \in [1 .. MaxBlocks -> Nat]
    BY DEF RowRecord
<1>4. \A j \in 1 .. MaxBlocks : entry(j) = IF j <= m THEN table[j] ELSE DummyBlock
  <2>1. CASE row.key # RowKey(s)
      BY <1>1, <2>1, WidthAssumption
  <2>2. CASE row.key = RowKey(s)
    <3>1. row.blocks <= m
        BY <2>2 DEF StagesTable
    <3>2. \A j \in 1 .. MaxBlocks :
              row.table[j] = IF j <= row.blocks THEN table[j] ELSE DummyBlock
        BY <2>2 DEF StagesTable
    <3> HIDE DEF table
    <3>3. QED
        BY <1>1, <1>3, <2>2, <3>1, <3>2, WidthAssumption
  <2>3. QED
      BY <2>1, <2>2
<1>5. \A j \in 1 .. MaxBlocks : entry(j) \in Nat
    BY <1>1, <1>4, DummyAssumption, WidthAssumption
<1>6. RowKey(s) \in SeqId \X Nat
    BY DEF RowKey
<1> HIDE DEF entry, from, table
<1> DEFINE entries == [j \in 1 .. MaxBlocks |-> entry(j)]
<1>11. entries \in [1 .. MaxBlocks -> Nat]
    BY <1>5
<1> HIDE DEF entries, staged, m
<1>7. /\ staged \in RowRecord
      /\ staged.key = RowKey(s) /\ staged.blocks = m
      /\ staged.table = entries
    BY <1>1, <1>2, <1>6, <1>11 DEF RowRecord, entries, NoKeyRow
<1>8. /\ staged.key = RowKey(s) /\ staged.blocks = m
      /\ staged.table = [j \in 1 .. MaxBlocks |-> entry(j)]
    BY <1>7 DEF entries
<1>9. StagesTable(staged, kv, s)
    BY <1>1, <1>4, <1>8 DEF StagesTable, table, m
<1>10. QED
    BY <1>7, <1>8, <1>9 DEF table, m, staged

\* With the token's position, length and slot it is what the step would have
\* built from scratch.
LEMMA PositionedIsRebuilt ==
    ASSUME Inv, NEW s \in SeqId, DecodesNow(s),
           seqs[s].num_computed_tokens + 1 <= Max(CtxBuckets),
           NEW row \in RowRecord, StagesTable(row, kv, s),
           row.blocks = Len(BlockTable(kv, s))
    PROVE  LET placed == Positioned(row, s)
               table == BlockTable(kv, s)
           IN  /\ placed \in RowRecord
               /\ placed.key = row.key
               /\ StagesTable(placed, kv, s)
               /\ Input(placed) =
                      [ input_id |-> Last(seqs[s].token_ids),
                        position |-> seqs[s].num_computed_tokens,
                        seq_len |-> Len(seqs[s].token_ids),
                        slot |-> SlotMapping(kv, s, seqs[s], 1)[1],
                        table |-> [j \in 1 .. MaxBlocks |->
                                      IF j <= Len(table) THEN table[j] ELSE DummyBlock] ]
<1> DEFINE placed == Positioned(row, s)
           table == BlockTable(kv, s)
           pos == seqs[s].num_computed_tokens
           e == pos \div BlockSize + 1
           slot == row.table[e] * BlockSize + (pos % BlockSize)
<1>1. /\ pos \in Nat /\ BlockSize \in Nat \ {0} /\ pos + 1 = Len(seqs[s].token_ids)
      /\ seqs[s].token_ids \in Seq(Token)
    BY BlockSizeAssumption DEF Inv, SeqRecord, DecodesNow
<1>2. /\ seqs[s].token_ids[pos + 1] = Last(seqs[s].token_ids)
      /\ seqs[s].token_ids[pos + 1] \in Token
    BY <1>1 DEF Last
<1>3. e \in 1 .. MaxBlocks /\ e <= Len(table)
    BY TokenHasItsEntry
<1>4. table = kv.request_blocks[s]
    BY DEF DecodesNow, BlockTable
<1>5. /\ row.table \in [1 .. MaxBlocks -> Nat]
      /\ \A j \in 1 .. MaxBlocks :
            row.table[j] = IF j <= Len(table) THEN table[j] ELSE DummyBlock
    BY DEF RowRecord, StagesTable
<1>6. SlotMapping(kv, s, seqs[s], 1)[1] = slot
  <2>1. SlotMapping(kv, s, seqs[s], 1)[1] =
            kv.request_blocks[s][(pos + 1 - 1) \div BlockSize + 1] * BlockSize
                + ((pos + 1 - 1) % BlockSize)
      BY DEF SlotMapping
  <2>2. pos + 1 - 1 = pos
      BY <1>1
  <2>3. row.table[e] = table[e]
      BY <1>3, <1>5
  <2>4. QED
      BY <1>4, <2>1, <2>2, <2>3
<1>7. slot \in Nat
  <2>1. row.table[e] \in Nat
      BY <1>3, <1>5
  <2>2. pos % BlockSize \in Nat
      BY <1>1
  <2>3. row.table[e] * BlockSize \in Nat
      BY <1>1, <2>1
  <2>4. QED
      BY <2>2, <2>3
<1>8. placed = [row EXCEPT !.input_id = seqs[s].token_ids[pos + 1],
                           !.position = pos, !.seq_len = pos + 1, !.slot = slot]
    BY DEF Positioned
<1> HIDE DEF slot, pos, e, placed
<1>9. /\ placed \in RowRecord
      /\ placed.key = row.key /\ placed.blocks = row.blocks /\ placed.table = row.table
      /\ placed.input_id = seqs[s].token_ids[pos + 1]
      /\ placed.position = pos /\ placed.seq_len = pos + 1 /\ placed.slot = slot
  <2> DEFINE id == seqs[s].token_ids[pos + 1]
             Keys == {NoKeyRow} \cup (SeqId \X Nat)
             Ids == Token \cup {PadToken}
             TableType == [1 .. MaxBlocks -> Nat]
  <2>1. id \in Ids /\ pos \in Nat /\ pos + 1 \in Nat /\ slot \in Nat
      BY <1>1, <1>2, <1>7
  <2>2. RowRecord = [ key : Keys, blocks : Nat, table : TableType, input_id : Ids,
                      position : Nat, seq_len : Nat, slot : Nat ]
      BY DEF RowRecord
  <2>3. placed = [row EXCEPT !.input_id = id, !.position = pos, !.seq_len = pos + 1,
                             !.slot = slot]
      BY <1>8
  <2> HIDE DEF id, Keys, Ids, TableType
  <2>4. /\ placed \in RowRecord
        /\ placed.key = row.key /\ placed.blocks = row.blocks /\ placed.table = row.table
        /\ placed.input_id = id
        /\ placed.position = pos /\ placed.seq_len = pos + 1 /\ placed.slot = slot
      BY <2>1, <2>2, <2>3
  <2>5. QED
      BY <2>4 DEF id
<1>10. row.table = [j \in 1 .. MaxBlocks |->
                       IF j <= Len(table) THEN table[j] ELSE DummyBlock]
    BY <1>5
<1>11. StagesTable(placed, kv, s)
    BY <1>9 DEF StagesTable
<1>12. QED
    BY <1>1, <1>2, <1>6, <1>9, <1>10, <1>11 DEF Input, placed, pos

\* A row of the padding keeps its table and is read as padding.
LEMMA PaddedRow ==
    ASSUME NEW row \in RowRecord, row.key = NoKeyRow, row.table = PaddedTable
    PROVE  LET padded == Padded(row)
           IN  /\ padded \in RowRecord
               /\ padded.key = NoKeyRow /\ padded.table = PaddedTable
               /\ Input(padded) = PaddedInput
<1> DEFINE padded == Padded(row)
           Keys == {NoKeyRow} \cup (SeqId \X Nat)
           Ids == Token \cup {PadToken}
           TableType == [1 .. MaxBlocks -> Nat]
           slot == DummyBlock * BlockSize
<1>1. slot \in Nat /\ PadToken \in Ids
    BY PaddedTableType
<1>2. RowRecord = [ key : Keys, blocks : Nat, table : TableType, input_id : Ids,
                    position : Nat, seq_len : Nat, slot : Nat ]
    BY DEF RowRecord
<1>3. padded = [row EXCEPT !.input_id = PadToken, !.position = 0, !.seq_len = 0,
                           !.slot = slot]
    BY DEF Padded
<1>4. PaddedInput = [ input_id |-> PadToken, position |-> 0, seq_len |-> 0,
                      slot |-> slot, table |-> PaddedTable ]
    BY DEF PaddedInput
<1> HIDE DEF Keys, Ids, TableType, slot, padded
<1>5. /\ padded \in RowRecord
      /\ padded.key = row.key /\ padded.table = row.table
      /\ padded.input_id = PadToken /\ padded.position = 0 /\ padded.seq_len = 0
      /\ padded.slot = slot
    BY <1>1, <1>2, <1>3
<1>6. Input(padded) = PaddedInput
    BY <1>4, <1>5 DEF Input
<1>7. QED
    BY <1>5, <1>6 DEF padded

\* A row that lost its sequence is cleared.
LEMMA ClearedRow ==
    ASSUME NEW row \in RowRecord
    PROVE  LET cleared == Cleared(row)
           IN  /\ cleared \in RowRecord
               /\ cleared.key = NoKeyRow /\ cleared.table = PaddedTable
<1> DEFINE cleared == Cleared(row)
           Keys == {NoKeyRow} \cup (SeqId \X Nat)
           Ids == Token \cup {PadToken}
           TableType == [1 .. MaxBlocks -> Nat]
<1>1. NoKeyRow \in Keys /\ PaddedTable \in TableType
    BY PaddedTableType
<1>2. RowRecord = [ key : Keys, blocks : Nat, table : TableType, input_id : Ids,
                    position : Nat, seq_len : Nat, slot : Nat ]
    BY DEF RowRecord
<1>3. cleared = [row EXCEPT !.key = NoKeyRow, !.blocks = 0, !.table = PaddedTable]
    BY DEF Cleared
<1> HIDE DEF Keys, Ids, TableType, cleared
<1>4. /\ cleared \in RowRecord
      /\ cleared.key = NoKeyRow /\ cleared.table = PaddedTable
    BY <1>1, <1>2, <1>3
<1>5. QED
    BY <1>4 DEF cleared

-----------------------------------------------------------------------------
(* DecodeInputs.update edits every row right.                              *)

\* The whole update: each live row stages its sequence, each row beyond them
\* is clear, each padded row of the bucket reads as padding.
LEMMA UpdatedRows ==
    ASSUME Inv, DecodeTypes, KeysAreLives(host, kv, num_preemptions),
           SpareRowsAreClear(host, live), NEW b, Decodable(b)
    PROVE  LET h == Updated(b, BatchBucket(b))
           IN  /\ h \in [Row -> RowRecord]
               /\ KeysAreLives(h, kv, num_preemptions)
               /\ SpareRowsAreClear(h, Len(b))
               /\ [i \in 1 .. BatchBucket(b) |-> Input(h[i])] = Rebuilt(b)
<1> DEFINE bucket == BatchBucket(b)
           h == Updated(b, bucket)
           N == Len(b)
           old(i) == IF i \in N + 1 .. live THEN Cleared(host[i]) ELSE host[i]
           Want(i) == IF i > N THEN PaddedInput
                      ELSE [ input_id |-> Last(seqs[b[i]].token_ids),
                             position |-> seqs[b[i]].num_computed_tokens,
                             seq_len |-> Len(seqs[b[i]].token_ids),
                             slot |-> SlotMapping(kv, b[i], seqs[b[i]], 1)[1],
                             table |-> [j \in 1 .. MaxBlocks |->
                                 IF j <= Len(BlockTable(kv, b[i]))
                                 THEN BlockTable(kv, b[i])[j] ELSE DummyBlock] ]
<1>1. /\ N \in Row /\ DOMAIN b = 1 .. N
      /\ \A i \in 1 .. N : b[i] \in SeqId
      /\ MaxBatch \in Nat /\ bucket \in Row /\ N <= bucket
    BY BatchFitsBucket
<1>2. /\ Row \subseteq Nat \ {0} /\ N \in Nat /\ bucket \in Nat /\ live \in Nat
      /\ 1 .. bucket \subseteq Row
    BY <1>1 DEF Row, DecodeTypes
<1>3. \A i \in Row : host[i] \in RowRecord
    BY DEF DecodeTypes
<1>4. \A i \in Row : h[i] = IF i <= N THEN Positioned(Staged(old(i), b[i]), b[i])
                            ELSE IF i <= bucket THEN Padded(old(i)) ELSE old(i)
    BY DEF Updated
<1>5. h = [i \in Row |-> h[i]]
    BY DEF Updated
<1>6. Rebuilt(b) = [i \in 1 .. bucket |-> Want(i)]
    BY DEF Rebuilt
<1> HIDE DEF h, bucket, Want
<1>7. ASSUME NEW i \in Row, i <= N
      PROVE  /\ h[i] \in RowRecord
             /\ h[i].key = RowKey(b[i]) /\ Holds(kv, b[i])
             /\ StagesTable(h[i], kv, b[i])
             /\ Input(h[i]) = Want(i)
  <2> DEFINE s == b[i]
             row == host[i]
             staged == Staged(row, s)
  <2>1. i \in 1 .. N /\ s \in SeqId /\ DecodesNow(s) /\ Holds(kv, s)
    <3>1. i \in 1 .. N
        BY <1>2, <1>7
    <3>2. QED
        BY <1>1, <3>1 DEF Decodable, DecodesNow
  <2>2. seqs[s].num_computed_tokens + 1 <= Max(CtxBuckets)
      BY <1>1, <2>1 DEF Decodable, CanGraphDecode
  <2>3. row \in RowRecord
      BY <1>3
  <2>4. h[i] = Positioned(staged, s)
      BY <1>2, <1>4, <1>7
  <2>5. row.key = RowKey(s) => StagesTable(row, kv, s)
      BY <2>1 DEF RowKey, KeysAreLives, DecodeTypes
  <2>6. Want(i) = [ input_id |-> Last(seqs[s].token_ids),
                    position |-> seqs[s].num_computed_tokens,
                    seq_len |-> Len(seqs[s].token_ids),
                    slot |-> SlotMapping(kv, s, seqs[s], 1)[1],
                    table |-> [j \in 1 .. MaxBlocks |->
                        IF j <= Len(BlockTable(kv, s))
                        THEN BlockTable(kv, s)[j] ELSE DummyBlock] ]
      BY <1>2, <1>7 DEF Want
  <2>7. num_preemptions \in [SeqId -> Nat]
      BY DEF DecodeTypes
  <2> HIDE DEF s, row
  <2>8. /\ staged \in RowRecord /\ staged.key = RowKey(s)
        /\ StagesTable(staged, kv, s) /\ staged.blocks = Len(BlockTable(kv, s))
      BY <2>1, <2>3, <2>5, <2>7, StagedHoldsTable
  <2> HIDE DEF staged
  <2>9. /\ h[i] \in RowRecord /\ h[i].key = RowKey(s)
        /\ StagesTable(h[i], kv, s) /\ Input(h[i]) = Want(i)
      BY <2>1, <2>2, <2>4, <2>6, <2>8, PositionedIsRebuilt
  <2>10. QED
      BY <2>1, <2>9 DEF s
<1>8. ASSUME NEW i \in Row, i > N
      PROVE  /\ h[i] \in RowRecord
             /\ h[i].key = NoKeyRow /\ h[i].table = PaddedTable
             /\ i <= bucket => Input(h[i]) = Want(i)
  <2>1. old(i) \in RowRecord /\ old(i).key = NoKeyRow /\ old(i).table = PaddedTable
    <3>1. CASE i <= live
      <4>1. old(i) = Cleared(host[i])
          BY <1>2, <1>8, <3>1
      <4>2. QED
          BY <1>3, <4>1, ClearedRow
    <3>2. CASE ~(i <= live)
      <4>1. old(i) = host[i] /\ i > live
          BY <1>2, <3>2
      <4>2. QED
          BY <1>3, <4>1 DEF SpareRowsAreClear
    <3>3. QED
        BY <3>1, <3>2
  <2>2. h[i] = IF i <= bucket THEN Padded(old(i)) ELSE old(i)
      BY <1>2, <1>4, <1>8
  <2>3. Want(i) = PaddedInput
      BY <1>8 DEF Want
  <2> HIDE DEF old
  <2>4. /\ Padded(old(i)) \in RowRecord
        /\ Padded(old(i)).key = NoKeyRow /\ Padded(old(i)).table = PaddedTable
        /\ Input(Padded(old(i))) = PaddedInput
      BY <2>1, PaddedRow
  <2>5. QED
      BY <2>1, <2>2, <2>3, <2>4
<1>9. \A i \in Row : i <= N \/ i > N
    BY <1>2
<1>10. h \in [Row -> RowRecord]
    BY <1>5, <1>7, <1>8, <1>9
<1>11. KeysAreLives(h, kv, num_preemptions)
  <2>1. SUFFICES ASSUME NEW i \in Row, NEW s \in SeqId, NEW e \in Nat, h[i].key = <<s, e>>
                 PROVE  /\ e <= num_preemptions[s]
                        /\ Holds(kv, s) /\ StagesTable(h[i], kv, s)
      BY DEF KeysAreLives
  <2>2. i <= N
      BY <1>8, <1>9, <2>1, PairIsNoEmptyRow
  <2>3. /\ h[i].key = <<b[i], num_preemptions[b[i]]>> /\ Holds(kv, b[i])
        /\ StagesTable(h[i], kv, b[i])
      BY <1>7, <2>2 DEF RowKey
  <2>4. s = b[i] /\ e = num_preemptions[s]
      BY <2>1, <2>3
  <2>5. QED
      BY <2>3, <2>4
<1>12. SpareRowsAreClear(h, N)
    BY <1>8 DEF SpareRowsAreClear
<1>13. \A i \in 1 .. bucket : Input(h[i]) = Want(i)
  <2>1. TAKE i \in 1 .. bucket
  <2>2. i \in Row /\ i <= bucket
      BY <1>2
  <2>3. QED
      BY <1>7, <1>8, <1>9, <2>2
<1>14. [i \in 1 .. bucket |-> Input(h[i])] = [i \in 1 .. bucket |-> Want(i)]
    BY <1>13
<1>15. QED
    BY <1>6, <1>10, <1>11, <1>12, <1>14 DEF h, bucket

-----------------------------------------------------------------------------
(* Between steps the scheduler moves on.                                   *)

\* A sequence that is given blocks keeps those it has, and so do the others.
LEMMA AllocateKeepsHolders ==
    ASSUME Inv, NEW s \in SeqId, KVAllocate(s)
    PROVE  \A x : Holds(kv, x) => Holds(kv', x)
<1> DEFINE hits == GetComputedBlocks(kv, s, seqs[s])
           n == Len(seqs[s].token_ids) - seqs[s].num_computed_tokens
                    - Len(hits) * BlockSize
<1>1. kv' = AllocateSlots(kv, s, seqs[s], n, hits)
    BY DEF KVAllocate
<1>2. LegalAllocation(kv, seqs, s, n, hits)
    BY DEF KVAllocate, LegalAllocation
<1> HIDE DEF n, hits
<1>3. KVInv(kv) /\ seqs \in [SeqId -> SeqRecord] /\ seqs[s].token_ids # << >>
    BY DEF Inv
<1>4. ExtendsItsTable(kv, s, seqs[s], n, hits)
    BY <1>2, <1>3, LegalAllocationTables
<1>5. PICK popped \in Seq(Block) : AllocatedAs(kv, kv', s, seqs[s], hits, popped)
    BY <1>1, <1>4 DEF ExtendsItsTable
<1>6. DOMAIN kv'.request_blocks = DOMAIN kv.request_blocks \cup {s}
    BY <1>5 DEF AllocatedAs
<1>7. QED
    BY <1>6 DEF Holds

\* A row stays right as its sequence's table grows.
LEMMA GrowthKeepsStaging ==
    ASSUME NEW k, KVInv(k), NEW k2, KVInv(k2), NEW s \in SeqId, NEW row \in RowRecord,
           Holds(k, s), Holds(k2, s), IsPrefix(BlockTable(k, s), BlockTable(k2, s)),
           StagesTable(row, k, s)
    PROVE  StagesTable(row, k2, s)
<1> DEFINE t == BlockTable(k, s)
           t2 == BlockTable(k2, s)
<1>1. t \in Seq(Block) /\ t2 \in Seq(Block)
    BY TablesAreSequences
<1>2. Len(t) <= Len(t2) /\ \A j \in 1 .. Len(t) : t2[j] = t[j]
    BY <1>1 DEF IsPrefix
<1>3. row.blocks \in Nat /\ row.blocks <= Len(t)
    BY DEF RowRecord, StagesTable
<1>4. \A j \in 1 .. MaxBlocks : row.table[j] = IF j <= row.blocks THEN t[j] ELSE DummyBlock
    BY DEF StagesTable
<1> HIDE DEF t, t2
<1>5. \A j \in 1 .. MaxBlocks : row.table[j] = IF j <= row.blocks THEN t2[j] ELSE DummyBlock
    BY <1>1, <1>2, <1>3, <1>4, WidthAssumption
<1>6. row.blocks <= Len(t2)
    BY <1>1, <1>2, <1>3
<1>7. QED
    BY <1>5, <1>6 DEF StagesTable, t2

\* The rows keep their meaning while the scheduler moves on: tables grow under
\* their keys, and a sequence that gives its blocks up begins a new life.
LEMMA SchedulerKeepsKeys ==
    ASSUME Inv, DecodeTypes, KeysAreLives(host, kv, num_preemptions), SchedulerMoves
    PROVE  /\ KVNext
           /\ num_preemptions' \in [SeqId -> Nat]
           /\ KeysAreLives(host, kv', num_preemptions')
<1>1. \/ \E s \in SeqId :
            \/ KVAllocate(s) /\ UNCHANGED num_preemptions
            \/ (\E t \in Token : KVCompute(s, t)) /\ UNCHANGED num_preemptions
            \/ KVFree(s, << >>) /\ num_preemptions' = Preemptions({s})
      \/ KVReset /\ num_preemptions' = Preemptions(SeqId)
    BY DEF SchedulerMoves, BeginAgain
<1>2. KVNext
    BY <1>1 DEF KVNext
<1>3. Inv'
    BY <1>2, KVNextInv
<1>4. KVInv(kv) /\ KVInv(kv') /\ num_preemptions \in [SeqId -> Nat]
      /\ \A i \in Row : host[i] \in RowRecord
    BY <1>3 DEF Inv, DecodeTypes
<1>5. ASSUME NEW s \in SeqId, KVAllocate(s), UNCHANGED num_preemptions
      PROVE  /\ num_preemptions' \in [SeqId -> Nat]
             /\ KeysAreLives(host, kv', num_preemptions')
  <2>1. \A x : Holds(kv, x) => Holds(kv', x)
      BY <1>5, AllocateKeepsHolders
  <2>2. \A x \in DOMAIN kv.request_blocks \cap DOMAIN kv'.request_blocks :
            IsPrefix(kv.request_blocks[x], kv'.request_blocks[x])
      BY <1>2, TablesGrow
  <2>3. \A x : Holds(kv, x) => IsPrefix(BlockTable(kv, x), BlockTable(kv', x))
      BY <2>1, <2>2 DEF Holds, BlockTable
  <2>4. \A i \in Row, x \in SeqId :
            Holds(kv, x) /\ StagesTable(host[i], kv, x) => StagesTable(host[i], kv', x)
      BY <1>4, <2>1, <2>3, GrowthKeepsStaging
  <2>5. KeysAreLives(host, kv', num_preemptions)
      BY <2>1, <2>4 DEF KeysAreLives
  <2>6. QED
      BY <1>2, <1>4, <1>5, <2>5
<1>6. ASSUME NEW s \in SeqId, NEW t \in Token, KVCompute(s, t), UNCHANGED num_preemptions
      PROVE  /\ num_preemptions' \in [SeqId -> Nat]
             /\ KeysAreLives(host, kv', num_preemptions')
    BY <1>4, <1>6 DEF KVCompute
<1>7. ASSUME NEW s \in SeqId, KVFree(s, << >>), num_preemptions' = Preemptions({s})
      PROVE  /\ num_preemptions' \in [SeqId -> Nat]
             /\ KeysAreLives(host, kv', num_preemptions')
  <2>1. /\ num_preemptions' \in [SeqId -> Nat]
        /\ num_preemptions'[s] = num_preemptions[s] + 1
        /\ \A x \in SeqId \ {s} : num_preemptions'[x] = num_preemptions[x]
      BY <1>4, <1>7 DEF Preemptions
  <2>2. kv' = Free(kv, s)
      BY <1>7 DEF KVFree
  <2>3. kv'.request_blocks = Restrict(kv.request_blocks, DOMAIN kv.request_blocks \ {s})
      BY <1>4, <2>2 DEF Free, KVInv, KVTypes, KVFields
  <2>4. \A x \in SeqId \ {s} : /\ Holds(kv', x) <=> Holds(kv, x)
                               /\ BlockTable(kv', x) = BlockTable(kv, x)
      BY <2>3 DEF Restrict, Holds, BlockTable
  <2>5. \A i \in Row, x \in SeqId \ {s} :
            StagesTable(host[i], kv, x) => StagesTable(host[i], kv', x)
      BY <2>4 DEF StagesTable
  <2>6. SUFFICES ASSUME NEW i \in Row, NEW x \in SeqId, NEW e \in Nat, host[i].key = <<x, e>>
                 PROVE  /\ e <= num_preemptions'[x]
                        /\ e = num_preemptions'[x] => Holds(kv', x) /\ StagesTable(host[i], kv', x)
      BY <2>1 DEF KeysAreLives
  <2>7. /\ e <= num_preemptions[x]
        /\ e = num_preemptions[x] => Holds(kv, x) /\ StagesTable(host[i], kv, x)
      BY <2>6 DEF KeysAreLives
  <2>8. CASE x = s
    <3>1. num_preemptions[s] \in Nat
        BY <1>4
    <3>2. QED
        BY <2>1, <2>7, <2>8, <3>1
  <2>9. CASE x # s
      BY <2>1, <2>4, <2>5, <2>7, <2>9
  <2>10. QED
      BY <2>8, <2>9
<1>8. ASSUME KVReset, num_preemptions' = Preemptions(SeqId)
      PROVE  /\ num_preemptions' \in [SeqId -> Nat]
             /\ KeysAreLives(host, kv', num_preemptions')
  <2>1. /\ num_preemptions' \in [SeqId -> Nat]
        /\ \A x \in SeqId : num_preemptions'[x] = num_preemptions[x] + 1
      BY <1>4, <1>8 DEF Preemptions
  <2>2. SUFFICES ASSUME NEW i \in Row, NEW x \in SeqId, NEW e \in Nat, host[i].key = <<x, e>>
                 PROVE  e <= num_preemptions'[x] /\ e # num_preemptions'[x]
      BY <2>1 DEF KeysAreLives
  <2>3. e <= num_preemptions[x] /\ num_preemptions[x] \in Nat
      BY <1>4, <2>2 DEF KeysAreLives
  <2>4. QED
      BY <2>1, <2>3
<1>9. QED
    BY <1>1, <1>2, <1>5, <1>6, <1>7, <1>8

-----------------------------------------------------------------------------
(* The stream.                                                             *)

\* Work that is queued behind what is there.
LEMMA QueuedBehind ==
    ASSUME NEW T, NEW q \in Seq(T), NEW e \in T
    PROVE  LET q2 == Append(q, e)
           IN  /\ q2 \in Seq(T)
               /\ DOMAIN q2 = DOMAIN q \cup {Len(q) + 1}
               /\ \A k \in DOMAIN q : q2[k] = q[k]
               /\ q2[Len(q) + 1] = e
               /\ \A k \in DOMAIN q : \A j \in 1 .. k : j \in DOMAIN q
OBVIOUS

\* Work that is taken from the front.
LEMMA TakenFromFront ==
    ASSUME NEW T, NEW q \in Seq(T), q # << >>
    PROVE  LET q2 == Tail(q)
           IN  /\ q2 \in Seq(T)
               /\ 1 \in DOMAIN q /\ q[1] = Head(q)
               /\ \A k \in DOMAIN q2 : k + 1 \in DOMAIN q /\ q2[k] = q[k + 1]
               /\ \A k \in DOMAIN q : k # 1 => k - 1 \in DOMAIN q2
               /\ \A k \in DOMAIN q2 : \A j \in 1 .. k : j \in DOMAIN q2
OBVIOUS

\* Work that is taken from anywhere.
LEMMA TakenFromAnywhere ==
    ASSUME NEW T, NEW q \in Seq(T), NEW i \in DOMAIN q
    PROVE  LET q2 == RemoveAt(q, i)
           IN  /\ q2 \in Seq(T)
               /\ \A k \in DOMAIN q2 : \E j \in DOMAIN q : q2[k] = q[j]
<1> DEFINE front == SubSeq(q, 1, i - 1)
           back == SubSeq(q, i + 1, Len(q))
<1>1. i \in Nat \ {0} /\ i <= Len(q) /\ Len(q) \in Nat /\ DOMAIN q = 1 .. Len(q)
    OBVIOUS
<1>2. /\ front \in Seq(T) /\ Len(front) = i - 1
      /\ \A k \in 1 .. i - 1 : front[k] = q[k]
    BY <1>1
<1>3. /\ back \in Seq(T) /\ Len(back) = Len(q) - i
      /\ \A k \in 1 .. Len(q) - i : back[k] = q[i + k]
    BY <1>1
<1>4. RemoveAt(q, i) = front \o back
    BY DEF RemoveAt
<1> HIDE DEF front, back
<1> DEFINE rest == front \o back
<1>5. /\ rest \in Seq(T) /\ Len(rest) = Len(q) - 1
      /\ \A k \in 1 .. Len(q) - 1 :
            rest[k] = IF k <= i - 1 THEN front[k] ELSE back[k - (i - 1)]
  <2>1. /\ rest \in Seq(T) /\ Len(rest) = Len(front) + Len(back)
        /\ \A k \in 1 .. Len(front) + Len(back) :
              rest[k] = IF k <= Len(front) THEN front[k] ELSE back[k - Len(front)]
      BY <1>2, <1>3, ConcatProperties
  <2>2. Len(front) + Len(back) = Len(q) - 1
      BY <1>1, <1>2, <1>3
  <2>3. QED
      BY <1>2, <2>1, <2>2
<1> HIDE DEF rest
<1>6. \A k \in 1 .. Len(q) - 1 : \E j \in 1 .. Len(q) : rest[k] = q[j]
  <2>1. TAKE k \in 1 .. Len(q) - 1
  <2>2. CASE k <= i - 1
    <3>1. k \in 1 .. i - 1 /\ k \in 1 .. Len(q)
        BY <1>1, <2>2
    <3>2. rest[k] = q[k]
        BY <1>2, <1>5, <2>2, <3>1
    <3>3. QED
        BY <3>1, <3>2
  <2>3. CASE k > i - 1
    <3>1. k - (i - 1) \in 1 .. Len(q) - i /\ i + (k - (i - 1)) = k + 1 /\ k + 1 \in 1 .. Len(q)
        BY <1>1, <2>3
    <3>2. rest[k] = back[k - (i - 1)]
        BY <1>1, <1>5, <2>3
    <3>3. back[k - (i - 1)] = q[k + 1]
        BY <1>3, <3>1
    <3>4. QED
        BY <3>1, <3>2, <3>3
  <2>4. k <= i - 1 \/ k > i - 1
      BY <1>1
  <2>5. QED
      BY <2>2, <2>3, <2>4
<1>7. DOMAIN rest = 1 .. Len(q) - 1
    BY <1>5
<1>8. RemoveAt(q, i) = rest
    BY <1>4 DEF rest
<1>9. QED
    BY <1>1, <1>5, <1>6, <1>7, <1>8

\* Work whose step has raised stays what it was, and is nobody's.
LEMMA AbandonedStays ==
    ASSUME NEW q \in Seq(Work), NEW beside \in Seq(WarmUpWork)
    PROVE  /\ Abandoned(q) \in Seq(Work) /\ DOMAIN Abandoned(q) = DOMAIN q
           /\ \A k \in DOMAIN q : ~Abandoned(q)[k].current
           /\ Abandoned(beside) \in Seq(WarmUpWork) /\ DOMAIN Abandoned(beside) = DOMAIN beside
           /\ \A i \in DOMAIN beside : /\ ~Abandoned(beside)[i].current
                                       /\ Abandoned(beside)[i].key = beside[i].key
<1> DEFINE given(w) == [w EXCEPT !.current = FALSE]
<1>1. \A w \in Work : given(w) \in Work /\ given(w).current = FALSE
    BY DEF Work
<1>2. \A w \in WarmUpWork :
          given(w) \in WarmUpWork /\ given(w).current = FALSE /\ given(w).key = w.key
    BY DEF WarmUpWork
<1>3. /\ Abandoned(q) = [k \in DOMAIN q |-> given(q[k])]
      /\ Abandoned(beside) = [k \in DOMAIN beside |-> given(beside[k])]
    BY DEF Abandoned
<1>4. /\ DOMAIN q = 1 .. Len(q) /\ Len(q) \in Nat /\ \A k \in DOMAIN q : q[k] \in Work
      /\ DOMAIN beside = 1 .. Len(beside) /\ Len(beside) \in Nat
      /\ \A k \in DOMAIN beside : beside[k] \in WarmUpWork
    OBVIOUS
<1> HIDE DEF given
<1>5. QED
    BY <1>1, <1>2, <1>3, <1>4

\* A warm-up waits for one piece of work less.
LEMMA AwaitingLess ==
    ASSUME NEW beside \in Seq(WarmUpWork)
    PROVE  /\ Awaiting(beside) \in Seq(WarmUpWork) /\ DOMAIN Awaiting(beside) = DOMAIN beside
           /\ \A i \in DOMAIN beside : /\ Awaiting(beside)[i].key = beside[i].key
                                       /\ Awaiting(beside)[i].current = beside[i].current
                                       /\ Awaiting(beside)[i].after >= beside[i].after - 1
<1> DEFINE next(w) == [w EXCEPT !.after = IF @ = 0 THEN 0 ELSE @ - 1]
<1>1. \A w \in WarmUpWork : /\ next(w) \in WarmUpWork /\ next(w).key = w.key
                            /\ next(w).current = w.current /\ next(w).after >= w.after - 1
    BY DEF WarmUpWork
<1>2. Awaiting(beside) = [i \in DOMAIN beside |-> next(beside[i])]
    BY DEF Awaiting
<1>3. /\ DOMAIN beside = 1 .. Len(beside) /\ Len(beside) \in Nat
      /\ \A i \in DOMAIN beside : beside[i] \in WarmUpWork
    OBVIOUS
<1> HIDE DEF next
<1>4. QED
    BY <1>1, <1>2, <1>3

\* What a batch asks for depends on the manager and the sequences only.
LEMMA SameWork ==
    ASSUME NEW b, batch' = b, UNCHANGED kvVars
    PROVE  /\ GraphKey(batch)' = GraphKey(b)
           /\ Rebuilt(batch)' = Rebuilt(b)
           /\ BatchBucket(batch)' = BatchBucket(b)
           /\ Decodable(batch)' <=> Decodable(b)
<1>1. kv' = kv /\ seqs' = seqs
    BY DEF kvVars
<1>2. BatchBucket(batch)' = BatchBucket(b)
    BY DEF BatchBucket, CeilToBucket
<1>3. GraphKey(batch)' = GraphKey(b)
    BY <1>1, <1>2 DEF GraphKey, CeilToBucket
<1>4. Rebuilt(batch)' = Rebuilt(b)
    BY <1>1, <1>2 DEF Rebuilt, BlockTable, Holds, SlotMapping, PaddedInput, PaddedTable
<1>5. Decodable(batch)' <=> Decodable(b)
    BY <1>1 DEF Decodable, DecodesNow, CanGraphDecode, Holds, BlockTable, Row, MaxBatch, CeilDiv
<1>6. QED
    BY <1>2, <1>3, <1>4, <1>5

-----------------------------------------------------------------------------
(* The invariant.                                                          *)

LEMMA DecodeInitInv == DecodeInit => DecodeInv
<1> SUFFICES ASSUME DecodeInit PROVE DecodeInv
    OBVIOUS
<1> DEFINE empty == [ key |-> NoKeyRow, blocks |-> 0, table |-> PaddedTable,
                      input_id |-> PadToken, position |-> 0, seq_len |-> 0,
                      slot |-> DummyBlock * BlockSize ]
<1>1. Inv
    BY KVInitInv DEF DecodeInit
<1>2. empty \in RowRecord
    BY PaddedTableType DEF RowRecord
<1>3. host = [i \in Row |-> empty]
    BY DEF DecodeInit
<1>4. DecodeTypes
  <2>1. host \in [Row -> RowRecord]
      BY <1>2, <1>3
  <2>2. /\ num_preemptions = [s \in SeqId |-> 0] /\ live = 0 /\ stream = << >>
        /\ side = << >> /\ launch = "idle"
      BY DEF DecodeInit
  <2>3. QED
      BY <2>1, <2>2 DEF DecodeTypes
<1>5. \A i \in Row : host[i].key = NoKeyRow /\ host[i].table = PaddedTable
    BY <1>3
<1>6. KeysAreLives(host, kv, num_preemptions) /\ SpareRowsAreClear(host, live)
    BY <1>5, PairIsNoEmptyRow DEF KeysAreLives, SpareRowsAreClear
<1>7. BatchInFlight /\ ForwardsAreOfTheStep /\ CapturedIsQuiet /\ CopyComesFirst
    BY DEF DecodeInit, BatchInFlight, ForwardsAreOfTheStep, CapturedIsQuiet, CopyComesFirst
<1>8. QED
    BY <1>1, <1>4, <1>6, <1>7 DEF DecodeInv

\* The parts that speak of the manager and the rows are kept by a step that
\* leaves both alone.
LEMMA RowsAloneKept ==
    ASSUME DecodeInv, UNCHANGED <<kvVars, num_preemptions, hostVars>>
    PROVE  /\ Inv'
           /\ KeysAreLives(host, kv, num_preemptions)'
           /\ SpareRowsAreClear(host, live)'
           /\ num_preemptions' \in [SeqId -> Nat]
           /\ host' \in [Row -> RowRecord]
           /\ live' \in Nat
<1>1. Inv' /\ kv' = kv
    BY KVNextInv DEF DecodeInv, kvVars
<1>2. host' = host /\ live' = live /\ num_preemptions' = num_preemptions
    BY DEF hostVars
<1>3. KeysAreLives(host, kv, num_preemptions)'
    BY <1>1, <1>2 DEF DecodeInv, KeysAreLives, Holds, StagesTable, BlockTable, Row, MaxBatch
<1>4. SpareRowsAreClear(host, live)'
    BY <1>2 DEF DecodeInv, SpareRowsAreClear, PaddedTable, Row, MaxBatch
<1>5. QED
    BY <1>1, <1>2, <1>3, <1>4 DEF DecodeInv, DecodeTypes

\* The step in flight stays right while the host arrays and the tables rest.
LEMMA StepAloneKept ==
    ASSUME DecodeInv, UNCHANGED <<kvVars, num_preemptions, hostVars, batch>>,
           launch' = "idle" <=> launch = "idle"
    PROVE  /\ BatchInFlight'
           /\ GraphKey(batch)' = GraphKey(batch) /\ Rebuilt(batch)' = Rebuilt(batch)
<1>1. /\ GraphKey(batch)' = GraphKey(batch) /\ Rebuilt(batch)' = Rebuilt(batch)
      /\ BatchBucket(batch)' = BatchBucket(batch)
      /\ Decodable(batch)' <=> Decodable(batch)
    BY SameWork
<1>2. host' = host
    BY DEF hostVars
<1>3. [i \in 1 .. BatchBucket(batch) |-> Input(host[i])]' =
          [i \in 1 .. BatchBucket(batch) |-> Input(host[i])]
    BY <1>1, <1>2 DEF Input
<1>4. BatchInFlight'
    BY <1>1, <1>3 DEF DecodeInv, BatchInFlight
<1>5. QED
    BY <1>1, <1>4

\* The step that stages its batch and queues the copy.
LEMMA PrepareInv ==
    ASSUME DecodeInv, NEW n \in Row, NEW b \in [1 .. n -> SeqId],
           \A i \in 1 .. n : DecodesNow(b[i]), Prepare(b)
    PROVE  DecodeInv'
<1> DEFINE h == Updated(b, BatchBucket(b))
           work == Copy(GraphKey(b))
<1>1. Decodable(b)
    BY DEF Prepare, Decodable
<1>2. Inv /\ DecodeTypes
    BY DEF DecodeInv
<1>3. /\ h \in [Row -> RowRecord]
      /\ KeysAreLives(h, kv, num_preemptions)
      /\ SpareRowsAreClear(h, Len(b))
      /\ [i \in 1 .. BatchBucket(b) |-> Input(h[i])] = Rebuilt(b)
    BY <1>1, <1>2, UpdatedRows DEF DecodeInv
<1>4. /\ Len(b) \in Nat /\ GraphKey(b) \in Nat \X Nat
    BY <1>1, <1>2, BatchFitsBucket DEF Row
<1>5. /\ batch' = b /\ host' = h /\ live' = Len(b) /\ launch = "idle"
      /\ launch' = "prepared" /\ stream' = Append(stream, work)
      /\ side' = side /\ captured' = captured
      /\ UNCHANGED <<kvVars, num_preemptions>>
    BY DEF Prepare
<1> HIDE DEF h
<1>6. Inv' /\ kv' = kv
    BY <1>2, <1>5, KVNextInv DEF kvVars
<1>7. work \in Work /\ work.op = "copy" /\ work.key = GraphKey(b)
    BY <1>4 DEF Copy, Work
<1> HIDE DEF work
<1>8. /\ stream' \in Seq(Work)
      /\ DOMAIN stream' = DOMAIN stream \cup {Len(stream) + 1}
      /\ \A k \in DOMAIN stream : stream'[k] = stream[k]
      /\ stream'[Len(stream) + 1] = work
    BY <1>2, <1>5, <1>7, QueuedBehind DEF DecodeTypes
<1>9. /\ \A k \in DOMAIN stream : ~(stream[k].op = "forward" /\ stream[k].current)
      /\ \A i \in DOMAIN side : ~side[i].current
    BY <1>5 DEF DecodeInv, ForwardsAreOfTheStep
<1>10. \A k \in DOMAIN stream' : ~(stream'[k].op = "forward" /\ stream'[k].current)
    BY <1>7, <1>8, <1>9
<1>11. /\ GraphKey(batch)' = GraphKey(b) /\ Rebuilt(batch)' = Rebuilt(b)
       /\ BatchBucket(batch)' = BatchBucket(b) /\ Decodable(batch)'
    BY <1>1, <1>5, SameWork
<1>12. DecodeTypes'
    BY <1>2, <1>3, <1>4, <1>5, <1>8 DEF DecodeTypes
<1>13. KeysAreLives(host, kv, num_preemptions)' /\ SpareRowsAreClear(host, live)'
  <2>1. KeysAreLives(host', kv', num_preemptions')
      BY <1>3, <1>5, <1>6
  <2>2. SpareRowsAreClear(host', live')
      BY <1>3, <1>5
  <2>3. QED
      BY <2>1, <2>2
<1>14. BatchInFlight'
  <2>1. [i \in 1 .. BatchBucket(batch) |-> Input(host[i])]' = Rebuilt(batch)'
      BY <1>3, <1>5, <1>11 DEF Input
  <2>2. QED
      BY <1>5, <1>11, <2>1 DEF BatchInFlight
<1>15. ForwardsAreOfTheStep' /\ CapturedIsQuiet'
    BY <1>5, <1>9, <1>10 DEF DecodeInv, ForwardsAreOfTheStep, CapturedIsQuiet
<1>16. CopyComesFirst'
  <2> DEFINE k == Len(stream) + 1
  <2>1. /\ k \in DOMAIN stream' /\ stream'[k].op = "copy"
        /\ stream'[k].key = GraphKey(batch)'
      BY <1>7, <1>8, <1>11
  <2>2. \A j \in 1 .. k : j \in DOMAIN stream'
      BY <1>2, <1>8 DEF DecodeTypes
  <2>3. CopyAhead(stream', side', GraphKey(batch)')
      BY <1>5, <1>9, <1>10, <2>1, <2>2 DEF CopyAhead
  <2>4. QED
      BY <2>3 DEF CopyComesFirst
<1>17. QED
    BY <1>6, <1>12, <1>13, <1>14, <1>15, <1>16 DEF DecodeInv

\* A warm-up is queued behind the copy, on a stream of its own.
LEMMA WarmUpInv ==
    ASSUME DecodeInv, WarmUp
    PROVE  DecodeInv'
<1> DEFINE work == [key |-> GraphKey(batch), after |-> Ahead, current |-> TRUE]
<1>1. /\ launch = "prepared" /\ launch' = launch /\ GraphKey(batch) \notin captured
      /\ side' = Append(side, work)
      /\ UNCHANGED <<kvVars, num_preemptions, hostVars, stream, buffer, captured, batch>>
    BY DEF WarmUp
<1>2. DecodeTypes /\ Inv /\ Decodable(batch)
    BY <1>1 DEF DecodeInv, BatchInFlight
<1>3. GraphKey(batch) \in Nat \X Nat /\ Len(stream) \in Nat /\ DOMAIN stream = 1 .. Len(stream)
    BY <1>2, BatchFitsBucket DEF DecodeTypes
<1>4. /\ work \in WarmUpWork /\ work.key = GraphKey(batch) /\ work.after = Len(stream)
    BY <1>3 DEF WarmUpWork, Ahead
<1> HIDE DEF work
<1>5. /\ side' \in Seq(WarmUpWork)
      /\ DOMAIN side' = DOMAIN side \cup {Len(side) + 1}
      /\ \A i \in DOMAIN side : side'[i] = side[i]
      /\ side'[Len(side) + 1] = work
    BY <1>1, <1>2, <1>4, QueuedBehind DEF DecodeTypes
<1>6. /\ Inv' /\ KeysAreLives(host, kv, num_preemptions)'
      /\ SpareRowsAreClear(host, live)'
      /\ num_preemptions' \in [SeqId -> Nat] /\ host' \in [Row -> RowRecord] /\ live' \in Nat
    BY <1>1, RowsAloneKept
<1>7. /\ BatchInFlight'
      /\ GraphKey(batch)' = GraphKey(batch) /\ Rebuilt(batch)' = Rebuilt(batch)
    BY <1>1, StepAloneKept
<1>8. DecodeTypes'
    BY <1>1, <1>2, <1>5, <1>6 DEF DecodeTypes
<1>9. ForwardsAreOfTheStep'
    BY <1>1, <1>4, <1>5, <1>7 DEF DecodeInv, ForwardsAreOfTheStep
<1>10. CapturedIsQuiet'
    BY <1>1, <1>4, <1>5, <1>7 DEF DecodeInv, CapturedIsQuiet
<1>11. CopyComesFirst'
  <2>1. CASE buffer = Rebuilt(batch)
      BY <1>1, <1>7, <2>1 DEF CopyComesFirst
  <2>2. CASE buffer # Rebuilt(batch)
    <3>1. CopyAhead(stream, side, GraphKey(batch))
        BY <1>1, <2>2 DEF DecodeInv, CopyComesFirst
    <3>2. CopyAhead(stream, side', GraphKey(batch))
        BY <1>3, <1>4, <1>5, <3>1 DEF CopyAhead
    <3>3. QED
        BY <1>1, <1>7, <3>2 DEF CopyComesFirst
  <2>3. QED
      BY <2>1, <2>2
<1>12. QED
    BY <1>6, <1>7, <1>8, <1>9, <1>10, <1>11 DEF DecodeInv

\* The capture finds both streams empty, so the copy has been taken.
LEMMA CapturedInv ==
    ASSUME DecodeInv, Captured
    PROVE  DecodeInv'
<1>1. /\ launch = "prepared" /\ launch' = launch /\ stream = << >> /\ side = << >>
      /\ stream' = stream /\ side' = side /\ buffer' = buffer
      /\ UNCHANGED <<kvVars, num_preemptions, hostVars, batch>>
    BY DEF Captured
<1>2. /\ Inv' /\ KeysAreLives(host, kv, num_preemptions)'
      /\ SpareRowsAreClear(host, live)'
      /\ num_preemptions' \in [SeqId -> Nat] /\ host' \in [Row -> RowRecord] /\ live' \in Nat
    BY <1>1, RowsAloneKept
<1>3. /\ BatchInFlight'
      /\ GraphKey(batch)' = GraphKey(batch) /\ Rebuilt(batch)' = Rebuilt(batch)
    BY <1>1, StepAloneKept
<1>4. DecodeTypes'
    BY <1>1, <1>2 DEF DecodeInv, DecodeTypes
<1>5. ForwardsAreOfTheStep' /\ CapturedIsQuiet'
    BY <1>1 DEF ForwardsAreOfTheStep, CapturedIsQuiet
<1>6. buffer = Rebuilt(batch)
    BY <1>1 DEF DecodeInv, CopyComesFirst, CopyAhead
<1>7. CopyComesFirst'
    BY <1>1, <1>3, <1>6 DEF CopyComesFirst
<1>8. QED
    BY <1>2, <1>3, <1>4, <1>5, <1>7 DEF DecodeInv

\* A graph that is captured is replayed behind the copy, and no warm-up of it
\* is left.
LEMMA ReplayInv ==
    ASSUME DecodeInv, Replay
    PROVE  DecodeInv'
<1> DEFINE work == Forward(GraphKey(batch))
<1>1. /\ launch = "prepared" /\ launch' = "replayed" /\ GraphKey(batch) \in captured
      /\ stream' = Append(stream, work) /\ side' = side
      /\ UNCHANGED <<kvVars, num_preemptions, hostVars, buffer, captured, batch>>
    BY DEF Replay
<1>2. DecodeTypes /\ Inv /\ Decodable(batch)
    BY <1>1 DEF DecodeInv, BatchInFlight
<1>3. GraphKey(batch) \in Nat \X Nat
    BY <1>2, BatchFitsBucket
<1>4. work \in Work /\ work.op = "forward" /\ work.key = GraphKey(batch)
    BY <1>3 DEF Forward, Work
<1> HIDE DEF work
<1>5. /\ stream' \in Seq(Work)
      /\ DOMAIN stream' = DOMAIN stream \cup {Len(stream) + 1}
      /\ \A k \in DOMAIN stream : stream'[k] = stream[k]
      /\ stream'[Len(stream) + 1] = work
      /\ \A k \in DOMAIN stream : \A j \in 1 .. k : j \in DOMAIN stream
    BY <1>1, <1>2, <1>4, QueuedBehind DEF DecodeTypes
<1>6. /\ Inv' /\ KeysAreLives(host, kv, num_preemptions)'
      /\ SpareRowsAreClear(host, live)'
      /\ num_preemptions' \in [SeqId -> Nat] /\ host' \in [Row -> RowRecord] /\ live' \in Nat
    BY <1>1, RowsAloneKept
<1>7. /\ BatchInFlight'
      /\ GraphKey(batch)' = GraphKey(batch) /\ Rebuilt(batch)' = Rebuilt(batch)
    BY <1>1, StepAloneKept
<1>8. DecodeTypes'
    BY <1>1, <1>2, <1>5, <1>6 DEF DecodeTypes
<1>9. \A i \in DOMAIN side : side[i].key # GraphKey(batch) /\ ~side[i].current
    BY <1>1 DEF DecodeInv, CapturedIsQuiet, ForwardsAreOfTheStep
<1>10. \A k \in DOMAIN stream : ~(stream[k].op = "forward" /\ stream[k].current)
    BY <1>1 DEF DecodeInv, ForwardsAreOfTheStep
<1>11. ForwardsAreOfTheStep'
    BY <1>1, <1>4, <1>5, <1>7, <1>9, <1>10 DEF ForwardsAreOfTheStep
<1>12. CapturedIsQuiet'
    BY <1>1, <1>7 DEF DecodeInv, CapturedIsQuiet
<1>13. CopyComesFirst'
  <2>1. CASE buffer = Rebuilt(batch)
      BY <1>1, <1>7, <2>1 DEF CopyComesFirst
  <2>2. CASE buffer # Rebuilt(batch)
    <3>1. CopyAhead(stream, side, GraphKey(batch))
        BY <1>1, <2>2 DEF DecodeInv, CopyComesFirst
    <3>2. CopyAhead(stream', side', GraphKey(batch))
        BY <1>1, <1>5, <3>1 DEF CopyAhead
    <3>3. QED
        BY <1>7, <3>2 DEF CopyComesFirst
  <2>3. QED
      BY <2>1, <2>2
<1>14. QED
    BY <1>6, <1>7, <1>8, <1>11, <1>12, <1>13 DEF DecodeInv

\* The device takes the work at the front of the current stream.
LEMMA DeviceInv ==
    ASSUME DecodeInv, DeviceCopies \/ DeviceReplays
    PROVE  DecodeInv'
<1>1. /\ Inv /\ DecodeTypes /\ stream # << >> /\ stream' = Tail(stream)
      /\ side' = Awaiting(side) /\ captured' = captured
      /\ batch' = batch /\ launch' = launch
      /\ UNCHANGED <<kvVars, num_preemptions, hostVars>>
    BY DEF DecodeInv, DeviceCopies, DeviceReplays, stepVars
<1>2. /\ stream' \in Seq(Work)
      /\ 1 \in DOMAIN stream /\ stream[1] = Head(stream)
      /\ \A k \in DOMAIN stream' : k + 1 \in DOMAIN stream /\ stream'[k] = stream[k + 1]
      /\ \A k \in DOMAIN stream : k # 1 => k - 1 \in DOMAIN stream'
      /\ \A k \in DOMAIN stream' : \A j \in 1 .. k : j \in DOMAIN stream'
    BY <1>1, TakenFromFront DEF DecodeTypes
<1>3. DOMAIN stream \subseteq Nat /\ DOMAIN stream' \subseteq Nat
    BY <1>1, <1>2 DEF DecodeTypes
<1>4. /\ side' \in Seq(WarmUpWork) /\ DOMAIN side' = DOMAIN side
      /\ \A i \in DOMAIN side : /\ side'[i].key = side[i].key
                                /\ side'[i].current = side[i].current
                                /\ side'[i].after >= side[i].after - 1
    BY <1>1, AwaitingLess DEF DecodeTypes
<1>5. \A i \in DOMAIN side : side[i].after \in Nat /\ side'[i].after \in Nat
  <2>1. \A i \in DOMAIN side : side[i] \in WarmUpWork /\ side'[i] \in WarmUpWork
      BY <1>1, <1>4 DEF DecodeTypes
  <2>2. QED
      BY <2>1 DEF WarmUpWork
<1>6. /\ Inv' /\ KeysAreLives(host, kv, num_preemptions)'
      /\ SpareRowsAreClear(host, live)'
      /\ num_preemptions' \in [SeqId -> Nat] /\ host' \in [Row -> RowRecord] /\ live' \in Nat
    BY <1>1, RowsAloneKept
<1>7. /\ BatchInFlight'
      /\ GraphKey(batch)' = GraphKey(batch) /\ Rebuilt(batch)' = Rebuilt(batch)
    BY <1>1, StepAloneKept
<1>8. DecodeTypes'
    BY <1>1, <1>2, <1>4, <1>6 DEF DecodeTypes
<1>9. ForwardsAreOfTheStep' /\ CapturedIsQuiet'
  <2>1. \A k \in DOMAIN stream' : stream'[k].op = "forward" /\ stream'[k].current =>
            launch' = "replayed" /\ stream'[k].key = GraphKey(batch)'
      BY <1>1, <1>2, <1>7 DEF DecodeInv, ForwardsAreOfTheStep
  <2>2. \A i \in DOMAIN side' : side'[i].current =>
            launch' = "prepared" /\ side'[i].key = GraphKey(batch)'
      BY <1>1, <1>4, <1>7 DEF DecodeInv, ForwardsAreOfTheStep
  <2>3. CapturedIsQuiet'
      BY <1>1, <1>4, <1>7 DEF DecodeInv, CapturedIsQuiet
  <2>4. QED
      BY <2>1, <2>2, <2>3 DEF ForwardsAreOfTheStep
<1>10. CopyComesFirst'
  <2>1. SUFFICES ASSUME launch # "idle"
                 PROVE  \/ buffer' = Rebuilt(batch)
                        \/ CopyAhead(stream', side', GraphKey(batch))
      BY <1>1, <1>7 DEF CopyComesFirst
  <2>2. ASSUME NEW k \in DOMAIN stream, k # 1,
               stream[k].op = "copy", stream[k].key = GraphKey(batch),
               \A j \in 1 .. k : ~(stream[j].op = "forward" /\ stream[j].current),
               \A i \in DOMAIN side : side[i].current => k <= side[i].after
        PROVE  CopyAhead(stream', side', GraphKey(batch))
    <3>1. k \in Nat /\ k - 1 \in DOMAIN stream' /\ (k - 1) + 1 = k
        BY <1>2, <1>3, <2>2
    <3>2. stream'[k - 1] = stream[k]
        BY <1>2, <3>1
    <3>3. \A j \in 1 .. k - 1 : /\ j \in DOMAIN stream' /\ j + 1 \in 1 .. k
        BY <1>2, <3>1
    <3>4. \A i \in DOMAIN side' : side'[i].current => k - 1 <= side'[i].after
        BY <1>4, <1>5, <2>2, <3>1
    <3>5. \A j \in 1 .. k - 1 : ~(stream'[j].op = "forward" /\ stream'[j].current)
        BY <1>2, <2>2, <3>3
    <3>6. QED
        BY <2>2, <3>1, <3>2, <3>4, <3>5 DEF CopyAhead
  <2>3. buffer = Rebuilt(batch) \/ CopyAhead(stream, side, GraphKey(batch))
      BY <2>1 DEF DecodeInv, CopyComesFirst
  <2>4. CASE DeviceReplays
    <3>1. buffer' = buffer /\ stream[1].op = "forward"
        BY <1>2, <2>4 DEF DeviceReplays
    <3>2. stream[1].op # "copy"
        BY <3>1
    <3>3. QED
        BY <2>2, <2>3, <3>1, <3>2 DEF CopyAhead
  <2>5. CASE DeviceCopies /\ Head(stream).key = GraphKey(batch)
    <3>1. /\ Decodable(batch)
          /\ [i \in 1 .. BatchBucket(batch) |-> Input(host[i])] = Rebuilt(batch)
        BY <2>1 DEF DecodeInv, BatchInFlight
    <3>2. Len(batch) \in Row
        BY <1>1, <3>1, BatchFitsBucket
    <3>3. batch # << >>
        BY <3>2 DEF Row
    <3>4. buffer' = Rebuilt(batch)
        BY <2>5, <3>1, <3>3 DEF DeviceCopies
    <3>5. QED
        BY <3>4
  <2>6. CASE DeviceCopies /\ Head(stream).key # GraphKey(batch)
    <3>1. buffer' = buffer /\ stream[1].key # GraphKey(batch)
        BY <1>2, <2>6 DEF DeviceCopies
    <3>2. QED
        BY <2>2, <2>3, <3>1 DEF CopyAhead
  <2>7. QED
      BY <2>4, <2>5, <2>6
<1>11. QED
    BY <1>6, <1>7, <1>8, <1>9, <1>10 DEF DecodeInv

\* The device runs a warm-up.
LEMMA DeviceWarmsUpInv ==
    ASSUME DecodeInv, DeviceWarmsUp
    PROVE  DecodeInv'
<1>1. /\ stream' = stream /\ buffer' = buffer /\ captured' = captured
      /\ batch' = batch /\ launch' = launch
      /\ UNCHANGED <<kvVars, num_preemptions, hostVars>>
    BY DEF DeviceWarmsUp, stepVars
<1>2. PICK i \in DOMAIN side : side' = RemoveAt(side, i)
    BY DEF DeviceWarmsUp
<1>3. /\ side' \in Seq(WarmUpWork)
      /\ \A k \in DOMAIN side' : \E j \in DOMAIN side : side'[k] = side[j]
    BY <1>2, TakenFromAnywhere DEF DecodeInv, DecodeTypes
<1>4. /\ Inv' /\ KeysAreLives(host, kv, num_preemptions)'
      /\ SpareRowsAreClear(host, live)'
      /\ num_preemptions' \in [SeqId -> Nat] /\ host' \in [Row -> RowRecord] /\ live' \in Nat
    BY <1>1, RowsAloneKept
<1>5. /\ BatchInFlight'
      /\ GraphKey(batch)' = GraphKey(batch) /\ Rebuilt(batch)' = Rebuilt(batch)
    BY <1>1, StepAloneKept
<1>6. DecodeTypes'
    BY <1>1, <1>3, <1>4 DEF DecodeInv, DecodeTypes
<1>7. ForwardsAreOfTheStep' /\ CapturedIsQuiet'
    BY <1>1, <1>3, <1>5 DEF DecodeInv, ForwardsAreOfTheStep, CapturedIsQuiet
<1>8. CopyComesFirst'
  <2>1. CopyAhead(stream, side, GraphKey(batch)) => CopyAhead(stream, side', GraphKey(batch))
      BY <1>3 DEF CopyAhead
  <2>2. QED
      BY <1>1, <1>5, <2>1 DEF DecodeInv, CopyComesFirst
<1>9. QED
    BY <1>4, <1>5, <1>6, <1>7, <1>8 DEF DecodeInv

\* The host is done with the step, and no forward is the current one.
LEMMA StepEndsInv ==
    ASSUME DecodeInv, launch' = "idle", batch' = << >>, captured' = captured,
           stream' \in Seq(Work), side' \in Seq(WarmUpWork),
           \A k \in DOMAIN stream' : ~(stream'[k].op = "forward" /\ stream'[k].current),
           \A i \in DOMAIN side' : side'[i].key \notin captured /\ ~side'[i].current,
           UNCHANGED <<kvVars, num_preemptions, hostVars>>
    PROVE  DecodeInv'
<1>1. /\ Inv' /\ KeysAreLives(host, kv, num_preemptions)'
      /\ SpareRowsAreClear(host, live)'
      /\ num_preemptions' \in [SeqId -> Nat] /\ host' \in [Row -> RowRecord] /\ live' \in Nat
    BY RowsAloneKept
<1>2. DecodeTypes'
    BY <1>1 DEF DecodeTypes
<1>3. BatchInFlight' /\ CopyComesFirst'
    BY DEF BatchInFlight, CopyComesFirst
<1>4. ForwardsAreOfTheStep' /\ CapturedIsQuiet'
    BY DEF ForwardsAreOfTheStep, CapturedIsQuiet
<1>5. QED
    BY <1>1, <1>2, <1>3, <1>4 DEF DecodeInv

LEMMA SyncInv ==
    ASSUME DecodeInv, Sync
    PROVE  DecodeInv'
<1>1. /\ launch = "replayed" /\ stream = << >> /\ stream' = stream /\ side' = side
      /\ captured' = captured /\ launch' = "idle" /\ batch' = << >>
      /\ UNCHANGED <<kvVars, num_preemptions, hostVars>>
    BY DEF Sync, deviceVars
<1>2. \A i \in DOMAIN side' : side'[i].key \notin captured /\ ~side'[i].current
    BY <1>1 DEF DecodeInv, CapturedIsQuiet, ForwardsAreOfTheStep
<1>3. stream' \in Seq(Work) /\ side' \in Seq(WarmUpWork)
    BY <1>1 DEF DecodeInv, DecodeTypes
<1>4. \A k \in DOMAIN stream' : ~(stream'[k].op = "forward" /\ stream'[k].current)
    BY <1>1
<1>5. QED
    BY <1>1, <1>2, <1>3, <1>4, StepEndsInv

LEMMA StepRaisesInv ==
    ASSUME DecodeInv, StepRaises
    PROVE  DecodeInv'
<1>1. /\ stream' = Abandoned(stream) /\ side' = Abandoned(side)
      /\ captured' = captured /\ launch' = "idle" /\ batch' = << >>
      /\ UNCHANGED <<kvVars, num_preemptions, hostVars>>
    BY DEF StepRaises
<1>2. stream \in Seq(Work) /\ side \in Seq(WarmUpWork)
    BY DEF DecodeInv, DecodeTypes
<1>3. /\ stream' \in Seq(Work) /\ DOMAIN stream' = DOMAIN stream
      /\ \A k \in DOMAIN stream : ~stream'[k].current
      /\ side' \in Seq(WarmUpWork) /\ DOMAIN side' = DOMAIN side
      /\ \A i \in DOMAIN side : ~side'[i].current /\ side'[i].key = side[i].key
    BY <1>1, <1>2, AbandonedStays
<1>4. \A i \in DOMAIN side : side[i].key \notin captured
    BY DEF DecodeInv, CapturedIsQuiet
<1>5. /\ \A k \in DOMAIN stream' : ~(stream'[k].op = "forward" /\ stream'[k].current)
      /\ \A i \in DOMAIN side' : side'[i].key \notin captured /\ ~side'[i].current
    BY <1>3, <1>4
<1>6. QED
    BY <1>1, <1>3, <1>5, StepEndsInv

\* The scheduler moves between two steps only.
LEMMA SchedulerMovesInv ==
    ASSUME DecodeInv, SchedulerMoves
    PROVE  DecodeInv'
<1>1. /\ KVNext /\ num_preemptions' \in [SeqId -> Nat]
      /\ KeysAreLives(host, kv', num_preemptions')
    BY SchedulerKeepsKeys DEF DecodeInv
<1>2. Inv'
    BY <1>1, KVNextInv DEF DecodeInv
<1>3. /\ launch = "idle" /\ launch' = launch /\ batch' = batch
      /\ host' = host /\ live' = live /\ stream' = stream /\ side' = side
      /\ captured' = captured
    BY DEF SchedulerMoves, hostVars, deviceVars, stepVars
<1>4. DecodeTypes'
    BY <1>1, <1>3 DEF DecodeInv, DecodeTypes
<1>5. KeysAreLives(host, kv, num_preemptions)' /\ SpareRowsAreClear(host, live)'
  <2>1. KeysAreLives(host', kv', num_preemptions') /\ SpareRowsAreClear(host', live')
      BY <1>1, <1>3 DEF DecodeInv
  <2>2. QED
      BY <2>1
<1>6. BatchInFlight' /\ CopyComesFirst'
    BY <1>3 DEF DecodeInv, BatchInFlight, CopyComesFirst
<1>7. ForwardsAreOfTheStep' /\ CapturedIsQuiet'
    BY <1>3 DEF DecodeInv, ForwardsAreOfTheStep, CapturedIsQuiet
<1>8. QED
    BY <1>2, <1>4, <1>5, <1>6, <1>7 DEF DecodeInv

LEMMA DecodeNextInv == DecodeInv /\ [DecodeNext]_decodeVars => DecodeInv'
<1> SUFFICES ASSUME DecodeInv, [DecodeNext]_decodeVars PROVE DecodeInv'
    OBVIOUS
<1>1. ASSUME NEW n \in Row, NEW b \in [1 .. n -> SeqId],
             \A i \in 1 .. n : DecodesNow(b[i]), Prepare(b)
      PROVE  DecodeInv'
    BY <1>1, PrepareInv
<1>2. CASE WarmUp
    BY <1>2, WarmUpInv
<1>3. CASE Captured
    BY <1>3, CapturedInv
<1>4. CASE Replay
    BY <1>4, ReplayInv
<1>5. CASE Sync
    BY <1>5, SyncInv
<1>6. CASE StepRaises
    BY <1>6, StepRaisesInv
<1>7. CASE DeviceCopies \/ DeviceReplays
    BY <1>7, DeviceInv
<1>8. CASE DeviceWarmsUp
    BY <1>8, DeviceWarmsUpInv
<1>9. CASE SchedulerMoves
    BY <1>9, SchedulerMovesInv
<1>10. CASE UNCHANGED decodeVars
  <2>1. /\ UNCHANGED <<kvVars, num_preemptions, hostVars, batch>>
        /\ stream' = stream /\ side' = side /\ buffer' = buffer /\ captured' = captured
        /\ launch' = launch
      BY <1>10 DEF decodeVars, deviceVars, stepVars
  <2>2. /\ Inv' /\ KeysAreLives(host, kv, num_preemptions)'
        /\ SpareRowsAreClear(host, live)'
        /\ num_preemptions' \in [SeqId -> Nat] /\ host' \in [Row -> RowRecord] /\ live' \in Nat
      BY <2>1, RowsAloneKept
  <2>3. /\ BatchInFlight'
        /\ GraphKey(batch)' = GraphKey(batch) /\ Rebuilt(batch)' = Rebuilt(batch)
      BY <2>1, StepAloneKept
  <2>4. DecodeTypes'
      BY <2>1, <2>2 DEF DecodeInv, DecodeTypes
  <2>5. ForwardsAreOfTheStep' /\ CapturedIsQuiet' /\ CopyComesFirst'
      BY <2>1, <2>3 DEF DecodeInv, ForwardsAreOfTheStep, CapturedIsQuiet, CopyComesFirst
  <2>6. QED
      BY <2>2, <2>3, <2>4, <2>5 DEF DecodeInv
<1>11. QED
    BY <1>1, <1>2, <1>3, <1>4, <1>5, <1>6, <1>7, <1>8, <1>9, <1>10 DEF DecodeNext

LEMMA DecodeInvAlways == DecodeSpec => []DecodeInv
BY DecodeInitInv, DecodeNextInv, PTL DEF DecodeSpec

-----------------------------------------------------------------------------
(* What it shows.                                                          *)

\* A row that carries a sequence's key holds the first blocks of its table and
\* nothing else, however long ago it was written: (seq_id, num_preemptions)
\* names one table's lifetime.
THEOREM RowKeysAlwaysNameTables == DecodeSpec => []RowKeyNamesTable
<1>1. DecodeInv => RowKeyNamesTable
  <2>1. SUFFICES ASSUME DecodeInv, NEW i \in Row, NEW s \in SeqId, host[i].key = RowKey(s)
                 PROVE  StagesTable(host[i], kv, s)
      BY DEF RowKeyNamesTable, StagesTable
  <2>2. num_preemptions[s] \in Nat
      BY <2>1 DEF DecodeInv, DecodeTypes
  <2>3. QED
      BY <2>1, <2>2 DEF DecodeInv, KeysAreLives, RowKey
<1>2. QED
    BY DecodeInvAlways, <1>1, PTL

\* Editing the host arrays in place gives what building them from scratch
\* would, in every row of the bucket, padding included.
THEOREM StagingAlwaysMatchesRebuild == DecodeSpec => []StagingMatchesRebuild
<1>1. DecodeInv => StagingMatchesRebuild
    BY DEF DecodeInv, BatchInFlight, StagingMatchesRebuild
<1>2. QED
    BY DecodeInvAlways, <1>1, PTL

\* A forward of the step in flight, warm-up or replay, finds the inputs of its
\* step in the static buffers, although the copies are asynchronous and steps
\* that raised may have left copies, warm-ups and replays queued; and the tokens
\* the host reads back are the replay's.
THEOREM GraphsAlwaysReadTheirStep == DecodeSpec => []GraphReadsThisStep
<1>1. ASSUME DecodeInv, launch # "idle", ~CopyAhead(stream, side, GraphKey(batch))
      PROVE  batch # << >> /\ buffer = Rebuilt(batch)
  <2>1. buffer = Rebuilt(batch)
      BY <1>1 DEF DecodeInv, CopyComesFirst
  <2>2. Len(batch) \in Row
      BY <1>1, BatchFitsBucket DEF DecodeInv, BatchInFlight
  <2>3. QED
      BY <2>1, <2>2 DEF Row
<1>2. ASSUME DecodeInv, stream # << >>, Head(stream).op = "forward", Head(stream).current
      PROVE  ReadsItsStep(Head(stream))
  <2>1. 1 \in DOMAIN stream /\ stream[1] = Head(stream)
        /\ \A k \in DOMAIN stream : 1 \in 1 .. k
      BY <1>2 DEF DecodeInv, DecodeTypes
  <2>2. launch # "idle" /\ Head(stream).key = GraphKey(batch)
      BY <1>2, <2>1 DEF DecodeInv, ForwardsAreOfTheStep
  <2>3. ~CopyAhead(stream, side, GraphKey(batch))
      BY <1>2, <2>1 DEF CopyAhead
  <2>4. QED
      BY <1>1, <1>2, <2>2, <2>3 DEF ReadsItsStep
<1>3. ASSUME DecodeInv, NEW i \in DOMAIN side, side[i].after = 0, side[i].current
      PROVE  ReadsItsStep(side[i])
  <2>1. launch # "idle" /\ side[i].key = GraphKey(batch)
      BY <1>3 DEF DecodeInv, ForwardsAreOfTheStep
  <2>2. \A k \in DOMAIN stream : k \in Nat /\ ~(k <= 0)
      BY <1>3 DEF DecodeInv, DecodeTypes
  <2>3. ~CopyAhead(stream, side, GraphKey(batch))
      BY <1>3, <2>2 DEF CopyAhead
  <2>4. QED
      BY <1>1, <1>3, <2>1, <2>3 DEF ReadsItsStep
<1>4. ASSUME DecodeInv, NEW i \in DOMAIN side, launch = "replayed"
      PROVE  side[i].key # GraphKey(batch)
    BY <1>4 DEF DecodeInv, CapturedIsQuiet
<1>5. DecodeInv => GraphReadsThisStep
    BY <1>2, <1>3, <1>4 DEF GraphReadsThisStep
<1>6. QED
    BY DecodeInvAlways, <1>5, PTL
=============================================================================
