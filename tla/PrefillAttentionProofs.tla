----------------------- MODULE PrefillAttentionProofs -----------------------
(***************************************************************************)
(* Attention of an eager step weighs, for every query of every sequence,   *)
(* the keys of its own sequence up to its position: whatever sequences the *)
(* batch mixes, on each of the backends, for every page and tile size, and *)
(* in whatever order the programs of the kernel run.                       *)
(***************************************************************************)
EXTENDS PrefillAttention, OrderedKeysProofs

-----------------------------------------------------------------------------
(* A batch laid out in a row.                                              *)

Batches == {b \in Seq([ctx : ContextLens, needed : QueryLens]) : Len(b) # 0}

Start(b) == QueryStartLoc(b)
Queries(s) == 0 .. s.needed - 1

LEMMA Sequences ==
    ASSUME NEW b \in Batches
    PROVE  /\ Len(b) \in Nat \ {0} /\ DOMAIN b = 1 .. Len(b)
           /\ \A i \in DOMAIN b : /\ b[i].ctx \in Nat /\ b[i].needed \in Nat \ {0}
                                  /\ SeqLen(b[i]) \in Nat \ {0}
  <1>1. Len(b) \in Nat \ {0} /\ DOMAIN b = 1 .. Len(b)
    BY DEF Batches
  <1>2. \A i \in DOMAIN b : b[i] \in [ctx : ContextLens, needed : QueryLens]
    <2> DEFINE R == [ctx : ContextLens, needed : QueryLens]
    <2>1. b \in Seq(R)
      BY DEF Batches
    <2> HIDE DEF R
    <2>2. \A i \in DOMAIN b : b[i] \in R
      BY <2>1
    <2>3. QED
      BY <2>2 DEF R
  <1>3. \A i \in DOMAIN b : b[i].ctx \in Nat /\ b[i].needed \in Nat \ {0}
    BY <1>2, SizesAssumption
  <1>4. QED
    BY <1>1, <1>3 DEF SeqLen

\* query_start_loc: the sequences' queries end to end, from 0.
LEMMA StartUnfolds ==
    ASSUME NEW b \in Batches
    PROVE  /\ Start(b)[1] = 0
           /\ \A i \in 1 .. Len(b) + 1 : Start(b)[i] \in Nat
           /\ \A i \in DOMAIN b : Start(b)[i + 1] = Start(b)[i] + b[i].needed
           /\ \A i, j \in DOMAIN b : i < j => Start(b)[i] + b[i].needed <= Start(b)[j]
           /\ \A i \in DOMAIN b : Start(b)[i] + b[i].needed <= Start(b)[Len(b) + 1]
  <1> DEFINE n == Len(b)
             w == [i \in 1 .. n |-> b[i].needed]
             Solves(f) == f = [i \in 1 .. n + 1 |->
                                  IF i = 1 THEN 0 ELSE f[i - 1] + b[i - 1].needed]
  <1>1. n \in Nat \ {0} /\ DOMAIN b = 1 .. n /\ \A i \in 1 .. n : b[i].needed \in Nat
    BY Sequences
  <1>2. Start(b) = CHOOSE f : Solves(f)
    BY DEF Start, QueryStartLoc
  <1> HIDE DEF n
  <1>3. PICK g : SumsUpTo(n, w, g)
    BY <1>1, SumsExist
  <1> DEFINE h == [i \in 1 .. n + 1 |-> g[i - 1]]
  <1>4. Solves(h)
    <2>1. \A i \in 0 .. n : g[i] = IF i = 0 THEN 0 ELSE g[i - 1] + w[i]
      BY <1>1, <1>3 DEF SumsUpTo
    <2>2. ASSUME NEW i \in 1 .. n + 1
          PROVE  h[i] = IF i = 1 THEN 0 ELSE h[i - 1] + b[i - 1].needed
      <3>1. i - 1 \in 0 .. n /\ h[i] = g[i - 1]
        BY <1>1
      <3>2. CASE i = 1
        <4>1. 0 \in 0 .. n /\ i - 1 = 0
          BY <1>1, <3>2
        <4>3. g[0] = 0
          BY <2>1, <4>1
        <4> HIDE DEF h
        <4>2. QED
          BY <3>1, <3>2, <4>1, <4>3
      <3>3. CASE i # 1
        <4>1. i - 1 \in 1 .. n /\ i - 1 # 0 /\ i - 1 \in 1 .. n + 1
          BY <1>1, <3>3
        <4>2. h[i - 1] = g[(i - 1) - 1] /\ w[i - 1] = b[i - 1].needed
          BY <4>1
        <4>3. g[i - 1] = g[(i - 1) - 1] + w[i - 1]
          BY <2>1, <3>1, <4>1
        <4> HIDE DEF h, w
        <4>4. QED
          BY <3>1, <3>3, <4>2, <4>3
      <3>4. QED
        BY <3>2, <3>3
    <2>3. QED
      BY <2>2
  <1>5. Solves(Start(b))
    <2> HIDE DEF Solves, h
    <2>1. QED
      BY <1>2, <1>4
  <1> HIDE DEF h
  <1> DEFINE f == [i \in 0 .. n |-> Start(b)[i + 1]]
  <1>6. SumsUpTo(n, w, f)
    <2>1. \A i \in 1 .. n + 1 :
              Start(b)[i] = IF i = 1 THEN 0 ELSE Start(b)[i - 1] + b[i - 1].needed
      BY <1>5
    <2>2. ASSUME NEW i \in 0 .. n
          PROVE  f[i] = IF i = 0 THEN 0 ELSE f[i - 1] + w[i]
      <3>1. i + 1 \in 1 .. n + 1 /\ f[i] = Start(b)[i + 1] /\ (i + 1) - 1 = i
        BY <1>1
      <3>2. CASE i = 0
        BY <2>1, <3>1, <3>2
      <3>3. CASE i # 0
        <4>1. i \in 1 .. n /\ i + 1 # 1 /\ f[i - 1] = Start(b)[i]
          BY <1>1, <3>3
        <4>2. Start(b)[i + 1] = Start(b)[i] + b[i].needed
          BY <2>1, <3>1, <4>1
        <4>3. QED
          BY <3>1, <3>3, <4>1, <4>2
      <3>4. QED
        BY <3>2, <3>3
    <2>3. f = [i \in 0 .. n |-> f[i]]
      OBVIOUS
    <2> HIDE DEF f, w
    <2>4. QED
      BY <2>2, <2>3 DEF SumsUpTo
  <1>7. \A i \in 1 .. n : w[i] \in Nat /\ w[i] = b[i].needed
    BY <1>1
  <1>8. \A i \in 0 .. n : f[i] = Start(b)[i + 1]
    OBVIOUS
  <1> HIDE DEF f, w
  <1>9. /\ \A i \in 0 .. n : f[i] \in Nat
        /\ f[0] = 0
        /\ \A i \in 1 .. n : f[i] = f[i - 1] + w[i]
        /\ \A i, j \in 1 .. n : i < j => f[i - 1] + w[i] <= f[j - 1]
        /\ \A i \in 1 .. n : f[i - 1] + w[i] <= f[n]
    BY <1>1, <1>6, <1>7, SumsInOrder
  <1>10. \A i \in 1 .. n + 1 : i - 1 \in 0 .. n /\ Start(b)[i] = f[i - 1]
    BY <1>1, <1>8
  <1>11. Start(b)[1] = 0 /\ \A i \in 1 .. n + 1 : Start(b)[i] \in Nat
    BY <1>1, <1>9, <1>10
  <1>12. \A i \in 1 .. n : /\ i \in 1 .. n + 1 /\ i + 1 \in 1 .. n + 1 /\ (i + 1) - 1 = i
                           /\ Start(b)[i] = f[i - 1] /\ Start(b)[i + 1] = f[i]
                           /\ w[i] = b[i].needed
    BY <1>1, <1>7, <1>10
  <1>13. Start(b)[n + 1] = f[n]
    BY <1>1, <1>10
  <1>14. QED
    BY <1>1, <1>9, <1>11, <1>12, <1>13 DEF n

\* A row of the result belongs to one query of one sequence.
LEMMA RowsApart ==
    ASSUME NEW b \in Batches, NEW i \in DOMAIN b, NEW j \in DOMAIN b,
           NEW r \in Queries(b[i]), NEW u \in Queries(b[j]),
           Start(b)[i] + r = Start(b)[j] + u
    PROVE  i = j /\ r = u
  <1> DEFINE si == Start(b)[i]
             sj == Start(b)[j]
  <1>1. si \in Nat /\ sj \in Nat /\ b[i].needed \in Nat /\ b[j].needed \in Nat
        /\ i \in Nat /\ j \in Nat
    <2>1. /\ i \in 1 .. Len(b) + 1 /\ j \in 1 .. Len(b) + 1 /\ i \in Nat /\ j \in Nat
          /\ b[i].needed \in Nat /\ b[j].needed \in Nat
      BY Sequences
    <2>2. QED
      BY <2>1, StartUnfolds
  <1>2. r \in Nat /\ r < b[i].needed /\ u \in Nat /\ u < b[j].needed
    BY <1>1 DEF Queries
  <1>3. i < j => si + b[i].needed <= sj
    BY StartUnfolds
  <1>4. j < i => sj + b[j].needed <= si
    BY StartUnfolds
  <1> HIDE DEF si, sj
  <1>5. ~(i < j) /\ ~(j < i)
    BY <1>1, <1>2, <1>3, <1>4 DEF si, sj
  <1>6. i = j
    BY <1>1, <1>5
  <1>7. QED
    BY <1>1, <1>2, <1>6 DEF si, sj

\* The rows of the result.
RowsOf(b) == 0 .. Start(b)[Len(b) + 1] - 1

LEMMA RowInResult ==
    ASSUME NEW b \in Batches, NEW i \in DOMAIN b, NEW r \in Queries(b[i])
    PROVE  Start(b)[i] + r \in RowsOf(b)
  <1>1. Start(b)[i] \in Nat /\ b[i].needed \in Nat /\ Start(b)[Len(b) + 1] \in Nat
        /\ Start(b)[i] + b[i].needed <= Start(b)[Len(b) + 1]
    <2>1. i \in 1 .. Len(b) + 1 /\ Len(b) + 1 \in 1 .. Len(b) + 1
      BY Sequences
    <2>2. QED
      BY <2>1, Sequences, StartUnfolds
  <1>2. r \in Nat /\ r < b[i].needed
    BY <1>1 DEF Queries
  <1>3. QED
    BY <1>1, <1>2 DEF RowsOf

-----------------------------------------------------------------------------
(* What prepare_inputs makes of a batch.                                   *)

\* The page of a position is one of so many.
LEMMA PageOf ==
    ASSUME NEW len \in Nat, NEW pos \in 0 .. len - 1
    PROVE  pos \div BlockSize + 1 \in 1 .. CeilDiv(len, BlockSize)
  <1> DEFINE c == CeilDiv(len, BlockSize)
             p == pos \div BlockSize
  <1>1. BlockSize \in Nat \ {0} /\ pos \in Nat /\ pos < len
    BY SizesAssumption
  <1>2. c \in Nat /\ len <= c * BlockSize
    BY <1>1, QuotientRoundedUp DEF CeilDiv, RoundedUp
  <1>3. p \in Nat /\ p * BlockSize <= pos
    BY <1>1, DivTimes
  <1> HIDE DEF c, p
  <1>4. p < c
    <2>1. SUFFICES ASSUME c <= p PROVE FALSE
      BY <1>2, <1>3
    <2>2. c * BlockSize <= p * BlockSize
      BY <1>1, <1>2, <1>3, <2>1, TimesMonotone
    <2>3. c * BlockSize \in Nat /\ p * BlockSize \in Nat
      BY <1>1, <1>2, <1>3
    <2>4. QED
      BY <1>1, <1>2, <1>3, <2>2, <2>3
  <1>5. QED
    BY <1>2, <1>3, <1>4 DEF c, p

\* The longest query and the longest sequence.
LEMMA LongestOf ==
    ASSUME NEW b \in Batches
    PROVE  LET m == PrepareInputs(b)
           IN  /\ m.max_query_len \in Nat /\ m.max_seq_len \in Nat
               /\ \A i \in DOMAIN b : /\ b[i].needed <= m.max_query_len
                                      /\ SeqLen(b[i]) <= m.max_seq_len
  <1> DEFINE n == Len(b)
             lens == [i \in DOMAIN b |-> SeqLen(b[i])]
             needs == [i \in DOMAIN b |-> b[i].needed]
  <1>1. n \in Nat \ {0} /\ DOMAIN b = 1 .. n
        /\ \A i \in 1 .. n : SeqLen(b[i]) \in Nat /\ b[i].needed \in Nat
    BY Sequences
  <1> HIDE DEF n
  <1>2. /\ DOMAIN lens = 1 .. n /\ \A i \in 1 .. n : lens[i] = SeqLen(b[i]) /\ lens[i] \in Nat
        /\ DOMAIN needs = 1 .. n /\ \A i \in 1 .. n : needs[i] = b[i].needed /\ needs[i] \in Nat
    BY <1>1
  <1>3. PrepareInputs(b).max_query_len = MaxOver(needs)
        /\ PrepareInputs(b).max_seq_len = MaxOver(lens)
    BY DEF PrepareInputs
  <1> HIDE DEF lens, needs
  <1>4. MaxOver(lens) \in Nat /\ \A i \in 1 .. n : lens[i] <= MaxOver(lens)
    BY <1>1, <1>2, MaxOfValues DEF MaxOver
  <1>5. MaxOver(needs) \in Nat /\ \A i \in 1 .. n : needs[i] <= MaxOver(needs)
    BY <1>1, <1>2, MaxOfValues DEF MaxOver
  <1>6. QED
    BY <1>1, <1>2, <1>3, <1>4, <1>5

\* The table of a row holds the table of its sequence, so that a position of
\* the sequence has the slot that the scheduler gave it.
LEMMA SlotsAreOwn ==
    ASSUME batch \in Batches, md = PrepareInputs(batch), NEW i \in DOMAIN batch,
           NEW ps \in SUBSET (0 .. SeqLen(batch[i]) - 1)
    PROVE  Slots(i, ps) = {SlotOf(i, p) : p \in ps}
  <1> DEFINE len == SeqLen(batch[i])
             table == BlockTable(i, batch[i])
             width == CeilDiv(md.max_seq_len, BlockSize)
             row == [j \in 1 .. width |-> IF j <= Len(table) THEN table[j] ELSE 0]
             pages == CeilDiv(len, BlockSize)
  <1>1. md.block_tables[i] = row
    BY DEF PrepareInputs
  <1>2. len \in Nat /\ len <= md.max_seq_len /\ md.max_seq_len \in Nat
    BY Sequences, LongestOf
  <1>3. pages \in Nat /\ width \in Nat /\ pages <= width
    <2> HIDE DEF len
    <2>1. QED
      BY <1>2, SizesAssumption, QuotientRoundedUp DEF CeilDiv, RoundedUp
  <1>4. Len(table) = pages
    <2>1. table = [j \in 1 .. pages |-> (i - 1) * Longest + j]
      BY DEF BlockTable
    <2> HIDE DEF table, pages
    <2>2. QED
      BY <1>3, <2>1
  <1> HIDE DEF table
  <1>5. Len(row) = width
    <2> HIDE DEF width
    <2>1. QED
      BY <1>3
  <1>6. ASSUME NEW p \in ps
        PROVE  Page(i, p \div BlockSize + 1) * BlockSize + (p % BlockSize) = SlotOf(i, p)
    <2> DEFINE j == p \div BlockSize + 1
    <2>1. j \in 1 .. pages
      BY <1>2, PageOf
    <2> HIDE DEF len, pages, width, j
    <2>2. j <= Len(row) /\ j \in 1 .. width /\ j <= Len(table)
      BY <1>3, <1>4, <1>5, <2>1
    <2>3. Page(i, j) = table[j]
      BY <1>1, <2>2 DEF Page
    <2>4. QED
      BY <2>3 DEF SlotOf, table, j
  <1>7. QED
    BY <1>6 DEF Slots

\* What the kernels read of the metadata.
LEMMA Metadata ==
    ASSUME batch \in Batches, md = PrepareInputs(batch), NEW i \in DOMAIN batch
    PROVE  /\ md.query_start_loc = Start(batch)
           /\ md.context_lens[i] = batch[i].ctx
           /\ md.seq_lens[i] = SeqLen(batch[i])
           /\ QueryLen(i) = batch[i].needed
  <1>1. /\ md.query_start_loc = Start(batch)
        /\ md.context_lens[i] = batch[i].ctx
        /\ md.seq_lens[i] = SeqLen(batch[i])
    BY DEF PrepareInputs, Start
  <1>2. QueryLen(i) = batch[i].needed
    <2>1. Start(batch)[i + 1] = Start(batch)[i] + batch[i].needed
      BY StartUnfolds
    <2>2. Start(batch)[i] \in Nat /\ batch[i].needed \in Nat
      <3>1. i \in 1 .. Len(batch) + 1
        BY Sequences
      <3>2. QED
        BY <3>1, Sequences, StartUnfolds
    <2>3. QED
      BY <1>1, <2>1, <2>2 DEF QueryLen
  <1>3. QED
    BY <1>1, <1>2

-----------------------------------------------------------------------------
(* The invariant: what is right of the rows whose programs have run.       *)

\* The row of query r of sequence i.
OutOf(i, r) == out[Start(batch)[i] + r]

Right(i, r) == OutOf(i, r).weighs = SlotsUpTo(i, batch[i].ctx + r)
Tidy(i, r) == OutOf(i, r).loads \subseteq SlotsUpTo(i, SeqLen(batch[i]) - 1)

Tile(m) == m * BlockM(md) .. (m + 1) * BlockM(md) - 1

Laid ==
    kernel # "none" =>
        batch \in Batches /\ md = PrepareInputs(batch) /\ DOMAIN out = RowsOf(batch)

Chosen == kernel \in {"tiles", "loop", "static"} => kernel = Backend(md)

TilesInv ==
    kernel = "tiles" =>
        \A i \in DOMAIN batch, m \in Grid(md) : <<i, m>> \notin todo =>
            \A r \in Queries(batch[i]) : r \in Tile(m) => Right(i, r) /\ Tidy(i, r)

LoopInv ==
    kernel = "loop" =>
        \A i \in DOMAIN batch : i \notin todo =>
            \A r \in Queries(batch[i]) : Right(i, r) /\ Tidy(i, r)

StaticInv ==
    (kernel = "static" /\ todo = {}) =>
        \A i \in DOMAIN batch : \A r \in Queries(batch[i]) : Right(i, r)

DoneInv ==
    kernel = "done" =>
        \A i \in DOMAIN batch : \A r \in Queries(batch[i]) :
            Right(i, r) /\ (Backend(md) # "static" => Tidy(i, r))

Inv ==
    /\ kernel \in {"none", "tiles", "loop", "static", "done"}
    /\ Laid
    /\ Chosen
    /\ TilesInv
    /\ LoopInv
    /\ StaticInv
    /\ DoneInv

LEMMA InitInv == Init => Inv
  BY DEF Init, Inv, Laid, Chosen, TilesInv, LoopInv, StaticInv, DoneInv

\* The pass begins with every program to run.
LEMMA ForwardInv ==
    ASSUME NEW n \in 1 .. MaxSeqs,
           NEW b \in [1 .. n -> [ctx : ContextLens, needed : QueryLens]], Forward(b)
    PROVE  Inv'
  <1>1. /\ batch' = b /\ md' = PrepareInputs(b)
        /\ kernel' \in {"tiles", "loop", "static"} /\ kernel' = Backend(md')
        /\ todo' = IF kernel' = "tiles" THEN (DOMAIN b) \X Grid(md') ELSE DOMAIN b
        /\ DOMAIN out' = 0 .. md'.query_start_loc[Len(b) + 1] - 1
    <2>1. kernel' = Backend(md') /\ kernel' # "decode"
      BY DEF Forward
    <2>2. Backend(md') \in {"decode", "tiles", "loop", "static"}
      BY DEF Backend
    <2>3. QED
      BY <2>1, <2>2 DEF Forward
  <1>2. b \in Batches
    <2> DEFINE R == [ctx : ContextLens, needed : QueryLens]
    <2>1. n \in Nat \ {0} /\ b \in [1 .. n -> R]
      BY SizesAssumption
    <2> HIDE DEF R
    <2>2. b \in Seq(R) /\ Len(b) = n
      BY <2>1
    <2>3. QED
      BY <2>1, <2>2 DEF Batches, R
  <1>3. md'.query_start_loc = Start(b)
    BY <1>1 DEF PrepareInputs, Start
  <1>4. Laid'
    BY <1>1, <1>2, <1>3 DEF Laid, RowsOf
  <1>5. Chosen'
    <2>1. kernel' = Backend(md)'
      BY <1>1 DEF Backend, Forward
    <2>2. QED
      BY <2>1 DEF Chosen
  <1>6. TilesInv'
    BY <1>1 DEF TilesInv, Grid, BlockM
  <1>7. LoopInv'
    BY <1>1 DEF LoopInv
  <1>8. StaticInv'
    <2>1. 1 \in DOMAIN b
      BY <1>2, Sequences
    <2>2. kernel' = "static" => todo' # {}
      BY <1>1, <2>1
    <2>3. QED
      BY <2>2 DEF StaticInv
  <1>9. DoneInv'
    BY <1>1 DEF DoneInv
  <1>10. QED
    BY <1>1, <1>4, <1>5, <1>6, <1>7, <1>8, <1>9 DEF Inv

\* A row of a tile weighs the keys up to its position and loads none past the
\* sequence: the limit of the tile lies between the two.
LEMMA TileRowRight ==
    ASSUME batch \in Batches, md = PrepareInputs(batch), NEW i \in DOMAIN batch,
           NEW m \in Grid(md), NEW r \in Queries(batch[i]), r \in Tile(m)
    PROVE  /\ TileRow(i, m, r).weighs = SlotsUpTo(i, batch[i].ctx + r)
           /\ TileRow(i, m, r).loads \subseteq SlotsUpTo(i, SeqLen(batch[i]) - 1)
  <1> DEFINE len == SeqLen(batch[i])
             ctx == batch[i].ctx
             end == ctx + (m + 1) * BlockM(md)
             limit == TileLimit(i, m)
  <1>1. /\ md.context_lens[i] = ctx /\ md.seq_lens[i] = len
    BY Metadata
  <1>2. ctx \in Nat /\ batch[i].needed \in Nat /\ len = ctx + batch[i].needed /\ len \in Nat
    BY Sequences DEF SeqLen
  <1>3. r \in Nat /\ r < batch[i].needed
    BY <1>2 DEF Queries
  <1>4. m \in Nat /\ (m + 1) * BlockM(md) \in Nat /\ r < (m + 1) * BlockM(md)
    <2>1. m \in Nat
      BY DEF Grid
    <2>2. BlockM(md) \in Nat
      BY SizesAssumption DEF BlockM
    <2>3. QED
      BY <1>3, <2>1, <2>2 DEF Tile
  <1>5. limit = Min({len, end})
    BY <1>1 DEF TileLimit
  <1> HIDE DEF len, ctx
  <1>6. end \in Nat /\ ctx + r < end /\ ctx + r < len /\ ctx + r \in Nat
    BY <1>2, <1>3, <1>4
  <1> HIDE DEF end, limit
  <1>7. limit \in Nat /\ limit <= len /\ ctx + r < limit
    BY <1>2, <1>5, <1>6, OfTwo
  <1> DEFINE keys == 0 .. limit - 1
             seen == {pos \in keys : pos <= ctx + r}
  <1>8. seen = 0 .. ctx + r
    BY <1>6, <1>7
  <1>9. keys \subseteq 0 .. len - 1 /\ 0 .. ctx + r \subseteq 0 .. len - 1
    BY <1>2, <1>6, <1>7
  <1>10. TileRow(i, m, r) = [weighs |-> Slots(i, seen), loads |-> Slots(i, keys)]
    BY <1>1 DEF TileRow, limit
  <1> HIDE DEF keys, seen
  <1>11. Slots(i, keys) = {SlotOf(i, p) : p \in keys}
         /\ Slots(i, seen) = {SlotOf(i, p) : p \in seen}
    BY <1>8, <1>9, SlotsAreOwn DEF len
  <1>12. QED
    BY <1>8, <1>9, <1>10, <1>11 DEF SlotsUpTo, len, ctx

\* A program writes the rows of its tile and no row of another one.
LEMMA TileProgramInv ==
    ASSUME Inv, NEW i \in DOMAIN batch, NEW m \in Grid(md), TileProgram(i, m)
    PROVE  Inv'
  <1>1. /\ kernel = "tiles" /\ kernel' = "tiles" /\ batch' = batch /\ md' = md
        /\ cuda' = cuda /\ prefill_backend' = prefill_backend
        /\ todo' = todo \ {<<i, m>>}
    BY DEF TileProgram
  <1>2. batch \in Batches /\ md = PrepareInputs(batch) /\ DOMAIN out = RowsOf(batch)
    BY <1>1 DEF Inv, Laid
  <1>3. /\ md.query_start_loc = Start(batch) /\ QueryLen(i) = batch[i].needed
    BY <1>2, Metadata
  <1>4. TileRows(i, m) = Tile(m) \cap Queries(batch[i])
    <2>1. batch[i].needed \in Nat /\ m * BlockM(md) \in Nat
      <3>1. m \in Nat /\ BlockM(md) \in Nat
        BY SizesAssumption DEF Grid, BlockM
      <3>2. QED
        BY <1>2, <3>1, Sequences
    <2>2. QED
      BY <1>3, <2>1 DEF TileRows, Tile, Queries
  <1>5. out' = IF m * BlockM(md) >= batch[i].needed THEN out
               ELSE [t \in DOMAIN out |->
                        IF t - Start(batch)[i] \in TileRows(i, m)
                        THEN TileRow(i, m, t - Start(batch)[i]) ELSE out[t]]
    BY <1>3 DEF TileProgram
  <1>6. DOMAIN out' = RowsOf(batch)
    BY <1>2, <1>5
  <1>7. ASSUME NEW j \in DOMAIN batch, NEW u \in Queries(batch[j])
        PROVE  \/ /\ i = j /\ u \in Tile(m)
                  /\ out'[Start(batch)[j] + u] = TileRow(j, m, u)
               \/ /\ ~(i = j /\ u \in Tile(m))
                  /\ out'[Start(batch)[j] + u] = out[Start(batch)[j] + u]
    <2> DEFINE t == Start(batch)[j] + u
               r == t - Start(batch)[i]
    <2>1. t \in DOMAIN out
      BY <1>2, RowInResult
    <2>2. /\ Start(batch)[i] \in Nat /\ Start(batch)[j] \in Nat /\ u \in Nat
          /\ Start(batch)[i] + r = t
      <3>1. i \in 1 .. Len(batch) + 1 /\ j \in 1 .. Len(batch) + 1
        BY <1>2, Sequences
      <3>2. batch[j].needed \in Nat
        BY <1>2, Sequences
      <3>3. Start(batch)[i] \in Nat /\ Start(batch)[j] \in Nat /\ u \in Nat
        BY <1>2, <3>1, <3>2, StartUnfolds DEF Queries
      <3>4. QED
        BY <3>3
    <2>3. CASE m * BlockM(md) >= batch[i].needed
      <3>1. ~(i = j /\ u \in Tile(m))
        <4>1. m \in Nat /\ BlockM(md) \in Nat /\ batch[i].needed \in Nat
          BY <1>2, Sequences, SizesAssumption DEF Grid, BlockM
        <4>2. m * BlockM(md) \in Nat
          BY <4>1
        <4>3. i = j => u < m * BlockM(md)
          BY <2>2, <2>3, <4>1, <4>2 DEF Queries
        <4>4. QED
          BY <2>2, <4>2, <4>3 DEF Tile
      <3>2. QED
        BY <1>5, <2>3, <3>1
    <2>4. CASE ~(m * BlockM(md) >= batch[i].needed)
      <3>1. out'[t] = IF r \in TileRows(i, m) THEN TileRow(i, m, r) ELSE out[t]
        BY <1>5, <2>1, <2>4
      <3>2. r \in TileRows(i, m) <=> i = j /\ u \in Tile(m)
        <4>1. ASSUME r \in TileRows(i, m) PROVE i = j /\ u \in Tile(m)
          <5>1. r \in Queries(batch[i]) /\ r \in Tile(m)
            BY <1>4, <4>1
          <5> HIDE DEF r
          <5>2. i = j /\ r = u
            BY <1>2, <2>2, <5>1, RowsApart
          <5>3. QED
            BY <5>1, <5>2
        <4>2. ASSUME i = j, u \in Tile(m) PROVE r \in TileRows(i, m)
          <5>1. r = u
            BY <2>2, <4>2
          <5>2. QED
            BY <1>4, <4>2, <5>1
        <4>3. QED
          BY <4>1, <4>2
      <3>3. i = j => r = u
        BY <2>2
      <3> HIDE DEF r, t
      <3>4. QED
        BY <3>1, <3>2, <3>3 DEF t
    <2>5. QED
      BY <2>3, <2>4
  <1>8. ASSUME NEW j \in DOMAIN batch, NEW o \in Grid(md), <<j, o>> \notin todo',
               NEW u \in Queries(batch[j]), u \in Tile(o)
        PROVE  (Right(j, u) /\ Tidy(j, u))'
    <2>1. CASE i = j /\ u \in Tile(m)
      <3>1. out'[Start(batch)[j] + u] = TileRow(j, m, u)
        BY <1>7, <2>1
      <3>2. /\ TileRow(j, m, u).weighs = SlotsUpTo(j, batch[j].ctx + u)
            /\ TileRow(j, m, u).loads \subseteq SlotsUpTo(j, SeqLen(batch[j]) - 1)
        BY <1>2, <2>1, TileRowRight
      <3>3. QED
        BY <1>1, <3>1, <3>2 DEF Right, Tidy, OutOf, SlotsUpTo, SlotOf
    <2>2. CASE ~(i = j /\ u \in Tile(m))
      <3>1. out'[Start(batch)[j] + u] = out[Start(batch)[j] + u]
        BY <1>7, <2>2
      <3>2. <<j, o>> \notin todo
        BY <1>1, <1>8, <2>2
      <3>3. Right(j, u) /\ Tidy(j, u)
        BY <1>1, <1>8, <3>2 DEF Inv, TilesInv
      <3>4. QED
        BY <1>1, <3>1, <3>3 DEF Right, Tidy, OutOf, SlotsUpTo, SlotOf
    <2>3. QED
      BY <2>1, <2>2
  <1>9. TilesInv'
    <2>1. Grid(md)' = Grid(md) /\ \A o : Tile(o)' = Tile(o)
      BY <1>1 DEF Grid, Tile, BlockM
    <2>2. QED
      BY <1>1, <1>8, <2>1 DEF TilesInv
  <1>10. Laid' /\ Chosen'
    BY <1>1, <1>2, <1>6 DEF Inv, Laid, Chosen, Backend
  <1>11. LoopInv' /\ StaticInv' /\ DoneInv'
    BY <1>1 DEF LoopInv, StaticInv, DoneInv
  <1>12. QED
    BY <1>1, <1>9, <1>10, <1>11 DEF Inv

\* The loop takes a whole sequence at a time.
LEMMA LoopSequenceInv ==
    ASSUME Inv, NEW i \in DOMAIN batch, LoopSequence(i)
    PROVE  Inv'
  <1>1. /\ kernel = "loop" /\ kernel' = "loop" /\ batch' = batch /\ md' = md
        /\ cuda' = cuda /\ prefill_backend' = prefill_backend
        /\ todo' = todo \ {i}
    BY DEF LoopSequence
  <1>2. batch \in Batches /\ md = PrepareInputs(batch) /\ DOMAIN out = RowsOf(batch)
    BY <1>1 DEF Inv, Laid
  <1> DEFINE s == batch[i]
             len == SeqLen(s)
             st == Start(batch)
             new(r) == [weighs |-> Slots(i, Visible(i, r)), loads |-> Slots(i, 0 .. len - 1)]
  <1>3. /\ md.query_start_loc = st /\ md.seq_lens[i] = len /\ md.context_lens[i] = s.ctx
        /\ QueryLen(i) = s.needed
    BY <1>2, Metadata
  <1>4. out' = [t \in DOMAIN out |-> IF t \in st[i] .. st[i + 1] - 1 THEN new(t - st[i]) ELSE out[t]]
    BY <1>3 DEF LoopSequence
  <1>5. DOMAIN out' = RowsOf(batch)
    BY <1>2, <1>4
  <1>6. /\ s.ctx \in Nat /\ s.needed \in Nat /\ len = s.ctx + s.needed
        /\ st[i] \in Nat /\ st[i + 1] = st[i] + s.needed
    <2>1. i \in 1 .. Len(batch) + 1
      BY <1>2, Sequences
    <2>2. QED
      BY <1>2, <2>1, Sequences, StartUnfolds DEF SeqLen
  <1>7. ASSUME NEW r \in Queries(s)
        PROVE  /\ new(r).weighs = SlotsUpTo(i, s.ctx + r)
               /\ new(r).loads \subseteq SlotsUpTo(i, len - 1)
    <2>1. r \in Nat /\ r < s.needed
      BY <1>6 DEF Queries
    <2>2. Visible(i, r) = 0 .. s.ctx + r
      BY <1>3, <1>6, <2>1 DEF Visible
    <2>3. 0 .. s.ctx + r \subseteq 0 .. len - 1
      BY <1>6, <2>1
    <2>4. /\ Slots(i, 0 .. s.ctx + r) = {SlotOf(i, p) : p \in 0 .. s.ctx + r}
          /\ Slots(i, 0 .. len - 1) = {SlotOf(i, p) : p \in 0 .. len - 1}
      BY <1>2, <2>3, SlotsAreOwn
    <2>5. QED
      BY <2>2, <2>4 DEF SlotsUpTo
  <1>8. ASSUME NEW j \in DOMAIN batch, NEW u \in Queries(batch[j])
        PROVE  out'[st[j] + u] = IF i = j THEN new(u) ELSE out[st[j] + u]
    <2> DEFINE t == st[j] + u
               r == t - st[i]
    <2>1. t \in DOMAIN out
      BY <1>2, RowInResult
    <2>2. st[j] \in Nat /\ u \in Nat /\ batch[j].needed \in Nat
      <3>1. j \in 1 .. Len(batch) + 1 /\ batch[j].needed \in Nat
        BY <1>2, Sequences
      <3>2. QED
        BY <1>2, <3>1, StartUnfolds DEF Queries
    <2>3. out'[t] = IF t \in st[i] .. st[i + 1] - 1 THEN new(r) ELSE out[t]
      BY <1>4, <2>1
    <2>4. CASE i = j
      <3>1. r = u /\ t \in st[i] .. st[i + 1] - 1
        BY <1>6, <2>2, <2>4 DEF Queries
      <3> HIDE DEF new, r
      <3>2. QED
        BY <2>3, <2>4, <3>1
    <2>5. CASE i # j
      <3>1. ASSUME t \in st[i] .. st[i + 1] - 1 PROVE FALSE
        <4>1. r \in Queries(s) /\ st[i] + r = t
          BY <1>6, <2>2, <3>1 DEF Queries
        <4>2. QED
          BY <1>2, <2>5, <4>1, RowsApart
      <3>2. QED
        BY <2>3, <2>5, <3>1
    <2>6. QED
      BY <2>4, <2>5
  <1>9. ASSUME NEW j \in DOMAIN batch, j \notin todo', NEW u \in Queries(batch[j])
        PROVE  (Right(j, u) /\ Tidy(j, u))'
    <2>1. CASE i = j
      <3> HIDE DEF new
      <3>1. out'[st[j] + u] = new(u)
        BY <1>8, <2>1
      <3>2. /\ new(u).weighs = SlotsUpTo(j, batch[j].ctx + u)
            /\ new(u).loads \subseteq SlotsUpTo(j, SeqLen(batch[j]) - 1)
        BY <1>7, <1>9, <2>1
      <3>3. QED
        BY <1>1, <3>1, <3>2 DEF Right, Tidy, OutOf, SlotsUpTo, SlotOf
    <2>2. CASE i # j
      <3>1. Right(j, u) /\ Tidy(j, u)
        BY <1>1, <1>9, <2>2 DEF Inv, LoopInv
      <3>2. QED
        BY <1>1, <1>8, <2>2, <3>1 DEF Right, Tidy, OutOf, SlotsUpTo, SlotOf
    <2>3. QED
      BY <2>1, <2>2
  <1>10. LoopInv'
    BY <1>1, <1>9 DEF LoopInv
  <1>11. Laid' /\ Chosen'
    BY <1>1, <1>2, <1>5 DEF Inv, Laid, Chosen, Backend
  <1>12. TilesInv' /\ StaticInv' /\ DoneInv'
    BY <1>1 DEF TilesInv, StaticInv, DoneInv
  <1>13. QED
    BY <1>1, <1>10, <1>11, <1>12 DEF Inv

\* In a step of one token each, sequence i has row i - 1.
LEMMA OneTokenEach ==
    ASSUME NEW b \in Batches, PrepareInputs(b).max_query_len = 1
    PROVE  \A i \in DOMAIN b : b[i].needed = 1 /\ Start(b)[i] = i - 1
  <1>1. DOMAIN b = 1 .. Len(b) /\ Len(b) \in Nat
        /\ \A i \in DOMAIN b : b[i].needed \in Nat \ {0}
    BY Sequences
  <1>2. \A i \in DOMAIN b : b[i].needed <= 1
    <2>1. \A i \in DOMAIN b : b[i].needed <= PrepareInputs(b).max_query_len
      BY LongestOf
    <2>2. QED
      BY <2>1
  <1>3. \A i \in DOMAIN b : b[i].needed = 1
    BY <1>1, <1>2
  <1> DEFINE X == {n \in Nat : n + 1 \in DOMAIN b => Start(b)[n + 1] = n}
  <1>4. 0 \in X
    BY StartUnfolds
  <1>5. ASSUME NEW n \in Nat, n \in X PROVE n + 1 \in X
    <2>1. SUFFICES ASSUME (n + 1) + 1 \in DOMAIN b PROVE Start(b)[(n + 1) + 1] = n + 1
      OBVIOUS
    <2>2. n + 1 \in DOMAIN b
      BY <1>1, <2>1
    <2>3. Start(b)[(n + 1) + 1] = Start(b)[n + 1] + b[n + 1].needed
      BY <2>2, StartUnfolds
    <2>4. QED
      BY <1>3, <1>5, <2>2, <2>3
  <1> HIDE DEF X
  <1>6. Nat \subseteq X
    BY <1>4, <1>5, NatSetInduction
  <1>7. ASSUME NEW i \in DOMAIN b PROVE Start(b)[i] = i - 1
    <2>1. i - 1 \in Nat /\ (i - 1) + 1 = i
      BY <1>1
    <2>2. i - 1 \in X
      BY <1>6, <2>1
    <2>3. (i - 1) + 1 \in DOMAIN b => Start(b)[(i - 1) + 1] = i - 1
      BY <2>2 DEF X
    <2>4. QED
      BY <2>1, <2>3
  <1>8. QED
    BY <1>3, <1>7

\* The gathering path masks what it gathered past each row's length.
LEMMA StaticDecodeInv == Inv /\ StaticDecode => Inv'
  <1> SUFFICES ASSUME Inv, StaticDecode
               PROVE  Inv'
    OBVIOUS
  <1>1. /\ kernel = "static" /\ kernel' = "static" /\ batch' = batch /\ md' = md
        /\ cuda' = cuda /\ prefill_backend' = prefill_backend
        /\ out' = [t \in DOMAIN out |->
              [ weighs |-> Slots(t + 1, {pos \in 0 .. md.max_seq_len - 1 : pos < md.seq_lens[t + 1]}),
                loads  |-> Slots(t + 1, 0 .. md.max_seq_len - 1) ]]
    BY DEF StaticDecode
  <1>2. batch \in Batches /\ md = PrepareInputs(batch) /\ DOMAIN out = RowsOf(batch)
    BY <1>1 DEF Inv, Laid
  <1>3. md.max_query_len = 1
    BY <1>1 DEF Inv, Chosen, Backend
  <1>4. ASSUME NEW i \in DOMAIN batch, NEW r \in Queries(batch[i])
        PROVE  Right(i, r)'
    <2> DEFINE len == SeqLen(batch[i])
    <2>1. batch[i].needed = 1 /\ Start(batch)[i] = i - 1
      BY <1>2, <1>3, OneTokenEach
    <2>2. r = 0 /\ batch[i].ctx \in Nat /\ len = batch[i].ctx + 1 /\ i \in Nat
      BY <1>2, <2>1, Sequences DEF Queries, SeqLen
    <2>3. Start(batch)[i] + r = i - 1 /\ i - 1 \in DOMAIN out /\ (i - 1) + 1 = i
      <3>1. Start(batch)[i] + r \in DOMAIN out
        BY <1>2, RowInResult
      <3>2. QED
        BY <2>1, <2>2, <3>1
    <2>4. out'[i - 1].weighs = Slots(i, {pos \in 0 .. md.max_seq_len - 1 : pos < md.seq_lens[i]})
      BY <1>1, <2>3
    <2>5. md.seq_lens[i] = len /\ len <= md.max_seq_len /\ md.max_seq_len \in Nat
      BY <1>2, Metadata, LongestOf
    <2> HIDE DEF len
    <2>6. {pos \in 0 .. md.max_seq_len - 1 : pos < md.seq_lens[i]} = 0 .. batch[i].ctx + r
          /\ 0 .. batch[i].ctx + r \subseteq 0 .. len - 1
      BY <2>2, <2>5
    <2>7. Slots(i, 0 .. batch[i].ctx + r) = {SlotOf(i, p) : p \in 0 .. batch[i].ctx + r}
      BY <1>2, <2>6, SlotsAreOwn DEF len
    <2>8. out'[Start(batch)[i] + r].weighs = SlotsUpTo(i, batch[i].ctx + r)
      BY <2>3, <2>4, <2>6, <2>7 DEF SlotsUpTo
    <2>9. QED
      BY <1>1, <2>8 DEF Right, OutOf, SlotsUpTo, SlotOf
  <1>5. StaticInv'
    BY <1>1, <1>4 DEF StaticInv
  <1>6. Laid' /\ Chosen'
    BY <1>1, <1>2 DEF Inv, Laid, Chosen, Backend
  <1>7. TilesInv' /\ LoopInv' /\ DoneInv'
    BY <1>1 DEF TilesInv, LoopInv, DoneInv
  <1>8. QED
    BY <1>1, <1>5, <1>6, <1>7 DEF Inv

\* When nothing is left to run, every query was in some tile of its sequence.
LEMMA FinishInv == Inv /\ Finish => Inv'
  <1> SUFFICES ASSUME Inv, Finish
               PROVE  Inv'
    OBVIOUS
  <1>1. /\ kernel \in {"tiles", "loop", "static"} /\ kernel' = "done" /\ todo = {}
        /\ batch' = batch /\ md' = md /\ out' = out
        /\ cuda' = cuda /\ prefill_backend' = prefill_backend
    BY DEF Finish
  <1>2. batch \in Batches /\ md = PrepareInputs(batch) /\ DOMAIN out = RowsOf(batch)
        /\ kernel = Backend(md)
    BY <1>1 DEF Inv, Laid, Chosen
  <1>3. ASSUME NEW i \in DOMAIN batch, NEW r \in Queries(batch[i])
        PROVE  Right(i, r) /\ (Backend(md) # "static" => Tidy(i, r))
    <2>1. CASE kernel = "tiles"
      <3> DEFINE d == BlockM(md)
                 m == r \div d
                 c == CeilDiv(md.max_query_len, d)
      <3>1. d \in Nat \ {0} /\ r \in Nat /\ r < md.max_query_len /\ md.max_query_len \in Nat
        <4>1. batch[i].needed \in Nat /\ batch[i].needed <= md.max_query_len
              /\ md.max_query_len \in Nat
          BY <1>2, Sequences, LongestOf
        <4>2. QED
          BY <4>1, SizesAssumption DEF BlockM, Queries
      <3> HIDE DEF d
      <3>2. c \in Nat /\ md.max_query_len <= c * d
        BY <3>1, QuotientRoundedUp DEF CeilDiv, RoundedUp
      <3>3. m \in Nat /\ m * d <= r /\ r < (m + 1) * d
        BY <3>1, DivTimes
      <3> HIDE DEF m, c
      <3>4. m < c
        <4>1. SUFFICES ASSUME c <= m PROVE FALSE
          BY <3>2, <3>3
        <4>2. c * d <= m * d /\ c * d \in Nat /\ m * d \in Nat
          BY <3>1, <3>2, <3>3, <4>1, TimesMonotone
        <4>3. QED
          BY <3>1, <3>2, <3>3, <4>2
      <3>5. m \in Grid(md)
        BY <3>2, <3>3, <3>4 DEF Grid, c, d
      <3>6. r \in Tile(m)
        <4>1. m * d \in Nat /\ (m + 1) * d \in Nat
          BY <3>1, <3>3
        <4>2. r \in m * d .. (m + 1) * d - 1
          BY <3>1, <3>3, <4>1
        <4>3. QED
          BY <4>2 DEF Tile, d
      <3>7. QED
        BY <1>1, <2>1, <3>5, <3>6 DEF Inv, TilesInv
    <2>2. CASE kernel = "loop"
      BY <1>1, <2>2 DEF Inv, LoopInv
    <2>3. CASE kernel = "static"
      BY <1>1, <1>2, <2>3 DEF Inv, StaticInv
    <2>4. QED
      BY <1>1, <2>1, <2>2, <2>3
  <1>4. DoneInv'
    <2>1. ASSUME NEW i \in DOMAIN batch, NEW r \in Queries(batch[i])
          PROVE  (Right(i, r) /\ (Backend(md) # "static" => Tidy(i, r)))'
      BY <1>1, <1>3 DEF Right, Tidy, OutOf, SlotsUpTo, SlotOf, Backend
    <2>2. QED
      BY <1>1, <2>1 DEF DoneInv
  <1>5. Laid'
    BY <1>1, <1>2 DEF Laid
  <1>6. Chosen' /\ TilesInv' /\ LoopInv' /\ StaticInv'
    BY <1>1 DEF Chosen, TilesInv, LoopInv, StaticInv
  <1>7. QED
    BY <1>1, <1>4, <1>5, <1>6 DEF Inv

LEMMA NextInv == Inv /\ [Next]_vars => Inv'
  <1> SUFFICES ASSUME Inv, [Next]_vars
               PROVE  Inv'
    OBVIOUS
  <1>1. ASSUME NEW n \in 1 .. MaxSeqs,
               NEW b \in [1 .. n -> [ctx : ContextLens, needed : QueryLens]], Forward(b)
        PROVE  Inv'
    BY <1>1, ForwardInv
  <1>2. ASSUME NEW i \in DOMAIN batch, NEW m \in Grid(md), TileProgram(i, m)
        PROVE  Inv'
    BY <1>2, TileProgramInv
  <1>3. ASSUME NEW i \in DOMAIN batch, LoopSequence(i)
        PROVE  Inv'
    BY <1>3, LoopSequenceInv
  <1>4. CASE StaticDecode
    BY <1>4, StaticDecodeInv
  <1>5. CASE Finish
    BY <1>5, FinishInv
  <1>6. CASE UNCHANGED vars
    <2>1. /\ kernel' = kernel /\ batch' = batch /\ md' = md /\ todo' = todo /\ out' = out
          /\ cuda' = cuda /\ prefill_backend' = prefill_backend
      BY <1>6 DEF vars
    <2>2. ASSUME NEW i, NEW r
          PROVE  Right(i, r)' = Right(i, r) /\ Tidy(i, r)' = Tidy(i, r)
      BY <2>1 DEF Right, Tidy, OutOf, SlotsUpTo, SlotOf
    <2>3. Backend(md)' = Backend(md) /\ Grid(md)' = Grid(md) /\ \A o : Tile(o)' = Tile(o)
      BY <2>1 DEF Backend, Grid, Tile, BlockM
    <2>4. Laid' /\ Chosen'
      BY <2>1, <2>3 DEF Inv, Laid, Chosen
    <2>5. TilesInv' /\ LoopInv'
      BY <2>1, <2>2, <2>3 DEF Inv, TilesInv, LoopInv
    <2>6. StaticInv' /\ DoneInv'
      BY <2>1, <2>2, <2>3 DEF Inv, StaticInv, DoneInv
    <2>7. QED
      BY <2>1, <2>4, <2>5, <2>6 DEF Inv
  <1>7. QED
    BY <1>1, <1>2, <1>3, <1>4, <1>5, <1>6 DEF Next

LEMMA InvAlways == Spec => []Inv
  BY InitInv, NextInv, PTL DEF Spec

-----------------------------------------------------------------------------
(* What it shows.                                                          *)

LEMMA DonePrefix == Inv => AttendsToPrefix
  BY DEF Inv, DoneInv, Right, OutOf, Start, Queries, AttendsToPrefix

\* layers/attention.py, paged_prefill.py: whichever way a batch is attended to,
\* every query weighs the keys of its own sequence up to its position.
THEOREM EveryQueryAttendsToPrefix == Spec => []AttendsToPrefix
  BY InvAlways, DonePrefix, PTL

\* paged_prefill.py:60-61: neither the kernel nor the loop loads a slot past the
\* length of a sequence, which nothing has written.
THEOREM OnlyStoredAreLoaded == Spec => []LoadsStoredOnly
  <1>1. Inv => LoadsStoredOnly
    BY DEF Inv, DoneInv, Tidy, OutOf, Start, Queries, LoadsStoredOnly
  <1>2. QED
    BY InvAlways, <1>1, PTL

\* model_runner.py:529-530: the row a sequence's next token is sampled from has
\* weighed all of the sequence and nothing else.
THEOREM WholeSequenceIsSampled == Spec => []SamplesWholeSequence
  <1>1. Inv => SamplesWholeSequence
    <2>1. SUFFICES ASSUME Inv, kernel = "done", NEW i \in DOMAIN batch
                   PROVE  out[LastIndices[i]].weighs = SlotsUpTo(i, SeqLen(batch[i]) - 1)
      BY DEF SamplesWholeSequence
    <2>2. batch \in Batches /\ md = PrepareInputs(batch)
      BY <2>1 DEF Inv, Laid
    <2> DEFINE r == batch[i].needed - 1
    <2>3. batch[i].needed \in Nat \ {0} /\ batch[i].ctx \in Nat
      BY <2>2, Sequences
    <2>4. r \in Queries(batch[i]) /\ batch[i].ctx + r = SeqLen(batch[i]) - 1
      BY <2>3 DEF Queries, SeqLen
    <2>5. LastIndices[i] = Start(batch)[i] + r
      <3>1. LastIndices[i] = Start(batch)[i + 1] - 1
        BY <2>2, Metadata DEF LastIndices
      <3>2. Start(batch)[i + 1] = Start(batch)[i] + batch[i].needed /\ Start(batch)[i] \in Nat
        <4>1. i \in 1 .. Len(batch) + 1
          BY <2>2, Sequences
        <4>2. QED
          BY <2>2, <4>1, StartUnfolds
      <3>3. QED
        BY <2>3, <3>1, <3>2
    <2> HIDE DEF r
    <2>6. Right(i, r)
      BY <2>1, <2>4 DEF Inv, DoneInv
    <2>7. QED
      BY <2>4, <2>5, <2>6 DEF Right, OutOf
  <1>2. QED
    BY InvAlways, <1>1, PTL
=============================================================================
