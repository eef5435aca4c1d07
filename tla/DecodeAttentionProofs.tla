----------------------- MODULE DecodeAttentionProofs ------------------------
(***************************************************************************)
(* The attention kernels weigh every key once, for every page size, every  *)
(* row length, every plan with at least one split of at least one page,    *)
(* and every order in which the programs of a launch run.  What decode     *)
(* launches is such a plan, for every batch, context, device and setting;  *)
(* and the eager launch of a batch cuts each row where the captured one of *)
(* its bucket does.                                                        *)
(***************************************************************************)
EXTENDS DecodeAttention, OrderedKeysProofs

-----------------------------------------------------------------------------
(* Arithmetic.                                                             *)

\* A quotient is the number of whole divisors in a number.
LEMMA Quotient ==
    ASSUME NEW a \in Nat, NEW d \in Nat \ {0}
    PROVE  /\ a \div d \in Nat
           /\ (a \div d) * d <= a
           /\ a < (a \div d) * d + d
  OBVIOUS

\* Multiples of d are ordered as their factors, d apart.
LEMMA MultiplesApart ==
    ASSUME NEW d \in Nat \ {0}, NEW m \in Nat, NEW n \in Nat, m < n
    PROVE  m * d + d <= n * d
  OBVIOUS

-----------------------------------------------------------------------------
(* What the programs of one row weigh together.                            *)

\* A row of n pages: every position is on a page, and every page is below n.
LEMMA PageOfPosition ==
    ASSUME NEW len \in Nat, NEW pos \in 0 .. len - 1
    PROVE  /\ pos \div BlockSize \in Nat
           /\ NumPages(len) \in Nat
           /\ pos \div BlockSize < NumPages(len)
  <1> DEFINE d == BlockSize
             b == pos \div d
             n == (len + d - 1) \div d
  <1>1. d \in Nat \ {0}
    BY BlockSizeAssumption
  <1>2. b \in Nat /\ b * d <= pos
    BY <1>1, Quotient
  <1>3. n \in Nat /\ len + d - 1 < n * d + d
    BY <1>1, Quotient, len + d - 1 \in Nat
  <1>4. b < n
    <2>1. SUFFICES ASSUME ~(b < n) PROVE FALSE
      OBVIOUS
    <2> HIDE DEF d, b, n
    <2>2. n = b \/ n < b
      BY <2>1, <1>2, <1>3
    <2>3. n * d <= b * d
      <3>1. CASE n = b
        BY <3>1, <1>1, <1>2
      <3>2. CASE n < b
        BY <3>2, <1>1, <1>2, <1>3, MultiplesApart
      <3>3. QED
        BY <2>2, <3>1, <3>2
    <2>4. n * d \in Nat /\ b * d \in Nat
      BY <1>1, <1>2, <1>3
    <2>5. QED
      BY <1>1, <1>2, <1>3, <2>3, <2>4
  <1>5. QED
    BY <1>2, <1>3, <1>4 DEF NumPages, CeilDiv

\* The single-pass kernel weighs every key of a row once.
LEMMA SinglePassWeighsOnce ==
    ASSUME NEW len \in Nat
    PROVE  WeighsOnce([n \in {0} |-> RowKeys(len)], len)
  <1>1. RowKeys(len) \subseteq 0 .. len - 1
    BY DEF RowKeys, KeysOfPages
  <1>2. ASSUME NEW pos \in 0 .. len - 1
        PROVE  pos \in RowKeys(len)
    BY PageOfPosition DEF RowKeys, KeysOfPages
  <1>3. QED
    BY <1>1, <1>2 DEF WeighsOnce

\* The splits of a row weigh every key of it once, whatever the plan: the
\* last split takes what is left, and the ones past the end are empty.
LEMMA SplitsWeighOnce ==
    ASSUME NEW len \in Nat, NEW p \in Plans
    PROVE  WeighsOnce([n \in Split(p) |-> SplitKeys(p, n, len)], len)
  <1> DEFINE w == [n \in Split(p) |-> SplitKeys(p, n, len)]
             d == p.blocks_per_split
             last == p.num_splits - 1
  <1>1. d \in Nat \ {0} /\ last \in Nat /\ Split(p) = 0 .. last
    BY DEF Plans, Split
  <1>2. DOMAIN w = 0 .. last
    BY <1>1
  <1>3. ASSUME NEW n \in 0 .. last
        PROVE  /\ w[n] \subseteq 0 .. len - 1
               /\ \A pos \in 0 .. len - 1 :
                     pos \in w[n] <=> /\ n * d <= pos \div BlockSize
                                      /\ n = last \/ pos \div BlockSize < n * d + d
    <2>1. w[n] = SplitKeys(p, n, len)
      BY <1>1
    <2>2. n * d \in Nat /\ n * d + d \in Nat
      BY <1>1
    <2>3. ASSUME NEW pos \in 0 .. len - 1
          PROVE  pos \in w[n] <=> /\ n * d <= pos \div BlockSize
                                  /\ n = last \/ pos \div BlockSize < n * d + d
      <3>1. /\ pos \div BlockSize \in Nat
            /\ NumPages(len) \in Nat
            /\ pos \div BlockSize < NumPages(len)
        BY PageOfPosition
      <3>2. CASE n = last
        BY <3>1, <3>2, <2>1, <2>2 DEF SplitKeys, KeysOfPages, SplitStart
      <3>3. CASE n # last
        BY <3>1, <3>3, <2>1, <2>2 DEF SplitKeys, KeysOfPages, SplitStart
      <3>4. QED
        BY <3>2, <3>3
    <2>4. w[n] \subseteq 0 .. len - 1
      BY <2>1 DEF SplitKeys, KeysOfPages
    <2>5. QED
      BY <2>3, <2>4
  <1>4. ASSUME NEW pos \in 0 .. len - 1
        PROVE  \E n \in 0 .. last :
                  pos \in w[n] /\ \A m \in 0 .. last : pos \in w[m] => m = n
    <2> DEFINE b == pos \div BlockSize
               q == b \div d
               n == IF q < last THEN q ELSE last
    <2>1. b \in Nat
      BY PageOfPosition
    <2>2. q \in Nat /\ q * d <= b /\ b < q * d + d
      BY <1>1, <2>1, Quotient
    <2>3. n \in 0 .. last
      BY <1>1, <2>2
    <2> HIDE DEF w, d, last, b, q
    <2>4. n * d <= b /\ (n = last \/ b < n * d + d)
      <3>1. CASE q < last
        BY <3>1, <2>2
      <3>2. CASE q = last
        BY <3>2, <2>2
      <3>3. CASE last < q
        <4>1. last * d + d <= q * d
          BY <3>3, <1>1, <2>2, MultiplesApart
        <4>2. last * d \in Nat /\ q * d \in Nat
          BY <1>1, <2>2
        <4>3. last * d <= b
          BY <4>1, <4>2, <1>1, <2>1, <2>2
        <4>4. QED
          BY <4>3, <3>3, <1>1, <2>2
      <3>4. QED
        BY <3>1, <3>2, <3>3, <1>1, <2>2
    <2>5. pos \in w[n]
      BY <1>3, <2>3, <2>4 DEF b
    <2>6. ASSUME NEW m \in 0 .. last, pos \in w[m]
          PROVE  m = n
      <3> HIDE DEF n
      <3>1. m * d <= b /\ (m = last \/ b < m * d + d)
        BY <1>3, <2>6 DEF b
      <3>2. m * d \in Nat /\ n * d \in Nat /\ m \in Nat /\ n \in Nat
        BY <1>1, <2>3
      <3>3. CASE m < n
        <4>1. m * d + d <= n * d
          BY <3>2, <3>3, <1>1, MultiplesApart
        <4>2. b < m * d + d
          BY <3>1, <3>3, <2>3, <1>1
        <4>3. QED
          BY <4>1, <4>2, <2>4, <3>2, <1>1, <2>1
      <3>4. CASE n < m
        <4>1. n * d + d <= m * d
          BY <3>2, <3>4, <1>1, MultiplesApart
        <4>2. b < n * d + d
          BY <2>4, <3>4, <1>1, <3>2
        <4>3. QED
          BY <4>1, <4>2, <3>1, <3>2, <1>1, <2>1
      <3>5. QED
        BY <3>2, <3>3, <3>4
    <2>7. QED
      BY <2>3, <2>5, <2>6
  <1>5. QED
    BY <1>2, <1>3, <1>4 DEF WeighsOnce

\* One split is the whole row.
LEMMA OneSplitTakesTheRow ==
    ASSUME NEW p \in Plans, p.num_splits = 1, NEW len
    PROVE  PlannedCuts(p, len) = {RowKeys(len)} \ {{}}
  <1>1. Split(p) = {0}
    BY DEF Split
  <1>2. SplitStart(p, 0) = 0
    BY DEF SplitStart, Plans
  <1>3. QED
    BY <1>1, <1>2 DEF PlannedCuts, SplitKeys, RowKeys

-----------------------------------------------------------------------------
(* The invariant: what a program leaves behind while its kernel runs, so   *)
(* that the next kernel, or the reader, finds every part written.          *)

SingleInv ==
    kernel = "single" =>
        /\ DOMAIN out = Row
        /\ plan.num_splits = 1
        /\ \A i \in Row :
              <<i, 0>> \notin todo \/ seq_lens[i] = 0 =>
                  out[i] = [n \in {0} |-> RowKeys(seq_lens[i])]

SplitInv ==
    kernel = "split" =>
        /\ DOMAIN out = Row
        /\ DOMAIN part = Programs(seq_lens, Split(plan))
        /\ \A i \in Row, n \in Split(plan) :
              <<i, n>> \notin todo => part[<<i, n>>] = SplitKeys(plan, n, seq_lens[i])

ReduceInv ==
    kernel = "reduce" =>
        /\ DOMAIN out = Row
        /\ \A i \in Row, n \in Split(plan) :
              part[<<i, n>>] = SplitKeys(plan, n, seq_lens[i])
        /\ \A i \in Row :
              <<i, 0>> \notin todo =>
                  out[i] = [n \in Split(plan) |-> SplitKeys(plan, n, seq_lens[i])]

\* A finished row is summed in the parts of its plan.
CutsInv ==
    kernel = "done" => \A i \in Row : Cuts(out[i]) = PlannedCuts(plan, seq_lens[i])

Inv ==
    /\ seq_lens \in Seq(Nat)
    /\ plan \in Plans
    /\ SingleInv
    /\ SplitInv
    /\ ReduceInv
    /\ CutsInv
    /\ AttendsOnce

LEMMA RowLength ==
    ASSUME seq_lens \in Seq(Nat), NEW i \in Row
    PROVE  seq_lens[i] \in Nat
  BY DEF Row

LEMMA KernelInitInv == KernelInit => Inv
  BY DEF KernelInit, Inv, Plans, SingleInv, SplitInv, ReduceInv, CutsInv, AttendsOnce

\* A launch starts with every program of its first kernel to run.
LEMMA LaunchInv == Inv /\ AnyLaunch => Inv'
  <1> SUFFICES ASSUME Inv, AnyLaunch
               PROVE  Inv'
    OBVIOUS
  <1>1. /\ seq_lens' \in Seq(Nat)
        /\ plan' \in Plans
        /\ kernel' = IF plan'.num_splits > 1 THEN "split" ELSE "single"
        /\ todo' = Programs(seq_lens', Split(plan'))
        /\ part' = [prog \in Programs(seq_lens', Split(plan')) |-> Uninitialised]
        /\ out' = [i \in DOMAIN seq_lens' |->
                      [n \in {0} |-> IF plan'.num_splits > 1 THEN Uninitialised ELSE {}]]
    BY DEF AnyLaunch, Launch
  <1>2. plan'.num_splits \in Nat \ {0}
    BY <1>1 DEF Plans
  <1>3. SingleInv'
    <2>1. SUFFICES ASSUME kernel' = "single", NEW i \in DOMAIN seq_lens',
                          <<i, 0>> \notin todo' \/ seq_lens'[i] = 0
                   PROVE  out'[i] = [n \in {0} |-> RowKeys(seq_lens'[i])]
      BY <1>1, <1>2 DEF SingleInv, Row
    <2>2. plan'.num_splits = 1
      BY <1>1, <1>2, <2>1
    <2>3. 0 \in Split(plan')
      BY <2>2 DEF Split
    <2>4. seq_lens'[i] = 0
      BY <1>1, <2>1, <2>3 DEF Programs
    <2>5. RowKeys(seq_lens'[i]) = {}
      BY <2>4 DEF RowKeys, KeysOfPages
    <2>6. QED
      BY <1>1, <2>1, <2>2, <2>5
  <1>4. SplitInv'
    BY <1>1 DEF SplitInv, Programs, Row
  <1>5. ReduceInv' /\ CutsInv' /\ AttendsOnce'
    BY <1>1 DEF ReduceInv, CutsInv, AttendsOnce
  <1>6. QED
    BY <1>1, <1>3, <1>4, <1>5 DEF Inv

LEMMA SingleProgramInv ==
    ASSUME Inv, NEW i \in Row, SingleProgram(i)
    PROVE  Inv'
  <1>1. /\ kernel = "single" /\ kernel' = "single"
        /\ seq_lens' = seq_lens /\ plan' = plan
        /\ todo' = todo \ {<<i, 0>>}
        /\ out' = IF seq_lens[i] = 0 THEN out
                  ELSE [out EXCEPT ![i] = [n \in {0} |-> RowKeys(seq_lens[i])]]
    BY DEF SingleProgram
  <1>2. SingleInv'
    <2>1. DOMAIN out' = Row /\ plan'.num_splits = 1
      BY <1>1 DEF Inv, SingleInv
    <2>2. ASSUME NEW j \in Row, <<j, 0>> \notin todo' \/ seq_lens[j] = 0
          PROVE  out'[j] = [n \in {0} |-> RowKeys(seq_lens[j])]
      <3>1. CASE seq_lens[j] = 0
        BY <1>1, <3>1 DEF Inv, SingleInv
      <3>2. CASE seq_lens[j] # 0 /\ j = i
        BY <1>1, <3>2 DEF Inv, SingleInv
      <3>3. CASE seq_lens[j] # 0 /\ j # i
        BY <1>1, <2>2, <3>3 DEF Inv, SingleInv
      <3>4. QED
        BY <3>1, <3>2, <3>3
    <2>3. QED
      BY <1>1, <2>1, <2>2 DEF SingleInv, Row
  <1>3. SplitInv' /\ ReduceInv' /\ CutsInv' /\ AttendsOnce'
    BY <1>1 DEF SplitInv, ReduceInv, CutsInv, AttendsOnce
  <1>4. QED
    BY <1>1, <1>2, <1>3 DEF Inv

LEMMA SplitProgramInv ==
    ASSUME Inv, NEW i \in Row, NEW n \in Split(plan), SplitProgram(i, n)
    PROVE  Inv'
  <1>1. /\ kernel = "split" /\ kernel' = "split"
        /\ seq_lens' = seq_lens /\ plan' = plan /\ out' = out
        /\ todo' = todo \ {<<i, n>>}
        /\ part' = [part EXCEPT ![<<i, n>>] = SplitKeys(plan, n, seq_lens[i])]
    BY DEF SplitProgram
  <1>2. SplitInv'
    <2>1. DOMAIN part' = Programs(seq_lens, Split(plan)) /\ DOMAIN out' = Row
      BY <1>1 DEF Inv, SplitInv
    <2>2. ASSUME NEW j \in Row, NEW m \in Split(plan), <<j, m>> \notin todo'
          PROVE  part'[<<j, m>>] = SplitKeys(plan, m, seq_lens[j])
      <3>1. <<j, m>> \in DOMAIN part
        BY <1>1 DEF Inv, SplitInv, Programs, Row
      <3>2. CASE <<j, m>> = <<i, n>>
        BY <1>1, <3>1, <3>2
      <3>3. CASE <<j, m>> # <<i, n>>
        <4>1. part'[<<j, m>>] = part[<<j, m>>]
          BY <1>1, <3>1, <3>3
        <4>2. <<j, m>> \notin todo
          BY <1>1, <2>2, <3>3
        <4>3. QED
          BY <1>1, <4>1, <4>2 DEF Inv, SplitInv
      <3>4. QED
        BY <3>2, <3>3
    <2>3. QED
      BY <1>1, <2>1, <2>2 DEF SplitInv, Row
  <1>3. SingleInv' /\ ReduceInv' /\ CutsInv' /\ AttendsOnce'
    BY <1>1 DEF SingleInv, ReduceInv, CutsInv, AttendsOnce
  <1>4. QED
    BY <1>1, <1>2, <1>3 DEF Inv

\* The reduce kernel starts when no split has still to run, so it finds
\* every partial written.
LEMMA StartReduceInv == Inv /\ StartReduce => Inv'
  <1> SUFFICES ASSUME Inv, StartReduce
               PROVE  Inv'
    OBVIOUS
  <1>1. /\ kernel = "split" /\ kernel' = "reduce"
        /\ seq_lens' = seq_lens /\ plan' = plan /\ out' = out /\ part' = part
        /\ todo = {}
        /\ todo' = Programs(seq_lens, {0})
    BY DEF StartReduce
  <1>2. ReduceInv'
    BY <1>1 DEF Inv, SplitInv, ReduceInv, Programs, Row
  <1>3. SingleInv' /\ SplitInv' /\ CutsInv' /\ AttendsOnce'
    BY <1>1 DEF SingleInv, SplitInv, CutsInv, AttendsOnce
  <1>4. QED
    BY <1>1, <1>2, <1>3 DEF Inv

LEMMA ReduceProgramInv ==
    ASSUME Inv, NEW i \in Row, ReduceProgram(i)
    PROVE  Inv'
  <1>1. /\ kernel = "reduce" /\ kernel' = "reduce"
        /\ seq_lens' = seq_lens /\ plan' = plan /\ part' = part
        /\ todo' = todo \ {<<i, 0>>}
        /\ out' = [out EXCEPT ![i] = [n \in Split(plan) |-> part[<<i, n>>]]]
    BY DEF ReduceProgram
  <1>2. ReduceInv'
    <2>1. DOMAIN out' = Row
      BY <1>1 DEF Inv, ReduceInv
    <2>2. ASSUME NEW j \in Row, <<j, 0>> \notin todo'
          PROVE  out'[j] = [n \in Split(plan) |-> SplitKeys(plan, n, seq_lens[j])]
      <3>1. CASE j = i
        <4>1. out'[j] = [n \in Split(plan) |-> part[<<j, n>>]]
          BY <1>1, <3>1 DEF Inv, ReduceInv
        <4>2. \A n \in Split(plan) : part[<<j, n>>] = SplitKeys(plan, n, seq_lens[j])
          BY <1>1 DEF Inv, ReduceInv
        <4>3. QED
          BY <4>1, <4>2
      <3>2. CASE j # i
        BY <1>1, <2>2, <3>2 DEF Inv, ReduceInv
      <3>3. QED
        BY <3>1, <3>2
    <2>3. QED
      BY <1>1, <2>1, <2>2 DEF Inv, ReduceInv, Row
  <1>3. SingleInv' /\ SplitInv' /\ CutsInv' /\ AttendsOnce'
    BY <1>1 DEF SingleInv, SplitInv, CutsInv, AttendsOnce
  <1>4. QED
    BY <1>1, <1>2, <1>3 DEF Inv

LEMMA FinishInv == Inv /\ Finish => Inv'
  <1> SUFFICES ASSUME Inv, Finish
               PROVE  Inv'
    OBVIOUS
  <1>1. /\ kernel \in {"single", "reduce"} /\ kernel' = "done" /\ todo = {}
        /\ seq_lens' = seq_lens /\ plan' = plan /\ out' = out
    BY DEF Finish
  <1>2. ASSUME NEW i \in Row
        PROVE  WeighsOnce(out[i], seq_lens[i])
    <2>1. seq_lens[i] \in Nat /\ plan \in Plans
      BY RowLength DEF Inv
    <2>2. CASE kernel = "single"
      <3>1. out[i] = [n \in {0} |-> RowKeys(seq_lens[i])]
        BY <1>1, <2>2 DEF Inv, SingleInv
      <3>2. QED
        BY <2>1, <3>1, SinglePassWeighsOnce
    <2>3. CASE kernel = "reduce"
      <3>1. out[i] = [n \in Split(plan) |-> SplitKeys(plan, n, seq_lens[i])]
        BY <1>1, <2>3 DEF Inv, ReduceInv
      <3>2. QED
        BY <2>1, <3>1, SplitsWeighOnce
    <2>4. QED
      BY <1>1, <2>2, <2>3
  <1>3. AttendsOnce'
    BY <1>1, <1>2 DEF AttendsOnce, Row
  <1>6. ASSUME NEW i \in Row
        PROVE  Cuts(out[i]) = PlannedCuts(plan, seq_lens[i])
    <2>1. CASE kernel = "single"
      <3>1. out[i] = [n \in {0} |-> RowKeys(seq_lens[i])] /\ plan.num_splits = 1
        BY <1>1, <2>1 DEF Inv, SingleInv
      <3>2. Cuts(out[i]) = {RowKeys(seq_lens[i])} \ {{}}
        BY <3>1 DEF Cuts
      <3>3. plan \in Plans
        BY DEF Inv
      <3>4. QED
        BY <3>1, <3>2, <3>3, OneSplitTakesTheRow
    <2>2. CASE kernel = "reduce"
      <3>1. out[i] = [n \in Split(plan) |-> SplitKeys(plan, n, seq_lens[i])]
        BY <1>1, <2>2 DEF Inv, ReduceInv
      <3>2. QED
        BY <3>1 DEF Cuts, PlannedCuts
    <2>3. QED
      BY <1>1, <2>1, <2>2
  <1>7. CutsInv'
    <2>1. \A i \in DOMAIN seq_lens' : Cuts(out'[i]) = PlannedCuts(plan', seq_lens'[i])
      BY <1>1, <1>6 DEF Row
    <2>2. QED
      BY <2>1 DEF CutsInv, Row
  <1>4. SingleInv' /\ SplitInv' /\ ReduceInv'
    BY <1>1 DEF SingleInv, SplitInv, ReduceInv
  <1>5. QED
    BY <1>1, <1>3, <1>4, <1>7 DEF Inv

LEMMA KernelStepInv == Inv /\ [AnyLaunch \/ KernelStep]_kernelVars => Inv'
  <1> SUFFICES ASSUME Inv, [AnyLaunch \/ KernelStep]_kernelVars
               PROVE  Inv'
    OBVIOUS
  <1>1. CASE AnyLaunch
    BY <1>1, LaunchInv
  <1>2. ASSUME NEW i \in Row, SingleProgram(i)
        PROVE  Inv'
    BY <1>2, SingleProgramInv
  <1>3. ASSUME NEW i \in Row, NEW n \in Split(plan), SplitProgram(i, n)
        PROVE  Inv'
    BY <1>3, SplitProgramInv
  <1>4. CASE StartReduce
    BY <1>4, StartReduceInv
  <1>5. ASSUME NEW i \in Row, ReduceProgram(i)
        PROVE  Inv'
    BY <1>5, ReduceProgramInv
  <1>6. CASE Finish
    BY <1>6, FinishInv
  <1>7. CASE UNCHANGED kernelVars
    BY <1>7 DEF kernelVars, Inv, SingleInv, SplitInv, ReduceInv, CutsInv, AttendsOnce, Row
  <1>8. QED
    BY <1>1, <1>2, <1>3, <1>4, <1>5, <1>6, <1>7 DEF KernelStep

\* paged_attn.py: whatever plan a launch has and in whatever order its
\* programs run, every row of the result weighs each of its keys once.
THEOREM KernelsAttendOnce == KernelSpec => []AttendsOnce
  <1>1. Inv => AttendsOnce
    BY DEF Inv
  <1>2. QED
    BY KernelInitInv, KernelStepInv, <1>1, PTL DEF KernelSpec

-----------------------------------------------------------------------------
(* The plan.                                                               *)

\* A quotient rounded up.
LEMMA CeilDivCovers ==
    ASSUME NEW n \in Nat, NEW d \in Nat \ {0}
    PROVE  /\ CeilDiv(n, d) \in Nat
           /\ n <= CeilDiv(n, d) * d
           /\ \A m \in Nat : n <= m * d => CeilDiv(n, d) <= m
           /\ \A m \in Nat : n <= m => CeilDiv(n, d) <= CeilDiv(m, d)
BY QuotientRoundedUp DEF CeilDiv, RoundedUp

\* A launch has pages to read, those of its context up to the width of the
\* tables.
LEMMA CtxBlocksCount ==
    ASSUME NEW width \in Nat, NEW max_seq_len \in Nat
    PROVE  /\ CtxBlocks(width, max_seq_len) \in Nat \ {0}
           /\ \A n \in Nat : n <= width /\ n <= NumPages(max_seq_len) =>
                  n <= CtxBlocks(width, max_seq_len)
  <1> DEFINE c == CeilDiv(max_seq_len, BlockSize)
             x == Min({c, width})
  <1>1. c \in Nat /\ NumPages(max_seq_len) = c
    BY CeilDivCovers, BlockSizeAssumption DEF NumPages
  <1>2. CtxBlocks(width, max_seq_len) = Max({1, x})
    BY DEF CtxBlocks
  <1> HIDE DEF c
  <1>3. x \in Nat /\ (x = c \/ x = width)
    BY <1>1, OfTwo
  <1> HIDE DEF x
  <1>4. Max({1, x}) \in Nat /\ 1 <= Max({1, x}) /\ x <= Max({1, x})
    BY <1>3, OfTwo
  <1>5. QED
    BY <1>1, <1>2, <1>3, <1>4

\* Pages of a split in the automatic mode.
LEMMA AutoPages ==
    ASSUME NEW batch \in Nat
    PROVE  AutoPartitionBlocks(batch) \in Nat \ {0}
  <1>1. NextPow2(batch) \in Nat
    BY NextPow2IsLeast
  <1>2. /\ Max({MinPartitionBlocks, NextPow2(batch)}) \in Nat
        /\ MinPartitionBlocks <= Max({MinPartitionBlocks, NextPow2(batch)})
    BY <1>1, OfTwo, MinPartitionAssumption
  <1>3. QED
    BY <1>2, MinPartitionAssumption DEF AutoPartitionBlocks

OnePass(batch, sms, setting) ==
    \/ setting = AutoMode /\ GridFillsGpu(batch, sms)
    \/ setting # AutoMode /\ setting = 0

Pages(batch, setting) == IF setting = AutoMode THEN AutoPartitionBlocks(batch) ELSE setting

\* Every plan is one the kernels accept: one split of all, or splits of so many
\* pages that reach over the launch's context.
LEMMA PlanSizes ==
    ASSUME NEW batch \in Nat, NEW width \in Nat, NEW max_seq_len \in Nat, NEW sms,
           NEW setting \in Nat \cup {AutoMode}
    PROVE  LET p == DecodeSplitPlan(batch, width, max_seq_len, sms, setting)
           IN  /\ p \in Plans
               /\ OnePass(batch, sms, setting) => p.num_splits = 1
               /\ ~OnePass(batch, sms, setting) =>
                     /\ p.blocks_per_split = Pages(batch, setting)
                     /\ CtxBlocks(width, max_seq_len) <= p.num_splits * p.blocks_per_split
  <1> DEFINE c == CtxBlocks(width, max_seq_len)
             pages == Pages(batch, setting)
             p == DecodeSplitPlan(batch, width, max_seq_len, sms, setting)
  <1>1. c \in Nat \ {0}
    BY CtxBlocksCount
  <1>2. /\ pages \in Nat
        /\ pages = 0 <=> setting # AutoMode /\ setting = 0
    BY AutoPages DEF Pages
  <1>3. p = IF OnePass(batch, sms, setting)
            THEN [num_splits |-> 1, blocks_per_split |-> c]
            ELSE [num_splits |-> CeilDiv(c, pages), blocks_per_split |-> pages]
    <2>1. p = IF (setting = AutoMode /\ GridFillsGpu(batch, sms)) \/ pages = 0
              THEN [num_splits |-> 1, blocks_per_split |-> c]
              ELSE [num_splits |-> CeilDiv(c, pages), blocks_per_split |-> pages]
      BY DEF DecodeSplitPlan, Pages, NumSplits
    <2>2. (setting = AutoMode /\ GridFillsGpu(batch, sms)) \/ pages = 0
              <=> OnePass(batch, sms, setting)
      BY <1>2 DEF OnePass
    <2> HIDE DEF p, c, pages
    <2>3. QED
      BY <2>1, <2>2
  <1> HIDE DEF c, pages, p
  <1>4. CASE OnePass(batch, sms, setting)
    BY <1>1, <1>3, <1>4 DEF p, Plans
  <1>5. CASE ~OnePass(batch, sms, setting)
    <2>1. pages \in Nat \ {0}
      BY <1>2, <1>5 DEF OnePass
    <2>2. CeilDiv(c, pages) \in Nat /\ c <= CeilDiv(c, pages) * pages
      BY <1>1, <2>1, CeilDivCovers
    <2>3. CeilDiv(c, pages) # 0
      BY <1>1, <2>1, <2>2
    <2>4. p = [num_splits |-> CeilDiv(c, pages), blocks_per_split |-> pages]
      BY <1>3, <1>5
    <2> HIDE DEF OnePass
    <2>5. QED
      BY <1>5, <2>1, <2>2, <2>3, <2>4 DEF p, pages, c, Plans
  <1>6. QED
    BY <1>4, <1>5

\* The parts of a row cut every d pages.
CutsEvery(d, len) == {KeysOfPages(n * d, n * d + d, len) : n \in Nat} \ {{}}

\* Splits that reach over a row cut it every so many pages: where the last one
\* ends, and whether others follow it, leaves no trace.
LEMMA SplitsCutEvery ==
    ASSUME NEW len \in Nat, NEW p \in Plans,
           NumPages(len) <= p.num_splits * p.blocks_per_split
    PROVE  PlannedCuts(p, len) = CutsEvery(p.blocks_per_split, len)
  <1> DEFINE d == p.blocks_per_split
             N == p.num_splits
             last == N - 1
             piece(n) == KeysOfPages(n * d, n * d + d, len)
  <1>1. d \in Nat \ {0} /\ N \in Nat \ {0} /\ last \in Nat /\ Split(p) = 0 .. last
    BY DEF Plans, Split
  <1>2. NumPages(len) \in Nat
    BY CeilDivCovers, BlockSizeAssumption DEF NumPages
  <1>3. \A pos \in 0 .. len - 1 : /\ pos \div BlockSize \in Nat
                                  /\ pos \div BlockSize < NumPages(len)
    BY PageOfPosition
  <1>4. last * d + d = N * d /\ N * d \in Nat /\ NumPages(len) <= N * d
    BY <1>1
  <1> HIDE DEF d, N, last
  <1>5. ASSUME NEW n \in 0 .. last PROVE SplitKeys(p, n, len) = piece(n)
    <2>1. CASE n # last
      BY <2>1 DEF SplitKeys, SplitStart, d, last, N
    <2>2. CASE n = last
      <3>1. SplitKeys(p, n, len) = KeysOfPages(n * d, NumPages(len), len)
        BY <2>2 DEF SplitKeys, SplitStart, d, last, N
      <3>2. \A pos \in 0 .. len - 1 :
                pos \div BlockSize < NumPages(len) /\ pos \div BlockSize < n * d + d
        BY <1>2, <1>3, <1>4, <2>2
      <3>3. QED
        BY <3>1, <3>2 DEF KeysOfPages
    <2>3. QED
      BY <2>1, <2>2
  <1>6. ASSUME NEW n \in Nat, last < n PROVE piece(n) = {}
    <2>1. N <= n
      BY <1>1, <1>6 DEF last
    <2>2. N * d <= n * d /\ n * d \in Nat
      BY <1>1, <2>1, TimesMonotone
    <2>3. \A pos \in 0 .. len - 1 : ~(pos \div BlockSize >= n * d)
      BY <1>2, <1>3, <1>4, <2>2
    <2>4. QED
      BY <2>3 DEF KeysOfPages
  <1> HIDE DEF piece
  <1>7. PlannedCuts(p, len) = {piece(n) : n \in 0 .. last} \ {{}}
    BY <1>1, <1>5 DEF PlannedCuts
  <1>8. {piece(n) : n \in 0 .. last} \ {{}} = {piece(n) : n \in Nat} \ {{}}
    <2>1. \A n \in Nat : piece(n) = {} \/ n \in 0 .. last
      BY <1>1, <1>6
    <2>2. 0 .. last \subseteq Nat
      BY <1>1
    <2>3. QED
      BY <2>1, <2>2
  <1>9. QED
    BY <1>7, <1>8 DEF CutsEvery, piece, d

-----------------------------------------------------------------------------
(* What decode launches.                                                   *)

IsBatch(lens) == \E k \in 1 .. MaxRows : lens \in [1 .. k -> Lengths]

\* The longest row of a batch is one of them.
LEMMA LongestRow ==
    ASSUME NEW lens, IsBatch(lens)
    PROVE  /\ Len(lens) \in Nat \ {0} /\ DOMAIN lens = 1 .. Len(lens) /\ lens \in Seq(Nat)
           /\ Longest(lens) \in Nat
           /\ \A i \in DOMAIN lens : lens[i] \in Nat /\ lens[i] <= Longest(lens)
  <1>1. PICK k \in 1 .. MaxRows : lens \in [1 .. k -> Lengths]
    BY DEF IsBatch
  <1>2. k \in Nat \ {0} /\ \A i \in 1 .. k : lens[i] \in Nat
    <2>1. k \in Nat \ {0}
      BY LengthsAssumption
    <2>2. \A i \in 1 .. k : lens[i] \in Lengths
      BY <1>1
    <2>3. QED
      BY <2>1, <2>2, LengthsAssumption
  <1>3. lens \in Seq(Nat) /\ Len(lens) = k /\ DOMAIN lens = 1 .. k
    BY <1>1, <1>2
  <1>4. Longest(lens) \in Nat /\ \A i \in 1 .. k : lens[i] <= Longest(lens)
    BY <1>2, <1>3, MaxOfValues DEF Longest
  <1>5. QED
    BY <1>2, <1>3, <1>4

\* A bucket that a number fits is the least that holds it.
LEMMA BucketCovers ==
    ASSUME NEW buckets \in SUBSET (Nat \ {0}), buckets # {}, IsFiniteSet(buckets)
    PROVE  /\ Max(buckets) \in buckets /\ Max(buckets) \in Nat
           /\ \A n \in Nat : n <= Max(buckets) =>
                 /\ CeilToBucket(n, buckets) \in buckets
                 /\ CeilToBucket(n, buckets) \in Nat
                 /\ n <= CeilToBucket(n, buckets)
                 /\ CeilToBucket(n, buckets) <= Max(buckets)
                 /\ \A b \in buckets : n <= b => CeilToBucket(n, buckets) <= b
  <1>1. Max(buckets) \in buckets /\ \A y \in buckets : y <= Max(buckets)
    BY MaxOfFinite
  <1>2. ASSUME NEW n \in Nat, n <= Max(buckets)
        PROVE  /\ CeilToBucket(n, buckets) \in buckets
               /\ n <= CeilToBucket(n, buckets)
               /\ \A b \in buckets : n <= b => CeilToBucket(n, buckets) <= b
    <2> DEFINE S == {b \in buckets : b >= n}
    <2>1. S \in SUBSET Nat /\ S # {}
      BY <1>1, <1>2
    <2>2. Min(S) \in S /\ \A y \in S : Min(S) <= y
      BY <2>1, MinOfNats
    <2>3. Min(S) = CeilToBucket(n, buckets)
      BY DEF CeilToBucket
    <2>4. QED
      BY <2>2, <2>3
  <1>3. QED
    BY <1>1, <1>2

\* The batch buckets are the powers of two in a row, so that the bucket of a
\* batch is the power of two that the eager plan rounds it to.
LEMMA BucketIsNextPow2 ==
    ASSUME NEW n \in Nat, n <= Max(BatchBuckets)
    PROVE  /\ CeilToBucket(n, BatchBuckets) = NextPow2(n)
           /\ NextPow2(CeilToBucket(n, BatchBuckets)) = NextPow2(n)
  <1> DEFINE c == CeilToBucket(n, BatchBuckets)
             m == Cardinality(BatchBuckets) - 1
             q == NextPow2(n)
  <1>1. m \in Nat /\ BatchBuckets = {Pow2[k] : k \in 0 .. m}
    <2>1. Cardinality(BatchBuckets) \in Nat /\ Cardinality(BatchBuckets) # 0
      BY BucketsAssumption, FS_CardinalityType, FS_EmptySet
    <2>2. QED
      BY <2>1, PowersAssumption
  <1>2. /\ c \in BatchBuckets /\ n <= c /\ c \in Nat
        /\ \A b \in BatchBuckets : n <= b => c <= b
    BY BucketCovers, BucketsAssumption
  <1> HIDE DEF c, m
  <1>3. PICK j \in 0 .. m : c = Pow2[j]
    BY <1>1, <1>2
  <1>4. q \in Nat /\ n <= q /\ \A k \in Nat : n <= Pow2[k] => q <= Pow2[k]
    BY NextPow2IsLeast
  <1>5. PICK i \in Nat : q = Pow2[i]
    BY NextPow2IsLeast
  <1>6. q <= c
    BY <1>1, <1>2, <1>3, <1>4
  <1>7. i <= j
    <2>1. ASSUME j < i PROVE FALSE
      <3>1. Pow2[j] < Pow2[i]
        BY <1>1, <1>3, <1>5, <2>1, Pow2Grows
      <3>2. QED
        BY <1>2, <1>3, <1>4, <1>5, <1>6, <3>1
    <2>2. QED
      BY <1>1, <1>3, <1>5, <2>1
  <1>8. q \in BatchBuckets
    BY <1>1, <1>3, <1>5, <1>7
  <1>9. c = q
    BY <1>2, <1>4, <1>6, <1>8
  <1>10. NextPow2(q) = q
    <2>1. NextPow2(q) \in Nat /\ q <= NextPow2(q) /\ NextPow2(q) <= q
      BY <1>4, <1>5, NextPow2IsLeast
    <2>2. QED
      BY <1>4, <2>1
  <1>11. QED
    BY <1>9, <1>10 DEF c

\* What the eager and the captured launch of a batch ask for: a plan for as
\* many pages as each of its rows has.
LEMMA LaunchPlans ==
    ASSUME NEW lens, IsBatch(lens), partition \in Nat \cup {AutoMode}
    PROVE  /\ EagerPlan(lens) \in Plans
           /\ OnePass(Len(lens), num_sms, partition) => EagerPlan(lens).num_splits = 1
           /\ ~OnePass(Len(lens), num_sms, partition) =>
                 /\ EagerPlan(lens).blocks_per_split = Pages(Len(lens), partition)
                 /\ NumPages(Longest(lens)) <=
                        EagerPlan(lens).num_splits * EagerPlan(lens).blocks_per_split
           /\ CanGraph(lens) =>
                 /\ GraphRows(lens) \in Seq(Nat)
                 /\ \A i \in DOMAIN lens : i \in DOMAIN GraphRows(lens) /\ GraphRows(lens)[i] = lens[i]
                 /\ GraphPlan(lens) \in Plans
                 /\ OnePass(Len(lens), num_sms, partition) => GraphPlan(lens).num_splits = 1
                 /\ ~OnePass(Len(lens), num_sms, partition) =>
                       /\ GraphPlan(lens).blocks_per_split = Pages(Len(lens), partition)
                       /\ NumPages(Longest(lens)) <=
                              GraphPlan(lens).num_splits * GraphPlan(lens).blocks_per_split
  <1> DEFINE n == Len(lens)
             L == Longest(lens)
             w == NumPages(L)
  <1>1. n \in Nat \ {0} /\ DOMAIN lens = 1 .. n /\ L \in Nat /\ w \in Nat
        /\ \A i \in DOMAIN lens : lens[i] \in Nat
    <2>1. n \in Nat \ {0} /\ DOMAIN lens = 1 .. n /\ L \in Nat
          /\ \A i \in DOMAIN lens : lens[i] \in Nat
      BY LongestRow
    <2>2. QED
      BY <2>1, CeilDivCovers, BlockSizeAssumption DEF NumPages
  <1>2. EagerPlan(lens) = DecodeSplitPlan(n, w, L, num_sms, partition)
    BY DEF EagerPlan, Plan
  <1>3. w <= CtxBlocks(w, L) /\ CtxBlocks(w, L) \in Nat
    <2>1. w <= w /\ w <= NumPages(L)
      BY <1>1
    <2> HIDE DEF L, w
    <2>2. QED
      BY <1>1, <2>1, CtxBlocksCount
  <1> HIDE DEF n, L, w
  <1>4. /\ EagerPlan(lens) \in Plans
        /\ OnePass(n, num_sms, partition) => EagerPlan(lens).num_splits = 1
        /\ ~OnePass(n, num_sms, partition) =>
              /\ EagerPlan(lens).blocks_per_split = Pages(n, partition)
              /\ CtxBlocks(w, L) <=
                     EagerPlan(lens).num_splits * EagerPlan(lens).blocks_per_split
    BY <1>1, <1>2, PlanSizes
  <1>5. ~OnePass(n, num_sms, partition) =>
            w <= EagerPlan(lens).num_splits * EagerPlan(lens).blocks_per_split
    <2>1. EagerPlan(lens).num_splits * EagerPlan(lens).blocks_per_split \in Nat
      BY <1>4 DEF Plans
    <2>2. QED
      BY <1>1, <1>3, <1>4, <2>1
  <1>6. ASSUME CanGraph(lens)
        PROVE  /\ GraphRows(lens) \in Seq(Nat)
               /\ \A i \in DOMAIN lens : i \in DOMAIN GraphRows(lens) /\ GraphRows(lens)[i] = lens[i]
               /\ GraphPlan(lens) \in Plans
               /\ OnePass(n, num_sms, partition) => GraphPlan(lens).num_splits = 1
               /\ ~OnePass(n, num_sms, partition) =>
                     /\ GraphPlan(lens).blocks_per_split = Pages(n, partition)
                     /\ w <= GraphPlan(lens).num_splits * GraphPlan(lens).blocks_per_split
    <2> DEFINE b == CeilToBucket(n, BatchBuckets)
               C == CeilToBucket(L, CtxBuckets)
               top == Max(CtxBuckets)
               wide == CeilDiv(top, BlockSize) + 1
    <2>1. n <= Max(BatchBuckets) /\ L <= Max(CtxBuckets)
      BY <1>6 DEF CanGraph, n, L
    <2>2. b \in Nat /\ n <= b
      BY <1>1, <2>1, BucketCovers, BucketsAssumption
    <2>3. C \in Nat /\ L <= C /\ C <= top /\ top \in Nat
      BY <1>1, <2>1, BucketCovers, BucketsAssumption
    <2>4. NextPow2(b) = NextPow2(n)
      BY <1>1, <2>1, BucketIsNextPow2
    <2>5. GraphRows(lens) = [i \in 1 .. b |-> IF i <= n THEN lens[i] ELSE 0]
      BY DEF GraphRows, n
    <2> HIDE DEF b, C, top
    <2>6. /\ GraphRows(lens) \in Seq(Nat) /\ Len(GraphRows(lens)) = b
          /\ \A i \in DOMAIN lens : i \in DOMAIN GraphRows(lens) /\ GraphRows(lens)[i] = lens[i]
      <3>1. \A i \in 1 .. b : (IF i <= n THEN lens[i] ELSE 0) \in Nat
        BY <1>1, <2>2
      <3>2. GraphRows(lens) \in [1 .. b -> Nat]
        BY <2>5, <3>1
      <3>3. GraphRows(lens) \in Seq(Nat) /\ Len(GraphRows(lens)) = b
        BY <2>2, <3>2
      <3>4. \A i \in DOMAIN lens : i \in 1 .. b /\ i <= n
        BY <1>1, <2>2
      <3>5. QED
        BY <2>5, <3>3, <3>4
    <2>7. GraphPlan(lens) = DecodeSplitPlan(b, wide, C, num_sms, partition)
      BY <2>6 DEF GraphPlan, Plan, C, top, L
    <2>8. wide \in Nat /\ w <= wide /\ w <= NumPages(C)
      <3>1. CeilDiv(top, BlockSize) \in Nat
        BY <2>3, CeilDivCovers, BlockSizeAssumption
      <3>2. CeilDiv(L, BlockSize) <= CeilDiv(top, BlockSize)
        <4>1. L <= top
          BY <1>1, <2>3
        <4>2. QED
          BY <1>1, <2>3, <4>1, CeilDivCovers, BlockSizeAssumption
      <3>3. CeilDiv(L, BlockSize) <= CeilDiv(C, BlockSize)
        BY <1>1, <2>3, CeilDivCovers, BlockSizeAssumption
      <3>4. w = CeilDiv(L, BlockSize)
        BY DEF NumPages, w
      <3>5. QED
        BY <1>1, <3>1, <3>2, <3>3, <3>4 DEF NumPages
    <2> HIDE DEF wide
    <2>9. w <= CtxBlocks(wide, C) /\ CtxBlocks(wide, C) \in Nat
      <3>1. QED
        BY <1>1, <2>3, <2>8, CtxBlocksCount
    <2>10. /\ OnePass(b, num_sms, partition) <=> OnePass(n, num_sms, partition)
           /\ Pages(b, partition) = Pages(n, partition)
      BY <2>4 DEF OnePass, Pages, GridFillsGpu, AutoPartitionBlocks
    <2>11. /\ GraphPlan(lens) \in Plans
           /\ OnePass(b, num_sms, partition) => GraphPlan(lens).num_splits = 1
           /\ ~OnePass(b, num_sms, partition) =>
                 /\ GraphPlan(lens).blocks_per_split = Pages(b, partition)
                 /\ CtxBlocks(wide, C) <=
                        GraphPlan(lens).num_splits * GraphPlan(lens).blocks_per_split
      BY <2>2, <2>3, <2>7, <2>8, PlanSizes
    <2>12. GraphPlan(lens).num_splits * GraphPlan(lens).blocks_per_split \in Nat
      BY <2>11 DEF Plans
    <2>13. ~OnePass(n, num_sms, partition) =>
              w <= GraphPlan(lens).num_splits * GraphPlan(lens).blocks_per_split
      BY <1>1, <2>9, <2>10, <2>11, <2>12
    <2>14. QED
      BY <2>6, <2>10, <2>11, <2>13
  <1>7. QED
    BY <1>4, <1>5, <1>6 DEF n, L, w

\* The eager and the captured launch of a batch cut every row of it at the
\* same pages: not at all when their plan is one pass, which is decided by the
\* power of two they both round the batch to, and every so many pages else.
LEMMA PlansAlike ==
    ASSUME NEW lens, IsBatch(lens), CanGraph(lens), partition \in Nat \cup {AutoMode},
           NEW i \in DOMAIN lens
    PROVE  PlannedCuts(EagerPlan(lens), lens[i]) = PlannedCuts(GraphPlan(lens), lens[i])
  <1> DEFINE e == EagerPlan(lens)
             g == GraphPlan(lens)
             L == Longest(lens)
             one == OnePass(Len(lens), num_sms, partition)
             pages == Pages(Len(lens), partition)
  <1>1. lens[i] \in Nat /\ L \in Nat /\ lens[i] <= L
    BY LongestRow
  <1>2. NumPages(lens[i]) <= NumPages(L) /\ NumPages(lens[i]) \in Nat /\ NumPages(L) \in Nat
    <2> HIDE DEF L
    <2>1. QED
      BY <1>1, CeilDivCovers, BlockSizeAssumption DEF NumPages
  <1>3. /\ e \in Plans
        /\ one => e.num_splits = 1
        /\ ~one => e.blocks_per_split = pages /\ NumPages(L) <= e.num_splits * e.blocks_per_split
        /\ g \in Plans
        /\ one => g.num_splits = 1
        /\ ~one => g.blocks_per_split = pages /\ NumPages(L) <= g.num_splits * g.blocks_per_split
    BY LaunchPlans
  <1> HIDE DEF e, g, L, one, pages
  <1>4. CASE one
    <2>1. PlannedCuts(e, lens[i]) = {RowKeys(lens[i])} \ {{}}
      BY <1>3, <1>4, OneSplitTakesTheRow
    <2>2. PlannedCuts(g, lens[i]) = {RowKeys(lens[i])} \ {{}}
      BY <1>3, <1>4, OneSplitTakesTheRow
    <2>3. QED
      BY <2>1, <2>2 DEF e, g
  <1>5. CASE ~one
    <2>1. e.num_splits * e.blocks_per_split \in Nat /\ g.num_splits * g.blocks_per_split \in Nat
      BY <1>3 DEF Plans
    <2>2. /\ NumPages(lens[i]) <= e.num_splits * e.blocks_per_split
          /\ NumPages(lens[i]) <= g.num_splits * g.blocks_per_split
      BY <1>2, <1>3, <1>5, <2>1
    <2>3. /\ PlannedCuts(e, lens[i]) = CutsEvery(e.blocks_per_split, lens[i])
          /\ PlannedCuts(g, lens[i]) = CutsEvery(g.blocks_per_split, lens[i])
      BY <1>1, <1>3, <2>2, SplitsCutEvery
    <2>4. QED
      BY <1>3, <1>5, <2>3 DEF e, g
  <1>6. QED
    BY <1>4, <1>5

-----------------------------------------------------------------------------
(* The invariant of the callers: what is in flight is what the last launch *)
(* asked for.                                                              *)

CallerInv ==
    /\ partition \in Settings
    /\ path = "eager" =>
          IsBatch(live) /\ seq_lens = live /\ plan = EagerPlan(live)
    /\ path = "graph" =>
          /\ IsBatch(live) /\ CanGraph(live)
          /\ seq_lens = GraphRows(live) /\ plan = GraphPlan(live)

LEMMA CallerInit == Init => KernelInit /\ CallerInv
  BY DEF Init, CallerInv

\* The launch of a batch, on any of the paths, is one the kernels accept.
LEMMA LaunchStep ==
    ASSUME CallerInv, NEW lens, IsBatch(lens),
           \/ LaunchEager(lens)
           \/ LaunchGraph(lens)
           \/ \E bucket \in CtxBuckets : LaunchForBucket(lens, bucket)
    PROVE  AnyLaunch /\ CallerInv'
  <1>1. partition \in Nat \cup {AutoMode} /\ partition \in Settings
    BY SettingsAssumption DEF CallerInv
  <1>2. CASE LaunchEager(lens)
    <2>1. /\ path' = "eager" /\ live' = lens /\ num_sms' = num_sms /\ partition' = partition
          /\ Launch(lens, EagerPlan(lens)) /\ seq_lens' = lens /\ plan' = EagerPlan(lens)
      BY <1>2 DEF LaunchEager, Launch
    <2>2. lens \in Seq(Nat) /\ EagerPlan(lens) \in Plans
      BY <1>1, LongestRow, LaunchPlans
    <2>3. AnyLaunch
      BY <2>1, <2>2 DEF AnyLaunch
    <2>4. EagerPlan(live)' = EagerPlan(lens)
      BY <2>1 DEF EagerPlan, Plan
    <2>5. QED
      BY <1>1, <2>1, <2>3, <2>4 DEF CallerInv
  <1>3. CASE LaunchGraph(lens)
    <2>1. /\ path' = "graph" /\ live' = lens /\ num_sms' = num_sms /\ partition' = partition
          /\ CanGraph(lens) /\ Launch(GraphRows(lens), GraphPlan(lens))
          /\ seq_lens' = GraphRows(lens) /\ plan' = GraphPlan(lens)
      BY <1>3 DEF LaunchGraph, Launch
    <2>2. GraphRows(lens) \in Seq(Nat) /\ GraphPlan(lens) \in Plans
      BY <1>1, <2>1, LaunchPlans
    <2>3. AnyLaunch
      BY <2>1, <2>2 DEF AnyLaunch
    <2>4. GraphPlan(live)' = GraphPlan(lens) /\ GraphRows(live') = GraphRows(lens)
      BY <2>1 DEF GraphPlan, Plan
    <2>5. QED
      BY <1>1, <2>1, <2>3, <2>4 DEF CallerInv
  <1>4. ASSUME NEW bucket \in CtxBuckets, LaunchForBucket(lens, bucket)
        PROVE  AnyLaunch /\ CallerInv'
    <2> DEFINE p == Plan(lens, NumPages(Longest(lens)), bucket)
    <2>1. /\ path' = "caller" /\ partition' = partition
          /\ Launch(lens, p) /\ seq_lens' = lens /\ plan' = p
      BY <1>4 DEF LaunchForBucket, Launch
    <2>2. lens \in Seq(Nat) /\ Len(lens) \in Nat /\ Longest(lens) \in Nat
      BY LongestRow
    <2>3. bucket \in Nat
      BY BucketsAssumption
    <2>4. NumPages(Longest(lens)) \in Nat
      BY <2>2, CeilDivCovers, BlockSizeAssumption DEF NumPages
    <2>5. p \in Plans
      BY <1>1, <2>2, <2>3, <2>4, PlanSizes DEF Plan
    <2> HIDE DEF p
    <2>6. AnyLaunch
      BY <2>1, <2>2, <2>5 DEF AnyLaunch
    <2>7. QED
      BY <1>1, <2>1, <2>6 DEF CallerInv
  <1>5. QED
    BY <1>2, <1>3, <1>4

LEMMA CallerStep ==
    CallerInv /\ [Next]_vars => [AnyLaunch \/ KernelStep]_kernelVars /\ CallerInv'
  <1> SUFFICES ASSUME CallerInv, [Next]_vars
               PROVE  [AnyLaunch \/ KernelStep]_kernelVars /\ CallerInv'
    OBVIOUS
  <1>1. ASSUME NEW k \in 1 .. MaxRows, NEW lens \in [1 .. k -> Lengths],
               \/ LaunchEager(lens)
               \/ LaunchGraph(lens)
               \/ \E bucket \in CtxBuckets : LaunchForBucket(lens, bucket)
        PROVE  AnyLaunch /\ CallerInv'
    <2>1. IsBatch(lens)
      BY DEF IsBatch
    <2>2. QED
      BY <1>1, <2>1, LaunchStep
  <1>2. ASSUME KernelStep \/ UNCHANGED kernelVars, UNCHANGED callerVars
        PROVE  CallerInv'
    <2>1. /\ seq_lens' = seq_lens /\ plan' = plan /\ path' = path /\ live' = live
          /\ num_sms' = num_sms /\ partition' = partition
      BY <1>2 DEF KernelStep, SingleProgram, SplitProgram, StartReduce, ReduceProgram,
                  Finish, kernelVars, callerVars
    <2>2. EagerPlan(live)' = EagerPlan(live) /\ GraphPlan(live)' = GraphPlan(live)
      BY <2>1 DEF EagerPlan, GraphPlan, Plan
    <2>3. QED
      BY <2>1, <2>2 DEF CallerInv
  <1>3. CASE Next
    BY <1>1, <1>2, <1>3 DEF Next
  <1>4. CASE UNCHANGED vars
    BY <1>2, <1>4 DEF vars
  <1>5. QED
    BY <1>3, <1>4

\* decode_split.py and its callers: decode launches the kernels as they may be
\* launched, whatever the batch, its context, the device and the setting.
THEOREM DecodeLaunchesKernels == Spec => KernelSpec
  <1>1. CallerInv /\ [Next]_vars => [AnyLaunch \/ KernelStep]_kernelVars
    BY CallerStep
  <1>2. CallerInv /\ [Next]_vars => CallerInv'
    BY CallerStep
  <1>3. QED
    BY CallerInit, <1>1, <1>2, PTL DEF Spec, KernelSpec

\* paged_attn.py: so every row of a decode step weighs each of its keys once.
THEOREM DecodeAttendsOnce == Spec => []AttendsOnce
  BY DecodeLaunchesKernels, KernelsAttendOnce, PTL

LEMMA CutsAlike == Inv /\ CallerInv => EagerAndGraphCutAlike
  <1> SUFFICES ASSUME Inv, CallerInv, kernel = "done", path \in {"eager", "graph"},
                      CanGraph(live), NEW i \in DOMAIN live
               PROVE  /\ Cuts(out[i]) = PlannedCuts(EagerPlan(live), live[i])
                      /\ Cuts(out[i]) = PlannedCuts(GraphPlan(live), live[i])
    BY DEF EagerAndGraphCutAlike
  <1>1. partition \in Nat \cup {AutoMode} /\ IsBatch(live)
    BY SettingsAssumption DEF CallerInv
  <1>2. PlannedCuts(EagerPlan(live), live[i]) = PlannedCuts(GraphPlan(live), live[i])
    BY <1>1, PlansAlike
  <1>3. \A j \in DOMAIN seq_lens : Cuts(out[j]) = PlannedCuts(plan, seq_lens[j])
    BY DEF Inv, CutsInv, Row
  <1>4. CASE path = "eager"
    BY <1>2, <1>3, <1>4 DEF CallerInv
  <1>5. CASE path = "graph"
    <2>1. i \in DOMAIN GraphRows(live) /\ GraphRows(live)[i] = live[i]
      BY <1>1, LaunchPlans
    <2>2. seq_lens = GraphRows(live) /\ plan = GraphPlan(live)
      BY <1>5 DEF CallerInv
    <2>3. QED
      BY <1>2, <1>3, <2>1, <2>2
  <1>6. QED
    BY <1>4, <1>5

\* decode_split.py:35-39: eager decode and the graph of the batch's bucket cut
\* every row at the same pages, whatever is live and however the buckets pad it.
THEOREM EagerAndGraphAlwaysCutAlike == Spec => []EagerAndGraphCutAlike
  <1>1. CallerInv /\ [Next]_vars => CallerInv'
    BY CallerStep
  <1>2. CallerInv /\ [Next]_vars => [AnyLaunch \/ KernelStep]_kernelVars
    BY CallerStep
  <1>3. QED
    BY CallerInit, <1>1, <1>2, KernelInitInv, KernelStepInv, CutsAlike, PTL DEF Spec
=============================================================================
