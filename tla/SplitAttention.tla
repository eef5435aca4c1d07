--------------------------- MODULE SplitAttention ---------------------------
(***************************************************************************)
(* The kernels of one-token attention on the GPU (kernels/paged_attn.py).  *)
(*                                                                         *)
(* A launch is a grid of programs that run in any order.  One program of   *)
(* the single-pass kernel attends to a row; with more than one split, one  *)
(* program attends to one split of a row and leaves a partial result, and  *)
(* the kernel after it reduces the partials of a row.  A kernel starts     *)
(* when the one before it is over.                                         *)
(*                                                                         *)
(* Abstractions.  A partial softmax is the set of positions whose keys it  *)
(* weighs; a finished row is its partials in order.  KV heads do the same  *)
(* work side by side, and one stands for all.  A row reads through its own *)
(* table, page b at entry b, so a key is named by its position; which      *)
(* block the entry holds is the subject of modules Engine and              *)
(* DecodeInputs.                                                           *)
(***************************************************************************)
EXTENDS Integers, Sequences

CONSTANT BlockSize         \* tokens of a page

ASSUME BlockSizeAssumption == BlockSize \in Nat \ {0}

VARIABLES
    seq_lens,              \* lengths of the rows of the launch, 0 for padding
    plan,                  \* num_splits and blocks_per_split
    kernel,                \* "none", "single", "split", "reduce" or "done"
    todo,                  \* programs of the kernel that have still to run
    part,                  \* part_out and part_lse, by row and split
    out                    \* rows of the result, each by split

kernelVars == <<seq_lens, plan, kernel, todo, part, out>>

CeilDiv(n, d) == (n + d - 1) \div d

-----------------------------------------------------------------------------
(* What a program reads.                                                   *)

\* The width of the tables, MAX_BLOCKS, never cuts a row: they hold every page.
NumPages(len) == CeilDiv(len, BlockSize)

SplitStart(p, n) == n * p.blocks_per_split

\* The positions of pages first .. end - 1, those past the row masked.
KeysOfPages(first, end, len) ==
    {pos \in 0 .. len - 1 : pos \div BlockSize >= first /\ pos \div BlockSize < end}

\* Mutant: the last split is cut like the others.
SplitKeysOnBucket(p, n, len) ==
    KeysOfPages(SplitStart(p, n), SplitStart(p, n) + p.blocks_per_split, len)
\* The last split runs to the end of the row.
SplitKeys(p, n, len) ==
    KeysOfPages(SplitStart(p, n),
                IF n = p.num_splits - 1 THEN NumPages(len)
                ELSE SplitStart(p, n) + p.blocks_per_split,
                len)

RowKeys(len) == KeysOfPages(0, NumPages(len), len)

\* Memory that nothing has written: no position is -1.
Uninitialised == {-1}

Split(p) == 0 .. p.num_splits - 1
Row == DOMAIN seq_lens
Programs(rows, splits) == (DOMAIN rows) \X splits

-----------------------------------------------------------------------------
(* A launch allocates and starts the first kernel.  The result is zeroed   *)
(* for the single pass only, and the partials are never cleared.           *)

Idle == kernel \in {"none", "done"}

Launch(rows, p) ==
    /\ Idle
    /\ seq_lens' = rows
    /\ plan' = p
    /\ kernel' = IF p.num_splits > 1 THEN "split" ELSE "single"
    /\ todo' = Programs(rows, Split(p))
    /\ part' = [prog \in Programs(rows, Split(p)) |-> Uninitialised]
    /\ out' = [i \in DOMAIN rows |->
                  [n \in {0} |-> IF p.num_splits > 1 THEN Uninitialised ELSE {}]]

\* paged_decode_attn_kernel; a padded row returns at once and stays zero.
SingleProgram(i) ==
    /\ kernel = "single"
    /\ <<i, 0>> \in todo
    /\ todo' = todo \ {<<i, 0>>}
    /\ out' = IF seq_lens[i] = 0 THEN out
              ELSE [out EXCEPT ![i] = [n \in {0} |-> RowKeys(seq_lens[i])]]
    /\ UNCHANGED <<seq_lens, plan, kernel, part>>

\* paged_decode_attn_split_kernel; an empty split writes too.
SplitProgram(i, n) ==
    /\ kernel = "split"
    /\ <<i, n>> \in todo
    /\ todo' = todo \ {<<i, n>>}
    /\ part' = [part EXCEPT ![<<i, n>>] = SplitKeys(plan, n, seq_lens[i])]
    /\ UNCHANGED <<seq_lens, plan, kernel, out>>

StartReduce ==
    /\ kernel = "split"
    /\ todo = {}
    /\ kernel' = "reduce"
    /\ todo' = Programs(seq_lens, {0})
    /\ UNCHANGED <<seq_lens, plan, part, out>>

\* paged_decode_attn_reduce_kernel
ReduceProgram(i) ==
    /\ kernel = "reduce"
    /\ <<i, 0>> \in todo
    /\ todo' = todo \ {<<i, 0>>}
    /\ out' = [out EXCEPT ![i] = [n \in Split(plan) |-> part[<<i, n>>]]]
    /\ UNCHANGED <<seq_lens, plan, kernel, part>>

Finish ==
    /\ kernel \in {"single", "reduce"}
    /\ todo = {}
    /\ kernel' = "done"
    /\ UNCHANGED <<seq_lens, plan, todo, part, out>>

KernelStep ==
    \/ \E i \in Row : SingleProgram(i)
    \/ \E i \in Row, n \in Split(plan) : SplitProgram(i, n)
    \/ StartReduce
    \/ \E i \in Row : ReduceProgram(i)
    \/ Finish

KernelInit ==
    /\ seq_lens = << >>
    /\ plan = [num_splits |-> 1, blocks_per_split |-> 1]
    /\ kernel = "none"
    /\ todo = {}
    /\ part = << >>
    /\ out = << >>

Plans == [num_splits : Nat \ {0}, blocks_per_split : Nat \ {0}]

\* What the kernels accept: rows of any length, with any plan, in particular
\* one that has too many or too few splits for a row.
AnyLaunch ==
    /\ seq_lens' \in Seq(Nat)
    /\ plan' \in Plans
    /\ Launch(seq_lens', plan')

KernelSpec == KernelInit /\ [][AnyLaunch \/ KernelStep]_kernelVars

-----------------------------------------------------------------------------
(* Properties.                                                             *)

\* A row whose partials are w weighs each position once: each in exactly one
\* partial, and nothing past its length.
WeighsOnce(w, len) ==
    /\ \A n \in DOMAIN w : w[n] \subseteq 0 .. len - 1
    /\ \A pos \in 0 .. len - 1 :
          \E n \in DOMAIN w : /\ pos \in w[n]
                             /\ \A m \in DOMAIN w : pos \in w[m] => m = n

\* Every row of a finished launch, padded or longer than what the launch was
\* sized for, weighs each of its keys once and reads no memory that no program
\* has written, in whatever order the programs ran.
AttendsOnce ==
    kernel = "done" => \A i \in Row : WeighsOnce(out[i], seq_lens[i])
=============================================================================
