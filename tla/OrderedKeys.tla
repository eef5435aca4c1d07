---------------------------- MODULE OrderedKeys ----------------------------
(***************************************************************************)
(* A queue of distinct keys from which a key may be deleted anywhere: the  *)
(* OrderedDict of free blocks in babyvllm/kv_cache_manager.py, and the     *)
(* scheduler's running list and waiting deque.  Front first.               *)
(***************************************************************************)
EXTENDS Naturals, Sequences, SequencesExt

\* The members of q that are in S, in their order in q.
Keep(q, S) ==
    LET kept[i \in 0 .. Len(q)] ==
            IF i = 0 THEN << >>
            ELSE IF q[i] \in S THEN Append(kept[i - 1], q[i])
            ELSE kept[i - 1]
    IN  kept[Len(q)]

\* q without the keys in S.
Delete(q, S) == Keep(q, ToSet(q) \ S)

=============================================================================
