---------------------------- MODULE DecodeInputs ----------------------------
(***************************************************************************)
(* The captured decode path: class DecodeInputs (worker/decode_inputs.py), *)
(* the host arrays edited in place from step to step, and the part of      *)
(* class ModelRunner (worker/model_runner.py) that copies them to the      *)
(* static buffers of a CUDA graph, captures and replays it.                *)
(*                                                                         *)
(* It is composed with the KV cache manager of module KVCacheManager,      *)
(* whose state machine allocates, grows, frees and recomputes sequences    *)
(* between decode steps; a step that runs eagerly is one in which the      *)
(* manager moves on and the arrays do not.  The host queues work on the    *)
(* current CUDA stream, and the warm-ups of a capture on a stream beside   *)
(* it; the device takes it from there later: a copy reads the host arrays  *)
(* when the device gets to it, not when it is queued.  Any call of a step  *)
(* may raise, and what the step has queued by then stays queued.           *)
(*                                                                         *)
(* Abstractions.  context_lens is seq_lens - 1 in a live row and is left   *)
(* out; the six copies of a step are queued together and are one.  A       *)
(* sequence that comes after a reset has an id of its own; here it is an   *)
(* old one with a number of preemptions that is new.                       *)
(***************************************************************************)
EXTENDS KVCacheManager

CONSTANTS
    BatchBuckets,          \* BATCH_BUCKETS
    CtxBuckets,            \* CTX_BUCKETS
    MaxBlocks,             \* width of a row of block_tables
    DummyBlock,            \* the block of padded rows, outside the pool
    PadToken,              \* input id of a padded row
    WarmupSteps,           \* warmup_steps
    MaxEpoch,              \* BOUND: recomputes of one sequence
    StreamDepth,           \* BOUND: work queued on the current stream
    SideDepth              \* BOUND: warm-ups queued beside it

ASSUME BucketsAssumption ==
    /\ BatchBuckets \subseteq Nat \ {0} /\ BatchBuckets # {} /\ IsFiniteSet(BatchBuckets)
    /\ CtxBuckets \subseteq Nat \ {0} /\ CtxBuckets # {} /\ IsFiniteSet(CtxBuckets)
ASSUME DummyAssumption == DummyBlock \in Nat \ Block
ASSUME WidthAssumption == MaxBlocks \in Nat /\ MaxBlocks * BlockSize >= Max(CtxBuckets)

VARIABLES
    num_preemptions,       \* of each sequence
    host,                  \* the host arrays, row by row
    live,                  \* _n: rows that held a sequence at the last update
    stream,                \* work queued on the current CUDA stream
    side,                  \* warm-up forwards queued on side streams
    buffer,                \* static buffers of the step's graph, << >> if stale
    captured,              \* _graphs: keys with a captured graph
    batch,                 \* sequences of the step in flight, << >> if none
    launch,                \* how far the host is with it
    warmups                \* warm-ups it has queued of the capture under way

hostVars == <<host, live>>
deviceVars == <<stream, side, buffer, captured>>
stepVars == <<batch, launch, warmups>>
decodeVars == <<kvVars, num_preemptions, hostVars, deviceVars, stepVars>>

MaxBatch == Max(BatchBuckets)
Row == 1 .. MaxBatch

CeilToBucket(n, buckets) == Min({b \in buckets : b >= n})

NoKeyRow == << >>
PaddedTable == [j \in 1 .. MaxBlocks |-> DummyBlock]

\* What a graph reads of a row; a padded row is attended over no key and stores
\* into the dummy block.
PaddedInput ==
    [ input_id |-> PadToken, position |-> 0, seq_len |-> 0,
      slot |-> DummyBlock * BlockSize, table |-> PaddedTable ]

Input(row) ==
    [ input_id |-> row.input_id, position |-> row.position,
      seq_len |-> row.seq_len, slot |-> row.slot, table |-> row.table ]

-----------------------------------------------------------------------------
(* DecodeInputs.update.                                                    *)

RowKey(s) == <<s, num_preemptions[s]>>

\* Mutant: a row that lost its sequence keeps its table.
ClearedKeepsTable(row) == [row EXCEPT !.key = NoKeyRow, !.blocks = 0]
Cleared(row) ==
    [row EXCEPT !.key = NoKeyRow, !.blocks = 0, !.table = PaddedTable]

\* A new table is written as a whole, a table that grew only where it is new.
Staged(row, s) ==
    LET table == BlockTable(kv, s)
        m     == Len(table)
        from  == IF row.key # RowKey(s) THEN 0 ELSE row.blocks
    IN  [row EXCEPT
            !.key = RowKey(s),
            !.blocks = m,
            !.table = [j \in 1 .. MaxBlocks |->
                IF j \in from + 1 .. m THEN table[j]
                ELSE IF row.key # RowKey(s) THEN DummyBlock ELSE row.table[j]]]

\* Token, position, length and slot of the one token of s, the slot from the
\* staged table.
Positioned(row, s) ==
    LET pos == seqs[s].num_computed_tokens
    IN  [row EXCEPT
            !.input_id = seqs[s].token_ids[pos + 1],
            !.position = pos,
            !.seq_len = pos + 1,
            !.slot = row.table[pos \div BlockSize + 1] * BlockSize
                         + (pos % BlockSize)]

Padded(row) ==
    [row EXCEPT !.input_id = PadToken, !.position = 0, !.seq_len = 0,
                !.slot = DummyBlock * BlockSize]

Updated(b, bucket) ==
    [i \in Row |->
        LET row == IF i \in Len(b) + 1 .. live THEN Cleared(host[i]) ELSE host[i]
        IN  IF i <= Len(b) THEN Positioned(Staged(row, b[i]), b[i])
            ELSE IF i <= bucket THEN Padded(row)
            ELSE row]

-----------------------------------------------------------------------------
(* The step on the host.                                                   *)

\* One token to compute, and the scheduler has given it its slot.
DecodesNow(s) ==
    /\ Holds(kv, s)
    /\ Len(seqs[s].token_ids) = seqs[s].num_computed_tokens + 1
    /\ CeilDiv(Len(seqs[s].token_ids), BlockSize) <= Len(BlockTable(kv, s))

CanGraphDecode(b) ==
    /\ Len(b) <= MaxBatch
    /\ \A i \in DOMAIN b : seqs[b[i]].num_computed_tokens + 1 <= Max(CtxBuckets)

BatchBucket(b) == CeilToBucket(Len(b), BatchBuckets)

GraphKey(b) ==
    << BatchBucket(b),
       CeilToBucket(Max({seqs[b[i]].num_computed_tokens : i \in DOMAIN b}) + 1,
                    CtxBuckets) >>

\* Work is current as long as the step that queued it is in flight.
Copy(key) == [op |-> "copy", key |-> key, current |-> TRUE]
Forward(key) == [op |-> "forward", key |-> key, current |-> TRUE]
Abandoned(q) == [i \in DOMAIN q |-> [q[i] EXCEPT !.current = FALSE]]

\* prepare_decode_inputs.
Prepare(b) ==
    /\ launch = "idle"
    /\ Len(stream) < StreamDepth
    /\ CanGraphDecode(b)
    /\ batch' = b
    /\ host' = Updated(b, BatchBucket(b))
    /\ live' = Len(b)
    /\ buffer' = << >>
    /\ stream' = Append(stream, Copy(GraphKey(b)))
    /\ launch' = "prepared"
    /\ UNCHANGED <<kvVars, num_preemptions, side, captured, warmups>>

\* Mutant: the side stream does not wait for the current one.
NothingAhead == 0
\* side_stream.wait_stream(current_stream()): a warm-up comes after all work
\* that is on the current stream.
Ahead == Len(stream)

\* capture_one: warm-up forwards on the buffers, on a side stream.
WarmUp ==
    /\ launch = "prepared"
    /\ GraphKey(batch) \notin captured
    /\ warmups < WarmupSteps
    /\ Len(side) < SideDepth
    /\ side' = Append(side, [key |-> GraphKey(batch), after |-> Ahead, current |-> TRUE])
    /\ warmups' = warmups + 1
    /\ UNCHANGED <<kvVars, num_preemptions, hostVars, stream, buffer, captured,
                   batch, launch>>

\* The capture waits for the whole device first, every stream of it.
Captured ==
    /\ launch = "prepared"
    /\ GraphKey(batch) \notin captured
    /\ warmups = WarmupSteps
    /\ stream = << >> /\ side = << >>
    /\ captured' = captured \cup {GraphKey(batch)}
    /\ warmups' = 0
    /\ UNCHANGED <<kvVars, num_preemptions, hostVars, stream, side, buffer, batch, launch>>

Replay ==
    /\ launch = "prepared"
    /\ GraphKey(batch) \in captured
    /\ stream' = Append(stream, Forward(GraphKey(batch)))
    /\ launch' = "replayed"
    /\ UNCHANGED <<kvVars, num_preemptions, hostVars, side, buffer, captured,
                   batch, warmups>>

\* Reading the sampled tokens back waits for the current stream, greedy or not.
Sync ==
    /\ launch = "replayed"
    /\ stream = << >>
    /\ launch' = "idle"
    /\ batch' = << >>
    /\ UNCHANGED <<kvVars, num_preemptions, hostVars, deviceVars, warmups>>

\* A warm-up, be it the first or a later one, the capture, the replay, the
\* sampler or the read-back raises: the exception leaves execute_model, nobody
\* waits for the device, and what is queued stays queued.
StepRaises ==
    /\ launch # "idle"
    /\ stream' = Abandoned(stream)
    /\ side' = Abandoned(side)
    /\ launch' = "idle"
    /\ batch' = << >>
    /\ warmups' = 0
    /\ UNCHANGED <<kvVars, num_preemptions, hostVars, buffer, captured>>

-----------------------------------------------------------------------------
(* The device takes the work of one stream in order, and of several in     *)
(* any.                                                                    *)

\* What is taken off the current stream is waited for no longer.
Awaiting(q) == [i \in DOMAIN q |-> [q[i] EXCEPT !.after = IF @ = 0 THEN 0 ELSE @ - 1]]

DeviceCopies ==
    /\ stream # << >>
    /\ Head(stream).op = "copy"
    /\ buffer' = IF batch # << >> /\ Head(stream).key = GraphKey(batch)
                 THEN [i \in 1 .. BatchBucket(batch) |-> Input(host[i])]
                 ELSE buffer
    /\ stream' = Tail(stream)
    /\ side' = Awaiting(side)
    /\ UNCHANGED <<kvVars, num_preemptions, hostVars, captured, stepVars>>

DeviceReplays ==
    /\ stream # << >>
    /\ Head(stream).op = "forward"
    /\ stream' = Tail(stream)
    /\ side' = Awaiting(side)
    /\ UNCHANGED <<kvVars, num_preemptions, hostVars, buffer, captured, stepVars>>

DeviceWarmsUp ==
    /\ \E i \in DOMAIN side :
          /\ side[i].after = 0
          /\ side' = RemoveAt(side, i)
    /\ UNCHANGED <<kvVars, num_preemptions, hostVars, stream, buffer, captured, stepVars>>

-----------------------------------------------------------------------------
(* Between decode steps the scheduler moves on.                            *)

\* Mutant: a recomputed sequence keeps its preemption count.
PreemptionsKept(S) == num_preemptions
Preemptions(S) ==
    [s \in SeqId |-> num_preemptions[s] + (IF s \in S THEN 1 ELSE 0)]

\* A sequence that gives its blocks up begins a new life, and a reset of the
\* engine ends the lives of all.
BeginAgain(S) ==
    /\ \A s \in S : num_preemptions[s] < MaxEpoch
    /\ num_preemptions' = Preemptions(S)

SchedulerMoves ==
    /\ launch = "idle"
    /\ \/ \E s \in SeqId :
             \/ /\ \/ KVAllocate(s)
                   \/ \E t \in Token : KVCompute(s, t)
                /\ UNCHANGED num_preemptions
             \/ KVFree(s, << >>) /\ BeginAgain({s})
       \/ KVReset /\ BeginAgain(SeqId)
    /\ UNCHANGED <<hostVars, deviceVars, stepVars>>

DecodeInit ==
    /\ KVInit
    /\ num_preemptions = [s \in SeqId |-> 0]
    /\ host = [i \in Row |->
                  [ key |-> NoKeyRow, blocks |-> 0, table |-> PaddedTable,
                    input_id |-> PadToken, position |-> 0, seq_len |-> 0,
                    slot |-> DummyBlock * BlockSize ]]
    /\ live = 0
    /\ stream = << >>
    /\ side = << >>
    /\ buffer = << >>
    /\ captured = {}
    /\ batch = << >>
    /\ launch = "idle"
    /\ warmups = 0

DecodeNext ==
    \/ \E n \in Row : \E b \in [1 .. n -> SeqId] :
          /\ IsInjective(b)
          /\ \A i \in 1 .. n : DecodesNow(b[i])
          /\ Prepare(b)
    \/ WarmUp \/ Captured \/ Replay \/ Sync \/ StepRaises
    \/ DeviceCopies \/ DeviceReplays \/ DeviceWarmsUp
    \/ SchedulerMoves

DecodeSpec == DecodeInit /\ [][DecodeNext]_decodeVars

-----------------------------------------------------------------------------
(* Properties.                                                             *)

\* tests/test_decode_inputs.py, reference(): the inputs of a step built from
\* scratch, the slot from the scheduler's slot mapping.
Rebuilt(b) ==
    [i \in 1 .. BatchBucket(b) |->
        IF i > Len(b) THEN PaddedInput
        ELSE LET seq == seqs[b[i]]
                 table == BlockTable(kv, b[i])
             IN  [ input_id |-> Last(seq.token_ids),
                   position |-> seq.num_computed_tokens,
                   seq_len |-> Len(seq.token_ids),
                   slot |-> SlotMapping(kv, b[i], seq, 1)[1],
                   table |-> [j \in 1 .. MaxBlocks |->
                                 IF j <= Len(table) THEN table[j] ELSE DummyBlock] ]]

\* Editing in place gives what building from scratch would, in every row of
\* the bucket, padding included: through rows that change hands, shrinking
\* batches, recomputes and steps that ran eagerly in between.
StagingMatchesRebuild ==
    batch # << >> =>
        [i \in 1 .. BatchBucket(batch) |-> Input(host[i])] = Rebuilt(batch)

ReadsItsStep(work) ==
    /\ batch # << >>
    /\ work.key = GraphKey(batch)
    /\ buffer = Rebuilt(batch)

\* When the device may run a forward of the step in flight, a warm-up or the
\* replay, its buffers hold the inputs of that step, although the copies are
\* asynchronous, the warm-ups run on a stream of their own, and earlier steps
\* that raised may have left copies, warm-ups and replays queued while the host
\* edits the same arrays.  And no warm-up left behind by a capture that raised
\* can still write the tokens of the graph that was replayed.
GraphReadsThisStep ==
    /\ stream # << >> /\ Head(stream).op = "forward" /\ Head(stream).current =>
          ReadsItsStep(Head(stream))
    /\ \A i \in DOMAIN side :
          /\ side[i].after = 0 /\ side[i].current => ReadsItsStep(side[i])
          /\ launch = "replayed" => side[i].key # GraphKey(batch)

\* sequence.py:37-38: (seq_id, num_preemptions) names one table's lifetime.  A
\* row that still carries a sequence's key holds the first blocks of its table
\* and nothing else, however long ago it was written.
RowKeyNamesTable ==
    \A i \in Row, s \in SeqId :
        host[i].key = RowKey(s) /\ Holds(kv, s) =>
            /\ host[i].blocks <= Len(BlockTable(kv, s))
            /\ \A j \in 1 .. MaxBlocks :
                  host[i].table[j] = IF j <= host[i].blocks
                                     THEN BlockTable(kv, s)[j] ELSE DummyBlock
=============================================================================
