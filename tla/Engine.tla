------------------------------- MODULE Engine -------------------------------
(***************************************************************************)
(* The continuous-batching engine: class LLMEngine (babyvllm/engine.py),   *)
(* class Scheduler (scheduler.py) and class Sequence (sequence.py), over   *)
(* the KV cache manager of module KVCacheManager.                          *)
(*                                                                         *)
(* The engine is one thread.  A call of step() is the run of actions from  *)
(* BeginStep to Outputs, one action per iteration of its loops, told apart *)
(* by phase; add_request, abort_request and reset are called between       *)
(* steps, when phase is "idle".  The forward pass is one action, which may *)
(* raise when ExecutionMayFail.                                            *)
(*                                                                         *)
(* content is a ghost of the physical cache: the token prefix whose last   *)
(* token's keys and values a slot holds.  A token's keys and values depend *)
(* on its whole prefix, so attention is right exactly when each slot it    *)
(* reads holds the reader's own prefix up to that position.                *)
(***************************************************************************)
EXTENDS KVCacheManager

CONSTANTS
    MaxNumBatchedTokens,   \* scheduler budget of one step
    MaxNumSeqs,            \* sequences of one step
    MaxTokens,             \* sampling_params.max_tokens, of every request
    StopTokens,            \* sampling_params.stop_tokens, of every request
    ExecutionMayFail       \* the forward pass may raise

ASSUME BudgetAssumption ==
    /\ MaxNumBatchedTokens \in Nat \ {0}
    /\ MaxNumSeqs \in Nat \ {0}
    /\ MaxTokens \in Nat \ {0}
ASSUME StopTokensAssumption == StopTokens \subseteq Token
ASSUME ExecutionAssumption == ExecutionMayFail \in BOOLEAN

VARIABLES
    waiting,               \* Scheduler.waiting
    running,               \* Scheduler.running
    finished_seqs,         \* Scheduler.finished_seqs
    sequences,             \* the keys of LLMEngine.sequences
    phase,                 \* where step() is
    todo,                  \* what is left of the loop step() is in
    budget,                \* local of schedule()
    scheduled,             \* SchedulerOutput, one entry per scheduled sequence
    preempted_seqs,        \* SchedulerOutput.preempted_seqs
    sampled,               \* what execute_model returned
    content,               \* ghost: what each slot of the cache holds
    delivered              \* ghost: what step() has returned per request, and
                           \* "RESET" where reset() dropped the request

stepVars == <<phase, todo, budget, scheduled, preempted_seqs, sampled>>
queueVars == <<waiting, running, finished_seqs>>
vars == <<kv, seqs, queueVars, stepVars, sequences, content, delivered>>

Slots == 0 .. NumBlocks * BlockSize - 1

NumTokensToCompute(seq) == Len(seq.token_ids) - seq.num_computed_tokens

GeneratedLen(seq) == Len(seq.token_ids) - seq.prompt_len

HasUnfinished == waiting # << >> \/ running # << >>

Finished(seq, reason) == [seq EXCEPT !.status = "DONE", !.finish_reason = reason]

ResetForRecompute(seq) ==
    [seq EXCEPT !.status = "WAITING", !.num_computed_tokens = 0,
                !.num_preemptions = @ + 1]

\* Mutant: only the budget is asked, not the size of the pool.
NeverFitsBudget(s, seq) == NumTokensToCompute(seq) > MaxNumBatchedTokens
\* add_seq and the admission loop refuse the same two kinds of sequence.
NeverFits(s, seq) ==
    \/ NumTokensToCompute(seq) > MaxNumBatchedTokens
    \/ NumBlocksNeeded(kv, s, seq, NumTokensToCompute(seq), << >>) > NumBlocks

\* What schedule() records for a sequence it scheduled, given the manager and
\* the sequence after the allocation.
Scheduled(s, kvAfter, seq, n) ==
    [ seq_id       |-> s,
      num_tokens   |-> n,
      block_table  |-> BlockTable(kvAfter, s),
      slot_mapping |-> SlotMapping(kvAfter, s, seq, n) ]

ScheduledIds == {scheduled[i].seq_id : i \in DOMAIN scheduled}

-----------------------------------------------------------------------------
Init ==
    /\ kv = EmptyKV
    /\ seqs \in [SeqId -> {[ token_ids |-> p, num_computed_tokens |-> 0,
                             status |-> "NEW", finish_reason |-> "NONE",
                             prompt_len |-> Len(p), num_preemptions |-> 0 ] :
                               p \in Prompts}]
    /\ waiting = << >>
    /\ running = << >>
    /\ finished_seqs = << >>
    /\ sequences = {}
    /\ phase = "idle"
    /\ todo = << >>
    /\ budget = 0
    /\ scheduled = << >>
    /\ preempted_seqs = << >>
    /\ sampled = << >>
    /\ content = [x \in Slots |-> << >>]
    /\ delivered = [s \in SeqId |-> [tokens |-> << >>, reasons |-> << >>]]

\* Mutant: a waiting sequence stays in its queue.
FreeSeqRunningOnly(s) ==
    /\ running' = Delete(running, {s})
    /\ waiting' = waiting
    /\ kv' = FreeIfAllocated(kv, s)
\* Mutant: the blocks are not freed.
FreeSeqLeaks(s) ==
    /\ running' = Delete(running, {s})
    /\ waiting' = IF s \in ToSet(running) THEN waiting ELSE Delete(waiting, {s})
    /\ kv' = kv
\* Scheduler._finish: the sequence leaves its queue, its blocks are freed and
\* it joins finished_seqs.  seq is its record at the call.
FreeSeq(s) ==
    /\ running' = Delete(running, {s})
    /\ waiting' = IF s \in ToSet(running) THEN waiting ELSE Delete(waiting, {s})
    /\ kv' = FreeIfAllocated(kv, s)

Finish(s, seq, reason) ==
    /\ seqs' = [seqs EXCEPT ![s] = Finished(seq, reason)]
    /\ FreeSeq(s)
    /\ finished_seqs' = Append(finished_seqs, s)

-----------------------------------------------------------------------------
(* Calls between steps.                                                    *)

\* Mutant: a new request is put in front of the queue.
AddRequestInFront(s) ==
    /\ phase = "idle"
    /\ seqs[s].status = "NEW"
    /\ sequences' = sequences \cup {s}
    /\ \/ /\ NeverFits(s, seqs[s])
          /\ Finish(s, seqs[s], "LENGTH")
       \/ /\ ~NeverFits(s, seqs[s])
          /\ seqs' = [seqs EXCEPT ![s].status = "WAITING"]
          /\ waiting' = <<s>> \o waiting
          /\ UNCHANGED <<kv, running, finished_seqs>>
    /\ UNCHANGED <<stepVars, content, delivered>>
AddRequest(s) ==
    /\ phase = "idle"
    /\ seqs[s].status = "NEW"
    /\ sequences' = sequences \cup {s}
    /\ \/ /\ NeverFits(s, seqs[s])
          /\ Finish(s, seqs[s], "LENGTH")
       \/ /\ ~NeverFits(s, seqs[s])
          /\ seqs' = [seqs EXCEPT ![s].status = "WAITING"]
          /\ waiting' = Append(waiting, s)
          /\ UNCHANGED <<kv, running, finished_seqs>>
    /\ UNCHANGED <<stepVars, content, delivered>>

AbortRequest(s) ==
    /\ phase = "idle"
    /\ s \in sequences
    /\ seqs[s].status # "DONE"
    /\ Finish(s, seqs[s], "ABORT")
    /\ UNCHANGED <<stepVars, sequences, content, delivered>>

Reset ==
    /\ phase = "idle"
    /\ waiting' = << >>
    /\ running' = << >>
    /\ finished_seqs' = << >>
    /\ kv' = EmptyKV
    /\ sequences' = {}
    /\ delivered' = [s \in SeqId |->
           IF s \in sequences
           THEN [tokens  |-> delivered[s].tokens,
                 reasons |-> Append(delivered[s].reasons, "RESET")]
           ELSE delivered[s]]
    /\ UNCHANGED <<seqs, stepVars, content>>

-----------------------------------------------------------------------------
(* step(): the running loop of schedule().                                 *)

BeginStep ==
    /\ phase = "idle"
    /\ \/ HasUnfinished /\ phase' = "running"
       \/ ~HasUnfinished /\ finished_seqs # << >> /\ phase' = "outputs"
    /\ todo' = running
    /\ budget' = MaxNumBatchedTokens
    /\ UNCHANGED <<kv, seqs, queueVars, scheduled, preempted_seqs, sampled,
                   sequences, content, delivered>>

\* A sequence preempted earlier in this loop.
SkipPreempted ==
    /\ phase = "running"
    /\ todo # << >>
    /\ seqs[Head(todo)].status # "RUNNING"
    /\ todo' = Tail(todo)
    /\ UNCHANGED <<kv, seqs, queueVars, phase, budget, scheduled,
                   preempted_seqs, sampled, sequences, content, delivered>>

OutOfBudget(s) ==
    \/ budget < NumTokensToCompute(seqs[s])
    \/ Len(scheduled) >= MaxNumSeqs

\* Head(todo) is the sequence the running loop now handles.
HandlesRunning(s) ==
    /\ phase = "running"
    /\ todo # << >>
    /\ s = Head(todo)
    /\ seqs[s].status = "RUNNING"
    /\ ~OutOfBudget(s)

ScheduleRunning(s) ==
    LET seq == seqs[s]
        n   == NumTokensToCompute(seq)
    IN  /\ HandlesRunning(s)
        /\ CanAllocate(kv, s, seq, n, << >>)
        /\ kv' = AllocateSlots(kv, s, seq, n, << >>)
        /\ scheduled' = Append(scheduled, Scheduled(s, kv', seq, n))
        /\ budget' = budget - n
        /\ todo' = Tail(todo)
        /\ UNCHANGED <<seqs, queueVars, phase, preempted_seqs, sampled,
                       sequences, content, delivered>>

Preempt(v) ==
    /\ seqs' = [seqs EXCEPT ![v] = ResetForRecompute(@)]
    /\ running' = Delete(running, {v})
    /\ preempted_seqs' = Append(preempted_seqs, v)
    /\ kv' = FreeIfAllocated(kv, v)
    /\ UNCHANGED <<waiting, finished_seqs, phase, budget, scheduled, sampled,
                   sequences, content, delivered>>

\* Mutant: the oldest running sequence makes room.
VictimOldest(s) == Head(running)
\* The last sequence of running makes room, s itself when it is the last one.
Victim(s) == IF Len(running) > 1 THEN Last(running) ELSE s

\* The loop tries Head(todo) again.
PreemptOther(s) ==
    /\ HandlesRunning(s)
    /\ ~CanAllocate(kv, s, seqs[s], NumTokensToCompute(seqs[s]), << >>)
    /\ Victim(s) # s
    /\ Preempt(Victim(s))
    /\ UNCHANGED todo

PreemptSelf(s) ==
    /\ HandlesRunning(s)
    /\ ~CanAllocate(kv, s, seqs[s], NumTokensToCompute(seqs[s]), << >>)
    /\ Victim(s) = s
    /\ Preempt(s)
    /\ todo' = Tail(todo)

RunningLoopOver ==
    todo # << >> =>
        seqs[Head(todo)].status = "RUNNING" /\ OutOfBudget(Head(todo))

\* Mutant: victims go to the back of the queue.
RequeueBehind ==
    /\ phase = "running"
    /\ RunningLoopOver
    /\ waiting' = waiting \o preempted_seqs
    /\ todo' = << >>
    /\ phase' = "waiting"
    /\ UNCHANGED <<kv, seqs, running, finished_seqs, budget, scheduled,
                   preempted_seqs, sampled, sequences, content, delivered>>
\* appendleft over the reversed list: the first victim ends up in front.
RequeuePreempted ==
    /\ phase = "running"
    /\ RunningLoopOver
    /\ waiting' = preempted_seqs \o waiting
    /\ todo' = << >>
    /\ phase' = "waiting"
    /\ UNCHANGED <<kv, seqs, running, finished_seqs, budget, scheduled,
                   preempted_seqs, sampled, sequences, content, delivered>>

-----------------------------------------------------------------------------
(* step(): the admission loop of schedule().                               *)

\* s is the head of the queue and the step may take one more sequence.
HandlesWaiting(s) ==
    /\ phase = "waiting"
    /\ waiting # << >>
    /\ s = Head(waiting)
    /\ Len(scheduled) < MaxNumSeqs

RejectWaiting(s) ==
    /\ HandlesWaiting(s)
    /\ NeverFits(s, seqs[s])
    /\ Finish(s, seqs[s], "LENGTH")
    /\ UNCHANGED <<stepVars, sequences, content, delivered>>

NumUncached(s) ==
    NumTokensToCompute(seqs[s])
        - Len(GetComputedBlocks(kv, s, seqs[s])) * BlockSize

\* Mutant: the token budget is not asked.
AdmissibleOverBudget(s) ==
    CanAllocate(kv, s, seqs[s], NumUncached(s), GetComputedBlocks(kv, s, seqs[s]))
Admissible(s) ==
    /\ budget >= NumUncached(s)
    /\ CanAllocate(kv, s, seqs[s], NumUncached(s),
                   GetComputedBlocks(kv, s, seqs[s]))

Admit(s) ==
    LET hits == GetComputedBlocks(kv, s, seqs[s])
        n    == NumUncached(s)
    IN  /\ HandlesWaiting(s)
        /\ ~NeverFits(s, seqs[s])
        /\ Admissible(s)
        /\ kv' = AllocateSlots(kv, s, seqs[s], n, hits)
        /\ seqs' = [seqs EXCEPT ![s].num_computed_tokens =
                                    @ + Len(hits) * BlockSize,
                                ![s].status = "RUNNING"]
        /\ waiting' = Tail(waiting)
        /\ running' = Append(running, s)
        /\ scheduled' = Append(scheduled, Scheduled(s, kv', seqs'[s], n))
        /\ budget' = budget - n
        /\ UNCHANGED <<finished_seqs, phase, todo, preempted_seqs, sampled,
                       sequences, content, delivered>>

StopAdmitting ==
    /\ phase = "waiting"
    /\ \A s \in SeqId : HandlesWaiting(s) => ~NeverFits(s, seqs[s]) /\ ~Admissible(s)
    /\ phase' = "execute"
    /\ UNCHANGED <<kv, seqs, queueVars, todo, budget, scheduled,
                   preempted_seqs, sampled, sequences, content, delivered>>

-----------------------------------------------------------------------------
(* step(): the forward pass, the update and the outputs.                   *)

\* schedule() scheduled nothing: "Engine stalled" unless something finished or
\* was preempted.
NothingToExecute ==
    /\ phase = "execute"
    /\ scheduled = << >>
    /\ phase' = IF finished_seqs # << >> \/ preempted_seqs # << >>
                THEN "outputs" ELSE "stalled"
    /\ UNCHANGED <<kv, seqs, queueVars, todo, budget, scheduled,
                   preempted_seqs, sampled, sequences, content, delivered>>

\* Every layer stores the keys and values of all scheduled tokens before any
\* attention of that layer reads.
Stored ==
    [x \in Slots |->
        IF \E e \in ToSet(scheduled) : x \in ToSet(e.slot_mapping)
        THEN LET e == CHOOSE e \in ToSet(scheduled) : x \in ToSet(e.slot_mapping)
                 k == CHOOSE k \in 1 .. e.num_tokens : e.slot_mapping[k] = x
                 seq == seqs[e.seq_id]
             IN  SubSeq(seq.token_ids, 1, seq.num_computed_tokens + k)
        ELSE content[x]]

ExecuteModel ==
    /\ phase = "execute"
    /\ scheduled # << >>
    /\ content' = Stored
    /\ sampled' \in [ScheduledIds -> Token]
    /\ todo' = [i \in DOMAIN scheduled |-> scheduled[i].seq_id]
    /\ phase' = "update"
    /\ UNCHANGED <<kv, seqs, queueVars, budget, scheduled, preempted_seqs,
                   sequences, delivered>>

\* The exception leaves step(): schedule()'s work stays, its output is lost.
\* The stores may or may not have happened.
ExecuteRaises ==
    /\ ExecutionMayFail
    /\ phase = "execute"
    /\ scheduled # << >>
    /\ content' \in {content, Stored}
    /\ phase' = "idle"
    /\ scheduled' = << >>
    /\ preempted_seqs' = << >>
    /\ budget' = 0
    /\ UNCHANGED <<kv, seqs, queueVars, todo, sampled, sequences, delivered>>

\* One iteration of update_from_output.
UpdateSeq(s) ==
    LET n     == (CHOOSE e \in ToSet(scheduled) : e.seq_id = s).num_tokens
        token == sampled[s]
        seq   == [seqs[s] EXCEPT !.num_computed_tokens = @ + n]
        grown == [seq EXCEPT !.token_ids = Append(@, token)]
    IN  /\ phase = "update"
        /\ todo # << >>
        /\ s = Head(todo)
        /\ todo' = Tail(todo)
        /\ \/ /\ token \in StopTokens
              /\ Finish(s, seq, "STOP")
           \/ /\ token \notin StopTokens
              /\ GeneratedLen(grown) >= MaxTokens
              /\ Finish(s, grown, "LENGTH")
           \/ /\ token \notin StopTokens
              /\ GeneratedLen(grown) < MaxTokens
              /\ seqs' = [seqs EXCEPT ![s] = grown]
              /\ UNCHANGED <<kv, queueVars>>
        /\ UNCHANGED <<phase, budget, scheduled, preempted_seqs, sampled,
                       sequences, content, delivered>>

UpdateDone ==
    /\ phase = "update"
    /\ todo = << >>
    /\ phase' = "outputs"
    /\ UNCHANGED <<kv, seqs, queueVars, todo, budget, scheduled,
                   preempted_seqs, sampled, sequences, content, delivered>>

\* The RequestOutputs of the step: one per scheduled sequence, then one per
\* finished sequence that has none yet.
NewTokens(s) ==
    IF s \in ScheduledIds /\ sampled[s] \notin StopTokens
    THEN <<sampled[s]>> ELSE << >>

\* Mutant: only the scheduled sequences have an output, as if pop_finished()
\* were called to clear its list alone.
NewReasonsScheduled(s) ==
    IF s \in ScheduledIds /\ seqs[s].finish_reason # "NONE"
    THEN <<seqs[s].finish_reason>> ELSE << >>
NewReasons(s) ==
    IF s \in ScheduledIds \cup ToSet(finished_seqs)
       /\ seqs[s].finish_reason # "NONE"
    THEN <<seqs[s].finish_reason>> ELSE << >>

Outputs ==
    /\ phase = "outputs"
    /\ delivered' = [s \in SeqId |->
           [tokens  |-> delivered[s].tokens \o NewTokens(s),
            reasons |-> delivered[s].reasons \o NewReasons(s)]]
    /\ sequences' = sequences \ ToSet(finished_seqs)
    /\ finished_seqs' = << >>
    /\ phase' = "idle"
    /\ todo' = << >>
    /\ budget' = 0
    /\ scheduled' = << >>
    /\ preempted_seqs' = << >>
    /\ sampled' = << >>
    /\ UNCHANGED <<kv, seqs, waiting, running, content>>

-----------------------------------------------------------------------------
Schedule ==
    \/ SkipPreempted \/ RequeuePreempted \/ StopAdmitting
    \/ \E s \in SeqId : \/ ScheduleRunning(s) \/ PreemptOther(s) \/ PreemptSelf(s)
                        \/ RejectWaiting(s) \/ Admit(s)

RestOfStep ==
    \/ Schedule
    \/ NothingToExecute \/ ExecuteModel
    \/ (\E s \in SeqId : UpdateSeq(s)) \/ UpdateDone
    \/ Outputs

Next ==
    \/ BeginStep
    \/ RestOfStep
    \/ ExecuteRaises
    \/ \E s \in SeqId : AddRequest(s) \/ AbortRequest(s)
    \/ Reset

Spec == Init /\ [][Next]_vars

-----------------------------------------------------------------------------
(* Properties.                                                             *)

Phases == {"idle", "running", "waiting", "execute", "update", "outputs", "stalled"}
Statuses == {"NEW", "WAITING", "RUNNING", "DONE"}
Reasons == {"STOP", "LENGTH", "ABORT"}

\* Type correctness of the engine's state.
TypeOK ==
    /\ seqs \in [SeqId ->
           [ token_ids : Seq(Token), num_computed_tokens : Nat,
             status : Statuses, finish_reason : Reasons \cup {"NONE"},
             prompt_len : Nat, num_preemptions : Nat ]]
    /\ waiting \in Seq(SeqId) /\ running \in Seq(SeqId)
    /\ finished_seqs \in Seq(SeqId) /\ sequences \subseteq SeqId
    /\ phase \in Phases /\ todo \in Seq(SeqId) /\ budget \in Nat
    /\ preempted_seqs \in Seq(SeqId)
    /\ content \in [Slots -> Seq(Token)]

\* The scheduler's books: a known sequence is in exactly the queue its status
\* says, once, and blocks are held by the running sequences and no other, so
\* that aborts, finishes and preemptions neither leak blocks nor strand a
\* sequence.
QueuesAndBlocksAgree ==
    /\ IsInjective(waiting) /\ IsInjective(running)
    /\ DOMAIN kv.request_blocks = ToSet(running)
    /\ \A s \in ToSet(running) : seqs[s].status = "RUNNING"
    /\ \A s \in sequences :
          /\ seqs[s].status = "RUNNING" => s \in ToSet(running)
          /\ seqs[s].status = "WAITING" =>
                s \in ToSet(waiting) \cup
                      (IF phase = "running" THEN ToSet(preempted_seqs) ELSE {})
          /\ seqs[s].status = "DONE" =>
                s \in ToSet(finished_seqs) \ (ToSet(waiting) \cup ToSet(running))

\* A sequence scheduled in this step is not preempted or reallocated before
\* the step is executed: the table and slots handed to the model runner are
\* still its own, and cover every token it has, at least one.
ScheduleStaysTrue ==
    phase \in {"running", "waiting", "execute"} =>
        \A e \in ToSet(scheduled) :
            /\ e.seq_id \in ToSet(running)
            /\ e.block_table = BlockTable(kv, e.seq_id)
            /\ e.num_tokens = NumTokensToCompute(seqs[e.seq_id])
            /\ e.num_tokens > 0

\* No sequence is scheduled twice in a step, and no two scheduled sequences
\* store into the same slot, shared prefix blocks included.
NoSlotWrittenTwice ==
    \A i, j \in DOMAIN scheduled : i # j =>
        /\ scheduled[i].seq_id # scheduled[j].seq_id
        /\ ToSet(scheduled[i].slot_mapping) \cap ToSet(scheduled[j].slot_mapping) = {}

\* The forward pass runs every running sequence: neither the token budget nor
\* max_num_seqs, shared with admissions, ever leaves one out of a step.
EveryRunningIsScheduled ==
    phase = "execute" => ToSet(running) = ScheduledIds

\* What attention reads: each slot of a scheduled sequence's table holds the
\* sequence's own prefix up to that position, through shared blocks, blocks
\* registered before they are written, evictions and recomputes.
ReadsOwnContext ==
    phase = "update" =>
        \A e \in ToSet(scheduled) : e.seq_id \in ToSet(todo) =>
            LET tokens == seqs[e.seq_id].token_ids
            IN  \A pos \in 0 .. Len(tokens) - 1 :
                    content[e.block_table[pos \div BlockSize + 1] * BlockSize
                                + (pos % BlockSize)]
                        = SubSeq(tokens, 1, pos + 1)

\* The comment at kv_cache_manager.py:162-164: blocks are registered before the
\* forward pass writes them, and a sequence that hits them reads them after the
\* store.
HitsAreStored ==
    phase = "update" =>
        \A e \in ToSet(scheduled) : e.seq_id \in ToSet(todo) =>
            \A pos \in 0 .. seqs[e.seq_id].num_computed_tokens - 1 :
                content[e.block_table[pos \div BlockSize + 1] * BlockSize
                            + (pos % BlockSize)] # << >>

\* "Engine stalled" is never raised.
NeverStalls == phase # "stalled"

\* Every RequestOutput stream is the generated text, token by token, whatever
\* was preempted.  A request the engine has forgotten was told its finish
\* exactly once, with its reason, however it ended (stopped, at its limit,
\* rejected, aborted, before or after a step that raised); nothing is told
\* before, and nothing ever to a request that reset() dropped.
DeliveredIsGenerated ==
    phase = "idle" =>
        \A s \in SeqId :
            /\ delivered[s].tokens = SubSeq(seqs[s].token_ids,
                                            seqs[s].prompt_len + 1,
                                            Len(seqs[s].token_ids))
            /\ delivered[s].reasons \in
                   IF seqs[s].status = "NEW" \/ s \in sequences THEN {<< >>}
                   ELSE {<<seqs[s].finish_reason>>, <<"RESET">>}

\* A preempted sequence waits in front of every request that never ran.
PreemptedWaitInFront ==
    \A i, j \in DOMAIN waiting :
        i < j /\ seqs[waiting[j]].num_preemptions > 0 =>
            seqs[waiting[i]].num_preemptions > 0

WasPreempted(s) == seqs'[s].num_preemptions > seqs[s].num_preemptions

\* A preemption frees at least one block, so the loop that preempts until the
\* next token fits cannot drain the batch for nothing.
PreemptionFreesBlocks ==
    [][(\E s \in SeqId : WasPreempted(s)) =>
          Len(kv'.free_block_ids) > Len(kv.free_block_ids)]_vars

\* The oldest running sequence keeps its blocks until it finishes, unless it
\* runs alone and has outgrown the whole pool: the reason why preemption is
\* not a livelock.
OldestKeepsRunning ==
    [][\A s \in SeqId : WasPreempted(s) /\ s = Head(running) =>
          /\ Len(running) = 1
          /\ CeilDiv(Len(seqs[s].token_ids), BlockSize) > NumBlocks]_vars

\* tests/test_scheduler.py: "Outputs mismatch under preemption!".  A small
\* pool may delay a request, but a request that fits the pool and the budget
\* when it arrives ends with LENGTH only on its own token limit.
PreemptionIsTransparent ==
    \A s \in SeqId :
        /\ seqs[s].finish_reason = "LENGTH"
        /\ seqs[s].prompt_len <= MaxNumBatchedTokens
        /\ CeilDiv(Len(seqs[s].token_ids), BlockSize) <= NumBlocks
        => GeneratedLen(seqs[s]) >= MaxTokens

\* The engine is a legal caller of the KV cache manager: each of its steps is
\* one call of KVCacheManager's state machine, or none.
Manager == INSTANCE KVCacheManager WITH
    seqs <- [s \in SeqId |->
                [ token_ids |-> seqs[s].token_ids,
                  num_computed_tokens |->
                      IF Holds(kv, s) THEN seqs[s].num_computed_tokens ELSE 0 ]]

ManagerSpec == Manager!KVSpec
=============================================================================
