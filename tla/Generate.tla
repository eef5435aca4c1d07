------------------------------ MODULE Generate ------------------------------
(***************************************************************************)
(* A client of the engine: LLM.generate (babyvllm/llm.py) adds one request *)
(* per prompt and then calls LLMEngine.run (engine.py), which steps the    *)
(* engine while something is unfinished and accumulates the outputs of the *)
(* steps.  Calls of generate follow one another on one engine; nothing     *)
(* aborts or resets in between.  An exception in a step leaves generate    *)
(* and loses what run() has accumulated, but not what the engine holds.    *)
(***************************************************************************)
EXTENDS Engine

CONSTANT MaxPrompts        \* BOUND: prompts of one call
ASSUME MaxPromptsAssumption == MaxPrompts \in Nat

VARIABLES
    asked,                 \* the requests of the current or last call
    toAdd,                 \* prompts of the current call not added yet
    calling,               \* a call of generate is going on
    final_outputs,         \* local of run(), a dict in insertion order
    returned               \* what the last call returned; << >> during a call

clientVars == <<asked, toAdd, calling, final_outputs, returned>>
generateVars == <<vars, clientVars>>

\* The RequestOutputs of the step, in order: the scheduled sequences, then the
\* finished ones without an output.
StepOutputs ==
    LET Output(s) == [seq_id |-> s, tokens |-> NewTokens(s),
                      reason |-> seqs[s].finish_reason]
        unhandled == Delete(finished_seqs, ScheduledIds)
    IN  [i \in DOMAIN scheduled |-> Output(scheduled[i].seq_id)]
            \o [i \in DOMAIN unhandled |-> Output(unhandled[i])]

\* Mutant: the tokens of the last step replace those of the earlier ones.
AccumulateLast(outputs, out) ==
    IF \E i \in DOMAIN outputs : outputs[i].seq_id = out.seq_id
    THEN [i \in DOMAIN outputs |->
             IF outputs[i].seq_id = out.seq_id THEN out ELSE outputs[i]]
    ELSE Append(outputs, out)
\* run() on one RequestOutput: a new entry at the end, or more tokens and
\* maybe the reason for the one there is.
Accumulate(outputs, out) ==
    IF \E i \in DOMAIN outputs : outputs[i].seq_id = out.seq_id
    THEN [i \in DOMAIN outputs |->
             IF outputs[i].seq_id # out.seq_id THEN outputs[i]
             ELSE [out EXCEPT !.tokens = outputs[i].tokens \o @,
                              !.reason = IF @ = "NONE" THEN outputs[i].reason ELSE @]]
    ELSE Append(outputs, out)

\* run() on all of them, in order.
AccumulateAll(outputs, outs) ==
    LET upTo[i \in 0 .. Len(outs)] ==
            IF i = 0 THEN outputs ELSE Accumulate(upTo[i - 1], outs[i])
    IN  upTo[Len(outs)]

-----------------------------------------------------------------------------
GenerateInit ==
    /\ Init
    /\ asked = << >>
    /\ toAdd = << >>
    /\ calling = FALSE
    /\ final_outputs = << >>
    /\ returned = << >>

Call(prompts) ==
    /\ ~calling
    /\ calling' = TRUE
    /\ asked' = prompts
    /\ toAdd' = prompts
    /\ final_outputs' = << >>
    /\ returned' = << >>
    /\ UNCHANGED vars

AddPrompt ==
    /\ calling
    /\ toAdd # << >>
    /\ AddRequest(Head(toAdd))
    /\ toAdd' = Tail(toAdd)
    /\ UNCHANGED <<asked, calling, final_outputs, returned>>

RunStep ==
    /\ calling
    /\ toAdd = << >>
    /\ \/ HasUnfinished /\ BeginStep
       \/ phase # "outputs" /\ RestOfStep
    /\ UNCHANGED clientVars

RunAccumulates ==
    /\ calling
    /\ Outputs
    /\ final_outputs' = AccumulateAll(final_outputs, StepOutputs)
    /\ UNCHANGED <<asked, toAdd, calling, returned>>

\* The exception of execute_model leaves run() and generate().
CallRaises ==
    /\ calling
    /\ ExecuteRaises
    /\ calling' = FALSE
    /\ final_outputs' = << >>
    /\ UNCHANGED <<asked, toAdd, returned>>

Return ==
    /\ calling
    /\ toAdd = << >>
    /\ phase = "idle"
    /\ ~HasUnfinished
    /\ returned' = <<final_outputs>>
    /\ calling' = FALSE
    /\ UNCHANGED <<vars, asked, toAdd, final_outputs>>

GenerateNext ==
    \/ \E n \in 1 .. MaxPrompts : \E prompts \in [1 .. n -> SeqId] :
          /\ IsInjective(prompts)
          /\ \A i \in 1 .. n : seqs[prompts[i]].status = "NEW"
          /\ Call(prompts)
    \/ AddPrompt
    \/ RunStep
    \/ RunAccumulates
    \/ CallRaises
    \/ Return

GenerateSpec == GenerateInit /\ [][GenerateNext]_generateVars

\* generate() and run() are loops of one thread that wait for nothing; the
\* client need not call, and a forward pass need not raise.
CallStep == AddPrompt \/ RunStep \/ RunAccumulates \/ Return

FairGenerateSpec == GenerateSpec /\ WF_generateVars(CallStep)

-----------------------------------------------------------------------------
(* Properties.                                                             *)

Returned == returned # << >>

OutputIds == [i \in DOMAIN returned[1] |-> returned[1][i].seq_id]

\* add_seq does not refuse the prompt.
Accepted(s) ==
    /\ seqs[s].prompt_len <= MaxNumBatchedTokens
    /\ CeilDiv(seqs[s].prompt_len, BlockSize) <= NumBlocks

\* A prompt the scheduler accepts is answered by the call that asked, with the
\* whole of its text, once, and with the reason it ended: through preemption,
\* and after an earlier call that raised and left its requests behind.
AnsweredInFull ==
    Returned =>
        /\ IsInjective(OutputIds)
        /\ \A s \in ToSet(asked) : Accepted(s) =>
              \E out \in ToSet(returned[1]) :
                  /\ out.seq_id = s
                  /\ out.tokens = SubSeq(seqs[s].token_ids, seqs[s].prompt_len + 1,
                                         Len(seqs[s].token_ids))
                  /\ out.reason = seqs[s].finish_reason

\* The outputs of the accepted prompts come back in the order of the prompts.
AnsweredInOrder ==
    LET answerable == {s \in ToSet(asked) : Accepted(s)}
    IN  Returned => Keep(OutputIds, answerable) = Keep(asked, answerable)

\* A call of generate ends: it returns, or the forward pass raises.  Every step
\* of run() brings a request that is still unfinished nearer to its end, through
\* preemption, recompute and what an earlier call that raised has left in the
\* queues; a stall, where every step raises from then on, is no end.
CallEnds == calling ~> ~calling

\* README.md:42-43, tests/test_generation.py:33-37: a call returns one output
\* for each of its prompts, and no other.
OneOutputPerPrompt ==
    Returned => ToSet(OutputIds) = ToSet(asked)
=============================================================================
