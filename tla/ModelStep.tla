----------------------------- MODULE ModelStep ------------------------------
(***************************************************************************)
(* ModelRunner.execute_model (worker/model_runner.py): a forward pass      *)
(* (module ForwardPass), then a token per sequence (module Sampling),      *)
(* taken by the sampler in an eager step and by the argmax inside the      *)
(* graph, or by the sampler, in a captured one.                            *)
(***************************************************************************)
EXTENDS ForwardPass, Sampling

CONSTANTS
    LogitRows,             \* BOUND: rows of logits the model may compute
    TopPs                  \* BOUND: top_p of a request, in tenths

ASSUME RowsAssumption ==
    \A row \in LogitRows : /\ row \in [Vocab -> Int]
                           /\ \A v \in Vocab : row[v] >= MinLogit
ASSUME TopPAssumption == TopPs \subseteq Nat

VARIABLES
    greedy_argmax,         \* BABYVLLM_GREEDY_ARGMAX
    logits,                \* a row per sequence of the batch
    params,                \* its temperature and top_p
    candidates,            \* the tokens its own may be drawn from
    sampled                \* the token it gets

sampleVars == <<logits, params, candidates, sampled>>
stepVars == <<fwdVars, greedy_argmax, sampleVars>>

SamplingParams == [temperature : {"zero"}, top_p : {10}]
                      \cup [temperature : {"positive"}, top_p : TopPs]

AllGreedy(ps) == \A i \in DOMAIN ps : ps[i].temperature = "zero"

\* torch.argmax takes the lowest of equal tokens, as the kernel does.
GraphToken(row) == IF greedy_argmax = "triton" THEN GreedyArgmax(row) ELSE LeftMax(row)

Ties == {[v \in Vocab |-> v], [v \in Vocab |-> -v]}

\* Sampler.forward, one row.
SamplerDraws(row, p, tie) ==
    IF p.temperature = "zero" THEN {LeftMax(row)}
    ELSE Nucleus(row, p.top_p, SortedIndices(row, tie))

Sample ==
    /\ pc = "logits" /\ path \in {"eager", "replay"}
    /\ logits' \in [DOMAIN batch -> LogitRows]
    /\ params' \in [DOMAIN batch -> SamplingParams]
    /\ \E tie \in Ties :
          candidates' = [i \in DOMAIN batch |->
              IF path = "replay" /\ AllGreedy(params') THEN {GraphToken(logits'[i])}
              ELSE SamplerDraws(logits'[i], params'[i], tie)]
    /\ sampled' \in {f \in [DOMAIN batch -> UNION Range(candidates')] :
                        \A i \in DOMAIN batch : f[i] \in candidates'[i]}
    /\ pc' = "sampled"
    /\ UNCHANGED <<inputVars, kv_cache, layer, heap, hidden, residual, q, k, todo,
                   greedy_argmax>>

\* The engine takes the tokens.
Deliver ==
    /\ pc = "sampled"
    /\ EndStep
    /\ logits' = << >> /\ params' = << >>
    /\ candidates' = << >> /\ sampled' = << >>
    /\ UNCHANGED greedy_argmax

StepInit ==
    /\ FwdInit
    /\ greedy_argmax \in {"fp32", "bf16", "triton"}
    /\ greedy_argmax # "triton" => use_cuda_graphs
    /\ logits = << >> /\ params = << >>
    /\ candidates = << >> /\ sampled = << >>

StepNext ==
    \/ FwdNext /\ UNCHANGED <<greedy_argmax, sampleVars>>
    \/ Sample
    \/ Deliver

StepSpec == StepInit /\ [][StepNext]_stepVars

-----------------------------------------------------------------------------
(* Properties.                                                             *)

\* A request at temperature 0 gets the lowest of its likeliest tokens, on every
\* path and in every argmax mode, alone or in a batch with sampled requests:
\* argmax.py:10-11.
GreedyIsFirstMaximum ==
    pc = "sampled" =>
        \A i \in DOMAIN batch : params[i].temperature = "zero" =>
            /\ sampled[i] \in Vocab
            /\ \A v \in Vocab : logits[i][v] <= logits[i][sampled[i]]
            /\ \A v \in Vocab : v < sampled[i] => logits[i][v] < logits[i][sampled[i]]

\* The tokens that a sampled request draws from are the top of its distribution:
\* they hold a mass of top_p at least, or all there is; none left out is likelier
\* than one that is kept; and without one of them they hold no more than top_p.
NucleusKept ==
    pc = "sampled" =>
        \A i \in DOMAIN batch : params[i].temperature = "positive" =>
            LET row == logits[i]
                S   == candidates[i]
                p   == params[i].top_p
            IN  /\ sampled[i] \in S
                /\ S = Vocab \/ 10 * Mass(row, S) >= p * Mass(row, Vocab)
                /\ \A u \in S, v \in Vocab \ S : row[u] >= row[v]
                /\ \E u \in S : 10 * Mass(row, S \ {u}) <= p * Mass(row, Vocab)
=============================================================================
