------------------------------- MODULE Startup ------------------------------
(***************************************************************************)
(* LLM.__init__ (llm.py): the configuration is read (config.py), the model *)
(* runner builds the model, load_model fills it (module Loader), the cache *)
(* is sized and allocated and the engine made (module KVAllocation).  An   *)
(* exception anywhere leaves no engine.                                    *)
(***************************************************************************)
EXTENDS KVAllocation, Loader

VARIABLE startup           \* "config", "build", "load", "cache" or "failed"

startupVars == <<vars, loadVars, startup>>

\* ModelConfig.from_hf: its two assertions.
FromHF ==
    /\ startup = "config"
    /\ startup' = IF /\ config.architecture = "Qwen2ForCausalLM"
                     /\ config.hidden_size % config.num_attention_heads = 0
                  THEN "build" ELSE "failed"
    /\ UNCHANGED <<vars, loadVars>>

\* ModelRunner.__init__; BABYVLLM_GREEDY_ARGMAX may name no known mode.
BuildModel ==
    /\ startup = "build"
    /\ \/ startup' = "load" /\ LoadModel
       \/ startup' = "failed" /\ UNCHANGED loadVars
    /\ UNCHANGED vars

Load ==
    /\ startup = "load"
    /\ \/ LoadStep /\ UNCHANGED startup
       \/ /\ load_pc \in {"loaded", "raised"}
          /\ startup' = IF load_pc = "loaded" THEN "cache" ELSE "failed"
          /\ UNCHANGED loadVars
    /\ UNCHANGED vars

\* The sizing forward may run out of memory, and nothing catches that.
SizingRaises ==
    /\ startup = "cache"
    /\ cuda /\ pc = "idle" /\ num_blocks = None
    /\ startup' = "failed"
    /\ UNCHANGED <<vars, loadVars>>

\* allocate_kv_cache, LLMEngine, and captured steps of the engine.
AllocateAndServe ==
    /\ startup = "cache"
    /\ Next
    /\ UNCHANGED <<loadVars, startup>>

StartupInit == Init /\ LoadInit /\ startup = "config"

StartupNext == FromHF \/ BuildModel \/ Load \/ SizingRaises \/ AllocateAndServe

StartupSpec == StartupInit /\ [][StartupNext]_startupVars

-----------------------------------------------------------------------------
(* Properties.                                                             *)

\* The tensor a checkpoint has for a key: the one of the last file.
Stored(proj, t) ==
    Max({i \in DOMAIN checkpoint : checkpoint[i].name = [proj |-> proj, tail |-> t]})

StoredTensor(proj, t) == checkpoint[Stored(proj, t)].tensor

\* The engine never serves a model other than the checkpoint's.  Whatever the
\* order and the files of the keys, and whichever of them is missing, repeated,
\* misshapen or unknown: once there is an engine, the parts that the forward
\* pass splits a merged parameter into (qwen2.py:33, 56) are the checkpoint's
\* projections, the others are its tensors, and the logits of a tied model come
\* from the embedding.
EngineRunsLoadedModel ==
    pool # None =>
        /\ \A t \in QKVTails :
              LET w == params[QKV(t)]
              IN  /\ SubSeq(w, 1, QSize) = StoredTensor("q_proj", t)
                  /\ SubSeq(w, QSize + 1, QSize + KVSize) = StoredTensor("k_proj", t)
                  /\ SubSeq(w, QSize + KVSize + 1, Len(w)) = StoredTensor("v_proj", t)
        /\ \A t \in GateTails :
              LET w == params[GateUp(t)]
              IN  /\ SubSeq(w, 1, config.intermediate_size) = StoredTensor("gate_proj", t)
                  /\ SubSeq(w, config.intermediate_size + 1, Len(w)) = StoredTensor("up_proj", t)
        /\ \A name \in PlainNames \cup {Embedding} :
              params[name] = StoredTensor(name.proj, name.tail)
        /\ LMHead \in DOMAIN params <=> ~config.tie_word_embeddings
        /\ LMHead \in DOMAIN params => params[LMHead] = StoredTensor("lm_head", "weight")
=============================================================================
