------------------------------- MODULE Loader -------------------------------
(***************************************************************************)
(* load_model (worker/loader.py): the tensors of a checkpoint become the   *)
(* parameters of Qwen2ForCausalLM, the projections of a layer merged as    *)
(* its forward pass splits them.                                           *)
(*                                                                         *)
(* Abstractions.  A parameter or checkpoint key is [proj, tail]: what it   *)
(* projects, and the rest of its name, the layer among it.  A tensor is    *)
(* the sequence of its rows, a row [proj, tail, row, copy]: of which       *)
(* tensor it is, and of which copy when a later file has the key again.    *)
(***************************************************************************)
EXTENDS Integers, Sequences, SequencesExt

CONSTANTS
    QKVTails,              \* tails of attention projections
    GateTails,             \* tails of MLP projections
    PlainNames,            \* the parameters loaded as they are, but for lm_head
    Configs,               \* what config.json may say
    KeyOrders              \* the keys of a whole checkpoint, in loading order

ASSUME ConfigsAssumption ==
    \A c \in Configs :
        /\ c.vocab_size \in Nat \ {0} /\ c.hidden_size \in Nat \ {0}
        /\ c.intermediate_size \in Nat \ {0}
        /\ c.num_attention_heads \in Nat \ {0} /\ c.num_key_value_heads \in Nat \ {0}

\* The tensors of a checkpoint that are shards of a merged parameter.
ShardProjs == {"q_proj", "k_proj", "v_proj", "gate_proj", "up_proj"}
PlainProjs == {"o_proj", "down_proj", "input_layernorm", "post_attention_layernorm",
               "norm", "embed_tokens"}

\* The names of a checkpoint.
Names == [ proj : ShardProjs \cup PlainProjs \cup {"lm_head"},
           tail : QKVTails \cup GateTails \cup {name.tail : name \in PlainNames}
                      \cup {"weight", "unknown"} ]

ASSUME NamesAssumption ==
    /\ PlainNames \subseteq [proj : PlainProjs, tail : {name.tail : name \in PlainNames}]
    /\ KeyOrders \subseteq Seq(Names)

VARIABLES
    config,                \* ModelConfig
    checkpoint,            \* ghost: the keys and tensors, in loading order
    keys,                  \* those not read yet
    params,                \* the parameters of the model, by name
    merged,                \* merged_qkv and merged_gate_up
    loaded,
    load_pc                \* "none", "reading", "merging", "loaded" or "raised"

loadVars == <<config, checkpoint, keys, params, merged, loaded, load_pc>>

Embedding == [proj |-> "embed_tokens", tail |-> "weight"]
LMHead == [proj |-> "lm_head", tail |-> "weight"]

QKV(t) == [proj |-> "qkv_proj", tail |-> t]
GateUp(t) == [proj |-> "gate_up_proj", tail |-> t]

\* named_parameters of the model that config describes.
ParamNames ==
    {QKV(t) : t \in QKVTails} \cup {GateUp(t) : t \in GateTails}
        \cup PlainNames \cup {Embedding}
        \cup (IF config.tie_word_embeddings THEN {} ELSE {LMHead})

HeadDim == config.hidden_size \div config.num_attention_heads
QSize == config.num_attention_heads * HeadDim
KVSize == config.num_key_value_heads * HeadDim

\* Rows of a parameter, or of a checkpoint's tensor.
NumRows(proj) ==
    CASE proj = "qkv_proj" -> QSize + 2 * KVSize
      [] proj = "gate_up_proj" -> 2 * config.intermediate_size
      [] proj = "q_proj" -> QSize
      [] proj \in {"k_proj", "v_proj"} -> KVSize
      [] proj \in {"gate_proj", "up_proj"} -> config.intermediate_size
      [] proj \in {"embed_tokens", "lm_head"} -> config.vocab_size
      [] OTHER -> config.hidden_size

Tensor(name, copy, n) ==
    [i \in 1 .. n |-> [proj |-> name.proj, tail |-> name.tail, row |-> i, copy |-> copy]]

Uninitialised == [i \in 1 .. 1 |-> "random"]

\* The keys of order as a checkpoint: whole, with a key missing, there again in
\* a later file, of another shape, or unknown to the model.
CheckpointsOf(order) ==
    LET Entry(name, copy, n) == [name |-> name, tensor |-> Tensor(name, copy, n)]
        whole == [i \in DOMAIN order |-> Entry(order[i], 1, NumRows(order[i].proj))]
    IN  {whole}
        \cup {RemoveAt(whole, i) : i \in DOMAIN whole}
        \cup {Append(whole, Entry(name, 2, NumRows(name.proj))) : name \in ToSet(order)}
        \cup {[whole EXCEPT ![i].tensor = Tail(@)] : i \in DOMAIN whole}
        \cup {Append(whole, Entry([proj |-> p, tail |-> "unknown"], 1, 1)) :
                 p \in {"q_proj", "o_proj"}}

-----------------------------------------------------------------------------
LoadInit ==
    /\ config \in Configs
    /\ checkpoint = << >>
    /\ keys = << >>
    /\ params = << >>
    /\ merged = << >>
    /\ loaded = {}
    /\ load_pc = "none"

\* Qwen2ForCausalLM, and the call of load_model on a checkpoint.
LoadModel ==
    /\ load_pc = "none"
    /\ \E order \in KeyOrders : checkpoint' \in CheckpointsOf(order)
    /\ keys' = checkpoint'
    /\ params' = [name \in ParamNames |-> Uninitialised]
    /\ load_pc' = "reading"
    /\ UNCHANGED <<config, merged, loaded>>

Raise ==
    /\ load_pc' = "raised"
    /\ UNCHANGED <<params, merged, loaded>>

CopyTo(name, w) ==
    IF name \in ParamNames /\ Len(w) = NumRows(name.proj)
    THEN /\ params' = [params EXCEPT ![name] = w]
         /\ loaded' = loaded \cup {name}
         /\ UNCHANGED <<merged, load_pc>>
    ELSE Raise

MergedName(name) ==
    IF name.proj \in {"q_proj", "k_proj", "v_proj"} THEN QKV(name.tail)
    ELSE GateUp(name.tail)

\* dict[x] = y
Put(dict, x, y) == [z \in DOMAIN dict \cup {x} |-> IF z = x THEN y ELSE dict[z]]

\* The shards that a merged parameter has so far.
ShardsOf(key) == IF key \in DOMAIN merged THEN merged[key] ELSE << >>

ReadKey ==
    /\ load_pc = "reading"
    /\ keys # << >>
    /\ LET name == Head(keys).name
           w    == Head(keys).tensor
           key  == MergedName(name)
       IN  \/ /\ name = LMHead /\ config.tie_word_embeddings
              /\ UNCHANGED <<params, merged, loaded, load_pc>>
           \/ /\ name.proj \in ShardProjs
              /\ merged' = Put(merged, key, Put(ShardsOf(key), name.proj, w))
              /\ UNCHANGED <<params, loaded, load_pc>>
           \/ /\ name.proj \notin ShardProjs
              /\ ~(name = LMHead /\ config.tie_word_embeddings)
              /\ CopyTo(name, w)
    /\ keys' = Tail(keys)
    /\ UNCHANGED <<config, checkpoint>>

ReadingDone ==
    /\ load_pc = "reading"
    /\ keys = << >>
    /\ load_pc' = "merging"
    /\ UNCHANGED <<config, checkpoint, keys, params, merged, loaded>>

Shards(key) ==
    IF key.proj = "qkv_proj" THEN {"q_proj", "k_proj", "v_proj"} ELSE {"gate_proj", "up_proj"}

\* Mutant: the shards in the order of their names.
ConcatenatedAsStored(key) ==
    LET shard == merged[key]
    IN  IF key.proj = "qkv_proj" THEN shard["k_proj"] \o shard["q_proj"] \o shard["v_proj"]
        ELSE shard["gate_proj"] \o shard["up_proj"]
\* torch.cat of the shards.
Concatenated(key) ==
    LET shard == merged[key]
    IN  IF key.proj = "qkv_proj" THEN shard["q_proj"] \o shard["k_proj"] \o shard["v_proj"]
        ELSE shard["gate_proj"] \o shard["up_proj"]

\* The attention projections are merged before those of the MLPs; a shard that
\* is missing is a KeyError.
Merge(key) ==
    /\ load_pc = "merging"
    /\ key \in DOMAIN merged \ loaded
    /\ key.proj = "gate_up_proj" =>
           \A other \in DOMAIN merged \ loaded : other.proj = "gate_up_proj"
    /\ IF Shards(key) \subseteq DOMAIN merged[key] THEN CopyTo(key, Concatenated(key))
       ELSE Raise
    /\ UNCHANGED <<config, checkpoint, keys>>

\* Parameters that nothing was copied to are an error.
LoadDone ==
    /\ load_pc = "merging"
    /\ DOMAIN merged \subseteq loaded
    /\ load_pc' = IF loaded = ParamNames THEN "loaded" ELSE "raised"
    /\ UNCHANGED <<config, checkpoint, keys, params, merged, loaded>>

LoadStep == ReadKey \/ ReadingDone \/ (\E key \in DOMAIN merged : Merge(key)) \/ LoadDone
=============================================================================
