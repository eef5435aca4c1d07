----------------------------- MODULE MCStartup ------------------------------
(* One layer with bias and weight of its attention projections, a checkpoint *)
(* in one file and in two, tied and untied; two heads to a key-value head.   *)
EXTENDS Startup

MCPlain == {[proj |-> "o_proj", tail |-> "weight"]}

MCConfigs ==
    LET Base == [ architecture |-> "Qwen2ForCausalLM", vocab_size |-> 2, hidden_size |-> 2,
                  intermediate_size |-> 2, num_attention_heads |-> 2,
                  num_key_value_heads |-> 1, tie_word_embeddings |-> FALSE ]
    IN  { Base, [Base EXCEPT !.tie_word_embeddings = TRUE],
          [Base EXCEPT !.hidden_size = 3], [Base EXCEPT !.architecture = "other"] }

Named(p, t) == [proj |-> p, tail |-> t]

\* The keys of a file come in the order of their names.
Alphabetical ==
    << LMHead, Embedding,
       Named("gate_proj", "weight"), Named("up_proj", "weight"),
       Named("k_proj", "bias"), Named("k_proj", "weight"),
       Named("o_proj", "weight"),
       Named("q_proj", "bias"), Named("q_proj", "weight"),
       Named("v_proj", "bias"), Named("v_proj", "weight") >>

\* Two files, the keys and the embedding in the second.
TwoFiles ==
    LET InSecond(name) == name.proj \in {"k_proj", "embed_tokens", "gate_proj"}
    IN  SelectSeq(Alphabetical, LAMBDA n : ~InSecond(n)) \o SelectSeq(Alphabetical, InSecond)

MCKeyOrders == {Alphabetical, TwoFiles, Tail(Alphabetical)}
=============================================================================
