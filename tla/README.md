# A TLA+ model of baby-vllm

This directory holds TLA+ modules that model the core of baby-vllm (`src/babyvllm`), the TLC
configurations that check them on small instances, and theorems about them that TLAPS proves
for every value of the constants. `PROJECT.json` lists the runs, the theorems, the source lines
each definition stands for, the hazards of the code, and for each property a mutation of the
code's definition that breaks it.

## 1. The system

baby-vllm is a single-process inference engine with continuous batching over a paged KV cache.
`LLM.generate` adds one request per prompt and calls `LLMEngine.run`, which calls `step()` for as
long as something is unfinished. One step schedules (`Scheduler.schedule`), runs the forward pass
(`ModelRunner.execute_model`), updates the sequences (`Scheduler.update_from_output`) and returns
the new tokens. No component has threads of its own; what is hard is the order in which loops
over several sequences change state they share (blocks, counts, queues, token budget), and what
is left behind when a step ends early.

| component | state | operations | correct when |
|---|---|---|---|
| KV cache manager, `kv_cache_manager.py` | free list in order of release, used set, reference counts, block keys, cached blocks, one table per sequence, registered blocks per sequence | `get_computed_blocks`, `can_allocate`, `allocate_slots`, `cache_full_blocks`, `free`, `reset` | the pool is accounted for; sharing a block means sharing the prefix; one writer per block |
| Sequence, `sequence.py` | tokens, computed prefix, status, finish reason, preemption count | `append_token`, `advance_computed`, `finish`, `reset_for_recompute` | tokens are append-only and survive a recompute |
| Scheduler, `scheduler.py` | `waiting`, `running`, `finished_seqs` | `add_seq`, `schedule`, `update_from_output`, `abort_seq` | blocks are held by running sequences only; a schedule stays true until it is executed; no stall, no starvation |
| Engine, `engine.py` | `sequences` | `add_request`, `abort_request`, `step`, `run`, `reset` | every request is answered once, with what was generated |
| Model runner, `worker/model_runner.py` | cache tensors, static buffers per bucket, captured graphs | `allocate_kv_cache`, `execute_model` | the eager and the captured path see the same inputs; padding never touches a block of the pool |
| Decode inputs, `worker/decode_inputs.py` | staging arrays, what each row holds | `update` | the edited arrays equal arrays rebuilt from scratch |
| Attention, `layers/attention.py`, `kernels/paged_*.py`, `kernels/decode_split.py` | none (reads and writes the cache) | store, decode, split decode, prefill | each query reads exactly the keys at or before its position, once |
| Model, `models/qwen2.py`, `layers/*.py`, with `kernels/rope.py`, `layernorm.py`, `activation.py` | the tensors of a pass, the forward context, what is stored in each layer's cache | a pass through embedding, layers and final norm | every layer caches each key rotated once; logits see the whole prefix, whatever earlier passes left behind |
| Sampling, `layers/sampler.py`, `kernels/argmax.py` | none | greedy, top-p | the first maximum on every path; the top of the distribution, never less than `top_p` of it |
| Loader, `worker/loader.py` | parameters, shards to be merged, names loaded | `load_model` | the model is the checkpoint's, or the load fails |
| Start-up, `llm.py`, `config.py` | the configuration | `LLM.__init__` | an exception leaves no engine |
| tests, scripts, assets, `day4` to `day6` | not part of the engine | | |

The interactions: the scheduler calls the manager inside its loops; the manager's tables and slots
are copied into the scheduler's output and used by the model runner after the loops are over; the
attention layer stores through those slots and reads through those tables; prefix caching makes a
block written for one sequence readable by another, before the write has happened.

`PROJECT.json` lists the hazards with their lines.

## 2. The modules

| module | models | kind |
|---|---|---|
| `OrderedKeys` | the two operations on an `OrderedDict` of blocks used as a free list: keep some keys, delete some keys | operators |
| `KVCacheManager` | class `KVCacheManager`. One record `kv` with the fields of the class; every method is an operator from a record to a record, and a state machine `KVSpec` drives them the way any legal caller may | component |
| `Engine` | classes `LLMEngine`, `Scheduler` and `Sequence`, calling the manager's operators inside their steps, and a ghost `content` of the physical cache | composition |
| `Generate` | `LLM.generate`, call after call, over `Engine` and the accumulation in `run()` | composition |
| `DecodeInputs` | class `DecodeInputs` and the captured decode path of `ModelRunner`, over `KVCacheManager` | composition |
| `SplitAttention` | the kernels of `paged_attn.py`: programs of a launch in any order, and `KernelSpec`, which accepts any plan | abstract specification |
| `DecodeAttention` | the split plan and the three ways a decode launch is sized; implements `KernelSpec` | component |
| `PrefillAttention` | `prepare_inputs`, the dispatch in `Attention.forward`, the prefill kernel, the torch loop and the gathering path | component |
| `KVAllocation` | `determine_num_blocks`, `allocate_kv_cache`, and the dummy block in captured steps | component |
| `ForwardPass` | a pass through `Qwen2ForCausalLM` operation by operation, from the prepared inputs to the rows of the logits: residual stream, rotation and store, cache by layer, warm-ups, capture, passes that raise | component |
| `PowersOfTwo` | `1 << n` and `triton.next_power_of_2` | operators |
| `Sampling` | `Sampler.forward` and the two kernels of `argmax.py` | operators |
| `ModelStep` | `ModelRunner.execute_model`: `ForwardPass`, then a token for each sequence from `Sampling` | composition |
| `Loader` | `load_model`, key by key | component |
| `Startup` | `LLM.__init__`: configuration, `Loader`, then `KVAllocation` | composition |
| `MC...` | the constants TLC needs, one for each module that is checked | model checking |
| `OrderedKeysProofs` | what all the others need: queues as ordered lists of keys, maxima, running sums, powers of two, induction over sets of numbers | proofs |
| `KVCacheManagerProofs` | theorems about the manager: its books, then what its tables stand for | proofs |
| `EngineProofs` | theorems about the engine: its state and its use of the manager, then what the scheduler promises, what attention reads, and what `generate()` answers | proofs |
| `DecodeInputsProofs` | theorems about the staging arrays and the captured path | proofs |
| `DecodeAttentionProofs`, `PrefillAttentionProofs` | theorems about the attention of a decode step and of a mixed batch | proofs |
| `StartupProofs` | theorems about the pool and the loaded model | proofs |
| `ModelStepProofs` | theorems about greedy and top-p sampling, the cache of every layer and the rows of the logits | proofs |

**KVCacheManager.** A token is a member of `Token`. A block key in the code is (hash of the parent
key, tokens of the block); the model takes the parent hash to be collision free, so a key is the
whole token prefix up to the end of the block. `seq.block_hashes` memoises those hashes and is a
function of `token_ids`, so it is not a variable. The hit-rate counters are left out. The actions
of `KVSpec` are the calls a legal caller makes: `KVAllocate` (an admission with its cached prefix
or one more token), `KVCompute` (the forward pass ran and the sampled token was appended),
`KVFree` (finish, abort or preemption) and `KVReset`.

**Engine.** A call of `step()` is a run of actions, one for each iteration of a loop, told apart
by `phase`:

    idle -> running (the loop over running sequences, with its preemptions)
         -> waiting (admissions and rejections) -> execute -> update -> outputs -> idle

`add_request`, `abort_request` and `reset` are calls from outside and happen when `phase` is `idle`.
`execute_model` is one action: every scheduled token is stored through its slot mapping, then each
sequence samples any token. When `ExecutionMayFail`, it may raise instead, before or after the
stores, and the next call finds what `schedule()` left behind. `content` is a ghost: it records for
each slot the token prefix whose last key and value were stored there, because the keys and values
of a position depend on all tokens up to it. Reading correctly is therefore a state predicate,
`ReadsOwnContext`. `delivered` is a ghost too: everything `step()` has returned to each request, its tokens and the reasons of its
finish. A reset forgets requests without an output, and `delivered` notes that as `"RESET"`, so that no other way of
forgetting a request may leave its finish untold.

`Engine` refines `KVCacheManager`: `ManagerSpec` is `KVSpec` under the mapping that takes the
engine's sequences to the tokens and computed prefix the manager sees (0 while the sequence holds
no blocks). So every invariant proved of `KVSpec` holds in the engine.

**Generate.** The engine's own actions, as the loop in `run()` takes them, with the dict it builds
(`final_outputs`, a sequence, because a dict keeps insertion order). An exception ends the call and
loses the dict, but not the requests in the engine, which the next call finishes.

**DecodeInputs.** `host` is the staging arrays row by row with what each row is believed to hold.
Between captured steps the manager's own actions run: a table grows, is freed, the sequence is
recomputed with a higher preemption count. A step that runs eagerly is simply one in which the
arrays are not touched. `stream` is the queue of work on the CUDA stream; a copy reads the host
arrays when the device takes it from the queue, which is what a non-blocking copy from pinned
memory allows. `side` holds the warm-ups that a capture queues on a side stream: each waits for what was on the
current stream before it (`Ahead`), and nothing on the current stream waits for a warm-up until the host waits for the whole
device before it captures. `batch` is the step in flight, `launch` and `warmups` how far the host has come with it. `StepRaises`
ends the step after any of its calls: a warm-up, the first or a later one, the capture, the replay, the sampler, the
read-back. Nobody waits then, and what is queued stays queued (`current` is `FALSE`) while the next step edits the arrays. A reset
of the engine frees all tables at once; the sequences that come after it have ids of their own, which is a higher
preemption count in the model. The six copies of a step are one.

**SplitAttention and DecodeAttention.** A partial softmax is the set of positions whose keys it weighs;
`-1` stands for memory nothing has written. `KernelSpec` is what the kernels promise for any rows
and any plan. `DecodeAttention` adds who calls them: `LaunchEager` as `prepare_inputs` sizes it,
`LaunchGraph` with the batch and the context in their buckets, and `LaunchForBucket`, the call of
`tests/test_paged_attn.py:173` with a bucket the rows outgrow.

**PrefillAttention.** Sequence `i` has blocks of its own, so a slot tells whose key it holds, and block 0,
the padding of tables, belongs to nobody. A row of the result is the set of slots it weighs and the
set its program loads. The key tiles of a program are taken together: they are a partition of the
keys below one limit.

**KVAllocation.** Memory is in small units. The device may run out of it at any layer's tensor, any
number of times. `padded_into` is a ghost of the blocks padded rows store into.

**ForwardPass.** Numbers are replaced by where they come from. A row of a tensor is the list of what was
added up in it: the embedding of its token, then the outputs of attention and MLP, layer by layer. A head of
`q` or `k` is the list of positions it was rotated by. So a row that lost a residual, a key rotated twice, or
a value stored before its norm differs from what it should be, and an output computed from a wrong operand
is `"wrong"` from then on. `batch` is the schedule of the step, distinct sequences in any
order, and `rows` their uncomputed tokens. The tensors of a pass are kept by name in `heap`, because `RMSNorm.forward` adds
to its residual in place: after the first norm `residual` is the embedding tensor itself. `pc` is the next
operation; the programs of the RoPE kernel are actions of their own, in any order (`todo`), as each rotates
heads in place and stores them. A captured step replays the same operations over padded rows, after
`WarmupSteps` warm-up passes if its bucket has no graph. An eager or a warm-up pass may raise before any
operation (`PassRaises`): what its finished kernels stored stays in the cache, and the sequences are computed
again. Position `p` of a sequence has a slot of its own here; who holds which slot is the subject of
`Engine`.

**Sampling and ModelStep.** A logit is an integer, and the mass of a token after temperature and softmax a power
of two of its logit, which keeps the sums exact; `top_p` is in tenths. The sort is given by the place of each token, and the order in which
`torch.sort` puts equal logits is free (`tie`). `Sample` chooses logits and parameters for each row of the batch: an
all-greedy captured step takes the token from the argmax of the graph in the mode that
`BABYVLLM_GREEDY_ARGMAX` names, any other from the sampler. `candidates` are the tokens a row may get.

**Loader and Startup.** A tensor is the sequence of its rows, and a row says of which tensor of the checkpoint, and
of which copy of it, it is. `CheckpointsOf` damages a whole checkpoint in one place: a key missing, repeated in a later file,
of another shape, or unknown to the model. A dict is a function that grows (`Put`). Merging is one action per parameter. `Startup` puts the steps of the
constructor in a row, each of which may raise.

## 3. The runs

| run | instance | what it shows |
|---|---|---|
| `kv_manager` | 3 sequences, 3 blocks of 2 tokens, 2 tokens | `_check_invariants` in every state; a block two sequences share holds the same prefix at the same place (`SharersAgree`) and at most one of them still writes it (`OneWriterPerBlock`); no more holders than blocks; tables change at the end only and cover their tokens; a sequence that is alone and fits always gets its blocks, whatever it hits |
| `engine_caching` | 3 requests, 3 blocks, prefix caching | a schedule stays true until it is executed; no slot is written twice in a step; attention reads its own prefix; victims wait in front; a preemption frees blocks; the engine is a legal caller of the manager |
| `engine_failing_step` | 3 requests, 3 blocks, a prompt too long for a step, one that outgrows the pool, the forward pass may raise | queues, statuses and blocks agree; the engine never stalls; the budget never leaves a running sequence out; each stream is delivered complete, and each finish told exactly once; the oldest running sequence is never a victim; still a legal caller |
| `generate_calls` | 3 requests, calls of up to 2 prompts, 2 blocks, prefix caching, the forward pass may raise | every call ends; every accepted prompt is answered by the call that asked, in full and in order |
| `decode_inputs` | 2 sequences, 3 blocks, bucket of 2 rows, 2 warm-ups, steps that raise at any call, resets | the edited arrays equal a rebuild, warm-ups and replays of the step in flight read its inputs, a row's key names its table |
| `decode_attention` | up to 3 rows of 1 to 5 pages, 2 devices, 3 settings | every key weighed once; eager and captured launches cut a row at the same pages; every plan is one the kernels accept |
| `prefill_attention` | up to 3 sequences, 3 contexts, 3 query lengths | each query row weighs its own prefix; no slot that was never stored is loaded; sampled rows saw the whole sequence |
| `model_step` | 2 sequences through 2 layers, 4 query heads to 2 key-value heads, buckets of 1 and 3 rows, rows of 5 logits in 3 chunks; with and without CUDA and graphs | every layer caches each key rotated once, from the right sum; logits are computed from the last token and the whole prefix of each sequence; greedy rows get the first maximum, sampled rows draw from their nucleus |
| `startup` | 4 configurations, 3 orders of the keys, every damage of `CheckpointsOf`; 2 layers, no room up to 7 blocks | an engine runs exactly the checkpoint's model; padding never stores into the pool; the pool is backed in every layer |
| `engine_preempted_cut_short`, `engine_stale_hit`, `generate_rejected` | expect a violation | see section 5 |

*Bounds.* `MaxLen` bounds the length of a sequence in `KVSpec`; the engine needs no such bound
because `MaxTokens` ends a request. The runs of `Engine` choose it so that a prompt and its output fit
(`Len(p) + MaxTokens <= MaxLen`), which is what `EngineIsALegalCaller` asks of it. With blocks of two tokens, the prompts of one to five
tokens cover the cases a block distinguishes: part of a block, exactly a block, a block and a part, and
a prompt that takes the whole pool. Three blocks and three sequences are enough for a block with two
holders and a third sequence that evicts, for a victim that was scheduled earlier in the step and one
that was not, and for a preemption of a sequence by itself. `MaxPrompts` bounds a call of `generate`;
three ids are one call after another. `MaxEpoch` bounds the lives of a table: a recompute or a reset begins a new one, and one is enough for a row
that still carries the key of a table freed long ago. `StreamDepth` bounds the work on the current stream, so that a step that
starts finds up to one step's work, a copy or a replay, left there by a step that raised; `SideDepth` bounds the warm-ups on side
streams, and with `WarmupSteps = 2` a capture can fail at its first warm-up and at a later one, and the warm-ups it leaves run beside
those of the next capture.
`MaxRows` and `MaxSeqs` give three rows in a bucket of four, and three neighbours in a flattened batch, of
which each may be a decode row, a fresh prompt or a continuation; the lengths fall on both sides of a
page, of a split, of a tile and of a bucket. Sequences are symmetric; tokens are not, because one is a stop
token. The run with a liveness property uses no symmetry. In `generate_calls` the prompts have one, three and five
tokens and the pool four slots: the longest is refused, and two of three tokens cannot both grow.

In `model_step` the second layer is needed for a residual that is added to, and enough for a cache that mixes the
layers; four query heads to two key-value heads give programs that store nothing and a group of two. Buckets of one and
three rows make a padded and an unpadded step of one and of two sequences. The rows of logits have ties inside a chunk and
between chunks, a maximum in the half masked last chunk and logits that are all equal; negative, so that a masked
lane must not win. `MaxLen` gives each sequence a prefill and a decode step, each of which may raise and be repeated
any number of times. In `startup` the attention projections have bias and weight, so that two parameters are
merged from three shards each, and `num_key_value_heads` is below `num_attention_heads`, so that the shards
differ in size.

*Deadlock* is checked except where the modelled code really stops: in `Generate`, whose behaviours end when every
request id has been used, in `ModelStep`, which ends when each sequence has its `MaxLen` tokens, and in `Startup`, which
ends when the constructor raised and has nothing to do after an engine without graphs is built.

*Fairness.* `FairGenerateSpec` has weak fairness on `CallStep`, the next step of a call of `generate()` that is
going on. `generate()` and `run()` are loops of one thread that wait for nothing (`llm.py`, `engine.py:150`), so the next
step is always enabled until the call ends, and is taken. Nothing is assumed of what the client asks, of
which token is sampled, or of the forward pass: it may raise, which ends the call, but need not.
A stall (`step()` raising because nothing can be scheduled) is not counted as an end.

*Mutants.* Each property of a passing run is violated when one definition is changed the way a
plausible bug would change the code; the changed definitions stand beside the original ones and are
marked `Mutant`.

## 4. The proofs

`KVCacheManagerProofs` proves, for every pool, block size, set of sequences, tokens and prompts:

- `KVTypeCorrect == KVSpec => []KVTypeOK`,
- `KVAccounting == KVSpec => []CheckInvariants`: what `_check_invariants` asserts, in every state.

The inductive invariant `Inv` is the conjunction of the types, the four parts of `CheckInvariants`
and one strengthening, that only finitely many sequences hold blocks: reference counts are
cardinalities of sets of holders, and a cardinality only adds up for finite sets. `SeqId` itself need
not be finite. The step lemma has one part for each call; the work is in lemmas about the operators:

- `AcquireHitsInv`, `PopFreeBlocksInv`, `CacheFullBlocksInv` and `FreeInv`: each part of a method keeps
  the record invariant `KVInv`;
- `HitsProperties`: the hits of a lookup are distinct blocks whose keys are the prefixes of the sequence,
  so acquiring them cannot count one twice;
- `EnoughAfterHits`: `can_allocate` counts the revived blocks, so after the hits are taken off the
  free list it still has as many blocks as are popped;
- `BlockKeysDiffer`: two full blocks of a sequence have different keys, so registering several at once
  keeps keys and cache inverse to each other;
- in `OrderedKeysProofs`: what keeping, concatenating, reversing and splitting do to an ordered list of
  distinct keys (`KeepProperties`, `ConcatDistinct`, ...).

The assumptions used are that the pool and the blocks are not empty, which the constructor
asserts, and that a prompt is a non-empty sequence of tokens, which `Sequence.__init__` checks.

The second half of `KVCacheManagerProofs` relates the books to what the blocks stand for, again for every value of the constants:
`SharersAlwaysAgree`, `OneWriterAlways`, `TablesCoverTokens`, `HoldersAlwaysWithinPool`, `LoneSequenceAlwaysFits` and
`TablesOnlyGrow`. None of the properties is inductive. The invariant `Sharing` adds to the manager's own `KVInv`:

- `KeysNameTheirPlace`: a block with a key stands in every table at the place the key says, and the key is
  the holder's own prefix. This is what makes a hit of a lookup a correct hit;
- `SharedBlocksHaveKeys`: only blocks with a key are in two tables, because what is popped from the free list is
  in none. With the former it gives `SharersAgree`;
- `HaveOwnBlocks`: the holders can be given a block each. A sequence keeps at least one token out of its hits, so an
  admission pops a block of its own (`HoldersWithinPool` by counting);
- `ComputedAreHeld` and `TablesCover`: computed tokens lie in the table, and none count without a table;
- `OneWriter`: a block that is hit is below the computed tokens of the sequence that hit it.

`AllocateSlotsTables` says once what `allocate_slots` does to tables and keys; `AllocateKeepsSharing`,
`ComputeKeepsSharing` and `FreeKeepsSharing` take the invariant through the calls. They are stated of a record and a
function of sequences, not of the variables, so that the engine can use them for its own calls
(`ManagerCall`, `ManagerCallKeepsSharing`).

`EngineProofs` proves the engine's books: `EngineTypeCorrect`, `QueuesAndBlocksAlwaysAgree`, `ScheduleAlwaysTrue` and
`NoSlotEverWrittenTwice`. The inductive invariant `EngineInv` has one part for each reason:

- `Types`, with the types of what a step carries along (`scheduled`, `sampled`);
- `Queues`: who is in which queue, and that victims on their way back are in none and waiting already. This is stronger
  than `QueuesAndBlocksAgree`, which says nothing of requests the engine does not know;
- `Loops`: in the running loop, `running` is what has been scheduled followed by what `todo` still holds, and the rest
  of `todo` was preempted. So the victim, the last of `running`, is never a sequence that is scheduled already. After
  the loops `todo` is a part of the schedule, each sequence once;
- `Tokens`: what is computed in each status, and that a prompt plus `MaxTokens` bounds the tokens;
- `LiveSchedule`: an entry of the schedule is what `schedule()` would record now, and its table covers all tokens;
- `NoSlotWrittenTwice` itself, which needs `Sharing`: two entries with a slot in common would be two writers of a block;
- `Sharing`, of the manager and the sequences as it sees them (`Projected`).

There is a lemma `...Keeps` for each action. `EngineIsALegalCaller` proves the refinement `Spec => ManagerSpec`: each step is one
call of `KVSpec` (`CallIsAStep`) or none (`NoCall`). Its hypothesis `Len(p) + MaxTokens <= MaxLen` limits `KVSpec`, which stops
growing sequences at `MaxLen`, and not the program: for any prompts of bounded length and any `MaxTokens` there is such a `MaxLen`, and
the other theorems about the engine do without it.

The second part of `EngineProofs` proves, on top of `EngineInv`, what the scheduler and the engine promise:

- `NobodyIsLeftOut` (`EveryRunningIsScheduled`). The budget is shared by running sequences that may have to recompute after a
  forward pass that raised, so it is not enough that each fits. The invariant `Room` says that the tokens to compute of all
  running sequences, laid end to end in the order of `running`, fit the budget, those not yet visited into what is left of
  it. The intervals are a function that the invariant quantifies over, because a sum would need induction.
  `Limits` adds the batch size, and that after the running loop the schedule is `running`;
- `EngineNeverStalls` (`NeverStalls`). `Busy` says that a step has a reason to run and that its budget is whole until something is
  scheduled; a head of the queue that is not admitted then means that something else holds blocks, and so runs
  (`AloneItFits`, from `LoneFits`);
- `OldestAlwaysKeepsRunning` (`OldestKeepsRunning`), from `Loops`: the victim is the last of `running`, so the head is its own victim when it is alone, and
  then `LoneFits` leaves only a sequence that has outgrown the pool;
- `PreemptionAlwaysFrees` (`PreemptionFreesBlocks`). `EachHasItsOwn` says that a running sequence holds a block that none before it in
  `running` holds; the victim is the last, so that block has no other holder. An admission pops one, growth keeps it, and a
  removal from `running` only takes holders away;
- `PreemptedAlwaysInFront` (`PreemptedWaitInFront`), from `Seniority`: whoever is requeued has been preempted, whoever is new has not, and
  no queue operation changes the order of those that stay (`Within`);
- `DeliveredIsAlwaysGenerated` (`DeliveredIsGenerated`). `Streams` says in every phase that what was delivered, followed by the token that this step
  has appended and not delivered (`Pending`), is the generated text; `Reports` that a finish is not told while the
  engine knows the request, that it has been told exactly once, with its reason, when the engine has forgotten it otherwise than by a
  reset, and that what is scheduled or finished is known. Nothing happens to a request that is unknown until it is added
  (`OthersStay`).

The third part of `EngineProofs` proves `OwnContextAlwaysRead`: if no forward pass raises (`~ExecutionMayFail`), then `Spec => []ReadsOwnContext`. Every
position a scheduled sequence attends to, in its own blocks or in shared ones, holds the tokens of that sequence up to
there. The hypothesis is needed: with a pass that raises the code breaks the promise (`engine_stale_hit`, section
5), and this theorem says that nothing else does. The difficulty is that blocks are registered before they are written,
so no invariant of the cache alone holds in the middle of a step. The strengthening has two parts, each up to the slots
that are `Due`, those that the sequences scheduled so far store when the pass runs:

- `KeysTell`: what a slot of a block with a key holds is the prefix that the key names, or the slot is due;
- `TablesTell`: what a slot of a table holds, among the positions its sequence counts as computed or as stored in this
  step (`Filled`), is the sequence's own prefix, or the slot is due.

An admission takes its hits from `KeysTell` and stores the rest itself (`ScheduledRun`); what a slot holds stays
true of a sequence that appends tokens (`UpToGrows`). A preemption must not take away what
another entry is owed: a victim is never scheduled yet, so its blocks are nobody's dues. `ExecuteTells` uses that one slot is
one place of one sequence (`SamePlace`, from `Sharing`), so each due slot gets the prefix both descriptions name
(`StoresWhatIsDue`), and nothing else is touched. After the pass nothing is due until the next step.

The last part of `EngineProofs` extends `Generate` and proves `EveryPromptAnswered` and `AnswersInOrder`: a call that returns has for each
prompt that can run its whole text and the reason it ended, and has them in the order of the prompts, for any
number of calls and of prompts (`MaxPrompts` in `Nat`), and after calls that a forward pass has ended. `GenerateInv` is what the engine promises about deliveries
(`Served`) together with:

- `AllTold`: for each prompt of the call, what `run()` has accumulated is what the engine has delivered;
- `NoneLost`: a prompt that was added is still in the engine, or its finish has been delivered; and between two steps no answer that the call
  waits for is left behind in `finished_seqs`;
- `InLine`: the prompts answered so far, followed by those without an answer in the order of the schedule, the waiting queue and
  what is still to be added, are the prompts as they were asked. A dict keeps the place of its first insertion, so the order of the answers
  is that of the first tokens; and as no sequence overtakes another on its way to its first token, preempted or not, that is
  the order of the prompts.

`DecodeInputsProofs` proves `RowKeysAlwaysNameTables`, `StagingAlwaysMatchesRebuild` and `GraphsAlwaysReadTheirStep`. The invariant
`DecodeInv` adds to the manager's own:

- `KeysAreLives`: the key of a row, a sequence and a preemption count, is of a life that has begun; if that life still goes on, the
  sequence holds its table and the row stages a prefix of it. This is stronger than `RowKeyNamesTable`, which says nothing of rows whose sequence
  was freed, and it is what makes it right to copy the new entries only. It is kept because tables change at their end
  only (`TablesGrow`) and a free or a reset begins the next life;
- `SpareRowsAreClear`: rows past the last batch have no key and dummy tables, so an update that clears the rows between two batches need
  not touch them;
- `BatchInFlight`, `ForwardsAreOfTheStep` and `CopyComesFirst`: between the update and the end of the step nobody edits the staging arrays,
  so a copy that the device takes late still copies this step's inputs. Each forward of the step has such a copy ahead of it
  (`CopyAhead`): the replay on its own stream, a warm-up because its side stream waits for it. A copy that an earlier step left
  behind for the same buffers does no harm: taken before this step's update it is overwritten, and taken after it, it reads
  the same arrays;
- `CapturedIsQuiet`: no warm-up is left of a graph that is captured, because the capture waits for the whole device.

`UpdatedRows` says of the whole `update()` that the rows of its batch equal rows built from nothing.

`DecodeAttentionProofs` first proves `KernelsAttendOnce == KernelSpec => []AttendsOnce`: for every page size, any
number of rows of any length, every plan of at least one split of at least one page, and any order of
the programs, a finished launch weighs every key of every row once and reads nothing that no program has
written. The arithmetic is in two lemmas, `SinglePassWeighsOnce` and `SplitsWeighOnce`: the split that
contains a position is its page divided by `blocks_per_split`, or the last one when that is beyond the plan, and
multiples of `blocks_per_split` keep the others apart. The inductive invariant `Inv` says of each kernel
what the programs that are no longer in `todo` have left behind, and that the reduction starts from complete
partials.

Then it proves the refinement: `DecodeLaunchesKernels == Spec => KernelSpec`. `PlanSizes` bounds the plan that the code computes, in every setting and
for every number of multiprocessors, `LaunchPlans` applies it to the three callers, and `DecodeAttendsOnce` follows. Last,
`EagerAndGraphAlwaysCutAlike`: an eager step computes its plan from the batch and its longest row, the graph of its bucket from the bucket. They
agree on the pages of a split, because both round the batch up to the same power of two (`BucketIsNextPow2`, from
`NextPow2IsLeast`); they may differ in the number of splits, which leaves no trace, since `SplitsCutEvery` shows that a plan
that reaches over the row cuts it every `blocks_per_split` pages.

`PrefillAttentionProofs` proves `EveryQueryAttendsToPrefix`, `OnlyStoredAreLoaded` and `WholeSequenceIsSampled`, for any batch, page and tile size. A flattened batch is
laid out by running sums (`StartUnfolds`), so the rows of two sequences never coincide and a program writes only rows of its own
(`RowsApart`); the slot of a key is a page and an offset in it, so one slot is one position of one sequence (`SlotsAreOwn`).
The inductive invariant says for each backend what the programs that have run have left in the rows of their queries
(`TilesInv`, `LoopInv`, `StaticInv`, `DoneInv`). The gathering path is chosen for one-token
queries only, which `OneTokenEach` obtains from the maximum of the query lengths; for the other two,
`LoadsStoredOnly` also needs that no tile reaches past the end of its sequence.

The first part of `StartupProofs` proves `PaddingKeepsOff == Spec => []PaddingOffThePool` and
`PoolBacked == Spec => []PoolIsBacked`, for any memory, number of layers and number of out-of-memory errors. The
inductive invariant says that while the layers are filled each tensor there is has `alloc` blocks, and
that afterwards pool, dummy block and profile follow from `alloc`. The case of a pool of one block, where the
dummy block is block 0 of the pool, needs two facts from elsewhere: one is a batch bucket
(`BucketsAssumption`, from `BATCH_BUCKETS`), and no more sequences run
than the pool has blocks (`HoldersWithinPool`, proved in `KVCacheManagerProofs`; the guard of `DecodeStep`). The run `startup` checks both
invariants in the whole constructor, and `StartupAllocates == StartupSpec => Spec` carries the theorems there: for the cache, the
constructor is a behaviour of `KVAllocation`.

The second part proves `LoadedModelServed == StartupSpec => []EngineRunsLoadedModel`, for every configuration, set of names
and order of the keys, and every damage of `CheckpointsOf`. `EngineRunsLoadedModel` says nothing until there is an engine; the
inductive invariant `StartInv` is

- `LoadInv`: while keys are read (`Reading`), every shard that is kept (`ShardsRead`) and every parameter that is loaded as it is
  (`ParamsRead`) is the last tensor read under its name; a merged parameter is its shards, end to end, and as long as it should be
  (`MergedRight`); a checkpoint is `Sound` (`CheckpointsSound`);
- `OrderOfStartup`: the heads divide before there is a model, and the model is loaded before there is a pool.

The code compares the length of a merged parameter, and not that of its shards. That is enough because at most one tensor of the checkpoint
has another shape: if the whole has its length and all shards but one have theirs, the last one has too, and the cuts of the forward
pass fall between the shards (`ThreeParts`, `TwoParts`). A checkpoint with two shards that are wrong by opposite amounts would pass the
assertion of `load_model`; it is outside `CheckpointsOf`. `ConfigsAssumption` asks that the sizes of a configuration are
positive, `NamesAssumption` that no parameter but the merged ones bears the name of a merged one or of a shard.

The first part of `ModelStepProofs` proves `ArgmaxKernelsFindFirstMaximum`: for every size of the vocabulary and of a program, every row
and every number of lanes with room for the chunks, the two argmax kernels give the lowest index of a greatest logit. A
row has a first maximum (`LeftMaxExists`, from the least prefix that would have none); every token lies in one chunk,
and every chunk begins inside the row (`ChunksCover`), so that a masked lane, which comes last in its chunk and is
not greater, never wins (`ChunkMaximum`); the same argument over the chunks takes care of the masked lanes of the second
kernel. Ties are won by the lower chunk, and all of a lower chunk is below all of a higher one.

The second part proves `GreedyIsExact == StepSpec => []GreedyIsFirstMaximum` from it: eager or captured, in every argmax
mode, alone or beside sampled requests, a request at temperature 0 gets the first maximum of its logits. The invariant
is inductive as it stands: only `Sample` establishes `pc = "sampled"` (`ForwardDoesNotSample`), and nothing
of the pass moves before the tokens are delivered (`ForwardWaitsForDelivery`). One assumption is used: that no logit is
below the value of a masked lane (`RowsAssumption`). That the second kernel has a lane for each chunk is
`NextPow2IsLeast`.

The third part proves `NucleusIsKept == StepSpec => []NucleusKept`, for every row, `top_p` and order of equal logits. By counting, the
places of the tokens are all the numbers up to the size of the vocabulary, each once (`PlacesOrdered`), and a
lower place has a logit at least as great (`SortedInOrder`). Masses grow with the set (`MassGrows`), so the mask that the sampler shifts by one is cut at one place:
what is kept is a beginning of the sorted tokens. The greatest place that is kept, without which the tokens before it hold no more
than `top_p`, is the witness of the last conjunct of `NucleusKept`; the next place, which is not kept, shows that the kept tokens hold more than
`top_p` (`NucleusIsTop`). A `top_p` of 1 or more keeps everything (`EveryTokenKept`), and one above 1 could not be reached, hence
`S = Vocab` in the property. As for the greedy rows, the invariant is inductive as it stands.

The last part proves `CacheAlwaysAgrees` and `LogitsAlwaysSeeWholePrefix`: `StepSpec /\ []StepFits` implies `[]CacheAgreesInEveryLayer` and
`[]LogitsSeeWholePrefix`. `StepFits` says that the step is short enough for the 32-bit indices of the SiLU kernel, or runs on the
CPU; the code does not ensure it (section 6), so it is a hypothesis about the behaviour and no assumption of the model. They hold for any
number of layers, heads and sequences, any buckets and warm-ups, on both devices, and after passes that raised anywhere. Neither is inductive: the first says nothing of a cell until the step is delivered, and
the second nothing until the logits are there. `PassInv` says what the pass has made at each operation:

- `Books`: tokens and computed tokens of each sequence, and that the sizing forward has no cache to store into;
- `Inputs`: the batch is what the rows were prepared from, with the forward context of these rows;
- `Names`: which tensor the residual is at which operation, so that what a norm adds in place is added to the embedding;
- `Sums`: the row of a token holds, before attention of layer `l`, its embedding and the outputs of all layers below, each
  once (`Own`), and between attention and MLP one output more;
- `Rotation`: a head whose program has not run is as it was, and one whose program has run is rotated once, with its cell
  stored. This is what makes the order of the programs immaterial;
- `Stored`: the layers behind the pass have stored every token of it.

From the recursion of `FlattenSeq` (`FlattenLays`) follows where the rows of a sequence lie (`RowsAreTokens`), that
`query_start_loc` ends at its last one (`LogitRowsAreLast`), and that the rows of the batch are all of its uncomputed positions
(`TokenRowsAre`). Two rows with one slot are of one token (`SameSlotSameToken`), and no row stores where a
computed position is (`StoresNothingComputed`), padding included. So attention finds each position of the prefix either
computed, or in a row of this pass whose program has run (`EveryRowAttendsRight`); no row's indices wrap in the SiLU
kernel (`EveryRowFusedRight`, from `StepFits`); and a delivered step computes exactly what it has stored in every
layer (`DeliverKeeps`). A lemma `...Keeps` takes `PassInv` through each operation.

*Recursion.* What a recursively defined function computes is proved in `OrderedKeysProofs` by induction over sets of numbers: `NatSetInduction`
takes a set, and not a predicate, and follows from the well-foundedness of `<`. A function that satisfies its recursion up to any `n`
exists, and so the one that `CHOOSE` picks does. `SumsExist` and `SumsInOrder` do this for running sums, `Pow2Unfolds` and
`NextPow2IsLeast` for powers of two.

## 5. What the model says of the code

- *Stale hits after a failed step* (`engine_stale_hit`). `allocate_slots` registers blocks before they
  are written, and relies on the forward pass of the same step to write them. If the forward pass
  raises and the request is then aborted, its blocks return to the free list still registered. The next
  request with that prefix hits blocks nothing was stored in.
- *Preemption is visible* (`engine_preempted_cut_short`). A preempted sequence recomputes its prompt and
  its output in one go. If together they exceed `max_num_batched_tokens`, it is finished with LENGTH at
  re-admission, although in a larger pool it would have gone on. The stress test that compares a large
  with a small pool uses a budget too large to see it.
- *Refused prompts are not answered* (`generate_rejected`). A prompt that can never run is finished when it
  is added, and its output comes out of the next step. `run()` takes no step when nothing else is
  unfinished, so a call whose prompts are all refused returns an empty list, against `README.md:42-43` and
  `tests/test_generation.py:36`, and the refused requests stay in `finished_seqs` until a later step pops them.

## 6. What is checked only, and what is not modelled

Every invariant and action property that a passing run checks, and the refinements of `KVSpec` and `KernelSpec`, are proved. Checked
by TLC on the instances above and not proved is `CallEnds`, the liveness of `generate()`: fairness and `ENABLED` are outside what
the prover can do.

Limits of the code that the model or the theorems assume away:

- the parent hash of a block key is taken to be free of collisions (`kv_cache_manager.py:7`); with a
  collision two prefixes share a block;
- the SiLU kernel computes indices in 32 bits (`kernels/activation.py:22`). With a step of
  so many tokens that twice the intermediate size times the tokens exceeds the word, an index wraps, and the output is wrong. Nothing in
  the code keeps `max_num_batched_tokens` below that; the defaults are far from it. `CacheAlwaysAgrees` and
  `LogitsAlwaysSeeWholePrefix` are about behaviours whose steps all fit (`StepFits`), as those of `model_step` do;
- a warm-up that a failed capture leaves on its side stream is ordered with nothing that later steps queue, until the next
  capture waits for the device. `GraphReadsThisStep` shows that it harms no forward of a later step through the static buffers and no
  token of the graph that is replayed. What such a warm-up stores in the cache, late and through its old slots, is not
  modelled; a slot may belong to another sequence by then;
- at most one tensor of a checkpoint has another shape than the configuration says: `load_model` compares the merged shape only
  (`worker/loader.py:43`), which two shards that are wrong by opposite amounts would pass.

Not modelled:

- floating-point arithmetic (softmax, normalisation, rotary angles, matrix products). Attention is the set of keys
  weighed; an output is right when its operands are. `EagerAndGraphCutAlike` says the same keys are summed in the
  same parts; that this gives the same bits is a matter of the kernels' arithmetic. NaN logits, for which there is no
  maximum, are left out;
- positions beyond the rotary table: nothing compares the length of a sequence with
  `max_position_embeddings`, and the model's sequences stay below it;
- a CUDA device without Triton (each module falls back on its own; the model has the two pure paths);
- the memory pool that captured graphs share, which is PyTorch's;
- the counter `max_steps` of `run()`, 100,000 by default: a guard against livelock that raises, and `CallEnds` shows that the loop ends
  without it. Hit-rate counters, logging;
- tokenisation, downloads, `generation_config.json` and finding files: I/O;
- tests, scripts, benchmarks, recorded results, assets, and the earlier prototypes under `day4` to `day6`, which the engine
  does not import.

## 7. What is left

The modules, runs and proofs above are complete as planned. `CallEnds` is the one property that rests on TLC alone.
