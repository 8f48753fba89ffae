# qwen3-moe-rs: TLA+ models, checks and proofs

This directory holds TLA+ specifications of the parts of the `qwen3-burn` crate whose correctness is
a matter of control, order and addresses rather than of rounding: the HTTP server and its engine
thread, the streaming text path, the expert slot pool, the key/value and recurrent caches, the decode
loops with speculation and with captured graphs, GRPO rollouts and the step behind them, the routing
of tokens to experts, what the kernels read and write, and the way of every weight from a checkpoint
to the tensor a forward pass reads. Each specification is translated from the Rust source;
`PROJECT.json` maps every definition to the lines it stands for. Paths below are relative to the
crate (`src/serve/engine.rs` is `src/src/serve/engine.rs` in `PROJECT.json`).

Contents: [the system](#the-system) · [modules](#modules) · [runs](#runs-what-is-checked-and-what-it-shows)
· [bounds](#bounds-and-why-they-are-enough) · [fairness](#fairness) · [proofs](#what-is-proved)
· [disagreements found](#disagreements-between-code-and-documentation) · [limits](#what-is-not-modelled-and-why)
· [plan](#plan)

## The system

| Component | State it keeps | Operations | Talks to |
|---|---|---|---|
| submit queue and engine thread, `serve/engine.rs` | bounded queue; per request: budget, completion count, KV columns written, reply sender | `try_submit`, FIFO loop, `run_request`, `step_token`, panic policy | handlers, over one bounded channel per request |
| HTTP handlers, `serve/handlers.rs` | per request: reply receiver, counts, detok, splitter, frame sender | submit, `drain`, `deliver`, epilogues of chat and completion | engine; hyper, over a bounded frame channel; clients that may leave |
| process, `bin/qwen_serve.rs` | up, draining, exited | graceful shutdown, exit on panic | all of the above |
| incremental detok, `serve/detok.rs` | token window, pending text, stopped flag | `push`, `finish`, `scan_stops` | `drain` feeds it tokens, takes text |
| think splitter, `serve/handlers.rs` | state, held-back text | `push`, `finish` | fed by detok, feeds `deliver` |
| expert slot pool, `expert_stream.rs` | LRU of weight slots, reads in flight | `prefetch_layer_begin`, `prefetch_layer_finish`, `fetch_slot`, `expert_forward` | `forward_streamed` in `qwen3_5/mod.rs`; reader threads; checkpoint and blob files |
| KV cache, `cache.rs`, `attention.rs` | buffer, `filled` | `update`, `update_static`, `select_rows`, `rewind` | all forwards |
| hybrid cache, `cache.rs`, `qwen3_5/mod.rs` | recurrent state and convolution history per Gated-DeltaNet layer, a KV cache per attention layer | prefill, step, snapshot, restore, rewind | Qwen3.5 forwards, speculative drivers |
| speculative drivers, `examples/qwen35_mtp_ngram.rs`, `qwen35_mtp_block.rs` | output, both caches, MTP cache | draft, verify, accept, roll back, commit | hybrid cache |
| rollout drivers, `grpo/rollout.rs` | rows, cache, live rows, finished flags, log-probability records | seven drivers, from whole forwards to static device loops | KV cache, sampling, trainer |
| trainer, loss, `grpo/trainer.rs`, `loss.rs`, `logprob.rs` | weights, optimizer | `grpo_step`: rewards, advantages, log-probabilities of policy and reference, loss, update | rollouts, rewards |
| reward, `grpo/reward.rs` | a child process per completion | `score_one` with a deadline | Python harness |
| sampler, `sampling.rs`, `sampling_device.rs` | - | `sample_index`: top-k, top-p, draw | rollouts, engine |
| decode loops, `decoder.rs`, `moe.rs`, `examples/qwen35_generate*.rs` | output, position, cache | prefill, sample, feed | caches |
| captured decode, `capture.rs`, `examples/cudagraph_*.rs` | persistent device buffers, a recorded graph with their addresses | build, warm up, record, reset and prefill, replay, dispatch of buckets | static caches, Burn's allocator |
| mixture of experts, `moe.rs`, `moe_grouped.rs`, `moe_decode.rs`, `qwen3_5/mod.rs` | stacked or quantized experts | routing; host, on-device, grouped, gathered, fused and static dispatch | expert kernels, capture |
| kernels, `moe_grouped.rs`, `nvfp4_kernels.rs`, `w8a16.rs`, `flash_attn.rs`, `flash_decode.rs`, `gdn_kernel.rs` | shared memory of a block | launches | weights in one of five layouts |
| quantization, `nvfp4.rs`, `nvfp4_linear.rs`, `w8a16_linear.rs`, `quant_gate.rs` | sidecars beside parameters | repack, requantize, quantize on load, `should_skip` | loaders, kernels |
| loaders, `load.rs`, `nvidia_ckpt.rs`, `nvfp4_blob.rs`, `examples/nvfp4_offline_repack.rs` | parameters; the offline store's files | weight-map check, five loaders, casts, repack with resume | drivers, streaming pool |
| request validation, templates, tokenizer | - | single-pass checks and formatting | handlers |

### What is hard about it

- **Concurrency.** One engine thread blocks on channels that async tasks drain; the tasks wait on
  clients. Cancellation is done by dropping: there is no cancel message, so an end of a channel
  that stays alive somewhere decodes for nobody, and one that dies early truncates an answer.
- **Failure.** A panic drops the sender of one request, sleeps 500 ms and exits the process, while
  every task goes on running. A background read that fails surfaces in the middle of a layer. A
  repack can be killed between any two of its files, and a server may start beside it.
- **Ordering.** Tokens cross two channels, a decode window and two hold-back buffers before they
  are on the wire. Experts are dispatched in an order that depends on the cache.
- **Boundaries.** prompt + budget against the context; the budget is tested before sampling and
  after pushing; codepoints, stop strings and tags are cut anywhere; `lp - 1`.
- **State that cannot be undone.** A recurrent state has no prefix to cut back to; columns rejected by
  a verification stay in the KV buffer; a static cache adds instead of assigning.
- **Storage.** A graph replays into addresses: an update that allocates instead of writing in place
  detaches the graph from its owner without an error. Barriers only order the threads that reach them.
- **Agreement of many copies.** One weight exists in up to five layouts and as sidecars that shadow
  parameters; one dispatch exists in seven versions; each pair must agree on every index.
- **Long protocols.** Second compactions of a shrinking batch; the MTP cache that must be shown each
  committed token once with the hidden state of the token before.

`PROJECT.json` lists these, each at its line, under `hazards`, with the properties that cover it.

### What makes each part correct

- *Server*: every exchange ends; text reaches the client in order, once, and whole when the verdict
  is `length`; usage agrees with text; frames follow the SSE grammar; a client that left
  costs at most the forward pass that was due; the KV cache is never overrun; a channel closes early only after a panic.
- *Text path*: emitting token by token says what decoding at once would say, cut at the first stop
  string and split at the think tags; what may turn into a stop string stays back, and nothing else does.
- *Expert pool*: hits reported are hits used; joined experts stay until used; contributions are
  summed in an order that does not depend on the cache.
- *Decode loops and speculation*: the output is that of greedy decoding, rejected drafts leave no
  trace, and every decode ends.
- *Captured decode*: a replay is the eager step on the same buffers, nothing of the warm-up, of the
  recorded pass or of an earlier prompt is left, and no buffer moves.
- *Rollouts and trainer*: the recorded log-probability of a token is that of the token in its own row's
  context; all seven drivers sample the same distribution; every token up to the end of its row has
  one term in the loss, with the advantage of its own row in its own group.
- *Dispatch and kernels*: a token's row gathers the result of each of its experts once, with its own
  weight; every output cell is stored once and sums each input once with the weight that belongs there.
- *Loaders*: a model that is ready reads, for each parameter, the tensor of that name, whatever
  format it went through; a whole checkpoint is not refused; a repack that ends is complete.

## Modules

| Module | Models | Extends |
|---|---|---|
| `ServeChannels` | queue, return and frame channels, request profiles, budget rules | - |
| `ServeEngine` | the engine thread | `ServeChannels` |
| `ServeHandlers` | handler tasks and clients | `ServeChannels` |
| `Serve` | the server: all of it with the process; invariants and `IndInv` | `ServeEngine`, `ServeHandlers` |
| `ServeClient` | properties over what a client has received | `Serve` |
| `ServeContract` | abstract: one exchange, without engine, channels or tasks | - |
| `Subsequence` | the elements of a set by rank or in ascending order, of a sequence at some places | - |
| `DataInduction` | lemmas: induction and recursion over numbers, finite sets and sequences; sums, folds and orders | `Subsequence` |
| `ServeProofs` | theorems about `Serve` | `Serve` |
| `ServeClientProofs` | theorems about what clients read, and the refinement of `ServeContract` | `ServeClient`, `ServeProofs`, `DataInduction` |
| `ExpertPoolProofs` | theorems about `ExpertPool` | `ExpertPool`, `DataInduction` |
| `CapturedProofs` | theorems about `CapturedDecode` | `CapturedDecode`, `DataInduction` |
| `MoeDispatchProofs` | the theorem about `MoeDispatch` | `MoeDispatch`, `DataInduction` |
| `LoaderProofs` | theorems about the repack and the offline store | `Loader` |
| `RolloutProofs` | theorems about `Rollout`, `GrpoStep` and `Sampler` | `GrpoStep`, `DataInduction` |
| `Detok`, `ThinkSplitter` | the two text automata, as operators on their structs | - |
| `ServeText` | `drain`'s text path over both | `Detok`, `ThinkSplitter` |
| `ExpertPool` | slot pool and `forward_streamed` | `Subsequence` |
| `KVCache` | one layer's KV cache, concatenating and static, and what attention sees in it | `Subsequence` |
| `HybridCache` | recurrent state, convolution history, KV cache, eager and static | `KVCache` |
| `GroupSampling` | abstract: what a group rollout promises | - |
| `Rollout` | the seven drivers | `KVCache` |
| `Sampler` | `sample_index` over integer weights | `Subsequence` |
| `GrpoStep` | rewards, advantages, scoring and loss behind a rollout | `Rollout`, `Sampler` |
| `Speculative` | n-gram and MTP speculative decoding | `HybridCache` |
| `Generation` | the seven decode loops, beside the speculative drivers | `Speculative` |
| `CapturedDecode` | the captured decoders and rollouts over device addresses | `HybridCache` |
| `MoeDispatch` | every dispatch path of both sparse blocks | - |
| `WeightLayout` | flat layouts of expert weights, repacks, the NVFP4 and fp8 codecs by address | - |
| `ExpertKernels` | the two launches of every fused expert build | `WeightLayout` |
| `DenseKernels` | quantized linear layers, flash attention, split decode attention | `ExpertKernels` |
| `GdnKernel` | the fused Gated-DeltaNet decode step, warp by warp | - |
| `Checkpoint` | names, shapes, setters, roles and groups of Qwen3.6 checkpoints | - |
| `BlobStore` | the byte ranges of the offline store's files | `Checkpoint` |
| `Loader` | loaders, casts, quantizers, the repack and its crashes | `BlobStore` |
| `MC*` | instances for TLC | the module they name |

### How state and actions correspond to the code

**Server.** `tx[r]`, `rx[r]` say whether the reply sender and receiver of request `r` exist;
`chan[r]` is the mpsc between them, `frames[r]` the SSE channel, `wire[r]` what the client has read.
`epc` names the engine's position between two blocking points: waiting for a request (`idle`),
about to send Start (`start`), due for a forward pass and then in `step_token` up to the push (`step`), at the push
(`push`), about to send the terminal event (`done`, `error`), inside the grace period
(`panicked`). `hpc[r]` is the task's await: on the engine (`recv`), on the frame channel (`send`).
One action is the code between two awaits or blocking calls. The queue has `QueueDepth` places
and at least one, as `spawn` rounds up. Detok and splitter appear here only as "hold back
some text, release the rest in order"; `ServeText` checks that this is what they do. A request is a
record of the flags the code branches on: streaming or not, chat or not, usage asked for, stop
strings, whether the prompt can be encoded, prompt length and `max_tokens`.

**Text.** A text is a sequence of characters, a token a sequence of bytes; a codepoint of several
bytes decodes to `U+FFFD` until it is complete. `Push`, `Finish` and `Scan` have the guards of
the Rust functions, including the force-commit. Only the window indices, the pending text and the
splitter's state are kept, as in the structs.

**Expert pool.** The LRU is a sequence, least recently used first. `Begin` is
`prefetch_layer_begin` of both projections, `Finish` joins the reads in the order the code joins its
threads, `ForwardHit` and `ForwardRest` are the dispatch loops before and after, `Fold` the sum.
Slots carry the kind (`nvfp4`, `dense`) they were loaded as, because the two loaders disagree on it.

**Caches.** What a column holds is its *cell*: the tokens and positions visible to the token written
there. Two computations give the same logits if they have the same cell, so equality of cells is
equality of contexts, without any arithmetic. A column nobody wrote, and a column that two writes
were added up in, have cells of their own (`Void`, `Blur`). The Gated-DeltaNet state is the sequence
of convolution windows it has absorbed.

**Rollouts and the trainer.** One action per forward and per sampling step of each driver; the
log-probability of a token is the pair of its context and itself. `Score`, `Logprobs` and `GrpoLoss`
are the phases of `grpo_step`, which runs behind the cached and the padded driver only; the other
drivers go through `Logprobs` so that what they record is compared with a recomputation. Rewards are
integer fractions of `Whole`, a child that fails or prints `nan` is an input. The loss is kept as
the set of its terms and its denominators, so that a missing, doubled or misplaced token shows.

**Decode loops and speculation.** The model is an arbitrary function from contexts to tokens,
evaluated as needed: `model` is the part fixed so far, and a later question with the same context
gets the same answer. MTP drafts are arbitrary tokens. The cycle and the commit loop have the
conditions of the examples. `Sample` and `Feed` are the two halves of every plain loop; what differs
between the loops (cache, end-of-sequence rule, whether the last token is fed) is an operator each.

**Captured decode.** `dev.mem` is the device: for each buffer of the driver, the pieces of storage it can be in; `dev.at` says
in which one the owner's handle is, `baked` which one the graph has. `Placements` is Burn's rule for an update: in place unless
somebody else (a rollout in `held`) has the storage, else in any piece that nobody holds. A caller of a bucket may keep
rollouts over dispatches and drop them at any time; dropping frees the storage (`Freed`), and a replay into storage nobody of
this program owns (`Adrift`) is an access out of bounds. `EagerPass` runs the step through the handles, `Replay` the
same step through the graph's addresses. Columns are added to, as the code does, so a column that was
not zeroed shows as blurred. `decode_n` counts one call at a time, as in the code.

**Dispatch.** A call chooses a block (build and formats held), routes, and runs one path; each path is
an operator with the index tables the code builds: inclusive count less one for a rank, capacity
cells with the one that is sliced off, block-aligned runs. What an expert computes is the record of
the token it read, itself and the assignment whose weight scales it; a row of the output is a bag of
these.

**Layouts and kernels.** A tensor is a function from flat addresses to the logical weight stored
there. `ProjectionParts` is the checkpoint; repacks and requantizers move addresses as their loops
do. A launch goes block by block (`blk`), a split-K block thread by thread (`pc`, `shared`) with its
barrier, a warp in lockstep. `stored` holds the cells the last step stored, each with the sequence
of terms summed into it; `gu` and `out` count the stores per cell. The online softmax keeps exponents as
integers relative to a running maximum. `GdnKernel` follows the warps of one block through four barriers.

**Loading.** A tensor name is `<<owner, index, base, tag>>`. `weight[n]` and `sidecar[n]` say which
tensor, offset and format a parameter and its quantized sidecar hold; `Reads` is the preference of the
forward passes. Files of the store are sets of byte segments, written at offsets computed by one
formula and read at offsets computed by another, as in the code. Every write of the repack has a torn state between
start and end; the layer files go through a temporary name; `RepackCrash` kills it anywhere, and the
driver may start at any moment beside it. `OpenPool` is `ExpertSlotPool::new`, a step of its own after the load: it decides
once whether experts come from the store or from the original files, and a store that `QWEN35_NVFP4_BLOB_DIR` names
(`configured`) stops the process if its manifest does not open, where one found by itself is passed over.

## Runs: what is checked and what it shows

| Run | Instance | Properties | Shows |
|---|---|---|---|
| `serve_pipeline` | 2 requests, 9 profiles, queue of 1, channels of 2 | `TypeOK` `SenderOwned` `CacheFits` `TokensInOrder` `ClosedMeansPanic` `FedIsTaken` | the interior of the server, under panics, departures and shutdown at any point |
| `serve_wire` | 5 profiles, one-place channels, queue depth 0 | `TextInOrder` `LengthMeansWhole` `UsageHonest` `StreamGrammar` `RefinesContract` | what a client sees; the server implements `ServeContract` |
| `serve_live` | 2 profiles, one-place channels, fairness | `EveryExchangeEnds` `EngineFreed` `ShutdownCompletes` | nobody waits forever |
| `serve_text` | generations of up to 5 tokens | `SaidIsDecode` `HeldBackExactly` `SplitIsWhole` | streaming says what decoding at once says |
| `expert_pool` | 7 pool configurations | `HitsReady` `ResidentOnceFinished` `FoldInOrder` | the pool at every capacity from too small to ample |
| `rollout` | 7 drivers, 4 rows, the step behind them | `LogpHonest` `CacheCoherent` `RatioIsOne` `LossExact` `SamplerExact` `IsGroupSampling` | all drivers sample the same thing, record it honestly, and each token is paid for its own row |
| `generation` | 7 loops and 3 speculative drivers | `GreedyOutput` `CachesMatchOutput` `MtpMatchesOutput` `Terminates` | every loop writes the greedy continuation, speculation changes only the speed |
| `capture` | 6 drivers, prompts up to 4 tokens, warm-ups 2 to 4, up to 2 kept rollouts | `ReplayIsEager` `InBounds` `SameStorage` | replays are eager steps; only the outputs of a bucket are ever relocated |
| `moe_dispatch` | 3 tokens, 3 experts, 2 per token, ties | `AddsItsExperts` | every dispatch path gives one result, from one copy of the weights |
| `expert_kernels` | 6 expert calls, 4 linear builds, 2 attention kernels | `CellsExact` `DenseExact` `LaunchEnds` | every cell once, every term once, from the right address; the terms of the eager call over NVFP4 excepted |
| `loader` | 10 directories, 7 shard sets, 20 launches, 1 crash | `ReadsItsOwn` `ResumeCompletes` `WholeIsNotRefused` | every loader gives each parameter its own tensor; the repack survives a kill; what may stop a launch on a whole directory |
| `gdn_kernel` | 2 warps | `TotalsBroadcast` **violated** | a late warp reads a neighbour's partial sum |

Every property of a passing run has a mutant in `PROJECT.json`: a changed definition, of the kind a
slip in that code would make, under which TLC finds the property violated. The mutants stand right
before the definition they change.

`HeldBackExactly` is two claims in one, that enough is held back and that no more is, since they fail
together. `AddsItsExperts` also says that prefill, fused call and captured step read the same format.

To run one: `tlc -workers 2 -config MCServeWire.cfg MCServe`.

## Bounds, and why they are enough

- *Server* (`Requests`, `Profiles`, `QueueDepth`, `ChanCap`, `FrameCap`, `TMax`). Two requests give the running and a
  queued one, and, with a queue of one place, a refused one; a slot is reused, so runs are
  unbounded in the number of requests. With channels of one or two places both sides of every send
  meet a full, a partly filled and an empty channel; the code's capacities are larger but appear in
  the same conditions only, and the proofs hold for all of them. `TMax = 3` allows prompts of 0 to
  3 and budgets of 0 to 2: nothing, one and several tokens, a budget that is given, omitted, exactly
  at and beyond the context limit. The two request slots are symmetric and nothing refers to their
  order, so symmetry is used in the safety runs; it is not used for liveness.
- *Text* (`MaxTokens`, `Width`, `MaxHold`). Codepoints of two bytes instead of up to four and a
  hold-back of two tokens instead of four keep the relation `MaxHold >= Width` that the force-commit
  relies on. Five tokens are enough for a tag, a gap and a stop string to be cut in two or three
  pieces each, and for the window to move twice. Tags and stop strings are shortened to the fewest characters
  that keep their overlaps: a stop that overlaps itself, one that begins where a tag begins, a closing
  tag with the opening tag's first character.
- *Expert pool* (`NumLayers`, `NumExperts`, `TopK`, `MaxTokens`, `Workers`, `Configs`). Two layers so that one
  evicts the other; four experts of which a token takes two and two tokens up to four; odd
  capacities, which leave one projection of an expert without the other.
- *Rollouts* (`N`, `Lp`, `MaxNew`, `Shapes`, `PromptLens`, `Vocab`). Four rows are the fewest with two compactions at
  half of the live rows, and two groups of two; ragged batches have a short prompt first, last, in between
  or not at all; three steps let rows end at three different times; two
  end-of-sequence tokens, because only the first is the padding. `Whole = 6` is divisible by every length. One row's
  harness may fail. The sampler's weights are all triples up to 3, its thresholds lie on, between and outside the sums.
- *Decode loops* (`PromptLen`, `MaxNew`, `Ks`, `MaxNgram`, `Kernel`). Four new tokens allow two cycles with
  drafts, one of them cut by the budget; `K = 3` has drafts accepted in whole, in part and not at
  all; two tokens make every lookup repeat; a window of three reaches over the edge of a cycle.
- *Captured decode* (`Lp`, `MaxNew`, `Warmups`, `Vocab`, `Prompts`, `MaxSteps`, `MaxKept`). Warm-ups below, at and beyond what the
  build accepts; prompts shorter than, as long as and longer than the captured one; up to six
  replays where four are allowed. A dispatch happens with at most `MaxKept` rollouts held beforehand, and there is storage for one
  relocation more than that (`Slots`), so that an update always finds room: memory does not run out. `Argmax` is one function
  that depends on token, length and seed and ends some completions early: what is compared is two computations with the same function.
- *Dispatch* (`MaxTokens`, `NumExperts`, `TopK`, `RouterRows`, `BlockM`, `FusedMaxT`). Three tokens can crowd one
  expert over a block of two and beyond `FusedMaxT`; three rows of probabilities, one of them tied.
- *Kernels* (`Shapes`, `BX`, `KSplit`, `Threads`, `Linears`, `Attentions`). Sizes that give full lines, a partial last tile, a
  line size that divides the stack but not one half, odd byte counts; more rows than a launch takes;
  one split, an uneven last split and an empty one. Experts are routed as `<<0, 2, 1, 0>>`: one expert
  serves both tokens, one only the first.
- *Loading* (`LayerTypes`, `MtpLayers`, `Experts`, `Dims`, `Checkpoints`, `Launches`, `MaxCrashes`, `Align`). One layer of each kind and the
  prediction block; two experts, so that a record has a neighbour; widths the codec takes, so that
  the refusal of others stays unused; an alignment that is not a divisor of the records. Directories are whole or have one
  fault: a tensor missing, unlisted, stray, of the wrong shape. One kill reaches every pair of steps, as
  the repack keeps nothing but its files.

`CHECK_DEADLOCK FALSE` appears where a model ends: a generation, a rollout, a launch, a load. The server and
the pool never stop except by exiting or panicking, which are explicit steps, so deadlock is checked there.

## Fairness

- `serve_live`: weak fairness of the engine thread (an OS thread that is never descheduled for
  good), of each handler task (tokio polls every ready task), of each client that stays connected
  (it keeps reading: the code has no timeout on a send, so a client that stops reading does hold its
  handler, and in time the engine, forever; leaving is always possible and never assumed), and of the
  exit at the end of a shutdown. No fairness is assumed of arrivals, departures, panics or Ctrl-C.
- `generation`: weak fairness of the one loop, a thread that does not block.
- `expert_kernels`: weak fairness of the launch: a device that runs a kernel runs its threads. It is
  what makes `LaunchEnds` a statement about barriers.

## What is proved

Each theorem holds for every value of the constants that the assumptions below allow. All are
proved the same way: the property is not inductive, so a stronger invariant is, with one lemma per
action; the facts about sequences, folds and sums that several actions need come first.

### The server (`ServeProofs`)

For any requests and profiles, any queue depth and channel capacities and any context limit:

| Theorem | States |
|---|---|
| `Invariance` | `IndInv` is an invariant of `Spec` |
| `TypeCorrect` | `TypeOK`, with every channel within its capacity |
| `SenderOwnership` | a live reply sender sits in the queue or with the engine, once |
| `CacheCapacity` | the KV cache never exceeds prompt + budget, nor the context limit |
| `TokenOrder` | no token is lost, repeated or overtaken between engine and drain |
| `ClosedAfterPanicOnly` | a channel closes on a waiting handler only after a panic |
| `FeedsWhatWasTaken` | the model is fed the tokens that the return channel took, all or all but the last: a receiver that is gone costs at most the one forward pass that was due |

*The argument.* That a channel which closes on a waiting handler marks a
panic needs: while the handler waits, either the sender lives, or the request is the panic's victim,
or the terminal event is the last in the channel (`ChanInv`). That in turn needs the sender to be in
one place (`SenderOwned`), the pending frames of a task to end in one that tells whether it goes back to
receiving (`SlotInv`), and events in order with the terminal one last (`InOrder`). The token count
relates the engine's `completion`, the handler's `ctoks` and the length of the channel; the
cache bound follows from `filled <= prompt + completion` and `completion < maxEff` at a push
(`EngineInv`). A push that succeeds and the forward pass of its token are two steps, and the receiver may go between them;
what the model is fed then follows the channel with one token's delay, and `TokensInOrder` says what the channel took. `IndInv` is the conjunction of these.

### What clients read (`ServeClientProofs`)

| Theorem | States |
|---|---|
| `ClientInvariance` | `ClientInv` is an invariant of `Spec` |
| `TextOrder` | a client has the text of consecutive tokens from the first |
| `LengthIsWhole` | who is told `length` has the text of the whole budget |
| `UsageIsHonest` | the usage told is that of the request that was run |
| `StreamsFollowGrammar` | what was read is a prefix of a legal stream, and an ended one has come to `[DONE]` |
| `ExchangesKeepContract` | `Serve` implements `ServeContract`: `Spec => RefinesContract` |

*The argument.* `ClientInv` is `IndInv` with two more parts per request. `EventInv` says of
the events still in the return channel, and of the one the engine is about to send, that they are true: a
terminal event carries the verdict and the count of what was really decoded. `WireInv` says that what the client has read, what lies in the frame channel
and what the task is about to send form together one stream: an opening, with text
up to the tokens handed over, and, once the handler has concluded, an ending whose
verdict and usage agree with them (`Honest`). It is about the concatenation, so a frame that moves from the task
to the channel or on to the wire changes nothing. What a client knows is a prefix of that stream,
and the folds `Follow`, `Said` and `Outcome` over a prefix are read off by lemmas on runs of a
fold (`FollowRun`, `SaidRun`, `OutcomeRun`). The usage and `length` need the count of the engine to
be that of the handler at the terminal event, which `TokensInOrder` gives.

*The refinement* maps a client's progress to a phase, the text it has read to a length and the
last verdict to an outcome. `Told` is what the contract's guards ask of a state and follows from
`ClientInv`. Arrivals, reads, ends, departures and reuses of a slot are then the contract's actions; every
step of the engine and of the process, and every step of a handler, leaves what clients have read alone.
`ServeContract` states safety only; that exchanges end is checked by `serve_live`.

### The expert pool (`ExpertPoolProofs`)

For any capacity, numbers of layers and experts, and of reading threads:

| Theorem | States |
|---|---|
| `PoolInvariance` | `PoolInv` is an invariant of `Spec` |
| `HitsAreReady` | with a blob store, a hit that `prefetch_layer_begin` reported is dispatched from the cache, however small the pool |
| `JoinedStay` | with room for two slots per expert, what `prefetch_layer_finish` joined is resident until it is dispatched |
| `FoldsInOrder` | every routed expert is added up once, and outside the fused kernel in ascending order |

*The argument.* Residency is not inductive, as a put can evict anything. What survives is recency: a
set `T` of keys is *recent* if the slots younger than any of `T`'s are of `T` too, that is, if they
form the young end of the LRU. A hit or a put of a key adds the key to `T`, and a put into
a full cache takes the oldest slot, which is not one of `T` as long as `T` with the new key
fits. A batch needs two slots per expert, gate-up and down; while these fit (`2 * |batch| <= Capacity`),
`RecentInv` says that all keys of the batch that are not being read are in one recent set. Below
that capacity nothing of the kind holds and `ResidentOnceFinished` claims nothing; `HitsInv` still holds,
since with a blob store no slot is put between `Begin` and the dispatch of the hits. `FoldInOrder` adds that the
sequence of dispatched experts has no repetition (`DoneInv`) and that `Ascending` lists a set once.

### Captured decode (`CapturedProofs`)

For any drivers, warm-ups, prompts, and any function in the place of the model and its sampler:

| Theorem | States |
|---|---|
| `CapturedInvariant` | `CapturedInv` is an invariant of `Spec` |
| `PassesStayInBounds` | no warm-up, recorded pass or replay within `max_new` writes outside a buffer, unless a bucket's graph has storage that its caller kept over a dispatch and then dropped |
| `GraphStaysValid` | no buffer whose address a graph holds is relocated, other than the outputs of a bucket (`SameStorage`) |
| `ReplaysAreEager` | up to `max_new` passes after a reset the host reads what decoding without graph and cache gives: tokens, log-probabilities, mask, next logits; an output that was relocated reads as reset |

*The argument.* `CapturedInv` says that every handle is at its baked address but for a bucket's outputs (`Placed`), which may be in storage
of their own as soon as a rollout was kept over a dispatch; that an access is out of bounds only with more passes than `max_new` or a graph
that has lost its storage (`Loose`); and that the device's own position
counts the passes since the last reset (`At`): `pos` and `base` are advanced on the device, so the bound on each write comes
from the counter `steps`, which the host compares with `max_new`, and from the prompt that was prefilled.

`ReplaysAreEager` needs more, as what a reset leaves is read many passes later. `EagerInv` adds to
`CapturedInv` what the buffers that are where the graph has them hold once a prompt can be continued (`Holds`, `Mirrors`), and
that those which are not are blank (`Blank`), as the graph never reaches them. A step reads no output (`tok`, `logp`, `mask`) to compute another, so
the rest goes on as if nothing had moved. With `Mirrors`: there is a completion `out` of `steps` tokens,
each drawn after its own context and with its own seed (`IsOut`); the row of columns holds what was fed for the prompt and `out`,
with zeros behind it (`RowMirrors`); `last`, `gdn`, `tok`, `emit`, `mask` and `logp` are what these tokens make
of them, and zero where no token has been written (`OutMirrors`). In every other state, the warm-up and the
recorded pass included, the columns may hold anything: the invariant keeps only that there is one row of the
fixed length and that the seed of a driver without seeds is 0 (`Kept`). That is all a reset needs to make
`Mirrors` hold for the next prompt (`ResetMirrors`), which is why nothing of the passes before is left. A pass adds to zeros,
so it assigns, and extends `Mirrors` by one token (`MirrorsNext`); it does not matter whether the graph or the
host ran it (`ReplayLeaves`, `EagerPassLeaves`). A call of `n` passes is an induction over them
(`PassesMirror`). The hybrid driver's recurrence is a function over the sequence (`GdnRunIs`), equal on
equal prefixes (`GdnPrefix`).

Nothing is assumed of what callers do with rollouts: they keep them over any number of dispatches and drop them when they like.
That the outputs of a bucket are relocated then, against what its comment says, is item 2 below.

### Dispatch (`MoeDispatchProofs`)

`DispatchIsExact` states `AddsItsExperts` for any numbers of tokens, experts, experts per token and
slots per block, any capacity and any router: a token gets the results of its own experts, those beyond an
expert's capacity excepted, once each, with their own weights, from the weights the block's other paths read.

*The argument.* The invariant `DispatchInv` keeps that a routed call has picked distinct experts
for every token (`Routed`) and that a captured step is for one token. The rest is about the layouts. The rank of an
assignment is its number among those of the same expert, so the ranks of an expert are
`0 .. count - 1`, once each (`Ranks`); in the capacity layout `expert * cap + rank` therefore names
a cell once (`CapacityCells`). In the dropless layout an expert's base is the sum
of the padded counts before it (`BaseIsSum`), the padded total fits the buffer (`Room`), and
the runs of experts do not overlap (`Runs`), so every cell holds one assignment (`DroplessCells`).
Each path then gathers, for each kept assignment, its own row with its own weight (`OracleExact`,
`OndeviceExact`, `GroupedExact`, `GatherExact`, `FusedExact`, `DecodeExact`).

### The offline store (`LoaderProofs`)

For any layers, experts, widths, alignment and directory, and any number of kills:

| Theorem | States |
|---|---|
| `StoreInvariant` | `RepackInv` is an invariant of `Spec` |
| `ResumeIsComplete` | a repack that reports success has left a manifest, a resident part, whole or torn by a kill, and every layer |
| `StreamReadsOwn` | what a fetch reads from a layer file is the record of that layer and that expert |

*The argument.* The repack keeps nothing but its files, so the invariant says what each stage has
written (`Progress`), what a kill leaves behind (`Survives`), and that a file which counts as whole
holds the image of this directory (`Holds`). For the third theorem the byte
ranges of the records of a file are shown to be disjoint: a slot is at least as long as its
record (`AlignUpCovers`), slots of different experts and projections are apart (`SlotsApart`,
`RecordsApart`, `PartsApart`), and the reader computes the same offsets from the manifest (`ManifestFits`).

### Rollouts, the trainer and the sampler (`RolloutProofs`)

For any drivers, numbers of prompts, groups and rows, ragged prompt lengths, budgets, vocabularies and
end-of-sequence tokens, any rewards and any sampler settings:

| Theorem | States |
|---|---|
| `RolloutInvariance` | `RolloutInv` is an invariant of `Spec` |
| `HonestRollouts` | every token of a completion is recorded with the log-probability of its own row's context (`LogpHonest`) |
| `CoherentCaches` | the cache holds the tokens of each live row in their columns, and nothing else (`CacheCoherent`) |
| `RolloutsSample` | all seven drivers implement `GroupSampling`: `Spec => IsGroupSampling` |
| `TrainerInvariance` | `GrpoInv` is an invariant of `Spec` |
| `RatiosAreOne` | at the first optimizer step the ratio of every unmasked token is 1 (`RatioIsOne`) |
| `LossesAreExact` | the loss has one term per unmasked token, with its own log-probability and advantage (`LossExact`) |
| `SamplersAreExact` | `sample_index` draws each token that the filters leave in its share, and no other (`SamplerExact`) |

*The invariant.* Seven drivers keep their rows in seven ways, but at any moment there is one number `n` of
tokens that every row has been given (`IdsInv`). `RolloutInv` says that the batch is groups of one prompt
length per prompt (`ShapeInv`), that a row that is no longer live has ended (`ActiveInv`), that for some `n` each token
up to a row's end is recorded with its own context, by the host drivers in their steps (`StepsInv`) and by
the device loops in buffers that are untouched behind `n` (`BufsInv`), that the cache has the first columns of
the live rows (`Holds`), as many as the phase says (`PhaseInv`), and that what is returned is the rows cut at their ends
(`Returned`). Only the number of a live row matters for the cache, which is why it survives a second
compaction: `SelectRows` and the relabelling of `active` are the same subsequence of rows.

*Its steps.* A forward appends, or writes in place, the cells of new columns; the cells are right since attention
sees exactly the columns before (`ForwardIs` for a concatenating cache, `StaticIs` for a static one, `ContextIs` for what
the logits then are a function of). Padding is masked out of all of them, and three descriptions of it,
by the driver, by the positions and by the trainer, come to the same number per row.

*The refinement.* What a row says is its tokens up to the first that ends it (`CompleteIs`). A sampling step of
any driver is then a round of `GroupSampling` (`RoundSays`, `ThenSaid`), the return of the driver the abstract
return (`ResultIs`), and a forward a stutter; the device loops, which do not look
whether all rows have ended, stutter from then on.

*The trainer.* `TrainerInv` adds what each phase has found out: the reward of a row is its own fraction, or 0 where
the harness failed or gave no number; the log-probabilities are those of the recorded
contexts, recomputed from a forward over the whole row whose column `lp - 1 + t` predicts token `t`. The advantages
of a group are about its own rows because the rows are prompt-major; the totals are sums that do not depend on the order.

*The sampler.* The sorted tokens are an order without repetition (`RankOrder`), of which both filters keep a prefix (`TopKIs`,
`TopPIs`). A draw finds the token whose part of the cumulated weights the sample falls into
(`DrawIs`), and that part is as long as its weight (`DrawnIs`). Nothing here is about a state: `SamplerExact` is an
invariant only so that a run evaluates it.

### What the proofs assume

Nothing but the assumptions on constants, each of which TLC evaluates in the runs of its component:
`ChannelsAssumption`, `PoolAssumption`, `DispatchAssumption`, `CheckpointAssumption`,
`CaptureAssumption`, `RolloutAssumption` and `GrpoStepAssumption` say that the constants are numbers, sets and sequences of the right kind, that what the code
divides by or indexes with is positive, that `NoReq` and `Omitted` stand for nothing else, and that the padding is an
end-of-sequence token. `CaptureAssumption` adds that tokens are numbers, which the sampler stays among, that no prompt is
empty (the prefill takes the logits of column `lp - 1`, `moe.rs:1247`; in a bucket every column would be masked) and that `Blur`, the
mark of a spoiled column, is nothing a column may rightly hold. `RolloutAssumption` has each shape's prompts times its group size come to the rows
of the batch and keeps the content of fresh device buffers, `Blank`, out of the vocabulary;
`GrpoStepAssumption` has the sampler's weights and thresholds as numbers, and `NaN` not be one. `PenaltyAssumption` says that the router's ranks are below what the iterated
argmax subtracts from an entry it has taken: the code takes 1e9 from probabilities (`moe.rs:404-422`).

`DataInduction` is there because the library's induction theorems take an operator, which the provers
cannot instantiate. It proves induction once more with the property given as a set and the step of a recursion
as a function, over numbers, subsets and sequences, and from it that `MapThenSumSet` and `FoldLeft`
are what their equations say (`SumSolved`, `SeqFoldSolved`), and that the elements of a finite set by rank, or
in ascending order, are each of them once (`RankOrder`, `AscendingRow`).

### What is only model-checked

- *Liveness* (`serve_live`, `generation`, `expert_kernels`): the proof system does not handle fairness here.
- *`Generation`* (`GreedyOutput`, `CachesMatchOutput`, `MtpMatchesOutput`): the model's function is
  fixed question by question, and the invariant would have to relate the cycles of a speculative driver to
  a plain decode over a recurrent state that is rolled back to a snapshot and replayed.
- *The text path*: `SaidIsDecode` compares two decodings of every token sequence, an induction over strings
  in several mutually recursive definitions.
- *Kernels*: `CellsExact`, `DenseExact` and the disagreement of `gdn_kernel` are about the addresses of
  fixed builds, where TLC goes over all cells.
- *`ReadsItsOwn`* and *`WholeIsNotRefused`* speak of every loader and format at once; of these the store's part (`StreamReadsOwn`) is proved.

No module declares a RECURSIVE operator, so all stay open to proofs.

## Disagreements between code and documentation

Checked by a run, which ends with the trace:

1. `gdn_kernel` (`gdn_kernel.rs:198`, `:245`): after the second barrier every thread reads the total of
   q from `sm[0]`; lane 0 of warp 0 writes its partial readout to the same cell with no barrier
   between. A warp that is late normalises q by a neighbour's partial sum, where `gdn_kernel.rs:185`
   says the totals are broadcast.

Met while modelling; the models follow the code, and the properties set exactly these cases aside:

2. A bucket returns clones of its buffers (`examples/cudagraph_p4_buckets_bench.rs:395`); a
   caller that keeps one over the next dispatch (`:676`) makes the reset (`:370`) relocate the
   buffer, and the graph then writes where nobody reads, where `:92` says that each dispatch resets the
   buffers in place and never reallocates. (`SameStorage` excepts a bucket's outputs.)
3. Without CUDA the eager block hands output-major NVFP4 experts (`qwen3_5/mod.rs:1319`) to the portable kernels,
   which read a row per output channel (`nvfp4_kernels.rs:144`). (`CellsExact` asks no exact terms of the call
   `"nvfp4_eager"`.)
4. With streaming off (`examples/qwen35_generate_portable.rs:190`), a packed resident part that is found makes the
   driver skip the eager load, so that the routed experts keep their initial values, where `:157-159` says that it falls back
   to the fully-resident eager load. (`EagerBlob` excepts these experts from `ReadsItsOwn`.)
5. A closed channel (`serve/handlers.rs:1055`) ends `drain` like a finished generation, so the victim
   of a panic gets 200, `finish_reason: "stop"` and `[DONE]`, where `docs/SERVE_PLAN.md:180` and
   `serve/engine.rs:44` promise a 500. (`UsageHonest` and the contract except `Victim`.)
6. The force-commit (`serve/detok.rs:153`) can tear a codepoint that began on the very token that
   triggers it; after that nothing is emitted and the window grows, against the bounds at
   `detok.rs:34-43`. (`Stuck` in `ServeText`.)
7. `finish` (`serve/detok.rs:230`) appends the decoded tail without scanning it, against "NEVER
   emitted" at `detok.rs:22`. (`SaidIsDecode` allows a stop string that is first whole in the tail.)
8. A text completion that starts with a literal think tag loses it (`serve/handlers.rs:1353`), against "raw text, no
   think split" at `handlers.rs:1290`. (`SplitIsWhole` speaks of chat and thinking.)
9. With a blob store beside dense slots, prefetch loads packed slots that the forward then rejects
   (`expert_stream.rs:430`); `examples/qwen35_generate_portable.rs:6` offers the combination. (`SomePools` has no such pool.)
10. The static step of Qwen3.5 reads the router's probabilities back to the host inside the recording
    (`qwen3_5/mod.rs:1828`, `:2087` against `:1117`, `:2075`): `graph = "synced"` in `MoeDispatch`.
11. `generate` divides the logits by the temperature before it asks whether the temperature is 0 (`decoder.rs:931`), so
    its greedy arm takes the argmax of infinities. (`Argmax` lets it take any token.)
12. The store's manifest is "validated against the live model config" (`nvfp4_blob.rs:34`), but
    `check_matches` (`:212`) is called by tests only; and a resumed repack keeps any layer file of the right
    length (`examples/nvfp4_offline_repack.rs:172`), also one made from another checkpoint. (The model
    starts from an empty store.)
13. A resident part torn by a kill stays torn: the repack looks only whether its two files exist, and a
    launch that finds it stops. (`ResumeCompletes` and `WholeIsNotRefused` say so.)

## What is not modelled, and why

- *Rounding*: softmax, RoPE, activations, the recurrence of Gated DeltaNet, code points of NVFP4 and fp8, AdamW
  and gradient clipping, the value of the KL estimator, bias additions. The parity tests and gates of
  the repository compare them with references; in the models a forward is a function of the context
  and a kernel the terms it sums.
- *Formatting and parsing*: chat templates (compared byte for byte by `tests/template_parity.rs`), JSON layout,
  tokenizers, request deserialization and validation, safetensors headers, the manifest's text.
- *Configuration checks of the trainer*: two group sizes that differ and groups of one under `GroupNorm` stop
  `grpo_step` at its head (`grpo/trainer.rs:169`, `:175`). The model has one group size; its groups of one are those of `DrGrpo`.
- *The reward's child process*: its pipes and the deadline are the operating system's; that a child
  may fail or print what is not a number is an input of `GrpoStep`.
- *Server details*: the oneshot reply arm, which no handler uses; warm-up; EOS parsing. A prompt's
  encoding either fails or gives a length.
- *Decode loops*: `generate_with_cache_eos` and `generate_greedy` emit one token even if none is asked
  for; the model starts at one (`MaxNew >= 1`). The loops read the end of the sequence from row 0; one row stands for
  the batch.
- *Capture*: the assertions of `build_static_decode` on the mixture (`moe.rs:1119-1178`); whether a
  driver supports capture; the timing of streams.
- *The store*: one made from another checkpoint (item 12 above), or edited while in use.
- *Caches*: `clear`, and the concatenating mode beyond the loops that use it.
- *Other examples*: benchmarks, probes and one-off comparisons.

Hazards that no property covers carry a note in `PROJECT.json`: clients that stop reading,
a codepoint torn by the force-commit, two calls of `decode_n` without a reset, a store of another checkpoint, a packed
resident part found with streaming off, a resident part torn by a kill.

## Plan

Done: the server with its proofs first (the most concurrent part and the one users see), then the
text path, the expert pool, rollouts, speculation; after these captured decode, the plain decode
loops, the trainer step and the sampler, dispatch, layouts and kernels, and loading.

The proofs followed the same order: the server, what its clients read and the refinement of `ServeContract`,
then the store, captured decode, dispatch and the expert pool, and last rollouts with their refinement of
`GroupSampling`, the trainer step and the sampler.

Next:

1. `Loader`: `ReadsItsOwn` for the loaders that read no store.
2. `Generation`: `GreedyOutput` for the plain loops first, with the caches' lemmas of `RolloutProofs` and the
   recurrence's of `CapturedProofs`.
