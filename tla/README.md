# A verification of Megatron-LM

TLA+ models of the parts of this repository that decide *when*, *in which
order* and *between which ranks* a job computes, communicates, reuses memory
and saves itself: the pipeline schedules, the data-parallel gradient buffers,
the distributed optimizer and its shards, the process groups and the reductions
over them, the training loop with its checkpoints and restarts, training on
packed sequences, and the text generation server. TLC checks the models on
small jobs; TLAPS proves the safety of both pipeline schedules, of training with
its checkpoints, of the distributed optimizer, of the gradient buffers, of the
optimizer's shards, of the process groups and of sequence packing for jobs of
every size.

Source paths are relative to `src/`, those without a directory to
`src/megatron/`.

## 1. The system

A job is a grid of ranks: tensor-, context-, pipeline-, expert- and
data-parallel. One process per rank runs the same program (`training.py`):

    initialize_model_parallel -> get_model -> load_checkpoint -> iterations of
      zero the gradient buffers -> forward/backward schedule over M microbatches
      -> finalize_model_grads -> optimizer.step -> (log, save, exit?)

| Part | State it keeps | Operations | What makes it hard |
|---|---|---|---|
| 1F1B schedule, `core/pipeline_parallel/schedules.py:1047-1295` | loop and loop variable, `input_tensors`, `output_tensors`, `no_sync_context` | warmup, steady and cooldown loops; `forward_step`, `backward_step` | tensors are paired by order only; the send and the receive of neighbours must meet; reduction on the last microbatch |
| interleaved schedule, `schedules.py:367-940` | the same per model chunk, wait handles, `synchronized_model_chunks` | the same over P x C virtual stages | chunk arithmetic, receives posted before the computation, delayed reductions |
| point-to-point calls, `core/pipeline_parallel/p2p_communication.py` | requests of a call | `_communicate` and its nine wrappers | order of operations in a call, ring of ranks |
| gradient buffer, `core/distributed/` | `data`, buckets, `params_with_grad`, `communication_issued`, `is_last_microbatch` | layout, parameter hooks, `no_sync`, `start/finish_grad_sync`, `reset` | layout computed twice; a collective reads memory that hooks write |
| `finalize_model_grads` | none | reductions over several groups in turn | each relies on what the one before left valid where |
| distributed optimizer, `optimizer/distrib_optimizer.py` | fp32 shards and maps of ranges, storage shared by gradients and parameters, `all_gather_handles`, `param_buffer_copied`, `update_successful` | `zero_grad`, forward pre-hooks, `step`, `save/load_parameter_state` | one memory cell is a gradient or a parameter; shards cut parameters; all-gathers launched by hooks; skipped updates |
| mixed precision, scaler, clipping, `optimizer/` | `found_inf`, scale and trackers | `step`, `update`, `clip_grad_norm` | all ranks must agree to skip; norms over ranks that hold copies |
| process groups, `core/parallel_state.py`; layers of a stage, `model/transformer.py` | the groups, lists of ranks, split rank | `initialize_model_parallel`, getters, `destroy_model_parallel` | arithmetic on ranks and layers; what is forgotten and what is kept |
| training loop, `training.py`, with ramp-up, sampler, scheduler, signals | iteration, consumed samples, `saved_checkpoint` | `train`, its saves and exits | ranks must decide alike; every exit has to save what was done |
| checkpoints, `checkpointing.py` | files, tracker file | `save_checkpoint`, `load_checkpoint` | crashes between any two writes; state restored from several files |
| sequence packing, `model/gpt_model.py`, `model/transformer.py`, `core/tensor_parallel/` | cumulative lengths, `args.sequence_parallel` | unpad, pad, gather, scatter | each stage packs by itself; which collective a gather needs in backward |
| text generation, `text_generation*` | lock, offsets into caches of keys and values, tokens, beams | `generate`, `score_and_return`, `beam_search` | every stage runs the loop by itself; threads; errors |
| the rest: numerical layers, datasets, sharded checkpoint format, vision, retrieval, tools | | | numerical code and I/O |

Interactions. The schedule calls the p2p functions and, through `no_sync_func`,
`grad_sync_func` and `finalize_model_grads_func`, the gradient buffers;
autograd calls the buffers' hooks from inside `backward_step`; the optimizer
reads the buffers, writes parameters into the same storage, and its pre-hooks
run from inside `forward_step`; everything asks `parallel_state` for its groups;
the checkpoint gathers what loop, optimizer, scaler and scheduler keep.

What must hold, part by part: a schedule computes what a sequential loop over
the microbatches would and stops on every rank; a gradient buffer hands the
optimizer the average of every gradient exactly once, and the optimizer updates
every element with it exactly once; it reads only gradients of this iteration
and the modules only parameters of the last update; all ranks issue the same
collectives; copies of a parameter get equal updates, with the gradient of the
whole batch; an interrupted job ends as an uninterrupted one; a packed sequence
trains as it would alone; a generated token follows from exactly its prefix.

`PROJECT.json` lists every component and every hazard at its line.

## 2. The modules

| Module | What it is |
|---|---|
| `PipelineOrder` | abstract: what any pipeline schedule promises |
| `OneFOneB` | the non-interleaved schedule with its p2p calls; implements `PipelineOrder` |
| `Interleaved` | the interleaved schedule with its p2p calls; implements `PipelineOrder` on P x C stages |
| `BufferLayout` | `GradBuffer.__init__`: parameters to elements, buckets and shards (operators only) |
| `OptimizerShards` | the maps of `DistributedOptimizer` between parameters, buckets and shards, and its file (operators only) |
| `GradBuffer` | the replicas of a data-parallel group over that layout, their updates, and a later job that loads their file |
| `TiedEmbedding` | `finalize_model_grads` between two stages, each with its own `BufferLayout` |
| `DistribOptimizer` | iterations of `train_step` with the distributed optimizer |
| `ParallelState` | process groups, the model parts of every rank, all reductions of gradients, the norms |
| `ResumableTraining` | abstract: what a user expects of checkpoints |
| `Training` | the training loop of all ranks with its persistent state, signals, crashes and restarts; implements `ResumableTraining` |
| `SequencePacking` | forward and backward of packed micro-batches over tensor and pipeline ranks |
| `TextGeneration` | the server and the generation loops of all stages |
| `MCPipelines` | for TLC: a set of small jobs of both schedules; a behaviour picks one and is then a behaviour of the module above with these constants |
| `MCGradBuffer`, `MCDistribOptimizer` | for TLC: the command lines to try, values of `Settings` |
| `OneFOneBProofs` | theorems about `OneFOneB` |
| `InterleavedProofs` | theorems about `Interleaved` |
| `TrainingProofs` | theorems about `Training` |
| `DistribOptimizerProofs` | theorems about `DistribOptimizer` |
| `GradBufferProofs` | theorems about the operators of `BufferLayout` and `OptimizerShards`, and about `GradBuffer`: its schedule, and the data in it |
| `ParallelStateProofs` | theorems about `ParallelState` |
| `SequencePackingProofs` | theorems about `SequencePacking` |
| `Arithmetic` | lemmas they share: division, least and greatest elements, induction up to a number, recursive functions |

`OneFOneB` and `Interleaved` compose with `PipelineOrder` by refinement,
`GradBuffer` and `TiedEmbedding` build on `BufferLayout`, `Training` composes
loop, sampler, ramp-up, scaler, scheduler and checkpoint.

Definitions named `X_Y` with the comment "Mutant" are deliberately wrong
versions of `X`. No specification uses them; each was put in the place of `X`
to see that some property fails.

### PipelineOrder
`nf[v]` and `nb[v]` count the microbatches that virtual stage v has run forward
and backward. A stage may run its next microbatch forward when the stage before
has, and backward when it has run it forward and the stage after has run it
backward. Both schedules are shown to refine it, with `nf` and `nb` mapped to
their counters of steps.

### OneFOneB
One process per stage. A rank is always inside a p2p call (`call`), whose
unfinished requests are `reqs`; each action is the code from the return of one
call to the posting of the next. The other variables are the Python locals. A
tensor is the number of its microbatch, `None`, or `Mixed` once data of two
microbatches have met. `fwd` and `bwd` count the steps; `launches` records, for
every gradient reduction, how many microbatches it contains. The transport is
FIFO per pair and direction; with `EagerSends` a send may complete before its
receive is posted, without it never does.

`GradReduce` is `"finalize"` (no `--overlap-grad-reduce`), `"overlap"`, or
`"delay"` (`--delay-grad-reduce`, which sets `grad_sync_func`).

| Action | Code in `schedules.py` |
|---|---|
| `Start`, `EnterWarmup`, `EnterCooldown`, `Finish` | the heads and ends of the three loops |
| `WarmupForward`, `WarmupNext` | 1155-1189 |
| `SteadyForward`, `SteadyBackward`, `SteadyNext` | 1193-1252 |
| `CooldownBackward`, `CooldownNext` | 1254-1276 |
| `ReceiveForward`, `ReceiveBackward`, `BufferSend` | the transport |

### Interleaved
The same style over chunks. A receive returns its buffer before the data are
there, so the lists hold buffers, numbered in the order they were posted, and a
step looks up what the transport has put in them. `clean[r]` turns false when a
step uses a buffer not yet filled, or tensors that do not belong together: each
tensor carries its pass, the virtual stage that made it, and its microbatch.
`P2P` selects `_batched_p2p_ops`, `_p2p_ops`, or `overlap_p2p_comm`. Sends
complete only when taken. A rank that raises an exception (`Unbound`, see section
4) takes no further step.

### BufferLayout, OptimizerShards and GradBuffer
`BufferLayout` follows both loops of `GradBuffer.__init__`. In `GradBuffer`
every size of every parameter up to `MaxNumel`, and every order in which
autograd may run the hooks, is an initial state. The content of an element is,
for every replica, how many microbatch gradients of that replica are in it; one
gradient is `Unit = D`, so that dividing by D leaves an integer. A
collective runs when all replicas have issued it; a reduce-scatter leaves all
elements but the replica's shard as they were.

`OptimizerShards` follows the class methods that build the maps: for a piece of
a parameter in a replica's part of a bucket, its range in the part, in the
bucket and in the parameter (`ParamRanges`), its group and its place there
(`GroupParams`, `GroupOrder`). `Shards` cuts by the first, `ParamBuffer` and
`SavedState` write at the others, `ModelParams` and `LoadedShards` read back.
Each element of a parameter is a record of its identity and of the gradients it
was updated with, so that an element that lands in another's place shows.

| Action | Code |
|---|---|
| `ZeroGradBuffer` | `GradBuffer.reset`, and the entry into `no_sync` |
| `ParamHook` | `_make_param_hook`, `register_grad_ready`, `start_grad_sync` |
| `FinishGradSync` | `Bucket.finish_grad_sync` |
| `OptimizerStep` | `MixedPrecisionOptimizer.step` without shards |
| `ShardStep`, `GatherParams` | `DistributedOptimizer.step`: gradients to shards, the update, the all-gathers and the copies to the parameters |
| `Save`, `Restart` | `save_parameter_state`, and `load_parameter_state` in a job of another number of replicas, which asserts equal bucket sizes |
| `Complete` | a collective |

The command line (`--overlap-grad-reduce`, `--use-distributed-optimizer`, the
bucket size) is a variable `args`, chosen by `Init` from `Settings`.

The assertions of the code are guards: were one false, its replica would be
stuck, and TLC would report the deadlock.

### TiedEmbedding
Two stages times D replicas. The embedding is the first parameter of the first
stage and the last one of the last stage; the first stage has buckets, the last
does not (`DistributedDataParallel.__init__`). Actions: the collective of each
stage (`StartGradSync`, `Reduce`), then the all-reduce of the pair of ranks
(`AllReduceWordEmbeddingGrads`).

### DistribOptimizer
D ranks, B buckets. A cell of `storage` is one shard of one bucket of one rank
and holds a set of gradient contributions (rank, iteration, microbatch) and
possibly a version of the parameters; `model` is the version the modules use and
`main` the number of updates of the fp32 shard. `posted` are the collectives a
rank has issued and that have not completed; one completes when it heads the
queue of every rank. Gradients may overflow, at most `MaxOverflows` times.

| Action | Code |
|---|---|
| `ZeroGrad` | `zero_grad_buffer(zero_buffer=False)`, `optimizer.zero_grad()` |
| `StartPass` | any order of passes in which each microbatch goes forward before backward |
| `ComputeForward`, `FinishParamSync` | a module's forward, with the pre-hook returning early or not |
| `BackwardBucket` | the hooks of a bucket, and its reduce-scatter |
| `FinishGradSync` | `finish_grad_sync` |
| `Unscale`, `Step` | `MixedPrecisionOptimizer.step` |
| `GatherParams`, `CopyGathered` | the synchronous gather of `DistributedOptimizer.step` |
| `NextIteration` | the end of the loop of `train` |

The arguments that vary (`--overlap-param-gather`, `--overlap-grad-reduce`,
how many overflows) are a variable `args`, chosen by `Init` from `Settings`.

### ParallelState
All ranks go through the same phases, one action each: `Initialize` with any
accepted arguments, `BuildModel`, `Backward`, the reductions of
`finalize_model_grads` (`SyncGrads`, `LayernormGrads`, `EmbeddingGrads`,
`ExpertGrads`), `ClipGradNorm`, `LogParamsNorm`, `Destroy`, and again. Groups
are computed by the same strides as in `initialize_model_parallel`. A gradient
is the bag of (parameter, use in the model, piece of the batch) that were added
up in it; a norm is the bag of the parameters counted in it. A piece is one of
the parts into which data, context and sequence parallelism cut the batch.

### Training and ResumableTraining
A rank's state is what `save_checkpoint` collects: iteration, consumed samples,
scheduler steps, scaler, random streams, and the parameters and their fp32 copy
as histories of the iterations that made them. A file is absent, partial or
complete with its content, and opening and filling it are two steps; so are
those of the tracker file. Collectives, barriers included, are steps of all
ranks; everything between is a step of one rank.

| Action | Code |
|---|---|
| `Load`, `Begin` | `load_checkpoint`, `read_metadata`, and the set-up of sampler and ramp-up from what was loaded, with the sampler's assertion (`SamplesLeft`) |
| `TrainStep` | an iteration of `train`: ramp-up, sampler, step, scaler, scheduler, counts |
| `CheckSignals`, `CheckInterval`, `CheckDuration`, `CheckExitInterval` | the four ways to save or exit, `training.py:775-812` |
| `EndTraining` | the save at the end of `pretrain` |
| `EnterSave`, `SaveFiles`, `WaitForFiles`, `OpenTracker`, `WriteTracker`, `LeaveSave` | `save_checkpoint` with its barriers |
| `Crash`, `Restart` | the job dies at any point, or exits; it is started again with the same arguments |

`ResumableTraining` has two counters, iterations done and iterations in the
last commit; they are mapped to the iteration of the ranks and to what the
tracker leads to. It allows a commit to be lost: see section 4.

### SequencePacking
A step is the forward or the backward of a micro-batch on all tensor-parallel
ranks of a stage. A hidden state is the set of tokens it depends on; a gradient
is the bag of the routes by which it came from losses, where a route names the
part of each layer (residual, or the heads of one rank) and of the vocabulary it
went through. The collectives of `mappings.py` act on these as sums.
`unpad_input`, `pad_input` and `flash_attn_unpadded_func` belong to a library
that is not in the repository; they are modelled from their use.

### TextGeneration
Ranks are pipeline stages; a record `rank[r]` holds where a stage is in its
loop and the Python locals and `InferenceParams`. What a stage makes of a token
is the sequence of what it attended to, so that a token in the cache from
another request, row or position shows. Sampled tokens are any tokens.

| Action | Code |
|---|---|
| `Put`, `Acquire`, `SendChoice`, `SendPrompts` | the server's lock, choice and broadcasts |
| `FirstStage`, `NextStage` | `_forward_step_helper`, whole or in micro-batches |
| `LastStage`, `Copy`, `Done`, `BestBatches`, `Sizes`, `Result`, `ReturnError` | sampling, scoring and beam search on the last stage, the copies to the others, the end of the loops, the answer |

## 3. What is checked

`PROJECT.json` says for each run which properties it checks.

| Run | Bounds | Distinct states |
|---|---|---|
| `fb_overlap` | 1F1B: P=4, M=5, overlapped reductions, eager sends | 7895 |
| `pipelines` | the fourteen jobs of `MCPipelines`, six of 1F1B and eight interleaved | 26244 |
| `gb_jobs` | D=3, 3 parameters of 1-2 elements, M=2, 2 iterations, four settings, restarts with 1 to 4 replicas | 301202 |
| `do_settings` | D=2, B=3, M=2, 3 iterations, three settings | 187893 |
| `tr_restarts` | 2 model-parallel x 2 data-parallel ranks, ramp-up from 2 over 4 to 6 samples, 36 samples, any signals and durations, one crash | 61812 |
| `layout` | worlds of 1, 2, 4, 6, 8, 12 and 16 ranks, T, C, E in {1, 2, 4}, P up to 4, 12 layers, GPT and T5, any two layouts in a row | 9087 |
| `generation` | 1 and 3 stages, 2 clients, batches up to 3, prompts up to 2, up to 3 new tokens, 2 beams | 136592 |
| `packing` | T in {1, 2, 3}, P in {1, 2}, 2 rows of 1 to 3 tokens, 2 micro-batches, with and without sequence parallelism | 8505 |

* `pipelines`, 1F1B: P=2 M=1; P=4 M=3 with delayed reductions and rendezvous
  sends; P=3 M=3 with reductions in finalize; P=3 M=5 with delayed reductions;
  P=3 M=2 forward-only with rendezvous sends; P=4 M=4 forward-only.
* `pipelines`, interleaved: P=4 C=2 M=8 with overlapped p2p and delayed
  reductions; P=3 C=2 M=6 with batched p2p, and with overlapped p2p; P=3 C=3 M=6
  with serial p2p and reductions in finalize; P=3 C=1 M=6 with batched p2p and
  delayed reductions; P=3 C=1 M=3 and P=4 C=2 M=4 with overlapped p2p, the
  latter with delayed reductions; P=3 C=3 M=6 forward-only.
* `gb_jobs`: overlapped reduce-scatter with bucket size 3; overlapped all-reduce
  with bucket size 2; reduce-scatter and all-reduce at the end, in one bucket.
* `do_settings`: the gather overlapped, no overflow; the gather synchronous and
  one overflow, with reductions overlapped and not.

Why these bounds. With P=4 there is a first, a last and two kinds of inner
stages (one next to the last, whose warmup is one microbatch). M=5 lets each
stage pass through all three loops with iterations to spare; M=3 gives the
first stage of four a warmup capped by M and no steady loop; P=2 with M=1 is the
shortest pipeline and batch. P=3 is the smallest ring the code accepts with
virtual stages and odd, so that two even ranks are neighbours; P=4 is the
smallest even one. M=P (the whole batch is run forward first) and C=1 are
special cases of the code: with C=1 and M > P the last rank has no warmup. With
overlapped p2p that job is left out, because there the code raises (section 4).
For the buffers, parameters of one or two elements
over three replicas give buckets with and without padding, and parameters cut by
a shard boundary; bucket sizes 2 and 3 give one or two buckets; one, two and
four replicas after three cut the same buckets at other places or refuse the
file. What these bounds leave open is proved (section 5). Two iterations
show what is carried from one into the next, and three what is carried over a
skipped one. In `tr_restarts` the 36 samples are seven iterations: one of two
samples, one of four, then five of six. There are saves at even iterations,
exits at every third, of which the first has to save and the second has saved,
and overflows with hysteresis; the last iteration, which uses up the dataset,
has no save of its own, so that `pretrain` makes it. Sixteen ranks hold
all pairs of kinds of parallelism at size two or more, and several triples; two
layouts in a row show what `destroy_model_parallel` keeps. Three stages have one
in between, which takes part in other exchanges than the ends; batches of three
with a threshold of two go in micro-batches of differing sizes. Packed lengths
from 2 to 6 leave every rest by two and three ranks; two stages and two
micro-batches let tensors of two lengths be under way.
Deadlock is checked in every run: a finished job stutters explicitly.

The properties:

* `NoMixing`: tensors paired by order only belong to the same microbatch.
* `OutstandingBackprops`: the activation window that the partial checkpointing
  relies on.
* `GradsReducedOnce`: one reduction per rank (or chunk) and batch, with all
  microbatches in it, under each of the three settings.
* `CleanFinish`: nothing is lost or left over, and the losses are in order.
* `NoCircularWait`, `Termination`: no stage waits for ever.
* `ImplementsOrder`: refinement of `PipelineOrder`.
* `LayoutSound`: the two loops agree, parameters are disjoint and inside their
  buckets, shards are equal and cover their bucket.
* `UpdatedExactly`: every element of every parameter is updated once per
  iteration with the average of all replicas' microbatches, also through shards
  that cut parameters, and the loaded shards of a later job are those elements.
* `NoWriteInFlight`: no hook writes to a bucket that is being reduced.
* `ForwardCurrent`, `StepGradsFresh`: no old parameter is computed with, no old
  gradient or parameter is taken for a gradient.
* `SameCollectives`, `OverflowCostsOneUpdate`, `SavedParamsCurrent`: see the
  comments; the last two hold without `--overlap-param-gather` only.
* `EmbeddingInSync`: every owner of an element of the embedding, on either
  stage, updates it with the full gradient of both stages; violated with the
  distributed optimizer.
* `PipelinesAligned`: from stage to stage and chunk to chunk every layer is met
  once and in order, on ranks with the same data and shard.
* `GradsCoverBatch`: the gradient of every copy of every parameter has every use
  of it on every piece of the batch, once.
* `NormCountsOnce`: the norms have every parameter once.
* `SamplesInOrder`, `SameAsUninterrupted`: over all crashes and restarts each
  sample is used once and in order, and samples, scheduler, scaler, random
  states and parameters at an iteration are those of a run never interrupted.
* `CommitsCompleteCheckpoint`, `ImplementsResumable`, and its `Termination`:
  the tracker only moves to complete checkpoints; progress is only lost back to
  the last one; the job ends, in the last iteration or refused (section 4).
* `TokensFollowTheirPrefix`, `Answered`: the caches of all stages agree with the
  text; whoever holds the lock is answered and the ranks are free again.
* `EachSequenceAlone`, `GradientsFollowAttention`: packing gives each sequence
  what it gives alone, forward; gradients return by the same routes, each as
  often as the others.

Fairness. In the pipelines and the optimizer, `Termination` assumes weak
fairness of each rank's own steps and of the transport or the collectives: a
Python process that can run does run, and a transfer whose sides are posted
completes. `BufferSend` is not assumed fair: nothing may depend on buffering.
`Training` assumes the same of processes, collectives and the tracker's writer,
and that a stopped job is started again; crashes, signals and durations are not
fair. `TextGeneration` assumes only that the ranks go on serving; clients need
not come, and nothing promises a waiting client the lock. No order between
ranks is assumed anywhere.

## 4. Where the code and its documentation differ

Four runs state something the repository says and end in a counterexample;
`PROJECT.json` quotes each.

* `te_reduce_scatter`: with the distributed optimizer and pipeline parallelism,
  the copies of a tied embedding are updated with different gradients. The
  all-reduce between the stages comes after the reduce-scatter and adds elements
  that are reduced on one stage and not on the other. The shards would have to
  coincide (say, by a bucket for the embedding alone), or the order be reversed.
* `do_skip`: with `--overlap-param-gather`, an update skipped for an inf leaves
  the gradients in the buffer; the next iteration adds to them, finds the inf
  again and is skipped too.
* `do_save`: with `--overlap-param-gather`, checkpoints hold the parameters of
  before the last update.
* `packing_grads`: with sequence packing and sequence parallelism all gradients
  before the head are T times too large. `gpt_model.py:162` gathers as if what
  follows were tensor-parallel, but line 163 has switched the head to a copy
  whose backward sums already.

What else was met, where no source says what should happen, or where a model
would only show an exception at start:

* With overlapped p2p (the default with virtual stages), one model chunk per rank (`arguments.py:151-161`
  accepts as many layers per virtual stage as a stage has) and M > P, the last
  rank has no warmup iteration (`schedules.py:481-483`), and its first steady one
  frees `output_tensor` (`schedules.py:742`) before anything was assigned to it:
  `UnboundLocalError`, and the batch does not end. The guard `Unbound` of
  `Interleaved` stands for the exception. `pipelines` has this job with batched
  p2p only; with overlapped p2p TLC reports that the ranks are stuck. The safety
  theorems hold of it as well.
* A dataset of exactly `--train-samples` samples is used up by the last
  iteration. A job that exits early in it, or crashes after it was committed,
  does not start again to end properly: the sampler's assertion fails
  (`data/data_samplers.py:64`). `tr_restarts` has this case as `refused`.
* A crash while the tracker file is rewritten (`checkpointing.py:308`) leaves it
  empty, and one in the second save of the last iteration (`training.py:168`)
  truncates files the tracker leads to. The job then refuses to start although
  good checkpoints exist; `ResumableTraining` allows this as `Lose`.
* With expert parallelism the norm for clipping leaves out the experts of other
  expert ranks (`optimizer/clip_grads.py:104`); `NormCountsOnce` states it for
  E = 1 only.
* With rotary embeddings and a pipeline, a first pass in several micro-batches
  gives all queries of the later ones the last position
  (`model/transformer.py:760`). `TokensFollowTheirPrefix` exempts exactly these
  requests (`Misplaced`); without the exemption TLC finds it violated.
* With context parallelism `utils.py:238` cuts the mask of a packed batch along
  a dimension it does not have; `LocalSequence` in `ParallelState` is about the
  tensors that have it.
* `model/t5_model.py:118` passes the decoder's ids by position into parameters
  that are now those for packing; `ParallelState` has the uses the call means.
* `load_parameter_state` only asks for buckets of equal sizes
  (`optimizer/distrib_optimizer.py:755`), on rank 0. `Restart` keeps the bucket
  size; with another one, sizes 2, 1, 1, 2 in two buckets of four elements can
  come from two different layouts.
* The lambdas of `param_sync_func` capture the loop variable
  (`training.py:715`), so that all of them synchronize the last chunk; the
  pre-hooks, which stay registered, hide it.
* A ramp-up that starts at the global batch size divides by zero
  (`microbatches.py:119`), and fewer samples than the ramp-up takes give too few
  iterations (`training.py:197`); the assumptions of `Training` exclude both.

## 5. What is proved

The theorems hold for every value of the constants that the named ASSUMEs of the
modules allow: any number of stages, ranks, replicas, buckets, microbatches,
iterations, parameters of any sizes, and any command lines. TLC evaluates the
assumptions in the runs. Each component has one inductive invariant; TLC checked
it on the run of the component before it was proved, and what a table calls
`Invariant`, `Schedule` or `Learning` states that it holds. The others follow.

| Module | Theorem | Statement |
|---|---|---|
| `OneFOneBProofs` | `Invariant` | `Spec => []IInv` |
| | `TypeCorrect`, `NeverMixing`, `BoundedBackprops`, `ReducedOnce`, `FinishesClean` | `TypeOK`, `NoMixing`, `OutstandingBackprops`, `GradsReducedOnce`, `CleanFinish` |
| | `NeverWaitInCircle` | `NoCircularWait` |
| | `Refinement` | `Spec => ImplementsOrder` |
| `InterleavedProofs` | `InterleavedInvariant` | `Configuration => (Spec => []Inv)` |
| | `TypeCorrect`, `NeverMixes`, `LossesOrdered`, `OutstandingBounded`, `ReducedOnce`, `FinishesClean` | `TypeOK`, `NoMixing`, `LossesInOrder`, `OutstandingBackprops`, `GradsReducedOnce`, `CleanFinish` |
| | `InterleavedImplementsOrder` | `Configuration => (Spec => ImplementsOrder)` |
| `TrainingProofs` | `Invariant` | `Spec => []IInv` |
| | `TypeCorrect`, `SamplesStayInOrder`, `ResumesUnchanged` | `TypeOK`, `SamplesInOrder`, `SameAsUninterrupted` |
| | `TrackerLeadsToComplete` | `Spec => CommitsCompleteCheckpoint` |
| | `Refinement` | `Spec => ImplementsResumable` |
| `DistribOptimizerProofs` | `Invariant` | `Spec => []IInv` |
| | `TypeCorrect`, `OneOrderOfCollectives`, `ForwardIsCurrent` | `TypeOK`, `SameCollectives`, `ForwardCurrent` |
| | `FreshGradients`, `OneUpdatePerOverflow` | `StepGradsFresh`, `OverflowCostsOneUpdate`, both as long as `Zeroing` |
| `GradBufferProofs` | `Schedule` | `Spec => []ScheduleInv` |
| | `LayoutIsSound`, `NeverWritesInFlight` | `LayoutSound`, `NoWriteInFlight` |
| | `Learning` | `Spec => []Inv` |
| | `TypeCorrect`, `UpdatesAreExact` | `TypeOK`, `UpdatedExactly` |
| | `GatherRestores` | cut into shards, gathered and copied back, the parameters are what they were |
| | `CheckpointKeepsParameters` | a job of another number of replicas with buckets of equal sizes loads the same parameters |
| `ParallelStateProofs` | `Invariant` | `Spec => []Inv` |
| | `TypeCorrect`, `Pipelines` | `TypeOK`, `PipelinesAligned` |
| | `FullGradients`, `Norms` | `GradsCoverBatch`, `NormCountsOnce` |
| `SequencePackingProofs` | `Invariant` | `Spec => []Inv` |
| | `TypeCorrect`, `Alone`, `Gradients` | `TypeOK`, `EachSequenceAlone`, `GradientsFollowAttention` |

With these every safety property of `OneFOneB`, `Interleaved`, `Training`,
`DistribOptimizer`, `GradBuffer`, `ParallelState` and `SequencePacking` that a
passing run checks is a theorem, two of `DistribOptimizer` with the hypothesis
below. The run of `Interleaved` is that
of `MCPipelines`, whose properties are those of the two schedules for its jobs;
they are not theorems of their own, since the prover cannot cite the theorems of
an instance that has parameters.

### OneFOneB
None of the properties is inductive, since all say something of a tensor and
nothing of the place where it waits. `IInv` adds that place:

* `Progress`: the phase, the call and the loop variable determine how many
  forward and backward steps a rank has run;
* `Saved`: its lists hold exactly the microbatches from `bwd` on, in order, with
  the last one not yet appended while its send is under way;
* `Current`: the locals belong to the last or next step;
* `Losses`, `Requests`, `Sync`: the same for the losses, the requests and the
  reductions;
* `InFlight`: a channel holds exactly the microbatches its sender has made and
  its receiver not taken, in order. This is the only part that relates two ranks.

`Run(s, a, n)` ("s is a, a+1, ..., a+n-1") expresses order. One lemma per action
shows that it preserves the local parts of its rank (`...Step`), one (`Combine`)
that a step which leaves the others alone (`Alone`) preserves `InFlight`. In the
refinement `Ahead` derives the guards of `PipelineOrder` from `InFlight`: a rank
that has a tensor has it from a neighbour that is ahead.

`NoCircularWait` needs one thing more: a rank waits only for a send whose tensor
is in the pipe, and to a neighbour it has (`Posted`). In a state where no rank
can go on, a wait for the previous or the next rank fixes how far the two are
apart (`PrevCounts`, `NextCounts`), and with the lengths of their warmups
excludes that two neighbours wait for each other (`NoMutualWait`). But if some
rank waits for its next one, the last such rank and the one it waits for would,
and if none does, the first one that runs has nobody to wait for; a rank that
has finished is never waited for (`WaitsForRunning`).

### Interleaved
`Configuration` is what the schedule and `initialize_model_parallel` assert of
sizes and flags. It is a hypothesis and no ASSUME because `MCPipelines`
instantiates the module with many jobs; its `JobsAssumption` evaluates it for
each of them.

`Inv` has the same idea as in `OneFOneB`, the place of a rank determines all it
holds, but the place is one counter over all chunks and the lists are per chunk:

* Arithmetic. `Count(n, c)` is how many of the first n iterations are of chunk
  c, `Microbatch(n)` which of them iteration n is, `Iteration(c, m)` the way
  back. The lemmas about them (each microbatch of each chunk is one iteration,
  the iteration on the next rank is the same one, and around the ring the one
  `P * (C - 1)` before or after) replace what the code does with `%` and `//`.
* Both passes are one: `Place(d, r)` is the place of rank r in pass d, and the
  backward pass is a forward pass through the ring the other way. `Item(d, r, b)`
  is the b-th tensor that r sends.
* `Local(r)`: the loop (`Position`) and how many iterations were run (`Ran`),
  asked for (`Wanted`) and sent (`Sent`) fix the counters (`Counted`), the three
  lists of every chunk element by element (`Lists`; `Buffers` are the numbers of
  the receives that fill them, `Filed` is the chunk that has one buffer more),
  and the losses and reductions.
* `Linked(r)`: the queue of r towards a neighbour has at most one send and one
  receive, and which ones follows from what the neighbour has received
  (`Received`, `Queues`); towards others it is empty.

One group of lemmas per action says which row of the variables it changes and
that `Local` is kept; one group for all says that a step of one rank posts what
`Queues` expects. In the refinement the counters of a chunk are those of its
virtual stage, and a buffer that has been filled was sent, so that the sender's
count is ahead. TLC checked `Inv` on ten small jobs before it was proved.

### Training
`Uninterrupted[n]` is the state after n iterations of one process that never
stops, defined by recursion; the proof first shows that the recursion is well
defined and that in it every sample is used once and in order, by induction on
the iterations. `IInv` then says that the job is on this run:

* `Agreed`: all ranks are at the same iteration, in its state there;
* `Stored`: a complete file holds what it would save at that iteration;
* `Placed`: from a rank's place around the barriers of `save_checkpoint` it
  follows which of its files are complete, and that nobody writes the tracker
  before all others have passed the barrier.

A crash forgets the ranks and keeps `Stored`; a load finds in the files, by
`Stored`, the state of the uninterrupted run.

### DistribOptimizer
The hard part is that one cell of memory is a gradient or a parameter according
to what the *other* ranks have done. `IInv` computes it:

* `Coll(p)` is the p-th collective of an iteration. The place of a rank says how
  many it has issued (`Issued`), the length of `posted` how many are complete
  (`Done`); `InOrder` says the queue is just those between. From it follows that
  a step of one rank never overtakes another.
* `View` is what ranks share of a point in the order of collectives (iterations,
  whether the update was made, how many collectives are complete); `Agreed` says
  that they share it.
* `Handles`, `Held`: which all-gathers are under way, and which buckets hold
  parameters; `Arrived`: when another rank's shard is there.
* `Params`, `Modules`: the version in each cell, and in the modules.
* `Grads`: the contributions in each cell, from the backward passes done
  (`Backprops`) and from whether its reduction is complete (`Expected`).
* `Skipped`: every skipped update is charged to an overflow of its iteration.

`Zeroing` is not an assumption on the constants but on the run: no gradient has
overflowed, or the gather is not overlapped. Without it the two properties are
false, as `do_skip` shows; the theorems therefore say of which states they hold.
`do_settings` has no setting with both, so that TLC checks them everywhere.

### The gradient buffers and the shards
The first part of `GradBufferProofs` is about both loops of `GradBuffer.__init__`. `LaidOut` is the
invariant of the first, over the parameters it has passed: each lies in its
bucket, behind those that come later, and a closed bucket ends, padded, where its
last parameter does and the next one begins. `Bounds` and `EndsAgree` show that the
second loop finds the same buckets in the finished map. The result is `WellLaid`,
which is what the rest relies on.

Its second half is about the maps of the distributed optimizer: the ranges of a
parameter in a replica's part of a bucket, in the bucket and in the parameter
belong to the same elements (`RangesMatch`), the pieces of a parameter on all
replicas make up the parameter, and what is written at the places of one map and
read at those of another comes back. For a checkpoint loaded by another number
of replicas, buckets of equal sizes turn out to lie at equal places
(`SameLayout`), so that the parameters lie in the same elements though their
shards do not.

`ScheduleInv` is about flags: the hooks run so far in a pass determine which
parameters a bucket has registered and whether its reduction is issued, and only
issued reductions are queued, each once. `DataInv` is about elements (`Content`):
before its bucket is issued an element holds n gradients of its own replica,
while the collective waits their share of the average, and after it, in the part
that a replica reduces, the average of all. `LearnedInv` is about what becomes
of it: parameters, shards, the file and the shards loaded from it are those of
`Trained(n)` for the number n of updates that the place of the replica gives.

### ParallelState
Every kind of group but one has the form `Strided(W, B, S)`: the world is cut
into blocks of B ranks, and a block is dealt out to S groups, as
`range(start, end, S)` does. One pair of lemmas says where a rank finds its group
and its place there (`StridedGroup`), and that the groups divide the ranks
(`StridedDivided`); the groups of a model, which gather pieces of several blocks,
have lemmas of their own. `TypeOK` is then arithmetic about the sizes of B and S
that `initialize_model_parallel` accepts.

The invariant is about what is kept over several layouts: on every rank the
globals are the groups of the arguments (`Globals`), the model is built from
them, and a destroyed layout leaves no group behind.

For `PipelinesAligned` a rank is written as `q * N + y`: stage q of pipeline y
(`Stages`); from there on nothing depends on the kinds of groups. `Met(n)` counts
the layers met before hop n; `OneStack`, `TwoStacks` and `SplitStacks` show for
the three ways in which layers are divided (with virtual stages, an encoder, an
encoder and a decoder) that the chunk at hop n holds the layers from there to
`Met(n + 1)` (`Laid`), and `Joined` that the concatenation of such pieces is the
whole. `Ended` says where the embedding, the input and the head are, and
`Following` that the walk which asks each rank for its next one makes these hops.

For `GradsCoverBatch` a gradient is a bag, and the invariant (`GradInv`) gives it
after each reduction (`Contents`): which uses of the parameter on which pieces of
the batch it then has. One lemma per reduction (`LocalHolds`, `SyncSums`,
`LayernormSums`, `EmbeddingSums`, `ExpertSums`) shows that the ranks of the group
have the same parameter (`Shared`) and either the same uses on disjoint pieces or
disjoint uses on the same pieces; the sum is then again a set, nothing counted
twice (`SharedSum`). After the last one it is all uses on all pieces
(`FullyReduced`).

`NormCountsOnce` needs that each parameter is put in by one member of the group
only: shared and replicated ones by one tensor-parallel rank and one stage
(`OneBearer`), and each by somebody (`SomeBearer`); the first layer of its first
chunk tells a stage from the others (`LayersTell`). The norm is then a sum over
the stages (`PipelineSum`) of a sum over the ranks of one stage (`StageSum`), or
one sum over both (`ModelSum`).

One definition of the model was changed for the proof: `InputUses` was a CASE
with overlapping guards, of which TLC takes the first and the logic any; it is now
an IF, as in the code.

### SequencePacking
The steps move whole micro-batches, so that the invariant has only to say what a
tensor is: what waits between two stages are the `Outputs` and `Grads` of the
micro-batches that one has done and the other not (`SentNext`, `SentPrev`), and
the last logits and embedding gradients are those of one device (`Ended`). Most
of the proof is about the computation of one micro-batch:

* Packing: where each row ends (`CuSeqlensIs`), that place n of the packed
  sequence is one token of one row (`PlaceOf`, `RowOf`), and that a place attends
  to the places of its own row up to itself (`AttendedByRow`). A layer may then be
  run any number of times and a token has seen what it has seen after one
  (`AttendedTwice`, `LayerIs`).
* Spreading: what `Split` cuts from a padded sequence `Gather` restores
  (`Padded`, `SplitRows`, `GatherSpread`), so that a tensor on the ranks is a
  sequence of rows (`Spread`), the same at every stage.
* Backward: a gradient is a bag of routes. Sums over attended places and over
  ranks never add the same route twice, since its first hop names the rank and the
  token it went through (`SumDisjoint`, `Prefixed`); the routes after l layers are
  the union (`RoutesAre`), each with the multiplicity it had (`LayerBackwardIs`).
  The head starts with the multiplicity `Times`, which is T with sequence
  parallelism; that it is not 1 is what `packing_grads` shows.

`SizesAssumption` only asks for positive sizes.

### Induction over data
The library's induction theorems take an operator as a parameter, which the
installed provers do not instantiate. Where a recursive function had to be
followed (`Place`, `Passes`, the concatenations of `OptimizerShards`,
`Uninterrupted`, the walk through a pipeline, the ends of packed rows), `Arithmetic` states induction for sets instead: a set that has
0, and n + 1 with n, has every number (`InductUpTo`), and a function given by its
first value and its steps exists and is the only one (`Recursion`,
`RecursionUnique`).

### What is only model-checked
Liveness (`Termination` of either schedule, of the optimizer and of training,
`Answered`), which is beyond the prover; and everything about `TextGeneration`
and `TiedEmbedding`. The properties of the runs that expect a violation are false.

## 6. What is not modelled

* In the schedules: the freeing of output tensors (with `overlap_p2p_comm` it
  comes before the wait for the send, and relies on the allocator's stream
  order), two tensors per transfer (T5), partial activation checkpointing,
  `param_sync_func`, the blocking of the exchange of shapes.
* In data parallelism: several gradient types, weights shared on one stage
  (`zero_out_wgrad`), parameters that take no part in a microbatch.
* In the optimizer: fp32 parameters beside fp16 ones, several model chunks in
  one optimizer, modules that use their parameters in another order than the
  buffer's, evaluation between iterations, the clipping itself.
* In `ParallelState`: the amax, tensor-and-data and gloo groups, a standalone
  embedding stage, the layers of `core/transformer`.
* In checkpoints: loading with other tensor or pipeline sizes, releases, the
  `--no-load-*` and `--finetune` variants, versions of old releases; the random
  sampler, which `pretrain` refuses (`training.py:139`).
* In text generation: stops at newlines, detokenization, the arguments of
  `sample`, an error other than `ValueError`.
* Collectives that fail without the job dying.

The map covers about a tenth of the implementation. Most of the rest has no
protocol: the numerical layers and kernels, vision, retrieval, biencoder and
multiple-choice models, datasets and their index building, the sharded
checkpoint format, argument parsing, logging, and the scripts under `tools/`,
`tasks/` and `examples/`. Their state is tensors and files, one process reads
them in program order, and what could be wrong is a number or a format, which a
unit test reaches and a model would only restate. `PROJECT.json` has the reason
part by part.

## 7. Plan

Done, in this order: the 1F1B schedule with its proofs; the interleaved
schedule; the distributed optimizer; gradient buffers; tied embeddings; training
with checkpoints and restarts; process groups and reductions; text generation;
sequence packing; the optimizer's shards and their file; proofs about waiting in
`OneFOneB`, about `Training`, `DistribOptimizer` and `GradBuffer` with its layout
and shards; about `Interleaved`; about process groups, pipelines,
gradients and norms; about `SequencePacking`.

Next, proofs about `TextGeneration`: type correctness, and that caches and text
agree.
