-------------------------- MODULE DistribOptimizer --------------------------
(***************************************************************************)
(* The distributed optimizer (ZeRO stage 1) over D data-parallel ranks,     *)
(* iteration after iteration: megatron/optimizer/distrib_optimizer.py with  *)
(* the part of training.py, optimizer.py and core/distributed that drives   *)
(* it.                                                                      *)
(*                                                                          *)
(* Every bucket of gradients is cut in D shards and rank r owns shard r: it *)
(* receives the reduced gradients of that shard, updates the matching part  *)
(* of the fp32 main parameters, writes the new parameters back and gathers  *)
(* the others'.  The parameters are gathered in the memory of the gradients *)
(* ("param_buffers ... share storage"), so one cell is now a gradient, now  *)
(* a parameter, and must be zeroed in between by whoever copied it out.     *)
(* Buckets are numbered by all-gather handle: 1 is the first one the        *)
(* forward pass uses, B the last.                                           *)
(***************************************************************************)
EXTENDS Integers, Sequences, FiniteSets

CONSTANTS
  D,                  \* data-parallel world size
  B,                  \* number of buckets, hence of all-gather handles
  M,                  \* microbatches per iteration
  Iterations,         \* args.train_iters
  Settings            \* the command lines that are tried: whether gather
                      \* (--overlap-param-gather) and reduce
                      \* (--overlap-grad-reduce) are overlapped, and a bound
                      \* on the gradients that overflow in the whole run

ASSUME DistribOptimizerAssumption ==
  /\ {D, B, M, Iterations} \subseteq Nat \ {0}
  /\ Settings \subseteq [gather : BOOLEAN, reduce : BOOLEAN, overflows : Nat]

Ranks   == 1..D
Buckets == 1..B
Shards  == Ranks

(* What one backward pass adds to a gradient: which rank, iteration and     *)
(* microbatch it comes from.                                                *)
Contributions == Ranks \X (1..Iterations) \X (1..M)

NoParams == -1

(* The memory of one shard of one bucket: the gradients accumulated in it,  *)
(* and the version of the parameters stored in it, a version being the      *)
(* number of updates they went through.                                     *)
Cells  == [grads : SUBSET Contributions, params : NoParams..Iterations]
Zeroed == [grads |-> {}, params |-> NoParams]

Collectives == {"reduce", "gather"} \X Buckets \cup {<<"inf", 0>>}

VARIABLES
  args,       \* the command line of this run
  pc,         \* where each rank is in train() / train_step()
  it,         \* iteration
  at,         \* bucket at hand in the current pass or loop
  fwd, bwd,   \* microbatches done forward and backward in this iteration
  storage,    \* bucket.data, seen as gradients and as parameters
  model,      \* version of the parameters the modules compute with
  main,       \* updates made to the rank's own fp32 main shards
  handles,    \* self.all_gather_handles: "flight" or "None"
  copied,     \* self.param_buffer_copied
  success,    \* self.update_successful
  found,      \* self.found_inf
  posted,     \* collectives issued and not completed, oldest first
  overflowed  \* gradient elements that came out inf or nan

progress == <<pc, it, at, fwd, bwd>>
gathers  == <<handles, copied>>
vars == <<args, progress, storage, model, main, gathers, success, found, posted,
          overflowed>>

OverlapParamGather == args.gather
OverlapGradReduce  == args.reduce
MaxOverflows       == args.overflows

Init ==
  /\ args \in Settings
  /\ pc = [r \in Ranks |-> "zero"]
  /\ it = [r \in Ranks |-> 1]
  /\ at = [r \in Ranks |-> 1]
  /\ fwd = [r \in Ranks |-> 0]
  /\ bwd = [r \in Ranks |-> 0]
  /\ storage = [r \in Ranks |-> [b \in Buckets |-> [s \in Shards |-> Zeroed]]]
  /\ model = [r \in Ranks |-> [b \in Buckets |-> [s \in Shards |-> 0]]]
  /\ main = [r \in Ranks |-> 0]
  /\ handles = [r \in Ranks |-> <<>>]
  /\ copied = [r \in Ranks |-> <<>>]
  /\ success = [r \in Ranks |-> FALSE]
  /\ found = [r \in Ranks |-> FALSE]
  /\ posted = [r \in Ranks |-> <<>>]
  /\ overflowed = {}

-----------------------------------------------------------------------------
(* The data-parallel collectives.                                           *)

Post(r, c) == posted' = [posted EXCEPT ![r] = Append(@, c)]

Pending(r, c) == \E i \in 1..Len(posted[r]) : posted[r][i] = c

(* A reduce-scatter leaves in shard r of rank r what all ranks had there;   *)
(* the other shards keep the rank's own gradients.                          *)
ReduceScatter(b) ==
  [r \in Ranks |->
    [storage[r] EXCEPT ![b][r] =
       [grads  |-> UNION {storage[q][b][r].grads : q \in Ranks},
        params |-> CHOOSE v \in {storage[q][b][r].params : q \in Ranks} :
                     \A q \in Ranks : v >= storage[q][b][r].params]]]

(* An all-gather leaves in shard s of every rank what its owner has there.  *)
AllGather(b) ==
  [r \in Ranks |->
    [storage[r] EXCEPT ![b] = [s \in Shards |-> storage[s][b][s]]]]

(* Mutant: found_inf reduced over the default group, which has no other     *)
(* data-parallel rank.                                                      *)
Complete_LocalInf ==
  /\ \A r \in Ranks : posted[r] # <<>>
  /\ \E c \in Collectives :
       /\ \A r \in Ranks : Head(posted[r]) = c
       /\ storage' = CASE c[1] = "reduce" -> ReduceScatter(c[2])
                       [] c[1] = "gather" -> AllGather(c[2])
                       [] c[1] = "inf"    -> storage
  /\ posted' = [r \in Ranks |-> Tail(posted[r])]
  /\ UNCHANGED <<args, progress, model, main, gathers, success, found, overflowed>>

(* The backend matches the oldest outstanding collective of every rank and  *)
(* runs it once all have issued it.  found_inf is reduced over the world.   *)
Complete ==
  /\ \A r \in Ranks : posted[r] # <<>>
  /\ \E c \in Collectives :
       /\ \A r \in Ranks : Head(posted[r]) = c
       /\ storage' = CASE c[1] = "reduce" -> ReduceScatter(c[2])
                       [] c[1] = "gather" -> AllGather(c[2])
                       [] c[1] = "inf"    -> storage
       /\ found' = IF c[1] = "inf"
                     THEN [r \in Ranks |-> \E q \in Ranks : found[q]]
                     ELSE found
  /\ posted' = [r \in Ranks |-> Tail(posted[r])]
  /\ UNCHANGED <<args, progress, model, main, gathers, success, overflowed>>

-----------------------------------------------------------------------------
(* Gathering the parameters.                                                *)

(* _dispatch_gather_model_params with the overlap: nothing is gathered      *)
(* after a skipped update.  The code asserts that handles are dispatched    *)
(* in order.                                                                *)
Dispatch(r, b) ==
  IF success[r]
    THEN /\ b = Len(handles[r]) + 1
         /\ Post(r, <<"gather", b>>)
    ELSE UNCHANGED posted

(* self.all_gather_handles and self.param_buffer_copied after a dispatch.   *)
Dispatched(r, hs) == IF success[r] THEN Append(hs, "flight") ELSE hs
Uncopied(r, cs)   == IF success[r] THEN Append(cs, FALSE) ELSE cs

(* Mutant: zero only after a successful update.                             *)
CopyParams_ZeroIfUpdated(r, b) ==
  IF success[r]
    THEN /\ model' = [model EXCEPT ![r][b] =
                       [s \in Shards |-> storage[r][b][s].params]]
         /\ storage' = [storage EXCEPT ![r][b] = [s \in Shards |-> Zeroed]]
    ELSE UNCHANGED <<model, storage>>

(* _copy_params_from_param_buffer: the parameters go to the model if they   *)
(* were updated; the gradients are zeroed in any case.                      *)
CopyParams(r, b) ==
  /\ model' = IF success[r]
                THEN [model EXCEPT ![r][b] =
                       [s \in Shards |-> storage[r][b][s].params]]
                ELSE model
  /\ storage' = [storage EXCEPT ![r][b] = [s \in Shards |-> Zeroed]]

-----------------------------------------------------------------------------
(* train_step, one action per stretch of code between two waits.            *)

(* zero_grad_buffer(zero_buffer=False) resets the bookkeeping and not the   *)
(* data; optimizer.zero_grad() launches the first all-gather.               *)
ZeroGrad(r) ==
  /\ pc[r] = "zero"
  /\ IF OverlapParamGather
       THEN /\ Dispatch(r, 1)
            /\ handles' = [handles EXCEPT ![r] = Dispatched(r, @)]
            /\ copied' = [copied EXCEPT ![r] = Uncopied(r, @)]
       ELSE UNCHANGED <<posted, gathers>>
  /\ pc' = [pc EXCEPT ![r] = "schedule"]
  /\ fwd' = [fwd EXCEPT ![r] = 0]
  /\ bwd' = [bwd EXCEPT ![r] = 0]
  /\ UNCHANGED <<it, at, storage, model, main, success, found, overflowed>>

(* The forward-backward schedule: any order in which a microbatch goes      *)
(* forward before it goes backward, as the pipeline schedules take it.      *)
StartPass(r) ==
  /\ pc[r] = "schedule"
  /\ \/ /\ fwd[r] < M
        /\ pc' = [pc EXCEPT ![r] = "forward"]
        /\ at' = [at EXCEPT ![r] = 1]
     \/ /\ bwd[r] < fwd[r]
        /\ pc' = [pc EXCEPT ![r] = "backward"]
        /\ at' = [at EXCEPT ![r] = B]
     \/ /\ bwd[r] = M
        /\ pc' = [pc EXCEPT ![r] = "finish"]
        /\ at' = [at EXCEPT ![r] = 1]
  /\ UNCHANGED <<it, fwd, bwd, storage, model, main, gathers, success, found,
                 posted, overflowed>>

(* The forward pass leaves bucket at[r] for the next one, or ends.          *)
LeaveBucket(r) ==
  IF at[r] < B
    THEN /\ at' = [at EXCEPT ![r] = @ + 1]
         /\ UNCHANGED <<pc, fwd>>
    ELSE /\ at' = [at EXCEPT ![r] = 1]
         /\ fwd' = [fwd EXCEPT ![r] = @ + 1]
         /\ pc' = [pc EXCEPT ![r] = "schedule"]

(* A module whose parameters need nothing: the hook is not registered, or   *)
(* no all-gather was dispatched, or it was waited for already.              *)
ComputeForward(r) ==
  /\ pc[r] = "forward"
  /\ \/ ~OverlapParamGather
     \/ at[r] > Len(handles[r])
     \/ at[r] <= Len(handles[r]) /\ handles[r][at[r]] = "None"
  /\ LeaveBucket(r)
  /\ UNCHANGED <<it, bwd, storage, model, main, gathers, success, found, posted,
                 overflowed>>

(* Mutant: the hook does not launch the next all-gather.                    *)
FinishParamSync_NoNext(r) ==
  LET b == at[r] IN
  /\ pc[r] = "forward"
  /\ OverlapParamGather
  /\ b <= Len(handles[r])
  /\ handles[r][b] = "flight"
  /\ ~Pending(r, <<"gather", b>>)
  /\ handles' = [handles EXCEPT ![r][b] = "None"]
  /\ copied' = [copied EXCEPT ![r][b] = TRUE]
  /\ CopyParams(r, b)
  /\ LeaveBucket(r)
  /\ UNCHANGED <<it, bwd, main, success, found, posted, overflowed>>

(* _finish_param_sync_helper from the forward pre-hook: wait, launch the    *)
(* next all-gather, copy the parameters out; then the module computes.      *)
FinishParamSync(r) ==
  LET b == at[r] IN
  /\ pc[r] = "forward"
  /\ OverlapParamGather
  /\ b <= Len(handles[r])
  /\ handles[r][b] = "flight"
  /\ ~Pending(r, <<"gather", b>>)
  /\ IF b < B
       THEN /\ Dispatch(r, b + 1)
            /\ handles' = [handles EXCEPT ![r] =
                            Dispatched(r, [@ EXCEPT ![b] = "None"])]
            /\ copied' = [copied EXCEPT ![r] =
                            Uncopied(r, [@ EXCEPT ![b] = TRUE])]
       ELSE /\ handles' = [handles EXCEPT ![r][b] = "None"]
            /\ copied' = [copied EXCEPT ![r][b] = TRUE]
            /\ UNCHANGED posted
  /\ IF ~copied[r][b] THEN CopyParams(r, b) ELSE UNCHANGED <<storage, model>>
  /\ LeaveBucket(r)
  /\ UNCHANGED <<it, bwd, main, success, found, overflowed>>

(* Mutant: the microbatch counts as the last one once all have gone forward.*)
BackwardBucket_AllForward(r) ==
  LET b == at[r]
      c == <<r, it[r], bwd[r] + 1>>
  IN
  /\ pc[r] = "backward"
  /\ storage' = [storage EXCEPT ![r][b] =
                  [s \in Shards |->
                    [storage[r][b][s] EXCEPT !.grads = @ \cup {c}]]]
  /\ IF OverlapGradReduce /\ fwd[r] = M
       THEN Post(r, <<"reduce", b>>)
       ELSE UNCHANGED posted
  /\ IF b > 1
       THEN at' = [at EXCEPT ![r] = @ - 1] /\ UNCHANGED <<pc, bwd>>
       ELSE /\ bwd' = [bwd EXCEPT ![r] = @ + 1]
            /\ pc' = [pc EXCEPT ![r] = "schedule"]
            /\ UNCHANGED at
  /\ UNCHANGED <<it, fwd, model, main, gathers, success, found, overflowed>>

(* The backward hooks of the parameters of one bucket: main_grad.add_, and  *)
(* on the last microbatch the bucket's reduce-scatter.  A gradient may      *)
(* overflow in some shard.                                                  *)
BackwardBucket(r) ==
  LET b == at[r]
      c == <<r, it[r], bwd[r] + 1>>
  IN
  /\ pc[r] = "backward"
  /\ storage' = [storage EXCEPT ![r][b] =
                  [s \in Shards |->
                    [storage[r][b][s] EXCEPT !.grads = @ \cup {c}]]]
  /\ \/ UNCHANGED overflowed
     \/ /\ Cardinality(overflowed) < MaxOverflows
        /\ \E s \in Shards : overflowed' = overflowed \cup {<<c, b, s>>}
  /\ IF OverlapGradReduce /\ bwd[r] + 1 = M
       THEN Post(r, <<"reduce", b>>)
       ELSE UNCHANGED posted
  /\ IF b > 1
       THEN at' = [at EXCEPT ![r] = @ - 1] /\ UNCHANGED <<pc, bwd>>
       ELSE /\ bwd' = [bwd EXCEPT ![r] = @ + 1]
            /\ pc' = [pc EXCEPT ![r] = "schedule"]
            /\ UNCHANGED at
  /\ UNCHANGED <<it, fwd, model, main, gathers, success, found>>

(* Mutant: step() does not wait for the reduce-scatters.                    *)
FinishGradSync_NoWait(r) ==
  /\ pc[r] = "finish"
  /\ pc' = [pc EXCEPT ![r] = "step"]
  /\ UNCHANGED <<it, at, fwd, bwd, storage, model, main, gathers, success,
                 found, posted, overflowed>>

(* finish_grad_sync, chunk after chunk and bucket after bucket: wait for    *)
(* the reduce-scatter, or issue it now when it is not overlapped.           *)
FinishGradSync(r) ==
  /\ pc[r] = "finish"
  /\ IF OverlapGradReduce
       THEN /\ \A b \in Buckets : ~Pending(r, <<"reduce", b>>)
            /\ pc' = [pc EXCEPT ![r] = "step"]
            /\ UNCHANGED <<at, posted>>
       ELSE /\ posted[r] = <<>>
            /\ IF at[r] <= B
                 THEN /\ Post(r, <<"reduce", at[r]>>)
                      /\ at' = [at EXCEPT ![r] = @ + 1]
                      /\ UNCHANGED pc
                 ELSE /\ pc' = [pc EXCEPT ![r] = "step"]
                      /\ at' = [at EXCEPT ![r] = 1]
                      /\ UNCHANGED posted
  /\ UNCHANGED <<it, fwd, bwd, storage, model, main, gathers, success, found,
                 overflowed>>

(* The start of step(): the gradients of the rank's shards are copied to    *)
(* the main shards, unscaled and searched for inf or nan.                   *)
StepGrads(r, b) == storage[r][b][r]

Unscale(r) ==
  /\ pc[r] = "step"
  /\ found' = [found EXCEPT ![r] =
       \E b \in Buckets : \E c \in StepGrads(r, b).grads :
         <<c, b, r>> \in overflowed]
  /\ Post(r, <<"inf", 0>>)
  /\ pc' = [pc EXCEPT ![r] = "check"]
  /\ UNCHANGED <<it, at, fwd, bwd, storage, model, main, gathers, success,
                 overflowed>>

(* The rest of step(): unless some rank found an inf, the main shards are   *)
(* updated and copied to the parameter buffer; the handles are forgotten.   *)
Step(r) ==
  /\ pc[r] = "check"
  /\ ~Pending(r, <<"inf", 0>>)
  /\ IF found[r]
       THEN UNCHANGED <<main, storage>>
       ELSE /\ main' = [main EXCEPT ![r] = @ + 1]
            /\ storage' = [storage EXCEPT ![r] =
                 [b \in Buckets |-> [storage[r][b] EXCEPT ![r] =
                    [grads |-> {}, params |-> main[r] + 1]]]]
  /\ success' = [success EXCEPT ![r] = ~found[r]]
  /\ handles' = [handles EXCEPT ![r] = <<>>]
  /\ copied' = [copied EXCEPT ![r] = <<>>]
  /\ pc' = [pc EXCEPT ![r] = IF OverlapParamGather THEN "between" ELSE "gather"]
  /\ at' = [at EXCEPT ![r] = 1]
  /\ UNCHANGED <<it, fwd, bwd, model, found, posted, overflowed>>

(* Without the overlap step() ends by gathering every bucket synchronously. *)
GatherParams(r) ==
  /\ pc[r] = "gather"
  /\ success[r]
  /\ at[r] = Len(handles[r]) + 1
  /\ Post(r, <<"gather", at[r]>>)
  /\ handles' = [handles EXCEPT ![r] = Append(@, "None")]
  /\ copied' = [copied EXCEPT ![r] = Append(@, FALSE)]
  /\ pc' = [pc EXCEPT ![r] = "copy"]
  /\ UNCHANGED <<it, at, fwd, bwd, storage, model, main, success, found,
                 overflowed>>

CopyGathered(r) ==
  /\ \/ pc[r] = "copy" /\ posted[r] = <<>>
     \/ pc[r] = "gather" /\ ~success[r]
  /\ CopyParams(r, at[r])
  /\ at' = [at EXCEPT ![r] = IF @ < B THEN @ + 1 ELSE 1]
  /\ pc' = [pc EXCEPT ![r] = IF at[r] < B THEN "gather" ELSE "between"]
  /\ UNCHANGED <<it, fwd, bwd, main, gathers, success, found, posted,
                 overflowed>>

(* Mutant: "while iteration <= train_iters".                                *)
NextIteration_OneMore(r) ==
  /\ pc[r] = "between"
  /\ it' = [it EXCEPT ![r] = @ + 1]
  /\ pc' = [pc EXCEPT ![r] = IF it[r] > Iterations THEN "stopped" ELSE "zero"]
  /\ UNCHANGED <<at, fwd, bwd, storage, model, main, gathers, success, found,
                 posted, overflowed>>

(* Between two iterations train() logs and may save a checkpoint.           *)
NextIteration(r) ==
  /\ pc[r] = "between"
  /\ it' = [it EXCEPT ![r] = @ + 1]
  /\ pc' = [pc EXCEPT ![r] = IF it[r] = Iterations THEN "stopped" ELSE "zero"]
  /\ UNCHANGED <<at, fwd, bwd, storage, model, main, gathers, success, found,
                 posted, overflowed>>

AllStopped == \A r \in Ranks : pc[r] = "stopped"

(* The end of the run, so that TLC takes any other stop for a deadlock.     *)
Finished == AllStopped /\ UNCHANGED vars

RankStep(r) ==
  /\ UNCHANGED args
  /\ \/ ZeroGrad(r)
     \/ StartPass(r)
     \/ ComputeForward(r)
     \/ FinishParamSync(r)
     \/ BackwardBucket(r)
     \/ FinishGradSync(r)
     \/ Unscale(r)
     \/ Step(r)
     \/ GatherParams(r)
     \/ CopyGathered(r)
     \/ NextIteration(r)

Next == (\E r \in Ranks : RankStep(r)) \/ Complete \/ Finished

(* Every rank is a process that keeps running, and a collective all ranks   *)
(* have issued completes.                                                   *)
Fairness == (\A r \in Ranks : WF_vars(RankStep(r))) /\ WF_vars(Complete)

Spec == Init /\ [][Next]_vars /\ Fairness
-----------------------------------------------------------------------------
(* Properties.                                                              *)

(* The type invariant: what each variable may hold.                         *)
TypeOK ==
  /\ pc \in [Ranks -> {"zero", "schedule", "forward", "backward", "finish",
                       "step", "check", "gather", "copy", "between",
                       "stopped"}]
  /\ it \in [Ranks -> 1..Iterations + 1]
  /\ at \in [Ranks -> 1..B + 1]
  /\ fwd \in [Ranks -> 0..M]
  /\ bwd \in [Ranks -> 0..M]
  /\ storage \in [Ranks -> [Buckets -> [Shards -> Cells]]]
  /\ model \in [Ranks -> [Buckets -> [Shards -> NoParams..Iterations]]]
  /\ main \in [Ranks -> 0..Iterations]
  /\ handles \in [Ranks -> Seq({"flight", "None"})]
  /\ copied \in [Ranks -> Seq(BOOLEAN)]
  /\ success \in [Ranks -> BOOLEAN]
  /\ found \in [Ranks -> BOOLEAN]
  /\ posted \in [Ranks -> Seq(Collectives)]
  /\ overflowed \subseteq Contributions \X Buckets \X Shards

(* The parameters of bucket b that rank r computes with went through every  *)
(* update, those of the other ranks' shards included.                       *)
Current(r, b) == \A s \in Shards : model[r][b][s] = main[r]

(* A training forward pass only ever uses parameters that went through all  *)
(* updates made so far: the pre-hook has waited for the right all-gather    *)
(* and copied it before the module runs (_finish_param_sync_helper).        *)
ForwardCurrent ==
  \A r \in Ranks :
    \A b \in Buckets :
      \/ pc[r] = "forward" /\ (b < at[r] \/ fwd[r] > 0)
      \/ pc[r] \in {"schedule", "backward", "finish", "step"} /\ fwd[r] > 0
      => Current(r, b)

(* What step() reads as the gradient of a rank's shard is the contribution  *)
(* of every rank and every microbatch of this iteration and nothing else:   *)
(* no earlier gradient, no parameter left in the shared memory, no missing  *)
(* reduce-scatter (_copy_model_grads_to_main_grads).                        *)
StepGradsFresh ==
  \A r \in Ranks, b \in Buckets :
    pc[r] = "step" =>
      StepGrads(r, b) = [grads  |-> Ranks \X {it[r]} \X (1..M),
                         params |-> NoParams]

(* All ranks issue the same collectives in the same order, whatever each    *)
(* of them computes: one order per rank would hang the job (the comment in  *)
(* get_model_param_buffer_dp_views; the world-wide reduction of found_inf). *)
SameCollectives ==
  \A q, r \in Ranks :
    \A i \in 1..Len(posted[q]) :
      i <= Len(posted[r]) => posted[q][i] = posted[r][i]

(* Every overflowed gradient costs at most one update: the iteration that   *)
(* overflowed is skipped on all ranks, the next ones are not (step()).      *)
OverflowCostsOneUpdate ==
  \A r \in Ranks :
    pc[r] = "stopped" => main[r] >= Iterations - Cardinality(overflowed)

(* Where train() may save a checkpoint the model holds the last update, as  *)
(* in the key steps of docs/source/distrib_optimizer.md: step() ends with   *)
(* the parameters copied "from grad buffer into their respective param      *)
(* tensors".                                                                *)
SavedParamsCurrent ==
  \A r \in Ranks, b \in Buckets : pc[r] = "between" => Current(r, b)

(* All ranks get through all iterations.                                    *)
Termination == <>AllStopped

(* "zeroing of buffer is handled automatically by the optimizer after       *)
(* all-gathers finish" (training.py:405): the first backward pass of an     *)
(* iteration accumulates on zeros.                                          *)
ZeroedBeforeBackward ==
  \A r \in Ranks :
    pc[r] = "backward" /\ bwd[r] = 0 =>
      \A s \in Shards : storage[r][at[r]][s] = Zeroed
=============================================================================
