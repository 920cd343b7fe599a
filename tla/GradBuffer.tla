----------------------------- MODULE GradBuffer -----------------------------
(***************************************************************************)
(* Distributed data parallelism: megatron/core/distributed.  D replicas run *)
(* M microbatches each (forward_backward_no_pipelining), the backward hook  *)
(* of every parameter adds its gradient to main_grad, a view of one         *)
(* contiguous buffer, and the buffer is averaged over the replicas bucket   *)
(* by bucket, either as soon as the last microbatch has produced a whole    *)
(* bucket (--overlap-grad-reduce) or at the end.                            *)
(*                                                                          *)
(* The layout of the buffer is BufferLayout's, for all sizes of the         *)
(* parameters up to a bound, and the gradients are tracked element by       *)
(* element: an element holds, for each replica, how much of the gradients   *)
(* of that replica's microbatches it contains.                              *)
(***************************************************************************)
EXTENDS OptimizerShards, FiniteSets

CONSTANTS
  D,           \* data-parallel world size
  MaxNumel,    \* bound: largest number of elements of a parameter
  M,           \* microbatches per iteration
  Iterations,  \* bound: training iterations
  Settings,    \* what the command line may choose
  Restarts     \* replicas of the jobs that load the checkpoint

(* Without the overlap there is one bucket.                                 *)
ASSUME GradBufferAssumption ==
  /\ {D, MaxNumel, M, Iterations} \subseteq Nat \ {0}
  /\ Restarts \subseteq Nat \ {0}
  /\ Settings \subseteq [overlap : BOOLEAN, distributed : BOOLEAN, bucket_size : Nat]
  /\ \A s \in Settings : ~s.overlap => s.bucket_size = 0

Replicas == 1..D

-----------------------------------------------------------------------------
VARIABLES
  args,        \* the command line: --overlap-grad-reduce,
               \* --use-distributed-optimizer and the bucket size
  size,        \* elements of every parameter
  range,       \* param_index_map: first element, end and bucket of each
  buckets,     \* self.buckets
  order,       \* order in which backward produces the gradients
  pc,          \* where each replica is in train_step
  it,          \* iteration
  mb,          \* microbatches done
  hook,        \* parameter hooks run in this backward pass
  lastMb,      \* grad_buffer.is_last_microbatch
  ready,       \* bucket.params_with_grad
  issued,      \* bucket.communication_issued
  data,        \* grad_buffer.data
  posted,      \* reductions issued and not completed, oldest first
  model,       \* the parameters of the model, per replica
  main,        \* the fp32 shards of the distributed optimizer, per replica
  file,        \* distrib_optim.pt
  restart      \* the shards that a later job has loaded from it

layout   == <<args, size, range, buckets, order>>
progress == <<it, mb, hook>>
flags    == <<ready, issued>>
params   == <<model, main>>
storage  == <<file, restart>>
vars == <<layout, pc, progress, lastMb, flags, data, posted, params, storage>>

OverlapGradReduce       == args.overlap
UseDistributedOptimizer == args.distributed

(* The buffer of a job with d replicas.                                     *)
Config(d) == [dp |-> d, bucket_size |-> args.bucket_size, distributed |-> args.distributed]

BucketIds == DOMAIN buckets
Bucket(b) == BucketElements(buckets[b])

(* The elements of main_grad of parameter p. *)
MainGrad(p) == ParamElements(range, p)
BucketOf(p) == range[p][3]

Shard(b, r) == ShardElements(D, buckets[b], r)

(* One microbatch's gradient: divided by D, a whole number is left.         *)
Unit == D

Zero == [q \in Replicas |-> 0]

(* Element k of parameter p with the gradients it was updated with.         *)
Element(p, k, grads) == [id |-> <<p, k>>, grads |-> grads]
Updated(element, grad) ==
  [id |-> element.id, grads |-> Append(element.grads, grad)]

Layout == [dp |-> D, distributed |-> UseDistributedOptimizer, range |-> range, buckets |-> buckets]
NoFile == <<>>

(* self.numel *)
Elements == UNION {Bucket(b) : b \in BucketIds}

(* Autograd runs the hooks in an order of its own, "roughly" the reverse of *)
(* the registration, the same on all replicas.                              *)
Orders ==
  {o \in [Params -> Params] : \A i, j \in Params : o[i] = o[j] => i = j}

Init ==
  /\ args \in Settings
  /\ size \in [Params -> 1..MaxNumel]
  /\ range = Place(Config(D), size).range
  /\ buckets = Buckets(Config(D), range)
  /\ order \in Orders
  /\ pc = [r \in Replicas |-> "zero"]
  /\ it = [r \in Replicas |-> 1]
  /\ mb = [r \in Replicas |-> 0]
  /\ hook = [r \in Replicas |-> 0]
  /\ lastMb = [r \in Replicas |-> TRUE]
  /\ ready = [r \in Replicas |-> [b \in BucketIds |-> {}]]
  /\ issued = [r \in Replicas |-> [b \in BucketIds |-> FALSE]]
  /\ data = [r \in Replicas |-> [e \in Elements |-> Zero]]
  /\ posted = [r \in Replicas |-> <<>>]
  /\ model = [r \in Replicas |->
       [p \in Params |-> [k \in 1..size[p] |-> Element(p, k, <<>>)]]]
  /\ main = [r \in Replicas |->
       IF UseDistributedOptimizer THEN Shards(Layout, r, model[r]) ELSE <<>>]
  /\ file = NoFile
  /\ restart = NoFile

-----------------------------------------------------------------------------
(* bucket.data /= data_parallel_world_size *)
Divided(content, b) ==
  [e \in Elements |->
    IF e \in Bucket(b)
      THEN [q \in Replicas |-> content[e][q] \div D]
      ELSE content[e]]

(* Bucket.start_grad_sync on the buffer's content: the assertion, the       *)
(* division and the collective.                                             *)
StartGradSync(r, b, content) ==
  /\ ~issued[r][b]
  /\ data' = [data EXCEPT ![r] = Divided(content, b)]
  /\ issued' = [issued EXCEPT ![r][b] = TRUE]
  /\ posted' = [posted EXCEPT ![r] = Append(@, b)]

(* param.main_grad.add_(param.grad.data) *)
Accumulated(r, p) ==
  [e \in Elements |->
    IF e \in MainGrad(p)
      THEN [data[r][e] EXCEPT ![r] = @ + Unit]
      ELSE data[r][e]]

(* The backend matches the oldest reduction of every replica and runs it    *)
(* once all have issued it: a reduce-scatter leaves the sum in the          *)
(* replica's shard, an all-reduce in the whole bucket.                      *)
Sum(e) == [q \in Replicas |->
  LET partial[r \in 0..D] ==
        IF r = 0 THEN 0 ELSE partial[r - 1] + data[r][e][q]
  IN partial[D]]

Reduced(r, b) == ReducedElements(Config(D), buckets[b], r)

Complete ==
  /\ \A r \in Replicas : posted[r] # <<>>
  /\ \E b \in BucketIds :
       /\ \A r \in Replicas : Head(posted[r]) = b
       /\ data' = [r \in Replicas |->
            [e \in Elements |->
              IF e \in Reduced(r, b) THEN Sum(e) ELSE data[r][e]]]
  /\ posted' = [r \in Replicas |-> Tail(posted[r])]
  /\ UNCHANGED <<layout, pc, progress, lastMb, flags, params, storage>>

-----------------------------------------------------------------------------
Zeroed == [e \in Elements |-> Zero]

(* Mutant: every microbatch counts as the last one.                         *)
ZeroGradBuffer_AlwaysSync(r) ==
  /\ pc[r] = "zero"
  /\ data' = IF UseDistributedOptimizer THEN data ELSE [data EXCEPT ![r] = Zeroed]
  /\ ready' = [ready EXCEPT ![r] = [b \in BucketIds |-> {}]]
  /\ issued' = [issued EXCEPT ![r] = [b \in BucketIds |-> FALSE]]
  /\ lastMb' = [lastMb EXCEPT ![r] = TRUE]
  /\ pc' = [pc EXCEPT ![r] = "backward"]
  /\ mb' = [mb EXCEPT ![r] = 0]
  /\ hook' = [hook EXCEPT ![r] = 0]
  /\ UNCHANGED <<layout, it, posted, params, storage>>

(* zero_grad_buffer at the start of train_step (the distributed optimizer   *)
(* has zeroed the data itself), then the schedule: it enters no_sync, if    *)
(* there is one, for all microbatches but the last.                         *)
ZeroGradBuffer(r) ==
  /\ pc[r] = "zero"
  /\ data' = IF UseDistributedOptimizer THEN data ELSE [data EXCEPT ![r] = Zeroed]
  /\ ready' = [ready EXCEPT ![r] = [b \in BucketIds |-> {}]]
  /\ issued' = [issued EXCEPT ![r] = [b \in BucketIds |-> FALSE]]
  /\ lastMb' = [lastMb EXCEPT ![r] = ~OverlapGradReduce \/ M = 1]
  /\ pc' = [pc EXCEPT ![r] = "backward"]
  /\ mb' = [mb EXCEPT ![r] = 0]
  /\ hook' = [hook EXCEPT ![r] = 0]
  /\ UNCHANGED <<layout, it, posted, params, storage>>

(* What follows the last hook of a backward pass: the next microbatch,      *)
(* outside no_sync if it is the last one, or finalize_model_grads.          *)
AfterHook(r) ==
  IF hook[r] + 1 < N
    THEN /\ hook' = [hook EXCEPT ![r] = @ + 1]
         /\ UNCHANGED <<pc, mb, lastMb>>
    ELSE /\ hook' = [hook EXCEPT ![r] = 0]
         /\ mb' = [mb EXCEPT ![r] = @ + 1]
         /\ lastMb' = [lastMb EXCEPT ![r] = @ \/ mb[r] + 1 = M - 1]
         /\ pc' = [pc EXCEPT ![r] = IF mb[r] + 1 = M THEN "finish" ELSE @]

NextParam(r) == order[hook[r] + 1]

(* The backward hook of a parameter: accumulate, and on the last microbatch *)
(* register_grad_ready, which reduces a bucket that is complete.            *)
ParamHook(r) ==
  LET p == NextParam(r)
      b == BucketOf(p)
      registers == OverlapGradReduce /\ lastMb[r]
      complete == ready[r][b] \cup {p} = buckets[b].params
  IN
  /\ pc[r] = "backward"
  /\ registers => p \notin ready[r][b]
  /\ ready' = IF registers THEN [ready EXCEPT ![r][b] = @ \cup {p}] ELSE ready
  /\ IF registers /\ complete
       THEN StartGradSync(r, b, Accumulated(r, p))
       ELSE /\ data' = [data EXCEPT ![r] = Accumulated(r, p)]
            /\ UNCHANGED <<issued, posted>>
  /\ AfterHook(r)
  /\ UNCHANGED <<layout, it, params, storage>>

(* finish_grad_sync: with the overlap every bucket was issued (asserted)    *)
(* and is waited for; without, every bucket is reduced here in turn.        *)
FinishGradSync(r) ==
  /\ pc[r] = "finish"
  /\ posted[r] = <<>>
  /\ IF OverlapGradReduce
       THEN /\ \A b \in BucketIds : issued[r][b]
            /\ pc' = [pc EXCEPT ![r] = "step"]
            /\ UNCHANGED <<data, issued, posted>>
       ELSE \/ /\ \E b \in BucketIds :
                    /\ ~issued[r][b]
                    /\ \A a \in 1..b - 1 : issued[r][a]
                    /\ StartGradSync(r, b, data[r])
               /\ UNCHANGED pc
            \/ /\ \A b \in BucketIds : issued[r][b]
               /\ pc' = [pc EXCEPT ![r] = "step"]
               /\ UNCHANGED <<data, issued, posted>>
  /\ UNCHANGED <<layout, progress, lastMb, ready, params, storage>>

(* Mutant: one iteration too many.                                          *)
AfterStep_OneMore(r) == IF it[r] > Iterations THEN "save" ELSE "zero"

(* What follows an iteration: the next one, or the checkpoint at the end of *)
(* training.                                                                *)
AfterStep(r) == IF it[r] = Iterations THEN "save" ELSE "zero"

(* The gradients the optimizer reads, as main_grad of the parameters.       *)
Grads(r) ==
  [p \in Params |-> [k \in 1..size[p] |-> data[r][range[p][1] + k - 1]]]

(* The optimizer without shards: every replica updates all parameters.      *)
OptimizerStep(r) ==
  /\ pc[r] = "step" /\ ~UseDistributedOptimizer
  /\ model' = [model EXCEPT ![r] =
       [p \in Params |-> [k \in 1..size[p] |-> Updated(model[r][p][k], Grads(r)[p][k])]]]
  /\ it' = [it EXCEPT ![r] = @ + 1]
  /\ pc' = [pc EXCEPT ![r] = AfterStep(r)]
  /\ UNCHANGED <<layout, mb, hook, lastMb, flags, data, posted, main, storage>>

(* DistributedOptimizer.step up to the all-gather: the gradients are copied *)
(* to the shards, the shards are updated.                                   *)
ShardStep(r) ==
  LET grad == Shards(Layout, r, Grads(r)) IN
  /\ pc[r] = "step" /\ UseDistributedOptimizer
  /\ main' = [main EXCEPT ![r] =
       [g \in ParamGroups |-> [i \in DOMAIN main[r][g] |->
         [k \in DOMAIN main[r][g][i] |-> Updated(main[r][g][i][k], grad[g][i][k])]]]]
  /\ pc' = [pc EXCEPT ![r] = "gather"]
  /\ UNCHANGED <<layout, progress, lastMb, flags, data, posted, model, storage>>

(* The all-gathers of all buckets, which no replica leaves before the       *)
(* others have entered the last one, the copies to the parameters, and the  *)
(* zeroing of the buffers, whose storage the gathers use.                   *)
GatherParams ==
  /\ \A r \in Replicas : pc[r] = "gather"
  /\ model' = [r \in Replicas |-> ModelParams(Layout, main)]
  /\ it' = [r \in Replicas |-> it[r] + 1]
  /\ data' = [r \in Replicas |-> Zeroed]
  /\ pc' = [r \in Replicas |-> AfterStep(r)]
  /\ UNCHANGED <<layout, mb, hook, lastMb, flags, posted, main, storage>>

(* The checkpoint at the end, with the optimizer's file if it is sharded.   *)
Save ==
  /\ \A r \in Replicas : pc[r] = "save"
  /\ pc' = [r \in Replicas |-> "stopped"]
  /\ file' = IF UseDistributedOptimizer
             THEN [per_bucket_numel |-> PerBucketNumel(Layout), state |-> SavedState(Layout, main)]
             ELSE NoFile
  /\ UNCHANGED <<layout, progress, lastMb, flags, data, posted, params, restart>>

(* A later job of n replicas loads the file; it fails unless its buckets    *)
(* have the sizes of those of the file.                                     *)
Restart(n) ==
  LET L == LayoutOf(Config(n), size) IN
  /\ file # NoFile /\ restart = NoFile
  /\ PerBucketNumel(L) = file.per_bucket_numel
  /\ restart' = [r \in 1..n |-> LoadedShards(L, r, file.state)]
  /\ UNCHANGED <<layout, pc, progress, lastMb, flags, data, posted, params, file>>

Finished == (\A r \in Replicas : pc[r] = "stopped") /\ UNCHANGED vars

ReplicaStep(r) ==
  \/ ZeroGradBuffer(r)
  \/ ParamHook(r)
  \/ FinishGradSync(r)
  \/ OptimizerStep(r)
  \/ ShardStep(r)

Next ==
  \/ \E r \in Replicas : ReplicaStep(r)
  \/ Complete
  \/ GatherParams
  \/ Save
  \/ \E n \in Restarts : Restart(n)
  \/ Finished

Spec == Init /\ [][Next]_vars

-----------------------------------------------------------------------------
(* Properties.                                                              *)

(* The type invariant: what each variable may hold.                         *)
TypeOK ==
  /\ args \in Settings
  /\ size \in [Params -> 1..MaxNumel]
  /\ range \in [Params -> Nat \X Nat \X Nat]
  /\ \A b \in BucketIds :
       buckets[b] \in [first : Nat, end : Nat, params : SUBSET Params]
  /\ order \in Orders
  /\ pc \in [Replicas -> {"zero", "backward", "finish", "step", "gather", "save", "stopped"}]
  /\ it \in [Replicas -> 1..Iterations + 1]
  /\ mb \in [Replicas -> 0..M]
  /\ hook \in [Replicas -> 0..N - 1]
  /\ lastMb \in [Replicas -> BOOLEAN]
  /\ ready \in [Replicas -> [BucketIds -> SUBSET Params]]
  /\ issued \in [Replicas -> [BucketIds -> BOOLEAN]]
  /\ data \in [Replicas -> [Elements -> [Replicas -> Nat]]]
  /\ posted \in [Replicas -> Seq(BucketIds)]
  /\ \A r \in Replicas, p \in Params : Len(model[r][p]) = size[p]
  /\ restart # NoFile => file # NoFile /\ Len(restart) \in Restarts

(* Both loops of GradBuffer.__init__ agree on every bucket (the assertion   *)
(* of _set_bucket); every parameter lies in its bucket and shares no        *)
(* element with another; with the distributed optimizer every bucket is cut *)
(* in D equal shards; all but the last formed have two parameters or more.  *)
LayoutSound ==
  /\ BucketIds = 1..Len(BucketIndices(Config(D), size))
  /\ \A b \in BucketIds :
       /\ BucketIndices(Config(D), size)[b] = <<buckets[b].first, buckets[b].end>>
       /\ UseDistributedOptimizer =>
            /\ buckets[b].end % D = 0
            /\ Bucket(b) = UNION {Shard(b, r) : r \in Replicas}
       /\ b + 1 \in BucketIds => Cardinality(buckets[b].params) > 1
  /\ \A p \in Params :
       /\ Cardinality(MainGrad(p)) = size[p]
       /\ MainGrad(p) \subseteq Bucket(BucketOf(p))
       /\ \A q \in Params \ {p} : MainGrad(p) \cap MainGrad(q) = {}

(* Every element of every parameter has been updated, on every replica, with *)
(* the average over all replicas of all their microbatches, each counted     *)
(* once, of all iterations, and with no other element's; with the            *)
(* distributed optimizer through shards that cut across parameters.  A job   *)
(* that loads the checkpoint has the same, with as many replicas or others.  *)
Trained(n) ==
  LET average == [q \in Replicas |-> (M * Unit) \div D]
  IN [p \in Params |-> [k \in 1..size[p] |-> Element(p, k, [i \in 1..n |-> average])]]

UpdatedExactly ==
  /\ \A r \in Replicas : pc[r] # "gather" => model[r] = Trained(it[r] - 1)
  /\ restart # NoFile =>
       LET n == Len(restart)
           L == LayoutOf(Config(n), size)
       IN /\ restart = [r \in 1..n |-> Shards(L, r, Trained(Iterations))]
          /\ ModelParams(L, restart) = Trained(Iterations)

(* No hook writes to a bucket whose reduction has been issued: the last     *)
(* gradient of the bucket is in before the collective starts reading.       *)
NoWriteInFlight ==
  \A r \in Replicas :
    pc[r] = "backward" => ~issued[r][BucketOf(NextParam(r))]
=============================================================================
