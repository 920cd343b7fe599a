---------------------------- MODULE TiedEmbedding ---------------------------
(***************************************************************************)
(* finalize_model_grads for a pipelined model whose first and last stages   *)
(* each hold a copy of the word embeddings.  Every rank first takes part in *)
(* the data-parallel reduction of its stage (all-reduce, or reduce-scatter  *)
(* with the distributed optimizer), then all-reduces the gradient of the    *)
(* embedding with the rank of the other stage that has its data-parallel    *)
(* rank, then steps: on the whole gradient, or on its shard.                *)
(*                                                                          *)
(* The two stages lay their buffers out independently (BufferLayout): the   *)
(* embedding is the first parameter of the first stage and the last one of  *)
(* the last stage, the other parameters differ, and only the first stage is *)
(* cut into buckets.                                                        *)
(***************************************************************************)
EXTENDS BufferLayout

CONSTANTS
  D,                       \* data-parallel world size
  MaxNumel,                \* bound: largest number of elements of a parameter
  BucketSize,              \* bucket_size of the first stage
  UseDistributedOptimizer  \* use_distributed_optimizer

Replicas == 1..D
Stages == {"first", "last"}
Ranks  == Stages \X Replicas

(* The buffer of a stage; bucket_size is None on every stage but the first. *)
Config(s) == [dp |-> D, bucket_size |-> IF s = "first" THEN BucketSize ELSE 0,
              distributed |-> UseDistributedOptimizer]

(* shared_embedding_or_output_weight: embedding.word_embeddings is listed   *)
(* first, output_layer last.                                                *)
Embedding(s) == IF s = "first" THEN 1 ELSE N

VARIABLES
  size,    \* elements of every parameter of every stage
  pc,      \* where each rank is in finalize_model_grads
  grad     \* each rank's main_grad of the embedding: per element, how much
           \* of every rank's gradient it contains

vars == <<size, pc, grad>>

Numel    == size["first"][Embedding("first")]
Elements == 0..Numel - 1

ParamIndexMap(s) == Place(Config(s), size[s]).range

(* The elements of the embedding that a rank's collective leaves reduced,   *)
(* which are also those its optimizer updates.                              *)
Owned(s, r) ==
  LET range == ParamIndexMap(s)
      bucket == Buckets(Config(s), range)[range[Embedding(s)][3]]
  IN {e \in Elements :
        range[Embedding(s)][1] + e \in ReducedElements(Config(s), bucket, r)}

Zero == [q \in Ranks |-> 0]

(* A rank's own gradient, D units of it so that it can be averaged.         *)
Own(s, r) == [Zero EXCEPT ![<<s, r>>] = D]

Init ==
  /\ size \in [Stages -> [Params -> 1..MaxNumel]]
  /\ size["first"][Embedding("first")] = size["last"][Embedding("last")]
  /\ pc = [q \in Ranks |-> "backward"]
  /\ grad = [q \in Ranks |-> [e \in Elements |-> Own(q[1], q[2])]]

(* The sum of f[r] over the replicas, f being a function of the ranks each. *)
SumOf(f) == [q \in Ranks |->
  LET partial[r \in 0..D] == IF r = 0 THEN 0 ELSE partial[r - 1] + f[r][q]
  IN partial[D]]

(* model_chunk.finish_grad_sync(), first half: divide and issue.            *)
StartGradSync(s, r) ==
  /\ pc[<<s, r>>] = "backward"
  /\ grad' = [grad EXCEPT ![<<s, r>>] =
       [e \in Elements |-> [q \in Ranks |-> @[e][q] \div D]]]
  /\ pc' = [pc EXCEPT ![<<s, r>>] = "sync"]
  /\ UNCHANGED size

(* The collective of a stage, once all its replicas have issued it.         *)
Reduce(s) ==
  /\ \A r \in Replicas : pc[<<s, r>>] = "sync"
  /\ grad' = [q \in Ranks |->
       [e \in Elements |->
         IF q[1] = s /\ e \in Owned(s, q[2])
           THEN SumOf([r \in Replicas |-> grad[<<s, r>>][e]])
           ELSE grad[q][e]]]
  /\ pc' = [q \in Ranks |-> IF q[1] = s THEN "synced" ELSE pc[q]]
  /\ UNCHANGED size

(* _allreduce_word_embedding_grads: the two ranks of the embedding group    *)
(* that have data-parallel rank r, on the whole of main_grad.               *)
AllReduceWordEmbeddingGrads(r) ==
  /\ \A s \in Stages : pc[<<s, r>>] = "synced"
  /\ grad' = [q \in Ranks |->
       IF q[2] = r
         THEN [e \in Elements |-> [o \in Ranks |->
                 grad[<<"first", r>>][e][o] + grad[<<"last", r>>][e][o]]]
         ELSE grad[q]]
  /\ pc' = [q \in Ranks |-> IF q[2] = r THEN "step" ELSE pc[q]]
  /\ UNCHANGED size

Finished == (\A q \in Ranks : pc[q] = "step") /\ UNCHANGED vars

Next ==
  \/ \E s \in Stages, r \in Replicas : StartGradSync(s, r)
  \/ \E s \in Stages : Reduce(s)
  \/ \E r \in Replicas : AllReduceWordEmbeddingGrads(r)
  \/ Finished

Spec == Init /\ [][Next]_vars

-----------------------------------------------------------------------------
(* "Reduce grads across first and last stages to ensure that                *)
(* word_embeddings parameters stay in sync" (finalize_model_grads.py:17):   *)
(* every element of the embedding is updated, on both stages, with the      *)
(* average over all replicas of both stages' gradients.                     *)
EmbeddingInSync ==
  \A s \in Stages, r \in Replicas :
    pc[<<s, r>>] = "step" =>
      \A e \in Owned(s, r) : grad[<<s, r>>][e] = [q \in Ranks |-> 1]

=============================================================================
