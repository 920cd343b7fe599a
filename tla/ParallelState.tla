---------------------------- MODULE ParallelState ----------------------------
(***************************************************************************)
(* The process groups of megatron/core/parallel_state.py and what is done   *)
(* over them: the ranks of a world initialize their groups, build their     *)
(* part of the model (training.py, model/transformer.py), accumulate the    *)
(* gradients of one batch, reduce them (finalize_model_grads.py), clip      *)
(* them (optimizer/clip_grads.py) and destroy the groups, after which they  *)
(* may initialize again with other arguments.                               *)
(*                                                                          *)
(* Every rank does the same things in the same order, and a collective      *)
(* ends on all the ranks of its group together: an action is one of those   *)
(* things on all ranks.  A gradient is the bag of the pieces of the batch   *)
(* that were added up in it, and a parameter is known by what it stands     *)
(* for, so that a sum over the wrong ranks shows.                           *)
(***************************************************************************)
EXTENDS Integers, SequencesExt

CONSTANTS Worlds,       \* world sizes
          MaxPipeline,  \* the longest pipeline
          Layers        \* num_layers (of each of the encoder and the decoder of T5)

ASSUME SizesAssumption ==
  Worlds \subseteq Nat \ {0} /\ MaxPipeline \in Nat \ {0} /\ Layers \in Nat \ {0}

None == 0

(* The arguments: world size, --tensor-model-parallel-size T,               *)
(* --pipeline-model-parallel-size P, --context-parallel-size C,             *)
(* --expert-model-parallel-size E, virtual_pipeline_model_parallel_size V,  *)
(* --pipeline-model-parallel-split-rank, --sequence-parallel, and whether   *)
(* the model has both an encoder and a decoder.                             *)
Requests(W) ==
  [world : {W}, T : {1, 2, 4}, P : 1 .. MaxPipeline, C : {1, 2, 4}, E : {1, 2, 4},
   V : {None, 2}, split : {None} \cup 1 .. MaxPipeline - 1,
   sp : BOOLEAN, t5 : BOOLEAN]

(* What validate_args, initialize_model_parallel, get_model and             *)
(* ParallelTransformer refuse.  The scripts of the other models do not      *)
(* slice the sequence over the context-parallel ranks.                      *)
Accepted(a) ==
  LET D == a.world \div (a.T * a.P * a.C)
  IN  /\ a.world % (a.T * a.P * a.C) = 0
      /\ D % a.E = 0
      /\ ~(a.E > 1 /\ a.C > 1)
      /\ a.E > 1 /\ a.T > 1 => a.sp
      /\ a.T = 1 => ~a.sp
      /\ a.V # None => a.P > 2 /\ ~a.t5 /\ Layers % (a.P * a.V) = 0
      /\ ~a.t5 => Layers % a.P = 0
      /\ (a.split # None) = (a.t5 /\ a.P > 1)
      /\ a.split # None => /\ a.split < a.P
                           /\ Layers % a.split = 0
                           /\ Layers % (a.P - a.split) = 0
      /\ a.t5 => a.C = 1

VARIABLES
  args,    \* get_args() of every rank
  phase,   \* the last thing done
  mpu,     \* [rank]: the globals of parallel_state.py
  model,   \* [rank]: the list of model chunks
  grad,    \* [rank][kind]: main_grad of the parameters of a kind
  grad_norm,    \* [rank]: the parameters whose gradients are in the norm
  params_norm   \* [rank]: the parameters in the norm that is logged

norms == <<grad_norm, params_norm>>
vars  == <<args, phase, mpu, model, grad, norms>>

Rank == 0 .. args.world - 1

-----------------------------------------------------------------------------
(* The groups                                                               *)

(* range(start, stop, step) of Python, as a sequence.                       *)
PyRange(start, stop, step) ==
  [n \in 1 .. (stop - start + step - 1) \div step |-> start + (n - 1) * step]

DataSize(a) == a.world \div (a.T * a.P * a.C)
NumPipelines(a) == a.world \div a.P    \* num_pipeline_model_parallel_groups

DataGroups(a) ==
  {PyRange(i * NumPipelines(a) + j, (i + 1) * NumPipelines(a), a.C * a.T) :
     i \in 0 .. a.P - 1, j \in 0 .. a.C * a.T - 1}

(* all_data_parallel_group_ranks_with_cp, by stage and tensor rank.         *)
DataWithCp(a, i, j) ==
  PyRange(i * NumPipelines(a) + j, (i + 1) * NumPipelines(a), a.T)

DataWithCpGroups(a) ==
  {DataWithCp(a, i, j) : i \in 0 .. a.P - 1, j \in 0 .. a.T - 1}

ContextGroups(a) ==
  LET size == a.T * a.C
  IN  {PyRange(i * NumPipelines(a) + j * size + k,
               i * NumPipelines(a) + (j + 1) * size, a.T) :
         i \in 0 .. a.P - 1, j \in 0 .. DataSize(a) - 1, k \in 0 .. a.T - 1}

ModelGroups(a) ==
  {[n \in 1 .. a.P * a.T |->
      DataWithCp(a, (n - 1) \div a.T, (n - 1) % a.T)[i]] : i \in 1 .. DataSize(a) * a.C}

TensorGroups(a) ==
  {PyRange(i * a.T, (i + 1) * a.T, 1) : i \in 0 .. a.world \div a.T - 1}

PipelineGroups(a) ==
  {PyRange(i, a.world, NumPipelines(a)) : i \in 0 .. NumPipelines(a) - 1}

(* The ranks of a pipeline that hold word embeddings, and those that hold   *)
(* position embeddings.                                                     *)
EmbeddingRanks(a, ranks) ==
  IF Len(ranks) = 1 THEN ranks
  ELSE IF a.split # None /\ ranks[a.split + 1] \notin {ranks[1], Last(ranks)}
       THEN <<ranks[1], ranks[a.split + 1], Last(ranks)>>
       ELSE <<ranks[1], Last(ranks)>>

PositionRanks(a, ranks) ==
  IF Len(ranks) = 1 THEN ranks
  ELSE IF a.split # None /\ ranks[a.split + 1] # ranks[1]
       THEN <<ranks[1], ranks[a.split + 1]>>
       ELSE <<ranks[1]>>

ExpertGroups(a) ==
  LET size == a.T * DataSize(a)
  IN  {PyRange(i * size + j * a.T * a.E, i * size + (j + 1) * a.T * a.E, 1) :
         i \in 0 .. a.world \div size - 1, j \in 0 .. DataSize(a) \div a.E - 1}

(* Mutant: the stride leaves the expert-parallel size out.                  *)
DataModuloExpertGroups_Tensor(a) ==
  LET size == a.T * DataSize(a)
  IN  {PyRange(i * size + j, (i + 1) * size, a.T) :
         i \in 0 .. a.world \div size - 1, j \in 0 .. a.T * a.E - 1}

DataModuloExpertGroups(a) ==
  LET size == a.T * DataSize(a)
  IN  {PyRange(i * size + j, (i + 1) * size, a.T * a.E) :
         i \in 0 .. a.world \div size - 1, j \in 0 .. a.T * a.E - 1}

(* "if rank in ranks": the group of a rank among those created.             *)
GroupOf(r, groups) == CHOOSE g \in groups : \E n \in 1 .. Len(g) : g[n] = r

(* initialize_model_parallel asserts that there are no groups yet.          *)
GroupNames == {"dp", "dp_cp", "cp", "mp", "tp", "pp", "exp", "dp_mod_exp"}
NoGroups == [n \in GroupNames |-> <<>>]

(* The lists of ranks every rank makes groups of, by the kind of group.     *)
GroupsOf(a) == [
  dp    |-> DataGroups(a),
  dp_cp |-> DataWithCpGroups(a),
  cp    |-> ContextGroups(a),
  mp    |-> ModelGroups(a),
  tp    |-> TensorGroups(a),
  pp    |-> PipelineGroups(a),
  exp   |-> ExpertGroups(a),
  dp_mod_exp |-> DataModuloExpertGroups(a)]

-----------------------------------------------------------------------------
(* What the getters return to rank r                                        *)

Group(r, n) == mpu[r].groups[n]
RankIn(r, n) == CHOOSE k \in 0 .. Len(Group(r, n)) - 1 : Group(r, n)[k + 1] = r

TensorRank(r)   == RankIn(r, "tp")
PipelineRank(r) == RankIn(r, "pp")
DataRank(r)     == RankIn(r, "dp")
ContextRank(r)  == RankIn(r, "cp")
TensorSize(r)   == Len(Group(r, "tp"))
PipelineSize(r) == Len(Group(r, "pp"))
ExpertRank(r)   == RankIn(r, "exp") \div TensorSize(r)
TensorSrcRank(r) == (r \div TensorSize(r)) * TensorSize(r)

NextRank(r) == mpu[r].pipeline_ranks[((PipelineRank(r) + 1) % PipelineSize(r)) + 1]
PrevRank(r) == mpu[r].pipeline_ranks[((PipelineRank(r) - 1) % PipelineSize(r)) + 1]

IsFirstStage(r, v) == (mpu[r].virtual = None \/ v = 0) /\ PipelineRank(r) = 0
IsLastStage(r, v) ==
  /\ mpu[r].virtual = None \/ v = mpu[r].virtual - 1
  /\ PipelineRank(r) = PipelineSize(r) - 1

BeforeSplit(r) ==
  PipelineSize(r) = 1 \/ mpu[r].split = None \/ PipelineRank(r) < mpu[r].split
AfterSplit(r) ==
  PipelineSize(r) = 1 \/ mpu[r].split = None \/ PipelineRank(r) >= mpu[r].split

-----------------------------------------------------------------------------
(* The model                                                                *)

NumChunks == IF args.V = None THEN 1 ELSE args.V

(* _get_num_layers.                                                         *)
NumLayers(r) ==
  IF PipelineSize(r) = 1 THEN Layers
  ELSE IF ~args.t5 THEN Layers \div args.P
  ELSE IF BeforeSplit(r) THEN Layers \div args.split
  ELSE Layers \div (args.P - args.split)

(* Mutant: the chunks of a rank follow each other.                          *)
ChunkLayers_Contiguous(r, v, stack) ==
  LET n == NumLayers(r) \div NumChunks
  IN  [k \in 1 .. n |-> <<stack, PipelineRank(r) * NumLayers(r) + v * n + k>>]

(* The layer numbers ParallelTransformer gives to chunk v.                  *)
ChunkLayers(r, v, stack) ==
  LET n == IF args.V = None THEN NumLayers(r) ELSE NumLayers(r) \div args.V
      offset ==
        IF args.V # None THEN v * (Layers \div args.V) + PipelineRank(r) * n
        ELSE IF stack = "decoder" /\ args.t5 /\ PipelineSize(r) > 1
        THEN (PipelineRank(r) - args.split) * n
        ELSE PipelineRank(r) * n
  IN  [k \in 1 .. n |-> <<stack, k + offset>>]

(* get_model: pre_process, post_process, add_encoder and add_decoder.       *)
Chunk(r, v) ==
  LET split == args.t5 /\ PipelineSize(r) > 1
  IN  [pre  |-> \/ IsFirstStage(r, v)
                \/ split /\ PipelineRank(r) = args.split,
       post |-> \/ IsLastStage(r, v)
                \/ split /\ PipelineRank(r) = args.split - 1,
       layers |->
         (IF ~args.t5 \/ BeforeSplit(r) THEN ChunkLayers(r, v, "encoder") ELSE <<>>)
         \o (IF args.t5 /\ AfterSplit(r) THEN ChunkLayers(r, v, "decoder") ELSE <<>>)]

AllLayers(r) == FlattenSeq([c \in 1 .. NumChunks |-> model[r][c].layers])

(* The kinds of parameters: the word embeddings (and the head tied to       *)
(* them), the position embeddings, and of all layers of the rank the        *)
(* weights split over the tensor-parallel ranks, those computed on a part   *)
(* of the sequence when it is split (norms, router), and the experts.       *)
Kinds == {"word", "position", "weight", "norm", "expert"}

(* The head of the encoder of T5 is never built: only the decoder's output  *)
(* meets the vocabulary.                                                    *)
HasInput(r) == \E c \in 1 .. NumChunks : model[r][c].pre
HasHead(r)  == IsLastStage(r, NumChunks - 1)

Kept(r) == {k \in Kinds : /\ k = "word" => HasInput(r) \/ HasHead(r)
                          /\ k = "position" => HasInput(r)}

(* What the parameters of a kind on a rank are a copy of.                   *)
Identity(r, k) ==
  CASE k = "word"     -> <<k, TensorRank(r)>>
    [] k = "position" -> <<k>>
    [] k = "weight"   -> <<k, TensorRank(r), AllLayers(r)>>
    [] k = "norm"     -> <<k, AllLayers(r)>>
    [] k = "expert"   -> <<k, TensorRank(r), AllLayers(r), ExpertRank(r)>>

-----------------------------------------------------------------------------
(* The batch                                                                *)

(* A piece of a batch: the data-parallel shard, one of 2C chunks of the     *)
(* sequence, and one of the T parts sequence parallelism makes of it.       *)
Pieces(a) == (0 .. DataSize(a) - 1) \X (0 .. 2 * a.C - 1) \X (0 .. a.T - 1)

(* get_batch: the tensor-parallel source reads the data-parallel shard and  *)
(* broadcasts it; get_batch_on_this_cp_rank keeps two chunks of a sequence  *)
(* that is dimension 1 of its tensors (README: the attention mask is not).  *)
LocalSequence(r) ==
  {DataRank(TensorSrcRank(r))} \X {ContextRank(r), 2 * args.C - ContextRank(r) - 1}
    \X (0 .. args.T - 1)
SequencePart(r) == {x \in LocalSequence(r) : x[3] = TensorRank(r)}
NormInput(r) == IF args.sp THEN SequencePart(r) ELSE LocalSequence(r)

(* SwitchMLP gathers the tokens of the tensor and expert parallel group.    *)
ExpertInput(r) ==
  IF args.sp \/ args.E > 1
  THEN UNION {NormInput(m) : m \in Range(Group(r, "exp"))}
  ELSE LocalSequence(r)

(* The parts of the model a parameter has a gradient from.  T5's decoder is *)
(* taken to get its own ids, as the call in t5_model.py means (README).     *)
InputUses(r) ==
  IF ~HasInput(r) THEN {}
  ELSE IF args.t5 /\ args.P = 1 THEN {"encoder", "decoder"}
  ELSE IF args.t5 /\ PipelineRank(r) > 0 THEN {"decoder"}
  ELSE {"encoder"}
WordUses(r) == InputUses(r) \cup (IF HasHead(r) THEN {"head"} ELSE {})

LocalGrad(r, k) ==
  SetToBag({Identity(r, k)} \X
    (CASE k = "word"     -> WordUses(r) \X LocalSequence(r)
       [] k = "position" -> InputUses(r) \X LocalSequence(r)
       [] k = "weight"   -> {"layer"} \X LocalSequence(r)
       [] k = "norm"     -> {"layer"} \X NormInput(r)
       [] k = "expert"   -> {"layer"} \X ExpertInput(r)))

(* The gradient a copy must have: every use, on every piece, once.          *)
FullGrad(r, k) ==
  LET inputs == IF args.t5 THEN {"encoder", "decoder"} ELSE {"encoder"}
      uses == CASE k = "word" -> inputs \cup {"head"}
                [] k = "position" -> inputs
                [] OTHER -> {"layer"}
  IN  SetToBag({Identity(r, k)} \X (uses \X Pieces(args)))

(* The sum of a sequence of bags.                                           *)
BagSum(bags) ==
  LET sum[n \in 0 .. Len(bags)] == IF n = 0 THEN EmptyBag ELSE sum[n - 1] (+) bags[n]
  IN  sum[Len(bags)]

(* The sum of the gradients of one kind over the ranks of a group.          *)
AllReduce(group, k) == BagSum([n \in 1 .. Len(group) |-> grad[group[n]][k]])

(* A collective on the parameters of the kinds that have a group for it.    *)
Reduced(GroupFor(_, _)) ==
  [r \in Rank |-> [k \in Kept(r) |->
     IF GroupFor(r, k) = <<>> THEN grad[r][k] ELSE AllReduce(GroupFor(r, k), k)]]

-----------------------------------------------------------------------------
(* What the ranks do                                                        *)

Nothing == [r \in Rank |-> <<>>]

Init ==
  /\ \E W \in Worlds :
       args = [world |-> W, T |-> 1, P |-> 1, C |-> 1, E |-> 1, V |-> None,
               split |-> None, sp |-> FALSE, t5 |-> FALSE]
  /\ phase = "start"
  /\ mpu = [r \in Rank |->
              [groups |-> NoGroups, pipeline_ranks |-> <<>>, embedding_ranks |-> <<>>,
               position_ranks |-> <<>>, virtual |-> None, split |-> None]]
  /\ model = Nothing /\ grad = Nothing
  /\ grad_norm = Nothing /\ params_norm = Nothing

(* initialize_model_parallel, which asserts that there are no groups and    *)
(* leaves a split rank it is not given as it was.                           *)
Initialize(a) ==
  /\ phase = "start"
  /\ Accepted(a)
  /\ \A r \in Rank : mpu[r].groups = NoGroups
  /\ args' = a
  /\ phase' = "initialized"
  /\ \E lists \in {GroupsOf(a)} : mpu' = [r \in Rank |->
       LET pipeline == GroupOf(r, lists.pp)
       IN  [groups |-> [n \in GroupNames |-> GroupOf(r, lists[n])],
            pipeline_ranks |-> pipeline,
            embedding_ranks |-> EmbeddingRanks(a, pipeline),
            position_ranks |-> PositionRanks(a, pipeline),
            virtual |-> IF a.V # None THEN a.V ELSE mpu[r].virtual,
            split |-> IF a.split # None THEN a.split ELSE mpu[r].split]]
  /\ UNCHANGED <<model, grad, norms>>

BuildModel ==
  /\ phase = "initialized"
  /\ phase' = "built"
  /\ model' = [r \in Rank |-> [c \in 1 .. NumChunks |-> Chunk(r, c - 1)]]
  /\ UNCHANGED <<args, mpu, grad, norms>>

Backward ==
  /\ phase = "built"
  /\ phase' = "accumulated"
  /\ grad' = [r \in Rank |-> [k \in Kept(r) |-> LocalGrad(r, k)]]
  /\ UNCHANGED <<args, mpu, model, norms>>

(* Mutant: the plain data-parallel group, as before context parallelism.    *)
SyncGroup_NoContext(r, k) ==
  IF k = "expert" /\ args.E > 1 THEN <<>> ELSE Group(r, "dp")

(* finish_grad_sync of the chunks, over the group get_model passes to DDP.  *)
(* The experts of expert parallelism are not in the buffers.                *)
SyncGroup(r, k) ==
  IF k = "expert" /\ args.E > 1 THEN <<>> ELSE Group(r, "dp_cp")

SyncGrads ==
  /\ phase = "accumulated"
  /\ phase' = "synced"
  /\ grad' = Reduced(SyncGroup)
  /\ UNCHANGED <<args, mpu, model, norms>>

(* _allreduce_layernorm_grads.                                              *)
NormGroup(r, k) ==
  IF k = "norm" /\ TensorSize(r) > 1 /\ args.sp THEN Group(r, "tp") ELSE <<>>

LayernormGrads ==
  /\ phase = "synced"
  /\ phase' = "layernorm"
  /\ grad' = Reduced(NormGroup)
  /\ UNCHANGED <<args, mpu, model, norms>>

(* _allreduce_word_embedding_grads, _allreduce_position_embedding_grads.    *)
EmbeddingGroup(r, k) ==
  IF /\ k = "word" /\ PipelineSize(r) > 1
     /\ r \in Range(mpu[r].embedding_ranks)
  THEN mpu[r].embedding_ranks
  ELSE IF /\ k = "position" /\ PipelineSize(r) > 1 /\ args.split # None
          /\ r \in Range(mpu[r].position_ranks)
  THEN mpu[r].position_ranks
  ELSE <<>>

EmbeddingGrads ==
  /\ phase = "layernorm"
  /\ phase' = "embedding"
  /\ grad' = Reduced(EmbeddingGroup)
  /\ UNCHANGED <<args, mpu, model, norms>>

(* _allreduce_expert_grads.                                                 *)
ExpertGroup(r, k) ==
  IF k = "expert" /\ args.E > 1 /\ args.E < Len(Group(r, "dp"))
  THEN Group(r, "dp_mod_exp") ELSE <<>>

ExpertGrads ==
  /\ phase = "embedding"
  /\ phase' = "finalized"
  /\ grad' = Reduced(ExpertGroup)
  /\ UNCHANGED <<args, mpu, model, norms>>

(* The word embeddings of the head and the embeddings of the decoder are    *)
(* marked shared; norms and position embeddings are the same on all         *)
(* tensor-parallel ranks.                                                   *)
IsShared(r, k) ==
  /\ k \in {"word", "position"}
  /\ PipelineRank(r) > 0
IsTensorDuplicate(r, k) == k \in {"norm", "position"} /\ TensorRank(r) # 0

(* get_main_grads_for_grad_norm.                                            *)
ForGradNorm(r) == {k \in Kept(r) : ~IsShared(r, k) /\ ~IsTensorDuplicate(r, k)}

(* The sum over a group of what the ranks put in a norm.                    *)
SumOver(group, Counted(_)) == BagSum([n \in 1 .. Len(group) |-> Counted(group[n])])

(* clip_grad_norm over the model-parallel group.                            *)
ClipGradNorm ==
  /\ phase = "finalized"
  /\ phase' = "clipped"
  /\ grad_norm' = [r \in Rank |->
       SumOver(Group(r, "mp"),
               LAMBDA m : SetToBag({Identity(m, k) : k \in ForGradNorm(m)}))]
  /\ UNCHANGED <<args, mpu, model, grad, params_norm>>

(* Mutant: all ranks put in what they hold, whatever their expert rank.     *)
ForParamsNorm_AllExpertRanks(r) == ForGradNorm(r)

(* calc_params_l2_norm: with expert parallelism, only the first expert rank *)
(* puts in the parameters that all of them hold.                            *)
ForParamsNorm(r) ==
  IF ExpertRank(r) > 0 THEN {"expert"} ELSE ForGradNorm(r)

LogParamsNorm ==
  LET Counted(m) == SetToBag({Identity(m, k) : k \in ForParamsNorm(m)})
      OverExperts(m) == SumOver(Group(m, "exp"), Counted)
  IN  /\ phase = "clipped"
      /\ phase' = "logged"
      /\ params_norm' = [r \in Rank |->
           IF Len(Group(r, "exp")) = TensorSize(r) THEN SumOver(Group(r, "mp"), Counted)
           ELSE SumOver(Group(r, "pp"), OverExperts)]
      /\ UNCHANGED <<args, mpu, model, grad, grad_norm>>

(* destroy_model_parallel, which keeps the lists of ranks and the split     *)
(* rank; the model goes with it.                                            *)
Destroy ==
  /\ phase = "logged"
  /\ phase' = "start"
  /\ mpu' = [r \in Rank |-> [mpu[r] EXCEPT !.groups = NoGroups, !.virtual = None]]
  /\ model' = Nothing /\ grad' = Nothing
  /\ grad_norm' = Nothing /\ params_norm' = Nothing
  /\ UNCHANGED args

Next ==
  \/ \E a \in Requests(args.world) : Initialize(a)
  \/ BuildModel
  \/ Backward
  \/ SyncGrads
  \/ LayernormGrads
  \/ EmbeddingGrads
  \/ ExpertGrads
  \/ ClipGradNorm
  \/ LogParamsNorm
  \/ Destroy

Spec == Init /\ [][Next]_vars

-----------------------------------------------------------------------------
(* Properties                                                               *)

Phases == {"start", "initialized", "built", "accumulated", "synced",
           "layernorm", "embedding", "finalized", "clipped", "logged"}

(* The type invariant: while there are groups, those of each kind divide    *)
(* the ranks of the world among them.                                       *)
TypeOK ==
  /\ args.world \in Worlds /\ args \in Requests(args.world) /\ Accepted(args)
  /\ phase \in Phases
  /\ DOMAIN mpu = Rank
  /\ phase # "start" => \A r \in Rank, n \in GroupNames :
       /\ r \in Range(Group(r, n))
       /\ \A m \in Range(Group(r, n)) : Group(m, n) = Group(r, n)

(* Following the pipeline from any rank of the first stage, chunk after     *)
(* chunk, every layer of the model is met once and in order, the input and  *)
(* the output are where the model has its ends, and all the ranks met read  *)
(* the same part of the batch and hold the same tensor-parallel shard.      *)
PipelinesAligned ==
  phase = "built" => \A first \in {r \in Rank : PipelineRank(r) = 0} :
    LET hops == args.P * NumChunks
        at[n \in 0 .. hops] == IF n = 0 THEN first ELSE NextRank(at[n - 1])
        chunk(n) == model[at[n]][(n \div args.P) + 1]
        decoder == IF args.split = None THEN 0 ELSE args.split
        stacks == IF args.t5 THEN <<"encoder", "decoder">> ELSE <<"encoder">>
    IN  /\ FlattenSeq([n \in 1 .. hops |-> chunk(n - 1).layers]) =
             [k \in 1 .. Layers * Len(stacks) |->
                <<stacks[((k - 1) \div Layers) + 1], ((k - 1) % Layers) + 1>>]
        /\ at[hops] = first
        /\ \A n \in 0 .. hops - 1 :
             /\ PrevRank(at[n + 1]) = at[n]
             /\ chunk(n).pre = (n \in {0, decoder})
             /\ chunk(n).post = (n \in {hops - 1} \cup (IF decoder > 0 THEN {decoder - 1} ELSE {}))
             /\ LocalSequence(at[n]) = LocalSequence(first)
             /\ TensorRank(at[n]) = TensorRank(first)

(* When finalize_model_grads ends, the gradient of every copy of every      *)
(* parameter has the contribution of every use of it in the model on every  *)
(* piece of the global batch, once, and nothing of another parameter: the   *)
(* copies then get the same update.                                         *)
GradsCoverBatch ==
  phase = "finalized" =>
    \A r \in Rank : \A k \in Kept(r) : grad[r][k] = FullGrad(r, k)

EveryParameter ==
  SetToBag(UNION {{Identity(m, k) : k \in Kept(m)} : m \in Rank})

(* The norm of the parameters that is logged, and without expert            *)
(* parallelism that of the gradients, has every parameter of the model      *)
(* once, on every rank, although replicas, shards, shared and tied copies   *)
(* are spread over all the ranks.  With expert parallelism the norm of the  *)
(* gradients leaves out the experts of the other expert ranks (README).     *)
NormCountsOnce ==
  /\ phase = "logged" => \A r \in Rank : params_norm[r] = EveryParameter
  /\ phase = "clipped" /\ args.E = 1 =>
       \A r \in Rank : grad_norm[r] = EveryParameter
=============================================================================
