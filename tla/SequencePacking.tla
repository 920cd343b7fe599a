---------------------------- MODULE SequencePacking ----------------------------
(***************************************************************************)
(* Training with --sequence-packing: the padding of a micro-batch is taken  *)
(* out (model/gpt_model.py), the tokens that are left go as one long        *)
(* sequence through the layers, split over the tensor-parallel ranks with   *)
(* --sequence-parallel (core/tensor_parallel), attention keeps to the       *)
(* sequences by their cumulative lengths (model/transformer.py), and the    *)
(* padding is put back before the head.  Every pipeline stage reads the     *)
(* data and packs by itself; the lengths differ from micro-batch to         *)
(* micro-batch, and so does the shape of what stages send each other.       *)
(*                                                                          *)
(* An action is the forward or the backward step of one micro-batch on all  *)
(* tensor-parallel ranks of a stage, which its collectives keep together.   *)
(* A hidden state is the set of tokens it depends on.  A gradient is the    *)
(* bag of the routes by which it came from losses: at every layer a route   *)
(* goes along the residual or through the part of the layer that one rank   *)
(* has, to a token, and at the head through the part of the vocabulary of   *)
(* one rank.  A sum over the wrong ranks, tokens or sequences shows.        *)
(***************************************************************************)
EXTENDS Integers, SequencesExt

CONSTANTS TensorSizes, PipelineSizes,
          Rows,          \* micro_batch_size
          SeqLen,        \* seq_length
          MicroBatches   \* of a batch

ASSUME SizesAssumption ==
  /\ TensorSizes \subseteq Nat \ {0} /\ PipelineSizes \subseteq Nat \ {0}
  /\ Rows \in Nat \ {0} /\ SeqLen \in Nat \ {0} /\ MicroBatches \in Nat \ {0}

Pad == <<>>    \* a token of the padding to a multiple of the ranks
Skip == -1     \* the residual connection

VARIABLES
  setting,            \* tensor and pipeline sizes, --sequence-parallel
  batch,              \* [micro-batch]: the tokens that are not pad, per row
  sequence_parallel,  \* [stage]: get_args().sequence_parallel now
  fwd, bwd,           \* [stage]: steps run forward and backward
  sent_next,          \* [stage]: outputs not received yet by the next stage
  sent_prev,          \* [stage]: gradients not received by the previous one
  logits,             \* of the last micro-batch run forward
  word_grad           \* [rank]: the embedded tokens' gradients of the last
                      \* micro-batch run backward

vars == <<setting, batch, sequence_parallel, fwd, bwd, sent_next, sent_prev, logits, word_grad>>

T == setting.T
P == setting.P
Sp == setting.sp     \* what the modules took from the arguments when they were built
TensorRank == 0 .. T - 1
Stage == 0 .. P - 1

-----------------------------------------------------------------------------
(* Packing                                                                  *)

(* The rows GPTJsonDataset gives: no document is empty, longer ones are     *)
(* cut, shorter ones filled up with pad, which the attention mask tells.    *)
Masks == [1 .. Rows -> 1 .. SeqLen]

(* unpad_input: the places of the tokens in the batch, one row after the    *)
(* other, and where each row ends.                                          *)
Indices(lens) == FlattenSeq([b \in 1 .. Rows |-> [q \in 1 .. lens[b] |-> <<b, q>>]])
CuSeqlens(lens) ==
  LET end[b \in 0 .. Rows] == IF b = 0 THEN 0 ELSE end[b - 1] + lens[b] IN end
TotalNnz(lens) == CuSeqlens(lens)[Rows]

(* pad_to_sequence_parallel.                                                *)
PaddedLength(lens) ==
  LET rest == TotalNnz(lens) % T
  IN  IF ~Sp \/ rest = 0 THEN TotalNnz(lens) ELSE TotalNnz(lens) + T - rest
PaddedTo(rows, n, fill) == [i \in 1 .. n |-> IF i <= Len(rows) THEN rows[i] ELSE fill]

-----------------------------------------------------------------------------
(* The collectives over the tensor-parallel ranks (mappings.py).  A tensor  *)
(* x has a sequence of rows x[t] on every rank t.                           *)

Split(rows, t) ==
  LET n == Len(rows) \div T IN SubSeq(rows, t * n + 1, (t + 1) * n)
Gather(x) == FlattenSeq([n \in 1 .. T |-> x[n - 1]])

(* What a column-parallel layer works on, and what a row-parallel one       *)
(* leaves each rank of the sum.                                             *)
GatherIfSp(x, t) == IF Sp THEN Gather(x) ELSE x[t]
SplitIfSp(rows, t) == IF Sp THEN Split(rows, t) ELSE rows

(* The sum of a sequence of bags, and over the ranks.                       *)
SumOf(bags) ==
  FoldFunction(LAMBDA bag, sum : bag (+) sum, EmptyBag, bags)
AllReduce(x) == [i \in DOMAIN x[0] |-> SumOf([n \in 1 .. T |-> x[n - 1][i]])]

-----------------------------------------------------------------------------
(* Forward                                                                  *)

(* Whether row i attends to row j: causally, within its sequence.           *)
Attends(lens, i, j) ==
  j <= i /\ \A b \in 1 .. Rows : (i <= CuSeqlens(lens)[b]) = (j <= CuSeqlens(lens)[b])

(* Mutant: the causal mask over the packed sequence.                        *)
AttendedBy_Packed(lens, i) == 1 .. i

(* flash_attn_unpadded_func with the cumulative lengths.                    *)
AttendedBy(lens, i) == {j \in 1 .. TotalNnz(lens) : Attends(lens, i, j)}

(* The rows that attention gets.                                            *)
Packed(lens) == 1 .. TotalNnz(lens)

Embedded(lens) ==
  LET ids == PaddedTo(Indices(lens), PaddedLength(lens), Pad)
      rows == [i \in DOMAIN ids |-> IF ids[i] = Pad THEN {} ELSE {ids[i]}]
  IN  [t \in TensorRank |-> SplitIfSp(rows, t)]

(* A layer: every rank computes its heads for all rows, of which attention  *)
(* gets those of the packed tokens, and the output is summed over the       *)
(* ranks and added to the residual.                                         *)
Layer(lens, x) ==
  LET heads == [t \in TensorRank |-> LET in == GatherIfSp(x, t) IN
        [i \in DOMAIN in |->
           IF i \in Packed(lens) THEN UNION {in[j] : j \in AttendedBy(lens, i)} ELSE {}]]
      out == [i \in DOMAIN heads[0] |-> UNION {heads[t][i] : t \in TensorRank}]
  IN  [t \in TensorRank |-> LET rows == SplitIfSp(out, t) IN
         [i \in DOMAIN x[t] |-> x[t][i] \cup rows[i]]]

(* parallel_lm_logits gathers again if the arguments say so.                *)
Logits(flag, x, t) == IF flag THEN Gather(x) ELSE x[t]

(* The packed rows of the model's output put back in their places, as       *)
(* [sequence][batch], zeros elsewhere.                                      *)
Unpacked(lens, x) ==
  [t \in TensorRank |->
     LET rows == SubSeq(GatherIfSp(x, t), 1, TotalNnz(lens))
     IN  [q \in 1 .. SeqLen |-> [b \in 1 .. Rows |->
            IF q <= lens[b] THEN rows[CuSeqlens(lens)[b - 1] + q] ELSE {}]]]

-----------------------------------------------------------------------------
(* Backward                                                                 *)

(* The routes of a bag, one step longer.                                    *)
Through(step, bag) ==
  [route \in {<<step>> \o r : r \in DOMAIN bag} |-> bag[Tail(route)]]

(* Mutant: the head's gradient is not summed over the parts.                *)
LogitsBackward_OwnPart(lens, t) ==
  [i \in 1 .. TotalNnz(lens) |-> SetToBag({<<<<t, Indices(lens)[i]>>>>})]

(* Every rank has the gradient of its part of the vocabulary, and the       *)
(* backward of copy_to_tensor_model_parallel_region sums them, for all      *)
(* ranks.  The places of the padding are dropped with pad_input.  The       *)
(* gather's backward then reduce-scatters.                                  *)
LogitsBackward(lens, t) ==
  [i \in 1 .. TotalNnz(lens) |->
     SetToBag({<<<<v, Indices(lens)[i]>>>> : v \in TensorRank})]

HeadBackward(lens) ==
  LET rows == [t \in TensorRank |->
                 PaddedTo(LogitsBackward(lens, t), PaddedLength(lens), EmptyBag)]
      sum  == AllReduce(rows)
  IN  [t \in TensorRank |-> IF Sp THEN Split(sum, t) ELSE rows[t]]

LayerBackward(lens, g) ==
  LET token == PaddedTo(Indices(lens), PaddedLength(lens), Pad)
      heads == [t \in TensorRank |-> LET out == GatherIfSp(g, t) IN
        [j \in DOMAIN out |->
           IF j \in Packed(lens)
           THEN SumOf([i \in Packed(lens) |->
                         IF j \in AttendedBy(lens, i) THEN Through(<<t, token[i]>>, out[i])
                         ELSE EmptyBag])
           ELSE EmptyBag]]
      in == AllReduce(heads)
  IN  [t \in TensorRank |->
         LET rows == SplitIfSp(in, t)
             own  == SplitIfSp(token, t)
         IN  [j \in DOMAIN g[t] |-> Through(<<Skip, own[j]>>, g[t][j]) (+) rows[j]]]

EmbeddingBackward(g) == [t \in TensorRank |-> GatherIfSp(g, t)]

-----------------------------------------------------------------------------
(* The steps                                                                *)

Init ==
  /\ \E size \in TensorSizes, stages \in PipelineSizes, sp \in BOOLEAN :
       /\ size = 1 => ~sp
       /\ setting = [T |-> size, P |-> stages, sp |-> sp]
  /\ batch \in [1 .. MicroBatches -> Masks]
  /\ sequence_parallel = [p \in Stage |-> Sp]
  /\ fwd = [p \in Stage |-> 0]
  /\ bwd = [p \in Stage |-> 0]
  /\ sent_next = [p \in Stage |-> <<>>]
  /\ sent_prev = [p \in Stage |-> <<>>]
  /\ logits = <<>>
  /\ word_grad = <<>>

(* The rows of a tensor received from a neighbour: the shapes are sent      *)
(* first, so that the receiver has room for what is sent.                   *)
Received(queue) == Head(queue)

(* The new queues when stage p has sent a tensor and the stage it received  *)
(* from is q.                                                               *)
Passed(queues, p, tensor, q) ==
  [s \in Stage |-> IF s = q THEN Tail(queues[s])
                   ELSE IF s = p THEN Append(queues[s], tensor) ELSE queues[s]]

(* Mutant: the head is left to gather the sequence.                         *)
PostProcess_KeepArgs(lens, x) ==
  /\ UNCHANGED sequence_parallel
  /\ logits' = Logits(sequence_parallel[P - 1], Unpacked(lens, x), 0)

(* The end of GPTModel.forward on the last stage, which turns sequence      *)
(* parallelism off in the arguments, for good.                              *)
PostProcess(lens, x) ==
  /\ sequence_parallel' = [sequence_parallel EXCEPT ![P - 1] = FALSE]
  /\ logits' = Logits(sequence_parallel'[P - 1], Unpacked(lens, x), 0)

ForwardStep(p) ==
  LET lens == batch[fwd[p] + 1]
      x == Layer(lens, IF p = 0 THEN Embedded(lens) ELSE Received(sent_next[p - 1]))
  IN  /\ fwd[p] < MicroBatches
      /\ p > 0 => sent_next[p - 1] # <<>>
      /\ fwd' = [fwd EXCEPT ![p] = @ + 1]
      /\ IF p = P - 1
         THEN /\ PostProcess(lens, x)
              /\ sent_next' = [s \in Stage |->
                                 IF s = p - 1 THEN Tail(sent_next[s]) ELSE sent_next[s]]
         ELSE /\ sent_next' = Passed(sent_next, p, x, p - 1)
              /\ UNCHANGED <<sequence_parallel, logits>>
      /\ UNCHANGED <<setting, batch, bwd, sent_prev, word_grad>>

BackwardStep(p) ==
  LET lens == batch[bwd[p] + 1]
      g == LayerBackward(lens, IF p = P - 1 THEN HeadBackward(lens)
                               ELSE Received(sent_prev[p + 1]))
  IN  /\ bwd[p] < fwd[p]
      /\ p < P - 1 => sent_prev[p + 1] # <<>>
      /\ bwd' = [bwd EXCEPT ![p] = @ + 1]
      /\ IF p = 0
         THEN /\ word_grad' = EmbeddingBackward(g)
              /\ sent_prev' = [s \in Stage |->
                                 IF s = p + 1 THEN Tail(sent_prev[s]) ELSE sent_prev[s]]
         ELSE /\ sent_prev' = Passed(sent_prev, p, g, p + 1)
              /\ UNCHANGED word_grad
      /\ UNCHANGED <<setting, batch, sequence_parallel, fwd, sent_next, logits>>

Finished == bwd = [p \in Stage |-> MicroBatches] /\ UNCHANGED vars

Next ==
  \/ \E p \in Stage : ForwardStep(p) \/ BackwardStep(p)
  \/ Finished

Spec == Init /\ [][Next]_vars

-----------------------------------------------------------------------------
(* Properties                                                               *)

(* The rows of a tensor that stage p works on for a micro-batch.            *)
LocalLength(n) ==
  IF Sp THEN PaddedLength(batch[n]) \div T ELSE TotalNnz(batch[n])

(* The type invariant: what a stage receives has, on every rank, the rows   *)
(* that the stage's own packing of that micro-batch makes it expect, split  *)
(* without rest, and the logits those of the labels.                        *)
TypeOK ==
  /\ batch \in [1 .. MicroBatches -> Masks]
  /\ \A p \in Stage : 0 <= bwd[p] /\ bwd[p] <= fwd[p] /\ fwd[p] <= MicroBatches
  /\ Sp => \A n \in 1 .. MicroBatches : PaddedLength(batch[n]) % T = 0
  /\ \A p \in Stage, t \in TensorRank :
       /\ \A n \in DOMAIN sent_next[p] :
            Len(sent_next[p][n][t]) = LocalLength(fwd[p + 1] + n)
       /\ \A n \in DOMAIN sent_prev[p] :
            Len(sent_prev[p][n][t]) = LocalLength(bwd[p - 1] + n)
  /\ logits # <<>> => Len(logits) = SeqLen

(* The logits of a token depend on the tokens of its own sequence up to it, *)
(* all of them and no other: packing, splitting over ranks and stages and   *)
(* unpacking give what each sequence would give alone.                      *)
EachSequenceAlone ==
  logits # <<>> => \A b \in 1 .. Rows, q \in 1 .. SeqLen :
    logits[q][b] = IF q <= batch[fwd[P - 1]][b] THEN {<<b, k>> : k \in 1 .. q} ELSE {}

(* The routes by which a loss reaches a token in a model on one device,      *)
(* where a layer is the sum of T parts: back through l layers, and all.      *)
RoutesFrom(lens) ==
  LET Tokens == Range(Indices(lens))
      After(x) == {y \in Tokens : y[1] = x[1] /\ y[2] >= x[2]}
      from[l \in 0 .. P] == [x \in Tokens |->
        IF l = 0 THEN {<<<<v, x>>>> : v \in TensorRank}
        ELSE {<<<<Skip, x>>>> \o r : r \in from[l - 1][x]}
             \cup UNION {{<<<<t, y>>>> \o r : r \in from[l - 1][y]} :
                           t \in TensorRank, y \in After(x)}]
  IN  from
Routes(lens) ==
  [i \in 1 .. PaddedLength(lens) |->
     IF i \in Packed(lens) THEN RoutesFrom(lens)[P][Indices(lens)[i]] ELSE {}]

(* The embedding of a token gets its gradient from the losses at it and     *)
(* after it in its own sequence, by all the routes there are on one device, *)
(* each as often as the others, on every rank; the padding gets none.       *)
GradientsFollowAttention ==
  word_grad # <<>> =>
    LET routes == Routes(batch[bwd[0]])
    IN  \A t \in TensorRank : \A i \in DOMAIN word_grad[t] :
          LET g == word_grad[t][i]
          IN  /\ DOMAIN g = routes[i]
              /\ \E times \in 1 .. T : \A r \in DOMAIN g : g[r] = times
              /\ ~Sp => \A r \in DOMAIN g : g[r] = 1

(* mappings.py says of the gather of a sequence that "if the computation is *)
(* duplicated, output gradients need to be scattered": every loss counts    *)
(* once.                                                                    *)
GradientsOnce ==
  word_grad # <<>> =>
    LET routes == Routes(batch[bwd[0]])
    IN  \A t \in TensorRank : \A i \in DOMAIN word_grad[t] :
          word_grad[t][i] = SetToBag(routes[i])
=============================================================================
