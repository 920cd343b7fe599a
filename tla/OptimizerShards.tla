---------------------------- MODULE OptimizerShards ----------------------------
(***************************************************************************)
(* How DistributedOptimizer (megatron/optimizer/distrib_optimizer.py) finds *)
(* the parts of the parameters that a replica owns, moves gradients and     *)
(* parameters between the model and its fp32 shards, and saves and loads    *)
(* the shards.  Every step computes ranges of its own: in the buffer, in a  *)
(* bucket, in the replica's part of the bucket and in the parameter, and    *)
(* finds a shard by its group and its place in the group.                   *)
(*                                                                          *)
(* A layout L has the number of replicas, whether they share the optimizer, *)
(* the range of every parameter and the buckets, as BufferLayout makes      *)
(* them.  Ranges are Python's: <<start, end>>.                              *)
(***************************************************************************)
EXTENDS BufferLayout, SequencesExt

Larger(i, j)  == IF i > j THEN i ELSE j
Smaller(i, j) == IF i < j THEN i ELSE j

LayoutOf(c, size) ==
  LET range == Place(c, size).range
  IN [dp |-> c.dp, distributed |-> c.distributed,
      range |-> range, buckets |-> Buckets(c, range)]

(* tensor[start:end] *)
Slice(s, r) == SubSeq(s, r[1] + 1, r[2])

(* The elements of the sequence s that are in S, in their order.            *)
Selected(s, S) ==
  LET select[i \in 0..Len(s)] ==
        IF i = 0 THEN <<>>
        ELSE IF s[i] \in S THEN Append(select[i - 1], s[i]) ELSE select[i - 1]
  IN select[Len(s)]

-----------------------------------------------------------------------------
(* The ranges of a parameter in the part of a bucket that replica r owns.   *)

(* build_model_gbuf_range: the part, in the buffer.                         *)
GbufWorldRange(L, b, r) ==
  LET n == (L.buckets[b].end - L.buckets[b].first) \div L.dp
  IN <<L.buckets[b].first + (r - 1) * n, L.buckets[b].first + r * n>>

(* Mutant: the part of a parameter starts where the parameter does.         *)
ParamRanges_FromStart(L, b, r, p) ==
  LET gbuf  == GbufWorldRange(L, b, r)
      start == Larger(0, L.range[p][1] - gbuf[1])
      end   == Smaller(gbuf[2] - gbuf[1], L.range[p][2] - gbuf[1])
      shift == gbuf[1] - L.buckets[b].first
  IN [gbuf_local |-> <<start, end>>,
      gbuf_world_in_bucket |-> <<start + shift, end + shift>>,
      param |-> <<0, end - start>>]

(* build_model_gbuf_param_range_map *)
ParamRanges(L, b, r, p) ==
  LET gbuf  == GbufWorldRange(L, b, r)
      start == Larger(0, L.range[p][1] - gbuf[1])
      end   == Smaller(gbuf[2] - gbuf[1], L.range[p][2] - gbuf[1])
      sub   == Larger(0, gbuf[1] - L.range[p][1])
      shift == gbuf[1] - L.buckets[b].first
  IN [gbuf_local |-> <<start, end>>,
      gbuf_world_in_bucket |-> <<start + shift, end + shift>>,
      param |-> <<sub, sub + end - start>>]

(* The keys of param_map of a bucket, in the order of param_index_map.      *)
InPart(L, b, r, p) ==
  LET local == ParamRanges(L, b, r, p).gbuf_local IN local[2] > local[1]

ParamMap(L, b, r) ==
  Selected([i \in Params |-> N + 1 - i], {p \in Params : InPart(L, b, r, p)})

(* model_param_gbuf_map and get_model_param_range_map.                      *)
GbufMap(L, r, p) == CHOOSE b \in DOMAIN L.buckets : Contains(ParamMap(L, b, r), p)
RangeMap(L, r, p) == ParamRanges(L, GbufMap(L, r, p), r, p)

-----------------------------------------------------------------------------
(* The groups of the optimizer                                              *)

(* get_param_groups: biases and norms get no weight decay.  Weights and     *)
(* biases are taken to alternate.                                           *)
ParamGroups == 1..2
GroupOf(p) == IF p % 2 = 1 THEN 1 ELSE 2

(* build_optimizer_group_ranges: what replica r has of a group, and where.  *)
GroupParams(L, r, g) ==
  FlattenSeq([b \in DOMAIN L.buckets |->
    Selected(ParamMap(L, b, r), {p \in Params : GroupOf(p) = g})])

GroupOrder(L, r, p) ==
  LET params == GroupParams(L, r, GroupOf(p))
  IN CHOOSE i \in DOMAIN params : params[i] = p

(* The shards of replica r of whatever every parameter has: the fp32 copies *)
(* of build_model_and_main_param_groups, the gradients of                   *)
(* _copy_model_grads_to_main_grads.                                         *)
Shards(L, r, whole) ==
  [g \in ParamGroups |->
    LET params == GroupParams(L, r, g)
    IN [i \in DOMAIN params |-> Slice(whole[params[i]], RangeMap(L, r, params[i]).param)]]

-----------------------------------------------------------------------------
(* From the shards to a bucket and back                                     *)

Junk == <<>>   \* an element that nothing was written to

(* n elements with the shards of replica r written at the ranges of a kind. *)
Filled(L, b, r, main, n, kind) ==
  LET span(p) == ParamRanges(L, b, r, p)[kind]
      at(i) == {p \in Params : /\ Contains(ParamMap(L, b, r), p)
                               /\ i > span(p)[1] /\ i <= span(p)[2]}
      value(i, p) == main[GroupOf(p)][GroupOrder(L, r, p)][i - span(p)[1]]
  IN [i \in 1..n |-> IF at(i) = {} THEN Junk
                     ELSE value(i, CHOOSE p \in at(i) : TRUE)]

Numel(L, b) == L.buckets[b].end - L.buckets[b].first
LocalNumel(L, b) == Numel(L, b) \div L.dp

(* _copy_main_params_to_model_params, the all-gather of the views of        *)
(* shard_buffer, and the copy of a bucket to its parameters.                *)
ParamBuffer(L, b, r, main) == Filled(L, b, r, main, Numel(L, b), "gbuf_world_in_bucket")

AllGathered(L, mains, b) ==
  LET n == LocalNumel(L, b)
      buffer == [r \in 1..L.dp |-> ParamBuffer(L, b, r, mains[r])]
  IN [i \in 1..Numel(L, b) |-> buffer[(i - 1) \div n + 1][i]]

ModelParams(L, mains) ==
  LET gathered == [b \in DOMAIN L.buckets |-> AllGathered(L, mains, b)]
  IN [p \in Params |->
       LET b == L.range[p][3]
           offset == L.buckets[b].first
       IN Slice(gathered[b], <<L.range[p][1] - offset, L.range[p][2] - offset>>)]

(* save_parameter_state: the parts of all replicas, gathered on the first.  *)
SavedState(L, mains) ==
  [b \in DOMAIN L.buckets |->
    FlattenSeq([r \in 1..L.dp |->
      Filled(L, b, r, mains[r], LocalNumel(L, b), "gbuf_local")])]

PerBucketNumel(L) == [b \in DOMAIN L.buckets |-> Numel(L, b)]

(* load_parameter_state on replica r: its part is scattered to it and       *)
(* copied to the shards.                                                    *)
LoadedShards(L, r, state) ==
  [g \in ParamGroups |->
    LET params == GroupParams(L, r, g)
    IN [i \in DOMAIN params |->
         LET b == GbufMap(L, r, params[i])
             n == LocalNumel(L, b)
             received == Slice(state[b], <<(r - 1) * n, r * n>>)
         IN Slice(received, RangeMap(L, r, params[i]).gbuf_local)]]
=============================================================================
