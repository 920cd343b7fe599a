---------------------------- MODULE BufferLayout ----------------------------
(***************************************************************************)
(* GradBuffer.__init__ (megatron/core/distributed/grad_buffer.py): how the  *)
(* parameters of a model chunk are laid out in the contiguous gradient      *)
(* buffer and cut into buckets, and how a bucket is cut into the shards of  *)
(* a reduce-scatter.  A layout is computed from size, the number of         *)
(* elements of every parameter, and the configuration c of the buffer.      *)
(***************************************************************************)
EXTENDS Integers, Sequences

CONSTANT N   \* parameters, numbered as named_parameters() lists them

ASSUME ParamsAssumption == N \in Nat \ {0}

Params == 1..N

(* data_parallel_world_size, bucket_size (0 standing for None) and          *)
(* use_distributed_optimizer of a buffer.                                   *)
Configs == [dp : Nat \ {0}, bucket_size : Nat, distributed : BOOLEAN]

-----------------------------------------------------------------------------
(* Mutant: rounds down.                                                     *)
RoundUp_Down(d, i) == (i \div d) * d

RoundUp(d, i) == ((i + d - 1) \div d) * d

(* _pad_if_needed *)
Pad(c, i) == IF c.distributed THEN RoundUp(c.dp, i) ELSE i

(* "If we have enough elements already, form a new bucket": elements from   *)
(* first up to end, of n parameters.                                        *)
Enough(c, first, end, n) == c.bucket_size # 0 /\ end - first >= c.bucket_size /\ n > 1

(* The first loop, parameter after parameter in reverse order: range is     *)
(* param_index_map, indices is bucket_indices, first the start of the open  *)
(* bucket, count its parameters, end the end of the data.                   *)
Unplaced ==
  [range |-> [p \in Params |-> <<0, 0, 0>>], indices |-> <<>>,
   first |-> 0, count |-> 0, end |-> 0]

Placed(size, l, p) ==
  [range   |-> [l.range EXCEPT ![p] = <<l.end, l.end + size[p], Len(l.indices) + 1>>],
   indices |-> l.indices,
   first   |-> l.first,
   count   |-> l.count + 1,
   end     |-> l.end + size[p]]

Closed(c, l) ==
  [range   |-> l.range,
   indices |-> Append(l.indices, <<l.first, Pad(c, l.end)>>),
   first   |-> Pad(c, l.end),
   count   |-> 0,
   end     |-> Pad(c, l.end)]

Pass(c, size, l, p) ==
  LET placed == Placed(size, l, p)
  IN IF Enough(c, placed.first, placed.end, placed.count) THEN Closed(c, placed) ELSE placed

Place(c, size) ==
  LET place[j \in 0..N] ==
        IF j = 0 THEN Unplaced ELSE Pass(c, size, place[j - 1], N + 1 - j)
  IN place[N]

(* "Add remaining params to a new bucket."                                  *)
BucketIndices(c, size) ==
  LET l == Place(c, size) IN
  IF l.count > 0 THEN Append(l.indices, <<l.first, Pad(c, l.end)>>) ELSE l.indices

(* The second loop makes the buckets from param_index_map alone: a bucket   *)
(* ends where the first parameter of the next one starts, the last one at   *)
(* the end of the data.                                                     *)
BucketParams(range, b) == {p \in Params : range[p][3] = b}

BucketEnd(c, range, b) ==
  LET next == {range[p][1] : p \in BucketParams(range, b + 1)}
      ends == {range[p][2] : p \in BucketParams(range, b)}
  IN IF next # {}
       THEN Pad(c, CHOOSE i \in next : \A j \in next : i <= j)
       ELSE Pad(c, CHOOSE i \in ends : \A j \in ends : i >= j)

Buckets(c, range) ==
  [b \in {range[p][3] : p \in Params} |->
    [first  |-> IF b = 1 THEN 0 ELSE BucketEnd(c, range, b - 1),
     end    |-> BucketEnd(c, range, b),
     params |-> BucketParams(range, b)]]

(* The elements of a parameter, of a bucket, and of the part of a bucket    *)
(* that a reduce-scatter leaves with replica r of d (shard_buffer).         *)
ParamElements(range, p) == range[p][1] .. range[p][2] - 1

BucketElements(bucket) == bucket.first .. bucket.end - 1

ShardElements(d, bucket, r) ==
  LET n == (bucket.end - bucket.first) \div d
  IN bucket.first + (r - 1) * n .. bucket.first + r * n - 1

(* What a replica holds reduced once the collective on a bucket is over.    *)
ReducedElements(c, bucket, r) ==
  IF c.distributed THEN ShardElements(c.dp, bucket, r) ELSE BucketElements(bucket)
=============================================================================
