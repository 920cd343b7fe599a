------------------------ MODULE DistribOptimizerProofs ------------------------
(***************************************************************************)
(* What holds of the distributed optimizer for every number of ranks,       *)
(* buckets, microbatches and iterations and every command line.             *)
(*                                                                          *)
(* Between two reductions of found_inf every rank issues the same           *)
(* collectives in the same order: the all-gathers of the buckets if the     *)
(* last update was made, then the reduce-scatters, then the reduction of    *)
(* found_inf. A place in that order tells what the memory of a bucket holds.*)
(***************************************************************************)
EXTENDS DistribOptimizer, FiniteSetTheorems, TLAPS

-----------------------------------------------------------------------------
(* The order of the collectives.                                            *)

(* The collective at place p: all-gathers, reduce-scatters, found_inf.      *)
Coll(p) ==
  IF p <= B THEN <<"gather", p>>
  ELSE IF p <= 2 * B
    THEN <<"reduce", IF OverlapGradReduce THEN 2 * B + 1 - p ELSE p - B>>
  ELSE <<"inf", 0>>

(* The place of the reduce-scatter of bucket b.                             *)
Place(b) == IF OverlapGradReduce THEN 2 * B + 1 - b ELSE B + b

(* Nothing is gathered after a skipped update.                              *)
First(updated) == IF updated THEN 0 ELSE B

(* Where no microbatch of the next update has been computed.                *)
Outside == {"gather", "copy", "between", "zero", "stopped"}
Passes  == {"schedule", "forward", "backward"}

(* The calls of step() that rank r has finished.                            *)
Steps(r) == IF pc[r] \in {"gather", "copy", "between"} THEN it[r] ELSE it[r] - 1

(* The place of the last collective rank r issued since the last step().    *)
GathersIssued(r) == IF success[r] THEN Len(handles[r]) ELSE B
ReducesIssued(r) ==
  IF OverlapGradReduce
    THEN IF pc[r] \in Outside THEN 0
         ELSE IF bwd[r] = M THEN B
         ELSE IF pc[r] = "backward" /\ bwd[r] + 1 = M THEN B - at[r]
         ELSE 0
    ELSE IF pc[r] = "finish" THEN at[r] - 1
         ELSE IF pc[r] \in {"step", "check"} THEN B
         ELSE 0
Issued(r) ==
  GathersIssued(r) + ReducesIssued(r) + (IF pc[r] = "check" THEN 1 ELSE 0)

(* The place of the last one that completed.                                *)
Done(r) == Issued(r) - Len(posted[r])

InOrder(r) ==
  /\ Done(r) >= First(success[r])
  /\ \A i \in 1 .. Len(posted[r]) : posted[r][i] = Coll(Done(r) + i)

(* What the ranks must agree on. A rank for which the reduction of          *)
(* found_inf completed counts as if it had finished step() already.         *)
View(r) ==
  IF pc[r] = "check" /\ posted[r] = <<>>
    THEN <<it[r], First(~found[r]), ~found[r], IF found[r] THEN main[r] ELSE main[r] + 1>>
    ELSE <<Steps(r), Done(r), success[r], main[r]>>

Agreed == \A q, r \in Ranks : View(q) = View(r)

-----------------------------------------------------------------------------
(* The local state of one rank.                                             *)

Counts(r) ==
  /\ pc[r] \in {"forward", "backward", "gather", "copy"} => at[r] <= B
  /\ pc[r] \in Passes => bwd[r] <= fwd[r]
  /\ pc[r] = "forward" => fwd[r] < M
  /\ pc[r] = "backward" => bwd[r] < fwd[r]
  /\ pc[r] \in {"finish", "step", "check"} => bwd[r] = M /\ fwd[r] = M
  /\ pc[r] = "stopped" <=> it[r] = Iterations + 1
  /\ pc[r] \in {"gather", "copy"} => ~OverlapParamGather
  /\ pc[r] = "copy" => success[r]
  /\ main[r] <= Steps(r)
  /\ pc[r] = "step" => posted[r] = <<>>

(* The parameters of bucket b are still to be copied out of the buffer.     *)
Held(r, b) ==
  IF OverlapParamGather
    THEN \/ pc[r] \in {"between", "zero", "stopped"}
         \/ fwd[r] = 0 /\ pc[r] = "schedule"
         \/ fwd[r] = 0 /\ pc[r] = "forward" /\ b >= at[r]
    ELSE pc[r] \in {"gather", "copy"} /\ b >= at[r]

(* The all-gather handles: the overlapped ones are dispatched one ahead of  *)
(* the first forward pass, the others one by one.                           *)
Handles(r) ==
  /\ Len(copied[r]) = Len(handles[r])
  /\ ~success[r] => handles[r] = <<>>
  /\ success[r] /\ OverlapParamGather =>
       /\ \A b \in 1 .. Len(handles[r]) :
            /\ handles[r][b] = IF Held(r, b) THEN "flight" ELSE "None"
            /\ copied[r][b] <=> ~Held(r, b)
       /\ Len(handles[r]) = IF pc[r] \in {"between", "zero", "stopped"} THEN 0
                            ELSE IF fwd[r] > 0 THEN B
                            ELSE IF pc[r] = "schedule" THEN 1 ELSE at[r]
  /\ success[r] /\ ~OverlapParamGather =>
       Len(handles[r]) = IF pc[r] = "gather" THEN at[r] - 1
                         ELSE IF pc[r] = "copy" THEN at[r] ELSE B

-----------------------------------------------------------------------------
(* What the memory holds.                                                   *)

(* Rank r made the update, and has or gets the parameters of shard s from   *)
(* its owner in the buffer.                                                 *)
Arrived(r, b, s) == success[r] /\ Held(r, b) /\ (s = r \/ Done(r) >= b)

Params(r) ==
  \A b \in Buckets, s \in Shards :
    storage[r][b][s].params = IF Arrived(r, b, s) THEN main[r] ELSE NoParams

(* The modules compute with the last parameters of a bucket once they are   *)
(* gathered and copied out of the buffer.                                   *)
Modules(r) ==
  \A b \in Buckets : (success[r] /\ Held(r, b)) \/ (Current(r, b) /\ Done(r) >= b)

(* No gradient overflowed, or the gather is not overlapped: the case in     *)
(* which the gradients are zeroed after every step().                       *)
Zeroing == OverlapParamGather => overflowed = {}

(* The microbatches of this iteration that went backward through bucket b.  *)
Backprops(r, b) ==
  IF pc[r] \in Outside THEN 0
  ELSE IF pc[r] = "backward" /\ b > at[r] THEN bwd[r] + 1
  ELSE bwd[r]

Expected(r, b, s) ==
  IF s = r /\ Done(r) >= Place(b)
    THEN Ranks \X {it[r]} \X (1 .. M)
    ELSE {r} \X {it[r]} \X (1 .. Backprops(r, b))

Grads(r) ==
  \A b \in Buckets, s \in Shards :
    storage[r][b][s].grads =
      IF Arrived(r, b, s) THEN {}
      ELSE IF Held(r, b) /\ (success[r] \/ ~OverlapParamGather)
        THEN storage[r][b][s].grads
        ELSE Expected(r, b, s)

(* The iterations in which a gradient overflowed, and the skipped ones.     *)
Bad == {o[1][2] : o \in overflowed}
Skipped(r) ==
  /\ pc[r] = "check" /\ found[r] => it[r] \in Bad
  /\ Steps(r) - main[r] <= Cardinality(Bad \cap (1 .. Steps(r)))
  /\ OverlapParamGather => success[r] \/ Steps(r) = 0

Local(r) ==
  /\ Counts(r)
  /\ Handles(r)
  /\ InOrder(r)
  /\ Params(r)
  /\ Modules(r)
  /\ Zeroing => Grads(r) /\ Skipped(r)

IInv ==
  /\ TypeOK
  /\ args \in Settings
  /\ IsFiniteSet(overflowed)
  /\ Agreed
  /\ \A r \in Ranks : Local(r)

-----------------------------------------------------------------------------
(* Places.                                                                  *)

LEMMA Setting ==
  ASSUME args \in Settings
  PROVE  /\ D \in Nat \ {0} /\ B \in Nat \ {0} /\ M \in Nat \ {0} /\ Iterations \in Nat \ {0}
         /\ OverlapParamGather \in BOOLEAN /\ OverlapGradReduce \in BOOLEAN
         /\ MaxOverflows \in Nat
<1>1. /\ D \in Nat \ {0} /\ B \in Nat \ {0} /\ M \in Nat \ {0} /\ Iterations \in Nat \ {0}
      /\ Settings \subseteq [gather : BOOLEAN, reduce : BOOLEAN, overflows : Nat]
  BY DistribOptimizerAssumption
<1>. QED BY <1>1 DEF OverlapParamGather, OverlapGradReduce, MaxOverflows

(* The collective at each place, and the place of each collective.          *)
LEMMA Places ==
  ASSUME args \in Settings
  PROVE  /\ \A p \in 1 .. 2 * B + 1 : Coll(p) \in Collectives
         /\ \A b \in Buckets : Place(b) \in B + 1 .. 2 * B /\ Coll(Place(b)) = <<"reduce", b>>
         /\ \A p \in 1 .. B : Coll(p) = <<"gather", p>>
         /\ \A p \in B + 1 .. 2 * B : \E b \in Buckets : p = Place(b)
         /\ Coll(2 * B + 1) = <<"inf", 0>>
<1>1. B \in Nat \ {0} /\ OverlapGradReduce \in BOOLEAN
  BY Setting
<1>2. \A b \in Buckets : Place(b) \in B + 1 .. 2 * B /\ Coll(Place(b)) = <<"reduce", b>>
  BY <1>1 DEF Place, Coll, Buckets
<1>3. \A p \in 1 .. B : Coll(p) = <<"gather", p>>
  BY <1>1 DEF Coll
<1>4. ASSUME NEW p \in B + 1 .. 2 * B
      PROVE  \E b \in Buckets : p = Place(b)
  <2>1. CASE OverlapGradReduce
    <3>1. 2 * B + 1 - p \in Buckets /\ p = Place(2 * B + 1 - p)
      BY <1>1, <2>1 DEF Place, Buckets
    <3>. QED BY <3>1
  <2>2. CASE ~OverlapGradReduce
    <3>1. p - B \in Buckets /\ p = Place(p - B)
      BY <1>1, <2>2 DEF Place, Buckets
    <3>. QED BY <3>1
  <2>. QED BY <1>1, <2>1, <2>2
<1>5. Coll(2 * B + 1) = <<"inf", 0>>
  BY <1>1 DEF Coll
<1>6. ASSUME NEW p \in 1 .. 2 * B + 1
      PROVE  Coll(p) \in Collectives
  <2>1. CASE p <= B
    BY <1>1, <1>3, <2>1 DEF Collectives, Buckets
  <2>2. CASE p \in B + 1 .. 2 * B
    BY <1>2, <1>4, <2>2 DEF Collectives
  <2>3. CASE p = 2 * B + 1
    BY <1>5, <2>3 DEF Collectives
  <2>. QED BY <1>1, <2>1, <2>2, <2>3
<1>. QED BY <1>2, <1>3, <1>4, <1>5, <1>6

(* Appending to a sequence.                                                 *)
LEMMA Snoc ==
  ASSUME NEW T, NEW s \in Seq(T), NEW x \in T
  PROVE  /\ Append(s, x) \in Seq(T) /\ Append(s, x) # <<>>
         /\ Len(Append(s, x)) = Len(s) + 1 /\ Append(s, x)[Len(s) + 1] = x
         /\ \A i \in 1 .. Len(s) : Append(s, x)[i] = s[i]
<1>1. /\ Append(s, x) \in Seq(T) /\ Len(s) \in Nat
      /\ Len(Append(s, x)) = Len(s) + 1 /\ Append(s, x)[Len(s) + 1] = x
      /\ \A i \in 1 .. Len(s) : Append(s, x)[i] = s[i]
  OBVIOUS
<1>2. Len(<<>>) = 0 /\ Len(s) + 1 # 0
  BY <1>1
<1>. QED BY <1>1, <1>2

(* Overwriting an element of a sequence.                                    *)
LEMMA Overwrite ==
  ASSUME NEW T, NEW s \in Seq(T), NEW i \in 1 .. Len(s), NEW x \in T
  PROVE  [s EXCEPT ![i] = x] \in Seq(T)
OBVIOUS

(* What TypeOK says of one rank.                                            *)
LEMMA Typed ==
  ASSUME TypeOK, args \in Settings, NEW r \in Ranks
  PROVE  /\ at[r] \in 1 .. B + 1 /\ fwd[r] \in 0 .. M /\ bwd[r] \in 0 .. M
         /\ it[r] \in 1 .. Iterations + 1 /\ main[r] \in 0 .. Iterations
         /\ Steps(r) \in 0 .. Iterations + 1
         /\ success[r] \in BOOLEAN /\ found[r] \in BOOLEAN
         /\ handles[r] \in Seq({"flight", "None"}) /\ copied[r] \in Seq(BOOLEAN)
         /\ posted[r] \in Seq(Collectives)
         /\ Len(handles[r]) \in Nat /\ Len(copied[r]) \in Nat /\ Len(posted[r]) \in Nat
         /\ Issued(r) \in Int /\ Done(r) \in Int
<1>1. /\ at[r] \in 1 .. B + 1 /\ fwd[r] \in 0 .. M /\ bwd[r] \in 0 .. M
      /\ it[r] \in 1 .. Iterations + 1 /\ main[r] \in 0 .. Iterations
      /\ success[r] \in BOOLEAN /\ found[r] \in BOOLEAN
      /\ handles[r] \in Seq({"flight", "None"}) /\ copied[r] \in Seq(BOOLEAN)
      /\ posted[r] \in Seq(Collectives)
  BY DEF TypeOK
<1>2. Len(handles[r]) \in Nat /\ Len(copied[r]) \in Nat /\ Len(posted[r]) \in Nat
  BY <1>1
<1>3. Steps(r) \in 0 .. Iterations + 1
  BY <1>1, Setting, SMTT(20) DEF Steps
<1>4. GathersIssued(r) \in Int /\ ReducesIssued(r) \in Int
  BY <1>1, <1>2, Setting, SMTT(20) DEF GathersIssued, ReducesIssued
<1>5. Issued(r) \in Int /\ Done(r) \in Int
  BY <1>2, <1>4 DEF Issued, Done
<1>. QED BY <1>1, <1>2, <1>3, <1>5

(* A rank waits for the collective it issued last only until nothing is     *)
(* outstanding.                                                             *)
LEMMA LastPosted ==
  ASSUME TypeOK, args \in Settings, NEW r \in Ranks, InOrder(r),
         ~Pending(r, Coll(Issued(r)))
  PROVE  posted[r] = <<>> /\ Done(r) = Issued(r)
<1>1. posted[r] \in Seq(Collectives) /\ Len(posted[r]) \in Nat /\ Issued(r) \in Int
  BY Typed
<1>2. ASSUME Len(posted[r]) # 0 PROVE FALSE
  <2>1. Len(posted[r]) \in 1 .. Len(posted[r])
    BY <1>1, <1>2
  <2>2. posted[r][Len(posted[r])] = Coll(Done(r) + Len(posted[r]))
    BY <2>1 DEF InOrder
  <2>3. Done(r) + Len(posted[r]) = Issued(r)
    BY <1>1 DEF Done
  <2>. QED BY <2>1, <2>2, <2>3 DEF Pending
<1>. QED BY <1>1, <1>2 DEF Done

-----------------------------------------------------------------------------
(* One rank takes a step.                                                   *)

(* A rank that issues nothing, or the collective at the next place, keeps   *)
(* to the order, and its view does not change.                              *)
LEMMA Advance ==
  ASSUME TypeOK, args \in Settings, args' = args, NEW r \in Ranks, InOrder(r),
         success'[r] = success[r], main'[r] = main[r], Steps(r)' = Steps(r),
         pc[r] # "check",
         \/ posted'[r] = posted[r] /\ Issued(r)' = Issued(r) /\ pc'[r] # "check"
         \/ /\ posted'[r] = Append(posted[r], Coll(Issued(r) + 1))
            /\ Issued(r)' = Issued(r) + 1
  PROVE  InOrder(r)' /\ Done(r)' = Done(r) /\ View(r)' = View(r)
<1>1. posted[r] \in Seq(Collectives) /\ Len(posted[r]) \in Nat /\ Issued(r) \in Int
  BY Typed
<1>2. \A p : Coll(p)' = Coll(p)
  BY DEF Coll, OverlapGradReduce
<1>3. \A u : First(u)' = First(u)
  BY DEF First
<1>4. CASE posted'[r] = posted[r] /\ Issued(r)' = Issued(r) /\ pc'[r] # "check"
  <2>1. Done(r)' = Done(r)
    BY <1>4 DEF Done
  <2>2. InOrder(r)'
    BY <1>2, <1>3, <1>4, <2>1 DEF InOrder
  <2>. QED BY <1>4, <2>1, <2>2 DEF View
<1>5. CASE /\ posted'[r] = Append(posted[r], Coll(Issued(r) + 1))
           /\ Issued(r)' = Issued(r) + 1
  <2>. DEFINE n == Len(posted[r])
              x == Coll(Issued(r) + 1)
  <2>1. /\ Len(posted'[r]) = n + 1 /\ posted'[r] # <<>>
        /\ \A i \in 1 .. n : posted'[r][i] = posted[r][i]
        /\ posted'[r][n + 1] = x
    <3>1. posted[r] \in Seq(Collectives \cup {x}) /\ x \in Collectives \cup {x}
      BY <1>1
    <3>. HIDE DEF x
    <3>. QED BY <1>5, <3>1, Snoc DEF x
  <2>2. Done(r)' = Done(r)
    BY <1>1, <1>5, <2>1 DEF Done
  <2>3. x = Coll(Done(r) + (n + 1))
    BY <1>1 DEF Done
  <2>4. InOrder(r)'
    <3>1. \A i \in 1 .. n + 1 : posted'[r][i] = Coll(Done(r) + i)
      <4>. HIDE DEF x
      <4>. QED BY <1>1, <2>1, <2>3 DEF InOrder
    <3>2. \A i \in 1 .. Len(posted'[r]) : posted'[r][i] = (Coll(Done(r) + i))'
      BY <1>2, <2>1, <2>2, <3>1
    <3>3. (Done(r) >= First(success[r]))'
      BY <1>3, <2>2 DEF InOrder
    <3>. QED BY <3>2, <3>3 DEF InOrder
  <2>. QED BY <2>1, <2>2, <2>4 DEF View
<1>. QED BY <1>4, <1>5

(* A step of one rank changes nothing of another.                           *)
Same(q) ==
  /\ pc'[q] = pc[q] /\ it'[q] = it[q] /\ at'[q] = at[q]
  /\ fwd'[q] = fwd[q] /\ bwd'[q] = bwd[q]
  /\ storage'[q] = storage[q] /\ model'[q] = model[q] /\ main'[q] = main[q]
  /\ handles'[q] = handles[q] /\ copied'[q] = copied[q]
  /\ success'[q] = success[q] /\ found'[q] = found[q] /\ posted'[q] = posted[q]

LEMMA Others ==
  ASSUME TypeOK, NEW r \in Ranks, RankStep(r), NEW q \in Ranks, q # r
  PROVE  Same(q)
<1>1. CASE ZeroGrad(r)
  BY <1>1 DEF TypeOK, Same, ZeroGrad, Dispatch, Post, gathers
<1>2. CASE StartPass(r)
  BY <1>2 DEF TypeOK, Same, StartPass, gathers
<1>3. CASE ComputeForward(r)
  BY <1>3 DEF TypeOK, Same, ComputeForward, LeaveBucket, gathers
<1>4. CASE FinishParamSync(r)
  BY <1>4, SMTT(60) DEF TypeOK, Same, FinishParamSync, Dispatch, Post, CopyParams, LeaveBucket, gathers
<1>5. CASE BackwardBucket(r)
  BY <1>5, SMTT(60) DEF TypeOK, Same, BackwardBucket, Post, gathers
<1>6. CASE FinishGradSync(r)
  BY <1>6 DEF TypeOK, Same, FinishGradSync, Post, gathers
<1>7. CASE Unscale(r)
  BY <1>7 DEF TypeOK, Same, Unscale, Post, gathers
<1>8. CASE Step(r)
  BY <1>8, SMTT(20) DEF TypeOK, Same, Step
<1>9. CASE GatherParams(r)
  BY <1>9 DEF TypeOK, Same, GatherParams, Post
<1>10. CASE CopyGathered(r)
  BY <1>10 DEF TypeOK, Same, CopyGathered, CopyParams, gathers
<1>11. CASE NextIteration(r)
  BY <1>11 DEF TypeOK, Same, NextIteration, gathers
<1>. QED BY <1>1, <1>2, <1>3, <1>4, <1>5, <1>6, <1>7, <1>8, <1>9, <1>10, <1>11 DEF RankStep

(* Gradients overflow and are not taken back.                               *)
LEMMA Overflows ==
  ASSUME NEW r \in Ranks, RankStep(r), IsFiniteSet(overflowed)
  PROVE  overflowed \subseteq overflowed' /\ IsFiniteSet(overflowed')
<1>1. CASE UNCHANGED overflowed
  BY <1>1
<1>2. ASSUME NEW x, overflowed' = overflowed \cup {x}
      PROVE  overflowed \subseteq overflowed' /\ IsFiniteSet(overflowed')
  BY <1>2, FS_AddElement
<1>3. CASE BackwardBucket(r)
  BY <1>1, <1>2, <1>3 DEF BackwardBucket
<1>. QED BY <1>1, <1>3 DEF RankStep, ZeroGrad, StartPass, ComputeForward, FinishParamSync,
            FinishGradSync, Unscale, Step, GatherParams, CopyGathered, NextIteration

(* No more iterations overflow than gradients.                              *)
LEMMA FewBad ==
  ASSUME IsFiniteSet(overflowed)
  PROVE  IsFiniteSet(Bad) /\ Cardinality(Bad) <= Cardinality(overflowed)
<1>. DEFINE f == [o \in overflowed |-> o[1][2]]
<1>1. f \in Surjection(overflowed, Bad)
  BY DEF Surjection, Bad
<1>. QED BY <1>1, FS_Surjection DEF ExistsSurjection

LEMMA FewBadNext ==
  ASSUME IsFiniteSet(overflowed')
  PROVE  IsFiniteSet(Bad')
<1>. DEFINE f == [o \in overflowed' |-> o[1][2]]
<1>1. f \in Surjection(overflowed', Bad')
  BY DEF Surjection, Bad
<1>. QED BY <1>1, FS_Surjection DEF ExistsSurjection

(* The skipped iterations remain explained by overflows.                    *)
LEMMA StaySkipped ==
  ASSUME NEW r \in Ranks, Skipped(r), args' = args,
         overflowed \subseteq overflowed', IsFiniteSet(overflowed'),
         Steps(r)' = Steps(r), main'[r] = main[r], success'[r] = success[r],
         (pc[r] = "check" /\ found[r])' => pc[r] = "check" /\ found[r] /\ it'[r] = it[r],
         main[r] \in Int, Steps(r) \in Int
  PROVE  Skipped(r)'
<1>2. Bad \subseteq Bad'
  BY DEF Bad
<1>3. /\ Cardinality(Bad \cap (1 .. Steps(r))) <= Cardinality(Bad' \cap (1 .. Steps(r)))
      /\ Cardinality(Bad \cap (1 .. Steps(r))) \in Int
      /\ Cardinality(Bad' \cap (1 .. Steps(r))) \in Int
  <2>1. IsFiniteSet(Bad' \cap (1 .. Steps(r)))
    BY FewBadNext, FS_Intersection
  <2>2. Bad \cap (1 .. Steps(r)) \in SUBSET (Bad' \cap (1 .. Steps(r)))
    BY <1>2
  <2>. QED BY <2>1, <2>2, FS_Subset, FS_CardinalityType
<1>4. Steps(r)' - main'[r] <= Cardinality(Bad' \cap (1 .. Steps(r)'))
  BY <1>3 DEF Skipped
<1>. QED BY <1>2, <1>4 DEF Skipped, OverlapParamGather

(* What a rank knows holds on while another one takes a step.               *)
LEMMA SameLocal ==
  ASSUME TypeOK, args \in Settings, args' = args, NEW q \in Ranks, Same(q), Local(q),
         overflowed \subseteq overflowed', IsFiniteSet(overflowed')
  PROVE  Local(q)' /\ View(q)' = View(q)
<1>1. /\ Steps(q)' = Steps(q) /\ Issued(q)' = Issued(q)
      /\ \A p : Coll(p)' = Coll(p) /\ First(p)' = First(p)
      /\ \A b : Place(b)' = Place(b) /\ Held(q, b)' = Held(q, b) /\ Backprops(q, b)' = Backprops(q, b)
  BY DEF Same, Steps, Issued, GathersIssued, ReducesIssued, Coll, First, Place, Held, Backprops,
     OverlapGradReduce, OverlapParamGather
<1>2. Done(q)' = Done(q)
  BY <1>1 DEF Same, Done
<1>3. /\ \A b, s : Arrived(q, b, s)' = Arrived(q, b, s) /\ Expected(q, b, s)' = Expected(q, b, s)
      /\ \A b : Current(q, b)' = Current(q, b)
  BY <1>1, <1>2 DEF Same, Arrived, Expected, Current
<1>4. Counts(q)'
  BY <1>1 DEF Local, Counts, Same, OverlapParamGather
<1>5. Handles(q)'
  BY <1>1 DEF Local, Handles, Same, OverlapParamGather
<1>6. InOrder(q)'
  BY <1>1, <1>2 DEF Local, InOrder, Same
<1>7. Params(q)' /\ Modules(q)'
  BY <1>1, <1>2, <1>3 DEF Local, Params, Modules, Same
<1>8. ASSUME Zeroing' PROVE Grads(q)' /\ Skipped(q)'
  <2>1. Grads(q) /\ Skipped(q)
    BY <1>8 DEF Local, Zeroing, OverlapParamGather
  <2>2. Grads(q)'
    BY <1>1, <1>3, <2>1 DEF Grads, Same, OverlapParamGather
  <2>3. main[q] \in Int /\ Steps(q) \in Int
    BY Typed, Setting
  <2>. QED BY <1>1, <2>1, <2>2, <2>3, StaySkipped DEF Same
<1>9. View(q)' = View(q)
  BY <1>1, <1>2 DEF View, Same
<1>. QED BY <1>4, <1>5, <1>6, <1>7, <1>8, <1>9 DEF Local

(* A rank that does not touch the memory keeps what it knows of it.         *)
LEMMA Untouched ==
  ASSUME NEW r \in Ranks, args' = args, overflowed' = overflowed,
         storage' = storage, model' = model, main' = main, success'[r] = success[r],
         Params(r), Modules(r), Zeroing => Grads(r),
         Done(r)' = Done(r),
         \A b \in Buckets :
           /\ success[r] \/ ~OverlapParamGather => (Held(r, b)' <=> Held(r, b))
           /\ \A s \in Shards : Expected(r, b, s)' = Expected(r, b, s)
  PROVE  Params(r)' /\ Modules(r)' /\ (Zeroing => Grads(r))'
<1>1. \A b \in Buckets, s \in Shards : Arrived(r, b, s)' = Arrived(r, b, s)
  BY DEF Arrived
<1>2. OverlapParamGather' = OverlapParamGather /\ Zeroing' = Zeroing
  BY DEF OverlapParamGather, Zeroing
<1>3. Params(r)' 
  BY <1>1 DEF Params
<1>4. Modules(r)'
  BY DEF Modules, Current
<1>5. ASSUME Zeroing' PROVE Grads(r)'
  BY <1>1, <1>2, <1>5 DEF Grads
<1>. QED BY <1>3, <1>4, <1>5

-----------------------------------------------------------------------------
(* The steps of one rank.                                                   *)

Ready(r) ==
  /\ TypeOK /\ args \in Settings /\ args' = args
  /\ IsFiniteSet(overflowed)
  /\ Local(r)

Kept(r) == Local(r)' /\ View(r)' = View(r)

LEMMA Facts ==
  ASSUME NEW r \in Ranks, Ready(r)
  PROVE  /\ B \in Nat \ {0} /\ M \in Nat \ {0}
         /\ OverlapParamGather \in BOOLEAN /\ OverlapGradReduce \in BOOLEAN
         /\ OverlapParamGather' = OverlapParamGather /\ OverlapGradReduce' = OverlapGradReduce
         /\ at[r] \in 1 .. B + 1 /\ fwd[r] \in 0 .. M /\ bwd[r] \in 0 .. M
         /\ it[r] \in 1 .. Iterations + 1 /\ main[r] \in 0 .. Iterations
         /\ success[r] \in BOOLEAN
         /\ handles[r] \in Seq({"flight", "None"}) /\ copied[r] \in Seq(BOOLEAN)
         /\ posted[r] \in Seq(Collectives)
         /\ Len(handles[r]) \in Nat /\ Len(posted[r]) \in Nat /\ Issued(r) \in Int
         /\ Counts(r) /\ Handles(r) /\ InOrder(r) /\ Params(r) /\ Modules(r)
         /\ (Zeroing => Grads(r)) /\ (Zeroing => Skipped(r))
<1>1. TypeOK /\ args \in Settings /\ args' = args /\ Local(r)
  BY DEF Ready
<1>. QED BY <1>1, Setting, Typed DEF Local, OverlapParamGather, OverlapGradReduce

LEMMA KeptSkipped ==
  ASSUME NEW r \in Ranks, Ready(r), Zeroing => Skipped(r), overflowed' = overflowed,
         pc[r] # "check", pc'[r] # "check", Steps(r)' = Steps(r), main'[r] = main[r],
         success'[r] = success[r]
  PROVE  (Zeroing => Skipped(r))'
BY DEF Ready, Zeroing, Skipped, Bad, OverlapParamGather

LEMMA ZeroGradKeeps ==
  ASSUME NEW r \in Ranks, Ready(r), ZeroGrad(r)
  PROVE  Kept(r)
<1>1. /\ pc[r] = "zero" /\ pc'[r] = "schedule" /\ fwd'[r] = 0 /\ bwd'[r] = 0
      /\ it' = it /\ at' = at /\ storage' = storage /\ model' = model /\ main' = main
      /\ success' = success /\ found' = found /\ overflowed' = overflowed /\ args' = args
  BY DEF Ready, TypeOK, ZeroGrad
<1>2. /\ B \in Nat \ {0} /\ M \in Nat \ {0} /\ OverlapParamGather \in BOOLEAN
      /\ OverlapGradReduce \in BOOLEAN /\ OverlapParamGather' = OverlapParamGather
      /\ OverlapGradReduce' = OverlapGradReduce
  BY Facts
<1>3. /\ success[r] \in BOOLEAN /\ handles[r] \in Seq({"flight", "None"})
      /\ copied[r] \in Seq(BOOLEAN) /\ posted[r] \in Seq(Collectives)
      /\ Len(handles[r]) \in Nat /\ Issued(r) \in Int
  BY Facts
<1>4. Counts(r) /\ Handles(r) /\ InOrder(r)
  BY Facts
<1>5. IF OverlapParamGather /\ success[r]
        THEN /\ handles[r] = <<>> /\ copied[r] = <<>>
             /\ Len(handles'[r]) = 1 /\ handles'[r][1] = "flight"
             /\ Len(copied'[r]) = 1 /\ copied'[r][1] = FALSE
             /\ posted'[r] = Append(posted[r], <<"gather", 1>>)
        ELSE handles'[r] = handles[r] /\ copied'[r] = copied[r] /\ posted'[r] = posted[r]
  <2>1. CASE OverlapParamGather /\ success[r]
    <3>1. handles[r] = <<>> /\ copied[r] = <<>>
      BY <1>1, <1>3, <1>4, <2>1 DEF Handles
    <3>2. /\ handles'[r] = Append(handles[r], "flight") /\ copied'[r] = Append(copied[r], FALSE)
          /\ posted'[r] = Append(posted[r], <<"gather", 1>>)
      BY <2>1 DEF Ready, TypeOK, ZeroGrad, Dispatch, Dispatched, Uncopied, Post
    <3>3. handles[r] \in Seq({"flight", "None"}) /\ copied[r] \in Seq(BOOLEAN)
      BY <1>3
    <3>4. Len(handles'[r]) = Len(handles[r]) + 1 /\ handles'[r][Len(handles[r]) + 1] = "flight"
      BY <3>2, <3>3, Snoc
    <3>5. Len(copied'[r]) = Len(copied[r]) + 1 /\ copied'[r][Len(copied[r]) + 1] = FALSE
      BY <3>2, <3>3, Snoc
    <3>6. Len(handles[r]) = 0 /\ Len(copied[r]) = 0
      BY <3>1
    <3>. QED BY <2>1, <3>1, <3>2, <3>4, <3>5, <3>6
  <2>2. CASE ~(OverlapParamGather /\ success[r])
    BY <2>2 DEF Ready, TypeOK, ZeroGrad, Dispatch, Dispatched, Uncopied, gathers
  <2>. QED BY <2>1, <2>2
<1>6. Steps(r)' = Steps(r)
  BY <1>1 DEF Steps
<1>7. \A b \in Buckets : Held(r, b)' = Held(r, b) /\ Backprops(r, b)' = 0 /\ Backprops(r, b) = 0
  BY <1>1, <1>2 DEF Held, Backprops, Outside
<1>8. Counts(r)'
  BY <1>1, <1>2, <1>4, <1>6 DEF Counts, Passes
<1>9. Handles(r)'
  <2>1. CASE OverlapParamGather /\ success[r]
    <3>1. /\ Len(handles'[r]) = 1 /\ Len(copied'[r]) = 1
          /\ handles'[r][1] = "flight" /\ copied'[r][1] = FALSE
      BY <1>5, <2>1
    <3>2. \A b : Held(r, b)'
      BY <1>1, <1>2, <2>1 DEF Held
    <3>3. \A b \in 1 .. Len(handles'[r]) :
            /\ handles'[r][b] = IF Held(r, b)' THEN "flight" ELSE "None"
            /\ copied'[r][b] <=> ~Held(r, b)'
      <4>1. \A b \in 1 .. 1 : b = 1
        OBVIOUS
      <4>. QED BY <3>1, <3>2, <4>1
    <3>4. success'[r] /\ OverlapParamGather' /\ pc'[r] = "schedule" /\ fwd'[r] = 0
      BY <1>1, <1>2, <2>1
    <3>. QED BY <3>1, <3>3, <3>4 DEF Handles
  <2>2. CASE ~(OverlapParamGather /\ success[r])
    BY <1>1, <1>2, <1>3, <1>4, <1>5, <2>2 DEF Handles
  <2>. QED BY <2>1, <2>2
<1>10. \/ posted'[r] = posted[r] /\ Issued(r)' = Issued(r) /\ pc'[r] # "check"
       \/ /\ posted'[r] = Append(posted[r], Coll(Issued(r) + 1))
          /\ Issued(r)' = Issued(r) + 1
  <2>1. ReducesIssued(r) = 0 /\ ReducesIssued(r)' = 0
    BY <1>1, <1>2 DEF ReducesIssued, Outside
  <2>2. Issued(r) = GathersIssued(r) /\ Issued(r)' = GathersIssued(r)'
    BY <1>1, <1>2, <1>3, <2>1 DEF Issued, GathersIssued
  <2>3. CASE OverlapParamGather /\ success[r]
    <3>1. Issued(r) = 0 /\ Issued(r)' = 1
      BY <1>1, <1>5, <2>2, <2>3 DEF GathersIssued
    <3>2. Coll(Issued(r) + 1) = <<"gather", 1>>
      BY <1>2, <3>1 DEF Coll
    <3>. QED BY <1>5, <2>3, <3>1, <3>2, SMTT(30)
  <2>4. CASE ~(OverlapParamGather /\ success[r])
    BY <1>1, <1>5, <2>2, <2>4 DEF GathersIssued
  <2>. QED BY <2>3, <2>4
<1>11. InOrder(r)' /\ Done(r)' = Done(r) /\ View(r)' = View(r)
  BY <1>1, <1>4, <1>6, <1>10, Advance DEF Ready
<1>12. \A b \in Buckets, s \in Shards : Expected(r, b, s)' = Expected(r, b, s)
  BY <1>1, <1>2, <1>7, <1>11 DEF Expected, Place
<1>13. Params(r)' /\ Modules(r)' /\ (Zeroing => Grads(r))'
  BY <1>1, <1>7, <1>11, <1>12, Facts, Untouched
<1>14. (Zeroing => Skipped(r))'
  BY <1>1, <1>6, Facts, KeptSkipped
<1>. QED BY <1>8, <1>9, <1>11, <1>13, <1>14 DEF Kept, Local

LEMMA StartPassKeeps ==
  ASSUME NEW r \in Ranks, Ready(r), StartPass(r)
  PROVE  Kept(r)
<1>1. /\ pc[r] = "schedule"
      /\ \/ fwd[r] < M /\ pc'[r] = "forward" /\ at'[r] = 1
         \/ bwd[r] < fwd[r] /\ pc'[r] = "backward" /\ at'[r] = B
         \/ bwd[r] = M /\ pc'[r] = "finish" /\ at'[r] = 1
      /\ fwd' = fwd /\ bwd' = bwd /\ handles' = handles /\ copied' = copied /\ posted' = posted
      /\ it' = it /\ storage' = storage /\ model' = model /\ main' = main
      /\ success' = success /\ found' = found /\ overflowed' = overflowed /\ args' = args
  BY DEF Ready, TypeOK, StartPass, gathers
<1>2. /\ B \in Nat \ {0} /\ M \in Nat \ {0} /\ OverlapParamGather \in BOOLEAN
      /\ OverlapGradReduce \in BOOLEAN /\ OverlapParamGather' = OverlapParamGather
      /\ OverlapGradReduce' = OverlapGradReduce
      /\ fwd[r] \in 0 .. M /\ bwd[r] \in 0 .. M /\ success[r] \in BOOLEAN
      /\ Len(handles[r]) \in Nat
  BY Facts
<1>3. Counts(r) /\ Handles(r) /\ InOrder(r)
  BY Facts
<1>4. bwd[r] <= fwd[r]
  BY <1>1, <1>3 DEF Counts, Passes
<1>5. Steps(r)' = Steps(r)
  BY <1>1 DEF Steps
<1>6. \A b \in Buckets : Held(r, b)' = Held(r, b) /\ Backprops(r, b)' = Backprops(r, b)
  <2>. TAKE b \in Buckets
  <2>1. b \in 1 .. B
    BY DEF Buckets
  <2>2. Held(r, b)' <=> Held(r, b)
    <3>1. Held(r, b) <=> OverlapParamGather /\ fwd[r] = 0
      BY <1>1 DEF Held
    <3>2. Held(r, b)' <=> OverlapParamGather /\ fwd[r] = 0
      BY <1>1, <1>2, <1>4, <2>1 DEF Held
    <3>. QED BY <3>1, <3>2
  <2>3. Backprops(r, b)' = Backprops(r, b)
    BY <1>1, <1>2, <2>1 DEF Backprops, Outside
  <2>. QED BY <2>2, <2>3 DEF Held
<1>7. Counts(r)'
  BY <1>1, <1>2, <1>3, <1>4, <1>5 DEF Counts, Passes
<1>8. Handles(r)'
  <2>1. CASE success[r] /\ OverlapParamGather
    <3>1. /\ Len(copied[r]) = Len(handles[r])
          /\ \A b \in 1 .. Len(handles[r]) :
               /\ handles[r][b] = IF Held(r, b) THEN "flight" ELSE "None"
               /\ copied[r][b] <=> ~Held(r, b)
          /\ Len(handles[r]) = IF fwd[r] > 0 THEN B ELSE 1
      BY <1>1, <1>3, <2>1 DEF Handles
    <3>2. \A b \in 1 .. Len(handles[r]) : Held(r, b)' = Held(r, b)
      BY <1>2, <1>6, <3>1 DEF Buckets
    <3>3. Len(handles[r]) = IF fwd[r] > 0 THEN B ELSE at'[r]
      BY <1>1, <1>2, <3>1
    <3>. QED BY <1>1, <1>2, <2>1, <3>1, <3>2, <3>3 DEF Handles
  <2>2. CASE ~(success[r] /\ OverlapParamGather)
    BY <1>1, <1>2, <1>3, <2>2 DEF Handles
  <2>. QED BY <2>1, <2>2
<1>9. Issued(r)' = Issued(r)
  <2>1. ReducesIssued(r)' = ReducesIssued(r)
    BY <1>1, <1>2, <1>4 DEF ReducesIssued, Outside
  <2>. QED BY <1>1, <2>1 DEF Issued, GathersIssued
<1>10. InOrder(r)' /\ Done(r)' = Done(r) /\ View(r)' = View(r)
  BY <1>1, <1>3, <1>5, <1>9, Advance DEF Ready
<1>11. \A b \in Buckets, s \in Shards : Expected(r, b, s)' = Expected(r, b, s)
  BY <1>1, <1>2, <1>6, <1>10 DEF Expected, Place
<1>12. Params(r)' /\ Modules(r)' /\ (Zeroing => Grads(r))'
  BY <1>1, <1>6, <1>10, <1>11, Facts, Untouched
<1>13. (Zeroing => Skipped(r))'
  BY <1>1, <1>5, Facts, KeptSkipped
<1>. QED BY <1>7, <1>8, <1>10, <1>12, <1>13 DEF Kept, Local

(* Where the forward pass goes when it leaves a bucket.                     *)
LEMMA Leaving ==
  ASSUME NEW r \in Ranks, Ready(r), pc[r] = "forward", LeaveBucket(r)
  PROVE  /\ at[r] \in 1 .. B /\ fwd[r] < M
         /\ \/ at[r] < B /\ at'[r] = at[r] + 1 /\ pc'[r] = "forward" /\ fwd'[r] = fwd[r]
            \/ at[r] = B /\ at'[r] = 1 /\ pc'[r] = "schedule" /\ fwd'[r] = fwd[r] + 1
<1>1. at[r] \in 1 .. B /\ fwd[r] < M /\ B \in Nat
  BY Facts DEF Counts
<1>2. /\ at \in [Ranks -> 1 .. B + 1] /\ fwd \in [Ranks -> 0 .. M]
      /\ pc \in [Ranks -> {"zero", "schedule", "forward", "backward", "finish", "step", "check",
                           "gather", "copy", "between", "stopped"}]
  BY DEF Ready, TypeOK
<1>3. CASE at[r] < B
  BY <1>1, <1>2, <1>3 DEF LeaveBucket
<1>4. CASE at[r] = B
  BY <1>1, <1>2, <1>4 DEF LeaveBucket
<1>. QED BY <1>1, <1>3, <1>4

LEMMA ComputeForwardKeeps ==
  ASSUME NEW r \in Ranks, Ready(r), ComputeForward(r)
  PROVE  Kept(r)
<1>1. /\ pc[r] = "forward" /\ LeaveBucket(r)
      /\ \/ ~OverlapParamGather
         \/ at[r] > Len(handles[r])
         \/ at[r] <= Len(handles[r]) /\ handles[r][at[r]] = "None"
      /\ bwd' = bwd /\ handles' = handles /\ copied' = copied /\ posted' = posted
      /\ it' = it /\ storage' = storage /\ model' = model /\ main' = main
      /\ success' = success /\ found' = found /\ overflowed' = overflowed /\ args' = args
  BY DEF Ready, ComputeForward, gathers
<1>2. /\ at[r] \in 1 .. B /\ fwd[r] < M
      /\ \/ at[r] < B /\ at'[r] = at[r] + 1 /\ pc'[r] = "forward" /\ fwd'[r] = fwd[r]
         \/ at[r] = B /\ at'[r] = 1 /\ pc'[r] = "schedule" /\ fwd'[r] = fwd[r] + 1
  BY <1>1, Leaving
<1>3. /\ B \in Nat \ {0} /\ M \in Nat \ {0} /\ OverlapParamGather \in BOOLEAN
      /\ OverlapGradReduce \in BOOLEAN /\ OverlapParamGather' = OverlapParamGather
      /\ OverlapGradReduce' = OverlapGradReduce
      /\ fwd[r] \in 0 .. M /\ bwd[r] \in 0 .. M /\ success[r] \in BOOLEAN
      /\ Len(handles[r]) \in Nat
  BY Facts
<1>4. Counts(r) /\ Handles(r) /\ InOrder(r) /\ bwd[r] <= fwd[r]
  BY <1>1, Facts DEF Counts, Passes
<1>5. OverlapParamGather /\ success[r] => fwd[r] > 0
  <2>1. SUFFICES ASSUME OverlapParamGather, success[r], fwd[r] = 0 PROVE FALSE
    BY <1>3
  <2>2. Len(handles[r]) = at[r] /\ Held(r, at[r])
    BY <1>1, <1>2, <1>4, <2>1 DEF Handles, Held
  <2>3. handles[r][at[r]] = "flight"
    BY <1>2, <1>4, <2>1, <2>2 DEF Handles
  <2>. QED BY <1>1, <1>2, <2>1, <2>2, <2>3
<1>6. Steps(r)' = Steps(r)
  BY <1>1, <1>2 DEF Steps
<1>7. ASSUME NEW b \in Buckets
      PROVE  /\ success[r] \/ ~OverlapParamGather => ~Held(r, b) /\ ~Held(r, b)'
             /\ success[r] \/ ~OverlapParamGather => (Held(r, b)' <=> Held(r, b))
             /\ Backprops(r, b)' = Backprops(r, b)
  <2>1. success[r] \/ ~OverlapParamGather => ~Held(r, b)
    BY <1>1, <1>3, <1>5 DEF Held
  <2>2. success[r] \/ ~OverlapParamGather => ~Held(r, b)'
    BY <1>2, <1>3, <1>5 DEF Held
  <2>3. Backprops(r, b)' = Backprops(r, b)
    BY <1>1, <1>2 DEF Backprops, Outside
  <2>. QED BY <2>1, <2>2, <2>3
<1>8. Counts(r)'
  BY <1>1, <1>2, <1>3, <1>4, <1>6 DEF Counts, Passes
<1>9. Handles(r)'
  <2>1. CASE success[r] /\ OverlapParamGather
    <3>1. /\ Len(copied[r]) = Len(handles[r]) /\ Len(handles[r]) = B
          /\ \A b \in 1 .. Len(handles[r]) :
               /\ handles[r][b] = IF Held(r, b) THEN "flight" ELSE "None"
               /\ copied[r][b] <=> ~Held(r, b)
      BY <1>1, <1>4, <1>5, <2>1 DEF Handles
    <3>2. \A b \in 1 .. Len(handles[r]) : ~Held(r, b) /\ ~Held(r, b)'
      BY <1>7, <2>1, <3>1 DEF Buckets
    <3>3. \A b \in 1 .. Len(handles[r]) :
               /\ handles[r][b] = IF Held(r, b)' THEN "flight" ELSE "None"
               /\ copied[r][b] <=> ~Held(r, b)'
      BY <3>1, <3>2
    <3>4. fwd'[r] > 0
      BY <1>2, <1>3, <1>5, <2>1
    <3>. QED BY <1>1, <1>2, <1>3, <2>1, <3>1, <3>3, <3>4 DEF Handles
  <2>2. CASE ~(success[r] /\ OverlapParamGather)
    BY <1>1, <1>2, <1>3, <1>4, <2>2 DEF Handles
  <2>. QED BY <2>1, <2>2
<1>10. Issued(r)' = Issued(r)
  <2>1. ReducesIssued(r)' = ReducesIssued(r)
    BY <1>1, <1>2, <1>3 DEF ReducesIssued, Outside
  <2>. QED BY <1>1, <1>2, <2>1 DEF Issued, GathersIssued
<1>11. InOrder(r)' /\ Done(r)' = Done(r) /\ View(r)' = View(r)
  BY <1>1, <1>2, <1>4, <1>6, <1>10, Advance DEF Ready
<1>12. \A b \in Buckets, s \in Shards : Expected(r, b, s)' = Expected(r, b, s)
  BY <1>1, <1>3, <1>7, <1>11 DEF Expected, Place
<1>13. Params(r)' /\ Modules(r)' /\ (Zeroing => Grads(r))'
  BY <1>1, <1>7, <1>11, <1>12, Facts, Untouched
<1>14. (Zeroing => Skipped(r))'
  BY <1>1, <1>2, <1>6, Facts, KeptSkipped
<1>. QED BY <1>8, <1>9, <1>11, <1>13, <1>14 DEF Kept, Local

LEMMA FinishParamSyncKeeps ==
  ASSUME NEW r \in Ranks, Ready(r), FinishParamSync(r)
  PROVE  Kept(r)
<1>. DEFINE b == at[r]
<1>1. /\ pc[r] = "forward" /\ LeaveBucket(r) /\ OverlapParamGather
      /\ b <= Len(handles[r]) /\ handles[r][b] = "flight" /\ ~Pending(r, <<"gather", b>>)
      /\ it' = it /\ bwd' = bwd /\ main' = main /\ success' = success /\ found' = found
      /\ overflowed' = overflowed /\ args' = args
  BY DEF Ready, FinishParamSync
<1>2. /\ b \in 1 .. B /\ fwd[r] < M
      /\ \/ b < B /\ at'[r] = b + 1 /\ pc'[r] = "forward" /\ fwd'[r] = fwd[r]
         \/ b = B /\ at'[r] = 1 /\ pc'[r] = "schedule" /\ fwd'[r] = fwd[r] + 1
  BY <1>1, Leaving
<1>3. /\ B \in Nat \ {0} /\ M \in Nat \ {0} /\ OverlapParamGather \in BOOLEAN
      /\ OverlapGradReduce \in BOOLEAN /\ OverlapParamGather' = OverlapParamGather
      /\ OverlapGradReduce' = OverlapGradReduce
      /\ fwd[r] \in 0 .. M /\ bwd[r] \in 0 .. M /\ success[r] \in BOOLEAN
      /\ handles[r] \in Seq({"flight", "None"}) /\ copied[r] \in Seq(BOOLEAN)
      /\ posted[r] \in Seq(Collectives) /\ Len(handles[r]) \in Nat /\ main[r] \in 0 .. Iterations
  BY Facts
<1>4. Counts(r) /\ Handles(r) /\ InOrder(r) /\ bwd[r] <= fwd[r]
  BY <1>1, Facts DEF Counts, Passes
<1>5. /\ success[r] /\ fwd[r] = 0 /\ bwd[r] = 0
      /\ Len(handles[r]) = b /\ Len(copied[r]) = b
      /\ \A x \in 1 .. b : /\ handles[r][x] = IF x < b THEN "None" ELSE "flight"
                           /\ copied[r][x] <=> x < b
  <2>1. success[r]
    <3>1. handles[r] # <<>>
      <4>1. Len(<<>>) = 0 /\ Len(handles[r]) # 0
        BY <1>1, <1>2, <1>3
      <4>. QED BY <4>1
    <3>. QED BY <1>4, <3>1 DEF Handles
  <2>2. \A x \in 1 .. Len(handles[r]) :
            /\ handles[r][x] = IF Held(r, x) THEN "flight" ELSE "None"
            /\ copied[r][x] <=> ~Held(r, x)
    BY <1>1, <1>4, <2>1 DEF Handles
  <2>3. Held(r, b)
    BY <1>1, <1>2, <1>3, <2>2
  <2>4. fwd[r] = 0
    BY <1>1, <1>3, <2>3 DEF Held
  <2>5. Len(handles[r]) = b /\ Len(copied[r]) = b
    BY <1>1, <1>3, <1>4, <2>1, <2>4 DEF Handles
  <2>6. \A x \in 1 .. b : Held(r, x) <=> ~(x < b)
    BY <1>1, <1>2, <2>4 DEF Held
  <2>. QED BY <1>3, <1>4, <2>1, <2>2, <2>4, <2>5, <2>6
<1>6. Issued(r) = b /\ Done(r) = b /\ posted[r] = <<>>
  <2>1. ReducesIssued(r) = 0
    BY <1>1, <1>3, <1>5 DEF ReducesIssued, Outside
  <2>2. Issued(r) = b
    BY <1>1, <1>2, <1>5, <2>1 DEF Issued, GathersIssued
  <2>3. Coll(Issued(r)) = <<"gather", b>>
    BY <1>2, <2>2 DEF Coll
  <2>. QED BY <1>1, <1>4, <2>2, <2>3, LastPosted DEF Ready
<1>7. /\ storage' = [storage EXCEPT ![r][b] = [s \in Shards |-> Zeroed]]
      /\ model' = [model EXCEPT ![r][b] = [s \in Shards |-> storage[r][b][s].params]]
  <2>1. ~copied[r][b]
    BY <1>2, <1>5
  <2>. QED BY <1>5, <2>1 DEF FinishParamSync, CopyParams
<1>8. IF b < B
        THEN /\ Len(handles'[r]) = b + 1 /\ Len(copied'[r]) = b + 1
             /\ \A x \in 1 .. b + 1 : /\ handles'[r][x] = IF x < b + 1 THEN "None" ELSE "flight"
                                      /\ copied'[r][x] <=> x < b + 1
             /\ posted'[r] = Append(posted[r], <<"gather", b + 1>>)
        ELSE /\ Len(handles'[r]) = b /\ Len(copied'[r]) = b
             /\ \A x \in 1 .. b : handles'[r][x] = "None" /\ copied'[r][x]
             /\ posted'[r] = posted[r]
  <2>. DEFINE hs == [handles[r] EXCEPT ![b] = "None"]
              cs == [copied[r] EXCEPT ![b] = TRUE]
  <2>1. /\ hs \in Seq({"flight", "None"}) /\ cs \in Seq(BOOLEAN) /\ Len(hs) = b /\ Len(cs) = b
        /\ \A x \in 1 .. b : hs[x] = "None" /\ cs[x]
    BY <1>2, <1>3, <1>5
  <2>2. CASE b < B
    <3>1. handles'[r] = Append(hs, "flight") /\ copied'[r] = Append(cs, FALSE)
      BY <1>2, <1>5, <2>2 DEF FinishParamSync, Dispatched, Uncopied, Ready, TypeOK
    <3>2. posted'[r] = Append(posted[r], <<"gather", b + 1>>)
      BY <1>2, <1>5, <2>2 DEF FinishParamSync, Dispatch, Post, Ready, TypeOK
    <3>. HIDE DEF hs, cs
    <3>3. /\ Len(handles'[r]) = b + 1 /\ Len(copied'[r]) = b + 1
          /\ handles'[r][b + 1] = "flight" /\ ~copied'[r][b + 1]
          /\ \A x \in 1 .. b : handles'[r][x] = "None" /\ copied'[r][x]
      <4>1. "flight" \in {"flight", "None"} /\ FALSE \in BOOLEAN
        OBVIOUS
      <4>2. /\ Len(handles'[r]) = b + 1 /\ handles'[r][b + 1] = "flight"
            /\ \A x \in 1 .. b : handles'[r][x] = hs[x]
        BY <2>1, <3>1, <4>1, Snoc
      <4>3. /\ Len(copied'[r]) = b + 1 /\ ~copied'[r][b + 1]
            /\ \A x \in 1 .. b : copied'[r][x] <=> cs[x]
        BY <2>1, <3>1, <4>1, Snoc
      <4>. QED BY <2>1, <4>2, <4>3
    <3>. QED BY <1>2, <2>2, <3>2, <3>3
  <2>3. CASE ~(b < B)
    <3>1. handles'[r] = hs /\ copied'[r] = cs /\ posted'[r] = posted[r]
      BY <1>2, <1>5, <2>3 DEF FinishParamSync, Ready, TypeOK
    <3>. HIDE DEF hs, cs
    <3>. QED BY <2>1, <2>3, <3>1
  <2>. QED BY <2>2, <2>3
<1>. HIDE DEF b
<1>9. \A x \in Buckets : /\ Held(r, x) <=> x >= b
                         /\ Held(r, x)' <=> x > b
                         /\ Backprops(r, x) = 0 /\ Backprops(r, x)' = 0
  <2>. TAKE x \in Buckets
  <2>0. x \in 1 .. B
    BY DEF Buckets
  <2>1. Held(r, x) <=> x >= b
    BY <1>1, <1>5 DEF Held, b
  <2>2. Held(r, x)' <=> x > b
    BY <1>1, <1>2, <1>3, <1>5, <2>0 DEF Held
  <2>3. Backprops(r, x) = 0 /\ Backprops(r, x)' = 0
    BY <1>1, <1>2, <1>5 DEF Backprops, Outside
  <2>. QED BY <2>1, <2>2, <2>3
<1>10. Steps(r)' = Steps(r)
  BY <1>1, <1>2 DEF Steps
<1>11. Counts(r)'
  BY <1>1, <1>2, <1>3, <1>4, <1>5, <1>10 DEF Counts, Passes
<1>12. Handles(r)'
  <2>1. \A x \in 1 .. Len(handles'[r]) :
          /\ handles'[r][x] = IF Held(r, x)' THEN "flight" ELSE "None"
          /\ copied'[r][x] <=> ~Held(r, x)'
    <3>. TAKE x \in 1 .. Len(handles'[r])
    <3>1. x \in Buckets /\ (Held(r, x)' <=> x > b)
      BY <1>2, <1>3, <1>8, <1>9, SMTT(20) DEF Buckets
    <3>2. CASE b < B
      BY <1>2, <1>8, <3>1, <3>2
    <3>3. CASE ~(b < B)
      BY <1>2, <1>8, <3>1, <3>3
    <3>. QED BY <3>2, <3>3
  <2>2. /\ Len(copied'[r]) = Len(handles'[r])
        /\ Len(handles'[r]) = IF fwd'[r] > 0 THEN B ELSE at'[r]
    BY <1>2, <1>3, <1>5, <1>8
  <2>. QED BY <1>1, <1>2, <1>3, <1>5, <2>1, <2>2 DEF Handles
<1>13. InOrder(r)' /\ Done(r)' = Done(r) /\ View(r)' = View(r)
  <2>1. ReducesIssued(r)' = 0
    BY <1>1, <1>2, <1>3, <1>5 DEF ReducesIssued, Outside
  <2>2. Issued(r)' = Len(handles'[r])
    <3>1. Len(handles'[r]) \in Int
      BY <1>2, <1>8
    <3>2. GathersIssued(r)' = Len(handles'[r])
      BY <1>1, <1>5 DEF GathersIssued
    <3>3. pc'[r] # "check"
      BY <1>2
    <3>. QED BY <2>1, <3>1, <3>2, <3>3 DEF Issued
  <2>3. \/ posted'[r] = posted[r] /\ Issued(r)' = Issued(r) /\ pc'[r] # "check"
        \/ /\ posted'[r] = Append(posted[r], Coll(Issued(r) + 1))
           /\ Issued(r)' = Issued(r) + 1
    <3>1. b < B => Coll(Issued(r) + 1) = <<"gather", b + 1>>
      BY <1>2, <1>3, <1>6 DEF Coll
    <3>. QED BY <1>2, <1>6, <1>8, <2>2, <3>1
  <2>. QED BY <1>1, <1>2, <1>4, <1>10, <2>3, Advance DEF Ready
<1>14. \A x \in Buckets, s \in Shards :
         /\ x # b => storage'[r][x][s] = storage[r][x][s] /\ model'[r][x][s] = model[r][x][s]
         /\ x = b => storage'[r][x][s] = Zeroed /\ model'[r][x][s] = storage[r][x][s].params
  <2>1. /\ storage \in [Ranks -> [Buckets -> [Shards -> Cells]]]
        /\ model \in [Ranks -> [Buckets -> [Shards -> NoParams .. Iterations]]]
    BY DEF Ready, TypeOK
  <2>. QED BY <1>7, <2>1
<1>15. \A x \in Buckets, s \in Shards :
         /\ Arrived(r, x, s)' <=> x # b /\ Arrived(r, x, s)
         /\ Expected(r, x, s)' = Expected(r, x, s) /\ Expected(r, b, s) = {}
  <2>. TAKE x \in Buckets, s \in Shards
  <2>1. x \in 1 .. B /\ b \in Buckets
    BY <1>2 DEF Buckets
  <2>2. Arrived(r, x, s)' <=> x # b /\ Arrived(r, x, s)
    BY <1>1, <1>2, <1>9, <1>13, <2>1 DEF Arrived
  <2>3. Expected(r, x, s)' = Expected(r, x, s)
    BY <1>1, <1>3, <1>9, <1>13 DEF Expected, Place
  <2>4. Place(b) > b
    BY <1>2, <1>3 DEF Place
  <2>5. Expected(r, b, s) = {r} \X {it[r]} \X (1 .. 0)
    BY <1>2, <1>3, <1>6, <1>9, <2>1, <2>4 DEF Expected, Place
  <2>. QED BY <2>2, <2>3, <2>5
<1>16. \A s \in Shards : Arrived(r, b, s)
  BY <1>2, <1>5, <1>6, <1>9 DEF Arrived, Buckets
<1>17. Params(r)'
  <2>. SUFFICES ASSUME NEW x \in Buckets, NEW s \in Shards
                PROVE  storage'[r][x][s].params = IF Arrived(r, x, s)' THEN main[r] ELSE NoParams
    BY <1>1 DEF Params
  <2>1. Params(r)
    BY Facts
  <2>. QED BY <1>14, <1>15, <2>1 DEF Params, Zeroed
<1>18. Modules(r)'
  <2>. SUFFICES ASSUME NEW x \in Buckets, ~(success[r] /\ Held(r, x))'
                PROVE  Current(r, x)' /\ Done(r)' >= x
    BY DEF Modules
  <2>1. CASE x = b
    <3>1. Current(r, x)'
      BY <1>1, <1>14, <1>16, <2>1, Facts DEF Current, Params
    <3>. QED BY <1>2, <1>3, <1>6, <1>13, <2>1, <3>1
  <2>2. CASE x # b
    <3>1. ~Held(r, x)
      BY <1>1, <1>2, <1>5, <1>9, <2>2 DEF Buckets
    <3>2. Current(r, x) /\ Done(r) >= x
      BY <3>1, Facts DEF Modules
    <3>. QED BY <1>1, <1>13, <1>14, <2>2, <3>2 DEF Current
  <2>. QED BY <2>1, <2>2
<1>19. (Zeroing => Grads(r))'
  <2>. SUFFICES ASSUME Zeroing, NEW x \in Buckets, NEW s \in Shards
                PROVE  storage'[r][x][s].grads =
                         IF Arrived(r, x, s)' THEN {}
                         ELSE IF Held(r, x)' THEN storage'[r][x][s].grads
                         ELSE Expected(r, x, s)'
    BY <1>1, <1>3, <1>5 DEF Grads, Zeroing
  <2>1. CASE x = b
    <3>1. ~Arrived(r, x, s)' /\ ~Held(r, x)'
      BY <1>2, <1>9, <1>15, <2>1 DEF Buckets
    <3>2. Expected(r, x, s)' = {}
      BY <1>15, <2>1
    <3>3. storage'[r][x][s].grads = {}
      BY <1>14, <2>1 DEF Zeroed
    <3>. QED BY <3>1, <3>2, <3>3
  <2>2. CASE x # b
    <3>1. Held(r, x)' <=> Held(r, x)
      BY <1>2, <1>9, <2>2 DEF Buckets
    <3>2. Grads(r)
      BY Facts
    <3>3. storage[r][x][s].grads =
            IF Arrived(r, x, s) THEN {}
            ELSE IF Held(r, x) THEN storage[r][x][s].grads
            ELSE Expected(r, x, s)
      BY <1>5, <3>2 DEF Grads
    <3>. QED BY <1>14, <1>15, <2>2, <3>1, <3>3
  <2>. QED BY <2>1, <2>2
<1>20. (Zeroing => Skipped(r))'
  BY <1>1, <1>2, <1>10, Facts, KeptSkipped
<1>. QED BY <1>11, <1>12, <1>13, <1>17, <1>18, <1>19, <1>20 DEF Kept, Local

LEMMA BackwardBucketKeeps ==
  ASSUME NEW r \in Ranks, Ready(r), BackwardBucket(r),
         overflowed \subseteq overflowed', IsFiniteSet(overflowed')
  PROVE  Kept(r)
<1>. DEFINE b == at[r]
            c == <<r, it[r], bwd[r] + 1>>
            last == OverlapGradReduce /\ bwd[r] + 1 = M
<1>1. /\ pc[r] = "backward"
      /\ \/ b > 1 /\ at'[r] = b - 1 /\ pc'[r] = "backward" /\ bwd'[r] = bwd[r]
         \/ ~(b > 1) /\ at'[r] = b /\ pc'[r] = "schedule" /\ bwd'[r] = bwd[r] + 1
      /\ posted'[r] = IF last THEN Append(posted[r], <<"reduce", b>>) ELSE posted[r]
      /\ fwd' = fwd /\ it' = it /\ handles' = handles /\ copied' = copied /\ model' = model
      /\ main' = main /\ success' = success /\ found' = found /\ args' = args
  BY DEF Ready, TypeOK, BackwardBucket, Post, gathers
<1>2. /\ B \in Nat \ {0} /\ M \in Nat \ {0} /\ OverlapParamGather \in BOOLEAN
      /\ OverlapGradReduce \in BOOLEAN /\ OverlapParamGather' = OverlapParamGather
      /\ OverlapGradReduce' = OverlapGradReduce
      /\ fwd[r] \in 0 .. M /\ bwd[r] \in 0 .. M /\ success[r] \in BOOLEAN
      /\ Len(handles[r]) \in Nat /\ Len(posted[r]) \in Nat
  BY Facts
<1>3. Counts(r) /\ Handles(r) /\ InOrder(r)
  BY Facts
<1>4. b \in 1 .. B /\ bwd[r] < fwd[r]
  BY <1>1, Facts DEF Counts
<1>5. Steps(r)' = Steps(r)
  BY <1>1 DEF Steps
<1>6. \A x : ~Held(r, x) /\ ~Held(r, x)'
  BY <1>1, <1>2, <1>4 DEF Held
<1>7. Counts(r)'
  BY <1>1, <1>2, <1>3, <1>4, <1>5 DEF Counts, Passes
<1>8. success[r] => Len(handles[r]) = B
  BY <1>1, <1>2, <1>3, <1>4 DEF Handles
<1>9. Handles(r)'
  BY <1>1, <1>2, <1>3, <1>4, <1>6, <1>8 DEF Handles
<1>10. /\ Issued(r) = B + (IF last THEN B - b ELSE 0)
       /\ Issued(r)' = B + (IF last THEN B - b + 1 ELSE 0)
  <2>1. /\ ReducesIssued(r) = IF last THEN B - b ELSE 0
        /\ ReducesIssued(r)' = IF last THEN B - b + 1 ELSE 0
    <3>1. bwd[r] # M /\ pc[r] = "backward" /\ OverlapGradReduce' = OverlapGradReduce
      BY <1>1, <1>2, <1>4
    <3>2. ReducesIssued(r) = IF last THEN B - b ELSE 0
      BY <3>1 DEF ReducesIssued, Outside
    <3>3. CASE b > 1
      <4>1. pc'[r] = "backward" /\ bwd'[r] = bwd[r] /\ B - at'[r] = B - b + 1
        BY <1>1, <1>2, <1>4, <3>3, SMTT(20)
      <4>2. ReducesIssued(r)' = IF last THEN B - at'[r] ELSE 0
        BY <3>1, <4>1 DEF ReducesIssued, Outside
      <4>. QED BY <3>2, <4>1, <4>2
    <3>4. CASE ~(b > 1)
      <4>1. pc'[r] = "schedule" /\ bwd'[r] = bwd[r] + 1 /\ B - b + 1 = B
        BY <1>1, <1>2, <1>4, <3>4
      <4>2. ReducesIssued(r)' = IF last THEN B ELSE 0
        BY <3>1, <4>1 DEF ReducesIssued, Outside
      <4>. QED BY <3>2, <4>1, <4>2
    <3>. QED BY <3>3, <3>4
  <2>2. GathersIssued(r) = B /\ GathersIssued(r)' = B
    BY <1>1, <1>2, <1>8 DEF GathersIssued
  <2>. QED BY <1>1, <1>2, <1>4, <2>1, <2>2 DEF Issued
<1>11. InOrder(r)' /\ Done(r)' = Done(r) /\ View(r)' = View(r)
  <2>1. last => Coll(Issued(r) + 1) = <<"reduce", b>>
    BY <1>2, <1>4, <1>10, SMTT(20) DEF Coll
  <2>2. \/ posted'[r] = posted[r] /\ Issued(r)' = Issued(r) /\ pc'[r] # "check"
        \/ /\ posted'[r] = Append(posted[r], Coll(Issued(r) + 1))
           /\ Issued(r)' = Issued(r) + 1
    <3>1. CASE last
      <4>1. Issued(r)' = Issued(r) + 1
        BY <1>2, <1>4, <1>10, <3>1
      <4>. QED BY <1>1, <2>1, <3>1, <4>1
    <3>2. CASE ~last
      <4>1. Issued(r)' = Issued(r)
        BY <1>10, <3>2
      <4>. QED BY <1>1, <3>2, <4>1
    <3>. QED BY <3>1, <3>2
  <2>. QED BY <1>1, <1>3, <1>5, <2>2, Advance DEF Ready
<1>12. Done(r) < Place(b)
  <2>1. Issued(r) < Place(b)
    BY <1>2, <1>4, <1>10 DEF Place
  <2>. QED BY <1>2, <1>4, <1>10, <2>1, SMTT(20) DEF Done, Place
<1>13. \A x \in Buckets, s \in Shards :
         /\ storage'[r][x][s].params = storage[r][x][s].params
         /\ storage'[r][x][s].grads = storage[r][x][s].grads \cup (IF x = b THEN {c} ELSE {})
  <2>1. storage \in [Ranks -> [Buckets -> [Shards -> Cells]]]
    BY DEF Ready, TypeOK
  <2>2. storage' = [storage EXCEPT ![r][b] =
                     [s \in Shards |-> [storage[r][b][s] EXCEPT !.grads = @ \cup {c}]]]
    BY DEF BackwardBucket
  <2>. TAKE x \in Buckets, s \in Shards
  <2>3. storage[r][x][s] \in Cells
    BY <2>1
  <2>4. storage'[r][x][s] = IF x = b THEN [storage[r][x][s] EXCEPT !.grads = @ \cup {c}]
                            ELSE storage[r][x][s]
    <3>. HIDE DEF c
    <3>. QED BY <2>1, <2>2
  <2>. HIDE DEF b, c
  <2>. QED BY <2>3, <2>4 DEF Cells
<1>. HIDE DEF b, c
<1>14. Params(r)'
  <2>1. Params(r)
    BY Facts
  <2>2. \A x, s : ~Arrived(r, x, s) /\ ~Arrived(r, x, s)'
    BY <1>6 DEF Arrived
  <2>. QED BY <1>13, <2>1, <2>2 DEF Params
<1>15. Modules(r)'
  <2>1. Modules(r)
    BY Facts
  <2>. QED BY <1>1, <1>6, <1>11, <2>1 DEF Modules, Current
<1>16. ASSUME Zeroing' PROVE Grads(r)' /\ Skipped(r)'
  <2>1. Grads(r) /\ Skipped(r)
    BY <1>16, <1>2, Facts DEF Zeroing
  <2>2. \A x \in Buckets, s \in Shards : storage[r][x][s].grads = Expected(r, x, s)
    BY <1>6, <2>1 DEF Grads, Arrived
  <2>3. ASSUME NEW x \in Buckets, NEW s \in Shards
        PROVE  Expected(r, x, s)' = Expected(r, x, s) \cup (IF x = b THEN {c} ELSE {})
    <3>0. x \in 1 .. B
      BY DEF Buckets
    <3>1. Place(x)' = Place(x)
      BY <1>2 DEF Place
    <3>2. CASE x = b
      <4>1. Backprops(r, x) = bwd[r] /\ Backprops(r, x)' = bwd[r] + 1
        BY <1>1, <1>2, <1>4, <3>2 DEF Backprops, Outside, b
      <4>2. /\ Expected(r, x, s) = {r} \X {it[r]} \X (1 .. bwd[r])
            /\ Expected(r, x, s)' = {r} \X {it[r]} \X (1 .. bwd[r] + 1)
        <5>1. ~(Done(r) >= Place(x)) /\ ~(Done(r)' >= Place(x)')
          BY <1>2, <1>4, <1>10, <1>11, <1>12, <3>1, <3>2, SMTT(20) DEF Done, Place
        <5>. QED BY <1>1, <4>1, <5>1 DEF Expected
      <4>3. {r} \X {it[r]} \X (1 .. bwd[r] + 1) = ({r} \X {it[r]} \X (1 .. bwd[r])) \cup {c}
        <5>1. 1 .. bwd[r] + 1 = (1 .. bwd[r]) \cup {bwd[r] + 1}
          BY <1>2
        <5>. QED BY <5>1 DEF c
      <4>. QED BY <3>2, <4>2, <4>3
    <3>3. CASE x # b
      <4>1. Backprops(r, x) = Backprops(r, x)'
        BY <1>1, <1>2, <1>4, <3>0, <3>3 DEF Backprops, Outside, b
      <4>. QED BY <1>1, <1>11, <3>1, <3>3, <4>1 DEF Expected
    <3>. QED BY <3>2, <3>3
  <2>4. Grads(r)'
    <3>1. \A x \in Buckets, s \in Shards : storage'[r][x][s].grads = Expected(r, x, s)'
      <4>. TAKE x \in Buckets, s \in Shards
      <4>1. storage'[r][x][s].grads = storage[r][x][s].grads \cup (IF x = b THEN {c} ELSE {})
        BY <1>13
      <4>2. storage[r][x][s].grads = Expected(r, x, s)
        BY <2>2
      <4>. QED BY <2>3, <4>1, <4>2
    <3>2. \A x, s : ~Arrived(r, x, s)'
      BY <1>6 DEF Arrived
    <3>. QED BY <1>6, <3>1, <3>2 DEF Grads
  <2>5. main[r] \in Int /\ Steps(r) \in Int
    BY Typed, Setting DEF Ready
  <2>6. Skipped(r)'
    BY <1>1, <1>5, <2>1, <2>5, StaySkipped
  <2>. QED BY <2>4, <2>6
<1>. QED BY <1>7, <1>9, <1>11, <1>14, <1>15, <1>16 DEF Kept, Local

LEMMA FinishGradSyncKeeps ==
  ASSUME NEW r \in Ranks, Ready(r), FinishGradSync(r)
  PROVE  Kept(r)
<1>1. /\ pc[r] = "finish"
      /\ \/ /\ OverlapGradReduce /\ \A b \in Buckets : ~Pending(r, <<"reduce", b>>)
            /\ pc'[r] = "step" /\ at'[r] = at[r] /\ posted'[r] = posted[r]
         \/ /\ ~OverlapGradReduce /\ posted[r] = <<>>
            /\ at[r] <= B /\ pc'[r] = "finish" /\ at'[r] = at[r] + 1
            /\ posted'[r] = Append(posted[r], <<"reduce", at[r]>>)
         \/ /\ ~OverlapGradReduce /\ posted[r] = <<>>
            /\ ~(at[r] <= B) /\ pc'[r] = "step" /\ at'[r] = 1 /\ posted'[r] = posted[r]
      /\ bwd' = bwd /\ fwd' = fwd /\ handles' = handles /\ copied' = copied
      /\ it' = it /\ storage' = storage /\ model' = model /\ main' = main
      /\ success' = success /\ found' = found /\ overflowed' = overflowed /\ args' = args
  BY DEF Ready, TypeOK, FinishGradSync, Post, gathers
<1>2. /\ B \in Nat \ {0} /\ M \in Nat \ {0} /\ OverlapParamGather \in BOOLEAN
      /\ OverlapGradReduce \in BOOLEAN /\ OverlapParamGather' = OverlapParamGather
      /\ OverlapGradReduce' = OverlapGradReduce
      /\ at[r] \in 1 .. B + 1 /\ success[r] \in BOOLEAN /\ Len(handles[r]) \in Nat
  BY Facts
<1>3. Counts(r) /\ Handles(r) /\ InOrder(r) /\ bwd[r] = M /\ fwd[r] = M
  BY <1>1, Facts DEF Counts
<1>4. Steps(r)' = Steps(r)
  BY <1>1 DEF Steps
<1>5. \A b \in Buckets : ~Held(r, b) /\ ~Held(r, b)' /\ Backprops(r, b)' = Backprops(r, b)
  BY <1>1, <1>2, <1>3 DEF Held, Backprops, Outside
<1>6. success[r] => Len(handles[r]) = B
  BY <1>1, <1>2, <1>3 DEF Handles
<1>7. /\ Issued(r) = B + (IF OverlapGradReduce THEN B ELSE at[r] - 1)
      /\ Issued(r)' = B + (IF OverlapGradReduce \/ pc'[r] = "step" THEN B ELSE at'[r] - 1)
  <2>1. /\ ReducesIssued(r) = IF OverlapGradReduce THEN B ELSE at[r] - 1
        /\ ReducesIssued(r)' = IF OverlapGradReduce \/ pc'[r] = "step" THEN B ELSE at'[r] - 1
    BY <1>1, <1>2, <1>3 DEF ReducesIssued, Outside
  <2>2. GathersIssued(r) = B /\ GathersIssued(r)' = B
    BY <1>1, <1>2, <1>6 DEF GathersIssued
  <2>. QED BY <1>1, <1>2, <2>1, <2>2 DEF Issued
<1>8. pc'[r] = "step" => posted'[r] = <<>>
  <2>. SUFFICES ASSUME OverlapGradReduce, pc'[r] = "step" PROVE posted[r] = <<>>
    BY <1>1
  <2>1. Coll(Issued(r)) = <<"reduce", 1>> /\ 1 \in Buckets
    BY <1>2, <1>7 DEF Coll, Buckets
  <2>. QED BY <1>1, <1>3, <2>1, LastPosted DEF Ready
<1>9. Counts(r)'
  BY <1>1, <1>2, <1>3, <1>4, <1>8 DEF Counts, Passes
<1>10. Handles(r)'
  <2>1. CASE success[r] /\ OverlapParamGather
    <3>1. \A b \in 1 .. Len(handles[r]) : b \in Buckets
      BY <1>6, <2>1 DEF Buckets
    <3>. QED BY <1>1, <1>2, <1>3, <1>5, <1>6, <2>1, <3>1 DEF Handles
  <2>2. CASE ~(success[r] /\ OverlapParamGather)
    BY <1>1, <1>2, <1>3, <1>6, <2>2 DEF Handles
  <2>. QED BY <2>1, <2>2
<1>11. InOrder(r)' /\ Done(r)' = Done(r) /\ View(r)' = View(r)
  <2>1. \/ posted'[r] = posted[r] /\ Issued(r)' = Issued(r) /\ pc'[r] # "check"
        \/ /\ posted'[r] = Append(posted[r], Coll(Issued(r) + 1))
           /\ Issued(r)' = Issued(r) + 1
    <3>1. CASE OverlapGradReduce
      BY <1>1, <1>7, <3>1
    <3>2. CASE ~OverlapGradReduce /\ at[r] <= B
      <4>1. Coll(Issued(r) + 1) = <<"reduce", at[r]>>
        BY <1>2, <1>7, <3>2 DEF Coll
      <4>2. Issued(r)' = Issued(r) + 1
        BY <1>1, <1>2, <1>7, <3>2
      <4>. QED BY <1>1, <3>2, <4>1, <4>2
    <3>3. CASE ~OverlapGradReduce /\ ~(at[r] <= B)
      BY <1>1, <1>2, <1>7, <3>3
    <3>. QED BY <3>1, <3>2, <3>3
  <2>. QED BY <1>1, <1>3, <1>4, <2>1, Advance DEF Ready
<1>12. \A b \in Buckets, s \in Shards : Expected(r, b, s)' = Expected(r, b, s)
  BY <1>1, <1>2, <1>5, <1>11 DEF Expected, Place
<1>13. Params(r)' /\ Modules(r)' /\ (Zeroing => Grads(r))'
  BY <1>1, <1>5, <1>11, <1>12, Facts, Untouched
<1>14. (Zeroing => Skipped(r))'
  BY <1>1, <1>4, Facts, KeptSkipped
<1>. QED BY <1>9, <1>10, <1>11, <1>13, <1>14 DEF Kept, Local

LEMMA UnscaleKeeps ==
  ASSUME NEW r \in Ranks, Ready(r), Unscale(r)
  PROVE  Kept(r)
<1>1. /\ pc[r] = "step" /\ pc'[r] = "check"
      /\ posted'[r] = Append(posted[r], <<"inf", 0>>)
      /\ found'[r] => \E b \in Buckets : \E c \in StepGrads(r, b).grads : <<c, b, r>> \in overflowed
      /\ at' = at /\ bwd' = bwd /\ fwd' = fwd /\ handles' = handles /\ copied' = copied
      /\ it' = it /\ storage' = storage /\ model' = model /\ main' = main
      /\ success' = success /\ overflowed' = overflowed /\ args' = args
  BY DEF Ready, TypeOK, Unscale, Post, gathers
<1>2. /\ B \in Nat \ {0} /\ M \in Nat \ {0} /\ OverlapParamGather \in BOOLEAN
      /\ OverlapGradReduce \in BOOLEAN /\ OverlapParamGather' = OverlapParamGather
      /\ OverlapGradReduce' = OverlapGradReduce
      /\ success[r] \in BOOLEAN /\ Len(handles[r]) \in Nat
  BY Facts
<1>3. /\ Counts(r) /\ Handles(r) /\ InOrder(r) /\ bwd[r] = M /\ fwd[r] = M /\ posted[r] = <<>>
  BY <1>1, Facts DEF Counts
<1>4. Steps(r)' = Steps(r)
  BY <1>1 DEF Steps
<1>5. \A b \in Buckets : ~Held(r, b) /\ ~Held(r, b)' /\ Backprops(r, b)' = Backprops(r, b)
  BY <1>1, <1>2, <1>3 DEF Held, Backprops, Outside
<1>6. success[r] => Len(handles[r]) = B
  BY <1>1, <1>2, <1>3 DEF Handles
<1>7. Issued(r) = 2 * B /\ Issued(r)' = 2 * B + 1
  <2>1. ReducesIssued(r) = B /\ ReducesIssued(r)' = B
    BY <1>1, <1>2, <1>3 DEF ReducesIssued, Outside
  <2>2. GathersIssued(r) = B /\ GathersIssued(r)' = B
    BY <1>1, <1>2, <1>6 DEF GathersIssued
  <2>. QED BY <1>1, <1>2, <2>1, <2>2 DEF Issued
<1>8. Done(r) = 2 * B
  BY <1>2, <1>3, <1>7 DEF Done
<1>9. Counts(r)'
  BY <1>1, <1>2, <1>3, <1>4 DEF Counts, Passes
<1>10. Handles(r)'
  <2>1. CASE success[r] /\ OverlapParamGather
    <3>1. \A b \in 1 .. Len(handles[r]) : b \in Buckets
      BY <1>6, <2>1 DEF Buckets
    <3>. QED BY <1>1, <1>2, <1>3, <1>5, <1>6, <2>1, <3>1 DEF Handles
  <2>2. CASE ~(success[r] /\ OverlapParamGather)
    BY <1>1, <1>2, <1>3, <1>6, <2>2 DEF Handles
  <2>. QED BY <2>1, <2>2
<1>11. InOrder(r)' /\ Done(r)' = Done(r) /\ View(r)' = View(r)
  <2>1. Coll(Issued(r) + 1) = <<"inf", 0>>
    BY <1>2, <1>7 DEF Coll
  <2>2. posted'[r] = Append(posted[r], Coll(Issued(r) + 1)) /\ Issued(r)' = Issued(r) + 1
    BY <1>1, <1>2, <1>7, <2>1
  <2>. QED BY <1>1, <1>3, <1>4, <2>2, Advance DEF Ready
<1>12. \A b \in Buckets, s \in Shards : Expected(r, b, s)' = Expected(r, b, s)
  BY <1>1, <1>2, <1>5, <1>11 DEF Expected, Place
<1>13. Params(r)' /\ Modules(r)' /\ (Zeroing => Grads(r))'
  BY <1>1, <1>5, <1>11, <1>12, Facts, Untouched
<1>14. ASSUME Zeroing' PROVE Skipped(r)'
  <2>1. Grads(r) /\ Skipped(r)
    BY <1>1, <1>2, <1>14, Facts DEF Zeroing
  <2>2. ASSUME found'[r] PROVE it[r] \in Bad
    <3>1. PICK b \in Buckets : \E c \in StepGrads(r, b).grads : <<c, b, r>> \in overflowed
      BY <1>1, <2>2
    <3>2. PICK c \in StepGrads(r, b).grads : <<c, b, r>> \in overflowed
      BY <3>1
    <3>3. StepGrads(r, b).grads = Ranks \X {it[r]} \X (1 .. M)
      <4>1. Place(b) <= 2 * B
        BY <1>2 DEF Place, Buckets
      <4>2. Expected(r, b, r) = Ranks \X {it[r]} \X (1 .. M)
        BY <1>2, <1>8, <4>1 DEF Expected
      <4>3. r \in Shards
        BY DEF Shards
      <4>. QED BY <1>5, <2>1, <4>2, <4>3 DEF StepGrads, Grads, Arrived
    <3>4. c[2] = it[r]
      BY <3>2, <3>3
    <3>. QED BY <3>2, <3>4 DEF Bad
  <2>. QED BY <1>1, <1>2, <1>4, <2>1, <2>2 DEF Skipped, Bad
<1>. QED BY <1>9, <1>10, <1>11, <1>13, <1>14 DEF Kept, Local

LEMMA GatherParamsKeeps ==
  ASSUME NEW r \in Ranks, Ready(r), GatherParams(r)
  PROVE  Kept(r)
<1>1. /\ pc[r] = "gather" /\ success[r] /\ at[r] = Len(handles[r]) + 1 /\ pc'[r] = "copy"
      /\ posted'[r] = Append(posted[r], <<"gather", at[r]>>)
      /\ handles'[r] = Append(handles[r], "None") /\ copied'[r] = Append(copied[r], FALSE)
      /\ at' = at /\ bwd' = bwd /\ fwd' = fwd
      /\ it' = it /\ storage' = storage /\ model' = model /\ main' = main
      /\ success' = success /\ found' = found /\ overflowed' = overflowed /\ args' = args
  BY DEF Ready, TypeOK, GatherParams, Post
<1>2. /\ B \in Nat \ {0} /\ M \in Nat \ {0} /\ OverlapParamGather \in BOOLEAN
      /\ OverlapGradReduce \in BOOLEAN /\ OverlapParamGather' = OverlapParamGather
      /\ OverlapGradReduce' = OverlapGradReduce
      /\ handles[r] \in Seq({"flight", "None"}) /\ copied[r] \in Seq(BOOLEAN)
      /\ Len(handles[r]) \in Nat
  BY Facts
<1>3. /\ Counts(r) /\ Handles(r) /\ InOrder(r) /\ ~OverlapParamGather
      /\ at[r] \in 1 .. B /\ Len(copied[r]) = Len(handles[r])
  BY <1>1, Facts DEF Counts, Handles
<1>4. Steps(r)' = Steps(r)
  BY <1>1 DEF Steps
<1>5. \A b \in Buckets : (Held(r, b)' <=> Held(r, b)) /\ Backprops(r, b)' = Backprops(r, b)
  BY <1>1, <1>2, <1>3 DEF Held, Backprops, Outside
<1>6. Len(handles'[r]) = at[r] /\ Len(copied'[r]) = at[r]
  BY <1>1, <1>2, <1>3
<1>7. Issued(r) = at[r] - 1 /\ Issued(r)' = at[r]
  <2>1. ReducesIssued(r) = 0 /\ ReducesIssued(r)' = 0
    BY <1>1, <1>2, <1>3 DEF ReducesIssued, Outside
  <2>2. GathersIssued(r) = at[r] - 1 /\ GathersIssued(r)' = at[r]
    BY <1>1, <1>2, <1>6 DEF GathersIssued
  <2>. QED BY <1>1, <1>3, <2>1, <2>2 DEF Issued
<1>8. Counts(r)'
  BY <1>1, <1>2, <1>3, <1>4 DEF Counts, Passes
<1>9. Handles(r)'
  BY <1>1, <1>2, <1>3, <1>6 DEF Handles
<1>10. InOrder(r)' /\ Done(r)' = Done(r) /\ View(r)' = View(r)
  <2>1. Coll(Issued(r) + 1) = <<"gather", at[r]>>
    BY <1>3, <1>7 DEF Coll
  <2>2. posted'[r] = Append(posted[r], Coll(Issued(r) + 1))
    BY <1>1, <2>1
  <2>3. Issued(r)' = Issued(r) + 1
    BY <1>3, <1>7
  <2>. QED BY <1>1, <1>3, <1>4, <2>2, <2>3, Advance DEF Ready
<1>11. \A b \in Buckets, s \in Shards : Expected(r, b, s)' = Expected(r, b, s)
  BY <1>1, <1>2, <1>5, <1>10 DEF Expected, Place
<1>12. Params(r)' /\ Modules(r)' /\ (Zeroing => Grads(r))'
  BY <1>1, <1>5, <1>10, <1>11, Facts, Untouched
<1>13. (Zeroing => Skipped(r))'
  BY <1>1, <1>4, Facts, KeptSkipped
<1>. QED BY <1>8, <1>9, <1>10, <1>12, <1>13 DEF Kept, Local

LEMMA NextIterationKeeps ==
  ASSUME NEW r \in Ranks, Ready(r), NextIteration(r)
  PROVE  Kept(r)
<1>1. /\ pc[r] = "between" /\ it'[r] = it[r] + 1
      /\ pc'[r] = IF it[r] = Iterations THEN "stopped" ELSE "zero"
      /\ at' = at /\ bwd' = bwd /\ fwd' = fwd /\ handles' = handles /\ copied' = copied
      /\ posted' = posted /\ storage' = storage /\ model' = model /\ main' = main
      /\ success' = success /\ found' = found /\ overflowed' = overflowed /\ args' = args
  BY DEF Ready, TypeOK, NextIteration, gathers
<1>2. /\ B \in Nat \ {0} /\ M \in Nat \ {0} /\ OverlapParamGather \in BOOLEAN
      /\ OverlapGradReduce \in BOOLEAN /\ OverlapParamGather' = OverlapParamGather
      /\ OverlapGradReduce' = OverlapGradReduce
      /\ Len(handles[r]) \in Nat /\ Len(posted[r]) \in Nat /\ it[r] \in 1 .. Iterations + 1
      /\ success[r] \in BOOLEAN
  BY Facts
<1>3. /\ Counts(r) /\ Handles(r) /\ InOrder(r)
  BY Facts
<1>4. Steps(r)' = Steps(r)
  BY <1>1, <1>2 DEF Steps
<1>5. \A b \in Buckets : /\ Held(r, b)' <=> Held(r, b)
                         /\ Backprops(r, b) = 0 /\ Backprops(r, b)' = 0
  BY <1>1, <1>2, <1>3 DEF Held, Backprops, Outside
<1>6. /\ success[r] => Len(handles[r]) <= B
      /\ Issued(r) <= B /\ Issued(r)' = Issued(r)
  <2>1. ReducesIssued(r) = 0 /\ ReducesIssued(r)' = 0
    BY <1>1, <1>2 DEF ReducesIssued, Outside
  <2>2. success[r] => Len(handles[r]) <= B
    BY <1>1, <1>2, <1>3 DEF Handles
  <2>3. GathersIssued(r) <= B /\ GathersIssued(r)' = GathersIssued(r) /\ GathersIssued(r) \in Int
    BY <1>1, <1>2, <2>2 DEF GathersIssued
  <2>. QED BY <1>1, <2>1, <2>2, <2>3 DEF Issued
<1>7. Counts(r)'
  <2>1. pc'[r] = "stopped" <=> it'[r] = Iterations + 1
    BY <1>1, <1>2, Setting DEF Ready
  <2>. QED BY <1>1, <1>2, <1>3, <1>4, <2>1 DEF Counts, Passes
<1>8. Handles(r)'
  BY <1>1, <1>2, <1>3 DEF Handles, Held
<1>9. InOrder(r)' /\ Done(r)' = Done(r) /\ View(r)' = View(r)
  BY <1>1, <1>3, <1>4, <1>6, Advance DEF Ready
<1>10. \A b \in Buckets, s \in Shards : Expected(r, b, s)' = Expected(r, b, s)
  <2>. TAKE b \in Buckets, s \in Shards
  <2>1. Issued(r) \in Int
    BY Facts
  <2>2. ~(Done(r) >= Place(b)) /\ Place(b)' = Place(b)
    BY <1>2, <1>6, <2>1 DEF Done, Place, Buckets
  <2>3. /\ Expected(r, b, s) = {r} \X {it[r]} \X (1 .. 0)
        /\ Expected(r, b, s)' = {r} \X {it'[r]} \X (1 .. 0)
    BY <1>5, <1>9, <2>2 DEF Expected
  <2>. QED BY <2>3
<1>11. Params(r)' /\ Modules(r)' /\ (Zeroing => Grads(r))'
  BY <1>1, <1>5, <1>9, <1>10, Facts, Untouched
<1>12. (Zeroing => Skipped(r))'
  BY <1>1, <1>4, Facts, KeptSkipped
<1>. QED BY <1>7, <1>8, <1>9, <1>11, <1>12 DEF Kept, Local

LEMMA CopyGatheredKeeps ==
  ASSUME NEW r \in Ranks, Ready(r), CopyGathered(r)
  PROVE  Kept(r)
<1>. DEFINE b == at[r]
<1>1. /\ \/ pc[r] = "copy" /\ posted[r] = <<>>
         \/ pc[r] = "gather" /\ ~success[r]
      /\ at'[r] = IF b < B THEN b + 1 ELSE 1
      /\ pc'[r] = IF b < B THEN "gather" ELSE "between"
      /\ it' = it /\ bwd' = bwd /\ fwd' = fwd /\ handles' = handles /\ copied' = copied
      /\ posted' = posted /\ main' = main /\ success' = success /\ found' = found
      /\ overflowed' = overflowed /\ args' = args
  BY DEF Ready, TypeOK, CopyGathered, gathers
<1>2. /\ B \in Nat \ {0} /\ M \in Nat \ {0} /\ OverlapParamGather \in BOOLEAN
      /\ OverlapGradReduce \in BOOLEAN /\ OverlapParamGather' = OverlapParamGather
      /\ OverlapGradReduce' = OverlapGradReduce
      /\ Len(handles[r]) \in Nat /\ Len(posted[r]) \in Nat /\ success[r] \in BOOLEAN
      /\ main[r] \in 0 .. Iterations
  BY Facts
<1>3. /\ Counts(r) /\ Handles(r) /\ InOrder(r) /\ ~OverlapParamGather /\ b \in 1 .. B
      /\ Len(copied[r]) = Len(handles[r]) /\ (pc[r] = "copy" => success[r])
      /\ success[r] => Len(handles[r]) = b
  BY <1>1, Facts DEF Counts, Handles
<1>4. Steps(r)' = Steps(r)
  BY <1>1 DEF Steps
<1>5. \A x \in Buckets : /\ Held(r, x) <=> x >= b
                         /\ Held(r, x)' <=> x > b
                         /\ Backprops(r, x) = 0 /\ Backprops(r, x)' = 0
  BY <1>1, <1>2, <1>3 DEF Held, Backprops, Outside, Buckets
<1>6. /\ Issued(r) = (IF success[r] THEN b ELSE B) /\ Issued(r)' = Issued(r)
      /\ success[r] => Done(r) = b
      /\ \A x \in Buckets : ~(Done(r) >= Place(x)) /\ Place(x)' = Place(x)
  <2>1. ReducesIssued(r) = 0 /\ ReducesIssued(r)' = 0
    BY <1>1, <1>2 DEF ReducesIssued, Outside
  <2>2. GathersIssued(r) = (IF success[r] THEN b ELSE B) /\ GathersIssued(r)' = GathersIssued(r)
    BY <1>1, <1>3 DEF GathersIssued
  <2>3. Issued(r) = (IF success[r] THEN b ELSE B) /\ Issued(r)' = Issued(r)
    BY <1>1, <1>2, <1>3, <2>1, <2>2 DEF Issued
  <2>4. success[r] => Done(r) = b
    BY <1>1, <1>3, <2>3 DEF Done
  <2>5. Done(r) <= B
    BY <1>2, <1>3, <2>3 DEF Done
  <2>6. Done(r) \in Int
    BY <1>2, <1>3, <2>3 DEF Done
  <2>. QED BY <1>2, <2>3, <2>4, <2>5, <2>6 DEF Place, Buckets
<1>7. Counts(r)'
  BY <1>1, <1>2, <1>3, <1>4 DEF Counts, Passes
<1>8. Handles(r)'
  BY <1>1, <1>2, <1>3 DEF Handles
<1>9. InOrder(r)' /\ Done(r)' = Done(r) /\ View(r)' = View(r)
  BY <1>1, <1>3, <1>4, <1>6, Advance DEF Ready
<1>10. \A x \in Buckets, s \in Shards :
         /\ x # b => storage'[r][x][s] = storage[r][x][s] /\ model'[r][x][s] = model[r][x][s]
         /\ x = b => /\ storage'[r][x][s] = Zeroed
                     /\ model'[r][x][s] = IF success[r] THEN storage[r][x][s].params
                                          ELSE model[r][x][s]
  <2>1. /\ storage \in [Ranks -> [Buckets -> [Shards -> Cells]]]
        /\ model \in [Ranks -> [Buckets -> [Shards -> NoParams .. Iterations]]]
    BY DEF Ready, TypeOK
  <2>. QED BY <2>1 DEF CopyGathered, CopyParams
<1>. HIDE DEF b
<1>11. \A x \in Buckets, s \in Shards :
         /\ Arrived(r, x, s)' <=> x # b /\ Arrived(r, x, s)
         /\ Expected(r, x, s)' = {} /\ Expected(r, x, s) = {}
  <2>. TAKE x \in Buckets, s \in Shards
  <2>1. x \in 1 .. B
    BY DEF Buckets
  <2>2. Arrived(r, x, s)' <=> x # b /\ Arrived(r, x, s)
    BY <1>1, <1>3, <1>5, <1>9, <2>1 DEF Arrived
  <2>3. /\ Expected(r, x, s) = {r} \X {it[r]} \X (1 .. 0)
        /\ Expected(r, x, s)' = {r} \X {it'[r]} \X (1 .. 0)
    BY <1>5, <1>6, <1>9 DEF Expected
  <2>. QED BY <2>2, <2>3
<1>12. success[r] => \A s \in Shards : Arrived(r, b, s)
  BY <1>3, <1>5, <1>6 DEF Arrived, Buckets
<1>13. Params(r)'
  <2>. SUFFICES ASSUME NEW x \in Buckets, NEW s \in Shards
                PROVE  storage'[r][x][s].params = IF Arrived(r, x, s)' THEN main[r] ELSE NoParams
    BY <1>1 DEF Params
  <2>1. Params(r)
    BY Facts
  <2>. QED BY <1>10, <1>11, <2>1 DEF Params, Zeroed
<1>14. Modules(r)'
  <2>. SUFFICES ASSUME NEW x \in Buckets, ~(success[r] /\ Held(r, x))'
                PROVE  Current(r, x)' /\ Done(r)' >= x
    BY DEF Modules
  <2>1. CASE x = b /\ success[r]
    <3>1. Current(r, x)'
      BY <1>1, <1>10, <1>12, <2>1, Facts DEF Current, Params
    <3>. QED BY <1>3, <1>6, <1>9, <2>1, <3>1
  <2>2. CASE ~(x = b /\ success[r])
    <3>1. ~(success[r] /\ Held(r, x))
      BY <1>1, <1>3, <1>5, <2>2 DEF Buckets
    <3>2. Current(r, x) /\ Done(r) >= x
      BY <3>1, Facts DEF Modules
    <3>. QED BY <1>1, <1>9, <1>10, <2>2, <3>2 DEF Current
  <2>. QED BY <2>1, <2>2
<1>15. (Zeroing => Grads(r))'
  <2>. SUFFICES ASSUME Zeroing, NEW x \in Buckets, NEW s \in Shards
                PROVE  storage'[r][x][s].grads =
                         IF Arrived(r, x, s)' THEN {}
                         ELSE IF Held(r, x)' THEN storage'[r][x][s].grads
                         ELSE Expected(r, x, s)'
    BY <1>1, <1>2, <1>3 DEF Grads, Zeroing
  <2>1. CASE x = b
    <3>1. ~Arrived(r, x, s)' /\ ~Held(r, x)'
      BY <1>3, <1>5, <1>11, <2>1 DEF Buckets
    <3>2. Expected(r, x, s)' = {}
      BY <1>11
    <3>3. storage'[r][x][s].grads = {}
      BY <1>10, <2>1 DEF Zeroed
    <3>. QED BY <3>1, <3>2, <3>3
  <2>2. CASE x # b
    <3>1. Held(r, x)' <=> Held(r, x)
      BY <1>3, <1>5, <2>2 DEF Buckets
    <3>2. Grads(r)
      BY Facts
    <3>3. storage[r][x][s].grads =
            IF Arrived(r, x, s) THEN {}
            ELSE IF Held(r, x) THEN storage[r][x][s].grads
            ELSE Expected(r, x, s)
      BY <1>3, <3>2 DEF Grads
    <3>. QED BY <1>10, <1>11, <2>2, <3>1, <3>3
  <2>. QED BY <2>1, <2>2
<1>16. (Zeroing => Skipped(r))'
  BY <1>1, <1>4, Facts, KeptSkipped
<1>. QED BY <1>7, <1>8, <1>9, <1>13, <1>14, <1>15, <1>16 DEF Kept, Local

(* One more iteration counts if a gradient overflowed in it.                *)
LEMMA CountBad ==
  ASSUME IsFiniteSet(overflowed), NEW n \in Nat \ {0}
  PROVE  LET before == Cardinality(Bad \cap (1 .. n - 1))
             after == Cardinality(Bad \cap (1 .. n))
         IN  /\ before \in Nat /\ after \in Nat /\ before <= after
             /\ n \in Bad => after = before + 1
<1>. DEFINE S == Bad \cap (1 .. n - 1)
            T == Bad \cap (1 .. n)
<1>1. IsFiniteSet(S) /\ IsFiniteSet(T)
  BY FewBad, FS_Intersection
<1>2. S \in SUBSET T /\ ~(n \in S)
  OBVIOUS
<1>3. ASSUME n \in Bad PROVE T = S \cup {n}
  BY <1>3
<1>. HIDE DEF S, T
<1>4. Cardinality(S) \in Nat /\ Cardinality(T) \in Nat /\ Cardinality(S) <= Cardinality(T)
  BY <1>1, <1>2, FS_CardinalityType, FS_Subset
<1>5. n \in Bad => Cardinality(T) = Cardinality(S) + 1
  BY <1>1, <1>2, <1>3, FS_AddElement
<1>. QED BY <1>4, <1>5 DEF S, T

LEMMA StepKeeps ==
  ASSUME NEW r \in Ranks, Ready(r), Step(r)
  PROVE  Kept(r)
<1>1. /\ pc[r] = "check" /\ ~Pending(r, <<"inf", 0>>)
      /\ pc'[r] = (IF OverlapParamGather THEN "between" ELSE "gather") /\ at'[r] = 1
      /\ main'[r] = (IF found[r] THEN main[r] ELSE main[r] + 1)
      /\ success'[r] = ~found[r] /\ handles'[r] = <<>> /\ copied'[r] = <<>>
      /\ it' = it /\ bwd' = bwd /\ fwd' = fwd /\ posted' = posted /\ model' = model
      /\ found' = found /\ overflowed' = overflowed /\ args' = args
  BY DEF Ready, TypeOK, Step
<1>2. /\ B \in Nat \ {0} /\ M \in Nat \ {0} /\ OverlapParamGather \in BOOLEAN
      /\ OverlapGradReduce \in BOOLEAN /\ OverlapParamGather' = OverlapParamGather
      /\ OverlapGradReduce' = OverlapGradReduce
      /\ Len(handles[r]) \in Nat /\ success[r] \in BOOLEAN
      /\ main[r] \in 0 .. Iterations /\ it[r] \in 1 .. Iterations + 1
  BY Facts
<1>3. found[r] \in BOOLEAN
  BY DEF Ready, TypeOK
<1>4. /\ Counts(r) /\ Handles(r) /\ InOrder(r) /\ bwd[r] = M /\ fwd[r] = M
      /\ main[r] <= it[r] - 1
  BY <1>1, Facts DEF Counts, Steps
<1>5. \A b \in Buckets : ~Held(r, b) /\ Held(r, b)'
  BY <1>1, <1>2, <1>4 DEF Held, Buckets
<1>6. success[r] => Len(handles[r]) = B
  BY <1>1, <1>2, <1>4 DEF Handles
<1>7. Issued(r) = 2 * B + 1
  <2>1. ReducesIssued(r) = B
    BY <1>1, <1>2, <1>4 DEF ReducesIssued, Outside
  <2>2. GathersIssued(r) = B
    BY <1>1, <1>2, <1>6 DEF GathersIssued
  <2>. QED BY <1>1, <1>2, <2>1, <2>2 DEF Issued
<1>8. posted[r] = <<>>
  <2>1. Coll(Issued(r)) = <<"inf", 0>>
    BY <1>2, <1>7 DEF Coll
  <2>. QED BY <1>1, <1>4, <2>1, LastPosted DEF Ready
<1>9. Steps(r) = it[r] - 1 /\ Steps(r)' = it[r]
  BY <1>1 DEF Steps
<1>10. Done(r)' = First(~found[r])
  <2>1. Len(<<>>) = 0 /\ First(~found[r]) \in Int
    BY <1>2 DEF First
  <2>2. ReducesIssued(r)' = 0
    BY <1>1, <1>2 DEF ReducesIssued, Outside
  <2>3. GathersIssued(r)' = First(~found[r])
    <3>1. CASE found[r]
      <4>1. ~success'[r] /\ First(~found[r]) = B
        BY <1>1, <3>1 DEF First
      <4>. QED BY <4>1 DEF GathersIssued
    <3>2. CASE ~found[r]
      <4>1. success'[r] /\ First(~found[r]) = 0 /\ Len(handles'[r]) = 0
        BY <1>1, <2>1, <3>2 DEF First
      <4>. QED BY <4>1 DEF GathersIssued
    <3>. QED BY <3>1, <3>2
  <2>4. Issued(r)' = First(~found[r])
    BY <1>1, <2>1, <2>2, <2>3 DEF Issued
  <2>. QED BY <1>1, <1>8, <2>1, <2>4 DEF Done
<1>11. Counts(r)'
  BY <1>1, <1>2, <1>3, <1>4, <1>9 DEF Counts, Passes
<1>12. Handles(r)'
  <2>1. Len(<<>>) = 0
    OBVIOUS
  <2>. QED BY <1>1, <1>2, <1>3, <2>1 DEF Handles
<1>13. InOrder(r)'
  <2>1. First(success[r])' = First(~found[r]) /\ First(~found[r]) \in Int
    <3>1. CASE found[r]
      <4>1. ~success'[r]
        BY <1>1, <3>1
      <4>. QED BY <1>2, <3>1, <4>1 DEF First
    <3>2. CASE ~found[r]
      <4>1. success'[r]
        BY <1>1, <3>2
      <4>. QED BY <1>2, <3>2, <4>1 DEF First
    <3>. QED BY <3>1, <3>2
  <2>2. Len(posted'[r]) = 0
    BY <1>1, <1>8
  <2>. QED BY <1>10, <2>1, <2>2 DEF InOrder
<1>14. View(r)' = View(r)
  BY <1>1, <1>8, <1>9, <1>10 DEF View
<1>15. \A b \in Buckets, s \in Shards : ~Arrived(r, b, s) /\ (Arrived(r, b, s)' <=> ~found[r] /\ s = r)
  <2>. TAKE b \in Buckets, s \in Shards
  <2>1. ~found[r] => ~(Done(r)' >= b)
    BY <1>2, <1>10 DEF First, Buckets
  <2>. QED BY <1>1, <1>3, <1>5, <2>1 DEF Arrived
<1>16. \A b \in Buckets, s \in Shards :
         storage'[r][b][s] = IF ~found[r] /\ s = r THEN [grads |-> {}, params |-> main[r] + 1]
                             ELSE storage[r][b][s]
  <2>1. storage \in [Ranks -> [Buckets -> [Shards -> Cells]]] /\ r \in Shards
    BY DEF Ready, TypeOK, Shards
  <2>2. CASE found[r]
    BY <2>2 DEF Step
  <2>3. CASE ~found[r]
    <3>1. storage' = [storage EXCEPT ![r] = [b \in Buckets |-> [storage[r][b] EXCEPT ![r] =
                        [grads |-> {}, params |-> main[r] + 1]]]]
      BY <2>3 DEF Step
    <3>2. storage'[r] = [b \in Buckets |-> [storage[r][b] EXCEPT ![r] =
                          [grads |-> {}, params |-> main[r] + 1]]]
      BY <2>1, <3>1
    <3>. TAKE b \in Buckets, s \in Shards
    <3>3. storage'[r][b] = [storage[r][b] EXCEPT ![r] = [grads |-> {}, params |-> main[r] + 1]]
      BY <3>2
    <3>4. storage[r][b] \in [Shards -> Cells]
      BY <2>1
    <3>. QED BY <2>1, <2>3, <3>3, <3>4
  <2>. QED BY <2>2, <2>3
<1>17. Params(r)'
  <2>1. Params(r)
    BY Facts
  <2>. QED BY <1>1, <1>15, <1>16, <2>1 DEF Params
<1>18. Modules(r)'
  <2>1. Modules(r)
    BY Facts
  <2>. SUFFICES ASSUME NEW b \in Buckets, ~(success[r] /\ Held(r, b))'
                PROVE  Current(r, b)' /\ Done(r)' >= b
    BY DEF Modules
  <2>2. found[r]
    BY <1>1, <1>5
  <2>3. Done(r)' >= b
    BY <1>2, <1>10, <2>2 DEF First, Buckets
  <2>. QED BY <1>1, <1>3, <1>5, <2>1, <2>2, <2>3 DEF Modules, Current
<1>19. ASSUME Zeroing' PROVE Grads(r)' /\ Skipped(r)'
  <2>1. Skipped(r)
    BY <1>1, <1>2, <1>19, Facts DEF Zeroing
  <2>2. OverlapParamGather => ~found[r]
    BY <1>1, <1>2, <1>19, <2>1 DEF Zeroing, Skipped, Bad
  <2>3. Grads(r)'
    <3>. SUFFICES ASSUME NEW b \in Buckets, NEW s \in Shards, Arrived(r, b, s)'
                  PROVE  storage'[r][b][s].grads = {}
      BY <1>1, <1>2, <1>5, <2>2 DEF Grads
    <3>. QED BY <1>15, <1>16
  <2>4. Steps(r)' - main'[r] <= Cardinality(Bad \cap (1 .. it[r]))
    <3>1. /\ Cardinality(Bad \cap (1 .. it[r] - 1)) \in Nat /\ Cardinality(Bad \cap (1 .. it[r])) \in Nat
          /\ Cardinality(Bad \cap (1 .. it[r] - 1)) <= Cardinality(Bad \cap (1 .. it[r]))
          /\ it[r] \in Bad =>
               Cardinality(Bad \cap (1 .. it[r])) = Cardinality(Bad \cap (1 .. it[r] - 1)) + 1
      <4>1. it[r] \in Nat \ {0} /\ IsFiniteSet(overflowed)
        BY <1>2, Setting DEF Ready
      <4>. QED BY <4>1, CountBad
    <3>2. it[r] - 1 - main[r] <= Cardinality(Bad \cap (1 .. it[r] - 1))
      BY <1>9, <2>1 DEF Skipped
    <3>3. found[r] => it[r] \in Bad
      BY <1>1, <2>1 DEF Skipped
    <3>. QED BY <1>1, <1>2, <1>9, <3>1, <3>2, <3>3
  <2>5. Skipped(r)'
    BY <1>1, <1>2, <1>9, <2>2, <2>4 DEF Skipped, Bad
  <2>. QED BY <2>3, <2>5
<1>. QED BY <1>11, <1>12, <1>13, <1>14, <1>17, <1>18, <1>19 DEF Kept, Local

-----------------------------------------------------------------------------
(* Types.                                                                   *)

(* What a rank issues is a collective.                                      *)
LEMMA Named ==
  ASSUME args \in Settings
  PROVE  /\ \A b \in 1 .. B : <<"gather", b>> \in Collectives /\ <<"reduce", b>> \in Collectives
         /\ <<"inf", 0>> \in Collectives
BY DEF Collectives, Buckets

LEMMA PostType ==
  ASSUME posted \in [Ranks -> Seq(Collectives)], NEW r \in Ranks, NEW c \in Collectives, Post(r, c)
  PROVE  posted' \in [Ranks -> Seq(Collectives)]
<1>1. Append(posted[r], c) \in Seq(Collectives)
  OBVIOUS
<1>. QED BY <1>1 DEF Post

LEMMA DispatchType ==
  ASSUME TypeOK, args \in Settings, NEW r \in Ranks, NEW b \in 1 .. B, Dispatch(r, b)
  PROVE  posted' \in [Ranks -> Seq(Collectives)]
<1>1. posted \in [Ranks -> Seq(Collectives)] /\ <<"gather", b>> \in Collectives
  BY Named DEF TypeOK
<1>2. CASE success[r]
  BY <1>1, <1>2, PostType DEF Dispatch
<1>. QED BY <1>1, <1>2 DEF Dispatch

LEMMA CopyType ==
  ASSUME TypeOK, args \in Settings, NEW r \in Ranks, NEW b \in Buckets, CopyParams(r, b)
  PROVE  /\ storage' \in [Ranks -> [Buckets -> [Shards -> Cells]]]
         /\ model' \in [Ranks -> [Buckets -> [Shards -> NoParams .. Iterations]]]
<1>1. /\ storage \in [Ranks -> [Buckets -> [Shards -> Cells]]]
      /\ model \in [Ranks -> [Buckets -> [Shards -> NoParams .. Iterations]]]
  BY DEF TypeOK
<1>2. Zeroed \in Cells
  <2>1. NoParams \in NoParams .. Iterations
    BY Setting DEF NoParams
  <2>. QED BY <2>1 DEF Zeroed, Cells
<1>3. [s \in Shards |-> Zeroed] \in [Shards -> Cells]
  BY <1>2
<1>4. \A s \in Shards : storage[r][b][s].params \in NoParams .. Iterations
  <2>. TAKE s \in Shards
  <2>1. storage[r][b][s] \in Cells
    BY <1>1
  <2>. QED BY <2>1 DEF Cells
<1>5. [s \in Shards |-> storage[r][b][s].params] \in [Shards -> NoParams .. Iterations]
  BY <1>4
<1>6. storage' = [storage EXCEPT ![r] = [storage[r] EXCEPT ![b] = [s \in Shards |-> Zeroed]]]
  BY DEF CopyParams
<1>7. [storage[r] EXCEPT ![b] = [s \in Shards |-> Zeroed]] \in [Buckets -> [Shards -> Cells]]
  BY <1>1, <1>3
<1>8. model' = IF success[r]
                 THEN [model EXCEPT ![r] = [model[r] EXCEPT ![b] = [s \in Shards |-> storage[r][b][s].params]]]
                 ELSE model
  BY DEF CopyParams
<1>9. [model[r] EXCEPT ![b] = [s \in Shards |-> storage[r][b][s].params]]
        \in [Buckets -> [Shards -> NoParams .. Iterations]]
  BY <1>1, <1>5
<1>. QED BY <1>1, <1>6, <1>7, <1>8, <1>9

(* The types of the control state, the memory and the rest.                 *)
Locations == {"zero", "schedule", "forward", "backward", "finish", "step", "check", "gather",
            "copy", "between", "stopped"}
ControlType ==
  /\ pc \in [Ranks -> Locations]
  /\ it \in [Ranks -> 1 .. Iterations + 1]
  /\ at \in [Ranks -> 1 .. B + 1]
  /\ fwd \in [Ranks -> 0 .. M]
  /\ bwd \in [Ranks -> 0 .. M]
MemoryType ==
  /\ storage \in [Ranks -> [Buckets -> [Shards -> Cells]]]
  /\ model \in [Ranks -> [Buckets -> [Shards -> NoParams .. Iterations]]]
  /\ main \in [Ranks -> 0 .. Iterations]
  /\ overflowed \subseteq Contributions \X Buckets \X Shards
RestType ==
  /\ handles \in [Ranks -> Seq({"flight", "None"})]
  /\ copied \in [Ranks -> Seq(BOOLEAN)]
  /\ success \in [Ranks -> BOOLEAN]
  /\ found \in [Ranks -> BOOLEAN]
  /\ posted \in [Ranks -> Seq(Collectives)]

LEMMA TypeParts == TypeOK <=> ControlType /\ MemoryType /\ RestType
BY DEF TypeOK, ControlType, MemoryType, RestType, Locations

LEMMA TypePartsNext == TypeOK' <=> ControlType' /\ MemoryType' /\ RestType'
BY DEF TypeOK, ControlType, MemoryType, RestType, Locations

LEMMA LeavingType ==
  ASSUME ControlType, NEW r \in Ranks, at[r] <= B, fwd[r] < M, B \in Nat, M \in Nat,
         LeaveBucket(r)
  PROVE  pc' \in [Ranks -> Locations] /\ at' \in [Ranks -> 1 .. B + 1] /\ fwd' \in [Ranks -> 0 .. M]
<1>0. /\ at \in [Ranks -> 1 .. B + 1] /\ fwd \in [Ranks -> 0 .. M] /\ pc \in [Ranks -> Locations]
      /\ "schedule" \in Locations
  BY DEF ControlType, Locations
<1>1. CASE at[r] < B
  <2>1. at' = [at EXCEPT ![r] = @ + 1] /\ pc' = pc /\ fwd' = fwd
    BY <1>1 DEF LeaveBucket
  <2>2. at[r] + 1 \in 1 .. B + 1
    BY <1>0, <1>1
  <2>. QED BY <1>0, <2>1, <2>2
<1>2. CASE ~(at[r] < B)
  <2>1. at' = [at EXCEPT ![r] = 1] /\ pc' = [pc EXCEPT ![r] = "schedule"] /\ fwd' = [fwd EXCEPT ![r] = @ + 1]
    BY <1>2 DEF LeaveBucket
  <2>2. fwd[r] + 1 \in 0 .. M /\ 1 \in 1 .. B + 1
    BY <1>0
  <2>. QED BY <1>0, <2>1, <2>2
<1>. QED BY <1>1, <1>2

LEMMA ControlTypes ==
  ASSUME NEW r \in Ranks, Ready(r), RankStep(r)
  PROVE  ControlType'
<1>1. /\ B \in Nat \ {0} /\ M \in Nat \ {0} /\ Iterations \in Nat \ {0}
      /\ ControlType /\ Counts(r)
      /\ at[r] \in 1 .. B + 1 /\ fwd[r] \in 0 .. M /\ bwd[r] \in 0 .. M
      /\ it[r] \in 1 .. Iterations + 1
  BY Facts, Setting, TypeParts DEF Ready
<1>2. CASE ZeroGrad(r)
  BY <1>1, <1>2 DEF ZeroGrad, ControlType, Locations
<1>3. CASE StartPass(r)
  <2>1. /\ at' = [at EXCEPT ![r] = 1] \/ at' = [at EXCEPT ![r] = B]
        /\ \E p \in Locations : pc' = [pc EXCEPT ![r] = p]
        /\ it' = it /\ fwd' = fwd /\ bwd' = bwd
    BY <1>3 DEF StartPass, Locations
  <2>2. 1 \in 1 .. B + 1 /\ B \in 1 .. B + 1
    BY <1>1
  <2>. QED BY <1>1, <2>1, <2>2 DEF ControlType
<1>4. CASE ComputeForward(r)
  <2>1. LeaveBucket(r) /\ it' = it /\ bwd' = bwd /\ at[r] <= B /\ fwd[r] < M
    BY <1>1, <1>4 DEF ComputeForward, Counts
  <2>. QED BY <1>1, <2>1, LeavingType DEF ControlType
<1>5. CASE FinishParamSync(r)
  <2>1. LeaveBucket(r) /\ it' = it /\ bwd' = bwd /\ at[r] <= B /\ fwd[r] < M
    BY <1>1, <1>5 DEF FinishParamSync, Counts
  <2>. QED BY <1>1, <2>1, LeavingType DEF ControlType
<1>6. CASE BackwardBucket(r)
  <2>1. /\ pc[r] = "backward" /\ it' = it /\ fwd' = fwd
        /\ \/ at[r] > 1 /\ at' = [at EXCEPT ![r] = @ - 1] /\ pc' = pc /\ bwd' = bwd
           \/ /\ bwd' = [bwd EXCEPT ![r] = @ + 1] /\ pc' = [pc EXCEPT ![r] = "schedule"]
              /\ at' = at
    BY <1>6 DEF BackwardBucket
  <2>2. bwd[r] + 1 \in 0 .. M /\ (at[r] > 1 => at[r] - 1 \in 1 .. B + 1) /\ "schedule" \in Locations
    BY <1>1, <2>1 DEF Counts, Locations
  <2>. QED BY <1>1, <2>1, <2>2 DEF ControlType
<1>7. CASE FinishGradSync(r)
  <2>1. /\ it' = it /\ fwd' = fwd /\ bwd' = bwd
        /\ pc' = pc \/ pc' = [pc EXCEPT ![r] = "step"]
        /\ \/ at' = at
           \/ at[r] <= B /\ at' = [at EXCEPT ![r] = @ + 1]
           \/ at' = [at EXCEPT ![r] = 1]
    BY <1>7 DEF FinishGradSync
  <2>2. 1 \in 1 .. B + 1 /\ (at[r] <= B => at[r] + 1 \in 1 .. B + 1) /\ "step" \in Locations
    BY <1>1 DEF Locations
  <2>. QED BY <1>1, <2>1, <2>2 DEF ControlType
<1>8. CASE Unscale(r)
  BY <1>1, <1>8 DEF Unscale, ControlType, Locations
<1>9. CASE Step(r)
  BY <1>1, <1>9 DEF Step, ControlType, Locations
<1>10. CASE GatherParams(r)
  BY <1>1, <1>10 DEF GatherParams, ControlType, Locations
<1>11. CASE CopyGathered(r)
  <2>1. /\ it' = it /\ fwd' = fwd /\ bwd' = bwd
        /\ at' = [at EXCEPT ![r] = IF at[r] < B THEN at[r] + 1 ELSE 1]
        /\ \E p \in Locations : pc' = [pc EXCEPT ![r] = p]
    BY <1>11 DEF CopyGathered, Locations
  <2>2. (IF at[r] < B THEN at[r] + 1 ELSE 1) \in 1 .. B + 1
    BY <1>1
  <2>. QED BY <1>1, <2>1, <2>2 DEF ControlType
<1>12. CASE NextIteration(r)
  <2>1. /\ at' = at /\ fwd' = fwd /\ bwd' = bwd /\ pc[r] = "between"
        /\ it' = [it EXCEPT ![r] = @ + 1]
        /\ \E p \in Locations : pc' = [pc EXCEPT ![r] = p]
    BY <1>12 DEF NextIteration, Locations
  <2>2. it[r] + 1 \in 1 .. Iterations + 1
    BY <1>1, <2>1 DEF Counts
  <2>. QED BY <1>1, <2>1, <2>2 DEF ControlType
<1>. QED BY <1>2, <1>3, <1>4, <1>5, <1>6, <1>7, <1>8, <1>9, <1>10, <1>11, <1>12 DEF RankStep

LEMMA BackwardType ==
  ASSUME NEW r \in Ranks, Ready(r), BackwardBucket(r)
  PROVE  MemoryType'
<1>. DEFINE b == at[r]
            c == <<r, it[r], bwd[r] + 1>>
<1>1. /\ storage \in [Ranks -> [Buckets -> [Shards -> Cells]]]
      /\ model' = model /\ main' = main
      /\ model \in [Ranks -> [Buckets -> [Shards -> NoParams .. Iterations]]]
      /\ main \in [Ranks -> 0 .. Iterations]
      /\ overflowed \subseteq Contributions \X Buckets \X Shards
  BY DEF BackwardBucket, gathers, Ready, TypeOK
<1>2. /\ pc[r] = "backward" /\ bwd[r] < fwd[r] /\ b <= B /\ it[r] # Iterations + 1
  BY Facts DEF BackwardBucket, Counts
<1>3. b \in Buckets /\ bwd[r] + 1 \in 1 .. M /\ it[r] \in 1 .. Iterations
  <2>1. args \in Settings
    BY DEF Ready
  <2>2. /\ B \in Nat \ {0} /\ M \in Nat \ {0} /\ Iterations \in Nat \ {0}
        /\ at[r] \in 1 .. B + 1 /\ fwd[r] \in 0 .. M /\ bwd[r] \in 0 .. M
        /\ it[r] \in 1 .. Iterations + 1
    BY <2>1, Facts, Setting
  <2>. QED BY <1>2, <2>2 DEF Buckets
<1>4. c \in Contributions
  BY <1>3 DEF Contributions
<1>. HIDE DEF c
<1>5. storage' \in [Ranks -> [Buckets -> [Shards -> Cells]]]
  <2>. DEFINE row == [s \in Shards |-> [storage[r][b][s] EXCEPT !.grads = @ \cup {c}]]
  <2>1. \A s \in Shards : [storage[r][b][s] EXCEPT !.grads = @ \cup {c}] \in Cells
    <3>. TAKE s \in Shards
    <3>1. storage[r][b][s] \in Cells
      BY <1>1, <1>3
    <3>. QED BY <1>4, <3>1 DEF Cells
  <2>2. row \in [Shards -> Cells]
    BY <2>1
  <2>3. storage' = [storage EXCEPT ![r] = [storage[r] EXCEPT ![b] = row]]
    BY DEF BackwardBucket, c
  <2>. HIDE DEF row
  <2>4. [storage[r] EXCEPT ![b] = row] \in [Buckets -> [Shards -> Cells]]
    BY <1>1, <2>2
  <2>. QED BY <1>1, <2>3, <2>4
<1>6. overflowed' \subseteq Contributions \X Buckets \X Shards
  <2>1. \A s \in Shards : <<c, b, s>> \in Contributions \X Buckets \X Shards
    BY <1>3, <1>4
  <2>2. overflowed' = overflowed \/ \E s \in Shards : overflowed' = overflowed \cup {<<c, b, s>>}
    BY DEF BackwardBucket, c
  <2>. QED BY <1>1, <2>1, <2>2
<1>. QED BY <1>1, <1>5, <1>6 DEF MemoryType

LEMMA StepType ==
  ASSUME NEW r \in Ranks, Ready(r), Step(r)
  PROVE  MemoryType'
<1>1. /\ storage \in [Ranks -> [Buckets -> [Shards -> Cells]]] /\ r \in Shards
      /\ model' = model /\ overflowed' = overflowed
      /\ main' = main \/ main' = [main EXCEPT ![r] = @ + 1]
      /\ model \in [Ranks -> [Buckets -> [Shards -> NoParams .. Iterations]]]
      /\ main \in [Ranks -> 0 .. Iterations]
      /\ overflowed \subseteq Contributions \X Buckets \X Shards
  BY DEF Step, Ready, TypeOK, Shards
<1>2. main[r] + 1 \in 0 .. Iterations
  <2>1. pc[r] = "check" /\ main[r] <= it[r] - 1 /\ it[r] # Iterations + 1
    BY Facts DEF Step, Counts, Steps
  <2>. QED BY <2>1, Facts, Setting, SMTT(20) DEF Ready
<1>3. main' \in [Ranks -> 0 .. Iterations]
  BY <1>1, <1>2
<1>4. storage' \in [Ranks -> [Buckets -> [Shards -> Cells]]]
  <2>. DEFINE cell == [grads |-> {}, params |-> main[r] + 1]
              rows == [b \in Buckets |-> [storage[r][b] EXCEPT ![r] = cell]]
  <2>1. cell \in Cells
    <3>1. main[r] + 1 \in NoParams .. Iterations
      BY <1>2, Setting DEF NoParams, Ready
    <3>. QED BY <3>1 DEF Cells
  <2>2. storage' = storage \/ storage' = [storage EXCEPT ![r] = rows]
    BY DEF Step
  <2>. HIDE DEF cell
  <2>3. rows \in [Buckets -> [Shards -> Cells]]
    BY <1>1, <2>1
  <2>. HIDE DEF rows
  <2>. QED BY <1>1, <2>2, <2>3
<1>. QED BY <1>1, <1>3, <1>4 DEF MemoryType

LEMMA MemoryTypes ==
  ASSUME NEW r \in Ranks, Ready(r), RankStep(r)
  PROVE  MemoryType'
<1>1. MemoryType /\ TypeOK /\ args \in Settings
  BY TypeParts DEF Ready
<1>2. CASE UNCHANGED <<storage, model, main, overflowed>>
  BY <1>1, <1>2 DEF MemoryType
<1>3. CASE UNCHANGED <<main, overflowed>> /\ \E b \in Buckets : CopyParams(r, b)
  BY <1>1, <1>3, CopyType DEF MemoryType
<1>4. CASE FinishParamSync(r)
  <2>1. at[r] \in Buckets /\ UNCHANGED <<main, overflowed>>
    <3>1. pc[r] = "forward" /\ UNCHANGED <<main, overflowed>>
      BY <1>4 DEF FinishParamSync
    <3>2. at[r] <= B /\ at[r] \in 1 .. B + 1 /\ B \in Nat
      BY <3>1, Facts DEF Counts
    <3>. QED BY <3>1, <3>2 DEF Buckets
  <2>2. CopyParams(r, at[r]) \/ UNCHANGED <<storage, model>>
    BY <1>4 DEF FinishParamSync
  <2>. QED BY <1>2, <1>3, <2>1, <2>2
<1>5. CASE CopyGathered(r)
  <2>1. at[r] \in Buckets /\ UNCHANGED <<main, overflowed>> /\ CopyParams(r, at[r])
    BY <1>5, Facts DEF CopyGathered, Counts, Buckets
  <2>. QED BY <1>3, <2>1
<1>. QED BY <1>2, <1>4, <1>5, BackwardType, StepType
         DEF RankStep, ZeroGrad, StartPass, ComputeForward, FinishGradSync, Unscale,
             GatherParams, NextIteration

(* The sequences of handles that a rank may hold.                           *)
LEMMA HandleTypes ==
  ASSUME RestType, NEW r \in Ranks
  PROVE  /\ \A hs \in Seq({"flight", "None"}) :
              /\ Dispatched(r, hs) \in Seq({"flight", "None"})
              /\ [handles EXCEPT ![r] = hs] \in [Ranks -> Seq({"flight", "None"})]
         /\ \A cs \in Seq(BOOLEAN) :
              /\ Uncopied(r, cs) \in Seq(BOOLEAN)
              /\ [copied EXCEPT ![r] = cs] \in [Ranks -> Seq(BOOLEAN)]
         /\ handles[r] \in Seq({"flight", "None"}) /\ copied[r] \in Seq(BOOLEAN)
<1>1. ASSUME NEW hs \in Seq({"flight", "None"})
      PROVE  /\ Dispatched(r, hs) \in Seq({"flight", "None"})
             /\ [handles EXCEPT ![r] = hs] \in [Ranks -> Seq({"flight", "None"})]
  <2>1. "flight" \in {"flight", "None"}
    OBVIOUS
  <2>2. Append(hs, "flight") \in Seq({"flight", "None"})
    BY <2>1, Snoc
  <2>. QED BY <2>2 DEF Dispatched, RestType
<1>2. ASSUME NEW cs \in Seq(BOOLEAN)
      PROVE  /\ Uncopied(r, cs) \in Seq(BOOLEAN)
             /\ [copied EXCEPT ![r] = cs] \in [Ranks -> Seq(BOOLEAN)]
  <2>1. FALSE \in BOOLEAN
    OBVIOUS
  <2>2. Append(cs, FALSE) \in Seq(BOOLEAN)
    BY <2>1, Snoc
  <2>. QED BY <2>2 DEF Uncopied, RestType
<1>. QED BY <1>1, <1>2 DEF RestType

LEMMA RestTypes ==
  ASSUME NEW r \in Ranks, Ready(r), RankStep(r)
  PROVE  RestType'
<1>1. /\ RestType /\ TypeOK /\ args \in Settings
      /\ posted \in [Ranks -> Seq(Collectives)] /\ B \in Nat \ {0}
      /\ success \in [Ranks -> BOOLEAN] /\ found \in [Ranks -> BOOLEAN]
      /\ handles \in [Ranks -> Seq({"flight", "None"})] /\ copied \in [Ranks -> Seq(BOOLEAN)]
  BY TypeParts, Facts DEF Ready, RestType
<1>2. ASSUME UNCHANGED <<success, found, handles, copied>>, posted' \in [Ranks -> Seq(Collectives)]
      PROVE  RestType'
  BY <1>1, <1>2 DEF RestType
<1>3. \A b \in 1 .. B : Dispatch(r, b) => posted' \in [Ranks -> Seq(Collectives)]
  BY <1>1, DispatchType
<1>4. \A c \in Collectives : Post(r, c) => posted' \in [Ranks -> Seq(Collectives)]
  BY <1>1, PostType
<1>5. CASE ZeroGrad(r)
  <2>1. UNCHANGED <<success, found>>
    BY <1>5 DEF ZeroGrad
  <2>2. CASE OverlapParamGather
    <3>1. /\ Dispatch(r, 1)
          /\ handles' = [handles EXCEPT ![r] = Dispatched(r, handles[r])]
          /\ copied' = [copied EXCEPT ![r] = Uncopied(r, copied[r])]
      BY <1>5, <2>2 DEF ZeroGrad
    <3>2. posted' \in [Ranks -> Seq(Collectives)]
      BY <1>1, <1>3, <3>1
    <3>3. handles' \in [Ranks -> Seq({"flight", "None"})] /\ copied' \in [Ranks -> Seq(BOOLEAN)]
      BY <1>1, <3>1, HandleTypes
    <3>. QED BY <1>1, <2>1, <3>2, <3>3 DEF RestType
  <2>3. CASE ~OverlapParamGather
    BY <1>1, <1>2, <1>5, <2>3 DEF ZeroGrad, gathers
  <2>. QED BY <2>2, <2>3
<1>6. CASE FinishParamSync(r)
  <2>. DEFINE b == at[r]
              hs == [handles[r] EXCEPT ![b] = "None"]
              cs == [copied[r] EXCEPT ![b] = TRUE]
  <2>1. /\ UNCHANGED <<success, found>> /\ b \in 1 .. B
        /\ b \in 1 .. Len(handles[r]) /\ b \in 1 .. Len(copied[r])
    <3>1. pc[r] = "forward" /\ UNCHANGED <<success, found>> /\ b <= Len(handles[r])
      BY <1>6 DEF FinishParamSync
    <3>2. at[r] <= B /\ at[r] \in 1 .. B + 1 /\ B \in Nat
      BY <3>1, Facts DEF Counts
    <3>3. Len(copied[r]) = Len(handles[r]) /\ Len(handles[r]) \in Nat
      BY Facts DEF Handles
    <3>. QED BY <3>1, <3>2, <3>3
  <2>2. hs \in Seq({"flight", "None"}) /\ cs \in Seq(BOOLEAN)
    <3>1. handles[r] \in Seq({"flight", "None"}) /\ copied[r] \in Seq(BOOLEAN)
      BY <1>1
    <3>2. "None" \in {"flight", "None"} /\ TRUE \in BOOLEAN
      OBVIOUS
    <3>3. hs \in Seq({"flight", "None"})
      BY <2>1, <3>1, <3>2, Overwrite
    <3>4. cs \in Seq(BOOLEAN)
      BY <2>1, <3>1, <3>2, Overwrite
    <3>. QED BY <3>3, <3>4
  <2>3. \/ /\ b + 1 \in 1 .. B /\ Dispatch(r, b + 1)
           /\ handles' = [handles EXCEPT ![r] = Dispatched(r, hs)]
           /\ copied' = [copied EXCEPT ![r] = Uncopied(r, cs)]
        \/ /\ posted' = posted
           /\ handles' = [handles EXCEPT ![r] = hs]
           /\ copied' = [copied EXCEPT ![r] = cs]
    BY <1>1, <1>6, <2>1 DEF FinishParamSync
  <2>. HIDE DEF hs, cs
  <2>4. posted' \in [Ranks -> Seq(Collectives)]
    BY <1>1, <1>3, <2>3
  <2>5. handles' \in [Ranks -> Seq({"flight", "None"})]
    <3>1. /\ Dispatched(r, hs) \in Seq({"flight", "None"})
          /\ \A x \in Seq({"flight", "None"}) :
               [handles EXCEPT ![r] = x] \in [Ranks -> Seq({"flight", "None"})]
      BY <1>1, <2>2, HandleTypes
    <3>. QED BY <2>2, <2>3, <3>1
  <2>6. copied' \in [Ranks -> Seq(BOOLEAN)]
    <3>1. /\ Uncopied(r, cs) \in Seq(BOOLEAN)
          /\ \A x \in Seq(BOOLEAN) : [copied EXCEPT ![r] = x] \in [Ranks -> Seq(BOOLEAN)]
      BY <1>1, <2>2, HandleTypes
    <3>. QED BY <2>2, <2>3, <3>1
  <2>. QED BY <1>1, <2>1, <2>4, <2>5, <2>6 DEF RestType
<1>7. CASE BackwardBucket(r)
  <2>1. at[r] \in 1 .. B
    BY <1>7, Facts DEF BackwardBucket, Counts
  <2>2. <<"reduce", at[r]>> \in Collectives
    BY <1>1, <2>1, Named
  <2>3. UNCHANGED <<success, found, handles, copied>>
    BY <1>7 DEF BackwardBucket, gathers
  <2>4. Post(r, <<"reduce", at[r]>>) \/ posted' = posted
    BY <1>7 DEF BackwardBucket
  <2>. QED BY <1>1, <1>2, <1>4, <2>2, <2>3, <2>4
<1>8. CASE FinishGradSync(r)
  <2>1. at[r] \in 1 .. B + 1
    BY Facts
  <2>2. at[r] <= B => <<"reduce", at[r]>> \in Collectives
    <3>. HAVE at[r] <= B
    <3>1. at[r] \in 1 .. B
      BY <1>1, <2>1
    <3>. QED BY <1>1, <3>1, Named
  <2>3. UNCHANGED <<success, found, handles, copied>>
    BY <1>8 DEF FinishGradSync, gathers
  <2>4. (at[r] <= B /\ Post(r, <<"reduce", at[r]>>)) \/ posted' = posted
    BY <1>8 DEF FinishGradSync
  <2>. QED BY <1>1, <1>2, <1>4, <2>2, <2>3, <2>4
<1>9. CASE Unscale(r)
  <2>1. Post(r, <<"inf", 0>>) /\ UNCHANGED <<success, handles, copied>>
    BY <1>9 DEF Unscale, gathers
  <2>2. posted' \in [Ranks -> Seq(Collectives)]
    BY <1>1, <1>4, <2>1, Named
  <2>3. found' \in [Ranks -> BOOLEAN]
    BY <1>1, <1>9 DEF Unscale
  <2>. QED BY <1>1, <2>1, <2>2, <2>3 DEF RestType
<1>10. CASE Step(r)
  <2>1. /\ success' = [success EXCEPT ![r] = ~found[r]] /\ UNCHANGED <<found, posted>>
        /\ handles' = [handles EXCEPT ![r] = <<>>] /\ copied' = [copied EXCEPT ![r] = <<>>]
    BY <1>10 DEF Step
  <2>2. <<>> \in Seq({"flight", "None"}) /\ <<>> \in Seq(BOOLEAN)
    OBVIOUS
  <2>3. handles' \in [Ranks -> Seq({"flight", "None"})] /\ copied' \in [Ranks -> Seq(BOOLEAN)]
    BY <1>1, <2>1, <2>2, HandleTypes
  <2>. QED BY <1>1, <2>1, <2>3 DEF RestType
<1>11. CASE GatherParams(r)
  <2>1. /\ Post(r, <<"gather", at[r]>>) /\ UNCHANGED <<success, found>> /\ success[r]
        /\ handles' = [handles EXCEPT ![r] = Append(@, "None")]
        /\ copied' = [copied EXCEPT ![r] = Append(@, FALSE)]
    BY <1>11 DEF GatherParams
  <2>2. at[r] \in 1 .. B
    BY <1>11, Facts DEF GatherParams, Counts
  <2>3. posted' \in [Ranks -> Seq(Collectives)]
    BY <1>1, <1>4, <2>1, <2>2, Named
  <2>4. handles' \in [Ranks -> Seq({"flight", "None"})] /\ copied' \in [Ranks -> Seq(BOOLEAN)]
    <3>1. handles[r] \in Seq({"flight", "None"}) /\ copied[r] \in Seq(BOOLEAN)
      BY <1>1
    <3>2. "None" \in {"flight", "None"} /\ FALSE \in BOOLEAN
      OBVIOUS
    <3>3. Append(handles[r], "None") \in Seq({"flight", "None"})
      BY <3>1, <3>2, Snoc
    <3>4. Append(copied[r], FALSE) \in Seq(BOOLEAN)
      BY <3>1, <3>2, Snoc
    <3>. QED BY <1>1, <2>1, <3>3, <3>4, HandleTypes
  <2>. QED BY <1>1, <2>1, <2>3, <2>4 DEF RestType
<1>12. CASE UNCHANGED <<success, found, handles, copied, posted>>
  BY <1>1, <1>2, <1>12
<1>. QED BY <1>5, <1>6, <1>7, <1>8, <1>9, <1>10, <1>11, <1>12
         DEF RankStep, StartPass, ComputeForward, CopyGathered, NextIteration, gathers

-----------------------------------------------------------------------------
(* The whole state.                                                         *)

(* The step of a rank keeps what it knows.                                  *)
LEMMA RankKeeps ==
  ASSUME NEW r \in Ranks, Ready(r), RankStep(r)
  PROVE  Kept(r)
<1>1. overflowed \subseteq overflowed' /\ IsFiniteSet(overflowed')
  BY Overflows DEF Ready
<1>. QED BY <1>1, ZeroGradKeeps, StartPassKeeps, ComputeForwardKeeps, FinishParamSyncKeeps,
            BackwardBucketKeeps, FinishGradSyncKeeps, UnscaleKeeps, StepKeeps, GatherParamsKeeps,
            CopyGatheredKeeps, NextIterationKeeps
         DEF RankStep

LEMMA RankStepKeepsIInv ==
  ASSUME IInv, NEW r \in Ranks, RankStep(r)
  PROVE  IInv'
<1>1. args' = args /\ TypeOK /\ args \in Settings /\ IsFiniteSet(overflowed) /\ Agreed
  BY DEF RankStep, IInv
<1>2. Ready(r)
  BY <1>1 DEF Ready, IInv
<1>3. TypeOK'
  BY <1>2, ControlTypes, MemoryTypes, RestTypes, TypePartsNext
<1>4. overflowed \subseteq overflowed' /\ IsFiniteSet(overflowed')
  BY <1>1, Overflows
<1>5. ASSUME NEW q \in Ranks PROVE Kept(q)
  <2>1. CASE q = r
    BY <1>2, <2>1, RankKeeps
  <2>2. CASE q # r
    <3>1. Same(q) /\ Local(q)
      BY <1>1, <2>2, Others DEF IInv
    <3>. QED BY <1>1, <1>4, <3>1, SameLocal DEF Kept
  <2>. QED BY <2>1, <2>2
<1>6. Agreed'
  <2>1. \A p, q \in Ranks : View(p)' = View(q)'
    BY <1>1, <1>5 DEF Kept, Agreed
  <2>. QED BY <2>1 DEF Agreed
<1>. QED BY <1>1, <1>3, <1>4, <1>5, <1>6 DEF IInv, Kept

LEMMA StutterKeepsIInv ==
  ASSUME IInv, UNCHANGED vars
  PROVE  IInv'
<1>1. /\ args' = args /\ overflowed' = overflowed /\ TypeOK /\ args \in Settings
      /\ IsFiniteSet(overflowed) /\ Agreed
      /\ \A q \in Ranks : Same(q) /\ Local(q)
  BY DEF IInv, vars, progress, gathers, Same
<1>2. TypeOK'
  BY <1>1 DEF vars, progress, gathers, TypeOK
<1>3. \A q \in Ranks : Local(q)' /\ View(q)' = View(q)
  BY <1>1, SameLocal
<1>4. Agreed'
  <2>1. \A p, q \in Ranks : View(p)' = View(q)'
    BY <1>1, <1>3 DEF Agreed
  <2>. QED BY <2>1 DEF Agreed
<1>. QED BY <1>1, <1>2, <1>3, <1>4 DEF IInv

-----------------------------------------------------------------------------
(* A collective completes.                                                  *)

(* How many collectives a rank has issued tells how far it is: one that     *)
(* issued a reduce-scatter made the forward passes, one that issued that of *)
(* bucket b made all backward passes through b.                             *)
LEMMA Progress ==
  ASSUME TypeOK, args \in Settings, NEW r \in Ranks, Counts(r), Handles(r)
  PROVE  /\ Issued(r) <= 2 * B + 1
         /\ Issued(r) > 2 * B <=> pc[r] = "check"
         /\ Issued(r) > B => /\ pc[r] \notin Outside /\ Steps(r) = it[r] - 1
                             /\ \A b \in Buckets : ~Held(r, b)
         /\ \A b \in Buckets : Issued(r) >= Place(b) => Backprops(r, b) = M
<1>1. /\ B \in Nat \ {0} /\ M \in Nat \ {0}
      /\ OverlapGradReduce \in BOOLEAN /\ OverlapParamGather \in BOOLEAN
      /\ at[r] \in 1 .. B + 1 /\ fwd[r] \in 0 .. M /\ bwd[r] \in 0 .. M
      /\ success[r] \in BOOLEAN /\ Len(handles[r]) \in Nat
  BY Setting, Typed
<1>2. pc[r] \in Locations
  BY DEF TypeOK, Locations
<1>3. GathersIssued(r) \in 0 .. B
  <2>1. CASE ~success[r]
    BY <1>1, <2>1 DEF GathersIssued
  <2>2. CASE success[r]
    <3>1. Len(handles[r]) <= B
      <4>1. CASE OverlapParamGather
        <5>1. pc[r] = "forward" => at[r] <= B
          BY DEF Counts
        <5>2. fwd[r] = 0 => pc[r] \notin {"backward", "finish", "step", "check"}
          BY <1>1 DEF Counts, Passes
        <5>3. pc[r] \notin {"gather", "copy"}
          BY <4>1 DEF Counts
        <5>4. pc[r] \in {"between", "zero", "stopped", "schedule", "forward"} \/ fwd[r] > 0
          BY <1>1, <1>2, <5>2, <5>3 DEF Locations
        <5>. QED BY <1>1, <2>2, <4>1, <5>1, <5>4 DEF Handles
      <4>2. CASE ~OverlapParamGather
        <5>1. pc[r] \in {"gather", "copy"} => at[r] <= B
          BY DEF Counts
        <5>. QED BY <1>1, <2>2, <4>2, <5>1 DEF Handles
      <4>. QED BY <4>1, <4>2
    <3>. QED BY <1>1, <2>2, <3>1 DEF GathersIssued
  <2>. QED BY <2>1, <2>2
<1>4. /\ ReducesIssued(r) \in 0 .. B
      /\ pc[r] = "check" => ReducesIssued(r) = B
      /\ ReducesIssued(r) > 0 => pc[r] \notin Outside /\ fwd[r] > 0
  <2>1. CASE OverlapGradReduce
    <3>1. pc[r] = "check" => bwd[r] = M
      BY DEF Counts
    <3>2. pc[r] = "backward" => at[r] <= B /\ bwd[r] < fwd[r]
      BY DEF Counts
    <3>3. bwd[r] = M /\ pc[r] \notin Outside => fwd[r] > 0
      BY <1>1, <1>2 DEF Counts, Passes, Locations, Outside
    <3>. QED BY <1>1, <2>1, <3>1, <3>2, <3>3 DEF ReducesIssued, Outside
  <2>2. CASE ~OverlapGradReduce
    <3>1. pc[r] \in {"finish", "step", "check"} => fwd[r] = M
      BY DEF Counts
    <3>. QED BY <1>1, <2>2, <3>1 DEF ReducesIssued, Outside
  <2>. QED BY <2>1, <2>2
<1>5. Issued(r) <= 2 * B + 1 /\ (Issued(r) > 2 * B <=> pc[r] = "check")
  <2>1. pc[r] = "check" => GathersIssued(r) = B
    <3>. HAVE pc[r] = "check"
    <3>1. fwd[r] = M
      BY DEF Counts
    <3>. QED BY <1>1, <3>1 DEF Handles, GathersIssued
  <2>. QED BY <1>1, <1>3, <1>4, <2>1 DEF Issued
<1>6. Issued(r) > B => pc[r] \notin Outside /\ fwd[r] > 0
  <2>1. pc[r] = "check" => ReducesIssued(r) > 0
    BY <1>1, <1>4
  <2>. QED BY <1>1, <1>3, <1>4, <2>1 DEF Issued
<1>7. Issued(r) > B => Steps(r) = it[r] - 1 /\ \A b \in Buckets : ~Held(r, b)
  BY <1>1, <1>6 DEF Steps, Held, Outside
<1>8. ASSUME NEW b \in Buckets, Issued(r) >= Place(b)
      PROVE  Backprops(r, b) = M
  <2>1. b \in 1 .. B
    BY DEF Buckets
  <2>2. pc[r] \notin Outside
    BY <1>1, <1>6, <1>8, <2>1, Places, Typed
  <2>3. CASE OverlapGradReduce
    <3>1. ReducesIssued(r) > 0 /\ (pc[r] # "check" => ReducesIssued(r) >= B + 1 - b)
      BY <1>1, <1>3, <1>4, <1>8, <2>1, <2>3 DEF Issued, Place
    <3>2. pc[r] = "check" => bwd[r] = M
      BY DEF Counts
    <3>3. pc[r] = "backward" => bwd[r] # M /\ at[r] \in 1 .. B
      BY <1>1 DEF Counts
    <3>. QED BY <1>1, <2>1, <2>2, <2>3, <3>1, <3>2, <3>3 DEF Backprops, ReducesIssued
  <2>4. CASE ~OverlapGradReduce
    <3>1. ReducesIssued(r) > 0
      BY <1>1, <1>3, <1>4, <1>8, <2>1, <2>4 DEF Issued, Place
    <3>2. pc[r] \in {"finish", "step", "check"}
      BY <2>4, <3>1 DEF ReducesIssued
    <3>. QED BY <3>2 DEF Backprops, Counts, Outside
  <2>. QED BY <2>3, <2>4
<1>. QED BY <1>5, <1>6, <1>7, <1>8

(* The collective that completes is the next one for every rank.            *)
LEMMA Completes ==
  ASSUME IInv, Complete, NEW r \in Ranks
  PROVE  /\ Done(r) + 1 \in 1 .. 2 * B + 1 /\ Done(r) + 1 <= Issued(r)
         /\ Head(posted[r]) = Coll(Done(r) + 1)
         /\ \A q \in Ranks : /\ Done(q) = Done(r) /\ Steps(q) = Steps(r)
                             /\ success[q] = success[r] /\ main[q] = main[r]
<1>1. /\ TypeOK /\ args \in Settings /\ \A q \in Ranks : Local(q) /\ posted[q] # <<>>
  BY DEF IInv, Complete
<1>2. /\ B \in Nat \ {0} /\ posted[r] \in Seq(Collectives) /\ Len(posted[r]) \in Nat
      /\ Done(r) \in Int /\ Issued(r) \in Int
  BY <1>1, Setting, Typed
<1>3. Len(posted[r]) # 0
  BY <1>1, <1>2
<1>4. Done(r) + 1 <= Issued(r) /\ Issued(r) <= 2 * B + 1
  <2>1. Issued(r) <= 2 * B + 1
    BY <1>1, Progress DEF Local
  <2>. QED BY <1>2, <1>3, <2>1 DEF Done
<1>5. Done(r) >= 0
  <2>1. Done(r) >= First(success[r])
    BY <1>1 DEF Local, InOrder
  <2>. QED BY <1>2, <2>1 DEF First
<1>6. Head(posted[r]) = Coll(Done(r) + 1)
  <2>1. 1 \in 1 .. Len(posted[r]) /\ Head(posted[r]) = posted[r][1]
    BY <1>1, <1>2, <1>3
  <2>. QED BY <1>1, <2>1 DEF Local, InOrder
<1>7. ASSUME NEW q \in Ranks
      PROVE  /\ Done(q) = Done(r) /\ Steps(q) = Steps(r)
             /\ success[q] = success[r] /\ main[q] = main[r]
  <2>1. View(q) = View(r)
    BY DEF IInv, Agreed
  <2>2. /\ View(q) = <<Steps(q), Done(q), success[q], main[q]>>
        /\ View(r) = <<Steps(r), Done(r), success[r], main[r]>>
    BY <1>1 DEF View
  <2>3. <<Steps(q), Done(q), success[q], main[q]>> = <<Steps(r), Done(r), success[r], main[r]>>
    BY <2>1, <2>2
  <2>. QED BY <2>3
<1>. QED BY <1>2, <1>4, <1>5, <1>6, <1>7

(* The rest of a sequence.                                                  *)
LEMMA Behead ==
  ASSUME NEW T, NEW s \in Seq(T), s # <<>>
  PROVE  /\ Tail(s) \in Seq(T) /\ Len(Tail(s)) = Len(s) - 1
         /\ \A i \in 1 .. Len(s) - 1 : Tail(s)[i] = s[i + 1]
OBVIOUS

(* What the completion of a collective leaves alone, and where it brings    *)
(* the order of the collectives.                                            *)
LEMMA Completed ==
  ASSUME IInv, Complete, NEW r \in Ranks
  PROVE  /\ Done(r)' = Done(r) + 1 /\ Issued(r)' = Issued(r) /\ Steps(r)' = Steps(r)
         /\ InOrder(r)' /\ Counts(r)' /\ Handles(r)'
         /\ \A b \in Buckets : /\ Held(r, b)' = Held(r, b) /\ Place(b)' = Place(b)
                               /\ Backprops(r, b)' = Backprops(r, b)
         /\ posted'[r] \in Seq(Collectives) /\ Len(posted'[r]) = Len(posted[r]) - 1
         /\ pc[r] # "step"
<1>1. /\ args' = args /\ pc' = pc /\ it' = it /\ at' = at /\ fwd' = fwd /\ bwd' = bwd
      /\ model' = model /\ main' = main /\ handles' = handles /\ copied' = copied
      /\ success' = success /\ overflowed' = overflowed
      /\ posted' = [q \in Ranks |-> Tail(posted[q])]
      /\ posted[r] # <<>>
  BY DEF Complete, progress, gathers
<1>2. /\ posted[r] \in Seq(Collectives) /\ Len(posted[r]) \in Nat /\ Local(r)
      /\ Done(r) \in Int /\ Issued(r) \in Int /\ B \in Nat \ {0}
  BY Typed, Setting DEF IInv
<1>3. Issued(r)' = Issued(r) /\ Steps(r)' = Steps(r)
  BY <1>1 DEF Issued, GathersIssued, ReducesIssued, Steps, OverlapGradReduce
<1>4. /\ posted'[r] \in Seq(Collectives) /\ Len(posted'[r]) = Len(posted[r]) - 1
      /\ \A i \in 1 .. Len(posted'[r]) : posted'[r][i] = posted[r][i + 1]
  <2>1. posted'[r] = Tail(posted[r])
    BY <1>1
  <2>. QED BY <1>1, <1>2, <2>1, Behead
<1>5. Done(r)' = Done(r) + 1
  BY <1>2, <1>3, <1>4 DEF Done
<1>6. InOrder(r)'
  <2>1. \A i \in 1 .. Len(posted'[r]) : posted'[r][i] = Coll(Done(r) + 1 + i)
    <3>. TAKE i \in 1 .. Len(posted'[r])
    <3>1. i + 1 \in 1 .. Len(posted[r]) /\ Done(r) + (i + 1) = Done(r) + 1 + i
      BY <1>2, <1>4
    <3>2. posted[r][i + 1] = Coll(Done(r) + (i + 1))
      BY <1>2, <3>1 DEF Local, InOrder
    <3>. QED BY <1>4, <3>1, <3>2
  <2>2. \A p : Coll(p)' = Coll(p)
    BY <1>1 DEF Coll, OverlapGradReduce
  <2>3. \A i \in 1 .. Len(posted'[r]) : posted'[r][i] = Coll(Done(r)' + i)
    BY <1>5, <2>1
  <2>4. Done(r)' >= First(success[r])'
    <3>1. Done(r) >= First(success[r]) /\ First(success[r]) \in Int
      BY <1>2 DEF Local, InOrder, First
    <3>2. First(success[r])' = First(success[r])
      BY <1>1 DEF First
    <3>. QED BY <1>2, <1>5, <3>1, <3>2
  <2>. QED BY <2>2, <2>3, <2>4 DEF InOrder
<1>7. pc[r] # "step"
  BY <1>1, <1>2 DEF Local, Counts
<1>8. Counts(r)'
  BY <1>1, <1>2, <1>3, <1>7 DEF Local, Counts, OverlapParamGather
<1>9. \A b \in Buckets : /\ Held(r, b)' = Held(r, b) /\ Place(b)' = Place(b)
                         /\ Backprops(r, b)' = Backprops(r, b)
  BY <1>1 DEF Held, Place, Backprops, OverlapParamGather, OverlapGradReduce
<1>10. Handles(r)'
  <2>1. \A b : Held(r, b)' = Held(r, b)
    BY <1>1 DEF Held, OverlapParamGather
  <2>. QED BY <1>1, <1>2, <2>1 DEF Local, Handles, OverlapParamGather
<1>. QED BY <1>3, <1>4, <1>5, <1>6, <1>7, <1>8, <1>9, <1>10

(* The all-gather of a bucket: every rank holds the bucket and receives the *)
(* last parameters of each shard from its owner.                            *)
LEMMA GatherCompletes ==
  ASSUME IInv, Complete, NEW r \in Ranks, Done(r) + 1 <= B
  PROVE  /\ \A q \in Ranks : Params(q)' /\ Modules(q)' /\ (Zeroing => Grads(q))'
         /\ storage' \in [Ranks -> [Buckets -> [Shards -> Cells]]] /\ found' = found
<1>. DEFINE p == Done(r) + 1
<1>1. /\ args' = args /\ pc' = pc /\ it' = it /\ fwd' = fwd /\ bwd' = bwd /\ at' = at
      /\ model' = model /\ main' = main /\ success' = success /\ overflowed' = overflowed
      /\ TypeOK /\ args \in Settings /\ \A q \in Ranks : Local(q)
  BY DEF Complete, progress, gathers, IInv
<1>2. /\ B \in Nat \ {0} /\ p \in 1 .. B /\ Done(r) \in Int
      /\ storage \in [Ranks -> [Buckets -> [Shards -> Cells]]] /\ Shards = Ranks /\ Buckets = 1 .. B
  <2>1. p \in 1 .. 2 * B + 1 /\ B \in Nat \ {0} /\ Done(r) \in Int
    BY <1>1, Completes, Setting, Typed
  <2>2. p \in 1 .. B
    BY <2>1
  <2>3. storage \in [Ranks -> [Buckets -> [Shards -> Cells]]]
    BY <1>1 DEF TypeOK
  <2>. QED BY <2>1, <2>2, <2>3 DEF Shards, Buckets
<1>3. storage' = AllGather(p) /\ found' = found
  <2>1. Head(posted[r]) = <<"gather", p>>
    BY <1>2, Completes, Places, <1>1
  <2>2. PICK c \in Collectives :
          /\ \A q \in Ranks : Head(posted[q]) = c
          /\ storage' = CASE c[1] = "reduce" -> ReduceScatter(c[2])
                          [] c[1] = "gather" -> AllGather(c[2])
                          [] c[1] = "inf"    -> storage
          /\ found' = IF c[1] = "inf" THEN [q \in Ranks |-> \E x \in Ranks : found[x]] ELSE found
    BY DEF Complete
  <2>3. c[1] = "gather" /\ c[2] = p
    BY <2>1, <2>2
  <2>. HIDE DEF p
  <2>. QED BY <2>2, <2>3
<1>. HIDE DEF p
<1>4. \A q \in Ranks, b \in Buckets, s \in Shards :
        storage'[q][b][s] = IF b = p THEN storage[s][b][s] ELSE storage[q][b][s]
  BY <1>2, <1>3 DEF AllGather
<1>5. storage' \in [Ranks -> [Buckets -> [Shards -> Cells]]]
  <2>1. [s \in Shards |-> storage[s][p][s]] \in [Shards -> Cells]
    BY <1>2
  <2>2. \A q \in Ranks : [storage[q] EXCEPT ![p] = [s \in Shards |-> storage[s][p][s]]]
                           \in [Buckets -> [Shards -> Cells]]
    BY <1>2, <2>1
  <2>. QED BY <1>3, <2>2 DEF AllGather
<1>6. ASSUME NEW q \in Ranks
      PROVE  /\ success[q] /\ Held(q, p) /\ main[q] = main[r] /\ Done(q) = Done(r)
             /\ Arrived(q, p, q) /\ storage[q][p][q].params = main[r]
             /\ Zeroing => storage[q][p][q].grads = {}
  <2>1. Done(q) = Done(r) /\ main[q] = main[r]
    BY Completes
  <2>2. success[q]
    <3>1. Done(q) >= First(success[q])
      BY <1>1 DEF Local, InOrder
    <3>2. Done(r) < B
      BY <1>2 DEF p
    <3>. QED BY <1>2, <2>1, <3>1, <3>2 DEF First
  <2>3. Held(q, p)
    <3>1. ~(Done(q) >= p)
      BY <1>2, <2>1 DEF p
    <3>. QED BY <1>1, <1>2, <3>1 DEF Local, Modules
  <2>4. Arrived(q, p, q)
    BY <2>2, <2>3 DEF Arrived
  <2>. QED BY <1>1, <1>2, <2>1, <2>2, <2>3, <2>4 DEF Local, Params, Grads
<1>7. ASSUME NEW q \in Ranks, NEW b \in Buckets, NEW s \in Shards
      PROVE  /\ Held(q, b)' = Held(q, b) /\ Done(q)' = p
             /\ Arrived(q, b, s)' <=> IF b = p THEN TRUE ELSE Arrived(q, b, s)
             /\ b # p => Expected(q, b, s)' = Expected(q, b, s)
  <2>1. /\ Held(q, b)' = Held(q, b) /\ Done(q)' = p /\ Place(b)' = Place(b)
        /\ Backprops(q, b)' = Backprops(q, b) /\ Done(q) = Done(r)
    BY <1>6, Completed DEF p
  <2>2. b # p => (Done(q)' >= b <=> Done(q) >= b)
    BY <1>2, <2>1 DEF p
  <2>3. b = p => Done(q)' >= b
    BY <1>2, <2>1
  <2>4. ~(Done(q)' >= Place(b)) /\ ~(Done(q) >= Place(b))
    <3>1. Place(b) \in B + 1 .. 2 * B
      BY <1>1, Places
    <3>. QED BY <1>2, <2>1, <3>1 DEF p
  <2>. QED BY <1>1, <1>6, <2>1, <2>2, <2>3, <2>4 DEF Arrived, Expected
<1>8. ASSUME NEW q \in Ranks PROVE Params(q)'
  <2>. SUFFICES ASSUME NEW b \in Buckets, NEW s \in Shards
                PROVE  storage'[q][b][s].params = IF Arrived(q, b, s)' THEN main[q] ELSE NoParams
    BY <1>1 DEF Params
  <2>1. CASE b = p
    BY <1>2, <1>4, <1>6, <1>7, <2>1, ZenonT(40)
  <2>2. CASE b # p
    BY <1>1, <1>4, <1>7, <2>2 DEF Local, Params
  <2>. QED BY <2>1, <2>2
<1>9. ASSUME NEW q \in Ranks PROVE Modules(q)'
  <2>. SUFFICES ASSUME NEW b \in Buckets, ~(success[q] /\ Held(q, b))
                PROVE  Current(q, b)' /\ Done(q)' >= b
    BY <1>1, <1>2, <1>7 DEF Modules
  <2>1. Current(q, b) /\ Done(q) >= b
    BY <1>1 DEF Local, Modules
  <2>2. Done(q)' >= b
    BY <1>2, <1>6, <1>7, <2>1 DEF p
  <2>. QED BY <1>1, <2>1, <2>2 DEF Current
<1>10. ASSUME NEW q \in Ranks, Zeroing' PROVE Grads(q)'
  <2>1. Zeroing /\ Grads(q)
    BY <1>1, <1>10 DEF Zeroing, OverlapParamGather, Local
  <2>. SUFFICES ASSUME NEW b \in Buckets, NEW s \in Shards
                PROVE  storage'[q][b][s].grads =
                         IF Arrived(q, b, s)' THEN {}
                         ELSE IF Held(q, b)' /\ (success[q] \/ ~OverlapParamGather)
                           THEN storage'[q][b][s].grads
                           ELSE Expected(q, b, s)'
    BY <1>1 DEF Grads, OverlapParamGather
  <2>2. CASE b = p
    BY <1>2, <1>4, <1>6, <1>7, <2>1, <2>2, ZenonT(40)
  <2>3. CASE b # p
    BY <1>4, <1>7, <2>1, <2>3 DEF Grads
  <2>. QED BY <2>2, <2>3
<1>. QED BY <1>3, <1>5, <1>8, <1>9, <1>10

(* The reduce-scatter of a bucket: the owner of each shard receives the     *)
(* contributions of every rank and every microbatch of the iteration.       *)
LEMMA ReduceCompletes ==
  ASSUME IInv, Complete, NEW r \in Ranks, Done(r) + 1 > B, Done(r) + 1 <= 2 * B
  PROVE  /\ \A q \in Ranks : Params(q)' /\ Modules(q)' /\ (Zeroing => Grads(q))'
         /\ storage' \in [Ranks -> [Buckets -> [Shards -> Cells]]] /\ found' = found
<1>. DEFINE p == Done(r) + 1
<1>1. /\ args' = args /\ pc' = pc /\ it' = it /\ fwd' = fwd /\ bwd' = bwd /\ at' = at
      /\ model' = model /\ main' = main /\ success' = success /\ overflowed' = overflowed
      /\ TypeOK /\ args \in Settings /\ \A q \in Ranks : Local(q)
  BY DEF Complete, progress, gathers, IInv
<1>2. /\ B \in Nat \ {0} /\ M \in Nat \ {0} /\ p \in B + 1 .. 2 * B /\ Done(r) \in Int
      /\ storage \in [Ranks -> [Buckets -> [Shards -> Cells]]] /\ Shards = Ranks /\ Buckets = 1 .. B
  <2>1. B \in Nat \ {0} /\ M \in Nat \ {0} /\ Done(r) \in Int
    BY <1>1, Setting, Typed
  <2>2. p \in B + 1 .. 2 * B
    BY <2>1
  <2>3. storage \in [Ranks -> [Buckets -> [Shards -> Cells]]]
    BY <1>1 DEF TypeOK
  <2>. QED BY <2>1, <2>2, <2>3 DEF Shards, Buckets
<1>3. PICK b0 \in Buckets : p = Place(b0) /\ Coll(p) = <<"reduce", b0>>
  BY <1>1, <1>2, Places
<1>4. storage' = ReduceScatter(b0) /\ found' = found
  <2>1. Head(posted[r]) = <<"reduce", b0>>
    BY <1>3, Completes
  <2>2. PICK c \in Collectives :
          /\ \A q \in Ranks : Head(posted[q]) = c
          /\ storage' = CASE c[1] = "reduce" -> ReduceScatter(c[2])
                          [] c[1] = "gather" -> AllGather(c[2])
                          [] c[1] = "inf"    -> storage
          /\ found' = IF c[1] = "inf" THEN [q \in Ranks |-> \E x \in Ranks : found[x]] ELSE found
    BY DEF Complete
  <2>3. c[1] = "reduce" /\ c[2] = b0
    BY <2>1, <2>2
  <2>. QED BY <2>2, <2>3
<1>. HIDE DEF p
<1>5. ASSUME NEW q \in Ranks
      PROVE  /\ Done(q) = Done(r) /\ Done(q)' = p
             /\ \A b \in Buckets : /\ Held(q, b)' = Held(q, b) /\ ~Held(q, b)
                                   /\ Place(b)' = Place(b) /\ Backprops(q, b)' = Backprops(q, b)
             /\ Backprops(q, b0) = M /\ it[q] = it[r]
  <2>1. /\ Done(q) = Done(r) /\ Steps(q) = Steps(r)
        /\ Done(r) + 1 <= Issued(r) /\ Done(q) + 1 <= Issued(q)
    BY Completes
  <2>2. /\ Issued(q) \in Int /\ Issued(r) \in Int /\ it[q] \in Int /\ it[r] \in Int
    BY <1>1, <1>2, Typed, Setting, SMTT(20)
  <2>3. Issued(q) > B /\ Issued(r) > B /\ Issued(q) >= Place(b0)
    BY <1>2, <1>3, <2>1, <2>2 DEF p
  <2>4. /\ Steps(q) = it[q] - 1 /\ Steps(r) = it[r] - 1 /\ Backprops(q, b0) = M
        /\ \A b \in Buckets : ~Held(q, b)
    BY <1>1, <2>3, Progress DEF Local
  <2>5. it[q] = it[r]
    <3>1. it[q] - 1 = it[r] - 1
      BY <2>1, <2>4
    <3>2. it[q] \in Int /\ it[r] \in Int
      BY <2>2
    <3>. QED BY <3>1, <3>2
  <2>6. /\ Done(q)' = p
        /\ \A b \in Buckets : /\ Held(q, b)' = Held(q, b) /\ Place(b)' = Place(b)
                              /\ Backprops(q, b)' = Backprops(q, b)
    BY <2>1, Completed DEF p
  <2>. QED BY <2>1, <2>4, <2>5, <2>6
<1>6. \A q \in Ranks, b \in Buckets, s \in Shards :
        ~Arrived(q, b, s) /\ ~Arrived(q, b, s)' /\ storage[q][b][s].params = NoParams
  <2>1. \A q \in Ranks, b \in Buckets, s \in Shards : ~Arrived(q, b, s) /\ ~Arrived(q, b, s)'
    BY <1>5 DEF Arrived
  <2>. QED BY <1>1, <2>1 DEF Local, Params
<1>7. \A q \in Ranks, b \in Buckets, s \in Shards :
        IF b = b0 /\ s = q
          THEN /\ storage'[q][b][s].grads = UNION {storage[x][b0][q].grads : x \in Ranks}
               /\ storage'[q][b][s].params = NoParams
          ELSE storage'[q][b][s] = storage[q][b][s]
  <2>. TAKE q \in Ranks, b \in Buckets, s \in Shards
  <2>. DEFINE g == UNION {storage[x][b0][q].grads : x \in Ranks}
              v == CHOOSE u \in {storage[x][b0][q].params : x \in Ranks} :
                     \A x \in Ranks : u >= storage[x][b0][q].params
  <2>1. storage'[q] = [storage[q] EXCEPT ![b0][q] = [grads |-> g, params |-> v]]
    BY <1>4 DEF ReduceScatter
  <2>2. v = NoParams
    <3>1. \A x \in Ranks : storage[x][b0][q].params = NoParams
      BY <1>2, <1>6
    <3>2. {storage[x][b0][q].params : x \in Ranks} = {NoParams}
      BY <3>1
    <3>3. NoParams >= NoParams
      BY DEF NoParams
    <3>. QED BY <3>1, <3>2, <3>3
  <2>. HIDE DEF g, v
  <2>3. storage'[q][b][s] = IF b = b0 /\ s = q THEN [grads |-> g, params |-> v] ELSE storage[q][b][s]
    BY <1>2, <2>1
  <2>. QED BY <2>2, <2>3 DEF g
<1>8. storage' \in [Ranks -> [Buckets -> [Shards -> Cells]]]
  <2>1. ASSUME NEW q \in Ranks
        PROVE  [storage[q] EXCEPT ![b0][q] =
                 [grads  |-> UNION {storage[x][b0][q].grads : x \in Ranks},
                  params |-> CHOOSE u \in {storage[x][b0][q].params : x \in Ranks} :
                               \A x \in Ranks : u >= storage[x][b0][q].params]]
                 \in [Buckets -> [Shards -> Cells]]
    <3>. DEFINE g == UNION {storage[x][b0][q].grads : x \in Ranks}
                v == CHOOSE u \in {storage[x][b0][q].params : x \in Ranks} :
                       \A x \in Ranks : u >= storage[x][b0][q].params
    <3>1. \A x \in Ranks : storage[x][b0][q].grads \subseteq Contributions
      <4>. TAKE x \in Ranks
      <4>1. storage[x][b0][q] \in Cells
        BY <1>2
      <4>. QED BY <4>1 DEF Cells
    <3>2. g \subseteq Contributions
      BY <3>1
    <3>3. v \in NoParams .. Iterations
      <4>1. \A x \in Ranks : storage[x][b0][q].params = NoParams
        BY <1>2, <1>6
      <4>2. {storage[x][b0][q].params : x \in Ranks} = {NoParams}
        BY <4>1
      <4>3. NoParams >= NoParams /\ NoParams \in NoParams .. Iterations
        BY <1>1, Setting DEF NoParams
      <4>. QED BY <4>1, <4>2, <4>3
    <3>. HIDE DEF g, v
    <3>4. [grads |-> g, params |-> v] \in Cells
      BY <3>2, <3>3 DEF Cells
    <3>5. [storage[q] EXCEPT ![b0][q] = [grads |-> g, params |-> v]] \in [Buckets -> [Shards -> Cells]]
      <4>. DEFINE cell == [grads |-> g, params |-> v]
      <4>. HIDE DEF cell
      <4>1. [storage[q][b0] EXCEPT ![q] = cell] \in [Shards -> Cells]
        BY <1>2, <3>4 DEF cell
      <4>2. [storage[q] EXCEPT ![b0] = [storage[q][b0] EXCEPT ![q] = cell]] \in [Buckets -> [Shards -> Cells]]
        BY <1>2, <4>1
      <4>. QED BY <4>2 DEF cell
    <3>. QED BY <3>5 DEF g, v
  <2>. QED BY <1>4, <2>1 DEF ReduceScatter
<1>9. \A q \in Ranks : Params(q)'
  BY <1>1, <1>6, <1>7 DEF Params
<1>10. \A q \in Ranks : Modules(q)'
  <2>. TAKE q \in Ranks
  <2>1. \A b \in Buckets : Done(q)' >= b
    BY <1>2, <1>5
  <2>. QED BY <1>1, <1>5, <2>1 DEF Local, Modules, Current
<1>11. ASSUME NEW q \in Ranks, Zeroing' PROVE Grads(q)'
  <2>1. \A x \in Ranks, b \in Buckets, s \in Shards : storage[x][b][s].grads = Expected(x, b, s)
    <3>1. \A x \in Ranks : Grads(x)
      BY <1>1, <1>11 DEF Zeroing, OverlapParamGather, Local
    <3>. QED BY <1>5, <1>6, <3>1 DEF Grads
  <2>. SUFFICES ASSUME NEW b \in Buckets, NEW s \in Shards
                PROVE  storage'[q][b][s].grads = Expected(q, b, s)'
    BY <1>5, <1>6 DEF Grads
  <2>2. CASE b = b0 /\ s = q
    <3>1. \A x \in Ranks : Expected(x, b0, q) = {x} \X {it[r]} \X (1 .. M)
      <4>1. ~(Done(r) >= Place(b0))
        BY <1>2, <1>3 DEF p
      <4>. QED BY <1>5, <4>1 DEF Expected
    <3>2. Expected(q, b, s)' = Ranks \X {it[r]} \X (1 .. M)
      <4>1. Done(q)' >= Place(b)'
        BY <1>2, <1>3, <1>5, <2>2
      <4>2. it'[q] = it[r]
        BY <1>1, <1>5
      <4>. QED BY <2>2, <4>1, <4>2 DEF Expected
    <3>3. storage'[q][b][s].grads = UNION {storage[x][b0][q].grads : x \in Ranks}
      BY <1>7, <2>2
    <3>4. \A x \in Ranks : storage[x][b0][q].grads = {x} \X {it[r]} \X (1 .. M)
      BY <1>2, <2>1, <3>1
    <3>5. UNION {storage[x][b0][q].grads : x \in Ranks} = Ranks \X {it[r]} \X (1 .. M)
      BY <3>4
    <3>. QED BY <3>2, <3>3, <3>5
  <2>3. CASE ~(b = b0 /\ s = q)
    <3>1. Expected(q, b, s)' = Expected(q, b, s)
      <4>1. s = q => (Done(q)' >= Place(b)' <=> Done(q) >= Place(b))
        <5>1. s = q => b # b0
          BY <2>3
        <5>2. b # b0 => Place(b) # Place(b0)
          BY <1>2 DEF Place
        <5>3. Place(b) \in B + 1 .. 2 * B
          BY <1>1, Places
        <5>. QED BY <1>2, <1>3, <1>5, <5>1, <5>2, <5>3 DEF p
      <4>. QED BY <1>1, <1>5, <4>1 DEF Expected
    <3>. QED BY <1>7, <2>1, <2>3, <3>1
  <2>. QED BY <2>2, <2>3
<1>. QED BY <1>4, <1>8, <1>9, <1>10, <1>11

(* The reduction of found_inf: every rank learns whether some rank found an *)
(* overflow in this iteration.                                              *)
LEMMA InfCompletes ==
  ASSUME IInv, Complete, NEW r \in Ranks, Done(r) + 1 > 2 * B
  PROVE  /\ \A q \in Ranks : Params(q)' /\ Modules(q)' /\ (Zeroing => Grads(q))'
         /\ storage' = storage
         /\ found' = [q \in Ranks |-> \E x \in Ranks : found[x]]
         /\ \A q \in Ranks : pc[q] = "check" /\ posted'[q] = <<>> /\ it[q] = it[r]
<1>. DEFINE p == Done(r) + 1
<1>1. /\ args' = args /\ pc' = pc /\ it' = it /\ fwd' = fwd /\ bwd' = bwd /\ at' = at
      /\ model' = model /\ main' = main /\ success' = success /\ overflowed' = overflowed
      /\ TypeOK /\ args \in Settings /\ \A q \in Ranks : Local(q)
  BY DEF Complete, progress, gathers, IInv
<1>2. B \in Nat \ {0} /\ p = 2 * B + 1 /\ Done(r) \in Int
  <2>1. B \in Nat \ {0} /\ Done(r) \in Int /\ p \in 1 .. 2 * B + 1
    BY <1>1, Setting, Typed, Completes
  <2>. QED BY <2>1
<1>3. storage' = storage /\ found' = [q \in Ranks |-> \E x \in Ranks : found[x]]
  <2>1. Head(posted[r]) = <<"inf", 0>>
    BY <1>1, <1>2, Completes, Places
  <2>2. PICK c \in Collectives :
          /\ \A q \in Ranks : Head(posted[q]) = c
          /\ storage' = CASE c[1] = "reduce" -> ReduceScatter(c[2])
                          [] c[1] = "gather" -> AllGather(c[2])
                          [] c[1] = "inf"    -> storage
          /\ found' = IF c[1] = "inf" THEN [q \in Ranks |-> \E x \in Ranks : found[x]] ELSE found
    BY DEF Complete
  <2>3. c[1] = "inf"
    BY <2>1, <2>2
  <2>. QED BY <2>2, <2>3
<1>. HIDE DEF p
<1>4. ASSUME NEW q \in Ranks
      PROVE  /\ Done(q) = p - 1 /\ Done(q)' = p /\ pc[q] = "check" /\ posted'[q] = <<>>
             /\ it[q] = Steps(r) + 1
  <2>1. Done(q) = Done(r) /\ Steps(q) = Steps(r) /\ Done(q) + 1 <= Issued(q) /\ Done(q)' = Done(q) + 1
    BY Completes, Completed
  <2>2. /\ posted'[q] \in Seq(Collectives) /\ Len(posted'[q]) = Len(posted[q]) - 1
        /\ Issued(q) \in Int /\ Len(posted[q]) \in Nat /\ it[q] \in Int
    <3>1. posted'[q] \in Seq(Collectives) /\ Len(posted'[q]) = Len(posted[q]) - 1
      BY Completed
    <3>2. /\ Issued(q) \in Int /\ Len(posted[q]) \in Nat /\ it[q] \in 1 .. Iterations + 1
          /\ Iterations \in Nat
      BY <1>1, Typed, Setting
    <3>. QED BY <3>1, <3>2
  <2>3. Issued(q) <= 2 * B + 1 /\ (Issued(q) > 2 * B <=> pc[q] = "check")
    BY <1>1, Progress DEF Local
  <2>4. Done(q) = p - 1 /\ Done(q)' = p
    BY <1>2, <2>1 DEF p
  <2>5. Issued(q) = 2 * B + 1 /\ pc[q] = "check"
    BY <1>2, <2>1, <2>2, <2>3, <2>4
  <2>6. Len(posted'[q]) = 0
    <3>1. Len(posted[q]) = 1
      <4>1. Len(posted[q]) = Issued(q) - Done(q)
        BY <2>2 DEF Done
      <4>2. Done(q) = 2 * B
        BY <1>2, <2>4
      <4>. QED BY <1>2, <2>5, <4>1, <4>2
    <3>. QED BY <2>2, <3>1
  <2>7. Steps(q) = it[q] - 1
    BY <2>5 DEF Steps
  <2>. QED BY <2>1, <2>2, <2>4, <2>5, <2>6, <2>7
<1>5. ASSUME NEW q \in Ranks, NEW b \in Buckets
      PROVE  /\ Held(q, b)' = Held(q, b) /\ Done(q) >= b /\ Done(q)' >= b
             /\ \A s \in Shards : /\ Arrived(q, b, s)' <=> Arrived(q, b, s)
                                  /\ Expected(q, b, s)' = Expected(q, b, s)
  <2>1. /\ Held(q, b)' = Held(q, b) /\ Place(b)' = Place(b) /\ Backprops(q, b)' = Backprops(q, b)
    BY Completed
  <2>2. Done(q) >= b /\ Done(q)' >= b
    BY <1>2, <1>4 DEF Buckets
  <2>3. Done(q) >= Place(b) /\ Done(q)' >= Place(b)
    <3>1. Place(b) \in B + 1 .. 2 * B
      BY <1>1, Places
    <3>. QED BY <1>2, <1>4, <3>1
  <2>. QED BY <1>1, <2>1, <2>2, <2>3 DEF Arrived, Expected
<1>6. ASSUME NEW q \in Ranks PROVE Params(q)' /\ Modules(q)' /\ (Zeroing => Grads(q))'
  <2>1. Params(q)'
    BY <1>1, <1>3, <1>5 DEF Local, Params
  <2>2. Modules(q)'
    BY <1>1, <1>5 DEF Local, Modules, Current
  <2>3. ASSUME Zeroing' PROVE Grads(q)'
    <3>1. Grads(q) /\ OverlapParamGather' = OverlapParamGather
      BY <1>1, <2>3 DEF Zeroing, OverlapParamGather, Local
    <3>. QED BY <1>1, <1>3, <1>5, <3>1 DEF Grads
  <2>. QED BY <2>1, <2>2, <2>3
<1>. QED BY <1>3, <1>4, <1>6

LEMMA CompleteKeepsIInv ==
  ASSUME IInv, Complete
  PROVE  IInv'
<1>1. /\ args' = args /\ pc' = pc /\ it' = it /\ at' = at /\ fwd' = fwd /\ bwd' = bwd
      /\ model' = model /\ main' = main /\ handles' = handles /\ copied' = copied
      /\ success' = success /\ overflowed' = overflowed
      /\ TypeOK /\ args \in Settings /\ IsFiniteSet(overflowed) /\ \A q \in Ranks : Local(q)
  BY DEF Complete, progress, gathers, IInv
<1>2. D \in Nat \ {0} /\ B \in Nat \ {0}
  BY <1>1, Setting
<1>. DEFINE r == 1
<1>3. r \in Ranks /\ Done(r) \in Int
  BY <1>1, <1>2, Typed DEF Ranks
<1>. HIDE DEF r
<1>4. \/ Done(r) + 1 <= B
      \/ Done(r) + 1 > B /\ Done(r) + 1 <= 2 * B
      \/ Done(r) + 1 > 2 * B
  BY <1>2, <1>3
<1>5. /\ \A q \in Ranks : Params(q)' /\ Modules(q)' /\ (Zeroing => Grads(q))'
      /\ storage' \in [Ranks -> [Buckets -> [Shards -> Cells]]]
      /\ \/ Done(r) + 1 <= 2 * B /\ found' = found
         \/ /\ Done(r) + 1 > 2 * B /\ found' = [q \in Ranks |-> \E x \in Ranks : found[x]]
            /\ \A q \in Ranks : pc[q] = "check" /\ posted'[q] = <<>> /\ it[q] = it[r]
  <2>1. CASE Done(r) + 1 <= B
    BY <1>2, <1>3, <2>1, GatherCompletes
  <2>2. CASE Done(r) + 1 > B /\ Done(r) + 1 <= 2 * B
    BY <1>3, <2>2, ReduceCompletes
  <2>3. CASE Done(r) + 1 > 2 * B
    BY <1>1, <1>3, <2>3, InfCompletes DEF TypeOK
  <2>. QED BY <1>4, <2>1, <2>2, <2>3
<1>6. TypeOK'
  <2>1. found' \in [Ranks -> BOOLEAN]
    <3>1. (\E x \in Ranks : found[x]) \in BOOLEAN
      OBVIOUS
    <3>. QED BY <1>1, <1>5, <3>1, ZenonT(40) DEF TypeOK
  <2>2. posted' \in [Ranks -> Seq(Collectives)]
    <3>1. posted' = [q \in Ranks |-> Tail(posted[q])]
      BY DEF Complete
    <3>2. \A q \in Ranks : posted'[q] \in Seq(Collectives)
      BY Completed
    <3>. QED BY <3>1, <3>2
  <2>. QED BY <1>1, <1>5, <2>1, <2>2 DEF TypeOK
<1>7. ASSUME NEW q \in Ranks, Zeroing' PROVE Skipped(q)'
  <2>1. /\ \A x \in Ranks : Skipped(x)
        /\ Steps(q)' = Steps(q) /\ Bad' = Bad /\ OverlapParamGather' = OverlapParamGather
    BY <1>1, <1>7, Completed DEF Zeroing, OverlapParamGather, Local, Bad
  <2>2. (pc[q] = "check" /\ found[q])' => it'[q] \in Bad
    BY <1>1, <1>3, <1>5, <2>1 DEF Skipped
  <2>. QED BY <1>1, <2>1, <2>2 DEF Skipped
<1>8. \A q \in Ranks : Local(q)'
  BY <1>5, <1>7, Completed DEF Local
<1>9. \A q \in Ranks : View(q)' = View(r)'
  <2>. TAKE q \in Ranks
  <2>1. /\ Done(q)' = Done(r)' /\ Steps(q)' = Steps(r)' /\ success'[q] = success'[r]
        /\ main'[q] = main'[r]
    BY <1>1, <1>3, Completes, Completed
  <2>2. CASE Done(r) + 1 > 2 * B
    <3>1. /\ pc'[q] = "check" /\ posted'[q] = <<>> /\ it'[q] = it'[r] /\ found'[q] = found'[r]
          /\ pc'[r] = "check" /\ posted'[r] = <<>>
      <4>1. ~(Done(r) + 1 <= 2 * B)
        BY <1>2, <1>3, <2>2
      <4>2. /\ found' = [x \in Ranks |-> \E y \in Ranks : found[y]]
            /\ \A x \in Ranks : pc[x] = "check" /\ posted'[x] = <<>> /\ it[x] = it[r]
        BY <1>5, <4>1
      <4>. QED BY <1>1, <1>3, <4>2
    <3>2. First(~found[q])' = First(~found[r])'
      BY <3>1 DEF First
    <3>. QED BY <2>1, <3>1, <3>2 DEF View
  <2>3. CASE Done(r) + 1 <= 2 * B
    <3>1. ASSUME NEW x \in Ranks PROVE ~(pc'[x] = "check" /\ posted'[x] = <<>>)
      <4>1. Done(x)' = Done(r) + 1 /\ Issued(x)' = Issued(x) /\ Issued(x) \in Int
        BY <1>1, <1>3, Completes, Completed, Typed
      <4>2. posted'[x] = <<>> => Done(x)' = Issued(x)
        <5>1. Len(<<>>) = 0
          OBVIOUS
        <5>. QED BY <4>1, <5>1 DEF Done
      <4>3. pc'[x] = "check" => Issued(x) > 2 * B
        BY <1>1, Progress DEF Local
      <4>. QED BY <1>2, <1>3, <2>3, <4>1, <4>2, <4>3
    <3>. QED BY <1>3, <2>1, <3>1 DEF View
  <2>. QED BY <1>2, <1>3, <2>2, <2>3
<1>10. Agreed'
  BY <1>9 DEF Agreed
<1>. QED BY <1>1, <1>6, <1>8, <1>10 DEF IInv

-----------------------------------------------------------------------------
(* The theorems.                                                            *)

LEMMA InitType ==
  ASSUME Init
  PROVE  TypeOK /\ args \in Settings /\ IsFiniteSet(overflowed)
<1>1. args \in Settings
  BY DEF Init
<1>2. B \in Nat \ {0} /\ M \in Nat \ {0} /\ Iterations \in Nat \ {0}
  BY <1>1, Setting
<1>3. /\ 1 \in 1 .. Iterations + 1 /\ 1 \in 1 .. B + 1 /\ 0 \in 0 .. M /\ 0 \in 0 .. Iterations
      /\ NoParams \in NoParams .. Iterations /\ 0 \in NoParams .. Iterations
  BY <1>2 DEF NoParams
<1>4. Zeroed \in Cells
  BY <1>3 DEF Zeroed, Cells
<1>5. ControlType
  BY <1>3 DEF Init, ControlType, Locations
<1>6. MemoryType
  <2>1. [b \in Buckets |-> [s \in Shards |-> Zeroed]] \in [Buckets -> [Shards -> Cells]]
    BY <1>4
  <2>2. [b \in Buckets |-> [s \in Shards |-> 0]] \in [Buckets -> [Shards -> NoParams .. Iterations]]
    BY <1>3
  <2>. QED BY <1>3, <2>1, <2>2 DEF Init, MemoryType
<1>7. RestType
  <2>1. /\ <<>> \in Seq({"flight", "None"}) /\ <<>> \in Seq(BOOLEAN) /\ <<>> \in Seq(Collectives)
        /\ FALSE \in BOOLEAN
    OBVIOUS
  <2>. QED BY <2>1 DEF Init, RestType
<1>8. IsFiniteSet(overflowed)
  BY FS_EmptySet DEF Init
<1>. QED BY <1>1, <1>5, <1>6, <1>7, <1>8, TypeParts

LEMMA InitIInv ==
  ASSUME Init
  PROVE  IInv
<1>1. TypeOK /\ args \in Settings /\ IsFiniteSet(overflowed)
  BY InitType
<1>2. /\ B \in Nat \ {0} /\ M \in Nat \ {0} /\ Iterations \in Nat \ {0}
      /\ OverlapGradReduce \in BOOLEAN /\ OverlapParamGather \in BOOLEAN
  BY <1>1, Setting
<1>3. ASSUME NEW r \in Ranks
      PROVE  /\ pc[r] = "zero" /\ it[r] = 1 /\ at[r] = 1 /\ fwd[r] = 0 /\ bwd[r] = 0
             /\ main[r] = 0 /\ handles[r] = <<>> /\ copied[r] = <<>>
             /\ ~success[r] /\ ~found[r] /\ posted[r] = <<>>
             /\ \A b \in Buckets, s \in Shards : storage[r][b][s] = Zeroed /\ model[r][b][s] = 0
  BY <1>3 DEF Init
<1>4. ASSUME NEW r \in Ranks
      PROVE  /\ Steps(r) = 0 /\ Issued(r) = B /\ Done(r) = B
             /\ View(r) = <<0, B, success[r], main[r]>>
  <2>1. Steps(r) = 0
    BY <1>3 DEF Steps
  <2>2. ReducesIssued(r) = 0 /\ GathersIssued(r) = B
    BY <1>2, <1>3 DEF ReducesIssued, GathersIssued, Outside
  <2>3. Issued(r) = B
    BY <1>2, <1>3, <2>2 DEF Issued
  <2>4. Done(r) = B
    <3>1. Len(posted[r]) = 0
      BY <1>3
    <3>. QED BY <1>2, <2>3, <3>1 DEF Done
  <2>. QED BY <1>3, <2>1, <2>3, <2>4 DEF View
<1>5. Agreed
  <2>1. \A r \in Ranks : success[r] = FALSE /\ main[r] = 0
    BY DEF Init
  <2>. QED BY <1>4, <2>1 DEF Agreed
<1>6. ASSUME NEW r \in Ranks PROVE Local(r)
  <2>1. Counts(r)
    BY <1>2, <1>3, <1>4 DEF Counts, Passes
  <2>2. Handles(r)
    BY <1>3 DEF Handles
  <2>3. InOrder(r)
    <3>1. Len(posted[r]) = 0
      BY <1>3
    <3>. QED BY <1>2, <1>3, <1>4, <3>1 DEF InOrder, First
  <2>4. Params(r)
    BY <1>3 DEF Params, Arrived, Zeroed
  <2>5. Modules(r)
    BY <1>2, <1>3, <1>4 DEF Modules, Current, Buckets
  <2>6. Grads(r)
    <3>. SUFFICES ASSUME NEW b \in Buckets, NEW s \in Shards
                  PROVE  Expected(r, b, s) = {}
      <4>1. \A b \in Buckets, s \in Shards : storage[r][b][s].grads = {} /\ ~Arrived(r, b, s)
        BY <1>3 DEF Arrived, Zeroed
      <4>. QED BY <1>3, <4>1 DEF Grads
    <3>1. Place(b) \in B + 1 .. 2 * B
      BY <1>1, Places
    <3>2. Expected(r, b, s) = {r} \X {it[r]} \X (1 .. 0)
      BY <1>2, <1>3, <1>4, <3>1 DEF Expected, Backprops, Outside
    <3>. QED BY <3>2
  <2>7. Skipped(r)
    <3>1. Bad \cap (1 .. 0) = {}
      OBVIOUS
    <3>2. Cardinality(Bad \cap (1 .. 0)) = 0
      BY <3>1, FS_EmptySet
    <3>3. Steps(r) - main[r] <= Cardinality(Bad \cap (1 .. Steps(r)))
      <4>1. Steps(r) = 0 /\ main[r] = 0
        BY <1>3, <1>4
      <4>2. Cardinality(Bad \cap (1 .. Steps(r))) = 0
        BY <3>2, <4>1
      <4>. QED BY <4>1, <4>2
    <3>. QED BY <1>3, <1>4, <3>3 DEF Skipped
  <2>. QED BY <2>1, <2>2, <2>3, <2>4, <2>5, <2>6, <2>7 DEF Local
<1>. QED BY <1>1, <1>5, <1>6 DEF IInv

(* The ranks agree on the collectives they issue, whatever each of them     *)
(* computes, and the memory of every bucket holds what the place in the     *)
(* order of the collectives says, in every reachable state.                 *)
THEOREM Invariant == Spec => []IInv
<1>1. Init => IInv
  BY InitIInv
<1>2. IInv /\ [Next]_vars => IInv'
  <2>. SUFFICES ASSUME IInv, [Next]_vars PROVE IInv'
    OBVIOUS
  <2>1. CASE \E r \in Ranks : RankStep(r)
    BY <2>1, RankStepKeepsIInv
  <2>2. CASE Complete
    BY <2>2, CompleteKeepsIInv
  <2>3. CASE UNCHANGED vars
    BY <2>3, StutterKeepsIInv
  <2>. QED BY <2>1, <2>2, <2>3 DEF Next, Finished
<1>. QED BY <1>1, <1>2, PTL DEF Spec

(* The type invariant: every variable keeps to its set.                     *)
THEOREM TypeCorrect == Spec => []TypeOK
<1>1. IInv => TypeOK
  BY DEF IInv
<1>. QED BY <1>1, Invariant, PTL

(* All ranks issue the same collectives in the same order, whatever each of *)
(* them computes and however their steps interleave.                        *)
THEOREM OneOrderOfCollectives == Spec => []SameCollectives
<1>1. IInv => SameCollectives
  <2>. SUFFICES ASSUME IInv, NEW q \in Ranks, NEW r \in Ranks, NEW i \in 1 .. Len(posted[q]),
                       i <= Len(posted[r])
                PROVE  posted[q][i] = posted[r][i]
    BY DEF SameCollectives
  <2>1. /\ posted[q] \in Seq(Collectives) /\ posted[r] \in Seq(Collectives)
        /\ Len(posted[q]) \in Nat /\ Len(posted[r]) \in Nat
    BY Typed DEF IInv
  <2>2. i \in 1 .. Len(posted[r])
    BY <2>1
  <2>3. Len(<<>>) = 0
    OBVIOUS
  <2>4. posted[q] # <<>> /\ posted[r] # <<>>
    BY <2>1, <2>2, <2>3
  <2>5. <<Steps(q), Done(q), success[q], main[q]>> = <<Steps(r), Done(r), success[r], main[r]>>
    BY <2>4 DEF IInv, Agreed, View
  <2>6. Done(q) = Done(r)
    BY <2>5
  <2>. QED BY <2>2, <2>6 DEF IInv, Local, InOrder
<1>. QED BY <1>1, Invariant, PTL

(* A forward pass only computes with parameters that went through every     *)
(* update made so far, those of the other ranks' shards included: under     *)
(* every command line and whatever overflows.                               *)
THEOREM ForwardIsCurrent == Spec => []ForwardCurrent
<1>1. IInv => ForwardCurrent
  <2>. SUFFICES ASSUME IInv, NEW r \in Ranks, NEW b \in Buckets,
                       \/ pc[r] = "forward" /\ (b < at[r] \/ fwd[r] > 0)
                       \/ pc[r] \in {"schedule", "backward", "finish", "step"} /\ fwd[r] > 0
                PROVE  Current(r, b)
    BY DEF ForwardCurrent
  <2>1. B \in Nat \ {0} /\ at[r] \in 1 .. B + 1 /\ fwd[r] \in 0 .. M /\ M \in Nat
    BY Setting, Typed DEF IInv
  <2>2. ~Held(r, b)
    BY <2>1 DEF Held, Buckets
  <2>. QED BY <2>2 DEF IInv, Local, Modules
<1>. QED BY <1>1, Invariant, PTL

(* As long as no gradient overflowed, or if the gather is not overlapped,   *)
(* step() reads as the gradient of a shard the contributions of every rank  *)
(* and microbatch of this iteration and nothing else.                       *)
THEOREM FreshGradients == Spec => [](Zeroing => StepGradsFresh)
<1>1. IInv => (Zeroing => StepGradsFresh)
  <2>. SUFFICES ASSUME IInv, Zeroing, NEW r \in Ranks, NEW b \in Buckets, pc[r] = "step"
                PROVE  StepGrads(r, b) = [grads  |-> Ranks \X {it[r]} \X (1 .. M), params |-> NoParams]
    BY DEF StepGradsFresh
  <2>1. /\ TypeOK /\ args \in Settings /\ B \in Nat \ {0} /\ M \in Nat \ {0} /\ Local(r)
        /\ Len(handles[r]) \in Nat /\ OverlapGradReduce \in BOOLEAN /\ success[r] \in BOOLEAN
    BY Setting, Typed DEF IInv
  <2>2. fwd[r] = M /\ bwd[r] = M /\ posted[r] = <<>>
    BY <2>1 DEF Local, Counts
  <2>3. GathersIssued(r) = B /\ ReducesIssued(r) = B
    <3>1. success[r] => Len(handles[r]) = B
      BY <2>1, <2>2 DEF Local, Handles
    <3>. QED BY <2>1, <2>2, <3>1 DEF GathersIssued, ReducesIssued, Outside
  <2>4. Done(r) = 2 * B
    <3>1. Len(posted[r]) = 0
      BY <2>2
    <3>2. Issued(r) = 2 * B
      BY <2>1, <2>3 DEF Issued
    <3>. QED BY <2>1, <3>1, <3>2 DEF Done
  <2>5. ~Held(r, b)
    BY <2>1, <2>2 DEF Held
  <2>6. Done(r) >= Place(b)
    <3>1. Place(b) \in B + 1 .. 2 * B
      BY <2>1, Places
    <3>. QED BY <2>1, <2>4, <3>1
  <2>7. r \in Shards /\ storage[r][b][r] \in Cells
    BY <2>1 DEF TypeOK, Shards
  <2>8. storage[r][b][r].grads = Ranks \X {it[r]} \X (1 .. M)
    BY <2>1, <2>5, <2>6, <2>7 DEF Local, Grads, Arrived, Expected
  <2>9. storage[r][b][r].params = NoParams
    BY <2>1, <2>5, <2>7 DEF Local, Params, Arrived
  <2>. QED BY <2>7, <2>8, <2>9 DEF StepGrads, Cells
<1>. QED BY <1>1, Invariant, PTL

(* In the same case an overflowed gradient costs at most one update: the    *)
(* iteration that overflowed is skipped on all ranks, no other one is.      *)
THEOREM OneUpdatePerOverflow == Spec => [](Zeroing => OverflowCostsOneUpdate)
<1>1. IInv => (Zeroing => OverflowCostsOneUpdate)
  <2>. SUFFICES ASSUME IInv, Zeroing, NEW r \in Ranks, pc[r] = "stopped"
                PROVE  main[r] >= Iterations - Cardinality(overflowed)
    BY DEF OverflowCostsOneUpdate
  <2>1. /\ TypeOK /\ args \in Settings /\ Iterations \in Nat \ {0} /\ Local(r)
        /\ main[r] \in 0 .. Iterations /\ IsFiniteSet(overflowed)
    BY Setting, Typed DEF IInv
  <2>2. Steps(r) = Iterations
    BY <2>1 DEF Local, Counts, Steps
  <2>3. Iterations - main[r] <= Cardinality(Bad \cap (1 .. Iterations))
    BY <2>1, <2>2 DEF Local, Skipped
  <2>4. IsFiniteSet(Bad) /\ Cardinality(Bad) <= Cardinality(overflowed)
    BY <2>1, FewBad
  <2>5. Cardinality(Bad \cap (1 .. Iterations)) <= Cardinality(Bad)
    <3>1. Bad \cap (1 .. Iterations) \in SUBSET Bad
      OBVIOUS
    <3>. QED BY <2>4, <3>1, FS_Subset
  <2>6. /\ Cardinality(Bad \cap (1 .. Iterations)) \in Nat /\ Cardinality(Bad) \in Nat
        /\ Cardinality(overflowed) \in Nat
    BY <2>1, <2>4, FS_CardinalityType, FS_Intersection
  <2>. QED BY <2>1, <2>3, <2>4, <2>5, <2>6
<1>. QED BY <1>1, Invariant, PTL
===============================================================================
