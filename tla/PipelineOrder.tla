---------------------------- MODULE PipelineOrder ----------------------------
(***************************************************************************)
(* What a pipeline schedule promises its caller, whatever the order in     *)
(* which the stages interleave their work: every microbatch is run forward *)
(* through the stages in order and then backward through them in the       *)
(* reverse order, each stage taking the microbatches in the order of its   *)
(* data iterator.  The schedules of megatron/core/pipeline_parallel are    *)
(* shown to implement it.                                                  *)
(***************************************************************************)
EXTENDS Integers

CONSTANTS V,           \* number of (virtual) pipeline stages
          M,           \* number of microbatches of the batch
          ForwardOnly  \* no backward passes are run

VStage == 0 .. V - 1

VARIABLES nf,  \* nf[v]: microbatches 0 .. nf[v]-1 have run forward at stage v
          nb   \* nb[v]: microbatches 0 .. nb[v]-1 have run backward at stage v

vars == <<nf, nb>>

Init ==
  /\ nf = [v \in VStage |-> 0]
  /\ nb = [v \in VStage |-> 0]

(* Stage v runs its next microbatch forward: the stage before it has.      *)
Forward(v) ==
  /\ nf[v] < M
  /\ v # 0 => nf[v] < nf[v - 1]
  /\ nf' = [nf EXCEPT ![v] = @ + 1]
  /\ UNCHANGED nb

(* Stage v runs its next microbatch backward: it has run it forward, and   *)
(* the stage after it has run it backward.                                 *)
Backward(v) ==
  /\ ~ForwardOnly
  /\ nb[v] < nf[v]
  /\ v # V - 1 => nb[v] < nb[v + 1]
  /\ nb' = [nb EXCEPT ![v] = @ + 1]
  /\ UNCHANGED nf

Next == \E v \in VStage : Forward(v) \/ Backward(v)

Spec == Init /\ [][Next]_vars
==============================================================================
