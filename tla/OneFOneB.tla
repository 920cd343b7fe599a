------------------------------- MODULE OneFOneB -------------------------------
(***************************************************************************)
(* The non-interleaved 1F1B pipeline schedule:                             *)
(* forward_backward_pipelining_without_interleaving of                     *)
(* megatron/core/pipeline_parallel/schedules.py over the point-to-point    *)
(* calls of p2p_communication.py, run by the P ranks of one pipeline group *)
(* for one batch of M microbatches.                                        *)
(*                                                                         *)
(* A rank is always inside one p2p call (call, with the requests it still  *)
(* waits for in reqs) of one of the loops of the schedule (phase, at       *)
(* iteration i); an action runs the code from the return of that call to   *)
(* the next one.  A tensor is the number of the microbatch it belongs to:  *)
(* None where Python has None, and Mixed once the data of two microbatches *)
(* have met in one computation.  The model is of a single-stack model      *)
(* (ModelType.encoder_or_decoder): one tensor per transfer.                *)
(***************************************************************************)
EXTENDS Integers, Sequences

CONSTANTS P,            \* pipeline-model-parallel world size
          M,            \* num_microbatches
          ForwardOnly,  \* forward_only
          GradReduce,   \* "finalize": no --overlap-grad-reduce, "overlap":
                        \* with it, "delay": and --delay-grad-reduce
          EagerSends,   \* a send may complete before its receive is posted
          None,         \* Python's None
          Mixed         \* the result of mixing two microbatches

ASSUME PAssumption == P \in Nat /\ P > 1
ASSUME MAssumption == M \in Nat /\ M > 0
ASSUME ConfigAssumption ==
  /\ ForwardOnly \in BOOLEAN
  /\ EagerSends \in BOOLEAN
  /\ GradReduce \in {"finalize", "overlap", "delay"}
ASSUME TensorAssumption == None \notin Nat /\ Mixed \notin Nat /\ None # Mixed

Stage == 0 .. P - 1
Microbatch == 0 .. M - 1
Tensor == Microbatch \cup {None, Mixed}

VARIABLES
  phase,               \* the loop of the schedule the rank is in
  call,                \* the p2p function the rank is in
  i,                   \* the loop variable
  reqs,                \* the requests of the call that have not completed
  fwdChan,             \* fwdChan[r]: activations r has sent that r+1 has not taken
  bwdChan,             \* bwdChan[r]: gradients r has sent that r-1 has not taken
  input_tensor,        \* the local variables and lists of the schedule
  output_tensor,
  output_tensor_grad,
  input_tensors,
  output_tensors,
  forward_data_store,
  no_sync,             \* no_sync_context is entered
  fwd,                 \* forward steps run = items taken from data_iterator
  bwd,                 \* backward steps run = microbatches in main_grad
  launches             \* at each gradient reduction of the rank, the value of bwd

comm  == <<reqs, fwdChan, bwdChan>>
lists == <<input_tensors, output_tensors>>
local == <<input_tensor, output_tensor, output_tensor_grad>>
grad  == <<no_sync, bwd, launches>>
vars  == <<phase, call, i, comm, local, lists, forward_data_store, fwd, grad>>

Phase == {"init", "warmup", "steady", "cooldown", "done"}
Call  == {"none", "recv_forward", "send_forward", "send_forward_recv_backward",
          "send_backward", "send_backward_recv_forward", "recv_backward"}
Request == {"send_next", "recv_prev", "send_prev", "recv_next"}

(* Mutant: the warmup count grows with the rank instead of shrinking.      *)
NumWarmup_Reversed(r) == IF r <= M THEN r ELSE M

IsFirst(r) == r = 0
IsLast(r)  == r = P - 1

NumWarmup(r) == IF P - r - 1 <= M THEN P - r - 1 ELSE M
NumRemaining(r) == M - NumWarmup(r)
LastIteration(r) == i[r] = NumRemaining(r) - 1

-------------------------------------------------------------------------------
(* p2p_communication.py                                                    *)

(* _communicate: post the sends of the tensors that are not None and the   *)
(* receives, then wait for all of them.                                    *)
Communicate(r, name, tensor_send_next, tensor_send_prev, recvs) ==
  /\ call' = [call EXCEPT ![r] = name]
  /\ reqs' = [reqs EXCEPT ![r] =
                recvs \cup {s \in {"send_next"} : tensor_send_next # None}
                      \cup {s \in {"send_prev"} : tensor_send_prev # None}]
  /\ fwdChan' = IF tensor_send_next = None THEN fwdChan
                ELSE [fwdChan EXCEPT ![r] = Append(@, tensor_send_next)]
  /\ bwdChan' = IF tensor_send_prev = None THEN bwdChan
                ELSE [bwdChan EXCEPT ![r] = Append(@, tensor_send_prev)]

RecvPrev(r) == IF IsFirst(r) THEN {} ELSE {"recv_prev"}
RecvNext(r) == IF IsLast(r) THEN {} ELSE {"recv_next"}

ToNext(r, t) == IF IsLast(r) THEN None ELSE t
ToPrev(r, t) == IF IsFirst(r) THEN None ELSE t

RecvForward(r)     == Communicate(r, "recv_forward", None, None, RecvPrev(r))
RecvBackward(r)    == Communicate(r, "recv_backward", None, None, RecvNext(r))
SendForward(r, t)  == Communicate(r, "send_forward", ToNext(r, t), None, {})
SendBackward(r, t) == Communicate(r, "send_backward", None, ToPrev(r, t), {})
SendForwardRecvBackward(r, t) ==
  Communicate(r, "send_forward_recv_backward", ToNext(r, t), None, RecvNext(r))
SendBackwardRecvForward(r, t) ==
  Communicate(r, "send_backward_recv_forward", None, ToPrev(r, t), RecvPrev(r))

(* The oldest activation sent by r-1 meets the receive posted by r.  The   *)
(* send that is still waited for, if any, is the newest of the channel.    *)
ReceiveForward(r) ==
  /\ "recv_prev" \in reqs[r]
  /\ fwdChan[r - 1] # <<>>
  /\ input_tensor' = [input_tensor EXCEPT ![r] = Head(fwdChan[r - 1])]
  /\ fwdChan' = [fwdChan EXCEPT ![r - 1] = Tail(@)]
  /\ reqs' = [reqs EXCEPT
                ![r] = @ \ {"recv_prev"},
                ![r - 1] = IF Len(fwdChan[r - 1]) = 1 THEN @ \ {"send_next"} ELSE @]
  /\ UNCHANGED <<phase, call, i, bwdChan, output_tensor, output_tensor_grad,
                 lists, forward_data_store, fwd, grad>>

(* The oldest gradient sent by r+1 meets the receive posted by r.          *)
ReceiveBackward(r) ==
  /\ "recv_next" \in reqs[r]
  /\ bwdChan[r + 1] # <<>>
  /\ output_tensor_grad' = [output_tensor_grad EXCEPT ![r] = Head(bwdChan[r + 1])]
  /\ bwdChan' = [bwdChan EXCEPT ![r + 1] = Tail(@)]
  /\ reqs' = [reqs EXCEPT
                ![r] = @ \ {"recv_next"},
                ![r + 1] = IF Len(bwdChan[r + 1]) = 1 THEN @ \ {"send_prev"} ELSE @]
  /\ UNCHANGED <<phase, call, i, fwdChan, input_tensor, output_tensor, lists,
                 forward_data_store, fwd, grad>>

(* The transport buffers a tensor: its send completes before it is taken.  *)
BufferSend(r) ==
  /\ EagerSends
  /\ \E s \in {"send_next", "send_prev"} :
        /\ s \in reqs[r]
        /\ reqs' = [reqs EXCEPT ![r] = @ \ {s}]
  /\ UNCHANGED <<phase, call, i, fwdChan, bwdChan, input_tensor, output_tensor,
                 output_tensor_grad, lists, forward_data_store, fwd, grad>>

(* Mutant: the requests of the call are not waited for.                    *)
Returned_NoWait(r, name) == call[r] = name

(* Every request of the rank's call has completed: the call returns.       *)
Returned(r, name) == call[r] = name /\ reqs[r] = {}

-------------------------------------------------------------------------------
(* schedules.py: the steps                                                 *)

Join(a, b) == IF a = b THEN a ELSE Mixed

(* forward_step: the stage takes the next item of its data iterator (the   *)
(* tokens on the first stage, the labels on the last) and computes on it   *)
(* and the activation received.                                            *)
ForwardOutput(r) == IF IsFirst(r) THEN fwd[r] ELSE Join(input_tensor[r], fwd[r])

ForwardStep(r) ==
  /\ output_tensor' = [output_tensor EXCEPT ![r] = ForwardOutput(r)]
  /\ fwd' = [fwd EXCEPT ![r] = @ + 1]
  /\ forward_data_store' = IF IsLast(r)
                           THEN [forward_data_store EXCEPT ![r] = Append(@, ForwardOutput(r))]
                           ELSE forward_data_store

(* backward_step: the gradient of the stage's input, from the activations  *)
(* saved for the microbatch and the gradient received for its output.      *)
(* While gradients are synchronized, the hooks of --overlap-grad-reduce    *)
(* launch the reduction of the rank's gradients in this very backward.     *)
InputGrad(r, in, out) ==
  LET whole == IF IsLast(r) THEN out ELSE Join(out, output_tensor_grad[r])
  IN  IF IsFirst(r) THEN whole ELSE Join(in, whole)

BackwardStep(r) ==
  /\ bwd' = [bwd EXCEPT ![r] = @ + 1]
  /\ launches' = IF GradReduce # "finalize" /\ ~no_sync'[r]
                 THEN [launches EXCEPT ![r] = Append(@, bwd[r] + 1)]
                 ELSE launches

(* Mutant: synchronization is enabled before every backward step.          *)
EnableGradSyncIf_Always(r, last) ==
  no_sync' = [no_sync EXCEPT ![r] = @ /\ ~(GradReduce # "delay" \/ r = 0)]

(* enable_grad_sync before the backward step of the last microbatch:       *)
(* with a grad_sync_func, on the first stage only.                         *)
EnableGradSyncIf(r, last) ==
  no_sync' = [no_sync EXCEPT ![r] = @ /\ ~(last /\ (GradReduce # "delay" \/ r = 0))]

-------------------------------------------------------------------------------
(* schedules.py: the loops                                                 *)

(* The end of the schedule: launch the reduction that no backward step     *)
(* launched, then finalize_model_grads.                                    *)
Finish(r) ==
  /\ phase' = [phase EXCEPT ![r] = "done"]
  /\ call' = [call EXCEPT ![r] = "none"]
  /\ no_sync' = [no_sync EXCEPT ![r] = @ /\ ForwardOnly]
  /\ launches' = IF ~ForwardOnly /\ (GradReduce = "finalize" \/ (GradReduce = "delay" /\ no_sync[r]))
                 THEN [launches EXCEPT ![r] = Append(@, bwd[r])]
                 ELSE launches
  /\ UNCHANGED <<i, comm, bwd>>

(* Mutant: the cooldown loop stops one iteration early.                    *)
EnterCooldown_Short(r, k) ==
  \/ /\ ~ForwardOnly /\ k < NumWarmup(r) - 1
     /\ phase' = [phase EXCEPT ![r] = "cooldown"]
     /\ i' = [i EXCEPT ![r] = k]
     /\ EnableGradSyncIf(r, k = NumWarmup(r) - 1)
     /\ RecvBackward(r)
     /\ UNCHANGED <<bwd, launches>>
  \/ /\ ForwardOnly \/ k >= NumWarmup(r) - 1
     /\ Finish(r)

(* The top of iteration k of the cooldown loop, or the end of the loop.    *)
EnterCooldown(r, k) ==
  \/ /\ ~ForwardOnly /\ k < NumWarmup(r)
     /\ phase' = [phase EXCEPT ![r] = "cooldown"]
     /\ i' = [i EXCEPT ![r] = k]
     /\ EnableGradSyncIf(r, k = NumWarmup(r) - 1)
     /\ RecvBackward(r)
     /\ UNCHANGED <<bwd, launches>>
  \/ /\ ForwardOnly \/ k = NumWarmup(r)
     /\ Finish(r)

(* Mutant: the warmup loop runs one iteration too many.                    *)
EnterWarmup_Long(r, k) ==
  \/ /\ k <= NumWarmup(r)
     /\ phase' = [phase EXCEPT ![r] = "warmup"]
     /\ i' = [i EXCEPT ![r] = k]
     /\ RecvForward(r)
     /\ UNCHANGED grad
  \/ /\ k > NumWarmup(r) /\ NumRemaining(r) > 0
     /\ phase' = [phase EXCEPT ![r] = "steady"]
     /\ i' = [i EXCEPT ![r] = 0]
     /\ RecvForward(r)
     /\ UNCHANGED grad
  \/ /\ k > NumWarmup(r) /\ NumRemaining(r) = 0
     /\ EnterCooldown(r, 0)

(* The top of iteration k of the warmup loop; after the loop, the receive  *)
(* before the steady loop, or the cooldown loop if no iteration remains.   *)
EnterWarmup(r, k) ==
  \/ /\ k < NumWarmup(r)
     /\ phase' = [phase EXCEPT ![r] = "warmup"]
     /\ i' = [i EXCEPT ![r] = k]
     /\ RecvForward(r)
     /\ UNCHANGED grad
  \/ /\ k = NumWarmup(r) /\ NumRemaining(r) > 0
     /\ phase' = [phase EXCEPT ![r] = "steady"]
     /\ i' = [i EXCEPT ![r] = 0]
     /\ RecvForward(r)
     /\ UNCHANGED grad
  \/ /\ k = NumWarmup(r) /\ NumRemaining(r) = 0
     /\ EnterCooldown(r, 0)

Start(r) ==
  /\ phase[r] = "init"
  /\ EnterWarmup(r, 0)
  /\ UNCHANGED <<local, lists, forward_data_store, fwd>>

(* forward_step and send_forward of an iteration of the warmup loop.       *)
WarmupForward(r) ==
  /\ phase[r] = "warmup"
  /\ Returned(r, "recv_forward")
  /\ ForwardStep(r)
  /\ SendForward(r, ForwardOutput(r))
  /\ UNCHANGED <<phase, i, input_tensor, output_tensor_grad, lists, grad>>

(* Mutant: the saved tensors are put in front of the older ones.           *)
WarmupNext_Stack(r) ==
  /\ phase[r] = "warmup"
  /\ Returned(r, "send_forward")
  /\ IF ForwardOnly THEN UNCHANGED lists
     ELSE /\ input_tensors' = [input_tensors EXCEPT ![r] = <<input_tensor[r]>> \o @]
          /\ output_tensors' = [output_tensors EXCEPT ![r] = <<output_tensor[r]>> \o @]
  /\ EnterWarmup(r, i[r] + 1)
  /\ UNCHANGED <<local, forward_data_store, fwd>>

(* The end of a warmup iteration: save the tensors for the backward step.  *)
WarmupNext(r) ==
  /\ phase[r] = "warmup"
  /\ Returned(r, "send_forward")
  /\ IF ForwardOnly THEN UNCHANGED lists
     ELSE /\ input_tensors' = [input_tensors EXCEPT ![r] = Append(@, input_tensor[r])]
          /\ output_tensors' = [output_tensors EXCEPT ![r] = Append(@, output_tensor[r])]
  /\ EnterWarmup(r, i[r] + 1)
  /\ UNCHANGED <<local, forward_data_store, fwd>>

(* forward_step and the send of an iteration of the steady loop.           *)
SteadyForward(r) ==
  /\ phase[r] = "steady"
  /\ Returned(r, "recv_forward") \/ Returned(r, "send_backward_recv_forward")
  /\ ForwardStep(r)
  /\ IF ForwardOnly THEN SendForward(r, ForwardOutput(r))
     ELSE SendForwardRecvBackward(r, ForwardOutput(r))
  /\ UNCHANGED <<phase, i, input_tensor, output_tensor_grad, lists, grad>>

(* The end of a steady iteration: without a backward pass the next         *)
(* activation is received here, with one it came with the gradient's send; *)
(* after the last iteration of either kind comes the cooldown loop.        *)
SteadyNext(r) ==
  /\ phase[r] = "steady"
  /\ \/ /\ Returned(r, "send_forward") /\ ~LastIteration(r)
        /\ i' = [i EXCEPT ![r] = @ + 1]
        /\ RecvForward(r)
        /\ UNCHANGED <<phase, grad>>
     \/ /\ \/ Returned(r, "send_forward") /\ LastIteration(r)
           \/ Returned(r, "send_backward")
        /\ EnterCooldown(r, 0)
  /\ UNCHANGED <<local, lists, forward_data_store, fwd>>

(* The second half of a steady iteration: save the tensors of the forward  *)
(* step, take the oldest saved ones, run their backward step, and exchange *)
(* its gradient for the next activation.                                   *)
SteadyBackward(r) ==
  LET ins  == Append(input_tensors[r], input_tensor[r])
      outs == Append(output_tensors[r], output_tensor[r])
      g    == InputGrad(r, Head(ins), Head(outs))
  IN  /\ phase[r] = "steady"
      /\ Returned(r, "send_forward_recv_backward")
      /\ input_tensors' = [input_tensors EXCEPT ![r] = Tail(ins)]
      /\ output_tensors' = [output_tensors EXCEPT ![r] = Tail(outs)]
      /\ EnableGradSyncIf(r, NumWarmup(r) = 0 /\ LastIteration(r))
      /\ BackwardStep(r)
      /\ IF LastIteration(r)
         THEN SendBackward(r, g) /\ UNCHANGED i
         ELSE SendBackwardRecvForward(r, g) /\ i' = [i EXCEPT ![r] = @ + 1]
      /\ UNCHANGED <<phase, local, forward_data_store, fwd>>

(* The backward step of a cooldown iteration on the oldest saved tensors.  *)
CooldownBackward(r) ==
  LET g == InputGrad(r, Head(input_tensors[r]), Head(output_tensors[r]))
  IN  /\ phase[r] = "cooldown"
      /\ Returned(r, "recv_backward")
      /\ input_tensors' = [input_tensors EXCEPT ![r] = Tail(@)]
      /\ output_tensors' = [output_tensors EXCEPT ![r] = Tail(@)]
      /\ UNCHANGED <<phase, i, no_sync, local, forward_data_store, fwd>>
      /\ BackwardStep(r)
      /\ SendBackward(r, g)

CooldownNext(r) ==
  /\ phase[r] = "cooldown"
  /\ Returned(r, "send_backward")
  /\ EnterCooldown(r, i[r] + 1)
  /\ UNCHANGED <<local, lists, forward_data_store, fwd>>

-------------------------------------------------------------------------------
Init ==
  /\ phase = [r \in Stage |-> "init"]
  /\ call = [r \in Stage |-> "none"]
  /\ i = [r \in Stage |-> 0]
  /\ reqs = [r \in Stage |-> {}]
  /\ fwdChan = [r \in Stage |-> <<>>]
  /\ bwdChan = [r \in Stage |-> <<>>]
  /\ input_tensor = [r \in Stage |-> None]
  /\ output_tensor = [r \in Stage |-> None]
  /\ output_tensor_grad = [r \in Stage |-> None]
  /\ input_tensors = [r \in Stage |-> <<>>]
  /\ output_tensors = [r \in Stage |-> <<>>]
  /\ forward_data_store = [r \in Stage |-> <<>>]
  /\ no_sync = [r \in Stage |-> TRUE]
  /\ fwd = [r \in Stage |-> 0]
  /\ bwd = [r \in Stage |-> 0]
  /\ launches = [r \in Stage |-> <<>>]

(* The code of rank r.                                                     *)
Step(r) ==
  \/ Start(r)
  \/ WarmupForward(r)
  \/ WarmupNext(r)
  \/ SteadyForward(r)
  \/ SteadyNext(r)
  \/ SteadyBackward(r)
  \/ CooldownBackward(r)
  \/ CooldownNext(r)

Receive(r) == ReceiveForward(r) \/ ReceiveBackward(r)

(* The batch is over on every rank of the pipeline.                        *)
AllDone == \A r \in Stage : phase[r] = "done"
Finished == AllDone /\ UNCHANGED vars

Next == (\E r \in Stage : Step(r) \/ Receive(r) \/ BufferSend(r)) \/ Finished

Spec == Init /\ [][Next]_vars

(* Ranks keep running and the transport delivers; it need not buffer.      *)
Fairness == \A r \in Stage : WF_vars(Step(r)) /\ WF_vars(Receive(r))

LiveSpec == Spec /\ Fairness

-------------------------------------------------------------------------------
(* Properties                                                              *)

(* The type invariant.                                                     *)
TypeOK ==
  /\ phase \in [Stage -> Phase]
  /\ call \in [Stage -> Call]
  /\ i \in [Stage -> 0 .. M]
  /\ reqs \in [Stage -> SUBSET Request]
  /\ fwdChan \in [Stage -> Seq(Tensor)]
  /\ bwdChan \in [Stage -> Seq(Tensor)]
  /\ input_tensor \in [Stage -> Tensor]
  /\ output_tensor \in [Stage -> Tensor]
  /\ output_tensor_grad \in [Stage -> Tensor]
  /\ input_tensors \in [Stage -> Seq(Tensor)]
  /\ output_tensors \in [Stage -> Seq(Tensor)]
  /\ forward_data_store \in [Stage -> Seq(Tensor)]
  /\ no_sync \in [Stage -> BOOLEAN]
  /\ fwd \in [Stage -> 0 .. M]
  /\ bwd \in [Stage -> 0 .. M]
  /\ launches \in [Stage -> Seq(0 .. M)]

(* No computation of any stage ever combines two microbatches: an          *)
(* activation meets the labels of its own microbatch, and a gradient meets *)
(* the activations saved for it, although the stages pair tensors only by  *)
(* the order in which they arrive and are saved.                           *)
NoMixing ==
  \A r \in Stage :
    /\ output_tensor[r] # Mixed
    /\ \A n \in 1 .. Len(bwdChan[r]) : bwdChan[r][n] # Mixed
    /\ \A n \in 1 .. Len(forward_data_store[r]) : forward_data_store[r][n] = n - 1

(* A stage never holds the activations of more microbatches than its       *)
(* max_outstanding_backprops, the window that decides which microbatches   *)
(* are checkpointed, and that shrinks towards the last stage.              *)
OutstandingBackprops ==
  ~ForwardOnly => \A r \in Stage : fwd[r] - bwd[r] <= NumWarmup(r) + 1

(* The gradients of a rank are reduced over the data-parallel group once   *)
(* per batch, with the contribution of every microbatch.                   *)
GradsReducedOnce ==
  \A r \in Stage :
    /\ launches[r] # <<>> => launches[r] = <<M>>
    /\ phase[r] = "done" /\ ~ForwardOnly => launches[r] = <<M>>

(* A rank that has finished has run every microbatch through both passes   *)
(* and keeps no saved tensor, and no rank leaves a tensor in the pipe.     *)
CleanFinish ==
  /\ \A r \in Stage : phase[r] = "done" =>
       /\ fwd[r] = M
       /\ bwd[r] = IF ForwardOnly THEN 0 ELSE M
       /\ input_tensors[r] = <<>> /\ output_tensors[r] = <<>>
       /\ IsLast(r) => Len(forward_data_store[r]) = M
  /\ AllDone => \A r \in Stage : fwdChan[r] = <<>> /\ bwdChan[r] = <<>>

(* The ranks never wait for each other in a circle: while the batch is not *)
(* over, some rank can run or some posted receive has its tensor.          *)
RankReady(r) == phase[r] # "done" /\ reqs[r] = {}
TensorReady(r) ==
  \/ "recv_prev" \in reqs[r] /\ fwdChan[r - 1] # <<>>
  \/ "recv_next" \in reqs[r] /\ bwdChan[r + 1] # <<>>
NoCircularWait == AllDone \/ \E r \in Stage : RankReady(r) \/ TensorReady(r)

(* Every batch ends on every rank.                                         *)
Termination == <>AllDone

(* The schedule implements the abstract pipeline order.                    *)
Order == INSTANCE PipelineOrder WITH V <- P, nf <- fwd, nb <- bwd
ImplementsOrder == Order!Spec
===============================================================================
