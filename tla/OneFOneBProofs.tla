--------------------------- MODULE OneFOneBProofs ----------------------------
(***************************************************************************)
(* What the non-interleaved 1F1B schedule does for every number of ranks   *)
(* and of microbatches; at the end, that the ranks never wait for each     *)
(* other in a circle, even when no send completes before its receive is    *)
(* posted.                                                                 *)
(***************************************************************************)
EXTENDS OneFOneB, Arithmetic

-------------------------------------------------------------------------------
(* The inductive invariant                                                 *)

(* s holds the microbatches a, a + 1, ..., a + n - 1.                      *)
Run(s, a, n) == Len(s) = n /\ \A k \in 1 .. n : s[k] = a + k - 1

(* Rank r waits for, or has received and not yet used, a tensor.           *)
ForwardTurn(r)  == call[r] \in {"recv_forward", "send_backward_recv_forward"}
BackwardTurn(r) == call[r] \in {"send_forward_recv_backward", "recv_backward"}

(* Whether the tensor of that turn has come.                               *)
GotForward(r)  == ForwardTurn(r) /\ "recv_prev" \notin reqs[r]
GotBackward(r) == BackwardTurn(r) /\ "recv_next" \notin reqs[r]

(* The number of activations and of gradients rank r has received.         *)
TakenForward(r)  == IF GotForward(r) THEN fwd[r] + 1 ELSE fwd[r]
TakenBackward(r) == IF GotBackward(r) THEN bwd[r] + 1 ELSE bwd[r]

(* Between its forward step and the end of the exchange that follows, a    *)
(* rank has not yet saved the tensors of the last microbatch.              *)
Unsaved(r) == call[r] \in {"send_forward", "send_forward_recv_backward"}

(* Where the rank is in its loops tells how many steps it has run.         *)
Progress(r) ==
  \/ /\ phase[r] = "init" /\ call[r] = "none"
     /\ i[r] = 0 /\ fwd[r] = 0 /\ bwd[r] = 0
  \/ /\ phase[r] = "warmup" /\ i[r] < NumWarmup(r) /\ bwd[r] = 0
     /\ \/ call[r] = "recv_forward" /\ fwd[r] = i[r]
        \/ call[r] = "send_forward" /\ fwd[r] = i[r] + 1
  \/ /\ phase[r] = "steady" /\ ForwardOnly /\ i[r] < NumRemaining(r) /\ bwd[r] = 0
     /\ \/ call[r] = "recv_forward" /\ fwd[r] = NumWarmup(r) + i[r]
        \/ call[r] = "send_forward" /\ fwd[r] = NumWarmup(r) + i[r] + 1
  \/ /\ phase[r] = "steady" /\ ~ForwardOnly /\ i[r] < NumRemaining(r)
     /\ \/ /\ ForwardTurn(r)
           /\ fwd[r] = NumWarmup(r) + i[r] /\ bwd[r] = i[r]
        \/ /\ call[r] = "send_forward_recv_backward"
           /\ fwd[r] = NumWarmup(r) + i[r] + 1 /\ bwd[r] = i[r]
        \/ /\ call[r] = "send_backward" /\ LastIteration(r)
           /\ fwd[r] = M /\ bwd[r] = NumRemaining(r)
  \/ /\ phase[r] = "cooldown" /\ ~ForwardOnly /\ i[r] < NumWarmup(r) /\ fwd[r] = M
     /\ \/ call[r] = "recv_backward" /\ bwd[r] = NumRemaining(r) + i[r]
        \/ call[r] = "send_backward" /\ bwd[r] = NumRemaining(r) + i[r] + 1
  \/ /\ phase[r] = "done" /\ call[r] = "none"
     /\ fwd[r] = M /\ bwd[r] = IF ForwardOnly THEN 0 ELSE M

(* A rank waits only for requests its call has posted.                     *)
Requests(r) ==
  /\ "recv_prev" \in reqs[r] => ForwardTurn(r) /\ ~IsFirst(r)
  /\ "recv_next" \in reqs[r] => BackwardTurn(r) /\ ~IsLast(r)

(* The lists hold the microbatches run forward and not yet backward, the   *)
(* oldest first.                                                           *)
SavedCount(r) ==
  IF ForwardOnly THEN 0 ELSE IF Unsaved(r) THEN fwd[r] - 1 - bwd[r] ELSE fwd[r] - bwd[r]
Saved(r) ==
  /\ Len(input_tensors[r]) = SavedCount(r)
  /\ ~IsFirst(r) => Run(input_tensors[r], bwd[r], SavedCount(r))
  /\ Run(output_tensors[r], bwd[r], SavedCount(r))

(* The local tensors belong to the microbatch of the last or next step.    *)
Current(r) ==
  /\ GotForward(r) /\ ~IsFirst(r) => input_tensor[r] = fwd[r]
  /\ Unsaved(r) /\ ~IsFirst(r) => input_tensor[r] = fwd[r] - 1
  /\ Unsaved(r) => output_tensor[r] = fwd[r] - 1
  /\ output_tensor[r] # Mixed
  /\ GotBackward(r) /\ ~IsLast(r) => output_tensor_grad[r] = bwd[r]

(* The last rank has stored the loss of every microbatch it has run.       *)
Losses(r) == Run(forward_data_store[r], 0, IF IsLast(r) THEN fwd[r] ELSE 0)

(* The tensors in flight are those the sender has made and the receiver    *)
(* has not taken, in order.                                                *)
InFlight(r) ==
  /\ IF IsLast(r) THEN fwdChan[r] = <<>>
     ELSE Run(fwdChan[r], TakenForward(r + 1), fwd[r] - TakenForward(r + 1))
  /\ IF IsFirst(r) THEN bwdChan[r] = <<>>
     ELSE Run(bwdChan[r], TakenBackward(r - 1), bwd[r] - TakenBackward(r - 1))

(* The rank whose hooks reduce its gradients, and when they may.           *)
Hooked(r) == GradReduce = "overlap" \/ (GradReduce = "delay" /\ r = 0)
Reduced(r) == ~ForwardOnly /\ IF Hooked(r) THEN bwd[r] = M ELSE phase[r] = "done"
Sync(r) ==
  /\ launches[r] = IF Reduced(r) THEN <<M>> ELSE <<>>
  /\ Hooked(r) =>
       (no_sync[r] <=> ~(bwd[r] = M \/ (call[r] = "recv_backward" /\ bwd[r] = M - 1)))
  /\ GradReduce = "delay" /\ r # 0 => (no_sync[r] <=> phase[r] # "done" \/ ForwardOnly)

Local(r) == Progress(r) /\ Requests(r) /\ Saved(r) /\ Current(r) /\ Losses(r) /\ Sync(r)

IInv == TypeOK /\ \A r \in Stage : Local(r) /\ InFlight(r)

-------------------------------------------------------------------------------
(* Sequences of consecutive microbatches                                   *)

LEMMA RunAppend ==
  ASSUME NEW T, NEW s \in Seq(T), NEW a \in Int, NEW n \in Nat, NEW x \in T,
         Run(s, a, n), x = a + n
  PROVE  Run(Append(s, x), a, n + 1)
BY DEF Run

LEMMA RunTail ==
  ASSUME NEW T, NEW s \in Seq(T), NEW a \in Int, NEW n \in Nat, Run(s, a, n), n > 0
  PROVE  Head(s) = a /\ Run(Tail(s), a + 1, n - 1)
BY DEF Run

LEMMA RunShift ==
  ASSUME NEW T, NEW s \in Seq(T), NEW x \in T, NEW a \in Int, NEW n \in Nat, Len(s) = n
  PROVE  /\ Head(Append(s, x)) \in T /\ Tail(Append(s, x)) \in Seq(T)
         /\ Len(Tail(Append(s, x))) = n
         /\ Run(s, a, n) /\ x = a + n =>
              Head(Append(s, x)) = a /\ Run(Tail(Append(s, x)), a + 1, n)
<1>1. Append(s, x) \in Seq(T) /\ Len(Append(s, x)) = n + 1
  OBVIOUS
<1>2. ASSUME Run(s, a, n), x = a + n
      PROVE  Head(Append(s, x)) = a /\ Run(Tail(Append(s, x)), a + 1, n)
  <2>1. Run(Append(s, x), a, n + 1)
    BY <1>2, RunAppend
  <2>2. n + 1 \in Nat /\ n + 1 > 0 /\ (n + 1) - 1 = n
    OBVIOUS
  <2>3. Head(Append(s, x)) = a /\ Run(Tail(Append(s, x)), a + 1, (n + 1) - 1)
    BY <1>1, <2>1, <2>2, RunTail
  <2>. QED BY <2>2, <2>3
<1>3. ASSUME NEW t \in Seq(T), Len(t) = n + 1
      PROVE  Head(t) \in T /\ Tail(t) \in Seq(T) /\ Len(Tail(t)) = n
  BY <1>3
<1>. QED BY <1>1, <1>2, <1>3

-------------------------------------------------------------------------------
(* The frame                                                               *)

(* Nothing that belongs to rank s has changed.                             *)
Same(s) ==
  /\ phase'[s] = phase[s] /\ call'[s] = call[s] /\ i'[s] = i[s] /\ reqs'[s] = reqs[s]
  /\ input_tensor'[s] = input_tensor[s] /\ output_tensor'[s] = output_tensor[s]
  /\ output_tensor_grad'[s] = output_tensor_grad[s]
  /\ input_tensors'[s] = input_tensors[s] /\ output_tensors'[s] = output_tensors[s]
  /\ forward_data_store'[s] = forward_data_store[s]
  /\ no_sync'[s] = no_sync[s] /\ launches'[s] = launches[s]
  /\ fwd'[s] = fwd[s] /\ bwd'[s] = bwd[s]

LEMMA Frame ==
  ASSUME NEW s \in Stage, Same(s), Local(s)
  PROVE  Local(s)'
<1>1. Progress(s)'
  BY DEF Same, Local, Progress, ForwardTurn, NumWarmup, NumRemaining, LastIteration
<1>2. Requests(s)'
  BY DEF Same, Local, Requests, ForwardTurn, BackwardTurn, IsFirst, IsLast
<1>3. Saved(s)'
  BY DEF Same, Local, Saved, SavedCount, Unsaved, IsFirst, Run
<1>4. Current(s)'
  BY DEF Same, Local, Current, Unsaved, GotForward, GotBackward, ForwardTurn, BackwardTurn, IsFirst, IsLast
<1>5. Losses(s)'
  BY DEF Same, Local, Losses, IsLast, Run
<1>6. Sync(s)'
  BY DEF Same, Local, Sync, Reduced, Hooked
<1>. QED BY <1>1, <1>2, <1>3, <1>4, <1>5, <1>6 DEF Local

(* What a step of rank r does to the rest of the state.                    *)
Alone(r) ==
  /\ \A s \in Stage \ {r} :
       Same(s) /\ fwdChan'[s] = fwdChan[s] /\ bwdChan'[s] = bwdChan[s]
  /\ ~IsFirst(r) => TakenForward(r)' = TakenForward(r)
  /\ ~IsLast(r) => TakenBackward(r)' = TakenBackward(r)
  /\ \/ fwdChan'[r] = fwdChan[r] /\ (IsLast(r) \/ fwd'[r] = fwd[r])
     \/ ~IsLast(r) /\ fwdChan'[r] = Append(fwdChan[r], fwd[r]) /\ fwd'[r] = fwd[r] + 1
  /\ \/ bwdChan'[r] = bwdChan[r] /\ (IsFirst(r) \/ bwd'[r] = bwd[r])
     \/ ~IsFirst(r) /\ bwdChan'[r] = Append(bwdChan[r], bwd[r]) /\ bwd'[r] = bwd[r] + 1

-------------------------------------------------------------------------------
(* The parts of an action                                                  *)

LEMMA Counts ==
  ASSUME NEW r \in Stage
  PROVE  /\ NumWarmup(r) \in 0 .. M /\ NumRemaining(r) \in 0 .. M
         /\ NumWarmup(r) + NumRemaining(r) = M
         /\ NumWarmup(r) = 0 <=> IsLast(r)
BY PAssumption, MAssumption DEF NumWarmup, NumRemaining, Stage, IsLast

(* The types of the values rank r keeps.                                   *)
LEMMA Typed ==
  ASSUME TypeOK, NEW r \in Stage
  PROVE  /\ i[r] \in 0 .. M /\ fwd[r] \in 0 .. M /\ bwd[r] \in 0 .. M
         /\ input_tensor[r] \in Tensor /\ output_tensor[r] \in Tensor
         /\ input_tensors[r] \in Seq(Tensor) /\ output_tensors[r] \in Seq(Tensor)
         /\ fwdChan[r] \in Seq(Tensor) /\ bwdChan[r] \in Seq(Tensor)
<1>1. i[r] \in 0 .. M /\ fwd[r] \in 0 .. M /\ bwd[r] \in 0 .. M
  BY DEF TypeOK
<1>2. input_tensor[r] \in Tensor /\ output_tensor[r] \in Tensor
  BY DEF TypeOK
<1>3. input_tensors[r] \in Seq(Tensor) /\ output_tensors[r] \in Seq(Tensor)
  BY DEF TypeOK
<1>4. fwdChan[r] \in Seq(Tensor) /\ bwdChan[r] \in Seq(Tensor)
  BY DEF TypeOK
<1>. QED BY <1>1, <1>2, <1>3, <1>4

(* What a call of _communicate changes, at rank r and elsewhere.           *)
CommState ==
  /\ call \in [Stage -> Call] /\ reqs \in [Stage -> SUBSET Request]
  /\ fwdChan \in [Stage -> Seq(Tensor)] /\ bwdChan \in [Stage -> Seq(Tensor)]
Exchange(r, name, a, b, recvs) ==
  /\ CommState'
  /\ call'[r] = name
  /\ "recv_prev" \in reqs'[r] <=> "recv_prev" \in recvs
  /\ "recv_next" \in reqs'[r] <=> "recv_next" \in recvs
  /\ fwdChan'[r] = IF a = None THEN fwdChan[r] ELSE Append(fwdChan[r], a)
  /\ bwdChan'[r] = IF b = None THEN bwdChan[r] ELSE Append(bwdChan[r], b)
  /\ \A s \in Stage \ {r} : /\ call'[s] = call[s] /\ reqs'[s] = reqs[s]
                            /\ fwdChan'[s] = fwdChan[s] /\ bwdChan'[s] = bwdChan[s]

LEMMA Neighbours ==
  ASSUME NEW r \in Stage
  PROVE  /\ ~IsFirst(r) => r - 1 \in Stage /\ r - 1 # r /\ ~IsLast(r - 1) /\ (r - 1) + 1 = r
         /\ ~IsLast(r) => r + 1 \in Stage /\ r + 1 # r /\ ~IsFirst(r + 1) /\ (r + 1) - 1 = r
BY PAssumption DEF Stage, IsFirst, IsLast

LEMMA CommunicateEffect ==
  ASSUME TypeOK, NEW r \in Stage, NEW name \in Call, NEW a \in Tensor, NEW b \in Tensor,
         NEW recvs \in SUBSET Request, Communicate(r, name, a, b, recvs)
  PROVE  Exchange(r, name, a, b, recvs)
<1>1. /\ call' \in [Stage -> Call]
      /\ call'[r] = name /\ \A s \in Stage \ {r} : call'[s] = call[s]
  BY DEF TypeOK, Communicate
<1>2. recvs \cup {s \in {"send_next"} : a # None} \cup {s \in {"send_prev"} : b # None}
        \in SUBSET Request
  BY DEF Request
<1>3. /\ reqs' \in [Stage -> SUBSET Request]
      /\ "recv_prev" \in reqs'[r] <=> "recv_prev" \in recvs
      /\ "recv_next" \in reqs'[r] <=> "recv_next" \in recvs
      /\ \A s \in Stage \ {r} : reqs'[s] = reqs[s]
  BY <1>2 DEF TypeOK, Communicate
<1>4. /\ fwdChan' \in [Stage -> Seq(Tensor)]
      /\ fwdChan'[r] = IF a = None THEN fwdChan[r] ELSE Append(fwdChan[r], a)
      /\ \A s \in Stage \ {r} : fwdChan'[s] = fwdChan[s]
  BY DEF TypeOK, Communicate
<1>5. /\ bwdChan' \in [Stage -> Seq(Tensor)]
      /\ bwdChan'[r] = IF b = None THEN bwdChan[r] ELSE Append(bwdChan[r], b)
      /\ \A s \in Stage \ {r} : bwdChan'[s] = bwdChan[s]
  BY DEF TypeOK, Communicate
<1>. QED BY <1>1, <1>3, <1>4, <1>5 DEF Exchange, CommState

(* The calls the schedule makes: no tensor for a missing neighbour.        *)
LEMMA CallEffect ==
  ASSUME TypeOK, NEW r \in Stage
  PROVE  /\ RecvForward(r) => Exchange(r, "recv_forward", None, None, RecvPrev(r))
         /\ RecvBackward(r) => Exchange(r, "recv_backward", None, None, RecvNext(r))
         /\ \A t \in Tensor :
              /\ SendForward(r, t) => Exchange(r, "send_forward", ToNext(r, t), None, {})
              /\ SendBackward(r, t) => Exchange(r, "send_backward", None, ToPrev(r, t), {})
              /\ SendForwardRecvBackward(r, t) =>
                   Exchange(r, "send_forward_recv_backward", ToNext(r, t), None, RecvNext(r))
              /\ SendBackwardRecvForward(r, t) =>
                   Exchange(r, "send_backward_recv_forward", None, ToPrev(r, t), RecvPrev(r))
<1>1. None \in Tensor /\ \A t \in Tensor : ToNext(r, t) \in Tensor /\ ToPrev(r, t) \in Tensor
  BY DEF Tensor, ToNext, ToPrev
<1>2. RecvPrev(r) \in SUBSET Request /\ RecvNext(r) \in SUBSET Request /\ {} \in SUBSET Request
  BY DEF RecvPrev, RecvNext, Request
<1>3. {"recv_forward", "recv_backward", "send_forward", "send_backward",
       "send_forward_recv_backward", "send_backward_recv_forward"} \subseteq Call
  BY DEF Call
<1>4. RecvForward(r) => Exchange(r, "recv_forward", None, None, RecvPrev(r))
  BY <1>1, <1>2, <1>3, CommunicateEffect DEF RecvForward
<1>5. RecvBackward(r) => Exchange(r, "recv_backward", None, None, RecvNext(r))
  BY <1>1, <1>2, <1>3, CommunicateEffect DEF RecvBackward
<1>6. ASSUME NEW t \in Tensor
      PROVE  /\ SendForward(r, t) => Exchange(r, "send_forward", ToNext(r, t), None, {})
             /\ SendBackward(r, t) => Exchange(r, "send_backward", None, ToPrev(r, t), {})
  BY <1>1, <1>2, <1>3, CommunicateEffect DEF SendForward, SendBackward
<1>7. ASSUME NEW t \in Tensor
      PROVE  /\ SendForwardRecvBackward(r, t) =>
                   Exchange(r, "send_forward_recv_backward", ToNext(r, t), None, RecvNext(r))
             /\ SendBackwardRecvForward(r, t) =>
                   Exchange(r, "send_backward_recv_forward", None, ToPrev(r, t), RecvPrev(r))
  BY <1>1, <1>2, <1>3, CommunicateEffect DEF SendForwardRecvBackward, SendBackwardRecvForward
<1>. QED BY <1>4, <1>5, <1>6, <1>7

(* What a forward step changes, when its input is of its microbatch.       *)
StepState ==
  /\ output_tensor \in [Stage -> Tensor] /\ fwd \in [Stage -> 0 .. M]
  /\ forward_data_store \in [Stage -> Seq(Tensor)]
Forwarded(r) ==
  /\ StepState'
  /\ output_tensor'[r] = fwd[r] /\ fwd'[r] = fwd[r] + 1
  /\ forward_data_store'[r] = IF IsLast(r) THEN Append(forward_data_store[r], fwd[r])
                              ELSE forward_data_store[r]
  /\ \A s \in Stage \ {r} : /\ output_tensor'[s] = output_tensor[s] /\ fwd'[s] = fwd[s]
                            /\ forward_data_store'[s] = forward_data_store[s]

LEMMA ForwardStepEffect ==
  ASSUME TypeOK, NEW r \in Stage, fwd[r] < M, ForwardOutput(r) = fwd[r], ForwardStep(r)
  PROVE  Forwarded(r) /\ fwd[r] \in Tensor
<1>1. fwd[r] \in 0 .. M /\ fwd[r] + 1 \in 0 .. M /\ fwd[r] \in Tensor
  BY MAssumption DEF TypeOK, Tensor, Microbatch
<1>2. /\ output_tensor' \in [Stage -> Tensor] /\ output_tensor'[r] = fwd[r]
      /\ \A s \in Stage \ {r} : output_tensor'[s] = output_tensor[s]
  BY <1>1 DEF TypeOK, ForwardStep
<1>3. /\ fwd' \in [Stage -> 0 .. M] /\ fwd'[r] = fwd[r] + 1
      /\ \A s \in Stage \ {r} : fwd'[s] = fwd[s]
  BY <1>1 DEF TypeOK, ForwardStep
<1>4. /\ forward_data_store' \in [Stage -> Seq(Tensor)]
      /\ forward_data_store'[r] = IF IsLast(r) THEN Append(forward_data_store[r], fwd[r])
                                  ELSE forward_data_store[r]
      /\ \A s \in Stage \ {r} : forward_data_store'[s] = forward_data_store[s]
  BY <1>1 DEF TypeOK, ForwardStep
<1>. QED BY <1>1, <1>2, <1>3, <1>4 DEF Forwarded, StepState

-------------------------------------------------------------------------------
(* The actions of the schedule                                             *)

LEMMA WarmupForwardStep ==
  ASSUME IInv, NEW r \in Stage, WarmupForward(r)
  PROVE  TypeOK' /\ Local(r)' /\ Alone(r)
<1>. USE MAssumption, TensorAssumption, Counts
<1>0. /\ TypeOK /\ Progress(r) /\ Saved(r) /\ Current(r) /\ Losses(r) /\ Sync(r)
      /\ WarmupForward(r)
  BY DEF IInv, Local
<1>1. /\ phase[r] = "warmup" /\ call[r] = "recv_forward" /\ reqs[r] = {}
      /\ i[r] < NumWarmup(r) /\ bwd[r] = 0 /\ fwd[r] = i[r] /\ fwd[r] \in 0 .. M - 1 /\ ~IsLast(r)
  BY <1>0 DEF TypeOK, Progress, WarmupForward, Returned
<1>2. ForwardOutput(r) = fwd[r]
  BY <1>0, <1>1 DEF Current, ForwardOutput, Join, GotForward, ForwardTurn
<1>3. Forwarded(r) /\ fwd[r] \in Tensor /\ fwd[r] # None
  BY <1>0, <1>1, <1>2, ForwardStepEffect DEF WarmupForward
<1>4. Exchange(r, "send_forward", fwd[r], None, {})
  BY <1>0, <1>1, <1>2, <1>3, CallEffect DEF WarmupForward, ToNext
<1>5. TypeOK'
  BY <1>0, <1>3, <1>4 DEF TypeOK, WarmupForward, lists, grad, Forwarded, StepState, Exchange, CommState
<1>6. Progress(r)'
  BY <1>0, <1>1, <1>3, <1>4
  DEF WarmupForward, Progress, grad, NumWarmup, NumRemaining, Forwarded, Exchange
<1>7. Requests(r)'
  BY <1>4 DEF Requests, Exchange
<1>8. Saved(r)'
  <2>1. SavedCount(r)' = SavedCount(r)
    BY <1>0, <1>1, <1>3, <1>4 DEF WarmupForward, SavedCount, Unsaved, grad, Forwarded, Exchange
  <2>. QED BY <1>0, <2>1 DEF WarmupForward, Saved, lists, grad, Run
<1>9. Current(r)'
  BY <1>0, <1>1, <1>3, <1>4
  DEF WarmupForward, Current, Unsaved, GotForward, GotBackward, ForwardTurn, BackwardTurn, Forwarded, Exchange
<1>10. Losses(r)'
  BY <1>0, <1>1, <1>3 DEF Losses, Run, Forwarded
<1>11. Sync(r)'
  BY <1>0, <1>1, <1>3, <1>4 DEF WarmupForward, Sync, Reduced, Hooked, grad, Forwarded, Exchange
<1>12. Alone(r)
  BY <1>0, <1>1, <1>3, <1>4
  DEF WarmupForward, Alone, Same, lists, grad, TakenForward, TakenBackward, GotForward, GotBackward,
      ForwardTurn, BackwardTurn, Forwarded, Exchange
<1>. QED BY <1>5, <1>6, <1>7, <1>8, <1>9, <1>10, <1>11, <1>12 DEF Local

LEMMA SteadyForwardStep ==
  ASSUME IInv, NEW r \in Stage, SteadyForward(r)
  PROVE  TypeOK' /\ Local(r)' /\ Alone(r)
<1>. USE MAssumption, TensorAssumption, Counts
<1>0. /\ TypeOK /\ Progress(r) /\ Saved(r) /\ Current(r) /\ Losses(r) /\ Sync(r)
      /\ SteadyForward(r)
  BY DEF IInv, Local
<1>1. /\ phase[r] = "steady" /\ ForwardTurn(r) /\ reqs[r] = {}
      /\ i[r] < NumRemaining(r) /\ bwd[r] = (IF ForwardOnly THEN 0 ELSE i[r])
      /\ fwd[r] = NumWarmup(r) + i[r] /\ fwd[r] \in 0 .. M - 1
  <2>1. phase[r] = "steady" /\ ForwardTurn(r) /\ reqs[r] = {} /\ i[r] \in 0 .. M
    BY <1>0, Typed DEF SteadyForward, Returned, ForwardTurn
  <2>2. /\ i[r] < NumRemaining(r) /\ bwd[r] = (IF ForwardOnly THEN 0 ELSE i[r])
        /\ fwd[r] = NumWarmup(r) + i[r]
    BY <1>0, <2>1 DEF Progress, ForwardTurn
  <2>. QED BY <2>1, <2>2
<1>2. ForwardOutput(r) = fwd[r]
  BY <1>0, <1>1 DEF Current, ForwardOutput, Join, GotForward
<1>3. Forwarded(r) /\ fwd[r] \in Tensor /\ fwd[r] # None
  BY <1>0, <1>1, <1>2, ForwardStepEffect DEF SteadyForward
<1>4. IF ForwardOnly THEN Exchange(r, "send_forward", ToNext(r, fwd[r]), None, {})
      ELSE Exchange(r, "send_forward_recv_backward", ToNext(r, fwd[r]), None, RecvNext(r))
  BY <1>0, <1>1, <1>2, <1>3, CallEffect DEF SteadyForward
<1>5. TypeOK'
  BY <1>0, <1>3, <1>4 DEF TypeOK, SteadyForward, lists, grad, Forwarded, StepState, Exchange, CommState
<1>6. Progress(r)'
  BY <1>0, <1>1, <1>3, <1>4
  DEF SteadyForward, Progress, grad, NumWarmup, NumRemaining, Forwarded, Exchange
<1>7. Requests(r)'
  BY <1>4 DEF Requests, Exchange, RecvNext, BackwardTurn, IsLast
<1>8. Saved(r)'
  <2>1. SavedCount(r)' = SavedCount(r)
    BY <1>0, <1>1, <1>3, <1>4
    DEF SteadyForward, SavedCount, Unsaved, grad, Forwarded, Exchange, ForwardTurn
  <2>. QED BY <1>0, <2>1 DEF SteadyForward, Saved, lists, grad, Run
<1>9. Current(r)'
  BY <1>0, <1>1, <1>3, <1>4
  DEF SteadyForward, Current, Unsaved, GotForward, GotBackward, ForwardTurn, BackwardTurn, Forwarded,
      Exchange, RecvNext
<1>10. Losses(r)'
  <2>1. CASE IsLast(r)
    <3>1. Run(Append(forward_data_store[r], fwd[r]), 0, fwd[r] + 1)
      BY <1>0, <1>1, <1>3, <2>1, RunAppend DEF Losses, TypeOK
    <3>. QED BY <1>3, <2>1, <3>1 DEF Losses, Forwarded, IsLast, Run
  <2>2. CASE ~IsLast(r)
    BY <1>0, <1>1, <1>3, <2>2 DEF Losses, Run, Forwarded, IsLast
  <2>. QED BY <2>1, <2>2
<1>11. Sync(r)'
  BY <1>0, <1>1, <1>3, <1>4
  DEF SteadyForward, Sync, Reduced, Hooked, grad, Forwarded, Exchange, ForwardTurn
<1>12. Alone(r)
  BY <1>0, <1>1, <1>3, <1>4
  DEF SteadyForward, Alone, Same, lists, grad, TakenForward, TakenBackward, GotForward, GotBackward,
      ForwardTurn, BackwardTurn, Forwarded, Exchange, ToNext, RecvNext
<1>. QED BY <1>5, <1>6, <1>7, <1>8, <1>9, <1>10, <1>11, <1>12 DEF Local

(* What a backward step changes, no_sync having been set for it.           *)
GradState ==
  /\ no_sync \in [Stage -> BOOLEAN] /\ bwd \in [Stage -> 0 .. M]
  /\ launches \in [Stage -> Seq(0 .. M)]
Backwarded(r) ==
  /\ GradState'
  /\ bwd'[r] = bwd[r] + 1
  /\ \A s \in Stage \ {r} : /\ no_sync'[s] = no_sync[s] /\ bwd'[s] = bwd[s]
                            /\ launches'[s] = launches[s]

LEMMA BackwardStepEffect ==
  ASSUME TypeOK, NEW r \in Stage, bwd[r] < M, BackwardStep(r),
         no_sync' \in [Stage -> BOOLEAN], \A s \in Stage \ {r} : no_sync'[s] = no_sync[s]
  PROVE  /\ Backwarded(r)
         /\ launches'[r] = IF GradReduce # "finalize" /\ ~no_sync'[r]
                           THEN Append(launches[r], bwd[r] + 1) ELSE launches[r]
<1>1. bwd[r] \in 0 .. M /\ bwd[r] + 1 \in 0 .. M
  BY MAssumption DEF TypeOK
<1>2. bwd' \in [Stage -> 0 .. M] /\ bwd'[r] = bwd[r] + 1 /\ \A s \in Stage \ {r} : bwd'[s] = bwd[s]
  BY <1>1 DEF TypeOK, BackwardStep
<1>3. /\ launches' \in [Stage -> Seq(0 .. M)]
      /\ launches'[r] = IF GradReduce # "finalize" /\ ~no_sync'[r]
                        THEN Append(launches[r], bwd[r] + 1) ELSE launches[r]
      /\ \A s \in Stage \ {r} : launches'[s] = launches[s]
  <2>1. Append(launches[r], bwd[r] + 1) \in Seq(0 .. M)
    BY <1>1 DEF TypeOK
  <2>. QED BY <2>1 DEF TypeOK, BackwardStep
<1>. QED BY <1>2, <1>3 DEF Backwarded, GradState

(* The gradient of a microbatch comes from its own tensors.                *)
LEMMA InputGradIs ==
  ASSUME NEW r \in Stage, NEW m, NEW x, NEW y, y = m, ~IsFirst(r) => x = m,
         ~IsLast(r) => output_tensor_grad[r] = m
  PROVE  InputGrad(r, x, y) = m
BY DEF InputGrad, Join

LEMMA CooldownBackwardStep ==
  ASSUME IInv, NEW r \in Stage, CooldownBackward(r)
  PROVE  TypeOK' /\ Local(r)' /\ Alone(r)
<1>. USE MAssumption, TensorAssumption, Counts
<1>0. /\ TypeOK /\ Progress(r) /\ Saved(r) /\ Current(r) /\ Losses(r) /\ Sync(r)
      /\ CooldownBackward(r)
  BY DEF IInv, Local
<1>1. /\ phase[r] = "cooldown" /\ call[r] = "recv_backward" /\ reqs[r] = {} /\ ~ForwardOnly
      /\ i[r] < NumWarmup(r) /\ fwd[r] = M /\ bwd[r] = NumRemaining(r) + i[r]
      /\ bwd[r] \in 0 .. M - 1
  BY <1>0 DEF TypeOK, Progress, CooldownBackward, Returned
<1>2. SavedCount(r) = M - bwd[r]
  BY <1>1 DEF SavedCount, Unsaved
<1>3. /\ Head(output_tensors[r]) = bwd[r]
      /\ Run(Tail(output_tensors[r]), bwd[r] + 1, M - bwd[r] - 1)
      /\ Tail(output_tensors[r]) \in Seq(Tensor)
  <2>1. output_tensors[r] \in Seq(Tensor) /\ Run(output_tensors[r], bwd[r], M - bwd[r])
    BY <1>0, <1>2 DEF Saved, TypeOK
  <2>2. Len(output_tensors[r]) > 0
    BY <1>1, <2>1 DEF Run
  <2>. QED BY <1>1, <2>1, <2>2, RunTail
<1>4. /\ ~IsFirst(r) => Head(input_tensors[r]) = bwd[r]
      /\ ~IsFirst(r) => Run(Tail(input_tensors[r]), bwd[r] + 1, M - bwd[r] - 1)
      /\ Tail(input_tensors[r]) \in Seq(Tensor) /\ Len(Tail(input_tensors[r])) = M - bwd[r] - 1
  <2>1. input_tensors[r] \in Seq(Tensor) /\ Len(input_tensors[r]) = M - bwd[r] /\ Len(input_tensors[r]) > 0
    <3>1. input_tensors[r] \in Seq(Tensor) /\ Len(input_tensors[r]) = M - bwd[r]
      BY <1>0, <1>2, Typed DEF Saved
    <3>. QED BY <1>1, <3>1
  <2>2. ~IsFirst(r) => Run(input_tensors[r], bwd[r], M - bwd[r])
    BY <1>0, <1>2 DEF Saved
  <2>3. ~IsFirst(r) => /\ Head(input_tensors[r]) = bwd[r]
                       /\ Run(Tail(input_tensors[r]), bwd[r] + 1, M - bwd[r] - 1)
    BY <1>1, <2>1, <2>2, RunTail
  <2>4. Tail(input_tensors[r]) \in Seq(Tensor) /\ Len(Tail(input_tensors[r])) = Len(input_tensors[r]) - 1
    BY <2>1
  <2>. QED BY <2>1, <2>3, <2>4
<1>5. InputGrad(r, Head(input_tensors[r]), Head(output_tensors[r])) = bwd[r]
  <2>1. ~IsLast(r) => output_tensor_grad[r] = bwd[r]
    BY <1>0, <1>1 DEF Current, GotBackward, BackwardTurn
  <2>. QED BY <1>3, <1>4, <2>1, InputGradIs
<1>6. Exchange(r, "send_backward", None, ToPrev(r, bwd[r]), {}) /\ bwd[r] \in Tensor /\ bwd[r] # None
  BY <1>0, <1>1, <1>5, CallEffect DEF CooldownBackward, Tensor, Microbatch
<1>7. /\ Backwarded(r) /\ no_sync' = no_sync
      /\ launches'[r] = IF GradReduce # "finalize" /\ ~no_sync[r]
                        THEN Append(launches[r], bwd[r] + 1) ELSE launches[r]
  <2>1. no_sync' = no_sync /\ no_sync \in [Stage -> BOOLEAN] /\ BackwardStep(r)
    BY <1>0 DEF CooldownBackward, TypeOK
  <2>. QED BY <1>0, <1>1, <2>1, BackwardStepEffect
<1>8. /\ input_tensors' \in [Stage -> Seq(Tensor)] /\ output_tensors' \in [Stage -> Seq(Tensor)]
      /\ input_tensors'[r] = Tail(input_tensors[r]) /\ output_tensors'[r] = Tail(output_tensors[r])
      /\ \A s \in Stage \ {r} : /\ input_tensors'[s] = input_tensors[s]
                                /\ output_tensors'[s] = output_tensors[s]
  <2>1. /\ input_tensors' = [input_tensors EXCEPT ![r] = Tail(@)]
        /\ output_tensors' = [output_tensors EXCEPT ![r] = Tail(@)]
    BY <1>0 DEF CooldownBackward
  <2>2. input_tensors \in [Stage -> Seq(Tensor)] /\ output_tensors \in [Stage -> Seq(Tensor)]
    BY <1>0 DEF TypeOK
  <2>. QED BY <1>3, <1>4, <2>1, <2>2
<1>9. TypeOK'
  <2>1. UNCHANGED <<phase, i, local, forward_data_store, fwd>>
    BY <1>0 DEF CooldownBackward
  <2>2. CommState' /\ GradState'
    BY <1>6, <1>7 DEF Exchange, Backwarded
  <2>. QED BY <1>0, <1>8, <2>1, <2>2 DEF TypeOK, local, GradState, CommState
<1>10. Progress(r)'
  BY <1>0, <1>1, <1>6, <1>7
  DEF CooldownBackward, Progress, NumWarmup, NumRemaining, Backwarded, Exchange
<1>11. Requests(r)'
  BY <1>6 DEF Requests, Exchange
<1>12. Saved(r)'
  <2>1. SavedCount(r)' = M - bwd[r] - 1
    BY <1>0, <1>1, <1>6, <1>7 DEF CooldownBackward, SavedCount, Unsaved, Backwarded, Exchange
  <2>2. bwd'[r] = bwd[r] + 1
    BY <1>7 DEF Backwarded
  <2>. QED BY <1>3, <1>4, <1>8, <2>1, <2>2 DEF Saved, Run, IsFirst
<1>13. Current(r)' /\ Losses(r)'
  BY <1>0, <1>1, <1>6
  DEF CooldownBackward, Current, Losses, Run, local, Unsaved, GotForward, GotBackward, ForwardTurn,
      BackwardTurn, Exchange, IsLast
<1>14. Sync(r)'
  <2>1. /\ phase'[r] = "cooldown" /\ call'[r] = "send_backward" /\ bwd'[r] = bwd[r] + 1
        /\ no_sync'[r] = no_sync[r]
    BY <1>0, <1>1, <1>6, <1>7 DEF CooldownBackward, Backwarded, Exchange
  <2>2. launches[r] = <<>> /\ (Hooked(r) => (no_sync[r] <=> bwd[r] # M - 1))
    BY <1>0, <1>1 DEF Sync, Reduced
  <2>3. GradReduce = "delay" /\ r # 0 => no_sync[r]
    BY <1>0, <1>1 DEF Sync
  <2>4. launches'[r] = IF Reduced(r)' THEN <<M>> ELSE <<>>
    BY <1>1, <1>7, <2>1, <2>2, <2>3, ConfigAssumption DEF Reduced, Hooked
  <2>. QED BY <1>1, <2>1, <2>2, <2>3, <2>4 DEF Sync, Hooked
<1>15. Alone(r)
  BY <1>0, <1>1, <1>6, <1>7, <1>8
  DEF CooldownBackward, Alone, Same, local, TakenForward, TakenBackward, GotForward, GotBackward,
      ForwardTurn, BackwardTurn, Backwarded, Exchange, ToPrev
<1>. QED BY <1>9, <1>10, <1>11, <1>12, <1>13, <1>14, <1>15 DEF Local

LEMMA SteadyBackwardStep ==
  ASSUME IInv, NEW r \in Stage, SteadyBackward(r)
  PROVE  TypeOK' /\ Local(r)' /\ Alone(r)
<1>. USE MAssumption, TensorAssumption, Counts
<1>. DEFINE ins  == Append(input_tensors[r], input_tensor[r])
            outs == Append(output_tensors[r], output_tensor[r])
            n    == NumWarmup(r)
            g    == InputGrad(r, Head(ins), Head(outs))
            last == n = 0 /\ LastIteration(r)
<1>0. /\ TypeOK /\ Progress(r) /\ Saved(r) /\ Current(r) /\ Losses(r) /\ Sync(r)
      /\ SteadyBackward(r)
  BY DEF IInv, Local
<1>1. /\ phase[r] = "steady" /\ call[r] = "send_forward_recv_backward" /\ reqs[r] = {}
      /\ ~ForwardOnly /\ i[r] \in 0 .. NumRemaining(r) - 1
      /\ fwd[r] = n + i[r] + 1 /\ bwd[r] = i[r] /\ bwd[r] \in 0 .. M - 1
  <2>1. /\ phase[r] = "steady" /\ call[r] = "send_forward_recv_backward" /\ reqs[r] = {}
        /\ i[r] \in 0 .. M
    BY <1>0 DEF TypeOK, SteadyBackward, Returned
  <2>2. /\ ~ForwardOnly /\ i[r] < NumRemaining(r)
        /\ fwd[r] = n + i[r] + 1 /\ bwd[r] = i[r]
    BY <1>0, <2>1 DEF Progress, ForwardTurn
  <2>. QED BY <2>1, <2>2
<1>2. SavedCount(r) = n
  BY <1>1 DEF SavedCount, Unsaved
<1>3. /\ Head(outs) = bwd[r] /\ Run(Tail(outs), bwd[r] + 1, n) /\ Tail(outs) \in Seq(Tensor)
      /\ Head(ins) \in Tensor /\ Tail(ins) \in Seq(Tensor) /\ Len(Tail(ins)) = n
      /\ ~IsFirst(r) => Head(ins) = bwd[r] /\ Run(Tail(ins), bwd[r] + 1, n)
  <2>1. /\ output_tensor[r] \in Tensor /\ output_tensor[r] = bwd[r] + n
        /\ input_tensor[r] \in Tensor /\ (~IsFirst(r) => input_tensor[r] = bwd[r] + n)
    BY <1>0, <1>1, Typed DEF Current, Unsaved
  <2>2. /\ input_tensors[r] \in Seq(Tensor) /\ Len(input_tensors[r]) = n
        /\ ~IsFirst(r) => Run(input_tensors[r], bwd[r], n)
    BY <1>0, <1>2 DEF Saved, TypeOK
  <2>3. output_tensors[r] \in Seq(Tensor) /\ Len(output_tensors[r]) = n /\ Run(output_tensors[r], bwd[r], n)
    BY <1>0, <1>2 DEF Saved, TypeOK, Run
  <2>4. n \in Nat /\ bwd[r] \in Int
    BY <1>1, Counts
  <2>5. Head(outs) = bwd[r] /\ Run(Tail(outs), bwd[r] + 1, n) /\ Tail(outs) \in Seq(Tensor)
    BY <2>1, <2>3, <2>4, RunShift
  <2>6. /\ Head(ins) \in Tensor /\ Tail(ins) \in Seq(Tensor) /\ Len(Tail(ins)) = n
        /\ ~IsFirst(r) => Head(ins) = bwd[r] /\ Run(Tail(ins), bwd[r] + 1, n)
    <3>1. Head(ins) \in Tensor /\ Tail(ins) \in Seq(Tensor) /\ Len(Tail(ins)) = n
      BY <2>1, <2>2, <2>4, RunShift
    <3>2. ASSUME ~IsFirst(r) PROVE Head(ins) = bwd[r] /\ Run(Tail(ins), bwd[r] + 1, n)
      BY <2>1, <2>2, <2>4, <3>2, RunShift
    <3>. QED BY <3>1, <3>2
  <2>. QED BY <2>5, <2>6
<1>4. n \in 0 .. M
  BY Counts
<1>. HIDE DEF n
<1>5. g = bwd[r]
  <2>1. ~IsLast(r) => output_tensor_grad[r] = bwd[r]
    BY <1>0, <1>1 DEF Current, GotBackward, BackwardTurn
  <2>. QED BY <1>3, <2>1, InputGradIs
<1>. HIDE DEF ins, outs, g
<1>6. /\ input_tensors' = [input_tensors EXCEPT ![r] = Tail(ins)]
      /\ output_tensors' = [output_tensors EXCEPT ![r] = Tail(outs)]
      /\ EnableGradSyncIf(r, last)
      /\ BackwardStep(r)
      /\ IF LastIteration(r)
         THEN SendBackward(r, bwd[r]) /\ UNCHANGED i
         ELSE SendBackwardRecvForward(r, bwd[r]) /\ i' = [i EXCEPT ![r] = @ + 1]
      /\ UNCHANGED <<phase, local, forward_data_store, fwd>>
  BY <1>0, <1>5 DEF SteadyBackward, ins, outs, g, n, last
<1>. HIDE DEF last
<1>7. bwd[r] \in Tensor /\ bwd[r] # None
  BY <1>1 DEF Tensor, Microbatch
<1>8. IF LastIteration(r) THEN Exchange(r, "send_backward", None, ToPrev(r, bwd[r]), {})
      ELSE Exchange(r, "send_backward_recv_forward", None, ToPrev(r, bwd[r]), RecvPrev(r))
  BY <1>0, <1>6, <1>7, CallEffect
<1>9. /\ no_sync' \in [Stage -> BOOLEAN] /\ \A s \in Stage \ {r} : no_sync'[s] = no_sync[s]
      /\ no_sync'[r] <=> no_sync[r] /\ ~(last /\ (GradReduce # "delay" \/ r = 0))
  BY <1>0, <1>6 DEF EnableGradSyncIf, TypeOK
<1>10. /\ Backwarded(r)
       /\ launches'[r] = IF GradReduce # "finalize" /\ ~no_sync'[r]
                         THEN Append(launches[r], bwd[r] + 1) ELSE launches[r]
  <2>1. BackwardStep(r) /\ bwd[r] < M
    BY <1>1, <1>6
  <2>. QED BY <1>0, <1>9, <2>1, BackwardStepEffect
<1>11. /\ input_tensors' \in [Stage -> Seq(Tensor)] /\ output_tensors' \in [Stage -> Seq(Tensor)]
       /\ input_tensors'[r] = Tail(ins) /\ output_tensors'[r] = Tail(outs)
       /\ \A s \in Stage \ {r} : /\ input_tensors'[s] = input_tensors[s]
                                 /\ output_tensors'[s] = output_tensors[s]
  BY <1>0, <1>3, <1>6 DEF TypeOK
<1>12. /\ i' \in [Stage -> 0 .. M] /\ \A s \in Stage \ {r} : i'[s] = i[s]
       /\ i'[r] = IF LastIteration(r) THEN i[r] ELSE i[r] + 1
  <2>1. CASE LastIteration(r)
    BY <1>0, <1>6, <2>1 DEF TypeOK
  <2>2. CASE ~LastIteration(r)
    <3>1. i[r] + 1 \in 0 .. M /\ i' = [i EXCEPT ![r] = @ + 1]
      BY <1>1, <1>6, <2>2
    <3>. QED BY <1>0, <2>2, <3>1 DEF TypeOK
  <2>. QED BY <2>1, <2>2
<1>13. TypeOK'
  BY <1>0, <1>6, <1>8, <1>10, <1>11, <1>12
  DEF TypeOK, local, Backwarded, GradState, Exchange, CommState
<1>14. Progress(r)'
  <2>1. phase'[r] = "steady" /\ fwd'[r] = fwd[r] /\ bwd'[r] = bwd[r] + 1
    BY <1>1, <1>6, <1>10 DEF Backwarded
  <2>2. NumRemaining(r) = M - n
    BY DEF NumRemaining, n
  <2>3. CASE LastIteration(r)
    <3>1. call'[r] = "send_backward" /\ i'[r] = i[r] /\ i[r] = M - n - 1
      BY <1>8, <1>12, <2>2, <2>3 DEF Exchange, LastIteration
    <3>. QED BY <1>1, <2>1, <2>2, <3>1 DEF Progress, LastIteration, NumRemaining, NumWarmup, n
  <2>4. CASE ~LastIteration(r)
    <3>1. call'[r] = "send_backward_recv_forward" /\ i'[r] = i[r] + 1 /\ i[r] # M - n - 1
      BY <1>8, <1>12, <2>2, <2>4 DEF Exchange, LastIteration
    <3>. QED BY <1>1, <2>1, <2>2, <3>1 DEF Progress, ForwardTurn, NumRemaining, NumWarmup, n
  <2>. QED BY <2>3, <2>4
<1>15. Requests(r)'
  BY <1>8 DEF Requests, Exchange, ForwardTurn, RecvPrev, IsFirst
<1>16. Saved(r)'
  <2>1. SavedCount(r)' = n /\ bwd'[r] = bwd[r] + 1
    <3>1. /\ bwd'[r] = bwd[r] + 1 /\ fwd'[r] = fwd[r]
          /\ call'[r] \in {"send_backward", "send_backward_recv_forward"}
      BY <1>6, <1>8, <1>10 DEF Backwarded, Exchange
    <3>. QED BY <1>1, <1>4, <3>1 DEF SavedCount, Unsaved
  <2>. QED BY <1>3, <1>11, <2>1 DEF Saved, Run, IsFirst
<1>17. Current(r)' /\ Losses(r)'
  BY <1>0, <1>6, <1>8
  DEF Current, Losses, Run, local, Unsaved, GotForward, GotBackward, ForwardTurn,
      BackwardTurn, Exchange, RecvPrev, IsFirst, IsLast
<1>18. Sync(r)'
  <2>1. /\ phase'[r] = "steady" /\ call'[r] # "recv_backward" /\ bwd'[r] = bwd[r] + 1
    BY <1>1, <1>6, <1>8, <1>10 DEF Backwarded, Exchange
  <2>2. launches[r] = <<>> /\ (Hooked(r) => no_sync[r]) /\ (GradReduce = "delay" /\ r # 0 => no_sync[r])
    BY <1>0, <1>1 DEF Sync, Reduced
  <2>3. last <=> bwd[r] + 1 = M
    BY <1>1 DEF last, LastIteration, NumRemaining, n
  <2>4. /\ Hooked(r) => (no_sync'[r] <=> bwd[r] + 1 # M)
        /\ GradReduce = "delay" /\ r # 0 => no_sync'[r]
    BY <1>9, <2>2, <2>3 DEF Hooked
  <2>5. launches'[r] = IF Reduced(r)' THEN <<M>> ELSE <<>>
    BY <1>1, <1>10, <2>1, <2>2, <2>4, ConfigAssumption DEF Reduced, Hooked
  <2>. QED BY <1>1, <2>1, <2>4, <2>5 DEF Sync, Hooked
<1>19. Alone(r)
  BY <1>1, <1>6, <1>7, <1>8, <1>10, <1>11, <1>12, ZenonT(60)
  DEF Alone, Same, local, TakenForward, TakenBackward, GotForward, GotBackward,
      ForwardTurn, BackwardTurn, Backwarded, Exchange, ToPrev, RecvPrev
<1>. QED BY <1>13, <1>14, <1>15, <1>16, <1>17, <1>18, <1>19 DEF Local

(* Between two iterations of a loop: no backward step is under way.        *)
Quiet(r) ==
  /\ "recv_prev" \notin reqs[r] /\ "recv_next" \notin reqs[r]
  /\ launches[r] = IF ~ForwardOnly /\ Hooked(r) /\ bwd[r] = M THEN <<M>> ELSE <<>>
  /\ Hooked(r) => (no_sync[r] <=> bwd[r] # M)
  /\ GradReduce = "delay" /\ r # 0 => no_sync[r]

(* The rank has entered a loop, or ended.                                  *)
Entered(r) ==
  /\ phase' \in [Stage -> Phase] /\ i' \in [Stage -> 0 .. M]
  /\ CommState' /\ GradState' /\ bwd' = bwd
  /\ call'[r] \in {"none", "recv_forward", "recv_backward"}
  /\ Progress(r)' /\ Requests(r)' /\ Sync(r)'
  /\ ~IsFirst(r) => ~GotForward(r)'
  /\ ~IsLast(r) => ~GotBackward(r)'
  /\ fwdChan'[r] = fwdChan[r] /\ bwdChan'[r] = bwdChan[r]
  /\ \A s \in Stage \ {r} :
       /\ phase'[s] = phase[s] /\ call'[s] = call[s] /\ i'[s] = i[s] /\ reqs'[s] = reqs[s]
       /\ fwdChan'[s] = fwdChan[s] /\ bwdChan'[s] = bwdChan[s]
       /\ no_sync'[s] = no_sync[s] /\ launches'[s] = launches[s]

LEMMA FinishEffect ==
  ASSUME TypeOK, NEW r \in Stage, Quiet(r), fwd' = fwd, fwd[r] = M,
         bwd[r] = (IF ForwardOnly THEN 0 ELSE M), Finish(r)
  PROVE  Entered(r)
<1>. USE MAssumption, ConfigAssumption
<1>1. /\ phase' \in [Stage -> Phase] /\ phase'[r] = "done"
      /\ \A s \in Stage \ {r} : phase'[s] = phase[s]
  BY DEF TypeOK, Finish, Phase
<1>2. /\ call' \in [Stage -> Call] /\ call'[r] = "none"
      /\ \A s \in Stage \ {r} : call'[s] = call[s]
  BY DEF TypeOK, Finish, Call
<1>3. /\ no_sync' \in [Stage -> BOOLEAN] /\ (no_sync'[r] <=> no_sync[r] /\ ForwardOnly)
      /\ \A s \in Stage \ {r} : no_sync'[s] = no_sync[s]
  BY DEF TypeOK, Finish
<1>4. i' = i /\ reqs' = reqs /\ fwdChan' = fwdChan /\ bwdChan' = bwdChan /\ bwd' = bwd
  BY DEF Finish, comm
<1>5. /\ launches' \in [Stage -> Seq(0 .. M)]
      /\ launches'[r] = IF ~ForwardOnly /\ (GradReduce = "finalize" \/ (GradReduce = "delay" /\ no_sync[r]))
                        THEN Append(launches[r], bwd[r]) ELSE launches[r]
      /\ \A s \in Stage \ {r} : launches'[s] = launches[s]
  <2>1. Append(launches[r], bwd[r]) \in Seq(0 .. M)
    BY DEF TypeOK
  <2>2. launches' = IF ~ForwardOnly /\ (GradReduce = "finalize" \/ (GradReduce = "delay" /\ no_sync[r]))
                    THEN [launches EXCEPT ![r] = Append(@, bwd[r])] ELSE launches
    BY DEF Finish
  <2>. QED BY <2>1, <2>2 DEF TypeOK
<1>6. Progress(r)'
  BY <1>1, <1>2, <1>4 DEF Progress
<1>7. Requests(r)' /\ ~GotForward(r)' /\ ~GotBackward(r)'
  BY <1>2, <1>4 DEF Quiet, Requests, GotForward, GotBackward, ForwardTurn, BackwardTurn
<1>8. Sync(r)'
  <2>1. launches'[r] = IF Reduced(r)' THEN <<M>> ELSE <<>>
    <3>1. CASE ForwardOnly
      BY <1>5, <3>1 DEF Quiet, Reduced
    <3>2. CASE ~ForwardOnly /\ Hooked(r)
      <4>1. bwd'[r] = M /\ launches[r] = <<M>> /\ (GradReduce = "overlap" \/ ~no_sync[r])
        BY <1>4, <3>2 DEF Quiet, Hooked
      <4>. QED BY <1>5, <3>2, <4>1 DEF Reduced, Hooked
    <3>3. CASE ~ForwardOnly /\ ~Hooked(r)
      <4>1. bwd[r] = M /\ launches[r] = <<>> /\ (GradReduce = "finalize" \/ no_sync[r])
        BY <3>3 DEF Quiet, Hooked
      <4>2. launches'[r] = Append(<<>>, M)
        BY <1>5, <3>3, <4>1 DEF Hooked
      <4>3. Reduced(r)'
        BY <1>1, <3>3 DEF Reduced, Hooked
      <4>. QED BY <4>2, <4>3
    <3>. QED BY <3>1, <3>2, <3>3
  <2>. QED BY <1>1, <1>2, <1>3, <1>4, <2>1 DEF Quiet, Sync, Hooked
<1>. QED BY <1>1, <1>2, <1>3, <1>4, <1>5, <1>6, <1>7, <1>8 DEF Entered, CommState, GradState, TypeOK

LEMMA EnterCooldownEffect ==
  ASSUME TypeOK, NEW r \in Stage, NEW k \in 0 .. NumWarmup(r), Quiet(r), fwd' = fwd, fwd[r] = M,
         ForwardOnly => bwd[r] = 0, ~ForwardOnly => bwd[r] = NumRemaining(r) + k,
         EnterCooldown(r, k)
  PROVE  Entered(r)
<1>. USE MAssumption, Counts
<1>1. CASE ForwardOnly \/ k = NumWarmup(r)
  <2>1. Finish(r)
    BY <1>1 DEF EnterCooldown
  <2>2. bwd[r] = (IF ForwardOnly THEN 0 ELSE M)
    BY <1>1
  <2>. QED BY <2>1, <2>2, FinishEffect
<1>2. CASE ~ForwardOnly /\ k # NumWarmup(r)
  <2>1. /\ phase' = [phase EXCEPT ![r] = "cooldown"]
        /\ i' = [i EXCEPT ![r] = k]
        /\ EnableGradSyncIf(r, k = NumWarmup(r) - 1)
        /\ RecvBackward(r)
        /\ UNCHANGED <<bwd, launches>>
    BY <1>2 DEF EnterCooldown
  <2>2. Exchange(r, "recv_backward", None, None, RecvNext(r))
    BY <2>1, CallEffect
  <2>3. k \in 0 .. M /\ k < NumWarmup(r)
    BY <1>2
  <2>4. /\ phase' \in [Stage -> Phase] /\ phase'[r] = "cooldown"
        /\ i' \in [Stage -> 0 .. M] /\ i'[r] = k
        /\ \A s \in Stage \ {r} : phase'[s] = phase[s] /\ i'[s] = i[s]
    BY <2>1, <2>3 DEF TypeOK, Phase
  <2>5. /\ no_sync' \in [Stage -> BOOLEAN]
        /\ no_sync'[r] <=> no_sync[r] /\ ~(k = NumWarmup(r) - 1 /\ (GradReduce # "delay" \/ r = 0))
        /\ \A s \in Stage \ {r} : no_sync'[s] = no_sync[s]
    BY <2>1 DEF EnableGradSyncIf, TypeOK
  <2>6. Progress(r)'
    BY <1>2, <2>1, <2>2, <2>3, <2>4 DEF Progress, Exchange, NumWarmup, NumRemaining
  <2>7. Requests(r)' /\ ~GotForward(r)' /\ (~IsLast(r) => ~GotBackward(r)')
    BY <2>2 DEF Exchange, Requests, GotForward, GotBackward, ForwardTurn, BackwardTurn, RecvNext, IsLast
  <2>8. Sync(r)'
    <3>1. call'[r] = "recv_backward" /\ bwd'[r] = bwd[r] /\ launches'[r] = launches[r] /\ phase'[r] = "cooldown"
      BY <2>1, <2>2, <2>4 DEF Exchange
    <3>2. bwd[r] # M /\ (bwd[r] = M - 1 <=> k = NumWarmup(r) - 1)
      BY <1>2, <2>3
    <3>3. launches'[r] = IF Reduced(r)' THEN <<M>> ELSE <<>>
      BY <3>1, <3>2 DEF Quiet, Reduced, Hooked
    <3>. QED BY <2>5, <3>1, <3>2, <3>3 DEF Quiet, Sync, Hooked
  <2>. QED BY <2>1, <2>2, <2>4, <2>5, <2>6, <2>7, <2>8 DEF Entered, Exchange, GradState, TypeOK
<1>. QED BY <1>1, <1>2

LEMMA RecvForwardEffect ==
  ASSUME TypeOK, NEW r \in Stage, Quiet(r), fwd' = fwd, RecvForward(r), UNCHANGED grad,
         phase' \in [Stage -> Phase], i' \in [Stage -> 0 .. M],
         \A s \in Stage \ {r} : phase'[s] = phase[s] /\ i'[s] = i[s],
         phase'[r] # "done", bwd[r] # M, Progress(r)'
  PROVE  Entered(r)
<1>1. Exchange(r, "recv_forward", None, None, RecvPrev(r))
  BY CallEffect
<1>2. Requests(r)' /\ ~GotBackward(r)' /\ (~IsFirst(r) => ~GotForward(r)')
  BY <1>1 DEF Exchange, Requests, GotForward, GotBackward, ForwardTurn, BackwardTurn, RecvPrev, IsFirst
<1>3. Sync(r)'
  <2>1. call'[r] = "recv_forward" /\ bwd' = bwd /\ launches' = launches /\ no_sync' = no_sync
    BY <1>1 DEF Exchange, grad
  <2>. QED BY <2>1 DEF Quiet, Sync, Reduced, Hooked
<1>. QED BY <1>1, <1>2, <1>3 DEF Entered, Exchange, GradState, TypeOK, grad

LEMMA EnterWarmupEffect ==
  ASSUME TypeOK, NEW r \in Stage, NEW k \in 0 .. NumWarmup(r), Quiet(r), fwd' = fwd, fwd[r] = k,
         bwd[r] = 0, EnterWarmup(r, k)
  PROVE  Entered(r)
<1>. USE MAssumption, Counts
<1>1. CASE k < NumWarmup(r)
  <2>1. phase' = [phase EXCEPT ![r] = "warmup"] /\ i' = [i EXCEPT ![r] = k] /\ RecvForward(r) /\ UNCHANGED grad
    BY <1>1 DEF EnterWarmup
  <2>2. Exchange(r, "recv_forward", None, None, RecvPrev(r))
    BY <2>1, CallEffect
  <2>3. /\ phase' \in [Stage -> Phase] /\ phase'[r] = "warmup"
        /\ i' \in [Stage -> 0 .. M] /\ i'[r] = k
        /\ \A s \in Stage \ {r} : phase'[s] = phase[s] /\ i'[s] = i[s]
    BY <2>1 DEF TypeOK, Phase
  <2>4. Progress(r)'
    BY <1>1, <2>1, <2>2, <2>3 DEF Progress, Exchange, grad, NumWarmup, NumRemaining
  <2>. QED BY <2>1, <2>3, <2>4, RecvForwardEffect
<1>2. CASE k = NumWarmup(r) /\ NumRemaining(r) > 0
  <2>1. phase' = [phase EXCEPT ![r] = "steady"] /\ i' = [i EXCEPT ![r] = 0] /\ RecvForward(r) /\ UNCHANGED grad
    BY <1>2 DEF EnterWarmup
  <2>2. Exchange(r, "recv_forward", None, None, RecvPrev(r))
    BY <2>1, CallEffect
  <2>3. /\ phase' \in [Stage -> Phase] /\ phase'[r] = "steady"
        /\ i' \in [Stage -> 0 .. M] /\ i'[r] = 0
        /\ \A s \in Stage \ {r} : phase'[s] = phase[s] /\ i'[s] = i[s]
    BY <2>1 DEF TypeOK, Phase
  <2>4. Progress(r)'
    BY <1>2, <2>1, <2>2, <2>3 DEF Progress, Exchange, grad, NumWarmup, NumRemaining, ForwardTurn
  <2>. QED BY <2>1, <2>3, <2>4, RecvForwardEffect
<1>3. CASE k = NumWarmup(r) /\ NumRemaining(r) = 0
  <2>1. EnterCooldown(r, 0)
    BY <1>3 DEF EnterWarmup
  <2>. QED BY <1>3, <2>1, EnterCooldownEffect
<1>. QED BY <1>1, <1>2, <1>3

(* The actions that only enter a loop, or its next iteration.              *)
LEMMA EnteredLocal ==
  ASSUME IInv, NEW r \in Stage, Entered(r), UNCHANGED <<local, lists, forward_data_store, fwd>>,
         ForwardOnly \/ ~Unsaved(r)
  PROVE  /\ TypeOK' /\ Local(r)'
         /\ ~GotForward(r) /\ ~GotBackward(r) => Alone(r)
<1>. USE DEF Entered
<1>0. TypeOK /\ Saved(r) /\ Current(r) /\ Losses(r)
  BY DEF IInv, Local
<1>1. TypeOK'
  BY <1>0 DEF TypeOK, CommState, GradState, local, lists
<1>2. ~Unsaved(r)'
  BY DEF Unsaved
<1>3. Saved(r)'
  <2>1. SavedCount(r)' = SavedCount(r)
    BY <1>2 DEF SavedCount
  <2>. QED BY <1>0, <2>1 DEF Saved, lists, Run
<1>4. Losses(r)'
  BY <1>0 DEF Losses, Run
<1>5. Current(r)'
  BY <1>0, <1>2 DEF Current, local
<1>6. ASSUME ~GotForward(r), ~GotBackward(r) PROVE Alone(r)
  BY <1>6 DEF Alone, Same, local, lists, TakenForward, TakenBackward
<1>. QED BY <1>1, <1>3, <1>4, <1>5, <1>6 DEF Local

LEMMA StartStep ==
  ASSUME IInv, NEW r \in Stage, Start(r)
  PROVE  TypeOK' /\ Local(r)' /\ Alone(r)
<1>. USE MAssumption, Counts
<1>0. TypeOK /\ Progress(r) /\ Requests(r) /\ Sync(r) /\ Start(r)
  BY DEF IInv, Local
<1>1. phase[r] = "init" /\ call[r] = "none" /\ fwd[r] = 0 /\ bwd[r] = 0
  BY <1>0 DEF Progress, Start
<1>2. Quiet(r)
  BY <1>0, <1>1 DEF Quiet, Requests, ForwardTurn, BackwardTurn, Sync, Reduced
<1>3. Entered(r)
  BY <1>0, <1>1, <1>2, EnterWarmupEffect DEF Start
<1>4. ~Unsaved(r) /\ ~GotForward(r) /\ ~GotBackward(r)
  BY <1>1 DEF Unsaved, GotForward, GotBackward, ForwardTurn, BackwardTurn
<1>. QED BY <1>0, <1>3, <1>4, EnteredLocal DEF Start

(* The gradient of the last steady iteration has been sent.               *)
LEMMA SteadyEndStep ==
  ASSUME IInv, NEW r \in Stage, SteadyNext(r), call[r] = "send_backward"
  PROVE  TypeOK' /\ Local(r)' /\ Alone(r)
<1>. USE MAssumption, Counts
<1>0. TypeOK /\ Progress(r) /\ Sync(r) /\ SteadyNext(r) /\ call[r] = "send_backward"
  BY DEF IInv, Local
<1>1. /\ phase[r] = "steady" /\ call[r] = "send_backward" /\ reqs[r] = {} /\ ~ForwardOnly
      /\ fwd[r] = M /\ bwd[r] = NumRemaining(r)
  BY <1>0 DEF Progress, SteadyNext, Returned, ForwardTurn
<1>2. Quiet(r)
  BY <1>0, <1>1 DEF Quiet, Sync, Reduced
<1>3. Entered(r)
  BY <1>0, <1>1, <1>2, EnterCooldownEffect DEF SteadyNext, Returned
<1>4. ~Unsaved(r) /\ ~GotForward(r) /\ ~GotBackward(r)
  BY <1>1 DEF Unsaved, GotForward, GotBackward, ForwardTurn, BackwardTurn
<1>. QED BY <1>0, <1>3, <1>4, EnteredLocal DEF SteadyNext, Returned

LEMMA CooldownNextStep ==
  ASSUME IInv, NEW r \in Stage, CooldownNext(r)
  PROVE  TypeOK' /\ Local(r)' /\ Alone(r)
<1>. USE MAssumption, Counts
<1>0. TypeOK /\ Progress(r) /\ Sync(r) /\ CooldownNext(r)
  BY DEF IInv, Local
<1>1. /\ phase[r] = "cooldown" /\ call[r] = "send_backward" /\ reqs[r] = {} /\ ~ForwardOnly
      /\ fwd[r] = M /\ i[r] + 1 \in 0 .. NumWarmup(r)
      /\ bwd[r] = NumRemaining(r) + (i[r] + 1)
  BY <1>0, Typed DEF Progress, CooldownNext, Returned
<1>2. Quiet(r)
  BY <1>0, <1>1 DEF Quiet, Sync, Reduced
<1>3. Entered(r)
  BY <1>0, <1>1, <1>2, EnterCooldownEffect DEF CooldownNext
<1>4. ~Unsaved(r) /\ ~GotForward(r) /\ ~GotBackward(r)
  BY <1>1 DEF Unsaved, GotForward, GotBackward, ForwardTurn, BackwardTurn
<1>. QED BY <1>0, <1>3, <1>4, EnteredLocal DEF CooldownNext

(* A steady iteration of an evaluation is over.                            *)
LEMMA SteadyEvalStep ==
  ASSUME IInv, NEW r \in Stage, SteadyNext(r), call[r] = "send_forward"
  PROVE  TypeOK' /\ Local(r)' /\ Alone(r)
<1>. USE MAssumption, Counts
<1>0. TypeOK /\ Progress(r) /\ Saved(r) /\ Current(r) /\ Losses(r) /\ Sync(r) /\ SteadyNext(r)
      /\ call[r] = "send_forward"
  BY DEF IInv, Local
<1>1. /\ phase[r] = "steady" /\ call[r] = "send_forward" /\ reqs[r] = {} /\ ForwardOnly
      /\ i[r] \in 0 .. NumRemaining(r) - 1
      /\ fwd[r] = NumWarmup(r) + i[r] + 1 /\ bwd[r] = 0
  BY <1>0, SMTT(30) DEF Progress, SteadyNext, Returned, ForwardTurn, TypeOK
<1>2. Quiet(r)
  BY <1>0, <1>1 DEF Quiet, Sync, Reduced
<1>3. Entered(r)
  <2>1. CASE LastIteration(r)
    <3>1. EnterCooldown(r, 0) /\ fwd' = fwd /\ fwd[r] = M
      BY <1>0, <1>1, <2>1 DEF SteadyNext, LastIteration, Returned
    <3>. QED BY <1>0, <1>1, <1>2, <3>1, EnterCooldownEffect
  <2>2. CASE ~LastIteration(r)
    <3>1. i' = [i EXCEPT ![r] = @ + 1] /\ RecvForward(r) /\ UNCHANGED <<phase, grad>> /\ fwd' = fwd
      BY <1>0, <2>2 DEF SteadyNext, Returned
    <3>2. /\ phase' \in [Stage -> Phase] /\ phase'[r] = "steady"
          /\ i' \in [Stage -> 0 .. M] /\ i'[r] = i[r] + 1 /\ i'[r] < NumRemaining(r)
          /\ \A s \in Stage \ {r} : phase'[s] = phase[s] /\ i'[s] = i[s]
      <4>1. i[r] + 1 \in 0 .. M /\ i[r] + 1 < NumRemaining(r)
        BY <1>1, <2>2 DEF LastIteration
      <4>. QED BY <1>0, <1>1, <3>1, <4>1 DEF TypeOK
    <3>3. Exchange(r, "recv_forward", None, None, RecvPrev(r))
      BY <1>0, <3>1, CallEffect
    <3>4. Progress(r)'
      BY <1>1, <3>1, <3>2, <3>3 DEF Progress, Exchange, grad, NumWarmup, NumRemaining
    <3>. QED BY <1>0, <1>1, <1>2, <3>1, <3>2, <3>4, RecvForwardEffect
  <2>. QED BY <2>1, <2>2
<1>4. ~GotForward(r) /\ ~GotBackward(r)
  BY <1>1 DEF GotForward, GotBackward, ForwardTurn, BackwardTurn
<1>. QED BY <1>0, <1>1, <1>3, <1>4, EnteredLocal DEF SteadyNext

LEMMA SteadyNextStep ==
  ASSUME IInv, NEW r \in Stage, SteadyNext(r)
  PROVE  TypeOK' /\ Local(r)' /\ Alone(r)
<1>1. call[r] \in {"send_forward", "send_backward"}
  BY DEF SteadyNext, Returned
<1>. QED BY <1>1, SteadyEvalStep, SteadyEndStep

LEMMA WarmupNextStep ==
  ASSUME IInv, NEW r \in Stage, WarmupNext(r)
  PROVE  TypeOK' /\ Local(r)' /\ Alone(r)
<1>. USE MAssumption, Counts
<1>0. /\ TypeOK /\ Progress(r) /\ Saved(r) /\ Current(r) /\ Losses(r) /\ Sync(r)
      /\ WarmupNext(r)
  BY DEF IInv, Local
<1>1. /\ phase[r] = "warmup" /\ call[r] = "send_forward" /\ reqs[r] = {}
      /\ i[r] + 1 \in 0 .. NumWarmup(r) /\ fwd[r] = i[r] + 1 /\ bwd[r] = 0
  BY <1>0 DEF Progress, WarmupNext, Returned, TypeOK
<1>2. Quiet(r)
  BY <1>0, <1>1 DEF Quiet, Sync, Reduced
<1>3. Entered(r)
  BY <1>0, <1>1, <1>2, EnterWarmupEffect DEF WarmupNext
<1>4. CASE ForwardOnly
  <2>1. ~GotForward(r) /\ ~GotBackward(r)
    BY <1>1 DEF GotForward, GotBackward, ForwardTurn, BackwardTurn
  <2>. QED BY <1>0, <1>3, <1>4, <2>1, EnteredLocal DEF WarmupNext
<1>5. CASE ~ForwardOnly
  <2>1. /\ input_tensors' = [input_tensors EXCEPT ![r] = Append(@, input_tensor[r])]
        /\ output_tensors' = [output_tensors EXCEPT ![r] = Append(@, output_tensor[r])]
        /\ UNCHANGED <<local, forward_data_store, fwd>>
    BY <1>0, <1>5 DEF WarmupNext
  <2>2. /\ input_tensor[r] \in Tensor /\ output_tensor[r] \in Tensor
        /\ input_tensors[r] \in Seq(Tensor) /\ output_tensors[r] \in Seq(Tensor)
    BY <1>0, Typed
  <2>0. input_tensors \in [Stage -> Seq(Tensor)] /\ output_tensors \in [Stage -> Seq(Tensor)]
    BY <1>0 DEF TypeOK
  <2>3. /\ input_tensors' \in [Stage -> Seq(Tensor)] /\ output_tensors' \in [Stage -> Seq(Tensor)]
        /\ input_tensors'[r] = Append(input_tensors[r], input_tensor[r])
        /\ output_tensors'[r] = Append(output_tensors[r], output_tensor[r])
        /\ \A s \in Stage \ {r} : /\ input_tensors'[s] = input_tensors[s]
                                  /\ output_tensors'[s] = output_tensors[s]
    BY <2>0, <2>1, <2>2
  <2>4. TypeOK'
    BY <1>0, <1>3, <2>1, <2>3 DEF TypeOK, Entered, CommState, GradState, local
  <2>5. ~Unsaved(r)' /\ bwd'[r] = 0 /\ fwd'[r] = i[r] + 1
    BY <1>1, <1>3, <2>1 DEF Entered, Unsaved
  <2>6. Saved(r)'
    <3>1. SavedCount(r) = i[r] /\ SavedCount(r)' = i[r] + 1 /\ i[r] \in Nat /\ 0 \in Int
      <4>1. i[r] \in Nat
        BY <1>0 DEF TypeOK
      <4>2. SavedCount(r) = fwd[r] - 1 - bwd[r]
        BY <1>1, <1>5 DEF SavedCount, Unsaved
      <4>3. SavedCount(r)' = fwd'[r] - bwd'[r]
        BY <1>5, <2>5 DEF SavedCount
      <4>. QED BY <1>1, <2>5, <4>1, <4>2, <4>3
    <3>2. Run(output_tensors'[r], 0, i[r] + 1)
      <4>1. output_tensor[r] = 0 + i[r] /\ Run(output_tensors[r], 0, i[r])
        BY <1>0, <1>1, <3>1 DEF Current, Unsaved, Saved
      <4>. QED BY <2>2, <2>3, <3>1, <4>1, RunAppend
    <3>3. ~IsFirst(r) => Run(input_tensors'[r], 0, i[r] + 1)
      <4>1. ~IsFirst(r) => input_tensor[r] = 0 + i[r] /\ Run(input_tensors[r], 0, i[r])
        BY <1>0, <1>1, <3>1 DEF Current, Unsaved, Saved
      <4>. QED BY <2>2, <2>3, <3>1, <4>1, RunAppend
    <3>4. Len(input_tensors'[r]) = i[r] + 1
      BY <1>0, <2>2, <2>3, <3>1 DEF Saved
    <3>. QED BY <2>5, <3>1, <3>2, <3>3, <3>4 DEF Saved, IsFirst, Run
  <2>7. Current(r)' /\ Losses(r)'
    BY <1>0, <1>3, <2>1, <2>5 DEF Current, Losses, Run, Entered, local, IsFirst, IsLast
  <2>8. Alone(r)
    BY <1>1, <1>3, <2>1, <2>3
    DEF Alone, Same, Entered, local, TakenForward, TakenBackward, GotForward, GotBackward, ForwardTurn,
        BackwardTurn
  <2>. QED BY <1>3, <2>4, <2>6, <2>7, <2>8 DEF Local, Entered
<1>. QED BY <1>4, <1>5

-------------------------------------------------------------------------------
(* The transport                                                           *)

(* Nothing changes but the requests a rank waits for and the tensors it    *)
(* has received.                                                           *)
LEMMA ReceiveForwardStep ==
  ASSUME IInv, NEW r \in Stage, ReceiveForward(r)
  PROVE  IInv'
<1>. USE MAssumption, TensorAssumption
<1>0. /\ TypeOK /\ ReceiveForward(r)
      /\ \A s \in Stage : Local(s) /\ InFlight(s)
  BY DEF IInv
<1>1. /\ "recv_prev" \in reqs[r] /\ ForwardTurn(r) /\ ~IsFirst(r)
      /\ ~GotForward(r) /\ ~BackwardTurn(r)
  BY <1>0 DEF ReceiveForward, Local, Requests, GotForward, ForwardTurn, BackwardTurn
<1>2. r - 1 \in Stage /\ r \in Stage /\ r - 1 # r /\ ~IsLast(r - 1) /\ (r - 1) + 1 = r
  BY <1>1, Neighbours
<1>3. /\ fwdChan[r - 1] \in Seq(Tensor) /\ fwdChan[r - 1] # <<>> /\ fwd[r] \in Nat /\ fwd[r - 1] \in Nat
      /\ Run(fwdChan[r - 1], fwd[r], fwd[r - 1] - fwd[r])
  BY <1>0, <1>1, <1>2 DEF TypeOK, ReceiveForward, InFlight, TakenForward
<1>4. /\ Head(fwdChan[r - 1]) = fwd[r] /\ Head(fwdChan[r - 1]) \in Tensor
      /\ Tail(fwdChan[r - 1]) \in Seq(Tensor)
      /\ Run(Tail(fwdChan[r - 1]), fwd[r] + 1, fwd[r - 1] - fwd[r] - 1)
  <2>1. Len(fwdChan[r - 1]) > 0 /\ fwd[r - 1] - fwd[r] = Len(fwdChan[r - 1])
    BY <1>3 DEF Run
  <2>. QED BY <1>3, <2>1, RunTail
<1>5. /\ input_tensor' \in [Stage -> Tensor] /\ input_tensor'[r] = fwd[r]
      /\ \A s \in Stage \ {r} : input_tensor'[s] = input_tensor[s]
  <2>1. input_tensor' = [input_tensor EXCEPT ![r] = Head(fwdChan[r - 1])]
    BY <1>0 DEF ReceiveForward
  <2>. QED BY <1>0, <1>4, <2>1 DEF TypeOK
<1>6. /\ fwdChan' \in [Stage -> Seq(Tensor)] /\ fwdChan'[r - 1] = Tail(fwdChan[r - 1])
      /\ \A s \in Stage \ {r - 1} : fwdChan'[s] = fwdChan[s]
  BY <1>0, <1>2, <1>4 DEF TypeOK, ReceiveForward
<1>7. /\ reqs' \in [Stage -> SUBSET Request]
      /\ "recv_prev" \notin reqs'[r] /\ ("recv_next" \in reqs'[r] <=> "recv_next" \in reqs[r])
      /\ \A s \in Stage \ {r} : /\ "recv_prev" \in reqs'[s] <=> "recv_prev" \in reqs[s]
                                /\ "recv_next" \in reqs'[s] <=> "recv_next" \in reqs[s]
  <2>. DEFINE left == IF Len(fwdChan[r - 1]) = 1 THEN reqs[r - 1] \ {"send_next"} ELSE reqs[r - 1]
  <2>1. reqs' = [reqs EXCEPT ![r] = @ \ {"recv_prev"}, ![r - 1] = left]
    BY <1>0, <1>2 DEF ReceiveForward, TypeOK
  <2>2. /\ left \in SUBSET Request
        /\ "recv_prev" \in left <=> "recv_prev" \in reqs[r - 1]
        /\ "recv_next" \in left <=> "recv_next" \in reqs[r - 1]
    BY <1>0, <1>2 DEF TypeOK
  <2>. HIDE DEF left
  <2>3. reqs \in [Stage -> SUBSET Request]
    BY <1>0 DEF TypeOK
  <2>4. reqs'[r] = reqs[r] \ {"recv_prev"} /\ reqs'[r - 1] = left /\ reqs' \in [Stage -> SUBSET Request]
    BY <1>2, <2>1, <2>2, <2>3
  <2>5. \A s \in Stage \ {r, r - 1} : reqs'[s] = reqs[s]
    BY <2>1, <2>3
  <2>. QED BY <2>2, <2>4, <2>5
<1>8. UNCHANGED <<phase, call, i, bwdChan, output_tensor, output_tensor_grad, lists,
                  forward_data_store, fwd, grad>>
  BY <1>0 DEF ReceiveForward
<1>9. TypeOK'
  BY <1>0, <1>5, <1>6, <1>7, <1>8 DEF TypeOK, lists, grad
<1>10. ASSUME NEW s \in Stage PROVE Local(s)'
  <2>1. /\ Progress(s)' /\ Saved(s)' /\ Losses(s)' /\ Sync(s)'
    BY <1>0, <1>8 DEF Local, Progress, Saved, SavedCount, Unsaved, Losses, Sync, Reduced, Hooked, Run,
                      ForwardTurn, NumWarmup, NumRemaining, LastIteration, lists, grad
  <2>2. Requests(s)'
    BY <1>0, <1>7, <1>8 DEF Local, Requests, ForwardTurn, BackwardTurn
  <2>3. Current(s)'
    <3>1. Current(r)'
      <4>1. Current(r) /\ ~Unsaved(r)' /\ ~GotBackward(r)' /\ output_tensor' = output_tensor /\ fwd' = fwd
        BY <1>0, <1>1, <1>8 DEF Local, ForwardTurn, BackwardTurn, Unsaved, GotBackward
      <4>. QED BY <1>5, <4>1 DEF Current
    <3>2. CASE s # r
      BY <1>0, <1>5, <1>7, <1>8, <3>2
      DEF Local, Current, GotForward, GotBackward, ForwardTurn, BackwardTurn, Unsaved, grad
    <3>. QED BY <3>1, <3>2
  <2>. QED BY <2>1, <2>2, <2>3 DEF Local
<1>11. ASSUME NEW s \in Stage PROVE InFlight(s)'
  <2>1. TakenForward(r)' = fwd[r] + 1
    BY <1>1, <1>7, <1>8 DEF TakenForward, GotForward, ForwardTurn
  <2>2. \A t \in Stage \ {r} : TakenForward(t)' = TakenForward(t)
    BY <1>7, <1>8 DEF TakenForward, GotForward, ForwardTurn
  <2>3. \A t \in Stage : TakenBackward(t)' = TakenBackward(t)
    BY <1>7, <1>8 DEF TakenBackward, GotBackward, BackwardTurn, grad
  <2>4. bwd' = bwd /\ fwd' = fwd /\ bwdChan' = bwdChan
    BY <1>8 DEF grad
  <2>5. IF IsFirst(s) THEN bwdChan'[s] = <<>>
        ELSE Run(bwdChan'[s], TakenBackward(s - 1)', bwd'[s] - TakenBackward(s - 1)')
    <3>1. CASE IsFirst(s)
      BY <1>0, <2>4, <3>1 DEF InFlight
    <3>2. CASE ~IsFirst(s)
      <4>1. s - 1 \in Stage
        BY <3>2, Neighbours
      <4>2. Run(bwdChan[s], TakenBackward(s - 1), bwd[s] - TakenBackward(s - 1))
        BY <1>0, <3>2 DEF InFlight
      <4>. QED BY <2>3, <2>4, <3>2, <4>1, <4>2
    <3>. QED BY <3>1, <3>2
  <2>6. IF IsLast(s) THEN fwdChan'[s] = <<>>
        ELSE Run(fwdChan'[s], TakenForward(s + 1)', fwd'[s] - TakenForward(s + 1)')
    <3>1. CASE s = r - 1
      <4>1. fwd[r - 1] - (fwd[r] + 1) = fwd[r - 1] - fwd[r] - 1
        BY <1>3
      <4>. QED BY <1>2, <1>4, <1>6, <2>1, <2>4, <3>1, <4>1
    <3>2. CASE s # r - 1 /\ IsLast(s)
      BY <1>0, <1>6, <3>2 DEF InFlight
    <3>3. CASE s # r - 1 /\ ~IsLast(s)
      <4>1. s + 1 \in Stage /\ s + 1 # r
        BY <3>3, Neighbours, <1>2
      <4>2. Run(fwdChan[s], TakenForward(s + 1), fwd[s] - TakenForward(s + 1))
        BY <1>0, <3>3 DEF InFlight
      <4>. QED BY <1>6, <2>2, <2>4, <3>3, <4>1, <4>2
    <3>. QED BY <3>1, <3>2, <3>3
  <2>. QED BY <2>5, <2>6 DEF InFlight, IsFirst, IsLast, Run
<1>. QED BY <1>9, <1>10, <1>11 DEF IInv

LEMMA ReceiveBackwardStep ==
  ASSUME IInv, NEW r \in Stage, ReceiveBackward(r)
  PROVE  IInv'
<1>. USE MAssumption, TensorAssumption
<1>0. /\ TypeOK /\ ReceiveBackward(r)
      /\ \A s \in Stage : Local(s) /\ InFlight(s)
  BY DEF IInv
<1>1. /\ "recv_next" \in reqs[r] /\ BackwardTurn(r) /\ ~IsLast(r)
      /\ ~GotBackward(r) /\ ~ForwardTurn(r)
  BY <1>0 DEF ReceiveBackward, Local, Requests, GotBackward, BackwardTurn, ForwardTurn
<1>2. r + 1 \in Stage /\ r \in Stage /\ r + 1 # r /\ ~IsFirst(r + 1) /\ (r + 1) - 1 = r
  BY <1>1, Neighbours
<1>3. /\ bwdChan[r + 1] \in Seq(Tensor) /\ bwdChan[r + 1] # <<>> /\ bwd[r] \in Nat /\ bwd[r + 1] \in Nat
      /\ Run(bwdChan[r + 1], bwd[r], bwd[r + 1] - bwd[r])
  BY <1>0, <1>1, <1>2 DEF TypeOK, ReceiveBackward, InFlight, TakenBackward
<1>4. /\ Head(bwdChan[r + 1]) = bwd[r] /\ Head(bwdChan[r + 1]) \in Tensor
      /\ Tail(bwdChan[r + 1]) \in Seq(Tensor)
      /\ Run(Tail(bwdChan[r + 1]), bwd[r] + 1, bwd[r + 1] - bwd[r] - 1)
  <2>1. Len(bwdChan[r + 1]) > 0 /\ bwd[r + 1] - bwd[r] = Len(bwdChan[r + 1])
    BY <1>3 DEF Run
  <2>. QED BY <1>3, <2>1, RunTail
<1>5. /\ output_tensor_grad' \in [Stage -> Tensor] /\ output_tensor_grad'[r] = bwd[r]
      /\ \A s \in Stage \ {r} : output_tensor_grad'[s] = output_tensor_grad[s]
  <2>1. output_tensor_grad' = [output_tensor_grad EXCEPT ![r] = Head(bwdChan[r + 1])]
    BY <1>0 DEF ReceiveBackward
  <2>. QED BY <1>0, <1>4, <2>1 DEF TypeOK
<1>6. /\ bwdChan' \in [Stage -> Seq(Tensor)] /\ bwdChan'[r + 1] = Tail(bwdChan[r + 1])
      /\ \A s \in Stage \ {r + 1} : bwdChan'[s] = bwdChan[s]
  BY <1>0, <1>2, <1>4 DEF TypeOK, ReceiveBackward
<1>7. /\ reqs' \in [Stage -> SUBSET Request]
      /\ "recv_next" \notin reqs'[r] /\ ("recv_prev" \in reqs'[r] <=> "recv_prev" \in reqs[r])
      /\ \A s \in Stage \ {r} : /\ "recv_next" \in reqs'[s] <=> "recv_next" \in reqs[s]
                                /\ "recv_prev" \in reqs'[s] <=> "recv_prev" \in reqs[s]
  <2>. DEFINE left == IF Len(bwdChan[r + 1]) = 1 THEN reqs[r + 1] \ {"send_prev"} ELSE reqs[r + 1]
  <2>1. reqs' = [reqs EXCEPT ![r] = @ \ {"recv_next"}, ![r + 1] = left]
    BY <1>0, <1>2 DEF ReceiveBackward, TypeOK
  <2>2. /\ left \in SUBSET Request
        /\ "recv_next" \in left <=> "recv_next" \in reqs[r + 1]
        /\ "recv_prev" \in left <=> "recv_prev" \in reqs[r + 1]
    BY <1>0, <1>2 DEF TypeOK
  <2>. HIDE DEF left
  <2>3. reqs \in [Stage -> SUBSET Request]
    BY <1>0 DEF TypeOK
  <2>4. reqs'[r] = reqs[r] \ {"recv_next"} /\ reqs'[r + 1] = left /\ reqs' \in [Stage -> SUBSET Request]
    BY <1>2, <2>1, <2>2, <2>3
  <2>5. \A s \in Stage \ {r, r + 1} : reqs'[s] = reqs[s]
    BY <2>1, <2>3
  <2>. QED BY <2>2, <2>4, <2>5
<1>8. UNCHANGED <<phase, call, i, fwdChan, output_tensor, input_tensor, lists,
                  forward_data_store, fwd, grad>>
  BY <1>0 DEF ReceiveBackward
<1>9. TypeOK'
  BY <1>0, <1>5, <1>6, <1>7, <1>8 DEF TypeOK, lists, grad
<1>10. ASSUME NEW s \in Stage PROVE Local(s)'
  <2>1. /\ Progress(s)' /\ Saved(s)' /\ Losses(s)' /\ Sync(s)'
    BY <1>0, <1>8 DEF Local, Progress, Saved, SavedCount, Unsaved, Losses, Sync, Reduced, Hooked, Run,
                      BackwardTurn, ForwardTurn, NumWarmup, NumRemaining, LastIteration, lists, grad
  <2>2. Requests(s)'
    BY <1>0, <1>7, <1>8 DEF Local, Requests, BackwardTurn, ForwardTurn
  <2>3. Current(s)'
    <3>1. Current(r)'
      <4>1. /\ Current(r) /\ ~GotForward(r)' /\ (Unsaved(r)' <=> Unsaved(r))
            /\ output_tensor' = output_tensor /\ input_tensor' = input_tensor
            /\ fwd' = fwd /\ bwd' = bwd
        BY <1>0, <1>1, <1>8 DEF Local, BackwardTurn, ForwardTurn, Unsaved, GotForward, grad
      <4>. QED BY <1>5, <4>1 DEF Current, IsFirst, IsLast
    <3>2. CASE s # r
      BY <1>0, <1>5, <1>7, <1>8, <3>2
      DEF Local, Current, GotBackward, GotForward, BackwardTurn, ForwardTurn, Unsaved, grad
    <3>. QED BY <3>1, <3>2
  <2>. QED BY <2>1, <2>2, <2>3 DEF Local
<1>11. ASSUME NEW s \in Stage PROVE InFlight(s)'
  <2>1. TakenBackward(r)' = bwd[r] + 1
    BY <1>1, <1>7, <1>8 DEF TakenBackward, GotBackward, BackwardTurn, grad
  <2>2. \A t \in Stage \ {r} : TakenBackward(t)' = TakenBackward(t)
    BY <1>7, <1>8 DEF TakenBackward, GotBackward, BackwardTurn, grad
  <2>3. \A t \in Stage : TakenForward(t)' = TakenForward(t)
    BY <1>7, <1>8 DEF TakenForward, GotForward, ForwardTurn, grad
  <2>4. fwd' = fwd /\ bwd' = bwd /\ fwdChan' = fwdChan
    BY <1>8 DEF grad
  <2>5. IF IsLast(s) THEN fwdChan'[s] = <<>>
        ELSE Run(fwdChan'[s], TakenForward(s + 1)', fwd'[s] - TakenForward(s + 1)')
    <3>1. CASE IsLast(s)
      BY <1>0, <2>4, <3>1 DEF InFlight
    <3>2. CASE ~IsLast(s)
      <4>1. s + 1 \in Stage
        BY <3>2, Neighbours
      <4>2. Run(fwdChan[s], TakenForward(s + 1), fwd[s] - TakenForward(s + 1))
        BY <1>0, <3>2 DEF InFlight
      <4>. QED BY <2>3, <2>4, <3>2, <4>1, <4>2
    <3>. QED BY <3>1, <3>2
  <2>6. IF IsFirst(s) THEN bwdChan'[s] = <<>>
        ELSE Run(bwdChan'[s], TakenBackward(s - 1)', bwd'[s] - TakenBackward(s - 1)')
    <3>1. CASE s = r + 1
      <4>1. bwd[r + 1] - (bwd[r] + 1) = bwd[r + 1] - bwd[r] - 1
        BY <1>3
      <4>. QED BY <1>2, <1>4, <1>6, <2>1, <2>4, <3>1, <4>1
    <3>2. CASE s # r + 1 /\ IsFirst(s)
      BY <1>0, <1>6, <3>2 DEF InFlight
    <3>3. CASE s # r + 1 /\ ~IsFirst(s)
      <4>1. s - 1 \in Stage /\ s - 1 # r
        BY <3>3, Neighbours, <1>2
      <4>2. Run(bwdChan[s], TakenBackward(s - 1), bwd[s] - TakenBackward(s - 1))
        BY <1>0, <3>3 DEF InFlight
      <4>. QED BY <1>6, <2>2, <2>4, <3>3, <4>1, <4>2
    <3>. QED BY <3>1, <3>2, <3>3
  <2>. QED BY <2>5, <2>6 DEF InFlight, IsLast, IsFirst, Run
<1>. QED BY <1>9, <1>10, <1>11 DEF IInv

(* A send that the transport has buffered is no longer waited for.         *)
LEMMA BufferSendStep ==
  ASSUME IInv, NEW r \in Stage, BufferSend(r)
  PROVE  IInv'
<1>0. /\ TypeOK /\ BufferSend(r)
      /\ \A s \in Stage : Local(s) /\ InFlight(s)
  BY DEF IInv
<1>1. UNCHANGED <<phase, call, i, fwdChan, bwdChan, input_tensor, output_tensor, output_tensor_grad,
                  lists, forward_data_store, fwd, grad>>
  BY <1>0 DEF BufferSend
<1>2. /\ reqs' \in [Stage -> SUBSET Request]
      /\ \A s \in Stage : /\ "recv_prev" \in reqs'[s] <=> "recv_prev" \in reqs[s]
                          /\ "recv_next" \in reqs'[s] <=> "recv_next" \in reqs[s]
  <2>1. PICK x \in {"send_next", "send_prev"} : reqs' = [reqs EXCEPT ![r] = @ \ {x}]
    BY <1>0 DEF BufferSend
  <2>. QED BY <1>0, <2>1 DEF TypeOK
<1>3. TypeOK'
  BY <1>0, <1>1, <1>2 DEF TypeOK, lists, grad
<1>4. ASSUME NEW s \in Stage PROVE Local(s)'
  <2>1. Progress(s)' /\ Saved(s)' /\ Losses(s)' /\ Sync(s)'
    BY <1>0, <1>1 DEF Local, Progress, Saved, SavedCount, Unsaved, Losses, Sync, Reduced, Hooked, Run,
                      ForwardTurn, NumWarmup, NumRemaining, LastIteration, lists, grad
  <2>2. Requests(s)' /\ Current(s)'
    BY <1>0, <1>1, <1>2 DEF Local, Requests, Current, GotForward, GotBackward, ForwardTurn, BackwardTurn,
                            Unsaved, grad
  <2>. QED BY <2>1, <2>2 DEF Local
<1>5. ASSUME NEW s \in Stage PROVE InFlight(s)'
  <2>1. /\ \A t \in Stage : TakenForward(t)' = TakenForward(t)
        /\ \A t \in Stage : TakenBackward(t)' = TakenBackward(t)
    BY <1>1, <1>2
    DEF TakenForward, GotForward, ForwardTurn, TakenBackward, GotBackward, BackwardTurn, grad
  <2>2. bwd' = bwd /\ fwd' = fwd /\ fwdChan' = fwdChan /\ bwdChan' = bwdChan
    BY <1>1 DEF grad
  <2>3. IF IsLast(s) THEN fwdChan'[s] = <<>>
        ELSE Run(fwdChan'[s], TakenForward(s + 1)', fwd'[s] - TakenForward(s + 1)')
    BY <1>0, <2>1, <2>2, Neighbours DEF InFlight
  <2>4. IF IsFirst(s) THEN bwdChan'[s] = <<>>
        ELSE Run(bwdChan'[s], TakenBackward(s - 1)', bwd'[s] - TakenBackward(s - 1)')
    BY <1>0, <2>1, <2>2, Neighbours DEF InFlight
  <2>. QED BY <2>3, <2>4 DEF InFlight, IsFirst, IsLast, Run
<1>. QED BY <1>3, <1>4, <1>5 DEF IInv

-------------------------------------------------------------------------------
(* The invariant                                                           *)

(* A step of one rank keeps the invariant of the whole pipeline: it sends  *)
(* to a neighbour what the neighbour has not taken yet, and takes nothing. *)
LEMMA Combine ==
  ASSUME IInv, NEW r \in Stage, TypeOK', Local(r)', Alone(r)
  PROVE  IInv'
<1>. USE MAssumption, TensorAssumption
<1>0. /\ TypeOK /\ \A s \in Stage : Local(s) /\ InFlight(s)
      /\ TypeOK' /\ Local(r)' /\ Alone(r)
  BY DEF IInv
<1>1. ASSUME NEW s \in Stage PROVE Local(s)'
  <2>1. CASE s = r
    BY <1>0, <2>1
  <2>2. CASE s # r
    BY <1>0, <2>2, Frame DEF Alone
  <2>. QED BY <2>1, <2>2
<1>2. \A s \in Stage : /\ ~IsFirst(s) => TakenForward(s)' = TakenForward(s)
                       /\ ~IsLast(s) => TakenBackward(s)' = TakenBackward(s)
  BY <1>0
  DEF Alone, Same, TakenForward, TakenBackward, GotForward, GotBackward, ForwardTurn, BackwardTurn
<1>3. \A s \in Stage : fwd[s] \in Nat /\ bwd[s] \in Nat /\ fwd'[s] \in Nat /\ bwd'[s] \in Nat
  BY <1>0 DEF TypeOK
<1>4. \A s \in Stage : TakenForward(s) \in Nat /\ TakenBackward(s) \in Nat
  BY <1>3 DEF TakenForward, TakenBackward
<1>5. \A s \in Stage : fwdChan[s] \in Seq(Tensor) /\ bwdChan[s] \in Seq(Tensor)
  BY <1>0 DEF TypeOK
<1>6. ASSUME NEW s \in Stage
      PROVE  IF IsLast(s) THEN fwdChan'[s] = <<>>
             ELSE Run(fwdChan'[s], TakenForward(s + 1)', fwd'[s] - TakenForward(s + 1)')
  <2>1. CASE fwdChan'[s] = fwdChan[s] /\ (IsLast(s) \/ fwd'[s] = fwd[s])
    BY <1>0, <1>2, <2>1, Neighbours DEF InFlight
  <2>2. CASE /\ s = r /\ ~IsLast(r)
             /\ fwdChan'[r] = Append(fwdChan[r], fwd[r]) /\ fwd'[r] = fwd[r] + 1
    <3>. DEFINE a == TakenForward(s + 1)
                n == fwd[s] - a
    <3>1. s + 1 \in Stage /\ TakenForward(s + 1)' = a /\ a \in Nat
      BY <1>2, <1>4, <2>2, Neighbours
    <3>2. Run(fwdChan[s], a, n) /\ fwdChan[s] \in Seq(Tensor) /\ n \in Int
      BY <1>0, <1>3, <1>5, <2>2, <3>1 DEF InFlight
    <3>3. n \in Nat /\ fwd[s] = a + n /\ fwd'[s] - a = n + 1
      BY <1>3, <2>2, <3>1, <3>2 DEF Run
    <3>4. fwd[s] \in Tensor
      <4>1. fwd[s] \in 0 .. M /\ fwd'[s] \in 0 .. M
        BY <1>0 DEF TypeOK
      <4>. QED BY <2>2, <4>1 DEF Tensor, Microbatch
    <3>. HIDE DEF a, n
    <3>5. Run(Append(fwdChan[s], fwd[s]), a, n + 1)
      BY <3>1, <3>2, <3>3, <3>4, RunAppend
    <3>. QED BY <2>2, <3>1, <3>3, <3>5
  <2>. QED BY <1>0, <2>1, <2>2 DEF Alone, Same
<1>7. ASSUME NEW s \in Stage
      PROVE  IF IsFirst(s) THEN bwdChan'[s] = <<>>
             ELSE Run(bwdChan'[s], TakenBackward(s - 1)', bwd'[s] - TakenBackward(s - 1)')
  <2>1. CASE bwdChan'[s] = bwdChan[s] /\ (IsFirst(s) \/ bwd'[s] = bwd[s])
    BY <1>0, <1>2, <2>1, Neighbours DEF InFlight
  <2>2. CASE /\ s = r /\ ~IsFirst(r)
             /\ bwdChan'[r] = Append(bwdChan[r], bwd[r]) /\ bwd'[r] = bwd[r] + 1
    <3>. DEFINE a == TakenBackward(s - 1)
                n == bwd[s] - a
    <3>1. s - 1 \in Stage /\ TakenBackward(s - 1)' = a /\ a \in Nat
      BY <1>2, <1>4, <2>2, Neighbours
    <3>2. Run(bwdChan[s], a, n) /\ bwdChan[s] \in Seq(Tensor) /\ n \in Int
      BY <1>0, <1>3, <1>5, <2>2, <3>1 DEF InFlight
    <3>3. n \in Nat /\ bwd[s] = a + n /\ bwd'[s] - a = n + 1
      BY <1>3, <2>2, <3>1, <3>2 DEF Run
    <3>4. bwd[s] \in Tensor
      <4>1. bwd[s] \in 0 .. M /\ bwd'[s] \in 0 .. M
        BY <1>0 DEF TypeOK
      <4>. QED BY <2>2, <4>1 DEF Tensor, Microbatch
    <3>. HIDE DEF a, n
    <3>5. Run(Append(bwdChan[s], bwd[s]), a, n + 1)
      BY <3>1, <3>2, <3>3, <3>4, RunAppend
    <3>. QED BY <2>2, <3>1, <3>3, <3>5
  <2>. QED BY <1>0, <2>1, <2>2 DEF Alone, Same
<1>8. \A s \in Stage : InFlight(s)'
  BY <1>6, <1>7 DEF InFlight, IsFirst, IsLast, Run
<1>. QED BY <1>0, <1>1, <1>8 DEF IInv

LEMMA InitIInv == Init => IInv
<1>. SUFFICES ASSUME Init PROVE IInv
  OBVIOUS
<1>. USE PAssumption, MAssumption, TensorAssumption DEF Init
<1>1. TypeOK
  <2>1. None \in Tensor /\ 0 \in 0 .. M /\ "init" \in Phase /\ "none" \in Call
    BY DEF Tensor, Phase, Call
  <2>. QED BY <2>1 DEF TypeOK
<1>2. ASSUME NEW s \in Stage PROVE Local(s)
  <2>1. Progress(s) /\ Requests(s) /\ Losses(s)
    BY DEF Progress, Requests, Losses, Run
  <2>2. Saved(s) /\ Current(s)
    BY DEF Saved, SavedCount, Unsaved, Run, Current, GotForward, GotBackward, ForwardTurn, BackwardTurn
  <2>3. Sync(s)
    BY DEF Sync, Hooked, Reduced
  <2>. QED BY <2>1, <2>2, <2>3 DEF Local
<1>3. ASSUME NEW s \in Stage PROVE InFlight(s)
  <2>1. \A t \in Stage : TakenForward(t) = 0 /\ TakenBackward(t) = 0
    BY DEF TakenForward, TakenBackward, GotForward, GotBackward, ForwardTurn, BackwardTurn
  <2>2. Run(<<>>, 0, 0) /\ 0 - 0 = 0
    BY DEF Run
  <2>. QED BY <2>1, <2>2, Neighbours DEF InFlight
<1>. QED BY <1>1, <1>2, <1>3 DEF IInv

LEMMA StepIInv ==
  ASSUME IInv, NEW r \in Stage, Step(r)
  PROVE  IInv'
<1>1. TypeOK' /\ Local(r)' /\ Alone(r)
  BY StartStep, WarmupForwardStep, WarmupNextStep, SteadyForwardStep, SteadyNextStep,
     SteadyBackwardStep, CooldownBackwardStep, CooldownNextStep DEF Step
<1>. QED BY <1>1, Combine

LEMMA NextIInv == IInv /\ [Next]_vars => IInv'
<1>. SUFFICES ASSUME IInv, [Next]_vars PROVE IInv'
  OBVIOUS
<1>1. CASE \E r \in Stage : Step(r) \/ Receive(r) \/ BufferSend(r)
  <2>1. PICK r \in Stage : Step(r) \/ Receive(r) \/ BufferSend(r)
    BY <1>1
  <2>. QED BY <2>1, StepIInv, ReceiveForwardStep, ReceiveBackwardStep, BufferSendStep DEF Receive
<1>2. CASE UNCHANGED vars
  BY <1>2
  DEF IInv, vars, comm, lists, local, grad, TypeOK, Local, InFlight, Progress, Requests, Saved, SavedCount,
      Unsaved, Current, Losses, Sync, Reduced, Hooked, TakenForward, TakenBackward, GotForward,
      GotBackward, ForwardTurn, BackwardTurn, NumWarmup, NumRemaining, LastIteration, Run
<1>. QED BY <1>1, <1>2 DEF Next, Finished

(* The strengthening of the safety properties is an invariant of the       *)
(* schedule, whatever P and M and whatever the ranks do in between.        *)
THEOREM Invariant == Spec => []IInv
BY InitIInv, NextIInv, PTL DEF Spec

-------------------------------------------------------------------------------
(* What the invariant says                                                 *)

(* Every variable keeps its type.                                          *)
THEOREM TypeCorrect == Spec => []TypeOK
<1>1. IInv => TypeOK
  BY DEF IInv
<1>. QED BY <1>1, Invariant, PTL

(* No stage ever combines two microbatches (forward_step, backward_step    *)
(* and the FIFO pairing of saved and received tensors in schedules.py).    *)
THEOREM NeverMixing == Spec => []NoMixing
<1>1. ASSUME IInv, NEW r \in Stage
      PROVE  /\ output_tensor[r] # Mixed
             /\ \A n \in 1 .. Len(bwdChan[r]) : bwdChan[r][n] # Mixed
             /\ \A n \in 1 .. Len(forward_data_store[r]) : forward_data_store[r][n] = n - 1
  <2>0. TypeOK /\ Current(r) /\ Losses(r) /\ InFlight(r)
    BY <1>1 DEF IInv, Local
  <2>1. output_tensor[r] # Mixed
    BY <2>0 DEF Current
  <2>2. ASSUME NEW n \in 1 .. Len(bwdChan[r]) PROVE bwdChan[r][n] # Mixed
    <3>1. CASE IsFirst(r)
      BY <2>0, <2>2, <3>1 DEF InFlight
    <3>2. CASE ~IsFirst(r)
      <4>1. r - 1 \in Stage
        BY <3>2, Neighbours
      <4>2. TakenBackward(r - 1) \in Nat
        <5>1. bwd[r - 1] \in 0 .. M
          BY <2>0, <4>1, Typed
        <5>. QED BY <5>1 DEF TakenBackward
      <4>3. Run(bwdChan[r], TakenBackward(r - 1), bwd[r] - TakenBackward(r - 1))
        BY <2>0, <3>2 DEF InFlight
      <4>4. Len(bwdChan[r]) \in Nat
        BY <2>0 DEF TypeOK
      <4>5. bwdChan[r][n] = TakenBackward(r - 1) + n - 1 /\ n \in Nat /\ n > 0
        BY <2>2, <4>3, <4>4 DEF Run
      <4>. QED BY <4>2, <4>5, TensorAssumption
    <3>. QED BY <3>1, <3>2
  <2>3. \A n \in 1 .. Len(forward_data_store[r]) : forward_data_store[r][n] = n - 1
    BY <2>0 DEF Losses, Run, TypeOK
  <2>. QED BY <2>1, <2>2, <2>3
<1>2. IInv => NoMixing
  BY <1>1 DEF NoMixing
<1>. QED BY <1>2, Invariant, PTL

(* The memory bound of 1F1B: a stage holds the activations of at most      *)
(* max_outstanding_backprops microbatches.                                 *)
THEOREM BoundedBackprops == Spec => []OutstandingBackprops
<1>1. ASSUME IInv, ~ForwardOnly, NEW r \in Stage
      PROVE  fwd[r] - bwd[r] <= NumWarmup(r) + 1
  <2>1. TypeOK /\ Progress(r)
    BY <1>1 DEF IInv, Local
  <2>2. /\ fwd[r] \in Nat /\ bwd[r] \in Nat /\ i[r] \in Nat /\ NumWarmup(r) \in Nat
        /\ NumRemaining(r) \in Nat /\ NumWarmup(r) + NumRemaining(r) = M
    BY <2>1, Counts, MAssumption DEF TypeOK
  <2>. QED BY <1>1, <2>1, <2>2 DEF Progress, LastIteration
<1>2. IInv => OutstandingBackprops
  BY <1>1 DEF OutstandingBackprops
<1>. QED BY <1>2, Invariant, PTL

(* Each rank reduces its gradients once, after the last microbatch has     *)
(* been added to them (no_sync_func, enable_grad_sync, grad_sync_func).    *)
THEOREM ReducedOnce == Spec => []GradsReducedOnce
<1>1. ASSUME IInv, NEW r \in Stage
      PROVE  /\ launches[r] # <<>> => launches[r] = <<M>>
             /\ phase[r] = "done" /\ ~ForwardOnly => launches[r] = <<M>>
  <2>1. TypeOK /\ Progress(r) /\ Sync(r)
    BY <1>1 DEF IInv, Local
  <2>. QED BY <1>1, <2>1 DEF Progress, Sync, Reduced
<1>2. IInv => GradsReducedOnce
  BY <1>1 DEF GradsReducedOnce
<1>. QED BY <1>2, Invariant, PTL

(* When the schedule returns, every microbatch has run both passes, every  *)
(* saved tensor has been used and nothing is left between the ranks.       *)
THEOREM FinishesClean == Spec => []CleanFinish
<1>1. ASSUME IInv, NEW r \in Stage, phase[r] = "done"
      PROVE  /\ fwd[r] = M
             /\ bwd[r] = IF ForwardOnly THEN 0 ELSE M
             /\ input_tensors[r] = <<>> /\ output_tensors[r] = <<>>
             /\ IsLast(r) => Len(forward_data_store[r]) = M
             /\ call[r] = "none"
  <2>0. TypeOK /\ Progress(r) /\ Saved(r) /\ Losses(r)
    BY <1>1 DEF IInv, Local
  <2>1. fwd[r] = M /\ call[r] = "none" /\ bwd[r] = IF ForwardOnly THEN 0 ELSE M
    BY <1>1, <2>0 DEF Progress
  <2>2. Len(input_tensors[r]) = 0 /\ Len(output_tensors[r]) = 0
    BY <2>0, <2>1, MAssumption DEF Saved, SavedCount, Unsaved, Run
  <2>3. input_tensors[r] = <<>> /\ output_tensors[r] = <<>>
    BY <2>0, <2>2 DEF TypeOK
  <2>. QED BY <2>0, <2>1, <2>3 DEF Losses, Run
<1>2. ASSUME IInv, AllDone, NEW r \in Stage PROVE fwdChan[r] = <<>> /\ bwdChan[r] = <<>>
  <2>0. TypeOK /\ InFlight(r)
    BY <1>2 DEF IInv
  <2>1. \A s \in Stage : TakenForward(s) = M /\ TakenBackward(s) = IF ForwardOnly THEN 0 ELSE M
    BY <1>1, <1>2
    DEF AllDone, TakenForward, TakenBackward, GotForward, GotBackward, ForwardTurn, BackwardTurn
  <2>2. fwd[r] = M /\ bwd[r] = IF ForwardOnly THEN 0 ELSE M
    BY <1>1, <1>2 DEF AllDone
  <2>3. fwdChan[r] = <<>>
    <3>1. CASE ~IsLast(r)
      <4>1. Len(fwdChan[r]) = 0
        BY <2>0, <2>1, <2>2, <3>1, Neighbours, MAssumption DEF InFlight, Run
      <4>. QED BY <2>0, <4>1 DEF TypeOK
    <3>. QED BY <2>0, <3>1 DEF InFlight
  <2>4. bwdChan[r] = <<>>
    <3>1. CASE ~IsFirst(r)
      <4>1. Len(bwdChan[r]) = 0
        BY <2>0, <2>1, <2>2, <3>1, Neighbours, MAssumption DEF InFlight, Run
      <4>. QED BY <2>0, <4>1 DEF TypeOK
    <3>. QED BY <2>0, <3>1 DEF InFlight
  <2>. QED BY <2>3, <2>4
<1>3. IInv => CleanFinish
  BY <1>1, <1>2 DEF CleanFinish
<1>. QED BY <1>3, Invariant, PTL

-------------------------------------------------------------------------------
(* The abstract pipeline                                                   *)

(* What has been received had been computed by the neighbour.              *)
LEMMA Ahead ==
  ASSUME IInv, NEW r \in Stage
  PROVE  /\ GotForward(r) /\ ~IsFirst(r) => fwd[r] < fwd[r - 1]
         /\ GotBackward(r) /\ ~IsLast(r) => bwd[r] < bwd[r + 1]
<1>0. TypeOK /\ \A s \in Stage : InFlight(s)
  BY DEF IInv
<1>1. ASSUME GotForward(r), ~IsFirst(r) PROVE fwd[r] < fwd[r - 1]
  <2>1. r - 1 \in Stage /\ ~IsLast(r - 1) /\ (r - 1) + 1 = r
    BY <1>1, Neighbours
  <2>2. fwd[r - 1] - TakenForward(r) = Len(fwdChan[r - 1])
    BY <1>0, <2>1 DEF InFlight, Run
  <2>3. Len(fwdChan[r - 1]) \in Nat /\ fwd[r - 1] \in Nat /\ fwd[r] \in Nat /\ TakenForward(r) = fwd[r] + 1
    BY <1>0, <1>1, <2>1 DEF TypeOK, TakenForward
  <2>. QED BY <2>2, <2>3
<1>2. ASSUME GotBackward(r), ~IsLast(r) PROVE bwd[r] < bwd[r + 1]
  <2>1. r + 1 \in Stage /\ ~IsFirst(r + 1) /\ (r + 1) - 1 = r
    BY <1>2, Neighbours
  <2>2. bwd[r + 1] - TakenBackward(r) = Len(bwdChan[r + 1])
    BY <1>0, <2>1 DEF InFlight, Run
  <2>3. Len(bwdChan[r + 1]) \in Nat /\ bwd[r + 1] \in Nat /\ bwd[r] \in Nat /\ TakenBackward(r) = bwd[r] + 1
    BY <1>0, <1>2, <2>1 DEF TypeOK, TakenBackward
  <2>. QED BY <2>2, <2>3
<1>. QED BY <1>1, <1>2

LEMMA OrderForward ==
  ASSUME IInv, NEW r \in Stage, WarmupForward(r) \/ SteadyForward(r)
  PROVE  Order!Forward(r)
<1>0. TypeOK /\ Progress(r) /\ (WarmupForward(r) \/ SteadyForward(r))
  BY DEF IInv, Local
<1>1. GotForward(r)
  BY <1>0 DEF WarmupForward, SteadyForward, Returned, GotForward, ForwardTurn
<1>2. /\ fwd[r] \in Nat /\ bwd[r] \in Nat /\ i[r] \in Nat /\ NumWarmup(r) \in Nat
      /\ NumRemaining(r) \in Nat /\ NumWarmup(r) + NumRemaining(r) = M
  BY <1>0, Counts, MAssumption DEF TypeOK
<1>3. fwd[r] < M
  BY <1>0, <1>1, <1>2 DEF Progress, GotForward, ForwardTurn
<1>4. fwd' = [fwd EXCEPT ![r] = @ + 1] /\ bwd' = bwd
  BY <1>0 DEF WarmupForward, SteadyForward, ForwardStep, grad
<1>. QED BY <1>1, <1>3, <1>4, Ahead DEF Order!Forward, IsFirst

LEMMA OrderBackward ==
  ASSUME IInv, NEW r \in Stage, SteadyBackward(r) \/ CooldownBackward(r)
  PROVE  Order!Backward(r)
<1>0. TypeOK /\ Progress(r) /\ (SteadyBackward(r) \/ CooldownBackward(r))
  BY DEF IInv, Local
<1>1. GotBackward(r)
  BY <1>0 DEF SteadyBackward, CooldownBackward, Returned, GotBackward, BackwardTurn
<1>2. ~ForwardOnly /\ bwd[r] < fwd[r]
  BY <1>0, <1>1, Typed, Counts, MAssumption DEF Progress, GotBackward, BackwardTurn, ForwardTurn
<1>3. bwd' = [bwd EXCEPT ![r] = @ + 1] /\ fwd' = fwd
  BY <1>0 DEF SteadyBackward, CooldownBackward, BackwardStep
<1>. QED BY <1>1, <1>2, <1>3, Ahead DEF Order!Backward, IsLast

LEMMA OrderStutter ==
  ASSUME NEW r \in Stage,
         \/ Start(r) \/ WarmupNext(r) \/ SteadyNext(r) \/ CooldownNext(r)
         \/ Receive(r) \/ BufferSend(r)
  PROVE  UNCHANGED <<fwd, bwd>>
BY DEF Start, WarmupNext, SteadyNext, CooldownNext, EnterWarmup, EnterCooldown, Finish,
       Receive, ReceiveForward, ReceiveBackward, BufferSend, grad

(* The schedule implements the pipeline order of PipelineOrder: a stage    *)
(* never runs a pass of a microbatch before the stage it depends on has.   *)
THEOREM Refinement == Spec => ImplementsOrder
<1>1. Init => Order!Init
  BY DEF Init, Order!Init, Order!VStage, Stage
<1>2. IInv /\ [Next]_vars => [Order!Next]_(Order!vars)
  <2>. SUFFICES ASSUME IInv, [Next]_vars PROVE [Order!Next]_(Order!vars)
    OBVIOUS
  <2>1. ASSUME NEW r \in Stage, Step(r) \/ Receive(r) \/ BufferSend(r)
        PROVE  Order!Forward(r) \/ Order!Backward(r) \/ UNCHANGED <<fwd, bwd>>
    BY <2>1, OrderForward, OrderBackward, OrderStutter DEF Step
  <2>2. UNCHANGED vars => UNCHANGED <<fwd, bwd>>
    BY DEF vars, grad
  <2>. QED BY <2>1, <2>2 DEF Next, Finished, Order!Next, Order!vars, Order!VStage, Stage
<1>. QED BY <1>1, <1>2, Invariant, PTL DEF Spec, ImplementsOrder, Order!Spec

-------------------------------------------------------------------------------
(* Waiting                                                                       *)

(* A rank waits only for a send whose tensor it has put in the pipe, in    *)
(* the exchange after the step that made it, and to a neighbour it has.    *)
AfterForward  == {"send_forward", "send_forward_recv_backward"}
AfterBackward == {"send_backward", "send_backward_recv_forward"}
Posted(r) ==
  /\ "send_next" \in reqs[r] => ~IsLast(r) /\ call[r] \in AfterForward /\ fwdChan[r] # <<>>
  /\ "send_prev" \in reqs[r] => ~IsFirst(r) /\ call[r] \in AfterBackward /\ bwdChan[r] # <<>>

WaitInv == IInv /\ \A r \in Stage : Posted(r)

(* Every call of _communicate posts what it waits for.                     *)
Posts(r, name, a, b, recvs) ==
  /\ Communicate(r, name, a, b, recvs)
  /\ recvs \subseteq {"recv_prev", "recv_next"}
  /\ a # None => ~IsLast(r) /\ name \in AfterForward
  /\ b # None => ~IsFirst(r) /\ name \in AfterBackward

LEMMA AppendNotEmpty ==
  ASSUME NEW T, NEW s \in Seq(T), NEW x
  PROVE  Append(s, x) # <<>>
<1>1. s \in Seq(T \cup {x}) /\ x \in T \cup {x}
  OBVIOUS
<1>2. Len(Append(s, x)) = Len(s) + 1 /\ Len(s) \in Nat
  BY <1>1
<1>. QED BY <1>2

LEMMA PostsPosted ==
  ASSUME TypeOK, NEW r \in Stage, \A s \in Stage : Posted(s),
         NEW name, NEW a, NEW b, NEW recvs, Posts(r, name, a, b, recvs)
  PROVE  \A s \in Stage : Posted(s)'
<1>0. /\ call \in [Stage -> Call] /\ reqs \in [Stage -> SUBSET Request]
      /\ fwdChan \in [Stage -> Seq(Tensor)] /\ bwdChan \in [Stage -> Seq(Tensor)]
  BY DEF TypeOK
<1>1. /\ call'[r] = name
      /\ "send_next" \in reqs'[r] => a # None
      /\ "send_prev" \in reqs'[r] => b # None
      /\ \A s \in Stage \ {r} : call'[s] = call[s] /\ reqs'[s] = reqs[s]
  BY <1>0 DEF Posts, Communicate
<1>2. /\ a # None => fwdChan'[r] # <<>>
      /\ \A s \in Stage \ {r} : fwdChan'[s] = fwdChan[s]
  BY <1>0, AppendNotEmpty DEF Posts, Communicate
<1>3. /\ b # None => bwdChan'[r] # <<>>
      /\ \A s \in Stage \ {r} : bwdChan'[s] = bwdChan[s]
  BY <1>0, AppendNotEmpty DEF Posts, Communicate
<1>4. Posted(r)'
  BY <1>1, <1>2, <1>3 DEF Posts, Posted, IsLast, IsFirst
<1>5. \A s \in Stage \ {r} : Posted(s)'
  BY <1>1, <1>2, <1>3 DEF Posted, IsLast, IsFirst
<1>. QED BY <1>4, <1>5

(* A rank that returns from the schedule waits for nothing.                *)
Leaves(r) ==
  /\ UNCHANGED comm /\ call' = [call EXCEPT ![r] = "none"]
  /\ reqs[r] = {} \/ call[r] = "none"

LEMMA LeavesPosted ==
  ASSUME TypeOK, NEW r \in Stage, \A s \in Stage : Posted(s), Leaves(r)
  PROVE  \A s \in Stage : Posted(s)'
<1>1. call \in [Stage -> Call]
  BY DEF TypeOK
<1>2. "send_next" \notin reqs[r] /\ "send_prev" \notin reqs[r]
  BY DEF Leaves, Posted, AfterForward, AfterBackward
<1>. QED BY <1>1, <1>2 DEF Leaves, comm, Posted, IsLast, IsFirst

LEMMA CallPosts ==
  ASSUME NEW r \in Stage
  PROVE  /\ RecvForward(r) => Posts(r, "recv_forward", None, None, RecvPrev(r))
         /\ RecvBackward(r) => Posts(r, "recv_backward", None, None, RecvNext(r))
         /\ \A t :
              /\ SendForward(r, t) => Posts(r, "send_forward", ToNext(r, t), None, {})
              /\ SendBackward(r, t) => Posts(r, "send_backward", None, ToPrev(r, t), {})
              /\ SendForwardRecvBackward(r, t) =>
                   Posts(r, "send_forward_recv_backward", ToNext(r, t), None, RecvNext(r))
              /\ SendBackwardRecvForward(r, t) =>
                   Posts(r, "send_backward_recv_forward", None, ToPrev(r, t), RecvPrev(r))
<1>1. /\ RecvPrev(r) \subseteq {"recv_prev", "recv_next"}
      /\ RecvNext(r) \subseteq {"recv_prev", "recv_next"}
  BY DEF RecvPrev, RecvNext
<1>2. \A t : /\ ToNext(r, t) # None => ~IsLast(r)
             /\ ToPrev(r, t) # None => ~IsFirst(r)
  BY DEF ToNext, ToPrev
<1>. QED BY <1>1, <1>2 DEF Posts, AfterForward, AfterBackward, RecvForward, RecvBackward,
       SendForward, SendBackward, SendForwardRecvBackward, SendBackwardRecvForward

LEMMA EnterPosts ==
  ASSUME NEW r \in Stage, NEW k, reqs[r] = {} \/ call[r] = "none",
         EnterWarmup(r, k) \/ EnterCooldown(r, k)
  PROVE  \/ RecvForward(r) \/ RecvBackward(r) \/ Leaves(r)
BY DEF EnterWarmup, EnterCooldown, Finish, Leaves

LEMMA StepPosted ==
  ASSUME IInv, NEW r \in Stage, \A s \in Stage : Posted(s), Step(r)
  PROVE  \A s \in Stage : Posted(s)'
<1>1. TypeOK /\ Progress(r)
  BY DEF IInv, Local
<1>2. \/ RecvForward(r) \/ RecvBackward(r) \/ Leaves(r)
      \/ \E t : \/ SendForward(r, t) \/ SendBackward(r, t)
                \/ SendForwardRecvBackward(r, t) \/ SendBackwardRecvForward(r, t)
  <2>1. CASE Start(r)
    <3>1. call[r] = "none"
      BY <1>1, <2>1 DEF Start, Progress
    <3>. QED BY <2>1, <3>1, EnterPosts DEF Start
  <2>2. CASE WarmupForward(r) \/ SteadyForward(r)
    BY <2>2 DEF WarmupForward, SteadyForward
  <2>3. CASE SteadyBackward(r) \/ CooldownBackward(r)
    BY <2>3 DEF SteadyBackward, CooldownBackward
  <2>4. CASE WarmupNext(r) \/ SteadyNext(r) \/ CooldownNext(r)
    BY <2>4, EnterPosts DEF WarmupNext, SteadyNext, CooldownNext, Returned
  <2>. QED BY <2>1, <2>2, <2>3, <2>4 DEF Step
<1>. QED BY <1>1, <1>2, CallPosts, PostsPosted, LeavesPosted

LEMMA TailNotEmpty ==
  ASSUME NEW T, NEW s \in Seq(T), s # <<>>, Len(s) # 1
  PROVE  Tail(s) # <<>>
<1>1. Len(s) \in Nat /\ Len(s) # 0
  OBVIOUS
<1>2. Len(Tail(s)) = Len(s) - 1
  OBVIOUS
<1>3. Len(Tail(s)) # Len(<<>>)
  <2>1. Len(<<>>) = 0
    OBVIOUS
  <2>2. Len(Tail(s)) # 0
    BY <1>1, <1>2
  <2>. QED BY <2>1, <2>2
<1>. QED BY <1>3

LEMMA ReceivePosted ==
  ASSUME IInv, NEW r \in Stage, \A s \in Stage : Posted(s), Receive(r) \/ BufferSend(r)
  PROVE  \A s \in Stage : Posted(s)'
<1>0. TypeOK /\ Requests(r)
  BY DEF IInv, Local
<1>1. /\ call \in [Stage -> Call] /\ reqs \in [Stage -> SUBSET Request]
      /\ fwdChan \in [Stage -> Seq(Tensor)] /\ bwdChan \in [Stage -> Seq(Tensor)]
  BY <1>0 DEF TypeOK
<1>2. CASE ReceiveForward(r)
  <2>1. r - 1 \in Stage /\ r - 1 # r
    BY <1>0, <1>2, Neighbours DEF ReceiveForward, Requests
  <2>2. /\ call' = call /\ bwdChan' = bwdChan
        /\ \A s \in Stage : reqs'[s] \subseteq reqs[s]
        /\ Len(fwdChan[r - 1]) = 1 => "send_next" \notin reqs'[r - 1]
    BY <1>1, <1>2, <2>1 DEF ReceiveForward
  <2>3. /\ fwdChan'[r - 1] = Tail(fwdChan[r - 1]) /\ fwdChan[r - 1] # <<>>
        /\ \A s \in Stage \ {r - 1} : fwdChan'[s] = fwdChan[s]
    BY <1>1, <1>2, <2>1 DEF ReceiveForward
  <2>4. "send_next" \in reqs'[r - 1] => fwdChan'[r - 1] # <<>>
    BY <1>1, <2>1, <2>2, <2>3, TailNotEmpty
  <2>. QED BY <2>1, <2>2, <2>3, <2>4 DEF Posted, IsLast, IsFirst
<1>3. CASE ReceiveBackward(r)
  <2>1. r + 1 \in Stage /\ r + 1 # r
    BY <1>0, <1>3, Neighbours DEF ReceiveBackward, Requests
  <2>2. /\ call' = call /\ fwdChan' = fwdChan
        /\ \A s \in Stage : reqs'[s] \subseteq reqs[s]
        /\ Len(bwdChan[r + 1]) = 1 => "send_prev" \notin reqs'[r + 1]
    BY <1>1, <1>3, <2>1 DEF ReceiveBackward
  <2>3. /\ bwdChan'[r + 1] = Tail(bwdChan[r + 1]) /\ bwdChan[r + 1] # <<>>
        /\ \A s \in Stage \ {r + 1} : bwdChan'[s] = bwdChan[s]
    BY <1>1, <1>3, <2>1 DEF ReceiveBackward
  <2>4. "send_prev" \in reqs'[r + 1] => bwdChan'[r + 1] # <<>>
    BY <1>1, <2>1, <2>2, <2>3, TailNotEmpty
  <2>. QED BY <2>1, <2>2, <2>3, <2>4 DEF Posted, IsLast, IsFirst
<1>4. CASE BufferSend(r)
  <2>1. /\ call' = call /\ fwdChan' = fwdChan /\ bwdChan' = bwdChan
        /\ \A s \in Stage : reqs'[s] \subseteq reqs[s]
    BY <1>1, <1>4 DEF BufferSend
  <2>. QED BY <2>1 DEF Posted, IsLast, IsFirst
<1>. QED BY <1>2, <1>3, <1>4 DEF Receive

LEMMA WaitInvariant == Spec => []WaitInv
<1>1. Init => WaitInv
  <2>1. Init => \A r \in Stage : Posted(r)
    BY DEF Init, Posted
  <2>. QED BY <2>1, InitIInv DEF WaitInv
<1>2. WaitInv /\ [Next]_vars => WaitInv'
  <2>. SUFFICES ASSUME WaitInv, [Next]_vars PROVE WaitInv'
    OBVIOUS
  <2>1. IInv' /\ IInv /\ \A s \in Stage : Posted(s)
    BY NextIInv DEF WaitInv
  <2>2. CASE \E r \in Stage : Step(r) \/ Receive(r) \/ BufferSend(r)
    BY <2>1, <2>2, StepPosted, ReceivePosted DEF WaitInv
  <2>3. CASE UNCHANGED vars
    BY <2>1, <2>3 DEF WaitInv, vars, comm, Posted, IsLast, IsFirst
  <2>. QED BY <2>2, <2>3 DEF Next, Finished
<1>. QED BY <1>1, <1>2, PTL DEF Spec

-------------------------------------------------------------------------------
(* Nobody is ready                                                         *)

Stuck == \A r \in Stage : ~RankReady(r) /\ ~TensorReady(r)

(* What a rank waits for from the previous and from the next one.          *)
WaitsPrev(r) == {"recv_prev", "send_prev"} \cap reqs[r] # {}
WaitsNext(r) == {"recv_next", "send_next"} \cap reqs[r] # {}

LEMMA StuckWaits ==
  ASSUME WaitInv, Stuck, NEW r \in Stage, phase[r] # "done"
  PROVE  WaitsPrev(r) \/ WaitsNext(r)
<1>1. reqs[r] \in SUBSET Request /\ reqs[r] # {}
  BY DEF WaitInv, IInv, TypeOK, Stuck, RankReady
<1>. QED BY <1>1 DEF Request, WaitsPrev, WaitsNext

(* The numbers behind the wait of a rank for an activation of the previous *)
(* one, or for its own gradient to be taken there.                         *)
LEMMA PrevCounts ==
  ASSUME WaitInv, Stuck, NEW r \in Stage, WaitsPrev(r)
  PROVE  /\ ~IsFirst(r) /\ r - 1 \in Stage
         /\ \/ /\ ForwardTurn(r) /\ "recv_prev" \in reqs[r]
               /\ fwd[r - 1] = fwd[r] /\ fwdChan[r - 1] = <<>>
            \/ /\ call[r] \in AfterBackward /\ "recv_prev" \notin reqs[r]
               /\ TakenBackward(r - 1) < bwd[r] /\ bwdChan[r] # <<>>
<1>0. TypeOK /\ Requests(r) /\ Posted(r) /\ \A s \in Stage : InFlight(s)
  BY DEF WaitInv, IInv, Local
<1>1. ~IsFirst(r) /\ r - 1 \in Stage /\ ~IsLast(r - 1) /\ (r - 1) + 1 = r
  BY <1>0, Neighbours DEF WaitsPrev, Requests, Posted
<1>2. /\ fwdChan[r - 1] \in Seq(Tensor) /\ bwdChan[r] \in Seq(Tensor)
      /\ fwd[r - 1] \in Nat /\ fwd[r] \in Nat /\ bwd[r] \in Nat /\ bwd[r - 1] \in Nat
  BY <1>0, <1>1, Typed
<1>3. CASE "recv_prev" \in reqs[r]
  <2>1. fwdChan[r - 1] = <<>> /\ ForwardTurn(r)
    BY <1>0, <1>3 DEF Stuck, TensorReady, Requests
  <2>2. TakenForward(r) = fwd[r]
    BY <1>3 DEF TakenForward, GotForward
  <2>3. fwd[r - 1] - TakenForward(r) = 0
    BY <1>0, <1>1, <2>1 DEF InFlight, Run
  <2>. QED BY <1>1, <1>2, <1>3, <2>1, <2>2, <2>3
<1>4. CASE "recv_prev" \notin reqs[r]
  <2>1. call[r] \in AfterBackward /\ bwdChan[r] # <<>>
    BY <1>0, <1>4 DEF WaitsPrev, Posted
  <2>2. Len(bwdChan[r]) \in Nat /\ Len(bwdChan[r]) # 0
    BY <1>2, <2>1
  <2>3. bwd[r] - TakenBackward(r - 1) = Len(bwdChan[r])
    BY <1>0, <1>1 DEF InFlight, Run
  <2>4. TakenBackward(r - 1) \in Nat
    BY <1>2 DEF TakenBackward
  <2>. QED BY <1>1, <1>2, <1>4, <2>1, <2>2, <2>3, <2>4
<1>. QED BY <1>3, <1>4

(* And for the next one.                                                   *)
LEMMA NextCounts ==
  ASSUME WaitInv, Stuck, NEW r \in Stage, WaitsNext(r)
  PROVE  /\ ~IsLast(r) /\ r + 1 \in Stage
         /\ \/ /\ BackwardTurn(r) /\ "recv_next" \in reqs[r]
               /\ bwd[r + 1] = bwd[r] /\ bwdChan[r + 1] = <<>>
            \/ /\ call[r] \in AfterForward /\ "recv_next" \notin reqs[r]
               /\ TakenForward(r + 1) < fwd[r] /\ fwdChan[r] # <<>>
<1>0. TypeOK /\ Requests(r) /\ Posted(r) /\ \A s \in Stage : InFlight(s)
  BY DEF WaitInv, IInv, Local
<1>1. ~IsLast(r) /\ r + 1 \in Stage /\ ~IsFirst(r + 1) /\ (r + 1) - 1 = r
  BY <1>0, Neighbours DEF WaitsNext, Requests, Posted
<1>2. /\ bwdChan[r + 1] \in Seq(Tensor) /\ fwdChan[r] \in Seq(Tensor)
      /\ bwd[r + 1] \in Nat /\ bwd[r] \in Nat /\ fwd[r] \in Nat /\ fwd[r + 1] \in Nat
  BY <1>0, <1>1, Typed
<1>3. CASE "recv_next" \in reqs[r]
  <2>1. bwdChan[r + 1] = <<>> /\ BackwardTurn(r)
    BY <1>0, <1>3 DEF Stuck, TensorReady, Requests
  <2>2. TakenBackward(r) = bwd[r]
    BY <1>3 DEF TakenBackward, GotBackward
  <2>3. bwd[r + 1] - TakenBackward(r) = 0
    BY <1>0, <1>1, <2>1 DEF InFlight, Run
  <2>. QED BY <1>1, <1>2, <1>3, <2>1, <2>2, <2>3
<1>4. CASE "recv_next" \notin reqs[r]
  <2>1. call[r] \in AfterForward /\ fwdChan[r] # <<>>
    BY <1>0, <1>4 DEF WaitsNext, Posted
  <2>2. Len(fwdChan[r]) \in Nat /\ Len(fwdChan[r]) # 0
    BY <1>2, <2>1
  <2>3. fwd[r] - TakenForward(r + 1) = Len(fwdChan[r])
    BY <1>0, <1>1 DEF InFlight, Run
  <2>4. TakenForward(r + 1) \in Nat
    BY <1>2 DEF TakenForward
  <2>. QED BY <1>1, <1>2, <1>4, <2>1, <2>2, <2>3, <2>4
<1>. QED BY <1>3, <1>4

(* A rank never waits for one that has finished.                           *)
LEMMA WaitsForRunning ==
  ASSUME WaitInv, Stuck, NEW r \in Stage
  PROVE  /\ WaitsPrev(r) => phase[r - 1] # "done"
         /\ WaitsNext(r) => phase[r + 1] # "done"
<1>0. TypeOK /\ \A s \in Stage : Progress(s)
  BY DEF WaitInv, IInv, Local
<1>1. /\ fwd[r] \in 0 .. M /\ bwd[r] \in 0 .. M /\ i[r] \in 0 .. M
      /\ NumWarmup(r) \in 0 .. M /\ NumRemaining(r) \in 0 .. M
      /\ NumWarmup(r) + NumRemaining(r) = M
  BY <1>0, Typed, Counts
<1>2. /\ ForwardTurn(r) => fwd[r] < M
      /\ BackwardTurn(r) => bwd[r] < M /\ ~ForwardOnly
      /\ call[r] \in AfterBackward => ~ForwardOnly
  BY <1>0, <1>1, MAssumption
  DEF Progress, ForwardTurn, BackwardTurn, AfterBackward, LastIteration
<1>3. ASSUME NEW s \in Stage, phase[s] = "done"
      PROVE  /\ fwd[s] = M /\ TakenForward(s) = M
             /\ ~ForwardOnly => bwd[s] = M /\ TakenBackward(s) = M
  BY <1>0, <1>3
  DEF Progress, TakenForward, TakenBackward, GotForward, GotBackward, ForwardTurn, BackwardTurn
<1>4. ASSUME WaitsPrev(r), phase[r - 1] = "done" PROVE FALSE
  BY <1>1, <1>2, <1>3, <1>4, PrevCounts, MAssumption
<1>5. ASSUME WaitsNext(r), phase[r + 1] = "done" PROVE FALSE
  BY <1>1, <1>2, <1>3, <1>5, NextCounts, MAssumption
<1>. QED BY <1>4, <1>5

(* Two neighbours never wait for each other: what one of them waits for    *)
(* is in the pipe, or it is one microbatch behind the other's window.      *)
LEMMA NoMutualWait ==
  ASSUME WaitInv, Stuck, NEW r \in Stage, r + 1 \in Stage, WaitsNext(r), WaitsPrev(r + 1)
  PROVE  FALSE
<1>. DEFINE s == r + 1
<1>0. TypeOK /\ Progress(r) /\ Progress(s) /\ s \in Stage /\ s - 1 = r
  BY DEF WaitInv, IInv, Local, Stage
<1>1. /\ fwd[r] \in 0 .. M /\ bwd[r] \in 0 .. M /\ i[r] \in 0 .. M
      /\ fwd[s] \in 0 .. M /\ bwd[s] \in 0 .. M /\ i[s] \in 0 .. M
  BY <1>0, Typed
<1>2. /\ NumWarmup(r) \in 0 .. M /\ NumRemaining(r) \in 0 .. M
      /\ NumWarmup(s) \in 0 .. M /\ NumRemaining(s) \in 0 .. M
      /\ NumWarmup(r) + NumRemaining(r) = M /\ NumWarmup(s) + NumRemaining(s) = M
      /\ NumWarmup(s) <= NumWarmup(r) /\ NumWarmup(r) <= NumWarmup(s) + 1
  <2>1. NumWarmup(s) <= NumWarmup(r) /\ NumWarmup(r) <= NumWarmup(s) + 1
    BY <1>0, PAssumption, MAssumption DEF NumWarmup, Stage
  <2>. QED BY <1>0, <2>1, Counts
<1>3. \/ /\ BackwardTurn(r) /\ "recv_next" \in reqs[r]
         /\ bwd[s] = bwd[r] /\ bwdChan[s] = <<>>
      \/ /\ call[r] \in AfterForward /\ "recv_next" \notin reqs[r]
         /\ TakenForward(s) < fwd[r] /\ fwdChan[r] # <<>>
  BY NextCounts
<1>4. \/ /\ ForwardTurn(s) /\ "recv_prev" \in reqs[s]
         /\ fwd[r] = fwd[s] /\ fwdChan[r] = <<>>
      \/ /\ call[s] \in AfterBackward /\ "recv_prev" \notin reqs[s]
         /\ TakenBackward(r) < bwd[s] /\ bwdChan[s] # <<>>
  BY <1>0, PrevCounts
<1>. HIDE DEF s
<1>5. CASE BackwardTurn(r) /\ ForwardTurn(s) /\ bwd[s] = bwd[r] /\ fwd[r] = fwd[s]
  <2>1. fwd[r] = M \/ fwd[r] - bwd[r] = NumWarmup(r) + 1
    BY <1>0, <1>1, <1>2, <1>5 DEF Progress, BackwardTurn, ForwardTurn
  <2>2. fwd[s] < M /\ fwd[s] - bwd[s] <= NumWarmup(s)
    BY <1>0, <1>1, <1>2, <1>5, MAssumption DEF Progress, BackwardTurn, ForwardTurn
  <2>. QED BY <1>1, <1>2, <1>5, <2>1, <2>2
<1>6. CASE /\ call[r] \in AfterForward /\ "recv_next" \notin reqs[r] /\ TakenForward(s) < fwd[r]
           /\ call[s] \in AfterBackward /\ "recv_prev" \notin reqs[s] /\ TakenBackward(r) < bwd[s]
  <2>1. ~ForwardOnly
    BY <1>0, <1>6 DEF Progress, ForwardTurn, AfterBackward
  <2>2. TakenForward(s) = IF call[s] = "send_backward" THEN fwd[s] ELSE fwd[s] + 1
    BY <1>6 DEF TakenForward, GotForward, ForwardTurn, AfterBackward
  <2>3. TakenBackward(r) = IF call[r] = "send_forward" THEN bwd[r] ELSE bwd[r] + 1
    BY <1>6 DEF TakenBackward, GotBackward, BackwardTurn, AfterForward
  <2>4. \/ call[s] = "send_backward" /\ fwd[s] = M
        \/ call[s] = "send_backward_recv_forward" /\ fwd[s] - bwd[s] = NumWarmup(s)
    BY <1>0, <1>1, <1>2, <1>6, <2>1, MAssumption DEF Progress, ForwardTurn, AfterBackward
  <2>5. \/ call[r] = "send_forward" /\ bwd[r] = 0 /\ fwd[r] <= NumWarmup(r)
        \/ call[r] = "send_forward_recv_backward" /\ fwd[r] - bwd[r] = NumWarmup(r) + 1
    BY <1>0, <1>1, <1>2, <1>6, <2>1, MAssumption DEF Progress, ForwardTurn, AfterForward
  <2>6. CASE call[s] = "send_backward"
    BY <1>1, <1>6, <2>2, <2>4, <2>6, MAssumption
  <2>7. CASE call[s] = "send_backward_recv_forward"
    <3>1. fwd[s] + 1 < fwd[r] /\ fwd[s] - bwd[s] = NumWarmup(s)
      BY <1>6, <2>2, <2>4, <2>7
    <3>. QED BY <1>1, <1>2, <1>6, <2>3, <2>5, <3>1
  <2>. QED BY <1>6, <2>6, <2>7 DEF AfterBackward
<1>. QED BY <1>3, <1>4, <1>5, <1>6

LEMMA NeverStuck ==
  ASSUME WaitInv, ~AllDone, Stuck
  PROVE  FALSE
<1>. DEFINE Running == {r \in Stage : phase[r] # "done"}
            Right == {r \in Running : WaitsNext(r)}
<1>1. Running # {} /\ Running \in SUBSET Nat /\ Right \in SUBSET (0 .. P - 1) /\ P - 1 \in Nat
  BY PAssumption DEF AllDone, Stage
<1>2. \A r \in Running : /\ WaitsPrev(r) \/ WaitsNext(r)
                         /\ WaitsPrev(r) => r - 1 \in Running
                         /\ WaitsNext(r) => r + 1 \in Running
  <2>1. ASSUME NEW r \in Stage, phase[r] # "done"
        PROVE  /\ WaitsPrev(r) \/ WaitsNext(r)
               /\ WaitsPrev(r) => r - 1 \in Stage /\ phase[r - 1] # "done"
               /\ WaitsNext(r) => r + 1 \in Stage /\ phase[r + 1] # "done"
    BY <2>1, StuckWaits, PrevCounts, NextCounts, WaitsForRunning
  <2>. QED BY <2>1
<1>3. CASE Right = {}
  <2>. HIDE DEF Running, Right
  <2>1. PICK r \in Running : \A s \in Running : r <= s
    BY <1>1, Least
  <2>2. ~WaitsNext(r)
    BY <1>3 DEF Right
  <2>3. r - 1 \in Running
    BY <1>2, <2>2
  <2>. QED BY <1>1, <2>1, <2>3
<1>4. CASE Right # {}
  <2>. HIDE DEF Right
  <2>1. PICK r \in Right : \A s \in Right : s <= r
    BY <1>1, <1>4, Greatest
  <2>2. r \in Running /\ WaitsNext(r) /\ r \in Stage
    BY <2>1 DEF Right
  <2>3. r + 1 \in Running /\ r + 1 \notin Right
    BY <1>1, <1>2, <2>1, <2>2
  <2>4. r + 1 \in Stage /\ WaitsPrev(r + 1)
    BY <1>2, <2>3 DEF Right
  <2>. QED BY <2>2, <2>4, NoMutualWait
<1>. QED BY <1>3, <1>4

(* While the batch is not over, some rank can run or some posted receive   *)
(* has its tensor: the calls of the schedule, in their order on each rank, *)
(* never make the ranks wait for each other in a circle, whether or not    *)
(* the transport buffers what is sent.                                     *)
THEOREM NeverWaitInCircle == Spec => []NoCircularWait
<1>1. WaitInv => NoCircularWait
  BY NeverStuck DEF NoCircularWait, Stuck
<1>. QED BY <1>1, WaitInvariant, PTL
===============================================================================
