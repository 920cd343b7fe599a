------------------------------ MODULE Interleaved ------------------------------
(***************************************************************************)
(* The interleaved 1F1B pipeline schedule:                                 *)
(* forward_backward_pipelining_with_interleaving of                        *)
(* megatron/core/pipeline_parallel/schedules.py, in which each of the P    *)
(* ranks holds C model chunks, so that virtual stage c * P + r is chunk c  *)
(* of rank r and the pipeline goes C times around the ring of ranks.       *)
(*                                                                         *)
(* An action runs the code of a rank from one wait on p2p requests to the  *)
(* next.  A receive hands its buffer to the schedule before the data is    *)
(* there (that is what overlap_p2p_comm is for), so the lists of the       *)
(* schedule hold buffers: the number of the receive that fills them.  The  *)
(* transport is rendezvous: a send completes when its tensor is taken.     *)
(* Not modelled: param_sync_func (left at None, its default).              *)
(***************************************************************************)
EXTENDS Integers, Sequences, SequencesExt

CONSTANTS P,            \* pipeline-model-parallel world size
          C,            \* number of model chunks of a rank
          M,            \* num_microbatches
          ForwardOnly,  \* forward_only
          P2P,          \* "batched": batch_p2p_comm, "serial": neither flag,
                        \* "overlap": overlap_p2p_comm
          GradReduce,   \* "finalize", "overlap" (--overlap-grad-reduce) or
                        \* "delay" (and --delay-grad-reduce)
          None,         \* Python's None
          Mixed         \* a tensor computed from data that do not belong together

(* A tensor names its pass, the virtual stage that made it, its microbatch. *)
Act(v, m)  == <<"F", v, m>>
Grad(v, m) == <<"B", v, m>>
Computed == {"F", "B"} \X (0 .. P * C - 1) \X (0 .. M - 1)
Tensor == Computed \cup {Mixed}

(* initialize_model_parallel refuses P <= 2 with virtual stages, and the   *)
(* schedule itself a batch that is not a multiple of P.  None and Mixed    *)
(* are nothing else.                                                       *)
Configuration ==
  /\ {P, C, M} \subseteq Nat \ {0} /\ P > 2
  /\ M % P = 0
  /\ ForwardOnly \in BOOLEAN
  /\ P2P \in {"batched", "serial", "overlap"}
  /\ GradReduce \in {"finalize", "overlap", "delay"}
  /\ None \notin Nat \cup Tensor /\ Mixed \notin Computed

Rank  == 0 .. P - 1
Chunk == 0 .. C - 1
Total == M * C                  \* total_num_microbatches
VStage(r, c) == c * P + r

VARIABLES
  phase,                \* the loop of the schedule the rank is in
  k,                    \* its loop variable
  half,                 \* in a steady iteration with overlap: backward is next
  ops,                  \* ops[r][s]: p2p operations r has posted towards s
  gotF, gotB,           \* the tensors of the completed receives, in order
  askF, askB,           \* the number of receives posted
  input_tensors,        \* [r][c]: the lists of the schedule
  output_tensors,
  output_tensor_grads,
  output_tensor,        \* [r]: the output of the last forward step
  fwd, bwd,             \* [r][c]: microbatches run forward and backward
  clean,                \* [r]: every computation was on data that belong together
  losses,               \* [r]: forward_data_store
  in_sync,              \* [r]: synchronized_model_chunks
  launches              \* [r][c]: at each gradient reduction, the value of bwd

loop  == <<phase, k, half>>
lists == <<input_tensors, output_tensors, output_tensor_grads, output_tensor>>
got   == <<gotF, gotB>>
ask   == <<askF, askB>>
sync  == <<in_sync, launches>>
vars  == <<loop, ops, got, ask, lists, fwd, bwd, clean, losses, sync>>

-------------------------------------------------------------------------------
(* The arithmetic of the schedule                                          *)

AllWarmup == ~ForwardOnly /\ M = P
NumWarmup(r) ==
  LET n == (P - r - 1) * 2 + (C - 1) * P
  IN  IF ForwardOnly \/ M = P \/ n > Total THEN Total ELSE n
NumRemaining(r) == Total - NumWarmup(r)

(* get_model_chunk_id: the chunk of iteration n, which may be negative.    *)
ForwardChunk(n)  == (n % (P * C)) \div P
BackwardChunk(n) == C - ForwardChunk(n) - 1

(* is_last_microbatch_for_model_chunk                                      *)
IsLastForChunk(n) ==
  /\ n \div (P * C) = Total \div (P * C) - 1
  /\ (n % (P * C)) % P = P - 1

FirstRank(r) == r = 0
LastRank(r)  == r = P - 1
FirstStage(r, c) == FirstRank(r) /\ c = 0

LastStage(r, c)  == LastRank(r) /\ c = C - 1
NextRank(r) == (r + 1) % P
PrevRank(r) == (r - 1) % P

-------------------------------------------------------------------------------
(* p2p_communication.py                                                    *)

Send(d, t) == [kind |-> "send", dir |-> d, tensor |-> t]
Recv(d)    == [kind |-> "recv", dir |-> d, tensor |-> None]

(* _communicate: the operations of one call towards every peer, in the     *)
(* order in which _batched_p2p_ops or _p2p_ops post them.                  *)
Only(condition, op) == IF condition THEN <<op>> ELSE <<>>
Operations(r, send_next, send_prev, recv_prev, recv_next) ==
  [s \in Rank |->
    LET sn == Only(s = NextRank(r) /\ send_next # None, Send("F", send_next))
        sp == Only(s = PrevRank(r) /\ send_prev # None, Send("B", send_prev))
        rp == Only(s = PrevRank(r) /\ recv_prev, Recv("F"))
        rn == Only(s = NextRank(r) /\ recv_next, Recv("B"))
    IN  IF P2P = "batched" THEN sp \o rp \o sn \o rn
        ELSE IF r % 2 = 0 THEN sn \o rp \o sp \o rn
        ELSE rp \o sn \o rn \o sp]

(* The operations of one call, and of two calls in a row.                  *)
Behind(queues, calls) == [s \in Rank |-> queues[s] \o calls[s]]
Post(r, calls) == ops' = [ops EXCEPT ![r] = Behind(@, calls)]

(* The position of the operation of this kind that may run next in q.  The *)
(* operations of a batch run together; single ones run one after the       *)
(* other, on the stream of the pair of ranks.                              *)
Runnable(q, kind) ==
  { n \in 1 .. Len(q) :
      /\ q[n].kind = kind
      /\ \A m \in 1 .. n - 1 : P2P = "batched" /\ q[m].kind # kind }

Transfer(s, d) ==
  /\ \E n \in Runnable(ops[s][d], "send"), m \in Runnable(ops[d][s], "recv") :
       LET t == ops[s][d][n].tensor
           toF == ops[d][s][m].dir = "F"
       IN  /\ ops' = [ops EXCEPT ![s][d] = RemoveAt(@, n), ![d][s] = RemoveAt(@, m)]
           /\ gotF' = IF toF THEN [gotF EXCEPT ![d] = Append(@, t)] ELSE gotF
           /\ gotB' = IF toF THEN gotB ELSE [gotB EXCEPT ![d] = Append(@, t)]
  /\ UNCHANGED <<loop, ask, lists, fwd, bwd, clean, losses, sync>>

(* Waiting on the handles of the last forward or backward exchange.        *)
Waiting(r, d) == \E s \in Rank : \E n \in 1 .. Len(ops[r][s]) : ops[r][s][n].dir = d
Idle(r) == \A s \in Rank : ops[r][s] = <<>>

(* What a buffer holds when it is read: nothing it should, before its      *)
(* receive has completed.                                                  *)
Content(recvd, b) ==
  IF b = None THEN None ELSE IF b <= Len(recvd) THEN recvd[b] ELSE Mixed

-------------------------------------------------------------------------------
(* forward_step_helper and backward_step_helper                            *)

(* The lists with the None that stands for the input of the first stage.   *)
Inputs(r, c) ==
  IF FirstStage(r, c) /\ Len(input_tensors[r][c]) = Len(output_tensors[r][c])
  THEN Append(input_tensors[r][c], None) ELSE input_tensors[r][c]

ForwardOutput(r, c) ==
  LET m == fwd[r][c]
      x == Content(gotF[r], Last(Inputs(r, c)))
  IN  IF x = (IF FirstStage(r, c) THEN None ELSE Act(VStage(r, c) - 1, m))
      THEN Act(VStage(r, c), m) ELSE Mixed

(* The lists of chunk c after its next microbatch has run forward.         *)
ForwardInputs(r, c)  == IF ForwardOnly THEN Front(Inputs(r, c)) ELSE Inputs(r, c)
ForwardOutputs(r, c) == IF ForwardOnly THEN output_tensors[r][c]
                        ELSE Append(output_tensors[r][c], ForwardOutput(r, c))

ForwardStep(r, c) ==
  /\ fwd' = [fwd EXCEPT ![r][c] = @ + 1]
  /\ losses' = IF LastStage(r, c) THEN [losses EXCEPT ![r] = Append(@, ForwardOutput(r, c))]
               ELSE losses
  /\ output_tensor' = [output_tensor EXCEPT ![r] =
                         IF LastStage(r, c) THEN None ELSE ForwardOutput(r, c)]
  /\ output_tensors' = [output_tensors EXCEPT ![r][c] = ForwardOutputs(r, c)]
  /\ clean' = [clean EXCEPT ![r] = @ /\ ForwardOutput(r, c) # Mixed]

(* output_tensor_grads with the None of the last stage.                    *)
Grads(r, c) ==
  IF LastStage(r, c) /\ output_tensor_grads[r][c] = <<>>
  THEN <<None>> ELSE output_tensor_grads[r][c]

(* The gradient of the input from the heads of the three lists; None for   *)
(* the first stage, which has no input.                                    *)
Belong(r, c) ==
  LET m == bwd[r][c]
      v == VStage(r, c)
  IN  /\ Content(gotF[r], Head(input_tensors[r][c]))
           = (IF FirstStage(r, c) THEN None ELSE Act(v - 1, m))
      /\ Head(output_tensors[r][c]) = Act(v, m)
      /\ Content(gotB[r], Head(Grads(r, c)))
           = (IF LastStage(r, c) THEN None ELSE Grad(v + 1, m))

InputGrad(r, c) ==
  IF FirstStage(r, c) THEN None
  ELSE IF Belong(r, c) THEN Grad(VStage(r, c), bwd[r][c]) ELSE Mixed

(* The chunks whose gradient reduction iteration n of the backward passes  *)
(* launches: its own, from the hooks of the backward step, or, with a      *)
(* grad_sync_func, that of the iteration r steps ago, so that the ranks    *)
(* launch at the same time.                                                *)
HookSync(n) == IF GradReduce # "delay" /\ IsLastForChunk(n) THEN {BackwardChunk(n)} ELSE {}

(* Mutant: the chunk of the current iteration, not of the one r steps ago. *)
CustomSync_Unaligned(r, n) ==
  IF GradReduce = "delay" /\ n - r >= 0 /\ IsLastForChunk(n - r)
  THEN {BackwardChunk(n)} ELSE {}

CustomSync(r, n) ==
  IF GradReduce = "delay" /\ n - r >= 0 /\ IsLastForChunk(n - r)
  THEN {BackwardChunk(n - r)} ELSE {}

Launch(r, chunks) ==
  launches' = [launches EXCEPT ![r] =
                 [c \in Chunk |-> IF c \in chunks THEN Append(@[c], bwd'[r][c]) ELSE @[c]]]

BackwardStep(r, n) ==
  LET c == BackwardChunk(n)
  IN  /\ bwd' = [bwd EXCEPT ![r][c] = @ + 1]
      /\ clean' = [clean EXCEPT ![r] = @ /\ Belong(r, c)]
      /\ output_tensors' = [output_tensors EXCEPT ![r][c] = Tail(@)]
      /\ in_sync' = [in_sync EXCEPT ![r] = @ \cup HookSync(n) \cup CustomSync(r, n)]
      /\ Launch(r, (IF GradReduce = "finalize" THEN {} ELSE HookSync(n)) \cup CustomSync(r, n))

-------------------------------------------------------------------------------
(* The loops                                                               *)

(* Mutant: the schedule does not wait for its requests.                    *)
Waited_Never(r, d) == TRUE

(* Where the schedule waits for its requests: on the handles of the last   *)
(* exchange of this direction with overlap, in the call itself without.    *)
Waited(r, d) == IF P2P = "overlap" THEN ~Waiting(r, d) ELSE Idle(r)

(* A receive posted now will fill this buffer.                             *)
NextF(r, recv) == IF recv THEN askF[r] + 1 ELSE None
NextB(r, recv) == IF recv THEN askB[r] + 1 ELSE None
AskF(r, recv) == askF' = IF recv THEN [askF EXCEPT ![r] = @ + 1] ELSE askF
AskB(r, recv) == askB' = IF recv THEN [askB EXCEPT ![r] = @ + 1] ELSE askB

AfterWarmup(r) ==
  IF NumRemaining(r) > 0 THEN "steady" ELSE IF ForwardOnly THEN "finish" ELSE "drain"

(* The first receive of the schedule.  With one chunk and M > P the last   *)
(* rank has no warmup loop; with overlap it then cannot go on (Unbound).   *)
Start(r) ==
  /\ phase[r] = "init"
  /\ phase' = [phase EXCEPT ![r] = IF NumWarmup(r) = 0 THEN AfterWarmup(r) ELSE "warmup"]
  /\ input_tensors' = [input_tensors EXCEPT ![r][0] = <<NextF(r, ~FirstRank(r))>>]
  /\ AskF(r, ~FirstRank(r))
  /\ Post(r, Operations(r, None, None, ~FirstRank(r), FALSE))
  /\ UNCHANGED <<k, half, got, askB, output_tensors, output_tensor_grads, output_tensor,
                 fwd, bwd, clean, losses, sync>>

(* Mutant: one warmup iteration more.                                      *)
LastWarmup_Late(r) == k[r] = NumWarmup(r)

(* Whether a warmup iteration is the last, and whether it receives.        *)
LastWarmup(r) == k[r] = NumWarmup(r) - 1
WarmupRecvPrev(r) == ~(FirstRank(r) /\ ForwardChunk(k[r] + 1) = 0) /\ k[r] # Total - 1

(* An iteration of the warmup loop; the last one also asks for the first   *)
(* gradient, unless the whole batch is run forward before any backward.    *)
Warmup(r) ==
  LET c  == ForwardChunk(k[r])
      nc == ForwardChunk(k[r] + 1)
      last == LastWarmup(r)
      recv_prev == WarmupRecvPrev(r)
      askGrad   == last /\ ~ForwardOnly /\ ~AllWarmup
      recv_next == askGrad /\ ~LastRank(r)
  IN  /\ phase[r] = "warmup"
      /\ Waited(r, "F")
      /\ ForwardStep(r, c)
      /\ input_tensors' = [input_tensors EXCEPT ![r] =
           LET f == [@ EXCEPT ![c] = ForwardInputs(r, c)]
           IN  [f EXCEPT ![nc] = Append(@, NextF(r, recv_prev))]]
      /\ output_tensor_grads' =
           IF askGrad THEN [output_tensor_grads EXCEPT ![r][C - 1] = Append(@, NextB(r, recv_next))]
           ELSE output_tensor_grads
      /\ AskF(r, recv_prev) /\ AskB(r, recv_next)
      /\ IF P2P = "overlap"
         THEN Post(r, Behind(Operations(r, output_tensor'[r], None, recv_prev, FALSE),
                             Operations(r, None, None, FALSE, recv_next)))
         ELSE Post(r, Operations(r, output_tensor'[r], None, recv_prev, recv_next))
      /\ phase' = [phase EXCEPT ![r] = IF last THEN AfterWarmup(r) ELSE @]
      /\ k' = [k EXCEPT ![r] = IF last THEN 0 ELSE @ + 1]
      /\ UNCHANGED <<half, got, bwd, sync>>

(* Mutant: the last iteration receives too.                                *)
SteadyRecvPrev_Always(r) ==
  FirstRank(r) => ForwardChunk(k[r] + NumWarmup(r) - (P - 1)) # C - 1

(* Whether a steady iteration receives, and for which chunk.  The ranks at *)
(* the two ends of the ring are P - 1 iterations apart.                    *)
SteadyRecvPrev(r) ==
  /\ FirstRank(r) => ForwardChunk(k[r] + NumWarmup(r) - (P - 1)) # C - 1
  /\ k[r] # NumRemaining(r) - 1
SteadyForwardChunk(r) ==
  IF FirstRank(r) THEN ForwardChunk(k[r] + NumWarmup(r) - (P - 1)) + 1
  ELSE ForwardChunk(k[r] + NumWarmup(r) + 1)
SteadyRecvNext(r) == LastRank(r) => BackwardChunk(k[r] - (P - 1)) # 0
SteadyBackwardChunk(r) ==
  IF LastRank(r) THEN BackwardChunk(k[r] - (P - 1)) - 1 ELSE BackwardChunk(k[r] + 1)

(* With overlap a steady iteration begins by freeing the output_tensor of  *)
(* the iteration before it.  If no iteration was, Python raises            *)
(* UnboundLocalError and the rank takes no further step.                   *)
Unbound(r) == P2P = "overlap" /\ NumWarmup(r) = 0 /\ k[r] = 0

(* The forward half of a steady iteration, and with overlap its exchange.  *)
SteadyForward(r) ==
  LET c == ForwardChunk(k[r] + NumWarmup(r))
  IN  /\ phase[r] = "steady" /\ ~half[r]
      /\ Waited(r, "F")
      /\ ~Unbound(r)
      /\ half' = [half EXCEPT ![r] = TRUE]
      /\ ForwardStep(r, c)
      /\ input_tensors' = [input_tensors EXCEPT ![r][c] = ForwardInputs(r, c)]
      /\ IF P2P = "overlap"
         THEN Post(r, Operations(r, output_tensor'[r], None, SteadyRecvPrev(r), FALSE))
         ELSE UNCHANGED ops
      /\ UNCHANGED <<phase, k, got, ask, output_tensor_grads, bwd, sync>>

(* The backward half, its exchange (without overlap, the exchange in both  *)
(* directions), and the filing of the buffers of both receives.            *)
SteadyBackward(r) ==
  LET c == BackwardChunk(k[r])
      rp == SteadyRecvPrev(r)
      rn == SteadyRecvNext(r)
      last == k[r] = NumRemaining(r) - 1
  IN  /\ phase[r] = "steady" /\ half[r]
      /\ P2P = "overlap" => ~Waiting(r, "B")
      /\ half' = [half EXCEPT ![r] = FALSE]
      /\ BackwardStep(r, k[r])
      /\ input_tensors' = [input_tensors EXCEPT ![r] =
           LET f == [input_tensors[r] EXCEPT ![c] = Tail(@)]
           IN  IF rp THEN [f EXCEPT ![SteadyForwardChunk(r)] = Append(@, NextF(r, rp))] ELSE f]
      /\ output_tensor_grads' = [output_tensor_grads EXCEPT ![r] =
           LET f == [@ EXCEPT ![c] = Tail(Grads(r, c))]
           IN  IF rn THEN [f EXCEPT ![SteadyBackwardChunk(r)] = Append(@, NextB(r, rn))] ELSE f]
      /\ AskF(r, rp) /\ AskB(r, rn)
      /\ IF P2P = "overlap"
         THEN Post(r, Operations(r, None, InputGrad(r, c), FALSE, rn))
         ELSE Post(r, Operations(r, output_tensor[r], InputGrad(r, c), rp, rn))
      /\ phase' = [phase EXCEPT ![r] = IF last THEN "drain" ELSE @]
      /\ k' = [k EXCEPT ![r] = IF last THEN 0 ELSE @ + 1]
      /\ UNCHANGED <<got, output_tensor, fwd, losses>>

(* The start of the cooldown: wait for the last exchange, and if nothing   *)
(* has been run backward yet, ask for the first gradient.                  *)
Drain(r) ==
  LET recv_next == AllWarmup /\ ~LastRank(r)
  IN  /\ phase[r] = "drain"
      /\ Waited(r, "B")
      /\ phase' = [phase EXCEPT ![r] = IF NumRemaining(r) = Total THEN "finish" ELSE "cooldown"]
      /\ k' = [k EXCEPT ![r] = NumRemaining(r)]
      /\ output_tensor_grads' =
           IF AllWarmup THEN [output_tensor_grads EXCEPT ![r][C - 1] = Append(@, NextB(r, recv_next))]
           ELSE output_tensor_grads
      /\ AskB(r, recv_next)
      /\ Post(r, Operations(r, None, None, FALSE, recv_next))
      /\ UNCHANGED <<half, got, askF, input_tensors, output_tensors, output_tensor,
                     fwd, bwd, clean, losses, sync>>

(* Mutant: the cooldown loop stops one iteration early.                    *)
LastCooldown_Early(r) == k[r] = Total - 2
LastCooldown(r) == k[r] = Total - 1

(* Whether a cooldown iteration receives.                                  *)
CooldownRecvNext(r) == ~(LastRank(r) /\ BackwardChunk(k[r] + 1) = C - 1) /\ k[r] # Total - 1

(* An iteration of the cooldown loop, whose exchanges always block.        *)
Cooldown(r) ==
  LET c  == BackwardChunk(k[r])
      nc == BackwardChunk(k[r] + 1)
      recv_next == CooldownRecvNext(r)
  IN  /\ phase[r] = "cooldown"
      /\ Waited(r, "B")
      /\ BackwardStep(r, k[r])
      /\ input_tensors' = [input_tensors EXCEPT ![r][c] = Tail(@)]
      /\ output_tensor_grads' = [output_tensor_grads EXCEPT ![r] =
           LET f == [@ EXCEPT ![c] = Tail(Grads(r, c))]
           IN  [f EXCEPT ![nc] = Append(@, NextB(r, recv_next))]]
      /\ AskB(r, recv_next)
      /\ Post(r, Operations(r, None, InputGrad(r, c), FALSE, recv_next))
      /\ phase' = [phase EXCEPT ![r] = IF LastCooldown(r) THEN "finish" ELSE @]
      /\ k' = [k EXCEPT ![r] = IF LastCooldown(r) THEN 0 ELSE @ + 1]
      /\ UNCHANGED <<half, got, askF, output_tensor, fwd, losses>>

(* Launch the reductions that no backward step launched, then              *)
(* finalize_model_grads, which without --overlap-grad-reduce reduces all.  *)
Finish(r) ==
  /\ phase[r] = "finish"
  /\ Waited(r, "B")
  /\ phase' = [phase EXCEPT ![r] = "done"]
  /\ launches' = [launches EXCEPT ![r] = [c \in Chunk |->
       IF ~ForwardOnly /\ (GradReduce = "finalize" \/ (GradReduce = "delay" /\ c \notin in_sync[r]))
       THEN Append(@[c], bwd[r][c]) ELSE @[c]]]
  /\ in_sync' = [in_sync EXCEPT ![r] = IF GradReduce = "delay" /\ ~ForwardOnly THEN Chunk ELSE @]
  /\ UNCHANGED <<k, half, ops, got, ask, lists, fwd, bwd, clean, losses>>

-------------------------------------------------------------------------------
Init ==
  /\ phase = [r \in Rank |-> "init"]
  /\ k = [r \in Rank |-> 0]
  /\ half = [r \in Rank |-> FALSE]
  /\ ops = [r \in Rank |-> [s \in Rank |-> <<>>]]
  /\ gotF = [r \in Rank |-> <<>>] /\ gotB = [r \in Rank |-> <<>>]
  /\ askF = [r \in Rank |-> 0] /\ askB = [r \in Rank |-> 0]
  /\ input_tensors = [r \in Rank |-> [c \in Chunk |-> <<>>]]
  /\ output_tensors = [r \in Rank |-> [c \in Chunk |-> <<>>]]
  /\ output_tensor_grads = [r \in Rank |-> [c \in Chunk |-> <<>>]]
  /\ output_tensor = [r \in Rank |-> None]
  /\ fwd = [r \in Rank |-> [c \in Chunk |-> 0]]
  /\ bwd = [r \in Rank |-> [c \in Chunk |-> 0]]
  /\ clean = [r \in Rank |-> TRUE]
  /\ losses = [r \in Rank |-> <<>>]
  /\ in_sync = [r \in Rank |-> {}]
  /\ launches = [r \in Rank |-> [c \in Chunk |-> <<>>]]

(* The code of rank r.                                                     *)
Step(r) ==
  \/ Start(r)
  \/ Warmup(r)
  \/ SteadyForward(r)
  \/ SteadyBackward(r)
  \/ Drain(r)
  \/ Cooldown(r)
  \/ Finish(r)

(* The batch is over on every rank and every operation has completed.      *)
AllDone == \A r \in Rank : phase[r] = "done" /\ Idle(r)
Finished == AllDone /\ UNCHANGED vars

Next ==
  \/ \E r \in Rank : Step(r)
  \/ \E s, d \in Rank : Transfer(s, d)
  \/ Finished

Spec == Init /\ [][Next]_vars

(* Ranks keep running and posted operations that meet complete.            *)
Fairness ==
  /\ \A r \in Rank : WF_vars(Step(r))
  /\ \A s, d \in Rank : WF_vars(Transfer(s, d))

LiveSpec == Spec /\ Fairness

-------------------------------------------------------------------------------
(* Properties                                                              *)

Buffer == Nat \cup {None}
Operation == [kind : {"send", "recv"}, dir : {"F", "B"}, tensor : Tensor \cup {None}]

(* The type invariant.                                                     *)
TypeOK ==
  /\ phase \in [Rank -> {"init", "warmup", "steady", "drain", "cooldown", "finish", "done"}]
  /\ k \in [Rank -> 0 .. Total]
  /\ half \in [Rank -> BOOLEAN]
  /\ ops \in [Rank -> [Rank -> Seq(Operation)]]
  /\ gotF \in [Rank -> Seq(Tensor)] /\ gotB \in [Rank -> Seq(Tensor)]
  /\ askF \in [Rank -> 0 .. Total] /\ askB \in [Rank -> 0 .. Total]
  /\ input_tensors \in [Rank -> [Chunk -> Seq(Buffer)]]
  /\ output_tensors \in [Rank -> [Chunk -> Seq(Tensor)]]
  /\ output_tensor_grads \in [Rank -> [Chunk -> Seq(Buffer)]]
  /\ output_tensor \in [Rank -> Tensor \cup {None}]
  /\ fwd \in [Rank -> [Chunk -> 0 .. M]] /\ bwd \in [Rank -> [Chunk -> 0 .. M]]
  /\ clean \in [Rank -> BOOLEAN]
  /\ losses \in [Rank -> Seq(Tensor)]
  /\ in_sync \in [Rank -> SUBSET Chunk]
  /\ launches \in [Rank -> [Chunk -> Seq(0 .. M)]]

(* Every forward step runs on the activation of its own microbatch made by *)
(* the virtual stage before, already received; every backward step on the  *)
(* tensors saved for its microbatch and the gradient made for it by the    *)
(* virtual stage after.  The schedule files buffers by chunk arithmetic    *)
(* only, and takes the last of one list and the first of three others.     *)
NoMixing == \A r \in Rank : clean[r]

(* The losses come out in the order of the microbatches.                   *)
LossesInOrder ==
  \A r \in Rank : \A n \in 1 .. Len(losses[r]) : losses[r][n] = Act(P * C - 1, n - 1)

(* A rank never holds the activations of more than max_outstanding_backprops *)
(* model-chunk microbatches.                                               *)
Outstanding(r) ==
  LET held[c \in 0 .. C] == IF c = 0 THEN 0 ELSE held[c - 1] + (fwd[r][c - 1] - bwd[r][c - 1])
  IN  held[C]
OutstandingBackprops == ~ForwardOnly => \A r \in Rank : Outstanding(r) <= NumWarmup(r) + 1

(* The gradients of every chunk are reduced over the data-parallel group   *)
(* once per batch, with the contribution of every microbatch.              *)
GradsReducedOnce ==
  \A r \in Rank, c \in Chunk :
    /\ launches[r][c] # <<>> => launches[r][c] = <<M>>
    /\ phase[r] = "done" /\ ~ForwardOnly => launches[r][c] = <<M>>

(* A finished rank has run every chunk of every microbatch, and what stays *)
(* in its lists is no buffer of a receive: nothing was received in vain.   *)
CleanFinish ==
  \A r \in Rank : phase[r] = "done" =>
    \A c \in Chunk :
      /\ fwd[r][c] = M
      /\ bwd[r][c] = IF ForwardOnly THEN 0 ELSE M
      /\ output_tensors[r][c] = <<>>
      /\ \A n \in 1 .. Len(input_tensors[r][c]) : input_tensors[r][c][n] = None
      /\ \A n \in 1 .. Len(output_tensor_grads[r][c]) : output_tensor_grads[r][c][n] = None

(* Every batch ends on every rank and every operation posted completes,    *)
(* unless the last rank raises (Unbound).                                  *)
Termination == <>AllDone

(* The schedule implements the abstract order of a pipeline of P*C stages. *)
Order == INSTANCE PipelineOrder WITH
           V <- P * C,
           nf <- [v \in 0 .. P * C - 1 |-> fwd[v % P][v \div P]],
           nb <- [v \in 0 .. P * C - 1 |-> bwd[v % P][v \div P]]
ImplementsOrder == Order!Spec
===============================================================================
