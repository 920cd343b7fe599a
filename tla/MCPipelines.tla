----------------------------- MODULE MCPipelines -----------------------------
(***************************************************************************)
(* One batch through whichever pipelined schedule                           *)
(* get_forward_backward_func picks, for several small jobs in one run: a    *)
(* behaviour picks a job and is then a behaviour of OneFOneB, when the job  *)
(* has no virtual stages, and of Interleaved when it has.  The variables of *)
(* the schedule that is not picked stay None.                               *)
(***************************************************************************)
EXTENDS Integers

CONSTANTS None, Mixed

(* The shortest pipeline and batch, batches smaller than, as large as and   *)
(* larger than the pipeline, every way of reducing gradients, transports    *)
(* that buffer or do not, training and evaluation.                          *)
PlainJobs == {
  [P |-> 2, M |-> 1, eval |-> FALSE, reduce |-> "overlap",  eager |-> TRUE],
  [P |-> 4, M |-> 3, eval |-> FALSE, reduce |-> "delay",    eager |-> FALSE],
  [P |-> 3, M |-> 3, eval |-> FALSE, reduce |-> "finalize", eager |-> TRUE],
  [P |-> 3, M |-> 5, eval |-> FALSE, reduce |-> "delay",    eager |-> TRUE],
  [P |-> 3, M |-> 2, eval |-> TRUE,  reduce |-> "finalize", eager |-> FALSE],
  [P |-> 4, M |-> 4, eval |-> TRUE,  reduce |-> "finalize", eager |-> TRUE]}

(* Every way of communicating and of reducing gradients, batches without a  *)
(* steady state (M = P), one to three chunks, training and evaluation.  One *)
(* chunk with overlap and M > P is left out: there the last rank raises an  *)
(* exception (Interleaved!Unbound) and the batch does not end.              *)
VirtualJobs == {
  [P |-> 4, C |-> 2, M |-> 8, eval |-> FALSE, p2p |-> "overlap", reduce |-> "delay"],
  [P |-> 3, C |-> 2, M |-> 6, eval |-> FALSE, p2p |-> "batched", reduce |-> "overlap"],
  [P |-> 3, C |-> 3, M |-> 6, eval |-> FALSE, p2p |-> "serial",  reduce |-> "finalize"],
  [P |-> 3, C |-> 2, M |-> 6, eval |-> FALSE, p2p |-> "overlap", reduce |-> "overlap"],
  [P |-> 3, C |-> 1, M |-> 6, eval |-> FALSE, p2p |-> "batched", reduce |-> "delay"],
  [P |-> 3, C |-> 1, M |-> 3, eval |-> FALSE, p2p |-> "overlap", reduce |-> "overlap"],
  [P |-> 4, C |-> 2, M |-> 4, eval |-> FALSE, p2p |-> "overlap", reduce |-> "delay"],
  [P |-> 3, C |-> 3, M |-> 6, eval |-> TRUE,  p2p |-> "batched", reduce |-> "finalize"]}

VARIABLES
  job,
  phase, fwd, bwd, input_tensors, output_tensors, output_tensor, launches,
  call, i, reqs, fwdChan, bwdChan, input_tensor, output_tensor_grad,
  forward_data_store, no_sync,
  k, half, ops, gotF, gotB, askF, askB, output_tensor_grads, clean, losses,
  in_sync

plain   == <<call, i, reqs, fwdChan, bwdChan, input_tensor, output_tensor_grad,
             forward_data_store, no_sync>>
virtual == <<k, half, ops, gotF, gotB, askF, askB, output_tensor_grads, clean,
             losses, in_sync>>
vars == <<job, phase, fwd, bwd, input_tensors, output_tensors, output_tensor,
          launches, plain, virtual>>

Plain(j) == INSTANCE OneFOneB WITH
  P <- j.P, M <- j.M, ForwardOnly <- j.eval, GradReduce <- j.reduce,
  EagerSends <- j.eager

Virtual(j) == INSTANCE Interleaved WITH
  P <- j.P, C <- j.C, M <- j.M, ForwardOnly <- j.eval, P2P <- j.p2p,
  GradReduce <- j.reduce

ASSUME JobsAssumption == \A j \in VirtualJobs : Virtual(j)!Configuration

Ranks == 0 .. 3

NoPlain ==
  /\ call = None /\ i = None /\ reqs = None /\ fwdChan = None
  /\ bwdChan = None /\ input_tensor = None /\ output_tensor_grad = None /\ forward_data_store = None
  /\ no_sync = None

NoVirtual ==
  /\ k = None /\ half = None /\ ops = None /\ gotF = None
  /\ gotB = None /\ askF = None /\ askB = None /\ output_tensor_grads = None
  /\ clean = None /\ losses = None /\ in_sync = None

(* The job of the behaviour, if it is one of the schedule Jobs are for.     *)
Picked(Jobs) == {j \in Jobs : job = j}

Init ==
  \/ /\ \E j \in PlainJobs : job = j /\ Plain(j)!Init
     /\ NoVirtual
  \/ /\ \E j \in VirtualJobs : job = j /\ Virtual(j)!Init
     /\ NoPlain

StepOf(r) ==
  \/ /\ \E j \in Picked(PlainJobs) : r \in Plain(j)!Stage /\ Plain(j)!Step(r)
     /\ UNCHANGED <<job, virtual>>
  \/ /\ \E j \in Picked(VirtualJobs) : r \in Virtual(j)!Rank /\ Virtual(j)!Step(r)
     /\ UNCHANGED <<job, plain>>

ReceiveOf(r) ==
  /\ \E j \in Picked(PlainJobs) : r \in Plain(j)!Stage /\ Plain(j)!Receive(r)
  /\ UNCHANGED <<job, virtual>>

BufferSendOf(r) ==
  /\ \E j \in Picked(PlainJobs) : r \in Plain(j)!Stage /\ Plain(j)!BufferSend(r)
  /\ UNCHANGED <<job, virtual>>

TransferOf(s, d) ==
  /\ \E j \in Picked(VirtualJobs) :
       {s, d} \subseteq Virtual(j)!Rank /\ Virtual(j)!Transfer(s, d)
  /\ UNCHANGED <<job, plain>>

AllDone ==
  \/ \E j \in Picked(PlainJobs) : Plain(j)!AllDone
  \/ \E j \in Picked(VirtualJobs) : Virtual(j)!AllDone

Finished == AllDone /\ UNCHANGED vars

Next ==
  \/ \E r \in Ranks : StepOf(r) \/ ReceiveOf(r) \/ BufferSendOf(r)
  \/ \E s, d \in Ranks : TransferOf(s, d)
  \/ Finished

(* As in the two schedules: ranks keep running, the transport delivers what *)
(* has been sent to a posted receive; it need not buffer.                   *)
Fairness ==
  /\ \A r \in Ranks : WF_vars(StepOf(r)) /\ WF_vars(ReceiveOf(r))
  /\ \A s, d \in Ranks : WF_vars(TransferOf(s, d))

Spec == Init /\ [][Next]_vars /\ Fairness

-----------------------------------------------------------------------------
(* The properties of the schedules, of the job at hand.                     *)

(* The type invariants.                                                     *)
TypeOK ==
  \/ \E j \in Picked(PlainJobs) : Plain(j)!TypeOK
  \/ \E j \in Picked(VirtualJobs) : Virtual(j)!TypeOK

(* No step combines tensors that do not belong together.                    *)
NoMixing ==
  \/ \E j \in Picked(PlainJobs) : Plain(j)!NoMixing
  \/ \E j \in Picked(VirtualJobs) : Virtual(j)!NoMixing

(* One gradient reduction per chunk and batch, with every microbatch in it. *)
GradsReducedOnce ==
  \/ \E j \in Picked(PlainJobs) : Plain(j)!GradsReducedOnce
  \/ \E j \in Picked(VirtualJobs) : Virtual(j)!GradsReducedOnce

(* The activations a rank holds stay within max_outstanding_backprops.      *)
OutstandingBackprops ==
  \/ \E j \in Picked(PlainJobs) : Plain(j)!OutstandingBackprops
  \/ \E j \in Picked(VirtualJobs) : Virtual(j)!OutstandingBackprops

(* Everything is run, nothing is received in vain or left over, and the     *)
(* losses come out in the order of the microbatches.                        *)
CleanFinish ==
  \/ \E j \in Picked(PlainJobs) : Plain(j)!CleanFinish
  \/ \E j \in Picked(VirtualJobs) : Virtual(j)!CleanFinish /\ Virtual(j)!LossesInOrder

(* Every step of the schedule is one of the abstract pipeline of P or P * C *)
(* stages, or leaves it alone.                                              *)
ImplementsOrder ==
  [][\/ \E j \in Picked(PlainJobs) : [Plain(j)!Order!Next]_<<fwd, bwd>>
     \/ \E j \in Picked(VirtualJobs) : [Virtual(j)!Order!Next]_<<fwd, bwd>>]_vars

(* Every batch ends on every rank.                                          *)
Termination == <>AllDone
===============================================================================
