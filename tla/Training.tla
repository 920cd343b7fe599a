------------------------------ MODULE Training ------------------------------
(* The training loop of all ranks (megatron/training.py) with what it keeps and  *)
(* persists: samplers, batch-size ramp-up, loss scaler, learning-rate schedule,  *)
(* random number generators, and the checkpoints on the shared file system       *)
(* (megatron/checkpointing.py). The job may crash between any two steps, and     *)
(* exits early on a signal, after a duration or after exit_interval iterations;  *)
(* it is then started again with the same arguments (--load = --save).           *)
(*                                                                               *)
(* A collective is one step of all ranks: no rank leaves it before all have      *)
(* entered it, and a rank that leaves it late takes its next step late. A crash  *)
(* of one rank is a crash of the job, since no other rank can leave the next     *)
(* collective.                                                                   *)
EXTENDS Integers, Sequences, FiniteSets

CONSTANTS
  M, D,                     \* model-parallel and data-parallel size
  MicroBatch, Rampup,       \* micro_batch_size; is rampup_batch_size given?
  Start, Increment, RampSamples, GlobalBatch,
  TrainSamples,             \* --train-samples
  TotalSamples,             \* len(dataset)
  SaveInterval, ExitInterval,
  ExitSignal, ExitDuration, \* is an exit on SIGTERM or after a duration enabled?
  DpRandomInit,             \* data_parallel_random_init
  InitialScale, MinScale,   \* loss scales as exponents of the growth factor
  GrowthInterval, Hysteresis,
  Limit,                    \* the gradients overflow at scales above this one
  MaxCrashes                \* bound on the crashes

MicroBatchTimesDp == MicroBatch * D

ASSUME Sizes ==
  /\ {M, D, MicroBatch, GlobalBatch, SaveInterval, ExitInterval} \subseteq Nat \ {0}
  /\ {TrainSamples, TotalSamples, MaxCrashes} \subseteq Nat
ASSUME Flags == {Rampup, ExitSignal, ExitDuration, DpRandomInit} \subseteq BOOLEAN
ASSUME RampAssumption ==
  Rampup => /\ {Start, Increment, RampSamples} \subseteq Nat \ {0}
            /\ Start < GlobalBatch
            /\ (GlobalBatch - Start) % Increment = 0
            /\ \A b \in {Start, Increment} : b % MicroBatchTimesDp = 0
ASSUME BatchAssumption == GlobalBatch % MicroBatchTimesDp = 0 /\ TotalSamples >= TrainSamples
ASSUME ScalerAssumption ==
  /\ {InitialScale, MinScale, Limit} \subseteq Int
  /\ {GrowthInterval, Hysteresis} \subseteq Nat \ {0}
  /\ MinScale <= Limit /\ MinScale <= InitialScale

Rank == 0 .. M * D - 1
MpRank(r) == r % M          \* names the files of r: get_checkpoint_name
DpRank(r) == r \div M
FileKind == {"optim", "model"}  \* distrib_optim.pt and model_optim_rng.pt

NoFile == 0                 \* values of the tracker file other than an iteration
Empty == -1

VARIABLES
  pc,        \* where a rank is
  saving,    \* why it is saving: the place save_checkpoint returns to
  saved,     \* the local saved_checkpoint of train
  run,       \* what a rank keeps between iterations
  cursor,    \* the sample its sampler draws next
  files,     \* files[n][m][k]: file k of model-parallel rank m for iteration n
  tracker,   \* latest_checkpointed_iteration.txt
  crashes

vars == <<pc, saving, saved, run, cursor, files, tracker, crashes>>
store == <<files, tracker>>

-----------------------------------------------------------------------------
(* megatron/microbatches.py *)

RampSteps(consumed) == (consumed * ((GlobalBatch - Start) \div Increment)) \div RampSamples

BatchSize(consumed) ==
  IF ~Rampup \/ consumed > RampSamples THEN GlobalBatch
  ELSE Start + RampSteps(consumed) * Increment

NumMicrobatches(consumed) == BatchSize(consumed) \div MicroBatchTimesDp

(* update_train_iters: the loop over the ramp-up, from consumed samples on. *)
RampPhase[consumed \in 0 .. RampSamples + GlobalBatch] ==
  IF consumed > RampSamples THEN [iterations |-> 0, consumed |-> consumed]
  ELSE LET rest == RampPhase[consumed + BatchSize(consumed)]
       IN  [rest EXCEPT !.iterations = @ + 1]

TrainIters ==
  IF ~Rampup THEN TrainSamples \div GlobalBatch
  ELSE RampPhase[0].iterations + (TrainSamples - RampPhase[0].consumed) \div GlobalBatch

ASSUME TrainingAssumption ==
  TrainIters \in Nat \ {0} /\ (Rampup => TrainSamples >= RampPhase[0].consumed)

(* MegatronPretrainingSampler: the next n micro-batches of a rank, from sample c. *)
Draw(r, c, n) ==
  { c + k * MicroBatchTimesDp + DpRank(r) * MicroBatch + j : k \in 0 .. n - 1, j \in 0 .. MicroBatch - 1 }

-----------------------------------------------------------------------------
(* megatron/optimizer/grad_scaler.py: DynamicGradScaler.update *)

Larger(a, b) == IF a > b THEN a ELSE b

Backoff(s) ==
  LET h == s.hysteresis - 1
  IN  [ scale |-> IF h <= 0 THEN Larger(s.scale - 1, MinScale) ELSE s.scale,
        growth |-> 0, hysteresis |-> h ]

Grow_Late(s) ==
  IF s.growth = GrowthInterval
  THEN [scale |-> s.scale + 1, growth |-> 0, hysteresis |-> Hysteresis]
  ELSE [s EXCEPT !.growth = @ + 1]

Grow(s) ==
  IF s.growth + 1 = GrowthInterval
  THEN [scale |-> s.scale + 1, growth |-> 0, hysteresis |-> Hysteresis]
  ELSE [s EXCEPT !.growth = @ + 1]

UpdateScaler(s, foundInf) == IF foundInf THEN Backoff(s) ELSE Grow(s)

-----------------------------------------------------------------------------
(* The state of a rank. model and main are histories of the parameters and of    *)
(* the optimizer's fp32 copy: the samples of each iteration, and whether the     *)
(* update was applied or skipped. rng is a stream and the draws made from it.    *)

Stream(r) == IF DpRandomInit THEN r ELSE MpRank(r)

Fresh(r) ==
  [ iteration |-> 0, consumed |-> 0, steps |-> 0, model |-> <<>>, main |-> <<>>,
    scaler |-> [scale |-> InitialScale, growth |-> 0, hysteresis |-> Hysteresis],
    rng |-> [stream |-> Stream(r), drawn |-> 0] ]

(* train_step and the lines of train after it, for a rank that ran n micro-      *)
(* batches; batch holds the samples of all data-parallel ranks.                  *)
Trained(s, n, batch) ==
  LET foundInf == s.scaler.scale > Limit
      update == [samples |-> batch, applied |-> ~foundInf]
      main == Append(s.main, update)
      increment == n * MicroBatchTimesDp
  IN  [ iteration |-> s.iteration + 1,
        consumed |-> s.consumed + increment,
        steps |-> IF foundInf THEN s.steps ELSE s.steps + increment,
        main |-> main,
        model |-> IF foundInf THEN Append(s.model, update) ELSE main,
        scaler |-> UpdateScaler(s.scaler, foundInf),
        rng |-> [s.rng EXCEPT !.drawn = @ + n] ]

-----------------------------------------------------------------------------
(* Checkpoints *)

Absent == [status |-> "absent"]
Partial == [status |-> "partial"]

(* get_rng_state: the generators of all data-parallel ranks, or the writer's. *)
RngStates(r) ==
  IF DpRandomInit THEN [d \in 0 .. D - 1 |-> run[d * M + MpRank(r)].rng]
  ELSE [d \in {0} |-> run[r].rng]

Snapshot(r, kind) ==
  LET s == run[r]
  IN  IF kind = "optim" THEN [status |-> "complete", main |-> s.main]
      ELSE [ status |-> "complete", iteration |-> s.iteration, consumed |-> s.consumed,
             steps |-> s.steps, model |-> s.model, scaler |-> s.scaler, rng |-> RngStates(r) ]

Complete(n) == \A m \in 0 .. M - 1, k \in FileKind : files[n][m][k].status = "complete"

(* Mutants of Restored, below, which Restored_Data repeats: the samples start    *)
(* over, all ranks take the random state of the first, the iterations start over *)
Restored_Data(r, n) ==
  LET f == files[n][MpRank(r)]["model"]
  IN  [ iteration |-> f.iteration, consumed |-> f.consumed, steps |-> f.steps,
        model |-> f.model, main |-> files[n][MpRank(r)]["optim"].main,
        scaler |-> f.scaler, rng |-> f.rng[IF DpRandomInit THEN DpRank(r) ELSE 0] ]

Restored_NotConsumed(r, n) == [Restored_Data(r, n) EXCEPT !.consumed = 0]

Restored_FirstRng(r, n) ==
  [Restored_Data(r, n) EXCEPT !.rng = files[n][MpRank(r)]["model"].rng[0]]

Restored_Finetune(r, n) == [Restored_Data(r, n) EXCEPT !.iteration = 0]

(* load_checkpoint on rank r: the model's file, then the optimizer's. *)
Restored(r, n) ==
  LET f == files[n][MpRank(r)]["model"]
  IN  [ iteration |-> f.iteration, consumed |-> f.consumed, steps |-> f.steps,
        model |-> f.model, main |-> files[n][MpRank(r)]["optim"].main,
        scaler |-> f.scaler, rng |-> f.rng[IF DpRandomInit THEN DpRank(r) ELSE 0] ]

-----------------------------------------------------------------------------
Init ==
  /\ pc = [r \in Rank |-> "load"]
  /\ saving = [r \in Rank |-> "none"]
  /\ saved = [r \in Rank |-> FALSE]
  /\ run = [r \in Rank |-> Fresh(r)]
  /\ cursor = [r \in Rank |-> 0]
  /\ files = [n \in 1 .. TrainIters |-> [m \in 0 .. M - 1 |-> [k \in FileKind |-> Absent]]]
  /\ tracker = NoFile
  /\ crashes = 0

AllAt(p) == \A r \in Rank : pc[r] = p
Goto(p) == pc' = [r \in Rank |-> p]

(* MegatronPretrainingSampler asserts that there are samples left to consume. *)
SamplesLeft(state) == \A r \in Rank : state[r].consumed < TotalSamples

(* setup_model_and_optimizer, load_checkpoint and build_pretraining_data_loader. *)
Begin(state) ==
  /\ SamplesLeft(state)
  /\ run' = state
  /\ cursor' = [r \in Rank |-> state[r].consumed]
  /\ Goto("loop")

Load ==
  /\ AllAt("load")
  /\ \/ /\ tracker = NoFile
        /\ Begin([r \in Rank |-> Fresh(r)])
     \/ /\ tracker > 0
        /\ Complete(tracker)
        /\ Begin([r \in Rank |-> Restored(r, tracker)])
     \/ /\ \/ tracker = Empty         \* sys.exit in read_metadata
           \/ tracker > 0 /\ ~Complete(tracker)     \* or in _load_base_checkpoint
           \/ /\ tracker > 0 /\ Complete(tracker)   \* or the sampler's assertion fails
              /\ ~SamplesLeft([r \in Rank |-> Restored(r, tracker)])
        /\ Goto("refused")
        /\ UNCHANGED <<run, cursor>>
  /\ saved' = [r \in Rank |-> FALSE]
  /\ saving' = [r \in Rank |-> "none"]
  /\ UNCHANGED <<store, crashes>>

(* One iteration of train. The ranks of a data-parallel group reduce their       *)
(* gradients: all must run as many micro-batches, and all see the same overflow. *)
TrainStep ==
  /\ AllAt("loop")
  /\ LET n == [r \in Rank |-> NumMicrobatches(run[r].consumed)]
         batch == [r \in Rank |-> Draw(r, cursor[r], n[r])]
     IN  /\ \A r \in Rank : run[r].iteration < TrainIters
         /\ \A r, s \in Rank : n[r] = n[s]
         /\ \A r \in Rank : batch[r] \subseteq 0 .. TotalSamples - 1  \* else StopIteration
         /\ run' = [r \in Rank |->
              Trained(run[r], n[r], UNION {batch[s] : s \in {t \in Rank : MpRank(t) = MpRank(r)}})]
         /\ cursor' = [r \in Rank |-> cursor[r] + n[r] * MicroBatchTimesDp]
  /\ saved' = [r \in Rank |-> FALSE]
  /\ Goto("signal")
  /\ UNCHANGED <<saving, store, crashes>>

(* save_checkpoint is called by rank r, and will return to `why`. *)
Call(r, why) == pc' = [pc EXCEPT ![r] = "enter"] /\ saving' = [saving EXCEPT ![r] = why]

(* any(signal_handler.signals_received()): all ranks gather the flags that their *)
(* handlers have set so far.                                                     *)
(* Mutant: a rank looks at its own flag only. *)
AnyReceived_Own(received, r) == received[r]

AnyReceived(received, r) == \E s \in Rank : received[s]

CheckSignals ==
  /\ AllAt("signal")
  /\ \E received \in [Rank -> IF ExitSignal THEN BOOLEAN ELSE {FALSE}] :
       /\ pc' = [r \in Rank |-> IF AnyReceived(received, r) THEN "enter" ELSE "interval"]
       /\ saving' = [r \in Rank |-> IF AnyReceived(received, r) THEN "exit" ELSE saving[r]]
  /\ UNCHANGED <<saved, run, cursor, store, crashes>>

CheckInterval(r) ==
  /\ pc[r] = "interval"
  /\ \/ /\ run[r].iteration % SaveInterval = 0
        /\ Call(r, "duration")
        /\ saved' = [saved EXCEPT ![r] = TRUE]
     \/ /\ run[r].iteration % SaveInterval # 0
        /\ pc' = [pc EXCEPT ![r] = "duration"]
        /\ UNCHANGED <<saving, saved>>
  /\ UNCHANGED <<run, cursor, store, crashes>>

(* The clocks differ: the flags of the ranks are reduced by their maximum. *)
AnyExpired(expired, r) == \E s \in Rank : expired[s]

CheckDuration ==
  /\ AllAt("duration")
  /\ \E expired \in [Rank -> IF ExitDuration THEN BOOLEAN ELSE {FALSE}] :
       /\ pc' = [r \in Rank |-> IF ~AnyExpired(expired, r) THEN "exitInterval"
                                ELSE IF saved[r] THEN "exit" ELSE "enter"]
       /\ saving' = [r \in Rank |-> IF AnyExpired(expired, r) THEN "exit" ELSE saving[r]]
  /\ UNCHANGED <<saved, run, cursor, store, crashes>>

CheckExitInterval(r) ==
  /\ pc[r] = "exitInterval"
  /\ \/ /\ run[r].iteration % ExitInterval # 0
        /\ pc' = [pc EXCEPT ![r] = "loop"]
        /\ UNCHANGED saving
     \/ /\ run[r].iteration % ExitInterval = 0
        /\ saved[r]
        /\ pc' = [pc EXCEPT ![r] = "exit"]
        /\ UNCHANGED saving
     \/ /\ run[r].iteration % ExitInterval = 0
        /\ ~saved[r]
        /\ Call(r, "exit")
  /\ UNCHANGED <<saved, run, cursor, store, crashes>>

(* The loop of train is over: pretrain saves once more. *)
EndTraining(r) ==
  /\ pc[r] = "loop"
  /\ run[r].iteration >= TrainIters
  /\ Call(r, "finished")
  /\ UNCHANGED <<saved, run, cursor, store, crashes>>

-----------------------------------------------------------------------------
(* save_checkpoint *)

(* The barrier of the timer, and the gathers that come before any file is        *)
(* written. Data-parallel rank 0 writes.                                         *)
EnterSave ==
  /\ AllAt("enter")
  /\ pc' = [r \in Rank |-> IF DpRank(r) = 0 THEN "openOptim" ELSE "written"]
  /\ UNCHANGED <<saving, saved, run, cursor, store, crashes>>

(* torch.save truncates or creates the file, then fills it. *)
Put(r, kind, content) == files' = [files EXCEPT ![run[r].iteration][MpRank(r)][kind] = content]

OpenFile(r, kind, here, next) ==
  /\ pc[r] = here
  /\ Put(r, kind, Partial)
  /\ pc' = [pc EXCEPT ![r] = next]
  /\ UNCHANGED <<saving, saved, run, cursor, tracker, crashes>>

WriteFile(r, kind, here, next) ==
  /\ pc[r] = here
  /\ Put(r, kind, Snapshot(r, kind))
  /\ pc' = [pc EXCEPT ![r] = next]
  /\ UNCHANGED <<saving, saved, run, cursor, tracker, crashes>>

SaveFiles(r) ==
  \/ OpenFile(r, "optim", "openOptim", "writeOptim")
  \/ WriteFile(r, "optim", "writeOptim", "openModel")
  \/ OpenFile(r, "model", "openModel", "writeModel")
  \/ WriteFile(r, "model", "writeModel", "written")

AllWritten_Rank0 == pc[0] = "written"

(* "Wait so everyone is done (necessary)" *)
AllWritten == AllAt("written")

WaitForFiles ==
  /\ AllWritten
  /\ pc' = [r \in Rank |-> IF r = 0 THEN "openTracker" ELSE "tracked"]
  /\ UNCHANGED <<saving, saved, run, cursor, store, crashes>>

OpenTracker ==
  /\ pc[0] = "openTracker"
  /\ tracker' = Empty
  /\ pc' = [pc EXCEPT ![0] = "writeTracker"]
  /\ UNCHANGED <<saving, saved, run, cursor, files, crashes>>

WriteTracker ==
  /\ pc[0] = "writeTracker"
  /\ tracker' = run[0].iteration
  /\ pc' = [pc EXCEPT ![0] = "tracked"]
  /\ UNCHANGED <<saving, saved, run, cursor, files, crashes>>

(* The last barrier; save_checkpoint returns. *)
LeaveSave ==
  /\ AllAt("tracked")
  /\ pc' = saving
  /\ saving' = [r \in Rank |-> "none"]
  /\ UNCHANGED <<saved, run, cursor, store, crashes>>

-----------------------------------------------------------------------------
(* The job is started again after an early exit or a crash; what it had in       *)
(* memory is overwritten by Load.                                                *)
Restart ==
  /\ AllAt("exit")
  /\ Goto("load")
  /\ UNCHANGED <<saving, saved, run, cursor, store, crashes>>

Stopped == AllAt("finished") \/ AllAt("refused")

Crash ==
  /\ ~Stopped
  /\ crashes < MaxCrashes
  /\ crashes' = crashes + 1
  /\ Goto("load")
  /\ UNCHANGED <<saving, saved, run, cursor, store>>

Done == Stopped /\ UNCHANGED vars

Collective == TrainStep \/ CheckSignals \/ CheckDuration \/ EnterSave \/ WaitForFiles \/ LeaveSave
Local(r) == CheckInterval(r) \/ CheckExitInterval(r) \/ EndTraining(r) \/ SaveFiles(r)
Tracker == OpenTracker \/ WriteTracker
Job == Load \/ Restart

Next == Job \/ Collective \/ Tracker \/ (\E r \in Rank : Local(r)) \/ Crash \/ Done

(* A job that can go on does: processes run, collectives that all have entered   *)
(* complete, and the job is restarted. Crashes, signals and durations are not    *)
(* fair.                                                                         *)
Fairness ==
  /\ WF_vars(Job) /\ WF_vars(Collective) /\ WF_vars(Tracker)
  /\ \A r \in Rank : WF_vars(Local(r))

Spec == Init /\ [][Next]_vars /\ Fairness
-----------------------------------------------------------------------------
(* Type correctness: every variable of the training job stays in its range (the  *)
(* histories are constrained by the properties below).                           *)
Places == {"load", "loop", "signal", "interval", "duration", "exitInterval", "enter",
           "openOptim", "writeOptim", "openModel", "writeModel", "written",
           "openTracker", "writeTracker", "tracked", "exit", "finished", "refused"}

TypeOK ==
  /\ pc \in [Rank -> Places]
  /\ saving \in [Rank -> {"none", "exit", "duration", "finished"}]
  /\ saved \in [Rank -> BOOLEAN]
  /\ \A r \in Rank :
       /\ run[r].iteration \in 0 .. TrainIters
       /\ {run[r].consumed, cursor[r], run[r].steps} \subseteq 0 .. TotalSamples
       /\ run[r].scaler.scale >= MinScale
       /\ run[r].scaler.growth \in 0 .. GrowthInterval - 1
  /\ tracker \in {NoFile, Empty} \cup 1 .. TrainIters
  /\ \A n \in DOMAIN files, m \in 0 .. M - 1, k \in FileKind :
       files[n][m][k].status \in {"absent", "partial", "complete"}
  /\ crashes \in 0 .. MaxCrashes

(* Over all crashes and restarts the iterations that led to the parameters of a  *)
(* rank took each sample of the dataset once and in order, no sample was left    *)
(* out, and consumed_train_samples is their number. This is what the sampler,    *)
(* the ramp-up and the checkpoint's arguments have to agree on.                  *)
Below(a, b) == \A x \in a, y \in b : x < y

SamplesInOrder ==
  \A r \in Rank : LET history == run[r].main IN
    /\ Len(history) = run[r].iteration
    /\ UNION {history[i].samples : i \in DOMAIN history} = 0 .. run[r].consumed - 1
    /\ \A i, j \in DOMAIN history : i < j => Below(history[i].samples, history[j].samples)

(* The run that is never interrupted, as a function of the iteration. *)
Uninterrupted[n \in 0 .. TrainIters] ==
  IF n = 0 THEN Fresh(0)
  ELSE LET s == Uninterrupted[n - 1]
           size == BatchSize(s.consumed)
       IN  Trained(s, size \div MicroBatchTimesDp, s.consumed .. s.consumed + size - 1)

(* A job that was interrupted, whenever and however often, is in the state of    *)
(* one that was not: parameters, optimizer, loss scaler, learning-rate schedule  *)
(* and random streams are those of an uninterrupted run at the same iteration.   *)
SameAsUninterrupted ==
  \A r \in Rank : LET reference == Uninterrupted[run[r].iteration] IN
    run[r] = [reference EXCEPT !.rng = [@ EXCEPT !.stream = Stream(r)]]

(* The tracker file never leads to a checkpoint that is not complete on every    *)
(* model-parallel rank at the moment it is written, or that is of another        *)
(* iteration: the order of save_checkpoint's writes over its ranks.              *)
CommitsCompleteCheckpoint ==
  [][ tracker' \notin {tracker, NoFile, Empty} =>
        /\ Complete(tracker')
        /\ \A m \in 0 .. M - 1 : files[tracker'][m]["model"].iteration = tracker' ]_vars

(* The job does what a user expects of one that saves checkpoints. A commit is   *)
(* lost while the tracker file is being rewritten, or while the files it leads   *)
(* to are.                                                                       *)
Committed ==
  CASE tracker = NoFile -> 0
    [] tracker = Empty -> -1
    [] OTHER -> IF Complete(tracker) THEN tracker ELSE -1

Abstract == INSTANCE ResumableTraining WITH done <- run[0].iteration, saved <- Committed

ImplementsResumable == Abstract!Spec

(* The job ends, even if a signal or the duration ends every start of it after   *)
(* one iteration: an early exit saves what was done. It ends by finishing, or    *)
(* refuses to start: from what a crash left behind, or without a sample left.    *)
Termination == <>[]Stopped
=============================================================================
