-------------------------- MODULE ResumableTraining --------------------------
(* What a user expects of a training job with checkpoints: its progress grows by *)
(* one iteration at a time, is committed now and then, and a job that stops      *)
(* continues from the last commit. A commit may be lost (see Training), and then *)
(* there is nothing to continue from.                                            *)
EXTENDS Integers

CONSTANT TrainIters

VARIABLES done,   \* iterations the job has run
          saved   \* iterations in the last commit; 0: none yet

Lost == -1

Init == done = 0 /\ saved = 0

Advance == done < TrainIters /\ done' = done + 1 /\ UNCHANGED saved
Commit  == done > 0 /\ saved' = done /\ UNCHANGED done
Lose    == saved' = Lost /\ UNCHANGED done
Resume  == saved # Lost /\ done' = saved /\ UNCHANGED saved

Next == Advance \/ Commit \/ Lose \/ Resume

Spec == Init /\ [][Next]_<<done, saved>>
==============================================================================
