---------------------------- MODULE MCGradBuffer ----------------------------
(***************************************************************************)
(* The command lines with which TLC runs GradBuffer: two buckets or one,    *)
(* reduce-scatter or all-reduce, overlapped or not.                         *)
(***************************************************************************)
EXTENDS GradBuffer

Setting(o, d, n) == [overlap |-> o, distributed |-> d, bucket_size |-> n]

AllSettings == {Setting(TRUE, TRUE, 3), Setting(TRUE, FALSE, 2),
                Setting(FALSE, TRUE, 0), Setting(FALSE, FALSE, 0)}
AllRestarts == 1..4
=============================================================================
