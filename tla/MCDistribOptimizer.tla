------------------------- MODULE MCDistribOptimizer -------------------------
(***************************************************************************)
(* The command lines with which TLC runs DistribOptimizer. With the        *)
(* overlapped gather no gradient overflows: do_skip shows what happens     *)
(* then.                                                                   *)
(***************************************************************************)
EXTENDS DistribOptimizer

Setting(g, r, n) == [gather |-> g, reduce |-> r, overflows |-> n]

AllSettings == {Setting(TRUE, TRUE, 0), Setting(FALSE, FALSE, 1), Setting(FALSE, TRUE, 1)}
Overlapped  == {Setting(TRUE, TRUE, 0)}
Overflowing == {Setting(TRUE, TRUE, 1)}
=============================================================================
