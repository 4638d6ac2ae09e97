-------------------------------- MODULE Sums --------------------------------
(***************************************************************************)
(* Sums of numbers over finite sets: what a Feed stores, what an Owner     *)
(* uses, what is staged.                                                   *)
(***************************************************************************)
EXTENDS FiniteSetsExt

Sum(f, S) == MapThenSumSet(LAMBDA x : f[x], S)
=============================================================================
