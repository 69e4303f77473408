----------------------------- MODULE MCCronLock -----------------------------
(***************************************************************************)
(* Instances of CronLock for TLC.                                          *)
(***************************************************************************)
EXTENDS CronLock, TLC

Symmetry == Permutations(Pod)
=============================================================================
