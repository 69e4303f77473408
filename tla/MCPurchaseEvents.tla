-------------------------- MODULE MCPurchaseEvents --------------------------
(***************************************************************************)
(* Instances of PurchaseEvents for TLC.                                    *)
(***************************************************************************)
EXTENDS PurchaseEvents, TLC

Symmetry == Permutations(Worker)
=============================================================================
