------------------------------ MODULE MCOutbox ------------------------------
(* Instances of Outbox for TLC. *)
EXTENDS Outbox, TLC

\* The members of these sets are interchangeable; sound for safety runs only.
Symmetry == Permutations(Relay) \cup Permutations(Worker)
=============================================================================
