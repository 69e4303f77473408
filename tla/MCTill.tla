------------------------------- MODULE MCTill -------------------------------
(* Two customers: two pieces of one product, and one of another.            *)
EXTENDS Till, TLC
CONSTANTS milk1, milk2, bread
MCPieces == {milk1, milk2, bread}
MCProduct == [p \in Pieces |-> IF p = bread THEN "bread" ELSE "milk"]
MCSnapshot == [g \in {"milk", "bread"} |-> IF g = "milk" THEN 2 ELSE 1]

\* Pieces of one product are interchangeable.
Symmetry == Permutations({milk1, milk2})
==============================================================================
