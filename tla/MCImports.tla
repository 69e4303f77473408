----------------------------- MODULE MCImports -----------------------------
(* Instances of Imports for TLC. *)
EXTENDS Imports

CONSTANTS j1, j2, k1, k2

R(k, opening) == [key |-> k, value |-> 1, opening |-> opening, valid |-> TRUE]

Bad(k) == [R(k, 0) EXCEPT !.valid = FALSE]

File(kind, rows) ==
  [kind |-> kind, mode |-> "UPSERT", dryRun |-> FALSE, rows |-> rows, readable |-> TRUE, from |-> NoJob]

Customers == File("CUSTOMERS", <<R(k1, 2), R(k2, 0)>>)
Udhar == File("CUSTOMERS", <<R(k1, 2)>>)
Stock == File("OPENING_STOCK", <<R(k1, 2), R(k2, 0)>>)
Products == File("PRODUCTS", <<R(k1, 0), Bad(k2)>>)

One(a) == [j \in {j1} |-> a]

Two(a, b) == [j \in Job |-> IF j = j1 THEN a ELSE b]

Quiet(jobs) == [up |-> jobs, known |-> {}, traded |-> {}, entered |-> {}, dismissed |-> FALSE,
                faults |-> IF Cardinality(DOMAIN jobs) = 1 THEN 1 ELSE 0]

\* One job: every fault of the request, the queue and the worker, and a shop that goes on.
Alone ==
  {[Quiet(One(Customers)) EXCEPT !.entered = {k1}, !.traded = {k1}],
   [Quiet(One(Stock)) EXCEPT !.known = {k1, k2}, !.traded = {k1}],
   [Quiet(One([Products EXCEPT !.mode = "CREATE_ONLY"])) EXCEPT !.known = {k1}, !.dismissed = TRUE],
   Quiet(One([Customers EXCEPT !.mode = "UPDATE_ONLY", !.rows = <<R(k1, 0), R(k1, 1)>>])),
   Quiet(One([Products EXCEPT !.readable = FALSE]))}

\* Two jobs: the same file twice, two files about one customer, a dry run and its application.
Together ==
  {[Quiet(Two(Udhar, Udhar)) EXCEPT !.faults = 1],
   [Quiet(Two(Udhar, [Udhar EXCEPT !.rows = <<R(k1, 1)>>])) EXCEPT !.known = {k1}],
   Quiet(Two([Products EXCEPT !.dryRun = TRUE], [Products EXCEPT !.from = j1]))}

All == Alone \cup Together
=============================================================================
