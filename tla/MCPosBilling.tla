---------------------------- MODULE MCPosBilling ----------------------------
(****************************************************************************)
(* Instances of PosBilling for TLC: the requests clients send in each run.  *)
(* asha is a cashier and mohan a manager: the controllers let only managers *)
(* cancel a bill or delete a customer.                                      *)
(****************************************************************************)
EXTENDS PosBilling, TLC

CONSTANTS asha, mohan, c1

Blank == [kind |-> "sale", key |-> 0, actor |-> asha, customer |-> NoCustomer, qty |-> 0,
          amount |-> 0, tender |-> "CASH", invoice |-> 0, shift |-> 0,
          restock |-> TRUE, advance |-> FALSE, expense |-> 0, paid |-> TRUE]

ASale(key, actor, customer, qty, credit, tender) ==
  [Blank EXCEPT !.kind = "sale", !.key = key, !.actor = actor, !.customer = customer,
                !.qty = qty, !.amount = credit, !.tender = tender]

AReturn(key, actor, invoice, qty, tender, restock) ==
  [Blank EXCEPT !.kind = "return", !.key = key, !.actor = actor, !.invoice = invoice,
                !.qty = qty, !.tender = tender, !.restock = restock]

ACancel(actor, invoice) ==
  [Blank EXCEPT !.kind = "cancel", !.actor = actor, !.invoice = invoice]

ARepayment(key, actor, customer, amount, tender) ==
  [Blank EXCEPT !.kind = "repay", !.key = key, !.actor = actor, !.customer = customer,
                !.amount = amount, !.tender = tender]

AnOpening(actor, customer, amount) ==
  [Blank EXCEPT !.kind = "opening", !.actor = actor, !.customer = customer, !.amount = amount]

AnOpen(actor) == [Blank EXCEPT !.kind = "open", !.actor = actor]

AClose(actor, shift) == [Blank EXCEPT !.kind = "close", !.actor = actor, !.shift = shift]

ADelete(actor, customer) ==
  [Blank EXCEPT !.kind = "delete", !.actor = actor, !.customer = customer]

AnExpense(actor, amount, tender, paid) ==
  [Blank EXCEPT !.kind = "expense", !.actor = actor, !.amount = amount, !.tender = tender, !.paid = paid]

AnEdit(actor, expense, amount, tender) ==
  [AnExpense(actor, amount, tender, TRUE) EXCEPT !.kind = "editExpense", !.expense = expense]

ADrop(actor, expense) == [Blank EXCEPT !.kind = "dropExpense", !.actor = actor, !.expense = expense]

(****************************************************************************)
(* Req is 1 .. n.  It does not matter which of them sends which request, so *)
(* a list of requests gives one mix for every selection from it.            *)
(****************************************************************************)
MixesOf(list) ==
  {[q \in Req |-> list[f[q]]] : f \in {g \in [Req -> DOMAIN list] : \A p, q \in Req : p < q => g[p] <= g[q]}}

\* The mixes of a list in which its first request is sent.
MixesWithFirst(list) == {mix \in MixesOf(list) : mix[1] = list[1]}

\* A drawer that opens, closes and changes hands under bills and refunds: one request at
\* least opens or closes it.
Drawers ==
  {mix \in MixesOf(
     <<AnOpen(asha), AClose(mohan, 1),
       [ASale(2, mohan, c1, 2, 1, "CASH") EXCEPT !.shift = 1],
       AReturn(3, mohan, 1, 1, "CASH", TRUE), ACancel(mohan, 1),
       ARepayment(5, asha, c1, 1, "CASH")>>) :
   \E q \in Req : mix[q].kind \in {"open", "close"}}

\* An expense paid from a drawer, or not yet paid, under edits and the drawer's closing.
Spending == MixesWithFirst(
  <<AnExpense(asha, 2, "CASH", TRUE), AnEdit(mohan, 1, 2, "BANK"), AnEdit(asha, 1, 1, "CASH"), ADrop(mohan, 1),
    AClose(asha, 0), AnOpen(asha), ASale(1, asha, NoCustomer, 1, 0, "CASH")>>)
  \cup MixesWithFirst(<<AnExpense(mohan, 1, "BANK", FALSE), AnEdit(asha, 1, 1, "CASH"), ADrop(mohan, 1), AClose(asha, 0)>>)

\* One bill, what can happen to it, and its customer's credit, pulled at from all sides;
\* key 1 is sent for two different bills, and other requests carry its key or each other's.
Accounts == MixesWithFirst(
  <<ASale(1, asha, c1, 2, 2, "CASH"), ASale(1, mohan, c1, 1, 3, "CASH"),
    ACancel(mohan, 1), AReturn(3, mohan, 1, 1, "AUTO", TRUE), AReturn(4, asha, 1, 0, "CASH", FALSE),
    AReturn(1, mohan, 1, 1, "CASH", TRUE), ARepayment(4, asha, c1, 1, "CASH"), ADelete(mohan, c1)>>)

\* A customer's opening balance, repayments and advances while the customer is deleted.
Openings == MixesWithFirst(
  <<AnOpening(mohan, c1, 2), AnOpening(asha, c1, 2), AnOpening(mohan, c1, -1),
    ARepayment(5, asha, c1, 1, "CASH"), [ARepayment(6, asha, c1, 2, "BANK") EXCEPT !.advance = TRUE],
    ADelete(mohan, c1)>>)

\* Bills for the last pieces, or on credit of one customer, under one key or several.
LastPieces == MixesWithFirst(
  <<ASale(1, asha, c1, 2, 1, "CASH"), ASale(1, mohan, c1, 1, 1, "CASH"), ASale(2, asha, NoCustomer, 2, 0, "BANK"),
    ASale(3, mohan, c1, 1, 2, "CASH")>>)

AllMixes == Drawers \cup Spending \cup Accounts \cup Openings \cup LastPieces

AllRequests == {mix[q] : mix \in AllMixes, q \in Req}

=============================================================================
