--------------------------- MODULE SerialBilling ---------------------------
(***************************************************************************)
(* What the money flows of a shop promise together: they happen one after  *)
(* the other.  Each is a single step that checks and writes the books as   *)
(* they are at that moment, with no locks, retries or stale reads.         *)
(*                                                                         *)
(* One freedom is left: a flow that found no open drawer may still book    *)
(* without one although the cashier has opened a drawer since.             *)
(***************************************************************************)
EXTENDS ShopBooks

CONSTANT Requests       \* the requests clients may send

\* The routes of a repayment, an opening balance and a deletion name the customer, and
\* the DTOs of a bill, a repayment and an expense take no negative amount.
ASSUME RequestsAssumption ==
  /\ Requests \subseteq Request
  /\ \A r \in Requests :
       /\ r.kind \in {"repay", "opening", "delete"} => r.customer \in Customer
       /\ r.kind \in {"sale", "repay", "expense", "editExpense"} => r.amount \in Nat

BalanceOf(c) == IF c = NoCustomer THEN 0 ELSE customers[c].balance

Live(c) == c = NoCustomer \/ ~customers[c].deleted

OwnDrawer(a) == {0, OpenShiftOf(a)}

SaleDrawer(r) == IF r.shift = 0 THEN OwnDrawer(r.actor) ELSE {r.shift}

ReversalDrawer(r) ==
  LET s == invoices[r.invoice].shift IN
  IF MayUseShift(r.actor, s) THEN {s} ELSE OwnDrawer(r.actor)

Sale(r) ==
  /\ r.kind = "sale" /\ Holder(r.key) = {}
  /\ ShiftAllowed(r) /\ Live(r.customer) /\ MayCredit(r, BalanceOf(r.customer))
  /\ r.amount > 0 => r.customer # NoCustomer
  /\ \E s \in SaleDrawer(r) :
       BookSale(r, s, BalanceOf(r.customer), lastNumber["SALE"] + 1)

Return(r) ==
  /\ r.kind = "return" /\ Holder(r.key) = {} /\ MayReturn(r)
  /\ LET balance == BalanceOf(invoices[r.invoice].customer) IN
     \E s \in ReversalDrawer(r) :
       /\ DrawerForRefund(r, s, balance)
       /\ BookReturn(r, s, balance, lastNumber["RETURN"] + 1)

Cancel(r) ==
  /\ r.kind = "cancel" /\ MayCancel(r.invoice)
  /\ LET balance == BalanceOf(invoices[r.invoice].customer) IN
     \E s \in ReversalDrawer(r) :
       /\ DrawerForRefund(r, s, balance)
       /\ BookCancel(r, s, balance)

Repay(r) ==
  /\ r.kind = "repay" /\ Payment(r.key) = {} /\ Live(r.customer)
  /\ MayRepay(r, BalanceOf(r.customer))
  /\ \E s \in OwnDrawer(r.actor) : BookRepayment(r, s, BalanceOf(r.customer))

Opening(r) ==
  /\ r.kind = "opening" /\ IsManager(r.actor) /\ Live(r.customer) /\ MayOpenBalance(r)
  /\ BookOpening(r)

OpenShift(r) ==
  r.kind = "open" /\ OpenShifts(r.actor) = {} /\ BookOpenShift(r)

CloseShift(r) ==
  /\ r.kind = "close" /\ ClosesShift(r)
  /\ BookCloseShift(IF r.shift = 0 THEN OpenShiftOf(r.actor) ELSE r.shift)

Expense(r) ==
  /\ r.kind = "expense"
  /\ \E s \in {0, PayingShift(r, NoExpense)} : BookExpense(r, 0, NoExpense, s)

EditExpense(r) ==
  /\ r.kind \in {"editExpense", "dropExpense"}
  /\ r.expense \in DOMAIN expenses /\ ~expenses[r.expense].deleted
  /\ LET was == expenses[r.expense] IN
     \E s \in IF was.shift = 0 THEN {0, PayingShift(r, was)} ELSE {was.shift} : BookExpense(r, r.expense, was, s)

Delete(r) ==
  /\ r.kind = "delete" /\ Live(r.customer) /\ BalanceOf(r.customer) = 0
  /\ BookDelete(r.customer)

Serve(r) ==
  \/ Sale(r) \/ Return(r) \/ Cancel(r) \/ Repay(r) \/ Opening(r) \/ OpenShift(r)
  \/ CloseShift(r) \/ Delete(r) \/ Expense(r) \/ EditExpense(r)

SerialNext == \E r \in Requests : Serve(r)

SerialSpec == InitBooks /\ [][SerialNext]_books

-----------------------------------------------------------------------------
(* What the books keep, one flow after the other *)

RowsOf(c) == {u \in DOMAIN udhar : udhar[u].customer = c}

\* Where a customer's balance stands after the udhar rows S, all of that customer.
EndOf(S) == IF S = {} THEN 0 ELSE udhar[Max(S)].after

(***************************************************************************)
(* A customer's balance is the end of an unbroken chain of udhar rows.     *)
(* Balances are written as a value computed from what was read under the   *)
(* row lock, so a lost update breaks the chain.                            *)
(***************************************************************************)
BalancesChained ==
  \A c \in Customer :
    /\ \A u \in RowsOf(c) : udhar[u].before = EndOf({v \in RowsOf(c) : v < u})
    /\ customers[c].balance = EndOf(RowsOf(c))

(***************************************************************************)
(* Document numbers are gapless and unique per series, whatever            *)
(* transactions were rolled back after they had taken a number.            *)
(***************************************************************************)
NumbersGapless ==
  \A series \in {"SALE", "RETURN"} :
    LET docs == {i \in DOMAIN invoices : invoices[i].type = series} IN
    /\ Cardinality(docs) = lastNumber[series]
    /\ {invoices[i].number : i \in docs} = 1 .. lastNumber[series]

(***************************************************************************)
(* A key is on one bill or return, and on one repayment.                   *)
(***************************************************************************)
KeysUnique ==
  /\ \A i, j \in DOMAIN invoices : invoices[i].key = invoices[j].key => i = j
  /\ \A u, v \in DOMAIN udhar :
       udhar[u].type = "PAYMENT" /\ udhar[v].type = "PAYMENT" /\ udhar[u].key = udhar[v].key
         => u = v

(***************************************************************************)
(* At most one open drawer per cashier, although two opens can both pass   *)
(* the check.                                                              *)
(***************************************************************************)
OneOpenShift == \A a \in Actor : Cardinality(OpenShifts(a)) <= 1

(***************************************************************************)
(* A customer whose deletion went through owes nothing and is owed         *)
(* nothing, although sales, repayments and reversals of old bills run at   *)
(* the same time.                                                          *)
(***************************************************************************)
DeletedOwesNothing == \A c \in Customer : customers[c].deleted => customers[c].balance = 0

-----------------------------------------------------------------------------
(***************************************************************************)
(* What these rest on: the shape of the tables.  What the columns hold is  *)
(* left out: none of the above needs it.                                   *)
(***************************************************************************)
InvoiceColumns ==
  {"type", "status", "key", "bill", "number", "customer", "shift", "qty", "returned", "total",
   "cash", "bank", "udhar", "original", "restock", "cancelShift"}

ShiftColumns ==
  {"owner", "status", "opening", "expected", "sales", "cash", "bank", "udhar", "receipts", "payouts"}

ExpenseColumns == {"amount", "paid", "tender", "deleted", "shift", "cash", "bank"}

\* A table is a sequence of rows, whatever is in them.
IsRows(table) == Len(table) \in Nat /\ table = [i \in 1 .. Len(table) |-> table[i]]

InvoicesShaped ==
  /\ IsRows(invoices)
  /\ \A i \in DOMAIN invoices :
       /\ DOMAIN invoices[i] = InvoiceColumns
       /\ invoices[i].type \in {"SALE", "RETURN"}
       /\ invoices[i].customer \in Customer \cup {NoCustomer}
       /\ invoices[i].shift \in {0} \cup DOMAIN shifts

ShiftsShaped ==
  /\ IsRows(shifts)
  /\ \A s \in DOMAIN shifts :
       DOMAIN shifts[s] = ShiftColumns /\ shifts[s].status \in {"OPEN", "CLOSED"}

ExpensesShaped ==
  /\ IsRows(expenses)
  /\ \A e \in DOMAIN expenses :
       DOMAIN expenses[e] = ExpenseColumns /\ expenses[e].shift \in {0} \cup DOMAIN shifts

CustomersShaped ==
  /\ IsRows(udhar)
  /\ customers = [c \in Customer |-> customers[c]]
  /\ \A c \in Customer : DOMAIN customers[c] = {"balance", "deleted"}

NumbersShaped == lastNumber \in [{"SALE", "RETURN"} -> Nat]

\* OneOpenShift, without counting.
OneDrawerEach ==
  \A s, t \in DOMAIN shifts :
    /\ shifts[s].status = "OPEN" /\ shifts[t].status = "OPEN"
    /\ shifts[s].owner = shifts[t].owner
    => s = t

BooksShaped ==
  /\ InvoicesShaped /\ ShiftsShaped /\ ExpensesShaped /\ CustomersShaped /\ NumbersShaped
  /\ OneDrawerEach
=============================================================================
