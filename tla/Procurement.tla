----------------------------- MODULE Procurement -----------------------------
(***************************************************************************)
(* What a shop buys from one supplier: a purchase order of one line, the   *)
(* goods receipts that fulfil it, the vendor bills and the returns of what *)
(* was received, the supplier's credit notes, the payments, and the        *)
(* supplier's balance (`pendingPayables`) that all of them move.           *)
(*                                                                         *)
(* A request is one READ COMMITTED transaction.  It goes through its Plan: *)
(* the rows it locks FOR UPDATE, one by one, and, between them, the place  *)
(* where it reads what no lock of its own protects ("read").  Its writes   *)
(* become visible, and its locks are let go, at its commit.  The product   *)
(* rows, the drawer and the ledger balances are locked after the rows of   *)
(* the plan and before the commit; StockRoom and PosBilling are about      *)
(* those.  Of the ledger only ACCOUNTS_PAYABLE is kept.                    *)
(***************************************************************************)
EXTENDS Integers, Sequences, FiniteSets, Functions

CONSTANTS Receipts, Bills, Returns, Notes,
          Person,
          Desk,          \* what may happen: pairs of a starting shop and the requests it gets
          MaxOpen,       \* bound: transactions open at the same time
          Cost,          \* net unit cost of the order line
          UnitTax,       \* GST per unit
          Tolerance,     \* how far a billed unit price may be from Cost
          Free           \* no one holds this row

ASSUME ProcurementAssumption ==
  /\ MaxOpen \in Nat \ {0}
  /\ Cost \in Nat \ {0} /\ UnitTax \in Nat /\ Tolerance \in Nat
  /\ IsFiniteSet(Receipts) /\ IsFiniteSet(Bills) /\ IsFiniteSet(Returns) /\ IsFiniteSet(Notes)

VARIABLES order, receipt, bill, return, note,
          alloc,         \* what of each note was applied to each bill
          payments,      \* SupplierPayment rows
          supplier,      \* pendingPayables, openingPayables, isDeleted
          posted,        \* the sources LedgerPosting knows
          stock,         \* units on hand
          asks,          \* the requests of this run
          tx,            \* where each request is
          lock           \* who holds each row

docs == <<order, receipt, bill, return, note, alloc, payments, supplier, posted, stock>>
vars == <<docs, asks, tx, lock>>

Documents == Receipts \cup Bills \cup Returns \cup Notes
Rows == {"order", "supplier"} \cup Documents

Request == [op : STRING, doc : Documents \cup {"order", "supplier"}, by : Person,
            n : Nat,                               \* a quantity or an amount
            price : Nat,                           \* of a bill: its unit price before GST
            ref : Documents \cup {"none"},         \* the document it refers to
            key : Nat,                             \* of a payment: the idempotency key, 0 for none
            result : {"PASS", "FAIL", "REJECT", "LINES"}]    \* of an inspection

-----------------------------------------------------------------------------
(* The life cycles: where a document may go from each status *)

OrderMoves ==
  [NONE |-> {}, DRAFT |-> {"SUBMITTED", "CANCELLED"},
   SUBMITTED |-> {"UNDER_REVIEW", "APPROVED", "REJECTED", "CANCELLED"},
   APPROVED |-> {"ORDERED", "PARTIALLY_RECEIVED", "RECEIVED", "CANCELLED"},
   PARTIALLY_RECEIVED |-> {"PARTIALLY_RECEIVED", "RECEIVED", "CANCELLED"},
   RECEIVED |-> {"BILLED", "CLOSED"}, REJECTED |-> {"DRAFT", "ARCHIVED"}]

ReceiptMoves ==
  [NONE |-> {}, DRAFT |-> {"RECEIVING", "CANCELLED"},
   RECEIVING |-> {"RECEIVING", "PARTIALLY_RECEIVED", "QUALITY_INSPECTION", "ACCEPTED", "REJECTED", "CANCELLED"},
   QUALITY_INSPECTION |-> {"QUALITY_INSPECTION", "ACCEPTED", "REJECTED", "CANCELLED"},
   ACCEPTED |-> {"COMPLETED"}, COMPLETED |-> {"CLOSED"},
   REJECTED |-> {"ARCHIVED"}, CANCELLED |-> {"ARCHIVED"}]

BillMoves ==
  [NONE |-> {}, DRAFT |-> {"SUBMITTED", "CANCELLED"},
   PENDING_APPROVAL |-> {"APPROVED", "REJECTED", "CANCELLED"}, APPROVED |-> {"POSTED"},
   POSTED |-> {"PARTIALLY_PAID", "PAID"}, PARTIALLY_PAID |-> {"PARTIALLY_PAID", "PAID"},
   PAID |-> {"CLOSED"}, REJECTED |-> {"ARCHIVED"}, CANCELLED |-> {"ARCHIVED"}]

ReturnMoves ==
  [NONE |-> {}, DRAFT |-> {"SUBMITTED", "CANCELLED"},
   PENDING_APPROVAL |-> {"APPROVED", "REJECTED", "CANCELLED"},
   APPROVED |-> {"SHIPPED", "COMPLETED"}, SHIPPED |-> {"COMPLETED"}, COMPLETED |-> {},
   REJECTED |-> {"ARCHIVED", "DRAFT"}, CANCELLED |-> {"ARCHIVED"}]

NoteMoves ==
  [NONE |-> {}, DRAFT |-> {"SUBMITTED", "CANCELLED"},
   PENDING_APPROVAL |-> {"APPROVED", "REJECTED", "CANCELLED"},
   ISSUED |-> {"ALLOCATED", "CLOSED"}, ALLOCATED |-> {"CLOSED"}, CLOSED |-> {"ARCHIVED"},
   REJECTED |-> {"ARCHIVED", "DRAFT"}, CANCELLED |-> {"ARCHIVED"}]

Receivable == {"APPROVED", "ORDERED", "PARTIALLY_RECEIVED"}
InStock == {"ACCEPTED", "COMPLETED", "CLOSED"}
Undecided == {"DRAFT", "SUBMITTED", "PENDING_APPROVAL"}          \* CANCELLABLE
OnBooks(b) == b.status \in {"POSTED", "PARTIALLY_PAID", "PAID"}
Issued(n) == n.status \in {"ISSUED", "ALLOCATED", "CLOSED"}

\* What a row x counts for: units of goods, or the amount of a note.
TakenIn(x) == IF x.status \in InStock THEN x.accepted ELSE 0
BilledFor(x, r) == IF x.ref = r /\ x.status \notin {"NONE", "DRAFT", "REJECTED", "CANCELLED"} THEN x.qty ELSE 0
ReturnedFor(x, r) ==
  IF x.ref = r /\ x.status \in {"SUBMITTED", "PENDING_APPROVAL", "APPROVED", "SHIPPED", "COMPLETED"} THEN x.qty ELSE 0
SentBack(x) == IF x.status = "COMPLETED" THEN x.qty ELSE 0
NotedFor(x, v) == IF x.ref = v /\ x.status \notin {"NONE", "REJECTED", "CANCELLED"} THEN x.total ELSE 0
CreditedFor(x, v) == IF x.ref = v /\ Issued(x) THEN x.total ELSE 0

BillTotal(b) == b.qty * (b.price + UnitTax)
ReturnTotal(v) == v.qty * (Cost + UnitTax)

\* What a bill adds to the balance: its tax and its price difference.
PostedFor(b) == IF OnBooks(b) THEN BillTotal(b) - b.qty * Cost ELSE 0

-----------------------------------------------------------------------------
(* What a run starts from *)

NoOrder == [status |-> "NONE", qty |-> 0, asked |-> {}, decided |-> {}]
NoReceipt == [status |-> "NONE", asked |-> {}, decided |-> {}, outstanding |-> 0, received |-> 0, accepted |-> 0, inspected |-> FALSE]
NoBill == [status |-> "NONE", asked |-> {}, decided |-> {}, ref |-> "none", qty |-> 0, price |-> 0, paid |-> 0, outstanding |-> 0]
NoReturn == [status |-> "NONE", asked |-> {}, decided |-> {}, ref |-> "none", qty |-> 0]
NoNote == [status |-> "NONE", asked |-> {}, decided |-> {}, ref |-> "none", total |-> 0, remaining |-> 0]

\* Nobody decides on a draft, nor on what he asked for, but that whoever asked for
\* an order may reject it: who asks is looked at on APPROVE alone.
RowSound(x) == x.asked \cap x.decided = {} /\ (x.status \in {"NONE", "DRAFT"} => x.decided = {})
OrderSound(x) ==
  (x.status # "REJECTED" => x.asked \cap x.decided = {}) /\ (x.status \in {"NONE", "DRAFT"} => x.decided = {})

TableSound(table, ids, blank, moves) ==
  /\ table = [d \in ids |-> table[d]]
  /\ \A d \in ids : /\ DOMAIN table[d] = DOMAIN blank
                    /\ table[d].status \in DOMAIN moves /\ RowSound(table[d])

\* What the rows count, and what is on the books of a shop without payments and notes.
ShopCounts(s) ==
  /\ s.order.qty \in Nat
  /\ \A r \in Receipts : s.receipt[r].accepted \in Nat /\ s.receipt[r].received \in Nat
  /\ \A b \in Bills : LET x == s.bill[b] IN x.qty \in Nat /\ x.price \in Nat /\ x.paid = 0 /\ x.outstanding = BillTotal(x)
  /\ \A v \in Returns : s.return[v].qty \in Nat
  /\ DOMAIN s.supplier = {"pending", "opening", "deleted"} /\ s.supplier.opening \in Int

ShopBooked(s) ==
  LET goods == SumFunctionOnSet([r \in Receipts |-> TakenIn(s.receipt[r])], Receipts)
      billed == SumFunctionOnSet([b \in Bills |-> PostedFor(s.bill[b])], Bills)
      sent == SumFunctionOnSet([v \in Returns |-> SentBack(s.return[v])], Returns)
  IN /\ goods <= s.order.qty /\ (s.order.status \in {"NONE", "DRAFT"} => goods = 0)
     /\ s.supplier.pending = s.supplier.opening + goods * Cost + billed - sent * Cost
     /\ s.stock = goods - sent
     /\ \A r \in Receipts : r \in s.posted => s.receipt[r].status \in InStock
     /\ \A b \in Bills : b \in s.posted => OnBooks(s.bill[b])
     /\ \A v \in Returns : v \in s.posted <=> s.return[v].status = "COMPLETED"
     /\ s.posted \cap Notes = {}

\* A shop that earlier requests have led to; none of them has paid a bill yet.
ShopSound(s) ==
  /\ ShopCounts(s) /\ ShopBooked(s)
  /\ DOMAIN s.order = DOMAIN NoOrder /\ s.order.status \in DOMAIN OrderMoves /\ OrderSound(s.order)
  /\ TableSound(s.receipt, Receipts, NoReceipt, ReceiptMoves)
  /\ TableSound(s.bill, Bills, NoBill, BillMoves)
  /\ TableSound(s.return, Returns, NoReturn, ReturnMoves)
  /\ \A b \in Bills : s.bill[b].outstanding \in Nat /\ s.bill[b].status \notin {"PARTIALLY_PAID", "PAID"}

\* A request names a document of the kind its route is about; only payments carry a key.
RequestSound(t) ==
  /\ \/ t.op \in {"createOrder", "editOrder", "submitOrder", "approveOrder", "rejectOrder"} /\ t.doc = "order"
     \/ /\ t.op \in {"createReceipt", "receiveGoods", "inspectGoods", "acceptGoods", "approveReceipt",
                     "rejectReceipt", "cancelReceipt"}
        /\ t.doc \in Receipts
     \/ /\ t.op \in {"createBill", "submitBill", "approveBill", "rejectBill", "cancelBill", "postBill", "payBill"}
        /\ t.doc \in Bills /\ (t.op = "createBill" => t.ref \in Receipts)
     \/ /\ t.op \in {"createReturn", "submitReturn", "approveReturn", "rejectReturn", "cancelReturn",
                     "shipReturn", "completeReturn"}
        /\ t.doc \in Returns /\ (t.op = "createReturn" => t.ref \in Receipts)
     \/ /\ t.op \in {"createNote", "submitNote", "approveNote", "rejectNote", "cancelNote", "allocateNote", "closeNote"}
        /\ t.doc \in Notes /\ (t.op = "allocateNote" => t.ref \in Bills)
        /\ (t.op = "createNote" => t.ref \in Returns \cup {"none"})
     \/ t.op \in {"paySupplier", "deleteSupplier"} /\ t.doc = "supplier"
  /\ t.key # 0 => t.op \in {"payBill", "paySupplier"}

\* Ids are of one kind each.
IdsApart ==
  /\ Receipts \cap (Bills \cup Returns \cup Notes) = {} /\ Bills \cap (Returns \cup Notes) = {} /\ Returns \cap Notes = {}
  /\ {"order", "supplier", "none", "read"} \cap Documents = {}

Requests == UNION {d.asks : d \in Desk}

ASSUME DesksAssumption ==
  /\ IdsApart /\ Free \notin Requests
  /\ \A d \in Desk : ShopSound(d.shop) /\ \A t \in d.asks : t \in Request /\ RequestSound(t)

-----------------------------------------------------------------------------
(* What the documents add up to *)

Floor(n) == IF n > 0 THEN n ELSE 0

\* Accepted over the order's receipts, `but` left out.
Accepted(but) == SumFunctionOnSet([r \in Receipts |-> TakenIn(receipt[r])], Receipts \ {but})

\* Billed over the live bills of receipt r, `but` left out.
Billed(r, but) == SumFunctionOnSet([b \in Bills |-> BilledFor(bill[b], r)], Bills \ {but})

\* Returned by the counted returns of receipt r, `but` left out.
Returned(r, but) == SumFunctionOnSet([v \in Returns |-> ReturnedFor(return[v], r)], Returns \ {but})

\* The live notes of return v, `but` left out; and the issued ones.
Noted(v, but) == SumFunctionOnSet([n \in Notes |-> NotedFor(note[n], v)], Notes \ {but})
Credited(v) == SumFunctionOnSet([n \in Notes |-> CreditedFor(note[n], v)], Notes)

ReturnPosted(v) == IF v \in posted THEN return[v].qty * Cost ELSE 0
PriceFits(p) == p - Cost <= Tolerance /\ Cost - p <= Tolerance

-----------------------------------------------------------------------------
(* A transaction: its plan, its locks, what it reads on the way *)

\* Mutant of AcceptPlan: what other receipts accepted is read without the order's lock.
AcceptPlanUnordered(t) == <<"read", t.doc, "supplier">>

\* Goods are accepted under the order's lock, taken before the receipt's.
AcceptPlan(t) == <<"order", "read", t.doc, "supplier">>

\* Mutant of PayBillPlan: the bill is read without a lock (release audit S5).
PayBillPlanUnlocked(t) == <<"read", "supplier">>

\* A bill is locked before its balance is read.
PayBillPlan(t) == <<t.doc, "read", "supplier">>

\* Mutant of NotePlan: the notes of the return are added up without its lock.
NotePlanUnlocked(t) == <<"read">>

\* A note of a return is checked against the return's other notes under the return's lock.
NotePlan(t) == IF t.ref = "none" THEN <<"read">> ELSE <<t.ref, "read">>

Plan(t) ==
  CASE t.op \in {"createOrder", "createBill", "createReturn"} -> <<"read">>
    [] t.op \in {"submitOrder", "approveOrder", "rejectOrder"} -> <<"read", "order">>
    [] t.op = "editOrder" -> <<"order">>
    [] t.op = "createReceipt" -> <<"order", "read">>
    [] t.op = "acceptGoods" -> AcceptPlan(t)
    [] t.op \in {"submitBill", "submitReturn"} -> <<t.doc, "read">>
    [] t.op = "payBill" -> PayBillPlan(t)
    [] t.op \in {"postBill", "completeReturn"} -> <<t.doc, "supplier">>
    [] t.op = "createNote" -> NotePlan(t)
    [] t.op = "approveNote" -> IF note[t.doc].ref = "none" THEN <<t.doc, "supplier">>
                               ELSE <<t.doc, note[t.doc].ref, "read", "supplier">>
    [] t.op = "allocateNote" -> <<t.ref, t.doc>>
    [] OTHER -> <<t.doc>>         \* the document's own row, or the supplier's

\* Mutant of MayDecide: everyone may.
MayDecideOwn(who, asked) == who \in Person

\* Separation of duties: who created, edited or submitted a document does not decide it.
MayDecide(who, asked) == who \notin asked

\* The number a transaction reads at "read", and whether its unlocked checks held.
Look(t) ==
  CASE t.op \in {"createReceipt", "acceptGoods"} -> [n |-> Accepted(t.doc), ok |-> ~supplier.deleted]
    [] t.op = "createOrder" -> [n |-> 0, ok |-> ~supplier.deleted]
    [] t.op = "submitOrder" -> [n |-> 0, ok |-> order.status = "DRAFT"]
    [] t.op = "approveOrder" -> [n |-> 0, ok |-> order.status = "SUBMITTED" /\ MayDecide(t.by, order.asked)]
    [] t.op = "rejectOrder" -> [n |-> 0, ok |-> order.status = "SUBMITTED"]
    [] t.op = "createBill" -> [n |-> 0, ok |-> ~supplier.deleted /\ receipt[t.ref].status \in InStock /\ PriceFits(t.price)]
    [] t.op = "submitBill" -> [n |-> Billed(bill[t.doc].ref, t.doc),
                               ok |-> receipt[bill[t.doc].ref].status \in InStock /\ PriceFits(bill[t.doc].price)]
    [] t.op = "createReturn" -> [n |-> Returned(t.ref, t.doc), ok |-> ~supplier.deleted /\ receipt[t.ref].status \in InStock]
    [] t.op = "submitReturn" -> [n |-> Returned(return[t.doc].ref, t.doc), ok |-> receipt[return[t.doc].ref].status \in InStock]
    [] t.op = "payBill" -> [n |-> bill[t.doc].outstanding, ok |-> t.key = 0 \/ \A p \in payments : p.key # t.key]
    [] t.op = "createNote" -> [n |-> IF t.ref = "none" THEN 0 ELSE Noted(t.ref, t.doc), ok |-> ~supplier.deleted]
    [] t.op = "approveNote" -> [n |-> Noted(note[t.doc].ref, t.doc), ok |-> TRUE]
    [] OTHER -> [n |-> 0, ok |-> TRUE]

Open(t) == tx[t].at > 0 /\ tx[t].end = "no"
Seen(t) == tx[t].seen

\* The payment an idempotency key already stands for.
Known(t) == {p \in payments : t.key # 0 /\ p.key = t.key}

\* Mutant of SamePayment: a payment on account is compared with the document it was sent for.
SamePaymentOfDocument(t, p) == p.amount = t.n /\ p.bill = t.doc

SamePayment(t, p) == p.amount = t.n /\ p.bill = (IF t.op = "payBill" THEN t.doc ELSE "none")

Outstanding(s) == Floor(order.qty - s.n)

\* What an acceptance takes: the inspected quantity where there was an inspection.
Taking(r) == IF receipt[r].inspected THEN receipt[r].accepted ELSE receipt[r].received

\* Mutant of CanOrder: a draft is not looked at again once its row is locked.
CanOrderAsFound(t, s) ==
  t.op \in {"createOrder", "editOrder"} \/ (s.ok /\ order.status = (IF t.op = "submitOrder" THEN "DRAFT" ELSE "SUBMITTED"))

CanOrder(t, s) ==
  CASE t.op = "createOrder" -> s.ok
    [] t.op = "editOrder" -> order.status = "DRAFT"
    [] OTHER -> s.ok /\ order.status = (IF t.op = "submitOrder" THEN "DRAFT" ELSE "SUBMITTED")

CanReceipt(t, s) ==
  LET r == receipt[t.doc]
      may(to) == to \in ReceiptMoves[r.status]
  IN CASE t.op = "createReceipt" -> s.ok /\ order.status \in Receivable /\ t.n <= Outstanding(s)
       [] t.op = "receiveGoods" -> may("RECEIVING") /\ t.n <= r.outstanding
       [] t.op = "inspectGoods" -> may("QUALITY_INSPECTION") /\ (t.result = "LINES" => t.n <= r.received)
       [] t.op = "acceptGoods" -> /\ order.status \in Receivable
                                  /\ may("ACCEPTED") /\ r.received > 0
                                  /\ Taking(t.doc) <= Outstanding(s)
       [] t.op = "approveReceipt" -> r.status = "ACCEPTED" /\ MayDecide(t.by, r.asked)
       [] t.op = "rejectReceipt" -> r.status \in {"RECEIVING", "PARTIALLY_RECEIVED", "QUALITY_INSPECTION"}
                                    /\ MayDecide(t.by, r.asked)
       [] OTHER -> may("CANCELLED")                                            \* cancelReceipt

CanBill(t, s) ==
  LET b == bill[t.doc] IN
  CASE t.op = "createBill" -> s.ok
    [] t.op = "submitBill" -> /\ "SUBMITTED" \in BillMoves[b.status] /\ s.ok
                              /\ s.n + b.qty <= receipt[b.ref].accepted
                              /\ s.n + b.qty <= order.qty
    [] t.op \in {"approveBill", "rejectBill"} -> b.status = "PENDING_APPROVAL" /\ MayDecide(t.by, b.asked)
    [] t.op = "cancelBill" -> b.status \in Undecided
    [] t.op = "postBill" -> "POSTED" \in BillMoves[b.status]
    [] OTHER -> IF s.ok                                                        \* payBill
                THEN /\ b.status \in {"POSTED", "PARTIALLY_PAID"} /\ t.n <= s.n
                     /\ ~supplier.deleted
                     /\ IF Known(t) # {} THEN \A p \in Known(t) : SamePayment(t, p) ELSE t.n <= supplier.pending
                ELSE \E p \in Known(t) : p.bill = t.doc

CanReturn(t, s) ==
  LET v == return[t.doc] IN
  CASE t.op = "createReturn" -> s.ok /\ t.n > 0 /\ s.n + t.n <= receipt[t.ref].accepted
    [] t.op = "submitReturn" -> "SUBMITTED" \in ReturnMoves[v.status] /\ s.ok /\ s.n + v.qty <= receipt[v.ref].accepted
    [] t.op \in {"approveReturn", "rejectReturn"} -> v.status = "PENDING_APPROVAL" /\ MayDecide(t.by, v.asked)
    [] t.op = "cancelReturn" -> v.status \in Undecided
    [] t.op = "shipReturn" -> "SHIPPED" \in ReturnMoves[v.status]
    [] OTHER -> "COMPLETED" \in ReturnMoves[v.status]                         \* completeReturn

\* A note of a return: the return is COMPLETED and its notes stay within its value.
Backed(ref, total, s) == ref # "none" => return[ref].status = "COMPLETED" /\ s.n + total <= ReturnTotal(return[ref])

CanNote(t, s) ==
  LET n == note[t.doc] IN
  CASE t.op = "createNote" -> s.ok /\ t.n > 0 /\ Backed(t.ref, t.n, s)
    [] t.op = "submitNote" -> "SUBMITTED" \in NoteMoves[n.status]
    [] t.op = "approveNote" -> n.status = "PENDING_APPROVAL" /\ MayDecide(t.by, n.asked) /\ Backed(n.ref, n.total, s)
    [] t.op = "rejectNote" -> n.status = "PENDING_APPROVAL" /\ MayDecide(t.by, n.asked)
    [] t.op = "cancelNote" -> n.status \in Undecided
    [] t.op = "allocateNote" -> /\ n.status \in {"ISSUED", "ALLOCATED"} /\ bill[t.ref].status \in {"POSTED", "PARTIALLY_PAID"}
                                /\ t.n <= n.remaining /\ t.n <= bill[t.ref].outstanding
    [] OTHER -> "CLOSED" \in NoteMoves[n.status]                              \* closeNote

CanPay(t, s) ==
  IF t.op = "deleteSupplier" THEN ~supplier.deleted /\ supplier.pending = 0
  ELSE /\ ~supplier.deleted                                                    \* paySupplier
       /\ IF Known(t) # {} THEN \A p \in Known(t) : SamePayment(t, p) ELSE t.n <= supplier.pending

\* What the handler lets through, given what it saw at its "read".
Can(t, s) ==
  CASE t.doc = "order" -> CanOrder(t, s)
    [] t.doc \in Receipts -> CanReceipt(t, s)
    [] t.doc \in Bills -> CanBill(t, s)
    [] t.doc \in Returns -> CanReturn(t, s)
    [] t.doc \in Notes -> CanNote(t, s)
    [] OTHER -> CanPay(t, s)

\* A request that would be refused even on its own changes nothing and is not sent.
Creates == {"createOrder", "createReceipt", "createBill", "createReturn", "createNote"}
Exists(d) ==
  CASE d = "order" -> order.status # "NONE"
    [] d \in Receipts -> receipt[d].status # "NONE"
    [] d \in Bills -> bill[d].status # "NONE"
    [] d \in Returns -> return[d].status # "NONE"
    [] d \in Notes -> note[d].status # "NONE"
    [] OTHER -> TRUE

\* A document is created by one request (its id is new).
Creating(d) == \E u \in asks : u.op \in Creates /\ u.doc = d /\ Open(u)

Ripe(t) ==
  /\ IF t.op \in Creates THEN ~Exists(t.doc) /\ ~Creating(t.doc) ELSE Exists(t.doc)
  /\ Can(t, Look(t))

\* The handler of a request begins.
Send(t) ==
  /\ t \in asks /\ tx[t].at = 0 /\ Ripe(t)
  /\ Cardinality({u \in asks : Open(u)}) < MaxOpen
  /\ tx' = [tx EXCEPT ![t].at = 1]
  /\ UNCHANGED <<docs, asks, lock>>

\* The next step of the plan: a row lock, granted when the row is free, or the unlocked read.
Advance(t) ==
  /\ t \in asks /\ Open(t) /\ tx[t].at <= Len(Plan(t))
  /\ LET step == Plan(t)[tx[t].at] IN
       \/ /\ step = "read"
          /\ tx' = [tx EXCEPT ![t].at = @ + 1, ![t].seen = Look(t)]
          /\ UNCHANGED lock
       \/ /\ step # "read" /\ lock[step] = Free
          /\ lock' = [lock EXCEPT ![step] = t]
          /\ tx' = [tx EXCEPT ![t].at = @ + 1]
  /\ UNCHANGED <<docs, asks>>

AtEnd(t) == t \in asks /\ Open(t) /\ tx[t].at > Len(Plan(t))

\* Mutant of Finish: a transaction that threw is never rolled back.
FinishLeaking(t, how) ==
  /\ tx' = [tx EXCEPT ![t].end = how]
  /\ lock' = [r \in Rows |-> IF lock[r] = t /\ how = "done" THEN Free ELSE lock[r]]
  /\ UNCHANGED asks

\* The transaction ends and lets its rows go.
Finish(t, how) ==
  /\ tx' = [tx EXCEPT ![t].end = how]
  /\ lock' = [r \in Rows |-> IF lock[r] = t THEN Free ELSE lock[r]]
  /\ UNCHANGED asks

\* The transaction is done when the code got to the end, refused when it threw.
Commits(t, op) == t.op = op /\ AtEnd(t) /\ Can(t, Seen(t)) /\ Finish(t, "done")

Refuse(t) == AtEnd(t) /\ ~Can(t, Seen(t)) /\ Finish(t, "refused") /\ UNCHANGED docs

\* What a transaction that writes one kind of document leaves alone.
OnlyOrder == UNCHANGED <<receipt, bill, return, note, alloc, payments, supplier, posted, stock>>
OnlyReceipt == UNCHANGED <<order, bill, return, note, alloc, payments, supplier, posted, stock>>
OnlyBill == UNCHANGED <<order, receipt, return, note, alloc, payments, supplier, posted, stock>>
OnlyReturn == UNCHANGED <<order, receipt, bill, note, alloc, payments, supplier, posted, stock>>
OnlyNote == UNCHANGED <<order, receipt, bill, return, alloc, payments, supplier, posted, stock>>

-----------------------------------------------------------------------------
(* The purchase order *)

CreateOrder(t) ==
  /\ Commits(t, "createOrder")
  /\ order' = [order EXCEPT !.status = "DRAFT", !.qty = t.n, !.asked = {t.by}]
  /\ OnlyOrder

EditOrder(t) ==
  /\ Commits(t, "editOrder")
  /\ order' = [order EXCEPT !.qty = t.n, !.asked = @ \cup {t.by}]
  /\ OnlyOrder

SubmitOrder(t) ==
  /\ Commits(t, "submitOrder")
  /\ order' = [order EXCEPT !.status = "SUBMITTED", !.asked = @ \cup {t.by}]
  /\ OnlyOrder

ApproveOrder(t) ==
  /\ Commits(t, "approveOrder")
  /\ order' = [order EXCEPT !.status = "APPROVED", !.decided = {t.by}]
  /\ OnlyOrder

RejectOrder(t) ==
  /\ Commits(t, "rejectOrder")
  /\ order' = [order EXCEPT !.status = "REJECTED", !.decided = {t.by}]
  /\ OnlyOrder

-----------------------------------------------------------------------------
(* Goods receipts *)

CreateReceipt(t) ==
  /\ Commits(t, "createReceipt")
  /\ receipt' = [receipt EXCEPT ![t.doc] = [@ EXCEPT !.status = "DRAFT", !.asked = {t.by},
                    !.outstanding = Outstanding(Seen(t)), !.received = t.n]]
  /\ OnlyReceipt

ReceiveGoods(t) ==
  /\ Commits(t, "receiveGoods")
  /\ receipt' = [receipt EXCEPT ![t.doc].status = "RECEIVING", ![t.doc].received = t.n]
  /\ OnlyReceipt

\* With lines the inspected quantity, without them everything received or nothing.
InspectGoods(t) ==
  /\ Commits(t, "inspectGoods")
  /\ receipt' = [receipt EXCEPT ![t.doc] = [@ EXCEPT
       !.status = IF t.result = "REJECT" THEN "REJECTED" ELSE "QUALITY_INSPECTION",
       !.inspected = TRUE,
       !.accepted = CASE t.result = "LINES" -> t.n
                      [] t.result = "PASS" -> receipt[t.doc].received
                      [] OTHER -> 0]]
  /\ OnlyReceipt

\* One posting that moves the payable: nothing when its source was posted before.
PostWithPayable(source, delta) ==
  /\ posted' = posted \cup {source}
  /\ supplier' = [supplier EXCEPT !.pending = @ + IF source \in posted THEN 0 ELSE delta]

\* Into stock, onto the books, and the order's received state.
AcceptGoods(t) ==
  /\ Commits(t, "acceptGoods")
  /\ LET taken == Taking(t.doc) IN
       /\ receipt' = [receipt EXCEPT ![t.doc].status = "ACCEPTED", ![t.doc].accepted = taken]
       /\ stock' = stock + taken
       /\ IF taken > 0 THEN PostWithPayable(t.doc, taken * Cost) ELSE UNCHANGED <<posted, supplier>>
       /\ order' = [order EXCEPT !.status = IF Accepted(t.doc) + taken >= order.qty THEN "RECEIVED" ELSE "PARTIALLY_RECEIVED"]
  /\ UNCHANGED <<bill, return, note, alloc, payments>>

ApproveReceipt(t) ==
  /\ Commits(t, "approveReceipt")
  /\ receipt' = [receipt EXCEPT ![t.doc].status = "COMPLETED", ![t.doc].decided = {t.by}]
  /\ OnlyReceipt

RejectReceipt(t) ==
  /\ Commits(t, "rejectReceipt")
  /\ receipt' = [receipt EXCEPT ![t.doc].status = "REJECTED", ![t.doc].decided = {t.by}]
  /\ OnlyReceipt

CancelReceipt(t) ==
  /\ Commits(t, "cancelReceipt")
  /\ receipt' = [receipt EXCEPT ![t.doc].status = "CANCELLED"]
  /\ OnlyReceipt

-----------------------------------------------------------------------------
(* Vendor bills and payments *)

CreateBill(t) ==
  /\ Commits(t, "createBill")
  /\ bill' = [bill EXCEPT ![t.doc] = [@ EXCEPT !.status = "DRAFT", !.asked = {t.by}, !.ref = t.ref,
                !.qty = t.n, !.price = t.price, !.outstanding = t.n * (t.price + UnitTax)]]
  /\ OnlyBill

\* Mutant of SubmitBill: no approval step is opened.
SubmitBillOnly(t) ==
  /\ Commits(t, "submitBill")
  /\ bill' = [bill EXCEPT ![t.doc].status = "SUBMITTED", ![t.doc].asked = @ \cup {t.by}]
  /\ OnlyBill

SubmitBill(t) ==
  /\ Commits(t, "submitBill")
  /\ bill' = [bill EXCEPT ![t.doc].status = "PENDING_APPROVAL", ![t.doc].asked = @ \cup {t.by}]
  /\ OnlyBill

DecideBill(t) ==
  /\ \/ Commits(t, "approveBill") /\ bill' = [bill EXCEPT ![t.doc].status = "APPROVED", ![t.doc].decided = {t.by}]
     \/ Commits(t, "rejectBill") /\ bill' = [bill EXCEPT ![t.doc].status = "REJECTED", ![t.doc].decided = {t.by}]
  /\ OnlyBill

CancelBill(t) ==
  /\ Commits(t, "cancelBill")
  /\ bill' = [bill EXCEPT ![t.doc].status = "CANCELLED"]
  /\ OnlyBill

\* The bill adds its tax and its price difference: the receipt already put the goods on the books.
PostBill(t) ==
  /\ Commits(t, "postBill")
  /\ bill' = [bill EXCEPT ![t.doc].status = "POSTED"]
  /\ PostWithPayable(t.doc, BillTotal(bill[t.doc]) - bill[t.doc].qty * Cost)
  /\ UNCHANGED <<order, receipt, return, note, alloc, payments, stock>>

\* Bill b, of which `left` was open, once `amount` more is settled.
Settle(b, left, amount) ==
  [bill EXCEPT ![b].outstanding = left - amount,
               ![b].status = IF left - amount <= 0 THEN "PAID" ELSE "PARTIALLY_PAID"]

\* The payment itself: replayed when the key is known by now.
Pay(t, b) ==
  IF Known(t) = {}
  THEN /\ payments' = payments \cup {[id |-> Cardinality(payments), key |-> t.key, bill |-> b, amount |-> t.n]}
       /\ supplier' = [supplier EXCEPT !.pending = @ - t.n]
  ELSE UNCHANGED <<payments, supplier>>

PayBill(t) ==
  /\ Commits(t, "payBill")
  /\ IF Seen(t).ok
     THEN bill' = [Settle(t.doc, Seen(t).n, t.n) EXCEPT ![t.doc].paid = @ + t.n] /\ Pay(t, t.doc)
     ELSE UNCHANGED <<bill, payments, supplier>>
  /\ UNCHANGED <<order, receipt, return, note, alloc, posted, stock>>

PaySupplier(t) ==
  /\ Commits(t, "paySupplier")
  /\ Pay(t, "none")
  /\ UNCHANGED <<order, receipt, bill, return, note, alloc, posted, stock>>

DeleteSupplier(t) ==
  /\ Commits(t, "deleteSupplier")
  /\ supplier' = [supplier EXCEPT !.deleted = TRUE]
  /\ UNCHANGED <<order, receipt, bill, return, note, alloc, payments, posted, stock>>

-----------------------------------------------------------------------------
(* Purchase returns *)

CreateReturn(t) ==
  /\ Commits(t, "createReturn")
  /\ return' = [return EXCEPT ![t.doc] = [@ EXCEPT !.status = "DRAFT", !.asked = {t.by}, !.ref = t.ref, !.qty = t.n]]
  /\ OnlyReturn

SubmitReturn(t) ==
  /\ Commits(t, "submitReturn")
  /\ return' = [return EXCEPT ![t.doc].status = "PENDING_APPROVAL", ![t.doc].asked = @ \cup {t.by}]
  /\ OnlyReturn

DecideReturn(t) ==
  /\ \/ Commits(t, "approveReturn") /\ return' = [return EXCEPT ![t.doc].status = "APPROVED", ![t.doc].decided = {t.by}]
     \/ Commits(t, "rejectReturn") /\ return' = [return EXCEPT ![t.doc].status = "REJECTED", ![t.doc].decided = {t.by}]
  /\ OnlyReturn

CancelReturn(t) ==
  /\ Commits(t, "cancelReturn")
  /\ return' = [return EXCEPT ![t.doc].status = "CANCELLED"]
  /\ OnlyReturn

ShipReturn(t) ==
  /\ Commits(t, "shipReturn")
  /\ return' = [return EXCEPT ![t.doc].status = "SHIPPED"]
  /\ OnlyReturn

\* The goods leave the stock (below zero if need be) and the supplier is owed their cost less.
CompleteReturn(t) ==
  /\ Commits(t, "completeReturn")
  /\ return' = [return EXCEPT ![t.doc].status = "COMPLETED"]
  /\ stock' = stock - return[t.doc].qty
  /\ PostWithPayable(t.doc, -(return[t.doc].qty * Cost))
  /\ UNCHANGED <<order, receipt, bill, note, alloc, payments>>

-----------------------------------------------------------------------------
(* Supplier credit notes *)

CreateNote(t) ==
  /\ Commits(t, "createNote")
  /\ note' = [note EXCEPT ![t.doc] = [@ EXCEPT !.status = "DRAFT", !.asked = {t.by}, !.ref = t.ref, !.total = t.n, !.remaining = t.n]]
  /\ OnlyNote

SubmitNote(t) ==
  /\ Commits(t, "submitNote")
  /\ note' = [note EXCEPT ![t.doc].status = "PENDING_APPROVAL", ![t.doc].asked = @ \cup {t.by}]
  /\ OnlyNote

\* Mutant of IssueDebit: every note is held against the return on its own.
IssueDebitAlone(n) ==
  IF note[n].ref = "none" THEN note[n].total ELSE Floor(note[n].total - ReturnPosted(note[n].ref))

\* What issuing the note takes off the payable: all of it, or, for a note of a
\* return, the part of the return's issued notes above what the return posted.
IssueDebit(n) ==
  LET above(credited) == Floor(credited - ReturnPosted(note[n].ref))
      before == Credited(note[n].ref)
  IN IF note[n].ref = "none" THEN note[n].total ELSE above(before + note[n].total) - above(before)

ApproveNote(t) ==
  /\ Commits(t, "approveNote")
  /\ note' = [note EXCEPT ![t.doc].status = "ISSUED", ![t.doc].decided = {t.by}]
  /\ IF IssueDebit(t.doc) > 0 THEN PostWithPayable(t.doc, -IssueDebit(t.doc)) ELSE UNCHANGED <<posted, supplier>>
  /\ UNCHANGED <<order, receipt, bill, return, alloc, payments, stock>>

RejectNote(t) ==
  /\ Commits(t, "rejectNote")
  /\ note' = [note EXCEPT ![t.doc].status = "REJECTED", ![t.doc].decided = {t.by}]
  /\ OnlyNote

CancelNote(t) ==
  /\ Commits(t, "cancelNote")
  /\ note' = [note EXCEPT ![t.doc].status = "CANCELLED"]
  /\ OnlyNote

AllocateNote(t) ==
  /\ Commits(t, "allocateNote")
  /\ note' = [note EXCEPT ![t.doc].remaining = @ - t.n, ![t.doc].status = "ALLOCATED"]
  /\ bill' = Settle(t.ref, bill[t.ref].outstanding, t.n)
  /\ alloc' = [alloc EXCEPT ![<<t.doc, t.ref>>] = @ + t.n]
  /\ UNCHANGED <<order, receipt, return, payments, supplier, posted, stock>>

CloseNote(t) ==
  /\ Commits(t, "closeNote")
  /\ note' = [note EXCEPT ![t.doc].status = "CLOSED"]
  /\ OnlyNote

-----------------------------------------------------------------------------
(* The specification *)

Init ==
  \E d \in Desk :
    /\ order = d.shop.order /\ receipt = d.shop.receipt /\ bill = d.shop.bill
    /\ return = d.shop.return /\ note = [n \in Notes |-> NoNote]
    /\ alloc = [p \in Notes \X Bills |-> 0]
    /\ payments = {} /\ supplier = d.shop.supplier /\ posted = d.shop.posted /\ stock = d.shop.stock
    /\ asks = d.asks
    /\ tx = [t \in d.asks |-> [at |-> 0, end |-> "no", seen |-> [n |-> 0, ok |-> FALSE]]]
    /\ lock = [r \in Rows |-> Free]

Handle(t) ==
  \/ Send(t) \/ Advance(t) \/ Refuse(t)
  \/ CreateOrder(t) \/ EditOrder(t) \/ SubmitOrder(t) \/ ApproveOrder(t) \/ RejectOrder(t)
  \/ CreateReceipt(t) \/ ReceiveGoods(t) \/ InspectGoods(t) \/ AcceptGoods(t)
  \/ ApproveReceipt(t) \/ RejectReceipt(t) \/ CancelReceipt(t)
  \/ CreateBill(t) \/ SubmitBill(t) \/ DecideBill(t) \/ CancelBill(t) \/ PostBill(t) \/ PayBill(t)
  \/ PaySupplier(t) \/ DeleteSupplier(t)
  \/ CreateReturn(t) \/ SubmitReturn(t) \/ DecideReturn(t) \/ CancelReturn(t) \/ ShipReturn(t) \/ CompleteReturn(t)
  \/ CreateNote(t) \/ SubmitNote(t) \/ ApproveNote(t) \/ RejectNote(t) \/ CancelNote(t) \/ AllocateNote(t) \/ CloseNote(t)

Next == \E t \in Requests : Handle(t)

Spec == Init /\ [][Next]_vars

\* The database grants a free row to who waits for it and a handler goes on to its end.
FairSpec == Spec /\ WF_vars(\E t \in asks : tx[t].at > 0 /\ Handle(t))

-----------------------------------------------------------------------------
(* What must hold *)

\* Every document is in a status its life cycle knows, with quantities that are
\* numbers; the stock and the supplier's balance may be below zero (an advance).
TypeOK ==
  /\ order.status \in DOMAIN OrderMoves /\ order.qty \in Nat
  /\ \A r \in Receipts : receipt[r].status \in DOMAIN ReceiptMoves /\ receipt[r].accepted \in Nat
  /\ \A b \in Bills : bill[b].status \in DOMAIN BillMoves
  /\ \A v \in Returns : return[v].status \in DOMAIN ReturnMoves
  /\ \A n \in Notes : note[n].status \in DOMAIN NoteMoves
  /\ stock \in Int /\ supplier.pending \in Int
  /\ \A r \in Rows : lock[r] \in asks \cup {Free}

\* The receipts of an order, whoever accepts them and in whatever order, never
\* take in more than was ordered (PurchaseReceiptService, acceptGoods).
AcceptedWithinOrdered == Accepted("none") <= order.qty

Sent == SumFunctionOnSet([v \in Returns |-> SentBack(return[v])], Returns)
BilledMore == SumFunctionOnSet([b \in Bills |-> PostedFor(bill[b])], Bills)
Above(v) == IF return[v].status = "COMPLETED" THEN Floor(Credited(v) - return[v].qty * Cost) ELSE 0
TakenBack == SumFunctionOnSet([v \in Returns |-> Above(v)], Returns)
Paid == SumFunctionOnSet([p \in payments |-> p.amount], payments)

\* The supplier's balance is what the documents on the books add up to, and the
\* stock is what was accepted and not sent back (SupplierPayablesService.payablesFromLedger):
\* the notes of one return count together, and only above what the return took off.
BooksFollowDocuments ==
  /\ supplier.pending =
       supplier.opening + Accepted("none") * Cost + BilledMore - Sent * Cost - TakenBack - Credited("none") - Paid
  /\ stock = Accepted("none") - Sent

\* Whatever pays a bill and whoever applies notes to it at the same time, it is never
\* settled beyond its total, is PAID when nothing is left of it and PARTIALLY_PAID
\* while something is, and no note gives out more than it is worth.
NeverOverpaid ==
  /\ \A b \in Bills : /\ bill[b].outstanding >= 0
                      /\ bill[b].status = "PAID" => bill[b].outstanding = 0
                      /\ bill[b].status = "PARTIALLY_PAID" => bill[b].outstanding > 0
  /\ \A n \in Notes : note[n].remaining >= 0

\* What the payments of bill b come to, what was applied to it, and what note n gave out.
PaidOf(b) == SumFunctionOnSet([p \in payments |-> IF p.bill = b THEN p.amount ELSE 0], payments)
AppliedTo(b) == SumFunctionOnSet([n \in Notes |-> alloc[<<n, b>>]], Notes)
GivenOut(n) == SumFunctionOnSet([b \in Bills |-> alloc[<<n, b>>]], Bills)

\* Payments and credit notes together settle a bill once: what was paid, what was
\* applied and what is left make up its total, it is PAID exactly when nothing is
\* left, and no note gives out more than it is worth.
SettledOnce ==
  /\ NeverOverpaid
  /\ \A b \in Bills : OnBooks(bill[b]) =>
       /\ PaidOf(b) = bill[b].paid /\ bill[b].paid + AppliedTo(b) + bill[b].outstanding = BillTotal(bill[b])
       /\ bill[b].outstanding = 0 /\ BillTotal(bill[b]) > 0 => bill[b].status = "PAID"
  /\ \A n \in Notes : note[n].remaining + GivenOut(n) = note[n].total

\* The live notes of a return never claim more than the return is worth, and only
\* a return whose goods went back has any (SupplierCreditValidationService).
NotesWithinReturn ==
  \A v \in Returns : Noted(v, "none") > 0 => return[v].status = "COMPLETED" /\ Noted(v, "none") <= ReturnTotal(return[v])

\* No document was decided by someone who created, edited or submitted it, but for
\* an order that was rejected: PurchaseApprovalService.processApproval asks who the
\* decider is on APPROVE alone, so whoever raised an order may reject it.
DutiesSeparated ==
  /\ order.status # "REJECTED" => order.asked \cap order.decided = {}
  /\ \A r \in Receipts : receipt[r].asked \cap receipt[r].decided = {}
  /\ \A b \in Bills : bill[b].asked \cap bill[b].decided = {}
  /\ \A v \in Returns : return[v].asked \cap return[v].decided = {}
  /\ \A n \in Notes : note[n].asked \cap note[n].decided = {}

\* A payment sent twice with one key is paid once, and the second is never told
\* that it failed (SupplierPayablesService.pay, payVendorBill).
TwinsReplay ==
  [][\A t \in asks : t.key # 0 =>
       LET to == IF t.op = "payBill" THEN t.doc ELSE "none"
           found == {p \in payments : p.key = t.key}
       IN /\ Cardinality({p \in payments' : p.key = t.key}) <= 1
          /\ (\E p \in found : p.amount = t.n /\ p.bill = to) /\ ~supplier.deleted /\ tx[t].end = "no"
               => tx'[t].end # "refused"]_vars

\* Once an order left DRAFT the lines that were submitted are the lines that are
\* approved and received, whatever edit was under way (PurchaseDraftService).
SubmittedOrderFrozen == [][order.status \notin {"NONE", "DRAFT"} => order'.qty = order.qty]_vars

\* No two transactions wait for each other: the run comes to a point from which
\* no transaction is left open.
EveryoneFinishes == <>[](\A t \in asks : ~Open(t))

\* The documents of a purchase, together: in a status of their life cycle, never
\* beyond what the order or the return allows, approved by a second person.
DocumentsSound == TypeOK /\ AcceptedWithinOrdered /\ NotesWithinReturn /\ DutiesSeparated

\* What is owed to the supplier, bill by bill and in all.
PayablesSound == SettledOnce /\ BooksFollowDocuments

\* What a request may not change under another: a payment sent twice is answered
\* alike, and what was submitted stays what was submitted.
RequestsSound == TwinsReplay /\ SubmittedOrderFrozen
=============================================================================
