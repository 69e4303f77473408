----------------------------- MODULE PosBilling -----------------------------
(***************************************************************************)
(* The money flows of a shop as the API runs them, at the same time:       *)
(* BillingService.checkout, InvoiceReversalService.processReturn and       *)
(* cancelInvoice, CustomersService.recordPayment, recordOpeningBalance and *)
(* softDelete, ShiftsService.open and close, ExpensesService.create,       *)
(* update and softDelete.                                                  *)
(*                                                                         *)
(* Each request walks through its reads and row locks one at a time, in    *)
(* READ COMMITTED: a lock is granted when no other transaction holds it,   *)
(* what is read under it is kept until the commit, and everything a        *)
(* transaction writes becomes visible at the commit, which also takes the  *)
(* last locks of the order (product rows, ledger balances) and lets all of *)
(* them go.  The database may roll a transaction back at any moment, it    *)
(* rolls one back where some wait for each other in a circle, and the      *)
(* process may die at any moment.                                          *)
(***************************************************************************)
EXTENDS SerialBilling

CONSTANTS Req,          \* requests in flight
          Mixes,        \* what clients may send together: one request for each of Req
          MaxAttempts,  \* MAX_RETRIES: runs of one transaction
          MaxReruns     \* bound: requests that are on a later run at the same time

ASSUME MixesAssumption == Mixes \subseteq [Req -> Requests] /\ MaxAttempts \in Nat \ {0} /\ MaxReruns \in Nat

VARIABLE req            \* what each request is doing

vars == <<books, req>>

-----------------------------------------------------------------------------
(* The steps of a handler *)

\* Mutant of SalePath: the customer before the drawer.
SalePathCustomerFirst ==
  <<"replay", "stock", "customer", "shift", "number", "commit">>

SalePath == <<"replay", "stock", "shift", "customer", "number", "commit">>

\* The reads and locks of each flow in their order; the locks are in the canonical order.
Path(kind) ==
  CASE kind = "sale"    -> SalePath
    [] kind = "return"  -> <<"replay", "original", "peek", "shift", "customer", "number", "commit">>
    [] kind = "cancel"  -> <<"original", "peek", "shift", "customer", "commit">>
    [] kind = "repay"   -> <<"replay", "shift", "customer", "commit">>
    [] kind = "opening" -> <<"customer", "commit">>
    [] kind = "open"    -> <<"check", "row", "insert", "token", "commit">>
    [] kind = "close"   -> <<"shift", "commit">>
    [] kind = "delete"  -> <<"customer", "commit">>
    [] kind = "expense" -> <<"payout", "commit">>
    [] kind \in {"editExpense", "dropExpense"} -> <<"expense", "payout", "commit">>

StepAfter(kind, pc) == Path(kind)[1 + CHOOSE i \in DOMAIN Path(kind) : Path(kind)[i] = pc]

\* Where a transaction that is run again starts; closing and deleting are not run again.
TxStart(kind) ==
  CASE kind \in {"sale", "repay"}     -> "shift"
    [] kind \in {"return", "cancel"} -> "original"
    [] kind = "opening"             -> "customer"
    [] kind = "open"                -> "check"
    [] kind = "expense"             -> "payout"
    [] kind \in {"editExpense", "dropExpense"} -> "expense"
    [] OTHER                        -> "none"

Waiting(r) ==
  [r |-> r, pc |-> Path(r.kind)[1], attempt |-> 1, seen |-> 0, shift |-> 0,
   balance |-> 0, number |-> 0, was |-> NoExpense, held |-> {}, outcome |-> "none", doc |-> 0]

Init == InitBooks /\ \E mix \in Mixes : req = [q \in Req |-> Waiting(mix[q])]

Go(q, me) == req' = [req EXCEPT ![q] = [me EXCEPT !.pc = StepAfter(me.r.kind, me.pc)]]

\* Mutant of Answer: an early answer leaves the transaction open.
AnswerInOpenTx(q, outcome, doc) ==
  req' = [req EXCEPT ![q].pc = "done", ![q].outcome = outcome, ![q].doc = doc]

\* An answer is sent and the transaction's locks are gone; doc is the document it names.
Answer(q, outcome, doc) ==
  req' = [req EXCEPT ![q] =
    [Waiting(req[q].r) EXCEPT !.pc = "done", !.outcome = outcome, !.doc = doc]]

Reject(q) == Answer(q, "rejected", 0)

-----------------------------------------------------------------------------
(* Row locks *)

CustomerOf(r) == IF r.kind \in {"return", "cancel"} THEN invoices[r.invoice].customer ELSE r.customer

Series(r) == IF r.kind = "sale" THEN "SALE" ELSE "RETURN"

\* Only a bill and a closing may name their drawer.
Explicit(r) == r.kind \in {"sale", "close"} /\ r.shift # 0

\* Mutant of WantedShift: what the unlocked look saw is trusted.
WantedShiftAsSeen(me) ==
  IF me.seen # 0 THEN me.seen
  ELSE IF Explicit(me.r) THEN me.r.shift
  ELSE OpenShiftOf(me.r.actor)

(***************************************************************************)
(* The drawer the locking read finds.  A reversal takes the sale's drawer  *)
(* if it saw it usable and it is still open, otherwise the actor's own.    *)
(***************************************************************************)
WantedShift(me) ==
  IF me.seen # 0 /\ shifts[me.seen].status = "OPEN" THEN me.seen
  ELSE IF Explicit(me.r) THEN me.r.shift
  ELSE OpenShiftOf(me.r.actor)

(***************************************************************************)
(* What open's locking read meets in an index: the entry of the cashier's  *)
(* drawer, and in the index by status the entries of inserts under way.    *)
(* The read may go through the two indexes in either order.                *)
(***************************************************************************)
Index == {"status", "token"}

ReadLocks(index, actor) ==
  {<<index, actor>>} \cup (IF index = "status" THEN {"entry"} \X Req ELSE {})

\* What is left once one of them is read: the other index, and the drawer's row.
RowLocks(actor) ==
  ReadLocks("status", actor) \cup ReadLocks("token", actor)
    \cup ({<<"shift", OpenShiftOf(actor)>>} \ {<<"shift", 0>>})

\* Mutant of Needs: the customer is read without FOR UPDATE.
NeedsNoCustomer(me) ==
  CASE me.pc = "original" -> {<<"invoice", me.r.invoice>>}
    [] me.pc = "shift"    -> {<<"shift", WantedShift(me)>>} \ {<<"shift", 0>>}
    [] me.pc = "row"      -> RowLocks(me.r.actor)
    [] me.pc = "token"    -> ReadLocks("token", me.r.actor)
    [] me.pc = "number"   -> {<<"number", Series(me.r)>>}
    [] me.pc = "expense"  -> {<<"expense", me.r.expense>>}
    [] me.pc = "payout"   -> {<<"shift", PayingShift(me.r, me.was)>>} \ {<<"shift", 0>>}
    [] OTHER              -> {}

Needs(me) ==
  CASE me.pc = "original" -> {<<"invoice", me.r.invoice>>}
    [] me.pc = "shift"    -> {<<"shift", WantedShift(me)>>} \ {<<"shift", 0>>}
    [] me.pc = "row"      -> RowLocks(me.r.actor)
    [] me.pc = "token"    -> ReadLocks("token", me.r.actor)
    [] me.pc = "customer" -> {<<"customer", CustomerOf(me.r)>>} \ {<<"customer", NoCustomer>>}
    [] me.pc = "number"   -> {<<"number", Series(me.r)>>}
    [] me.pc = "expense"  -> {<<"expense", me.r.expense>>}
    [] me.pc = "payout"   -> {<<"shift", PayingShift(me.r, me.was)>>} \ {<<"shift", 0>>}
    [] OTHER              -> {}

WaitsFor(q) == {o \in Req \ {q} : Needs(req[q]) \cap req[o].held # {}}

\* FOR UPDATE returns.
Granted(q) == WaitsFor(q) = {}

\* Nobody else holds one of these locks.
Free(q, locks) == \A o \in Req \ {q} : locks \cap req[o].held = {}

Locked(me) == [me EXCEPT !.held = @ \cup Needs(me)]

-----------------------------------------------------------------------------
(* Before the transaction *)

\* The document that already holds the request's key, if any.
Known(r) == IF r.kind = "repay" THEN Payment(r.key) ELSE Holder(r.key)

SameRequest(d, r) ==
  IF r.kind = "repay" THEN SamePayment(d, r) ELSE invoices[d].bill = Bill(r)

\* replayOrReject, replayReturn, replayPayment
AnswerKnown(q) ==
  \E d \in Known(req[q].r) :
    IF SameRequest(d, req[q].r) THEN Answer(q, "replayed", d) ELSE Reject(q)

CheckReplay(q) ==
  /\ req[q].pc = "replay"
  /\ IF Known(req[q].r) # {} THEN AnswerKnown(q) ELSE Go(q, req[q])
  /\ UNCHANGED books

\* Udhar needs a customer, and the stock must look sufficient.
CheckStock(q) ==
  LET r == req[q].r IN
  /\ req[q].pc = "stock"
  /\ IF onHand < r.qty \/ (r.amount > 0 /\ r.customer = NoCustomer)
     THEN Reject(q) ELSE Go(q, req[q])
  /\ UNCHANGED books

-----------------------------------------------------------------------------
(* In the transaction *)

LockOriginal(q) ==
  LET r == req[q].r
      cancelled == /\ r.kind = "cancel" /\ r.invoice \in DOMAIN invoices
                   /\ invoices[r.invoice].status = "CANCELLED"
  IN
  /\ req[q].pc = "original" /\ Granted(q)
  /\ \/ cancelled /\ Answer(q, "replayed", r.invoice)
     \/ /\ IF r.kind = "cancel" THEN MayCancel(r.invoice) ELSE MayReturn(r)
        /\ Go(q, Locked(req[q]))
     \/ /\ ~cancelled
        /\ ~IF r.kind = "cancel" THEN MayCancel(r.invoice) ELSE MayReturn(r)
        /\ Reject(q)
  /\ UNCHANGED books

\* lockShiftForReversal looks at the sale's drawer without a lock first.
PeekShift(q) ==
  LET s == invoices[req[q].r.invoice].shift IN
  /\ req[q].pc = "peek"
  /\ Go(q, [req[q] EXCEPT !.seen = IF MayUseShift(req[q].r.actor, s) THEN s ELSE 0])
  /\ UNCHANGED books

LockShift(q) ==
  LET r  == req[q].r
      me == [Locked(req[q]) EXCEPT !.shift = WantedShift(req[q])]
      allowed == /\ r.kind = "sale" => ShiftAllowed(r)
                 /\ r.kind = "close" => ClosesShift(r)
  IN
  /\ req[q].pc = "shift" /\ Granted(q)
  /\ IF allowed THEN Go(q, me) ELSE Reject(q)
  /\ UNCHANGED books

\* Mutant of CustomerAllows: a sale may lock a deleted customer.
CustomerAllowsDeleted(me, balance) ==
  LET r == me.r
      deleted == r.customer # NoCustomer /\ customers[r.customer].deleted
  IN
  CASE r.kind = "sale"    -> MayCredit(r, balance)
    [] r.kind \in {"return", "cancel"} -> DrawerForRefund(r, me.shift, balance)
    [] r.kind = "repay"   -> ~deleted /\ MayRepay(r, balance)
    [] r.kind = "opening" -> ~deleted /\ IsManager(r.actor) /\ MayOpenBalance(r)
    [] r.kind = "delete"  -> ~deleted /\ balance = 0

\* Mutant of CustomerAllows: a repayment is not compared with the balance under the lock.
CustomerAllowsAnyRepayment(me, balance) ==
  LET r == me.r
      deleted == r.customer # NoCustomer /\ customers[r.customer].deleted
  IN
  CASE r.kind = "sale"    -> ~deleted /\ MayCredit(r, balance)
    [] r.kind \in {"return", "cancel"} -> DrawerForRefund(r, me.shift, balance)
    [] r.kind = "repay"   -> ~deleted
    [] r.kind = "opening" -> ~deleted /\ IsManager(r.actor) /\ MayOpenBalance(r)
    [] r.kind = "delete"  -> ~deleted /\ balance = 0

\* What a flow requires of the customer row it has just locked.
CustomerAllows(me, balance) ==
  LET r == me.r
      deleted == r.customer # NoCustomer /\ customers[r.customer].deleted
  IN
  CASE r.kind = "sale"    -> ~deleted /\ MayCredit(r, balance)
    [] r.kind \in {"return", "cancel"} -> DrawerForRefund(r, me.shift, balance)
    [] r.kind = "repay"   -> ~deleted /\ MayRepay(r, balance)
    [] r.kind = "opening" -> ~deleted /\ IsManager(r.actor) /\ MayOpenBalance(r)
    [] r.kind = "delete"  -> ~deleted /\ balance = 0

\* The same opening balance again is answered, not recorded.
SameOpening(r) ==
  /\ r.kind = "opening" /\ IsManager(r.actor) /\ ~customers[r.customer].deleted
  /\ \E u \in Opened(r.customer) : udhar[u].amount = r.amount

LockCustomer(q) ==
  LET r == req[q].r
      c == CustomerOf(r)
      balance == IF c = NoCustomer THEN 0 ELSE customers[c].balance
      me == [Locked(req[q]) EXCEPT !.balance = balance]
  IN
  /\ req[q].pc = "customer" /\ Granted(q)
  /\ \/ /\ CustomerAllows(req[q], balance)
        /\ Go(q, me)
     \/ SameOpening(r) /\ Answer(q, "replayed", 0)
     \/ ~CustomerAllows(req[q], balance) /\ ~SameOpening(r) /\ Reject(q)
  /\ UNCHANGED books

\* Mutant of LockNumber: the last number is read without a lock.
LockNumberFreely(q) ==
  /\ req[q].pc = "number"
  /\ Go(q, [req[q] EXCEPT !.number = lastNumber[Series(req[q].r)] + 1])
  /\ UNCHANGED books

\* NumberSequenceService.next
LockNumber(q) ==
  /\ req[q].pc = "number" /\ Granted(q)
  /\ Go(q, [Locked(req[q]) EXCEPT !.number = lastNumber[Series(req[q].r)] + 1])
  /\ UNCHANGED books

MovesTo(q, pc, held) == req' = [req EXCEPT ![q] = [@ EXCEPT !.pc = pc, !.held = held]]

(***************************************************************************)
(* open's locking read, in the index the database takes first: with no     *)
(* drawer open there is nothing to lock.  What it meets first it keeps     *)
(* while it waits for the rest.                                            *)
(***************************************************************************)
CheckOpen(q) ==
  LET a == req[q].r.actor IN
  /\ req[q].pc = "check"
  /\ \E index \in Index :
       /\ Free(q, ReadLocks(index, a))
       /\ IF OpenShifts(a) = {} THEN MovesTo(q, "insert", {}) ELSE MovesTo(q, "row", {<<index, a>>})
  /\ UNCHANGED books

\* The friendly answer; the unique key at the insert is the guard.
CheckRow(q) ==
  /\ req[q].pc = "row" /\ Granted(q)
  /\ IF OpenShifts(req[q].r.actor) = {} THEN MovesTo(q, "insert", {}) ELSE Reject(q)
  /\ UNCHANGED books

\* The insert holds its entry in the index by status, and waits on the key.
InsertShift(q) ==
  /\ req[q].pc = "insert" /\ MovesTo(q, "token", {<<"entry", q>>})
  /\ UNCHANGED books

InsertToken(q) ==
  /\ req[q].pc = "token" /\ Granted(q)
  /\ MovesTo(q, "commit", req[q].held \cup {<<"token", req[q].r.actor>>})
  /\ UNCHANGED books

\* lockExpense: a live one, kept as it was found.
LockExpense(q) ==
  LET e == req[q].r.expense
      live == e \in DOMAIN expenses /\ ~expenses[e].deleted
  IN
  /\ req[q].pc = "expense" /\ Granted(q)
  /\ IF live THEN Go(q, [Locked(req[q]) EXCEPT !.was = expenses[e]]) ELSE Reject(q)
  /\ UNCHANGED books

LockPayout(q) ==
  /\ req[q].pc = "payout" /\ Granted(q)
  /\ Go(q, [Locked(req[q]) EXCEPT !.shift = PayingShift(req[q].r, req[q].was)])
  /\ UNCHANGED books

-----------------------------------------------------------------------------
(* The commit *)

AtCommit(q, kind) == req[q].pc = "commit" /\ req[q].r.kind = kind

(***************************************************************************)
(* The insert of a document finds its key taken by a request that          *)
(* committed after the replay check: the transaction rolls back and the    *)
(* request is answered with that document.                                 *)
(***************************************************************************)
LoseKeyRace(q) ==
  /\ req[q].pc = "commit" /\ req[q].r.kind \in {"sale", "return", "repay"}
  /\ Known(req[q].r) # {}
  /\ AnswerKnown(q)
  /\ UNCHANGED books

\* Mutant of CommitSale: the insert does not meet the unique key.
CommitSaleAnyKey(q) ==
  LET me == req[q] IN
  /\ AtCommit(q, "sale")
  /\ BookSale(me.r, me.shift, me.balance, me.number)
  /\ Answer(q, "ok", Len(invoices'))

CommitSale(q) ==
  LET me == req[q] IN
  /\ AtCommit(q, "sale") /\ Known(me.r) = {}
  /\ BookSale(me.r, me.shift, me.balance, me.number)
  /\ Answer(q, "ok", Len(invoices'))

\* mutateStock: the conditional UPDATE finds too little left.
SaleOutOfStock(q) ==
  /\ AtCommit(q, "sale") /\ Known(req[q].r) = {}
  /\ onHand < req[q].r.qty
  /\ Reject(q)
  /\ UNCHANGED books

CommitReturn(q) ==
  LET me == req[q] IN
  /\ AtCommit(q, "return") /\ Known(me.r) = {}
  /\ BookReturn(me.r, me.shift, me.balance, me.number)
  /\ Answer(q, "ok", Len(invoices'))

CommitCancel(q) ==
  LET me == req[q] IN
  /\ AtCommit(q, "cancel")
  /\ BookCancel(me.r, me.shift, me.balance)
  /\ Answer(q, "ok", me.r.invoice)

CommitRepayment(q) ==
  LET me == req[q] IN
  /\ AtCommit(q, "repay") /\ Known(me.r) = {}
  /\ BookRepayment(me.r, me.shift, me.balance)
  /\ Answer(q, "ok", Len(udhar'))

CommitOpening(q) ==
  /\ AtCommit(q, "opening")
  /\ BookOpening(req[q].r)
  /\ Answer(q, "ok", 0)

\* Mutant of CommitOpenShift: the pre-check is the only guard.
CommitOpenShiftAnyway(q) ==
  /\ AtCommit(q, "open")
  /\ BookOpenShift(req[q].r) /\ Answer(q, "ok", 0)

\* The unique key (shopId, openedById, openToken).
CommitOpenShift(q) ==
  /\ AtCommit(q, "open")
  /\ IF OpenShifts(req[q].r.actor) = {}
     THEN BookOpenShift(req[q].r) /\ Answer(q, "ok", 0)
     ELSE Reject(q) /\ UNCHANGED books

CommitCloseShift(q) ==
  /\ AtCommit(q, "close")
  /\ BookCloseShift(req[q].shift)
  /\ Answer(q, "ok", 0)

CommitExpense(q) ==
  LET me == req[q] IN
  /\ me.pc = "commit" /\ me.r.kind \in {"expense", "editExpense", "dropExpense"}
  /\ BookExpense(me.r, IF me.r.kind = "expense" THEN 0 ELSE me.r.expense, me.was, me.shift)
  /\ Answer(q, "ok", 0)

CommitDelete(q) ==
  /\ AtCommit(q, "delete")
  /\ BookDelete(req[q].r.customer)
  /\ Answer(q, "ok", 0)

-----------------------------------------------------------------------------
(* Failures *)

InTx(me) ==
  LET at(pc) == CHOOSE i \in DOMAIN Path(me.r.kind) : Path(me.r.kind)[i] = pc IN
  me.pc # "done" /\ TxStart(me.r.kind) # "none" /\ at(me.pc) >= at(TxStart(me.r.kind))

Reruns(q) == Cardinality({o \in Req \ {q} : req[o].attempt > 1})

\* Mutant of Retry: one run too many.
RetryOnceMore(q) ==
  LET me == req[q] IN
  /\ InTx(me) /\ me.attempt <= MaxAttempts /\ Reruns(q) < MaxReruns
  /\ req' = [req EXCEPT ![q] = [Waiting(me.r) EXCEPT !.pc = TxStart(me.r.kind),
                                                     !.attempt = me.attempt + 1]]
  /\ UNCHANGED books

\* withSerializationRetry, and checkout's own loop.
MayRunAgain(me) == InTx(me) /\ me.attempt < MaxAttempts

\* Rolled back, and run again from the start.
RunAgain(q) ==
  LET me == req[q] IN
  /\ req' = [req EXCEPT ![q] = [Waiting(me.r) EXCEPT !.pc = TxStart(me.r.kind),
                                                     !.attempt = me.attempt + 1]]
  /\ UNCHANGED books

\* A lock-wait timeout, or a deadlock with what the model has no lock for.
Retry(q) == MayRunAgain(req[q]) /\ Reruns(q) < MaxReruns /\ RunAgain(q)

\* Requests that wait for each other in a circle, and for nobody else.
Circle(S) == S # {} /\ \A q \in S : WaitsFor(q) \cap S # {}

\* The database ends a deadlock: one of those in it is rolled back.
Victim(q) ==
  /\ \E S \in SUBSET Req : q \in S /\ Circle(S) /\ \A p \in S : \E o \in S : p \in WaitsFor(o)
  /\ IF MayRunAgain(req[q]) THEN RunAgain(q) ELSE Answer(q, "failed", 0) /\ UNCHANGED books

\* Any other error, a refusal the model has no state for, or the death of the process.
Fail(q) ==
  /\ req[q].pc # "done"
  /\ Answer(q, "failed", 0)
  /\ UNCHANGED books

-----------------------------------------------------------------------------
Step(q) ==
  \/ CheckReplay(q) \/ CheckStock(q) \/ LockOriginal(q) \/ PeekShift(q)
  \/ LockShift(q) \/ LockCustomer(q) \/ LockNumber(q) \/ CheckOpen(q) \/ CheckRow(q)
  \/ InsertShift(q) \/ InsertToken(q) \/ LoseKeyRace(q)
  \/ CommitSale(q) \/ SaleOutOfStock(q) \/ CommitReturn(q) \/ CommitCancel(q)
  \/ CommitRepayment(q) \/ CommitOpening(q) \/ CommitOpenShift(q) \/ CommitCloseShift(q)
  \/ CommitDelete(q) \/ LockExpense(q) \/ LockPayout(q) \/ CommitExpense(q)

Next == \E q \in Req : Step(q) \/ Retry(q) \/ Victim(q) \/ Fail(q)

Spec == Init /\ [][Next]_vars

(***************************************************************************)
(* Fairness: as long as some request's query can return, or a deadlock     *)
(* stands that the database finds, one request goes on or is rolled back.  *)
(* That a lock is ever granted, or a transaction rolled back without a     *)
(* deadlock, is not assumed.                                               *)
(***************************************************************************)
FairSpec == Spec /\ WF_vars(\E q \in Req : Step(q) \/ Victim(q))

-----------------------------------------------------------------------------
(* Properties *)

InvoiceType ==
  [type : {"SALE", "RETURN"}, status : {"COMPLETED", "CANCELLED"}, key : Nat,
   bill : [kind : Kind, customer : Customer \cup {NoCustomer}, qty : Nat, amount : Int,
           tender : Tender, invoice : Nat],
   number : Nat, customer : Customer \cup {NoCustomer}, shift : Nat, qty : Nat,
   returned : Nat, total : Nat, cash : Int, bank : Int, udhar : Nat, original : Nat,
   restock : BOOLEAN, cancelShift : Nat]

UdharType ==
  [type : {"CREDIT", "PAYMENT", "ADJUSTMENT", "OPENING"}, customer : Customer, key : Nat,
   amount : Int, tender : Tender, before : Int, after : Int, shift : Nat, invoice : Nat]

ShiftType ==
  [owner : Actor, status : {"OPEN", "CLOSED"}, opening : Int, expected : Int, sales : Int,
   cash : Int, bank : Int, udhar : Int, receipts : Int, payouts : Int]

ExpenseType ==
  [amount : Nat, paid : BOOLEAN, tender : Tender, deleted : BOOLEAN, shift : Nat, cash : Nat, bank : Nat]

Resource == ({"invoice", "shift", "expense"} \X Nat) \cup ({"customer"} \X Customer)
              \cup ({"number"} \X {"SALE", "RETURN"}) \cup (Index \X Actor) \cup ({"entry"} \X Req)

ReqType ==
  [r : Requests, attempt : 1 .. MaxAttempts, seen : Nat, shift : Nat,
   balance : Int, number : Nat, doc : Nat, was : ExpenseType,
   pc : {"replay", "stock", "original", "peek", "shift", "customer", "number",
         "check", "row", "insert", "token", "expense", "payout", "commit", "done"},
   held : SUBSET Resource, outcome : {"none", "ok", "replayed", "rejected", "failed"}]

(***************************************************************************)
(* Every table and every request has its type.                             *)
(***************************************************************************)
TypeOK ==
  /\ invoices \in Seq(InvoiceType) /\ udhar \in Seq(UdharType)
  /\ customers \in [Customer -> [balance : Int, deleted : BOOLEAN]]
  /\ shifts \in Seq(ShiftType) /\ expenses \in Seq(ExpenseType)
  /\ lastNumber \in [{"SALE", "RETURN"} -> Nat]
  /\ onHand \in Int /\ ledger \in [Account -> Int]
  /\ req \in [Req -> ReqType]


(***************************************************************************)
(* receivables, as the reconciliation checks it: the customers' balances   *)
(* add up to the ledger's receivable.                                      *)
(***************************************************************************)
ReceivablesMatch == ledger["RECEIVABLE"] = Added([c \in Customer |-> customers[c].balance])

\* What the reconciliation knows of a cancelled bill: the credit its ADJUSTMENT row reversed.
CreditReversed(i) ==
  Added([u \in {v \in DOMAIN udhar : udhar[v].type = "ADJUSTMENT" /\ udhar[v].invoice = i} |-> udhar[u].amount])

\* The cash a cancellation gives back: what was paid in cash, and the credit that was repaid.
PaidBack(i) == invoices[i].cash + LargerOf(invoices[i].udhar - CreditReversed(i), 0)

\* What a bill adds to a counter of drawer s and a return takes off it, and what the
\* cancellation of a bill takes off the drawer it is paid from.
Booked(bill, s, amount) ==
  IF bill.shift # s THEN 0 ELSE IF bill.type = "SALE" THEN amount ELSE -amount

Undone(bill, s, amount) == IF bill.status = "CANCELLED" /\ bill.cancelShift = s THEN amount ELSE 0

CashOn(s) ==
  [i \in DOMAIN invoices |-> Booked(invoices[i], s, invoices[i].cash) - Undone(invoices[i], s, PaidBack(i))]

SalesOn(s) ==
  [i \in DOMAIN invoices |-> Booked(invoices[i], s, invoices[i].total) - Undone(invoices[i], s, invoices[i].total)]

UdharOn(s) ==
  [i \in DOMAIN invoices |-> Booked(invoices[i], s, invoices[i].udhar) - Undone(invoices[i], s, CreditReversed(i))]

\* What a movement of a customer's balance brought drawer s, if it is a repayment.
Received(row, s) == IF row.type = "PAYMENT" /\ row.shift = s THEN row.amount ELSE 0

ReceiptsOn(s) == [u \in DOMAIN udhar |-> Received(udhar[u], s)]

CashReceiptsOn(s) == [u \in DOMAIN udhar |-> IF udhar[u].tender = "CASH" THEN Received(udhar[u], s) ELSE 0]

PayoutsOn(s) == [e \in DOMAIN expenses |-> IF expenses[e].shift = s THEN CashOut(expenses[e]) ELSE 0]

(***************************************************************************)
(* shifts, as the reconciliation checks it: every drawer's expected cash,  *)
(* sales, udhar and receipts can be rebuilt from the documents that name   *)
(* the drawer, for open and for closed drawers.  What it paid out is the   *)
(* cash of the expenses that name it while it is open; once it is closed,  *)
(* edits of them do not reach it.                                          *)
(***************************************************************************)
DrawersRebuild ==
  \A s \in DOMAIN shifts :
    /\ shifts[s].expected =
         shifts[s].opening + Added(CashOn(s)) + Added(CashReceiptsOn(s)) - shifts[s].payouts
    /\ shifts[s].status = "OPEN" => shifts[s].payouts = Added(PayoutsOn(s))
    /\ shifts[s].sales = Added(SalesOn(s))
    /\ shifts[s].udhar = Added(UdharOn(s))
    /\ shifts[s].receipts = Added(ReceiptsOn(s))

\* What an expense costs the shop.
Outlay(row) == IF row.paid /\ ~row.deleted THEN row.amount ELSE 0

(***************************************************************************)
(* expenses, as the reconciliation checks it: the ledger holds the live    *)
(* paid expenses, each once, however often and by whomever they were       *)
(* edited or taken back.                                                   *)
(***************************************************************************)
ExpensesOnBooks == ledger["EXPENSES"] = Added([e \in DOMAIN expenses |-> Outlay(expenses[e])])

\* The pieces a bill took from the shelf, or a return put back.
Sold(bill) ==
  CASE bill.type = "SALE" /\ bill.status = "COMPLETED" -> bill.qty
    [] bill.type = "RETURN" /\ bill.restock -> -bill.qty
    [] OTHER -> 0

(***************************************************************************)
(* The stock is never oversold, it is what the documents say, and the      *)
(* ledger's inventory moved exactly with it (goods that come back broken   *)
(* return to neither).                                                     *)
(***************************************************************************)
StockMatchesBooks ==
  /\ onHand >= 0
  /\ onHand = Stock - Added([i \in DOMAIN invoices |-> Sold(invoices[i])])
  /\ ledger["INVENTORY"] = onHand - Stock

(***************************************************************************)
(* A key is used for one bill and for one repayment, and every request     *)
(* that is told it succeeded is told of the document that carries its key  *)
(* and says what it asked for, also when it lost the race for the key.     *)
(***************************************************************************)
OneDocumentPerKey ==
  /\ KeysUnique
  /\ \A q \in Req :
       req[q].outcome \in {"ok", "replayed"} /\ req[q].r.kind \in {"sale", "return", "repay"}
         => req[q].doc \in Known(req[q].r) /\ SameRequest(req[q].doc, req[q].r)

(***************************************************************************)
(* The returns of a sale give back no more pieces, money or credit than it *)
(* took, exactly its total once everything is back, and never what a       *)
(* cancellation gives back too.                                            *)
(***************************************************************************)
RefundsCapped ==
  \A i \in DOMAIN invoices : invoices[i].type = "SALE" =>
    /\ invoices[i].returned = Added([j \in ReturnsOf(i) |-> invoices[j].qty])
    /\ invoices[i].returned <= invoices[i].qty
    /\ Refunded(i) <= invoices[i].total
    /\ invoices[i].returned = invoices[i].qty => Refunded(i) = invoices[i].total
    /\ ReversedUdhar(i) <= invoices[i].udhar
    /\ invoices[i].status = "CANCELLED" => ReturnsOf(i) = {}

(***************************************************************************)
(* A closed drawer is never touched again, also not by a flow that had     *)
(* looked at it while it was open.                                         *)
(***************************************************************************)
ClosedDrawerFrozen ==
  [][\A s \in DOMAIN shifts : shifts[s].status = "CLOSED" => shifts'[s] = shifts[s]]_vars

(***************************************************************************)
(* Nobody but a manager takes a customer over the credit limit, however    *)
(* many credit sales to the customer run at the same time.                 *)
(***************************************************************************)
CreditLimitHolds ==
  [][\A c \in Customer :
       customers'[c].balance > customers[c].balance /\ customers'[c].balance > CreditLimit
         => \E q \in Req : /\ IsManager(req[q].r.actor)
                           /\ req[q].pc = "commit" /\ req'[q].outcome = "ok"]_vars

(***************************************************************************)
(* The canonical lock order: whoever waits for each other in a circle are  *)
(* openings of drawers, over the entries of two indexes.  No bill, return, *)
(* cancellation, repayment, expense, closing or deletion ever does.        *)
(***************************************************************************)
OnlyOpensCircle ==
  \A S \in SUBSET Req : Circle(S) => \A q \in S : req[q].r.kind = "open"

(***************************************************************************)
(* Every request is answered.                                              *)
(***************************************************************************)
EventuallyAnswered == <>(\A q \in Req : req[q].pc = "done")

(***************************************************************************)
(* The flows that run at the same time have the effects of flows run one   *)
(* after the other in the order of their commits: SerialBilling, of which  *)
(* every step here is a step or none.                                      *)
(***************************************************************************)
Serializable == SerialSpec

(***************************************************************************)
(* The reconciliation's checks together: at any moment between two commits *)
(* the customers' balances, the drawers, the stock and the accounts can be *)
(* rebuilt from the documents, and every row has its type.                 *)
(***************************************************************************)
BooksReconcile ==
  /\ TypeOK /\ ReceivablesMatch /\ DrawersRebuild /\ ExpensesOnBooks
  /\ StockMatchesBooks /\ RefundsCapped

(***************************************************************************)
(* Whatever is rolled back, run again or sent twice, the documents are     *)
(* numbered without a gap and a key names one document, the one its        *)
(* senders are told of.                                                    *)
(***************************************************************************)
DocumentsSound == NumbersGapless /\ OneDocumentPerKey

(***************************************************************************)
(* What the row locks and the unique key guard against requests that       *)
(* looked before another committed: one open drawer per cashier, no        *)
(* movement of a balance lost, and nothing owed by or to a deleted         *)
(* customer.                                                               *)
(***************************************************************************)
RowsGuarded == OneOpenShift /\ BalancesChained /\ DeletedOwesNothing

(***************************************************************************)
(* The requests are answered, with no lock-wait timeout to wait for: the   *)
(* locks are given back by every answer, they are taken in one order, and  *)
(* the openings that still meet in a circle are rolled back and run again. *)
(***************************************************************************)
EveryoneServed == []OnlyOpensCircle /\ EventuallyAnswered
=============================================================================
