----------------------------- MODULE ShopBooks -----------------------------
(***************************************************************************)
(* The tables one shop's money flows write, and what each flow writes to   *)
(* them when its transaction commits: a sale, a return, a cancellation, a  *)
(* repayment, an opening balance, the opening and closing of a drawer, an  *)
(* expense, its edits and its deletion, and the deletion of a customer.    *)
(* What a flow read under its locks is a parameter here: the drawer it     *)
(* books on, the balance, the number or the expense it read, the instant   *)
(* it stamps.                                                              *)
(*                                                                         *)
(* Money is counted in units of which Rupee make a rupee.  A bill is one   *)
(* line of a single product at Price a piece, rounded to the rupee; a      *)
(* piece costs one unit.  UPI, card and transfer are one tender, BANK, and *)
(* revenue and GST one account, REVENUE.                                   *)
(***************************************************************************)
EXTENDS Integers, Sequences, FiniteSets, FiniteSetsExt, Functions

CONSTANTS Actor,            \* users who bill
          Manager,          \* those of them with a manager's role or above
          Customer,
          NoCustomer,       \* a walk-in bill
          Stock,            \* pieces on hand at the start of the day
          Price, Rupee,
          CreditLimit,      \* every customer's creditLimit
          MaxBalance,       \* MONEY_MAX: what outstandingBalance can hold
          CashierMaxRefund  \* BILLING_CASHIER_MAX_REFUND_AMOUNT

ASSUME ShopAssumption ==
  /\ Manager \subseteq Actor
  /\ NoCustomer \notin Customer /\ IsFiniteSet(Customer)
  /\ Stock \in Nat /\ Price \in Nat \ {0} /\ Rupee \in Nat \ {0}
  /\ CreditLimit \in Nat /\ MaxBalance \in Nat /\ CashierMaxRefund \in Nat

VARIABLES invoices,     \* Invoice rows; a row's position is its id
          udhar,        \* UdharTransaction rows
          customers,    \* outstandingBalance and isDeleted
          shifts,       \* Shift rows; a row's position is its id, 0 is no shift
          expenses,     \* Expense rows, each with what its postings hold so far
          lastNumber,   \* NumberSequence, one row per series
          onHand,       \* InventoryItem.onHand
          ledger        \* LedgerAccountBalance, debits positive

books == <<invoices, udhar, customers, shifts, expenses, lastNumber, onHand, ledger>>

-----------------------------------------------------------------------------
(* Requests *)

Kind == {"sale", "return", "cancel", "repay", "opening", "open", "close", "delete",
         "expense", "editExpense", "dropExpense"}

Tender == {"CASH", "BANK", "AUTO"}

(***************************************************************************)
(* One record for every endpoint.  qty: pieces of a sale or a return (0:   *)
(* all that is left); amount: the udhar of a sale, the money of a          *)
(* repayment, an opening balance, an opening float or an expense; invoice: *)
(* what a return or a cancellation is about; expense: what an edit is      *)
(* about; paid: whether an expense is; shift: an explicit shiftId, or 0.   *)
(***************************************************************************)
Request ==
  [kind : Kind, key : Nat, actor : Actor, customer : Customer \cup {NoCustomer},
   qty : Nat, amount : Int, tender : Tender, invoice : Nat, shift : Nat,
   restock : BOOLEAN, advance : BOOLEAN, expense : Nat, paid : BOOLEAN]

\* What the request hash covers: not who sent it, and not why goods come back.
Bill(r) ==
  [kind |-> r.kind, customer |-> r.customer, qty |-> r.qty, amount |-> r.amount,
   tender |-> r.tender, invoice |-> r.invoice]

IsManager(a) == a \in Manager

-----------------------------------------------------------------------------
(* Amounts *)

\* finalTotal: the line total rounded half up to the rupee.
Total(qty) == ((2 * Price * qty + Rupee) \div (2 * Rupee)) * Rupee

SmallerOf(x, y) == IF x < y THEN x ELSE y

LargerOf(x, y) == IF x > y THEN x ELSE y

ReturnsOf(i) ==
  {j \in DOMAIN invoices : invoices[j].type = "RETURN" /\ invoices[j].original = i}

\* The values of a function added up.
Added(f) == SumFunctionOnSet(f, DOMAIN f)

\* priorReturns: what the completed returns of sale i refunded and reversed.
Refunded(i) == Added([j \in ReturnsOf(i) |-> invoices[j].total])

ReversedUdhar(i) == Added([j \in ReturnsOf(i) |-> invoices[j].udhar])

Returnable(i) == invoices[i].qty - invoices[i].returned

\* selectReturnLines: the pieces asked for, or all that is left.
ReturnQty(r) == IF r.qty = 0 THEN Returnable(r.invoice) ELSE r.qty

\* Mutant of RefundTotal: every return is worth its lines.
RefundTotalUncapped(r) == Price * ReturnQty(r)

(***************************************************************************)
(* calculateReturn: the lines' worth, capped by what is left of the sale's *)
(* total; the return that completes the sale takes exactly that.           *)
(***************************************************************************)
RefundTotal(r) ==
  LET left == LargerOf(invoices[r.invoice].total - Refunded(r.invoice), 0)
  IN  IF ReturnQty(r) = Returnable(r.invoice) THEN left
      ELSE SmallerOf(Price * ReturnQty(r), left)

\* The refund cancels credit first: this sale's, and no more than is owed now.
ReturnedUdhar(r, balance) ==
  LET sale == invoices[r.invoice] IN
  IF sale.customer = NoCustomer THEN 0
  ELSE SmallerOf(LargerOf(balance, 0),
                 SmallerOf(RefundTotal(r), LargerOf(sale.udhar - ReversedUdhar(r.invoice), 0)))

CancelledUdhar(i, balance) ==
  IF invoices[i].customer = NoCustomer THEN 0
  ELSE SmallerOf(LargerOf(balance, 0), invoices[i].udhar)

\* Unless told otherwise, money goes back the way it came.
RefundTender(r) ==
  LET sale == invoices[r.invoice] IN
  IF r.tender # "AUTO" THEN r.tender
  ELSE IF sale.udhar = 0 /\ sale.bank > 0 /\ sale.cash = 0 THEN "BANK" ELSE "CASH"

\* What leaves a drawer in cash; repaid credit of a cancelled bill comes back as cash.
CashRefund(r, balance) ==
  IF r.kind = "cancel"
  THEN invoices[r.invoice].cash + invoices[r.invoice].udhar - CancelledUdhar(r.invoice, balance)
  ELSE IF RefundTender(r) = "CASH" THEN RefundTotal(r) - ReturnedUdhar(r, balance) ELSE 0

BankRefund(r, balance) ==
  IF r.kind = "cancel" THEN invoices[r.invoice].bank
  ELSE IF RefundTender(r) = "BANK" THEN RefundTotal(r) - ReturnedUdhar(r, balance) ELSE 0

-----------------------------------------------------------------------------
(* The books *)

Account == {"CASH", "BANK", "RECEIVABLE", "REVENUE", "COGS", "INVENTORY", "EQUITY", "EXPENSES"}

NoEntries == [a \in Account |-> 0]

\* A posting of a bill: what was taken, on what credit, for what total and what goods.
Entries(cash, bank, credit, total, goods) ==
  [NoEntries EXCEPT !["CASH"] = cash, !["BANK"] = bank, !["RECEIVABLE"] = credit,
                    !["REVENUE"] = -total, !["COGS"] = goods, !["INVENTORY"] = -goods]

Balanced(entries) == MapThenSumSet(LAMBDA a : entries[a], Account) = 0

\* post: an unbalanced posting throws, and the whole transaction rolls back.
Post(entries) ==
  /\ Balanced(entries)
  /\ ledger' = [a \in Account |-> ledger[a] + entries[a]]

\* The row a movement of a customer's balance leaves, or none without a movement.
UdharRow(type, r, before, after, s, i) ==
  [type |-> type, customer |-> r.customer, key |-> r.key, amount |-> r.amount,
   tender |-> r.tender, before |-> before, after |-> after, shift |-> s, invoice |-> i]

SetBalance(c, after) == customers' = [customers EXCEPT ![c].balance = after]

\* The counters of the drawer a bill or a refund (negative amounts) is booked on.
MoveDrawer(s, total, cash, bank, credit) ==
  shifts' = IF s = 0 THEN shifts
            ELSE [shifts EXCEPT ![s].sales = @ + total,
                                ![s].cash = @ + cash,
                                ![s].bank = @ + bank,
                                ![s].udhar = @ + credit,
                                ![s].expected = @ + cash]

-----------------------------------------------------------------------------
(* What a flow's transaction writes *)

\* Mutant of TakeStock: the UPDATE without its floor.
TakeStockUnchecked(qty) == onHand' = onHand - qty

\* mutateStock: the conditional UPDATE, which the database evaluates under the row lock.
TakeStock(qty) == onHand >= qty /\ onHand' = onHand - qty

BookSale(r, s, balance, number) ==
  LET total == Total(r.qty)
      paid  == total - r.amount
      cash  == IF r.tender = "CASH" THEN paid ELSE 0
  IN
  /\ TakeStock(r.qty)
  /\ invoices' = Append(invoices,
       [type |-> "SALE", status |-> "COMPLETED", key |-> r.key, bill |-> Bill(r),
        number |-> number, customer |-> r.customer, shift |-> s, qty |-> r.qty,
        returned |-> 0, total |-> total, cash |-> cash, bank |-> paid - cash,
        udhar |-> r.amount, original |-> 0, restock |-> FALSE, cancelShift |-> 0])
  /\ lastNumber' = [lastNumber EXCEPT !["SALE"] = number]
  /\ IF r.amount > 0
     THEN /\ udhar' = Append(udhar, UdharRow("CREDIT", [r EXCEPT !.key = 0], balance,
                                             balance + r.amount, 0, Len(invoices) + 1))
          /\ SetBalance(r.customer, balance + r.amount)
     ELSE UNCHANGED <<udhar, customers>>
  /\ MoveDrawer(s, total, cash, paid - cash, r.amount)
  /\ Post(Entries(cash, paid - cash, r.amount, total, r.qty))
  /\ UNCHANGED expenses

\* What a return and a cancellation do alike to the balance, the drawer and the ledger.
Reverse(r, s, balance, reversed, goods, i) ==
  LET cash == CashRefund(r, balance)
      bank == BankRefund(r, balance)
      c    == invoices[r.invoice].customer
      total == IF r.kind = "cancel" THEN invoices[r.invoice].total ELSE RefundTotal(r)
  IN
  /\ onHand' = onHand + goods
  /\ IF reversed > 0
     THEN /\ udhar' = Append(udhar,
               UdharRow("ADJUSTMENT", [r EXCEPT !.customer = c, !.key = 0, !.amount = reversed],
                        balance, balance - reversed, 0, i))
          /\ SetBalance(c, balance - reversed)
     ELSE UNCHANGED <<udhar, customers>>
  /\ MoveDrawer(s, -total, -cash, -bank, -reversed)
  /\ Post(Entries(-cash, -bank, -reversed, -total, -goods))
  /\ UNCHANGED expenses

BookReturn(r, s, balance, number) ==
  LET sale == invoices[r.invoice]
      qty  == ReturnQty(r)
      reversed == ReturnedUdhar(r, balance)
  IN
  /\ invoices' = Append([invoices EXCEPT ![r.invoice].returned = @ + qty],
       [type |-> "RETURN", status |-> "COMPLETED", key |-> r.key, bill |-> Bill(r),
        number |-> number, customer |-> sale.customer, shift |-> s, qty |-> qty,
        returned |-> 0, total |-> RefundTotal(r), cash |-> CashRefund(r, balance),
        bank |-> BankRefund(r, balance), udhar |-> reversed, original |-> r.invoice,
        restock |-> r.restock, cancelShift |-> 0])
  /\ lastNumber' = [lastNumber EXCEPT !["RETURN"] = number]
  /\ Reverse(r, s, balance, reversed, IF r.restock THEN qty ELSE 0, Len(invoices) + 1)

\* Mutant of BookCancel: the drawer that pays the refund is not recorded.
BookCancelUnattributed(r, s, balance) ==
  /\ invoices' = [invoices EXCEPT ![r.invoice].status = "CANCELLED"]
  /\ Reverse(r, s, balance, CancelledUdhar(r.invoice, balance), invoices[r.invoice].qty,
             r.invoice)
  /\ UNCHANGED lastNumber

BookCancel(r, s, balance) ==
  /\ invoices' = [invoices EXCEPT ![r.invoice].status = "CANCELLED",
                                  ![r.invoice].cancelShift = s]
  /\ Reverse(r, s, balance, CancelledUdhar(r.invoice, balance), invoices[r.invoice].qty,
             r.invoice)
  /\ UNCHANGED lastNumber

BookRepayment(r, s, balance) ==
  LET cash == IF r.tender = "CASH" THEN r.amount ELSE 0 IN
  /\ udhar' = Append(udhar, UdharRow("PAYMENT", r, balance, balance - r.amount, s, 0))
  /\ SetBalance(r.customer, balance - r.amount)
  /\ shifts' = IF s = 0 THEN shifts
               ELSE [shifts EXCEPT ![s].receipts = @ + r.amount, ![s].expected = @ + cash]
  /\ Post(Entries(cash, r.amount - cash, -r.amount, 0, 0))
  /\ UNCHANGED <<invoices, expenses, lastNumber, onHand>>

\* The opening balance of a customer is keyed by the customer: type OPENING here.
BookOpening(r) ==
  /\ udhar' = Append(udhar, UdharRow("OPENING", [r EXCEPT !.key = 0], 0, r.amount, 0, 0))
  /\ SetBalance(r.customer, r.amount)
  /\ Post([NoEntries EXCEPT !["RECEIVABLE"] = r.amount, !["EQUITY"] = -r.amount])
  /\ UNCHANGED <<invoices, shifts, expenses, lastNumber, onHand>>

NewShift(a, float) ==
  [owner |-> a, status |-> "OPEN", opening |-> float, expected |-> float,
   sales |-> 0, cash |-> 0, bank |-> 0, udhar |-> 0, receipts |-> 0, payouts |-> 0]

BookOpenShift(r) ==
  /\ shifts' = Append(shifts, NewShift(r.actor, r.amount))
  /\ UNCHANGED <<invoices, udhar, customers, expenses, lastNumber, onHand, ledger>>

BookCloseShift(s) ==
  /\ shifts' = [shifts EXCEPT ![s].status = "CLOSED"]
  /\ UNCHANGED <<invoices, udhar, customers, expenses, lastNumber, onHand, ledger>>

BookDelete(c) ==
  /\ customers' = [customers EXCEPT ![c].deleted = TRUE]
  /\ UNCHANGED <<invoices, udhar, shifts, expenses, lastNumber, onHand, ledger>>

-----------------------------------------------------------------------------
(* Expenses *)

\* What a request makes of an expense; `was` is the row it read.
Spent(r, was) ==
  IF r.kind = "dropExpense" THEN [was EXCEPT !.deleted = TRUE]
  ELSE [was EXCEPT !.amount = r.amount, !.paid = r.paid, !.tender = r.tender]

NoExpense == [amount |-> 0, paid |-> FALSE, tender |-> "CASH", deleted |-> FALSE, shift |-> 0, cash |-> 0, bank |-> 0]

\* expenseCashOut, and what the expense implies for the ledger's BANK.
CashOut(e) == IF e.paid /\ ~e.deleted /\ e.tender = "CASH" THEN e.amount ELSE 0
BankOut(e) == IF e.paid /\ ~e.deleted /\ e.tender # "CASH" THEN e.amount ELSE 0

\* The drawer an expense is on afterwards: a closed one stays, an open one while it pays.
DrawerAfter(was, next, s) ==
  IF was.shift = 0 \/ shifts[was.shift].status # "OPEN" \/ CashOut(next) > 0 THEN s ELSE 0

\* What an open drawer pays out on top of what it paid for this expense before.
Payout(was, next) == CashOut(next) - CashOut(was)

\* The drawer of an expense that is recorded or edited; a closed one is not touched.
PayFromDrawer(s, was, next) ==
  shifts' = IF s = 0 \/ shifts[s].status # "OPEN" THEN shifts
            ELSE [shifts EXCEPT ![s].expected = @ - Payout(was, next),
                                ![s].payouts = @ + Payout(was, next)]

\* Mutant of SyncLedger: an edit posts the whole expense again.
SyncLedgerInFull(was, next) ==
  Post([NoEntries EXCEPT !["EXPENSES"] = CashOut(next) + BankOut(next),
                         !["CASH"] = -CashOut(next), !["BANK"] = -BankOut(next)])

\* The difference between what the expense implies and what its postings hold.
SyncLedger(was, next) ==
  LET cash == CashOut(next) - was.cash
      bank == BankOut(next) - was.bank
  IN Post([NoEntries EXCEPT !["EXPENSES"] = cash + bank, !["CASH"] = -cash, !["BANK"] = -bank])

\* An expense is recorded (e is a new row), edited or taken back, on drawer s.
BookExpense(r, e, was, s) ==
  LET next == Spent(r, was)
      row  == [next EXCEPT !.shift = DrawerAfter(was, next, s), !.cash = CashOut(next), !.bank = BankOut(next)]
  IN
  /\ expenses' = IF e \in DOMAIN expenses THEN [expenses EXCEPT ![e] = row] ELSE Append(expenses, row)
  /\ PayFromDrawer(s, was, next)
  /\ SyncLedger(was, next)
  /\ UNCHANGED <<invoices, udhar, customers, lastNumber, onHand>>

-----------------------------------------------------------------------------
(* What a flow checks before it writes *)

OpenShifts(a) == {s \in DOMAIN shifts : shifts[s].owner = a /\ shifts[s].status = "OPEN"}

\* ORDER BY openedAt DESC LIMIT 1
OpenShiftOf(a) == IF OpenShifts(a) = {} THEN 0 ELSE Max(OpenShifts(a))

MayUseShift(a, s) ==
  /\ s \in DOMAIN shifts
  /\ shifts[s].status = "OPEN"
  /\ shifts[s].owner = a \/ IsManager(a)

\* lockShift: the explicit shift, which must be usable, or the actor's own if any.
ShiftAllowed(r) == r.shift = 0 \/ MayUseShift(r.actor, r.shift)

\* lockShiftForCashPayout and moveDrawer: the drawer an expense is paid from or was paid from.
PayingShift(r, was) ==
  IF was.shift # 0 THEN was.shift
  ELSE IF CashOut(Spent(r, was)) > 0 /\ CashOut(was) = 0 THEN OpenShiftOf(r.actor) ELSE 0

\* close: some open shift, the actor's own or, for a manager, anybody's.
ClosesShift(r) ==
  IF r.shift = 0 THEN OpenShiftOf(r.actor) # 0 ELSE MayUseShift(r.actor, r.shift)

Holder(key) == {i \in DOMAIN invoices : invoices[i].key = key}

Payment(key) == {u \in DOMAIN udhar : udhar[u].type = "PAYMENT" /\ udhar[u].key = key}

SamePayment(u, r) ==
  /\ udhar[u].customer = r.customer
  /\ udhar[u].amount = r.amount
  /\ udhar[u].tender = r.tender

IsOpenSale(i) ==
  /\ i \in DOMAIN invoices
  /\ invoices[i].type = "SALE"
  /\ invoices[i].status = "COMPLETED"

MayReturn(r) ==
  /\ IsOpenSale(r.invoice)
  /\ ReturnQty(r) \in 1 .. Returnable(r.invoice)
  /\ IsManager(r.actor) \/ RefundTotal(r) <= CashierMaxRefund

MayCancel(i) == IsOpenSale(i) /\ invoices[i].returned = 0

\* A cash refund needs a drawer to leave from.
DrawerForRefund(r, s, balance) == CashRefund(r, balance) > 0 => s # 0

\* Mutant of MayCredit: the limit is compared with the bill alone.
MayCreditPerBill(r, balance) ==
  r.amount > 0 =>
    /\ balance + r.amount <= MaxBalance
    /\ r.amount <= CreditLimit \/ IsManager(r.actor)

MayCredit(r, balance) ==
  r.amount > 0 =>
    /\ balance + r.amount <= MaxBalance
    /\ balance + r.amount <= CreditLimit \/ IsManager(r.actor)

MayRepay(r, balance) ==
  /\ r.amount <= balance \/ r.advance
  /\ balance - r.amount >= -MaxBalance

\* recordOpeningBalance: before any other movement.
Opened(c) == {u \in DOMAIN udhar : udhar[u].type = "OPENING" /\ udhar[u].customer = c}

MayOpenBalance(r) ==
  /\ \A u \in DOMAIN udhar : udhar[u].customer # r.customer
  /\ customers[r.customer].balance = 0

-----------------------------------------------------------------------------
\* The start of a day: nothing billed, and perhaps one drawer opened already.
InitBooks ==
  /\ invoices = <<>>
  /\ udhar = <<>>
  /\ customers = [c \in Customer |-> [balance |-> 0, deleted |-> FALSE]]
  /\ shifts \in {<<>>} \cup {<<NewShift(a, 0)>> : a \in Actor}
  /\ expenses = <<>>
  /\ lastNumber = [series \in {"SALE", "RETURN"} |-> 0]
  /\ onHand = Stock
  /\ ledger = NoEntries
=============================================================================
