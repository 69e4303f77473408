-------------------------- MODULE PosBillingProofs --------------------------
(***************************************************************************)
(* The money flows that run at the same time have the effects of flows run *)
(* one after the other (Serializable), for any requests in flight, any     *)
(* customers, users and amounts, and any number of runs; and what follows  *)
(* of it for the documents, the rows that are locked and the drawers.      *)
(*                                                                         *)
(* The argument: what a request has read under a row lock is still so when *)
(* it commits, since only a request that holds the row's lock writes the   *)
(* row, and no two hold one lock.  So at the commit the checks of the      *)
(* serial flow are true of the books, and the values written are computed  *)
(* from the books as they are.                                             *)
(*                                                                         *)
(* First comes what the serial flows themselves keep in the books, one     *)
(* after the other (SerialBilling), then the requests that run at the same *)
(* time, and last the sums of the books: the drawers, balances, accounts   *)
(* and stock that the documents add up to.                                 *)
(***************************************************************************)
EXTENDS PosBilling, SerialBilling, SumLemmas, TLAPS, FiniteSetTheorems, SequenceTheorems, WellFoundedInduction

-----------------------------------------------------------------------------
(* Tables, and the largest of some positions *)

\* A row more: the earlier rows keep their positions.
LEMMA AppendRow ==
  ASSUME NEW t, IsRows(t), NEW x
  PROVE  /\ IsRows(Append(t, x))
         /\ DOMAIN t = 1 .. Len(t)
         /\ Len(Append(t, x)) = Len(t) + 1
         /\ DOMAIN Append(t, x) = DOMAIN t \cup {Len(t) + 1}
         /\ Len(t) + 1 \notin DOMAIN t
         /\ \A i \in DOMAIN t : i # Len(t) + 1 /\ Append(t, x)[i] = t[i]
         /\ Append(t, x)[Len(t) + 1] = x
<1> DEFINE S == {t[i] : i \in DOMAIN t} \cup {x}
<1>1. DOMAIN t = 1 .. Len(t)
  BY DEF IsRows
<1>2. t \in Seq(S)
  BY <1>1 DEF IsRows
<1>3. x \in S
  OBVIOUS
<1> HIDE DEF S
<1>4. /\ Append(t, x) \in Seq(S)
      /\ Len(Append(t, x)) = Len(t) + 1
      /\ \A i \in 1 .. Len(t) : Append(t, x)[i] = t[i]
      /\ Append(t, x)[Len(t) + 1] = x
  BY <1>2, <1>3
<1>5. Append(t, x) = [i \in 1 .. Len(Append(t, x)) |-> Append(t, x)[i]]
  BY <1>4, LenProperties
<1>6. IsRows(Append(t, x)) /\ DOMAIN Append(t, x) = 1 .. Len(t) + 1 /\ Len(t) \in Nat
  BY <1>2, <1>4, <1>5, LenProperties DEF IsRows
<1> QED BY <1>1, <1>4, <1>6

\* A row changed: every row keeps its position.
LEMMA ChangeRow ==
  ASSUME NEW t, IsRows(t), NEW i, NEW x
  PROVE  /\ IsRows([t EXCEPT ![i] = x])
         /\ DOMAIN [t EXCEPT ![i] = x] = DOMAIN t
         /\ Len([t EXCEPT ![i] = x]) = Len(t)
         /\ \A j \in DOMAIN t : [t EXCEPT ![i] = x][j] = IF j = i THEN x ELSE t[j]
<1> DEFINE S == {t[j] : j \in DOMAIN t} \cup {x}
           u == [t EXCEPT ![i] = x]
<1>1. DOMAIN t = 1 .. Len(t) /\ Len(t) \in Nat
  BY DEF IsRows
<1>2. u = [j \in 1 .. Len(t) |-> u[j]] /\ \A j \in DOMAIN t : u[j] = IF j = i THEN x ELSE t[j]
  BY <1>1
<1>3. \A j \in 1 .. Len(t) : u[j] \in S
  BY <1>1, <1>2
<1> HIDE DEF S, u
<1>4. u \in Seq(S) /\ Len(u) = Len(t)
  BY <1>1, <1>2, <1>3
<1>5. IsRows(u) /\ DOMAIN u = DOMAIN t /\ Len(u) = Len(t)
  BY <1>1, <1>2, <1>4 DEF IsRows
<1> QED BY <1>2, <1>5 DEF u

\* The largest of some positions is one of them.
LEMMA LargestPosition ==
  ASSUME NEW n \in Nat, NEW S \in SUBSET (1 .. n), S # {}
  PROVE  Max(S) \in S /\ \A i \in S : Max(S) >= i
<1> DEFINE T == {n - i : i \in S}
<1>1. T \subseteq Nat /\ T # {}
  OBVIOUS
<1>2. PICK d \in T : \A e \in T : ~(<<e, d>> \in OpToRel(<, Nat))
  BY <1>1, NatLessThanWellFounded, WFMin
<1>3. \A e \in T : ~(e < d)
  BY <1>1, <1>2 DEF OpToRel
<1>4. PICK m \in S : d = n - m
  OBVIOUS
<1>5. ASSUME NEW i \in S PROVE m >= i
  <2>1. n - i \in T /\ i \in Int /\ m \in Int
    OBVIOUS
  <2> HIDE DEF T
  <2> QED BY <1>3, <1>4, <2>1
<1>6. \E m2 \in S : \A i \in S : m2 >= i
  BY <1>5
<1> QED BY <1>6 DEF Max

-----------------------------------------------------------------------------
(* What a transaction leaves of each table *)

(***************************************************************************)
(* Drawer s may have other counters; no drawer changes hands, opens or     *)
(* closes, and the other drawers are not written.                          *)
(***************************************************************************)
OnlyCounters(s) ==
  /\ IsRows(shifts') /\ DOMAIN shifts' = DOMAIN shifts
  /\ \A x \in DOMAIN shifts :
       /\ DOMAIN shifts'[x] = DOMAIN shifts[x]
       /\ shifts'[x].owner = shifts[x].owner
       /\ shifts'[x].status = shifts[x].status
       /\ x # s => shifts'[x] = shifts[x]

\* The update of one drawer's row, whichever of its columns but owner and status.
LEMMA CountersWritten ==
  ASSUME ShiftsShaped, NEW s, NEW row, shifts' = [shifts EXCEPT ![s] = row],
         s \in DOMAIN shifts =>
           /\ DOMAIN row = DOMAIN shifts[s]
           /\ row.owner = shifts[s].owner /\ row.status = shifts[s].status
  PROVE  OnlyCounters(s)
  BY ChangeRow DEF ShiftsShaped, OnlyCounters

\* Without a drawer none is written.
LEMMA NoCounters ==
  ASSUME ShiftsShaped, NEW s, shifts' = shifts
  PROVE  OnlyCounters(s)
  BY DEF ShiftsShaped, OnlyCounters

\* moveDrawer of a bill or a refund writes counters of its drawer only.
LEMMA MoveDrawerCounters ==
  ASSUME ShiftsShaped, NEW s, NEW total, NEW cash, NEW bank, NEW credit,
         MoveDrawer(s, total, cash, bank, credit)
  PROVE  OnlyCounters(s)
<1>1. CASE s = 0
  BY <1>1, NoCounters DEF MoveDrawer
<1>2. CASE s # 0
  <2> DEFINE row == [shifts[s] EXCEPT !.sales = @ + total, !.cash = @ + cash, !.bank = @ + bank,
                                      !.udhar = @ + credit, !.expected = @ + cash]
  <2>1. shifts' = [shifts EXCEPT ![s] = row]
    BY <1>2 DEF MoveDrawer, ShiftsShaped
  <2>2. DOMAIN row = DOMAIN shifts[s]
    OBVIOUS
  <2>3. s \in DOMAIN shifts => row.owner = shifts[s].owner /\ row.status = shifts[s].status
    BY DEF ShiftsShaped, ShiftColumns
  <2> HIDE DEF row
  <2> QED BY <2>1, <2>2, <2>3, CountersWritten
<1> QED BY <1>1, <1>2

\* So does an expense.
LEMMA PayFromDrawerCounters ==
  ASSUME ShiftsShaped, NEW s, NEW was, NEW next, PayFromDrawer(s, was, next)
  PROVE  OnlyCounters(s)
<1>1. CASE s = 0 \/ shifts[s].status # "OPEN"
  BY <1>1, NoCounters DEF PayFromDrawer
<1>2. CASE s # 0 /\ shifts[s].status = "OPEN"
  <2> DEFINE row == [shifts[s] EXCEPT !.expected = @ - Payout(was, next),
                                      !.payouts = @ + Payout(was, next)]
  <2>1. shifts' = [shifts EXCEPT ![s] = row]
    BY <1>2 DEF PayFromDrawer, ShiftsShaped
  <2>2. DOMAIN row = DOMAIN shifts[s]
    OBVIOUS
  <2>3. s \in DOMAIN shifts => row.owner = shifts[s].owner /\ row.status = shifts[s].status
    BY DEF ShiftsShaped, ShiftColumns
  <2> HIDE DEF row
  <2> QED BY <2>1, <2>2, <2>3, CountersWritten
<1> QED BY <1>1, <1>2

\* And a repayment.
LEMMA RepaymentCounters ==
  ASSUME ShiftsShaped, NEW r, NEW s, NEW balance, BookRepayment(r, s, balance)
  PROVE  OnlyCounters(s)
<1> DEFINE cash == IF r.tender = "CASH" THEN r.amount ELSE 0
<1>1. CASE s = 0
  BY <1>1, NoCounters DEF BookRepayment
<1>2. CASE s # 0
  <2> DEFINE row == [shifts[s] EXCEPT !.receipts = @ + r.amount, !.expected = @ + cash]
  <2>1. shifts' = [shifts EXCEPT ![s].receipts = @ + r.amount, ![s].expected = @ + cash]
    BY <1>2 DEF BookRepayment
  <2> HIDE DEF cash
  <2>2. shifts' = [shifts EXCEPT ![s] = row]
    BY <2>1 DEF ShiftsShaped
  <2>3. DOMAIN row = DOMAIN shifts[s]
    OBVIOUS
  <2>4. s \in DOMAIN shifts => row.owner = shifts[s].owner /\ row.status = shifts[s].status
    BY DEF ShiftsShaped, ShiftColumns
  <2> HIDE DEF row
  <2> QED BY <2>2, <2>3, <2>4, CountersWritten
<1> QED BY <1>1, <1>2

\* What no flow changes in an invoice that is there.
InvoiceKept(i) ==
  /\ DOMAIN invoices'[i] = DOMAIN invoices[i]
  /\ invoices'[i].type = invoices[i].type /\ invoices'[i].key = invoices[i].key
  /\ invoices'[i].number = invoices[i].number /\ invoices'[i].customer = invoices[i].customer
  /\ invoices'[i].shift = invoices[i].shift /\ invoices'[i].original = invoices[i].original
  /\ invoices'[i].qty = invoices[i].qty /\ invoices'[i].total = invoices[i].total
  /\ invoices'[i].cash = invoices[i].cash /\ invoices'[i].bank = invoices[i].bank
  /\ invoices'[i].udhar = invoices[i].udhar /\ invoices'[i].bill = invoices[i].bill

\* Every invoice stays, and only invoice i is written.
OnlyInvoice(i) ==
  \A j \in DOMAIN invoices :
    j \in DOMAIN invoices' /\ InvoiceKept(j) /\ (j # i => invoices'[j] = invoices[j])

SameDocuments == IsRows(invoices') /\ DOMAIN invoices' = DOMAIN invoices

\* A document of request r on drawer s, for customer c, under the series' next number.
NewDocument(r, type, original, s, c) ==
  LET n == Len(invoices) + 1 IN
  /\ IsRows(invoices') /\ n \notin DOMAIN invoices
  /\ DOMAIN invoices' = DOMAIN invoices \cup {n}
  /\ DOMAIN invoices'[n] = InvoiceColumns
  /\ invoices'[n].type = type /\ invoices'[n].key = r.key /\ invoices'[n].original = original
  /\ invoices'[n].customer = c /\ invoices'[n].shift = s /\ invoices'[n].bill = Bill(r)

\* A bill is a new document, and no other is written.
LEMMA SaleDocuments ==
  ASSUME InvoicesShaped, NEW r, NEW s, NEW balance, NEW number, BookSale(r, s, balance, number)
  PROVE  /\ OnlyInvoice(0) /\ NewDocument(r, "SALE", 0, s, r.customer)
         /\ invoices'[Len(invoices) + 1].number = number
         /\ lastNumber' = [lastNumber EXCEPT !["SALE"] = number]
<1>1. PICK row : /\ invoices' = Append(invoices, row)
                 /\ DOMAIN row = InvoiceColumns
                 /\ row.type = "SALE" /\ row.key = r.key /\ row.original = 0
                 /\ row.bill = Bill(r)
                 /\ row.customer = r.customer /\ row.shift = s /\ row.number = number
  BY DEF BookSale, InvoiceColumns
<1> QED BY <1>1, AppendRow DEF InvoicesShaped, OnlyInvoice, InvoiceKept, NewDocument, BookSale

\* A return is a new document, and only the sale it is of is written.
LEMMA ReturnDocuments ==
  ASSUME InvoicesShaped, NEW r, NEW s, NEW balance, NEW number, BookReturn(r, s, balance, number),
         r.invoice \in DOMAIN invoices
  PROVE  /\ OnlyInvoice(r.invoice)
         /\ NewDocument(r, "RETURN", r.invoice, s, invoices[r.invoice].customer)
         /\ invoices'[Len(invoices) + 1].number = number
         /\ lastNumber' = [lastNumber EXCEPT !["RETURN"] = number]
<1> DEFINE sale == [invoices[r.invoice] EXCEPT !.returned = @ + ReturnQty(r)]
           table == [invoices EXCEPT ![r.invoice] = sale]
<1>1. PICK row : /\ invoices' = Append(table, row)
                 /\ DOMAIN row = InvoiceColumns
                 /\ row.type = "RETURN" /\ row.key = r.key /\ row.original = r.invoice
                 /\ row.bill = Bill(r)
                 /\ row.customer = invoices[r.invoice].customer /\ row.shift = s
                 /\ row.number = number
  BY DEF BookReturn, InvoiceColumns
<1>2. /\ DOMAIN sale = DOMAIN invoices[r.invoice]
      /\ \A k \in InvoiceColumns \ {"returned"} : sale[k] = invoices[r.invoice][k]
  BY DEF InvoicesShaped
<1> HIDE DEF sale
<1>3. /\ IsRows(table) /\ DOMAIN table = DOMAIN invoices /\ Len(table) = Len(invoices)
      /\ \A j \in DOMAIN invoices : table[j] = IF j = r.invoice THEN sale ELSE invoices[j]
  BY ChangeRow DEF InvoicesShaped
<1> HIDE DEF table
<1>4. /\ IsRows(invoices') /\ Len(invoices) + 1 \notin DOMAIN invoices
      /\ DOMAIN invoices' = DOMAIN invoices \cup {Len(invoices) + 1}
      /\ \A j \in DOMAIN invoices : invoices'[j] = table[j]
      /\ invoices'[Len(invoices) + 1] = row
  BY <1>1, <1>3, AppendRow
<1>5. OnlyInvoice(r.invoice)
  <2>1. ASSUME NEW j \in DOMAIN invoices PROVE InvoiceKept(j)
    <3>1. CASE j = r.invoice
      BY <1>2, <1>3, <1>4, <3>1 DEF InvoiceKept, InvoiceColumns
    <3>2. CASE j # r.invoice
      BY <1>3, <1>4, <3>2 DEF InvoiceKept
    <3> QED BY <3>1, <3>2
  <2> QED BY <1>3, <1>4, <2>1 DEF OnlyInvoice
<1> QED BY <1>1, <1>4, <1>5 DEF NewDocument, BookReturn

\* A cancellation writes the bill it is of, and adds no document.
LEMMA CancelDocuments ==
  ASSUME InvoicesShaped, NEW r, NEW s, NEW balance, BookCancel(r, s, balance),
         r.invoice \in DOMAIN invoices
  PROVE  OnlyInvoice(r.invoice) /\ SameDocuments /\ lastNumber' = lastNumber
<1> DEFINE sale == [invoices[r.invoice] EXCEPT !.status = "CANCELLED", !.cancelShift = s]
<1>1. invoices' = [invoices EXCEPT ![r.invoice] = sale]
  BY DEF BookCancel, InvoicesShaped
<1>2. /\ DOMAIN sale = DOMAIN invoices[r.invoice]
      /\ \A k \in InvoiceColumns \ {"status", "cancelShift"} : sale[k] = invoices[r.invoice][k]
  BY DEF InvoicesShaped
<1> HIDE DEF sale
<1>3. /\ SameDocuments
      /\ \A j \in DOMAIN invoices : invoices'[j] = IF j = r.invoice THEN sale ELSE invoices[j]
  BY <1>1, ChangeRow DEF InvoicesShaped, SameDocuments
<1>4. OnlyInvoice(r.invoice)
  <2>1. ASSUME NEW j \in DOMAIN invoices PROVE InvoiceKept(j)
    <3>1. CASE j = r.invoice
      BY <1>2, <1>3, <3>1 DEF InvoiceKept, InvoiceColumns
    <3>2. CASE j # r.invoice
      BY <1>3, <3>2 DEF InvoiceKept
    <3> QED BY <3>1, <3>2
  <2> QED BY <1>3, <2>1 DEF OnlyInvoice, SameDocuments
<1> QED BY <1>3, <1>4 DEF BookCancel

\* The flows that write no invoice.
LEMMA NoDocuments ==
  ASSUME InvoicesShaped, invoices' = invoices
  PROVE  OnlyInvoice(0) /\ SameDocuments
  BY DEF InvoicesShaped, OnlyInvoice, InvoiceKept, SameDocuments

(***************************************************************************)
(* The balance of customer c moves: a row more, which starts at the        *)
(* balance, and the balance is where it ends.                              *)
(***************************************************************************)
MovesBalance(c, row) ==
  /\ udhar' = Append(udhar, row)
  /\ row.customer = c /\ row.before = BalanceOf(c)
  /\ customers' = [customers EXCEPT ![c].balance = row.after]

\* A bill on credit, a repayment and an opening balance move their customer's balance.
LEMMA SaleMovesBalance ==
  ASSUME NEW r \in Request, NEW s, NEW number, BookSale(r, s, BalanceOf(r.customer), number)
  PROVE  \/ UNCHANGED <<udhar, customers>>
         \/ \E row : MovesBalance(r.customer, row) /\ row.type = "CREDIT"
<1>1. CASE r.amount > 0
  <2> DEFINE row == UdharRow("CREDIT", [r EXCEPT !.key = 0], BalanceOf(r.customer),
                             BalanceOf(r.customer) + r.amount, 0, Len(invoices) + 1)
  <2>1. /\ row.customer = r.customer /\ row.before = BalanceOf(r.customer)
        /\ row.after = BalanceOf(r.customer) + r.amount /\ row.type = "CREDIT"
    BY DEF UdharRow, Request
  <2>2. /\ udhar' = Append(udhar, row)
        /\ customers' = [customers EXCEPT ![r.customer].balance = BalanceOf(r.customer) + r.amount]
    BY <1>1 DEF BookSale, SetBalance
  <2> HIDE DEF row
  <2>3. MovesBalance(r.customer, row)
    BY <2>1, <2>2 DEF MovesBalance
  <2> QED BY <2>1, <2>3
<1>2. CASE ~(r.amount > 0)
  BY <1>2 DEF BookSale
<1> QED BY <1>1, <1>2

LEMMA RepaymentMovesBalance ==
  ASSUME NEW r \in Request, NEW s, BookRepayment(r, s, BalanceOf(r.customer))
  PROVE  \E row : /\ MovesBalance(r.customer, row) /\ row.type = "PAYMENT" /\ row.key = r.key
                  /\ row.amount = r.amount /\ row.tender = r.tender
<1> DEFINE row == UdharRow("PAYMENT", r, BalanceOf(r.customer), BalanceOf(r.customer) - r.amount, s, 0)
<1>1. /\ row.customer = r.customer /\ row.before = BalanceOf(r.customer)
      /\ row.after = BalanceOf(r.customer) - r.amount /\ row.type = "PAYMENT" /\ row.key = r.key
      /\ row.amount = r.amount /\ row.tender = r.tender
  BY DEF UdharRow, Request
<1>2. /\ udhar' = Append(udhar, row)
      /\ customers' = [customers EXCEPT ![r.customer].balance = BalanceOf(r.customer) - r.amount]
  BY DEF BookRepayment, SetBalance
<1> HIDE DEF row
<1>3. MovesBalance(r.customer, row)
  BY <1>1, <1>2 DEF MovesBalance
<1> QED BY <1>1, <1>3

LEMMA OpeningMovesBalance ==
  ASSUME NEW r \in Request, BookOpening(r), BalanceOf(r.customer) = 0
  PROVE  \E row : MovesBalance(r.customer, row) /\ row.type = "OPENING"
<1> DEFINE row == UdharRow("OPENING", [r EXCEPT !.key = 0], 0, r.amount, 0, 0)
<1>1. /\ row.customer = r.customer /\ row.before = 0
      /\ row.after = r.amount /\ row.type = "OPENING"
  BY DEF UdharRow, Request
<1>2. /\ udhar' = Append(udhar, row)
      /\ customers' = [customers EXCEPT ![r.customer].balance = r.amount]
  BY DEF BookOpening, SetBalance
<1> HIDE DEF row
<1>3. MovesBalance(r.customer, row)
  BY <1>1, <1>2 DEF MovesBalance
<1> QED BY <1>1, <1>3

\* A reversal moves the balance of the sale's customer if it cancels credit at all.
LEMMA ReverseMovesBalance ==
  ASSUME NEW r \in Request, NEW s, NEW reversed, NEW goods, NEW i,
         Reverse(r, s, BalanceOf(invoices[r.invoice].customer), reversed, goods, i)
  PROVE  \/ UNCHANGED <<udhar, customers>>
         \/ /\ reversed > 0
            /\ \E row : MovesBalance(invoices[r.invoice].customer, row) /\ row.type = "ADJUSTMENT"
<1> DEFINE c == invoices[r.invoice].customer
<1>1. CASE reversed > 0
  <2> DEFINE row == UdharRow("ADJUSTMENT", [r EXCEPT !.customer = c, !.key = 0, !.amount = reversed],
                             BalanceOf(c), BalanceOf(c) - reversed, 0, i)
  <2>1. /\ row.customer = c /\ row.before = BalanceOf(c)
        /\ row.after = BalanceOf(c) - reversed /\ row.type = "ADJUSTMENT"
    BY DEF UdharRow, Request
  <2>2. /\ udhar' = Append(udhar, row)
        /\ customers' = [customers EXCEPT ![c].balance = BalanceOf(c) - reversed]
    BY <1>1 DEF Reverse, SetBalance
  <2> HIDE DEF row
  <2>3. MovesBalance(c, row)
    BY <2>1, <2>2 DEF MovesBalance
  <2> QED BY <1>1, <2>1, <2>3
<1>2. CASE ~(reversed > 0)
  BY <1>2 DEF Reverse
<1> QED BY <1>1, <1>2

\* A customer who is owed and owes nothing has no credit to cancel.
LEMMA NothingToReverse ==
  /\ \A r : ~(ReturnedUdhar(r, 0) > 0)
  /\ \A i : ~(CancelledUdhar(i, 0) > 0)
  BY DEF ReturnedUdhar, CancelledUdhar, SmallerOf, LargerOf

-----------------------------------------------------------------------------
(* The drawers flows book on *)

\* The drawer the locking read finds is an open one of the user, or none.
LEMMA OwnShift ==
  ASSUME ShiftsShaped, NEW a
  PROVE  OpenShiftOf(a) = 0 \/ OpenShiftOf(a) \in OpenShifts(a)
<1>1. OpenShifts(a) \in SUBSET (1 .. Len(shifts)) /\ Len(shifts) \in Nat
  BY DEF OpenShifts, ShiftsShaped, IsRows
<1> QED BY <1>1, LargestPosition DEF OpenShiftOf

\* With one open drawer a cashier, any of the user's open drawers is the one it finds.
LEMMA OnlyShift ==
  ASSUME ShiftsShaped, OneDrawerEach, NEW a, NEW s \in OpenShifts(a)
  PROVE  OpenShiftOf(a) = s
<1>1. OpenShiftOf(a) \in OpenShifts(a)
  <2>1. OpenShifts(a) \in SUBSET (1 .. Len(shifts)) /\ Len(shifts) \in Nat
    BY DEF OpenShifts, ShiftsShaped, IsRows
  <2> QED BY <2>1, LargestPosition DEF OpenShiftOf
<1> QED BY <1>1 DEF OpenShifts, OneDrawerEach

\* A drawer a flow may book on: none, or an open one.
Usable(s) == s = 0 \/ (s \in DOMAIN shifts /\ shifts[s].status = "OPEN")

\* Bills, refunds, repayments and new expenses are booked on usable drawers.
LEMMA DrawersUsable ==
  ASSUME ShiftsShaped, NEW r
  PROVE  /\ \A s \in OwnDrawer(r.actor) : Usable(s)
         /\ \A s \in ReversalDrawer(r) : Usable(s)
         /\ ShiftAllowed(r) => \A s \in SaleDrawer(r) : Usable(s)
         /\ \A was : was.shift = 0 => Usable(PayingShift(r, was))
<1>1. \A s \in OwnDrawer(r.actor) : Usable(s)
  <2>1. OpenShiftOf(r.actor) = 0 \/ OpenShiftOf(r.actor) \in OpenShifts(r.actor)
    BY OwnShift
  <2>2. \A s \in OpenShifts(r.actor) : Usable(s)
    BY DEF OpenShifts, Usable
  <2>3. Usable(0)
    BY DEF Usable
  <2> QED BY <2>1, <2>2, <2>3 DEF OwnDrawer
<1>2. \A s \in ReversalDrawer(r) : Usable(s)
  BY <1>1 DEF ReversalDrawer, MayUseShift, Usable
<1>3. ShiftAllowed(r) => \A s \in SaleDrawer(r) : Usable(s)
  BY <1>1 DEF SaleDrawer, ShiftAllowed, MayUseShift, Usable
<1>4. \A was : was.shift = 0 => PayingShift(r, was) \in OwnDrawer(r.actor)
  BY DEF PayingShift, OwnDrawer
<1> QED BY <1>1, <1>2, <1>3, <1>4

-----------------------------------------------------------------------------
(* The tables keep their shape *)

\* Drawers that only count stay drawers, one open one a cashier.
LEMMA CountersShaped ==
  ASSUME ShiftsShaped, OneDrawerEach, NEW s, OnlyCounters(s)
  PROVE  ShiftsShaped' /\ OneDrawerEach' /\ DOMAIN shifts' = DOMAIN shifts
  BY DEF ShiftsShaped, OneDrawerEach, OnlyCounters

\* Invoices stay what they are when some of them are written and one is perhaps added.
LEMMA DocumentsShaped ==
  ASSUME InvoicesShaped, DOMAIN shifts \subseteq DOMAIN shifts', NEW i, OnlyInvoice(i),
         NEW r, NEW type, NEW original, NEW s, NEW c,
         \/ SameDocuments
         \/ /\ NewDocument(r, type, original, s, c)
            /\ type \in {"SALE", "RETURN"} /\ s \in {0} \cup DOMAIN shifts
            /\ c \in Customer \cup {NoCustomer}
  PROVE  InvoicesShaped'
<1>1. \A j \in DOMAIN invoices :
        /\ DOMAIN invoices'[j] = InvoiceColumns
        /\ invoices'[j].type \in {"SALE", "RETURN"}
        /\ invoices'[j].customer \in Customer \cup {NoCustomer}
        /\ invoices'[j].shift \in {0} \cup DOMAIN shifts'
  BY DEF InvoicesShaped, OnlyInvoice, InvoiceKept
<1>2. CASE SameDocuments
  BY <1>1, <1>2 DEF SameDocuments, InvoicesShaped
<1>3. CASE NewDocument(r, type, original, s, c) /\ ~SameDocuments
  BY <1>1, <1>3 DEF NewDocument, InvoicesShaped
<1> QED BY <1>2, <1>3

\* A balance that moves leaves a customer a customer.
LEMMA BalancesShaped ==
  ASSUME CustomersShaped, NEW c, NEW row,
         UNCHANGED <<udhar, customers>> \/ MovesBalance(c, row)
  PROVE  CustomersShaped'
<1>1. CASE UNCHANGED <<udhar, customers>>
  BY <1>1 DEF CustomersShaped
<1>2. CASE MovesBalance(c, row)
  <2>1. IsRows(udhar')
    BY <1>2, AppendRow DEF MovesBalance, CustomersShaped
  <2> QED BY <1>2, <2>1 DEF MovesBalance, CustomersShaped
<1> QED BY <1>1, <1>2

\* Expenses stay what they are when none is written.
LEMMA ExpensesStay ==
  ASSUME ExpensesShaped, expenses' = expenses, DOMAIN shifts \subseteq DOMAIN shifts'
  PROVE  ExpensesShaped'
  BY DEF ExpensesShaped

\* A bill leaves the tables in shape.
LEMMA SaleShaped ==
  ASSUME BooksShaped, NEW r \in Request, Sale(r)
  PROVE  BooksShaped'
<1>1. PICK s \in SaleDrawer(r) : BookSale(r, s, BalanceOf(r.customer), lastNumber["SALE"] + 1)
  BY DEF Sale
<1>2. OnlyCounters(s)
  BY <1>1, MoveDrawerCounters DEF BooksShaped, BookSale
<1>3. Usable(s)
  BY <1>1, DrawersUsable DEF BooksShaped, Sale
<1>4. ShiftsShaped' /\ OneDrawerEach' /\ DOMAIN shifts' = DOMAIN shifts
  BY <1>2, CountersShaped DEF BooksShaped
<1>5. OnlyInvoice(0) /\ NewDocument(r, "SALE", 0, s, r.customer)
      /\ lastNumber' = [lastNumber EXCEPT !["SALE"] = lastNumber["SALE"] + 1]
  BY <1>1, SaleDocuments DEF BooksShaped
<1>6. r.customer \in Customer \cup {NoCustomer}
  BY DEF Request
<1>7. InvoicesShaped'
  BY <1>3, <1>4, <1>5, <1>6, DocumentsShaped DEF BooksShaped, Usable
<1>8. CustomersShaped'
  BY <1>1, SaleMovesBalance, BalancesShaped DEF BooksShaped
<1>9. ExpensesShaped'
  BY <1>1, <1>4, ExpensesStay DEF BooksShaped, BookSale
<1>10. NumbersShaped'
  BY <1>5 DEF BooksShaped, NumbersShaped
<1> QED BY <1>4, <1>7, <1>8, <1>9, <1>10 DEF BooksShaped

\* So does a return.
LEMMA ReturnShaped ==
  ASSUME BooksShaped, NEW r \in Request, Return(r)
  PROVE  BooksShaped'
<1> DEFINE c == invoices[r.invoice].customer
<1>1. PICK s \in ReversalDrawer(r) : BookReturn(r, s, BalanceOf(c), lastNumber["RETURN"] + 1)
  BY DEF Return
<1>0. r.invoice \in DOMAIN invoices
  BY DEF Return, MayReturn, IsOpenSale
<1>a. \E i : Reverse(r, s, BalanceOf(c), ReturnedUdhar(r, BalanceOf(c)),
                     IF r.restock THEN ReturnQty(r) ELSE 0, i)
  BY <1>1 DEF BookReturn
<1>2. OnlyCounters(s)
  BY <1>a, MoveDrawerCounters DEF BooksShaped, Reverse
<1>3. Usable(s)
  BY <1>1, DrawersUsable DEF BooksShaped
<1>4. ShiftsShaped' /\ OneDrawerEach' /\ DOMAIN shifts' = DOMAIN shifts
  BY <1>2, CountersShaped DEF BooksShaped
<1>5. OnlyInvoice(r.invoice) /\ NewDocument(r, "RETURN", r.invoice, s, c)
      /\ lastNumber' = [lastNumber EXCEPT !["RETURN"] = lastNumber["RETURN"] + 1]
  BY <1>0, <1>1, ReturnDocuments DEF BooksShaped
<1>6. c \in Customer \cup {NoCustomer}
  BY <1>0 DEF BooksShaped, InvoicesShaped
<1>7. InvoicesShaped'
  BY <1>3, <1>4, <1>5, <1>6, DocumentsShaped DEF BooksShaped, Usable
<1>8. CustomersShaped'
  BY <1>a, ReverseMovesBalance, BalancesShaped DEF BooksShaped
<1>9. ExpensesShaped'
  BY <1>a, <1>4, ExpensesStay DEF BooksShaped, Reverse
<1>10. NumbersShaped'
  BY <1>5 DEF BooksShaped, NumbersShaped
<1> QED BY <1>4, <1>7, <1>8, <1>9, <1>10 DEF BooksShaped

\* And a cancellation.
LEMMA CancelShaped ==
  ASSUME BooksShaped, NEW r \in Request, Cancel(r)
  PROVE  BooksShaped'
<1> DEFINE c == invoices[r.invoice].customer
<1>1. PICK s \in ReversalDrawer(r) : BookCancel(r, s, BalanceOf(c))
  BY DEF Cancel
<1>0. r.invoice \in DOMAIN invoices
  BY DEF Cancel, MayCancel, IsOpenSale
<1>a. Reverse(r, s, BalanceOf(c), CancelledUdhar(r.invoice, BalanceOf(c)),
              invoices[r.invoice].qty, r.invoice)
  BY <1>1 DEF BookCancel
<1>2. OnlyCounters(s)
  BY <1>a, MoveDrawerCounters DEF BooksShaped, Reverse
<1>4. ShiftsShaped' /\ OneDrawerEach' /\ DOMAIN shifts' = DOMAIN shifts
  BY <1>2, CountersShaped DEF BooksShaped
<1>5. OnlyInvoice(r.invoice) /\ SameDocuments /\ lastNumber' = lastNumber
  BY <1>0, <1>1, CancelDocuments DEF BooksShaped
<1>7. InvoicesShaped'
  BY <1>4, <1>5, DocumentsShaped DEF BooksShaped
<1>8. CustomersShaped'
  BY <1>a, ReverseMovesBalance, BalancesShaped DEF BooksShaped
<1>9. ExpensesShaped'
  BY <1>a, <1>4, ExpensesStay DEF BooksShaped, Reverse
<1>10. NumbersShaped'
  BY <1>5 DEF BooksShaped, NumbersShaped
<1> QED BY <1>4, <1>7, <1>8, <1>9, <1>10 DEF BooksShaped

\* A repayment and an opening balance write no document.
LEMMA RepayShaped ==
  ASSUME BooksShaped, NEW r \in Request, Repay(r)
  PROVE  BooksShaped'
<1>1. PICK s \in OwnDrawer(r.actor) : BookRepayment(r, s, BalanceOf(r.customer))
  BY DEF Repay
<1>2. OnlyCounters(s)
  BY <1>1, RepaymentCounters DEF BooksShaped
<1>3. ShiftsShaped' /\ OneDrawerEach' /\ DOMAIN shifts' = DOMAIN shifts
  BY <1>2, CountersShaped DEF BooksShaped
<1>4. invoices' = invoices /\ expenses' = expenses /\ lastNumber' = lastNumber
  BY <1>1 DEF BookRepayment
<1>5. InvoicesShaped' /\ ExpensesShaped' /\ NumbersShaped'
  BY <1>3, <1>4, NoDocuments, DocumentsShaped, ExpensesStay DEF BooksShaped, NumbersShaped
<1>6. CustomersShaped'
  BY <1>1, RepaymentMovesBalance, BalancesShaped DEF BooksShaped
<1> QED BY <1>3, <1>5, <1>6 DEF BooksShaped

LEMMA OpeningShaped ==
  ASSUME BooksShaped, NEW r \in Request, r.customer \in Customer, Opening(r)
  PROVE  BooksShaped'
<1>1. BookOpening(r) /\ BalanceOf(r.customer) = 0
  BY ShopAssumption DEF Opening, MayOpenBalance, BalanceOf
<1>2. /\ invoices' = invoices /\ shifts' = shifts /\ expenses' = expenses
      /\ lastNumber' = lastNumber
  BY <1>1 DEF BookOpening
<1>3. ShiftsShaped' /\ OneDrawerEach' /\ InvoicesShaped' /\ ExpensesShaped' /\ NumbersShaped'
  BY <1>2 DEF BooksShaped, ShiftsShaped, OneDrawerEach, InvoicesShaped, ExpensesShaped, NumbersShaped
<1>4. CustomersShaped'
  BY <1>1, OpeningMovesBalance, BalancesShaped DEF BooksShaped
<1> QED BY <1>3, <1>4 DEF BooksShaped

\* The flows that write drawers alone.
LEMMA OtherTablesShaped ==
  ASSUME BooksShaped, DOMAIN shifts \subseteq DOMAIN shifts', ShiftsShaped', OneDrawerEach',
         UNCHANGED <<invoices, udhar, customers, expenses, lastNumber>>
  PROVE  BooksShaped'
  BY DEF BooksShaped, InvoicesShaped, CustomersShaped, ExpensesShaped, NumbersShaped

\* A drawer more: its row is the last.
LEMMA OpenShiftRow ==
  ASSUME ShiftsShaped, NEW r, BookOpenShift(r)
  PROVE  LET n == Len(shifts) + 1 IN
         /\ IsRows(shifts') /\ DOMAIN shifts' = DOMAIN shifts \cup {n} /\ n \notin DOMAIN shifts
         /\ \A s \in DOMAIN shifts : shifts'[s] = shifts[s]
         /\ DOMAIN shifts'[n] = ShiftColumns
         /\ shifts'[n].owner = r.actor /\ shifts'[n].status = "OPEN"
<1>1. PICK row : /\ shifts' = Append(shifts, row)
                 /\ DOMAIN row = ShiftColumns /\ row.owner = r.actor /\ row.status = "OPEN"
  BY DEF BookOpenShift, NewShift, ShiftColumns
<1> QED BY <1>1, AppendRow DEF ShiftsShaped

\* A drawer is closed: its other columns stay.
LEMMA CloseShiftRow ==
  ASSUME ShiftsShaped, NEW s, s \in DOMAIN shifts, BookCloseShift(s)
  PROVE  /\ IsRows(shifts') /\ DOMAIN shifts' = DOMAIN shifts
         /\ DOMAIN shifts'[s] = DOMAIN shifts[s]
         /\ shifts'[s].owner = shifts[s].owner /\ shifts'[s].status = "CLOSED"
         /\ \A x \in DOMAIN shifts : x # s => shifts'[x] = shifts[x]
<1> DEFINE row == [shifts[s] EXCEPT !.status = "CLOSED"]
<1>1. shifts' = [shifts EXCEPT ![s] = row]
  BY DEF BookCloseShift
<1>2. DOMAIN row = DOMAIN shifts[s] /\ row.owner = shifts[s].owner /\ row.status = "CLOSED"
  BY DEF ShiftsShaped, ShiftColumns
<1> HIDE DEF row
<1> QED BY <1>1, <1>2, ChangeRow DEF ShiftsShaped

LEMMA OpenShiftShaped ==
  ASSUME BooksShaped, NEW r \in Request, OpenShift(r)
  PROVE  BooksShaped'
<1>1. BookOpenShift(r) /\ OpenShifts(r.actor) = {}
  BY DEF OpenShift
<1>2. /\ ShiftsShaped' /\ DOMAIN shifts \subseteq DOMAIN shifts'
  BY <1>1, OpenShiftRow DEF BooksShaped, ShiftsShaped
<1>3. OneDrawerEach'
  <2>1. \A s \in DOMAIN shifts : shifts[s].status = "OPEN" => shifts[s].owner # r.actor
    BY <1>1 DEF OpenShifts
  <2> QED BY <1>1, <2>1, OpenShiftRow DEF BooksShaped, OneDrawerEach
<1> QED BY <1>1, <1>2, <1>3, OtherTablesShaped DEF BookOpenShift

LEMMA CloseShiftShaped ==
  ASSUME BooksShaped, NEW r \in Request, CloseShift(r)
  PROVE  BooksShaped'
<1> DEFINE s == IF r.shift = 0 THEN OpenShiftOf(r.actor) ELSE r.shift
<1>1. s \in DOMAIN shifts /\ BookCloseShift(s)
  BY OwnShift DEF CloseShift, ClosesShift, MayUseShift, OpenShifts, BooksShaped
<1> HIDE DEF s
<1>2. ShiftsShaped' /\ DOMAIN shifts \subseteq DOMAIN shifts'
  BY <1>1, CloseShiftRow DEF BooksShaped, ShiftsShaped
<1>3. OneDrawerEach'
  BY <1>1, CloseShiftRow DEF BooksShaped, OneDrawerEach
<1> QED BY <1>1, <1>2, <1>3, OtherTablesShaped DEF BookCloseShift

\* An expense is written, or is a row more; it is on the drawer it was booked on, or on none.
LEMMA ExpenseRows ==
  ASSUME ExpensesShaped, NEW r, NEW e, NEW was, NEW s, BookExpense(r, e, was, s),
         DOMAIN was = ExpenseColumns
  PROVE  /\ IsRows(expenses')
         /\ \A x \in DOMAIN expenses : x \in DOMAIN expenses' /\ (x # e => expenses'[x] = expenses[x])
         /\ \A x \in DOMAIN expenses' :
              \/ x \in DOMAIN expenses /\ expenses'[x] = expenses[x]
              \/ DOMAIN expenses'[x] = ExpenseColumns /\ expenses'[x].shift \in {0, s}
<1> DEFINE next == Spent(r, was)
           row == [next EXCEPT !.shift = DrawerAfter(was, next, s), !.cash = CashOut(next),
                               !.bank = BankOut(next)]
<1>1. DOMAIN next = ExpenseColumns
  BY DEF Spent
<1>2. expenses' = IF e \in DOMAIN expenses THEN [expenses EXCEPT ![e] = row] ELSE Append(expenses, row)
  BY DEF BookExpense
<1>3. DrawerAfter(was, next, s) \in {0, s}
  BY DEF DrawerAfter
<1> HIDE DEF next
<1>4. DOMAIN row = ExpenseColumns /\ row.shift \in {0, s}
  BY <1>1, <1>3 DEF ExpenseColumns
<1> HIDE DEF row
<1>5. CASE e \in DOMAIN expenses
  BY <1>2, <1>4, <1>5, ChangeRow DEF ExpensesShaped
<1>6. CASE e \notin DOMAIN expenses
  BY <1>2, <1>4, <1>6, AppendRow DEF ExpensesShaped
<1> QED BY <1>5, <1>6

\* Recording, editing and deleting an expense leave the tables in shape.
LEMMA BookExpenseShaped ==
  ASSUME BooksShaped, NEW r, NEW e, NEW was, NEW s, BookExpense(r, e, was, s),
         DOMAIN was = ExpenseColumns, s \in {0} \cup DOMAIN shifts
  PROVE  BooksShaped'
<1>1. OnlyCounters(s)
  BY PayFromDrawerCounters DEF BookExpense, BooksShaped
<1>2. ShiftsShaped' /\ OneDrawerEach' /\ DOMAIN shifts' = DOMAIN shifts
  BY <1>1, CountersShaped DEF BooksShaped
<1>3. ExpensesShaped'
  BY <1>2, ExpenseRows DEF BooksShaped, ExpensesShaped
<1>4. InvoicesShaped' /\ CustomersShaped' /\ NumbersShaped'
  BY <1>2 DEF BookExpense, BooksShaped, InvoicesShaped, CustomersShaped, NumbersShaped
<1> QED BY <1>2, <1>3, <1>4 DEF BooksShaped

LEMMA ExpenseShaped ==
  ASSUME BooksShaped, NEW r \in Request, Expense(r) \/ EditExpense(r)
  PROVE  BooksShaped'
<1>1. CASE Expense(r)
  <2>1. PICK s \in {0, PayingShift(r, NoExpense)} : BookExpense(r, 0, NoExpense, s)
    BY <1>1 DEF Expense
  <2>2. DOMAIN NoExpense = ExpenseColumns /\ NoExpense.shift = 0
    BY DEF NoExpense, ExpenseColumns
  <2>3. s \in {0} \cup DOMAIN shifts
    BY <2>2, DrawersUsable DEF Usable, BooksShaped
  <2> QED BY <2>1, <2>2, <2>3, BookExpenseShaped
<1>2. CASE EditExpense(r)
  <2> DEFINE was == expenses[r.expense]
  <2>1. PICK s \in IF was.shift = 0 THEN {0, PayingShift(r, was)} ELSE {was.shift} :
          BookExpense(r, r.expense, was, s)
    BY <1>2 DEF EditExpense
  <2>2. DOMAIN was = ExpenseColumns /\ was.shift \in {0} \cup DOMAIN shifts
    BY <1>2 DEF EditExpense, BooksShaped, ExpensesShaped
  <2>3. s \in {0} \cup DOMAIN shifts
    BY <2>1, <2>2, DrawersUsable DEF Usable, BooksShaped
  <2> QED BY <2>1, <2>2, <2>3, BookExpenseShaped
<1> QED BY <1>1, <1>2

LEMMA DeleteShaped ==
  ASSUME BooksShaped, NEW r \in Request, Delete(r)
  PROVE  BooksShaped'
<1>1. BookDelete(r.customer)
  BY DEF Delete
<1>2. UNCHANGED <<invoices, udhar, shifts, expenses, lastNumber>>
  BY <1>1 DEF BookDelete
<1>3. CustomersShaped'
  BY <1>1, <1>2 DEF BookDelete, BooksShaped, CustomersShaped
<1> QED BY <1>2, <1>3 DEF BooksShaped, InvoicesShaped, ShiftsShaped, ExpensesShaped, NumbersShaped,
                          OneDrawerEach

\* Every flow leaves the tables in shape.
LEMMA ServeShaped ==
  ASSUME BooksShaped, NEW r \in Requests, Serve(r)
  PROVE  BooksShaped'
<1>1. r \in Request
  BY RequestsAssumption
<1>2. CASE Opening(r)
  <2>1. r.customer \in Customer
    BY <1>2, RequestsAssumption DEF Opening
  <2> QED BY <1>1, <1>2, <2>1, OpeningShaped
<1> QED BY <1>1, <1>2, SaleShaped, ReturnShaped, CancelShaped, RepayShaped, OpenShiftShaped,
           CloseShiftShaped, ExpenseShaped, DeleteShaped DEF Serve

\* So are they at the start of a day.
LEMMA InitShaped == InitBooks => BooksShaped
<1> SUFFICES ASSUME InitBooks PROVE BooksShaped
  OBVIOUS
<1>1. IsRows(<<>>) /\ DOMAIN <<>> = {}
  BY DEF IsRows
<1>2. InvoicesShaped /\ ExpensesShaped /\ NumbersShaped /\ CustomersShaped
  BY <1>1 DEF InitBooks, InvoicesShaped, ExpensesShaped, NumbersShaped, CustomersShaped
<1>3. ShiftsShaped /\ OneDrawerEach
  <2>1. CASE shifts = <<>>
    BY <1>1, <2>1 DEF ShiftsShaped, OneDrawerEach
  <2>2. ASSUME NEW a \in Actor, shifts = <<NewShift(a, 0)>> PROVE ShiftsShaped /\ OneDrawerEach
    <3>1. /\ IsRows(shifts) /\ DOMAIN shifts = {1}
          /\ DOMAIN shifts[1] = ShiftColumns /\ shifts[1].status = "OPEN"
      BY <2>2 DEF IsRows, NewShift, ShiftColumns
    <3> QED BY <3>1 DEF ShiftsShaped, OneDrawerEach
  <2> QED BY <2>1, <2>2 DEF InitBooks
<1> QED BY <1>2, <1>3 DEF BooksShaped

-----------------------------------------------------------------------------
(* What one flow does to the documents, the balances and the drawers *)

\* No document is added, and none changes its number, key or customer.
NoneNumbered ==
  /\ DOMAIN invoices' = DOMAIN invoices /\ lastNumber' = lastNumber
  /\ \A i \in DOMAIN invoices : InvoiceKept(i)

\* A document of a key no other has, under the series' next number.
NextNumbered(r, type) ==
  LET n == Len(invoices) + 1 IN
  /\ Holder(r.key) = {}
  /\ n \notin DOMAIN invoices /\ DOMAIN invoices' = DOMAIN invoices \cup {n}
  /\ invoices'[n].type = type /\ invoices'[n].key = r.key
  /\ invoices'[n].number = lastNumber[type] + 1
  /\ lastNumber' = [lastNumber EXCEPT ![type] = lastNumber[type] + 1]
  /\ \A i \in DOMAIN invoices : InvoiceKept(i)

\* The movement of a live customer's balance, and a repayment only under a key of its own.
BalanceMoved(r, c) ==
  \E row : /\ MovesBalance(c, row)
           /\ row.type = "PAYMENT" => row.key = r.key /\ Payment(r.key) = {}
           /\ DeletedOwesNothing => Live(c)

\* The drawers after a flow: one counts, one is opened, or one is closed.
DrawersServed(r) ==
  \/ shifts' = shifts
  \/ \E s : Usable(s) /\ OnlyCounters(s)
  \/ BookOpenShift(r)
  \/ \E s \in DOMAIN shifts : shifts[s].status = "OPEN" /\ BookCloseShift(s)

\* Drawers and expenses are no business of documents and balances.
LEMMA QuietFlows ==
  ASSUME NEW r, OpenShift(r) \/ CloseShift(r) \/ Expense(r) \/ EditExpense(r)
  PROVE  UNCHANGED <<invoices, udhar, customers, lastNumber>>
<1>1. CASE OpenShift(r)
  BY <1>1 DEF OpenShift, BookOpenShift
<1>2. CASE CloseShift(r)
  BY <1>2 DEF CloseShift, BookCloseShift
<1>3. CASE Expense(r) \/ EditExpense(r)
  <2>1. PICK e, was, s : BookExpense(r, e, was, s)
    BY <1>3 DEF Expense, EditExpense
  <2> QED BY <2>1 DEF BookExpense
<1> QED BY <1>1, <1>2, <1>3

LEMMA ServeDocuments ==
  ASSUME BooksShaped, NEW r \in Requests, Serve(r)
  PROVE  NoneNumbered \/ \E type \in {"SALE", "RETURN"} : NextNumbered(r, type)
<1>1. CASE Sale(r)
  <2>1. PICK s : BookSale(r, s, BalanceOf(r.customer), lastNumber["SALE"] + 1)
    BY <1>1 DEF Sale
  <2>2. /\ OnlyInvoice(0) /\ NewDocument(r, "SALE", 0, s, r.customer)
        /\ invoices'[Len(invoices) + 1].number = lastNumber["SALE"] + 1
        /\ lastNumber' = [lastNumber EXCEPT !["SALE"] = lastNumber["SALE"] + 1]
    BY <2>1, SaleDocuments DEF BooksShaped
  <2>3. NextNumbered(r, "SALE")
    BY <1>1, <2>2 DEF Sale, NextNumbered, NewDocument, OnlyInvoice
  <2> QED BY <2>3
<1>2. CASE Return(r)
  <2> DEFINE c == invoices[r.invoice].customer
  <2>1. PICK s : BookReturn(r, s, BalanceOf(c), lastNumber["RETURN"] + 1)
    BY <1>2 DEF Return
  <2>2. r.invoice \in DOMAIN invoices
    BY <1>2 DEF Return, MayReturn, IsOpenSale
  <2>3. /\ OnlyInvoice(r.invoice) /\ NewDocument(r, "RETURN", r.invoice, s, c)
        /\ invoices'[Len(invoices) + 1].number = lastNumber["RETURN"] + 1
        /\ lastNumber' = [lastNumber EXCEPT !["RETURN"] = lastNumber["RETURN"] + 1]
    BY <2>1, <2>2, ReturnDocuments DEF BooksShaped
  <2>4. NextNumbered(r, "RETURN")
    BY <1>2, <2>3 DEF Return, NextNumbered, NewDocument, OnlyInvoice
  <2> QED BY <2>4
<1>3. CASE Cancel(r)
  <2>1. PICK s : BookCancel(r, s, BalanceOf(invoices[r.invoice].customer))
    BY <1>3 DEF Cancel
  <2>2. r.invoice \in DOMAIN invoices
    BY <1>3 DEF Cancel, MayCancel, IsOpenSale
  <2>3. OnlyInvoice(r.invoice) /\ SameDocuments /\ lastNumber' = lastNumber
    BY <2>1, <2>2, CancelDocuments DEF BooksShaped
  <2> QED BY <2>3 DEF NoneNumbered, OnlyInvoice, SameDocuments
<1>4. CASE ~(Sale(r) \/ Return(r) \/ Cancel(r))
  <2>1. Repay(r) \/ Opening(r) \/ Delete(r) => invoices' = invoices /\ lastNumber' = lastNumber
    BY DEF Repay, BookRepayment, Opening, BookOpening, Delete, BookDelete
  <2>2. invoices' = invoices /\ lastNumber' = lastNumber
    BY <1>4, <2>1, QuietFlows DEF Serve
  <2> QED BY <2>2, NoDocuments DEF BooksShaped, NoneNumbered, OnlyInvoice
<1> QED BY <1>1, <1>2, <1>3, <1>4

LEMMA ServeBalances ==
  ASSUME BooksShaped, NEW r \in Requests, Serve(r)
  PROVE  \/ UNCHANGED <<udhar, customers>>
         \/ \E c \in Customer \cup {NoCustomer} : BalanceMoved(r, c)
         \/ BookDelete(r.customer) /\ r.customer \in Customer /\ BalanceOf(r.customer) = 0
<1>1. r \in Request /\ r.customer \in Customer \cup {NoCustomer}
  BY RequestsAssumption DEF Request
<1>2. CASE Sale(r)
  <2>1. PICK s : BookSale(r, s, BalanceOf(r.customer), lastNumber["SALE"] + 1)
    BY <1>2 DEF Sale
  <2>2. \/ UNCHANGED <<udhar, customers>>
        \/ \E row : MovesBalance(r.customer, row) /\ row.type = "CREDIT"
    BY <1>1, <2>1, SaleMovesBalance
  <2> QED BY <1>1, <1>2, <2>2 DEF Sale, BalanceMoved
<1>3. CASE Return(r) \/ Cancel(r)
  <2> DEFINE c == invoices[r.invoice].customer
  <2>1. r.invoice \in DOMAIN invoices
    BY <1>3 DEF Return, MayReturn, Cancel, MayCancel, IsOpenSale
  <2>2. c \in Customer \cup {NoCustomer}
    BY <2>1 DEF BooksShaped, InvoicesShaped
  <2>3. \E s, goods, i, reversed :
          /\ reversed \in {ReturnedUdhar(r, BalanceOf(c)), CancelledUdhar(r.invoice, BalanceOf(c))}
          /\ Reverse(r, s, BalanceOf(c), reversed, goods, i)
    BY <1>3 DEF Return, Cancel, BookReturn, BookCancel
  <2>4. PICK reversed :
          /\ reversed \in {ReturnedUdhar(r, BalanceOf(c)), CancelledUdhar(r.invoice, BalanceOf(c))}
          /\ \/ UNCHANGED <<udhar, customers>>
             \/ reversed > 0 /\ \E row : MovesBalance(c, row) /\ row.type = "ADJUSTMENT"
    BY <1>1, <2>3, ReverseMovesBalance
  <2> HIDE DEF c
  <2>5. DeletedOwesNothing /\ reversed > 0 => Live(c)
    BY <2>2, <2>4, NothingToReverse DEF DeletedOwesNothing, Live, BalanceOf
  <2> QED BY <2>2, <2>4, <2>5 DEF BalanceMoved
<1>4. CASE Repay(r)
  <2>1. PICK s : BookRepayment(r, s, BalanceOf(r.customer))
    BY <1>4 DEF Repay
  <2>2. \E row : MovesBalance(r.customer, row) /\ row.type = "PAYMENT" /\ row.key = r.key
    BY <1>1, <2>1, RepaymentMovesBalance
  <2> QED BY <1>1, <1>4, <2>2 DEF Repay, BalanceMoved
<1>5. CASE Opening(r)
  <2>1. r.customer \in Customer
    BY <1>5, RequestsAssumption DEF Opening
  <2>2. BookOpening(r) /\ BalanceOf(r.customer) = 0
    BY <1>5, <2>1, ShopAssumption DEF Opening, MayOpenBalance, BalanceOf
  <2>3. \E row : MovesBalance(r.customer, row) /\ row.type = "OPENING"
    BY <1>1, <2>2, OpeningMovesBalance
  <2> QED BY <1>1, <1>5, <2>3 DEF Opening, BalanceMoved
<1>6. CASE Delete(r)
  BY <1>6, RequestsAssumption DEF Delete
<1>7. CASE OpenShift(r) \/ CloseShift(r) \/ Expense(r) \/ EditExpense(r)
  BY <1>7, QuietFlows
<1> QED BY <1>2, <1>3, <1>4, <1>5, <1>6, <1>7 DEF Serve

\* A drawer that pays an expense after it was closed is not written.
LEMMA ExpenseDrawers ==
  ASSUME ShiftsShaped, NEW s, NEW was, NEW next, PayFromDrawer(s, was, next),
         s \in {0} \cup DOMAIN shifts
  PROVE  shifts' = shifts \/ (Usable(s) /\ OnlyCounters(s))
  BY PayFromDrawerCounters DEF PayFromDrawer, Usable

LEMMA ServeDrawers ==
  ASSUME BooksShaped, NEW r \in Requests, Serve(r)
  PROVE  DrawersServed(r)
<1>0. r \in Request /\ ShiftsShaped
  BY RequestsAssumption DEF BooksShaped
<1>1. CASE Sale(r)
  <2>1. PICK s \in SaleDrawer(r) : BookSale(r, s, BalanceOf(r.customer), lastNumber["SALE"] + 1)
    BY <1>1 DEF Sale
  <2>2. Usable(s) /\ OnlyCounters(s)
    BY <1>0, <1>1, <2>1, DrawersUsable, MoveDrawerCounters DEF Sale, BookSale
  <2> QED BY <2>2 DEF DrawersServed
<1>2. CASE Return(r) \/ Cancel(r)
  <2>1. PICK s \in ReversalDrawer(r) : \E balance, reversed, goods, i : Reverse(r, s, balance, reversed, goods, i)
    BY <1>2 DEF Return, Cancel, BookReturn, BookCancel
  <2>2. Usable(s) /\ OnlyCounters(s)
    BY <1>0, <2>1, DrawersUsable, MoveDrawerCounters DEF Reverse
  <2> QED BY <2>2 DEF DrawersServed
<1>3. CASE Repay(r)
  <2>1. PICK s \in OwnDrawer(r.actor) : BookRepayment(r, s, BalanceOf(r.customer))
    BY <1>3 DEF Repay
  <2>2. Usable(s) /\ OnlyCounters(s)
    BY <1>0, <2>1, DrawersUsable, RepaymentCounters
  <2> QED BY <2>2 DEF DrawersServed
<1>4. CASE Opening(r) \/ Delete(r)
  BY <1>4 DEF Opening, BookOpening, Delete, BookDelete, DrawersServed
<1>5. CASE OpenShift(r)
  BY <1>5 DEF OpenShift, DrawersServed
<1>6. CASE CloseShift(r)
  <2> DEFINE s == IF r.shift = 0 THEN OpenShiftOf(r.actor) ELSE r.shift
  <2>1. s \in DOMAIN shifts /\ shifts[s].status = "OPEN" /\ BookCloseShift(s)
    BY <1>0, <1>6, OwnShift DEF CloseShift, ClosesShift, MayUseShift, OpenShifts
  <2> HIDE DEF s
  <2> QED BY <2>1 DEF DrawersServed
<1>7. CASE Expense(r)
  <2>1. PICK s \in {0, PayingShift(r, NoExpense)} : BookExpense(r, 0, NoExpense, s)
    BY <1>7 DEF Expense
  <2>2. s \in {0} \cup DOMAIN shifts
    BY <1>0, DrawersUsable DEF Usable, NoExpense
  <2>3. shifts' = shifts \/ (Usable(s) /\ OnlyCounters(s))
    BY <1>0, <2>1, <2>2, ExpenseDrawers DEF BookExpense
  <2> QED BY <2>3 DEF DrawersServed
<1>8. CASE EditExpense(r)
  <2> DEFINE was == expenses[r.expense]
  <2>1. PICK s \in IF was.shift = 0 THEN {0, PayingShift(r, was)} ELSE {was.shift} :
          BookExpense(r, r.expense, was, s)
    BY <1>8 DEF EditExpense
  <2>2. was.shift \in {0} \cup DOMAIN shifts
    BY <1>8 DEF EditExpense, BooksShaped, ExpensesShaped
  <2>3. s \in {0} \cup DOMAIN shifts
    BY <1>0, <2>1, <2>2, DrawersUsable DEF Usable
  <2>4. shifts' = shifts \/ (Usable(s) /\ OnlyCounters(s))
    BY <1>0, <2>1, <2>3, ExpenseDrawers DEF BookExpense
  <2> QED BY <2>4 DEF DrawersServed
<1> QED BY <1>1, <1>2, <1>3, <1>4, <1>5, <1>6, <1>7, <1>8 DEF Serve

-----------------------------------------------------------------------------
(* The invariants of the books *)

\* A cashier's open drawers are none or one.
LEMMA DrawersCounted ==
  ASSUME ShiftsShaped, OneDrawerEach
  PROVE  OneOpenShift
<1> SUFFICES ASSUME NEW a \in Actor PROVE Cardinality(OpenShifts(a)) <= 1
  BY DEF OneOpenShift
<1>1. CASE OpenShifts(a) = {}
  BY <1>1, FS_EmptySet
<1>2. ASSUME NEW s \in OpenShifts(a) PROVE Cardinality(OpenShifts(a)) <= 1
  <2>1. OpenShifts(a) = {s}
    BY <1>2 DEF OpenShifts, OneDrawerEach
  <2>2. Cardinality({s}) = 1
    BY FS_Singleton
  <2> QED BY <2>1, <2>2
<1> QED BY <1>1, <1>2

\* The documents of a series, and the numbers on them.
Docs(series) == {i \in DOMAIN invoices : invoices[i].type = series}

NumbersOf(series) == {invoices[i].number : i \in Docs(series)}

\* A series with a document more has a number more.
LEMMA NumbersStep ==
  ASSUME BooksShaped, NumbersGapless, NEW r \in Requests, Serve(r)
  PROVE  NumbersGapless'
<1> SUFFICES ASSUME NEW series \in {"SALE", "RETURN"}
             PROVE  /\ Cardinality(Docs(series)') = lastNumber'[series]
                    /\ NumbersOf(series)' = 1 .. lastNumber'[series]
  BY DEF NumbersGapless, Docs, NumbersOf
<1>1. /\ Cardinality(Docs(series)) = lastNumber[series]
      /\ NumbersOf(series) = 1 .. lastNumber[series] /\ lastNumber[series] \in Nat
  BY DEF NumbersGapless, Docs, NumbersOf, BooksShaped, NumbersShaped
<1>2. CASE NoneNumbered
  <2>1. Docs(series)' = Docs(series)
    BY <1>2 DEF NoneNumbered, InvoiceKept, Docs
  <2>2. NumbersOf(series)' = NumbersOf(series)
    BY <1>2, <2>1 DEF NoneNumbered, InvoiceKept, NumbersOf, Docs
  <2> QED BY <1>1, <1>2, <2>1, <2>2 DEF NoneNumbered
<1>3. ASSUME NEW type \in {"SALE", "RETURN"}, NextNumbered(r, type), type # series
      PROVE  Docs(series)' = Docs(series) /\ NumbersOf(series)' = NumbersOf(series)
             /\ lastNumber'[series] = lastNumber[series]
  <2>1. Docs(series)' = Docs(series)
    BY <1>3 DEF NextNumbered, InvoiceKept, Docs
  <2>2. NumbersOf(series)' = NumbersOf(series)
    BY <1>3, <2>1 DEF NextNumbered, InvoiceKept, NumbersOf, Docs
  <2> QED BY <1>3, <2>1, <2>2 DEF NextNumbered, BooksShaped, NumbersShaped
<1>4. CASE NextNumbered(r, series)
  <2> DEFINE n == Len(invoices) + 1
  <2>1. Docs(series)' = Docs(series) \cup {n} /\ n \notin Docs(series)
    BY <1>4 DEF NextNumbered, InvoiceKept, Docs
  <2>2. lastNumber'[series] = lastNumber[series] + 1 /\ invoices'[n].number = lastNumber[series] + 1
    BY <1>4 DEF NextNumbered, BooksShaped, NumbersShaped
  <2>3. \A i \in Docs(series) : invoices'[i].number = invoices[i].number
    BY <1>4 DEF NextNumbered, InvoiceKept, Docs
  <2> HIDE DEF n
  <2>4. NumbersOf(series)' = NumbersOf(series) \cup {lastNumber[series] + 1}
    BY <2>1, <2>2, <2>3 DEF NumbersOf
  <2>5. IsFiniteSet(Docs(series))
    <3>1. Docs(series) \subseteq 1 .. Len(invoices) /\ Len(invoices) \in Nat
      BY DEF Docs, BooksShaped, InvoicesShaped, IsRows
    <3>2. IsFiniteSet(1 .. Len(invoices))
      BY <3>1, FS_Interval
    <3> QED BY <3>1, <3>2, FS_Subset
  <2>6. Cardinality(Docs(series)') = Cardinality(Docs(series)) + 1
    BY <2>1, <2>5, FS_AddElement
  <2> QED BY <1>1, <2>2, <2>4, <2>6
<1> QED BY <1>1, <1>2, <1>3, <1>4, ServeDocuments

\* A key that nobody has is taken by the one document or repayment of the flow.
LEMMA KeysStep ==
  ASSUME BooksShaped, KeysUnique, NEW r \in Requests, Serve(r)
  PROVE  KeysUnique'
<1>1. \A i, j \in DOMAIN invoices' : invoices'[i].key = invoices'[j].key => i = j
  <2>1. CASE NoneNumbered
    BY <2>1 DEF NoneNumbered, InvoiceKept, KeysUnique
  <2>2. ASSUME NEW type, NextNumbered(r, type)
        PROVE  \A i, j \in DOMAIN invoices' : invoices'[i].key = invoices'[j].key => i = j
    BY <2>2 DEF NextNumbered, InvoiceKept, KeysUnique, Holder
  <2> QED BY <2>1, <2>2, ServeDocuments
<1>2. \A u, v \in DOMAIN udhar' :
        udhar'[u].type = "PAYMENT" /\ udhar'[v].type = "PAYMENT" /\ udhar'[u].key = udhar'[v].key
          => u = v
  <2>1. CASE udhar' = udhar
    BY <2>1 DEF KeysUnique
  <2>2. ASSUME NEW c, BalanceMoved(r, c)
        PROVE  \A u, v \in DOMAIN udhar' :
                 udhar'[u].type = "PAYMENT" /\ udhar'[v].type = "PAYMENT" /\ udhar'[u].key = udhar'[v].key
                   => u = v
    <3>1. PICK row : /\ udhar' = Append(udhar, row)
                     /\ row.type = "PAYMENT" => row.key = r.key /\ Payment(r.key) = {}
      BY <2>2 DEF BalanceMoved, MovesBalance
    <3>2. /\ DOMAIN udhar' = DOMAIN udhar \cup {Len(udhar) + 1}
          /\ \A u \in DOMAIN udhar : udhar'[u] = udhar[u]
          /\ udhar'[Len(udhar) + 1] = row
      BY <3>1, AppendRow DEF BooksShaped, CustomersShaped
    <3> QED BY <3>1, <3>2 DEF KeysUnique, Payment
  <2> QED BY <2>1, <2>2, ServeBalances DEF BookDelete
<1> QED BY <1>1, <1>2 DEF KeysUnique

\* Only the balance of a live customer moves, and only one that is zero is deleted.
LEMMA DeletedStep ==
  ASSUME BooksShaped, DeletedOwesNothing, NEW r \in Requests, Serve(r)
  PROVE  DeletedOwesNothing'
<1> SUFFICES ASSUME NEW c \in Customer, customers'[c].deleted PROVE customers'[c].balance = 0
  BY DEF DeletedOwesNothing
<1>0. /\ customers[c].deleted => customers[c].balance = 0
      /\ customers = [k \in Customer |-> customers[k]]
      /\ DOMAIN customers[c] = {"balance", "deleted"} /\ c # NoCustomer
  BY ShopAssumption DEF DeletedOwesNothing, BooksShaped, CustomersShaped
<1>1. CASE customers' = customers
  BY <1>0, <1>1
<1>2. ASSUME NEW d, BalanceMoved(r, d) PROVE customers'[c].balance = 0
  <2>1. PICK row : MovesBalance(d, row) /\ Live(d)
    BY <1>2 DEF BalanceMoved
  <2> QED BY <1>0, <2>1 DEF MovesBalance, Live
<1>3. CASE BookDelete(r.customer) /\ BalanceOf(r.customer) = 0
  BY <1>0, <1>3 DEF BookDelete, BalanceOf
<1> QED BY <1>1, <1>2, <1>3, ServeBalances

\* Where a customer's rows end is not moved by a row of another's.
LEMMA EndKept ==
  ASSUME CustomersShaped, NEW row, udhar' = Append(udhar, row), NEW S, S \subseteq DOMAIN udhar
  PROVE  (IF S = {} THEN 0 ELSE udhar'[Max(S)].after) = EndOf(S)
<1>1. CASE S = {}
  BY <1>1 DEF EndOf
<1>2. CASE S # {}
  <2>1. S \in SUBSET (1 .. Len(udhar)) /\ Len(udhar) \in Nat
    BY DEF CustomersShaped, IsRows
  <2>2. Max(S) \in DOMAIN udhar
    BY <1>2, <2>1, LargestPosition
  <2> QED BY <1>2, <2>2, AppendRow DEF EndOf, CustomersShaped
<1> QED BY <1>1, <1>2

\* The row that is added goes on where the customer's last one ended.
LEMMA ChainStep ==
  ASSUME BooksShaped, BalancesChained, NEW r \in Requests, Serve(r)
  PROVE  BalancesChained'
<1> SUFFICES ASSUME NEW c \in Customer
             PROVE  /\ \A u \in RowsOf(c)' :
                         udhar'[u].before = EndOf({v \in RowsOf(c) : v < u})'
                    /\ customers'[c].balance = EndOf(RowsOf(c))'
  BY DEF BalancesChained
<1>0. /\ \A u \in RowsOf(c) : udhar[u].before = EndOf({v \in RowsOf(c) : v < u})
      /\ customers[c].balance = EndOf(RowsOf(c))
      /\ CustomersShaped /\ c # NoCustomer
      /\ customers = [k \in Customer |-> customers[k]]
      /\ DOMAIN customers[c] = {"balance", "deleted"}
  BY ShopAssumption DEF BalancesChained, BooksShaped, CustomersShaped
<1>1. CASE UNCHANGED <<udhar, customers>>
  BY <1>0, <1>1 DEF RowsOf, EndOf
<1>2. CASE BookDelete(r.customer)
  <2>1. udhar' = udhar /\ customers'[c].balance = customers[c].balance
    BY <1>0, <1>2 DEF BookDelete
  <2> QED BY <1>0, <2>1 DEF RowsOf, EndOf
<1>3. ASSUME NEW d, NEW row, MovesBalance(d, row)
      PROVE  /\ \A u \in RowsOf(c)' :
                  udhar'[u].before = EndOf({v \in RowsOf(c) : v < u})'
             /\ customers'[c].balance = EndOf(RowsOf(c))'
  <2> DEFINE Before(u) == {v \in RowsOf(c) : v < u}
  <2>0. PICK n : n = Len(udhar) + 1
    OBVIOUS
  <2>1. /\ udhar' = Append(udhar, row) /\ row.customer = d /\ row.before = BalanceOf(d)
        /\ customers' = [customers EXCEPT ![d].balance = row.after]
    BY <1>3 DEF MovesBalance
  <2>2. /\ DOMAIN udhar' = DOMAIN udhar \cup {n} /\ udhar'[n] = row
        /\ \A u \in DOMAIN udhar : udhar'[u] = udhar[u] /\ u < n
        /\ n \notin DOMAIN udhar /\ n \in Int /\ DOMAIN udhar \subseteq Int
        /\ DOMAIN udhar = 1 .. Len(udhar) /\ Len(udhar) \in Nat
    BY <1>0, <2>0, <2>1, AppendRow DEF CustomersShaped, IsRows
  <2>3. RowsOf(c)' = IF d = c THEN RowsOf(c) \cup {n} ELSE RowsOf(c)
    BY <2>1, <2>2 DEF RowsOf
  <2>4. RowsOf(c) \subseteq DOMAIN udhar
    BY DEF RowsOf
  <2>5. \A u \in RowsOf(c) : {v \in RowsOf(c)' : v < u} = Before(u)
    BY <2>2, <2>3, <2>4
  <2>6. \A u \in RowsOf(c) : udhar'[u].before = EndOf({v \in RowsOf(c) : v < u})'
    <3> SUFFICES ASSUME NEW u \in RowsOf(c)
                 PROVE  udhar'[u].before = EndOf({v \in RowsOf(c) : v < u})'
      OBVIOUS
    <3>1. (IF Before(u) = {} THEN 0 ELSE udhar'[Max(Before(u))].after) = EndOf(Before(u))
      BY <1>0, <2>1, <2>4, EndKept
    <3>2. EndOf({v \in RowsOf(c) : v < u})' = EndOf(Before(u))
      BY <2>5, <3>1 DEF EndOf
    <3> QED BY <1>0, <2>2, <2>4, <3>2
  <2>7. CASE d # c
    <3>1. RowsOf(c)' = RowsOf(c)
      BY <2>3, <2>7
    <3>2. (IF RowsOf(c) = {} THEN 0 ELSE udhar'[Max(RowsOf(c))].after) = EndOf(RowsOf(c))
      BY <1>0, <2>1, <2>4, EndKept
    <3>3. EndOf(RowsOf(c))' = EndOf(RowsOf(c))
      BY <3>1, <3>2 DEF EndOf
    <3>4. customers'[c].balance = customers[c].balance
      BY <1>0, <2>1, <2>7
    <3> QED BY <1>0, <2>6, <3>1, <3>3, <3>4
  <2>8. CASE d = c
    <3>1. RowsOf(c)' = RowsOf(c) \cup {n}
      BY <2>3, <2>8
    <3>2. Max(RowsOf(c)') = n
      <4>1. /\ RowsOf(c)' \in SUBSET (1 .. Len(udhar) + 1) /\ Len(udhar) + 1 \in Nat
            /\ n \in RowsOf(c)'
        BY <2>0, <2>2, <2>4, <3>1
      <4>2. Max(RowsOf(c)') \in RowsOf(c)' /\ Max(RowsOf(c)') >= n
        BY <4>1, LargestPosition
      <4> QED BY <2>2, <2>4, <3>1, <4>2
    <3>3. EndOf(RowsOf(c))' = row.after
      BY <2>2, <3>1, <3>2 DEF EndOf
    <3>4. customers'[c].balance = row.after
      BY <1>0, <2>1, <2>8
    <3>5. udhar'[n].before = EndOf({v \in RowsOf(c) : v < n})'
      <4>1. {v \in RowsOf(c)' : v < n} = RowsOf(c)
        BY <2>2, <2>4, <3>1
      <4>2. (IF RowsOf(c) = {} THEN 0 ELSE udhar'[Max(RowsOf(c))].after) = EndOf(RowsOf(c))
        BY <1>0, <2>1, <2>4, EndKept
      <4>3. EndOf({v \in RowsOf(c) : v < n})' = EndOf(RowsOf(c))
        BY <4>1, <4>2 DEF EndOf
      <4> QED BY <1>0, <2>1, <2>2, <2>8, <4>3 DEF BalanceOf
    <3> QED BY <2>6, <3>1, <3>3, <3>4, <3>5
  <2> QED BY <2>7, <2>8
<1> QED BY <1>1, <1>2, <1>3, ServeBalances DEF BalanceMoved

\* No flow writes a drawer that is closed.
LEMMA ClosedStep ==
  ASSUME BooksShaped, NEW r \in Requests, Serve(r)
  PROVE  \A s \in DOMAIN shifts : shifts[s].status = "CLOSED" => shifts'[s] = shifts[s]
<1>0. ShiftsShaped
  BY DEF BooksShaped
<1>1. ASSUME NEW s, Usable(s), OnlyCounters(s)
      PROVE  \A x \in DOMAIN shifts : shifts[x].status = "CLOSED" => shifts'[x] = shifts[x]
  <2>0. 0 \notin DOMAIN shifts
    BY <1>0 DEF ShiftsShaped, IsRows
  <2> QED BY <1>1, <2>0 DEF Usable, OnlyCounters
<1>2. CASE BookOpenShift(r)
  BY <1>0, <1>2, OpenShiftRow
<1>3. ASSUME NEW s \in DOMAIN shifts, shifts[s].status = "OPEN", BookCloseShift(s)
      PROVE  \A x \in DOMAIN shifts : shifts[x].status = "CLOSED" => shifts'[x] = shifts[x]
  BY <1>0, <1>3, CloseShiftRow
<1> QED BY <1>1, <1>2, <1>3, ServeDrawers DEF DrawersServed

-----------------------------------------------------------------------------
(* The books of a day *)

\* What the flows keep, with the shapes it rests on: an inductive invariant.
DayBooks ==
  BooksShaped /\ NumbersGapless /\ KeysUnique /\ DeletedOwesNothing /\ BalancesChained

LEMMA DayInit == InitBooks => DayBooks
<1> SUFFICES ASSUME InitBooks PROVE DayBooks
  OBVIOUS
<1>1. BooksShaped
  BY InitShaped
<1>2. /\ invoices = <<>> /\ udhar = <<>>
      /\ customers = [c \in Customer |-> [balance |-> 0, deleted |-> FALSE]]
      /\ lastNumber = [series \in {"SALE", "RETURN"} |-> 0]
  BY DEF InitBooks
<1>3. DOMAIN invoices = {} /\ DOMAIN udhar = {}
  BY <1>2
<1>4. NumbersGapless
  <2>1. \A series \in {"SALE", "RETURN"} :
          {i \in DOMAIN invoices : invoices[i].type = series} = {} /\ lastNumber[series] = 0
    BY <1>2, <1>3
  <2>2. Cardinality({}) = 0 /\ 1 .. 0 = {}
    BY FS_EmptySet
  <2> QED BY <2>1, <2>2 DEF NumbersGapless
<1>5. KeysUnique
  BY <1>3 DEF KeysUnique
<1>6. DeletedOwesNothing
  BY <1>2 DEF DeletedOwesNothing
<1>7. BalancesChained
  BY <1>2, <1>3 DEF BalancesChained, RowsOf, EndOf
<1> QED BY <1>1, <1>4, <1>5, <1>6, <1>7 DEF DayBooks

LEMMA DayStep == DayBooks /\ [SerialNext]_books => DayBooks'
<1>1. ASSUME DayBooks, UNCHANGED books PROVE DayBooks'
  <2>1. BooksShaped'
    BY <1>1 DEF books, DayBooks, BooksShaped, InvoicesShaped, ShiftsShaped, ExpensesShaped,
                CustomersShaped, NumbersShaped, OneDrawerEach
  <2>2. NumbersGapless' /\ KeysUnique' /\ DeletedOwesNothing'
    BY <1>1 DEF books, DayBooks, NumbersGapless, KeysUnique, DeletedOwesNothing
  <2>3. BalancesChained'
    <3>1. udhar' = udhar /\ customers' = customers /\ BalancesChained
      BY <1>1 DEF books, DayBooks
    <3>2. ASSUME NEW c \in Customer
          PROVE  /\ \A u \in RowsOf(c)' : udhar'[u].before = EndOf({v \in RowsOf(c) : v < u})'
                 /\ customers'[c].balance = EndOf(RowsOf(c))'
      <4>1. /\ \A u \in RowsOf(c) : udhar[u].before = EndOf({v \in RowsOf(c) : v < u})
            /\ customers[c].balance = EndOf(RowsOf(c))
        BY <3>1 DEF BalancesChained
      <4> QED BY <3>1, <4>1 DEF RowsOf, EndOf
    <3> QED BY <3>2 DEF BalancesChained
  <2> QED BY <2>1, <2>2, <2>3 DEF DayBooks
<1>2. ASSUME DayBooks, NEW r \in Requests, Serve(r) PROVE DayBooks'
  BY <1>2, ServeShaped, NumbersStep, KeysStep, DeletedStep, ChainStep DEF DayBooks
<1> QED BY <1>1, <1>2 DEF SerialNext

(***************************************************************************)
(* Flow after flow the documents stay numbered without a gap, no key is    *)
(* used twice, no movement of a balance is lost, a deleted customer owes   *)
(* nothing, and a cashier has one open drawer at most.                     *)
(***************************************************************************)
THEOREM SerialSafe ==
  SerialSpec => [](/\ NumbersGapless /\ KeysUnique /\ DeletedOwesNothing /\ BalancesChained
                   /\ OneOpenShift)
<1>1. DayBooks => /\ NumbersGapless /\ KeysUnique /\ DeletedOwesNothing /\ BalancesChained
                  /\ OneOpenShift
  BY DrawersCounted DEF DayBooks, BooksShaped
<1> QED BY <1>1, DayInit, DayStep, PTL DEF SerialSpec

(***************************************************************************)
(* No flow touches a drawer that is closed.                                *)
(***************************************************************************)
THEOREM SerialDrawersFrozen ==
  SerialSpec =>
    [][\A s \in DOMAIN shifts : shifts[s].status = "CLOSED" => shifts'[s] = shifts[s]]_books
<1> DEFINE Frozen == \A s \in DOMAIN shifts : shifts[s].status = "CLOSED" => shifts'[s] = shifts[s]
<1>1. DayBooks /\ [SerialNext]_books => [Frozen]_books
  BY ClosedStep DEF DayBooks, SerialNext
<1> QED BY <1>1, DayInit, DayStep, PTL DEF SerialSpec

-----------------------------------------------------------------------------
(* The inductive invariant: what a request knows, and by which lock *)

ReqColumns ==
  {"r", "pc", "attempt", "seen", "shift", "balance", "number", "was", "held", "outcome", "doc"}

Places(kind) == {"done"} \cup {Path(kind)[i] : i \in DOMAIN Path(kind)}

IsReversal(me) == me.r.kind \in {"return", "cancel"}

IsEdit(me) == me.r.kind \in {"editExpense", "dropExpense"}

\* A bill on credit that got into its transaction names a customer.
CreditNamed(me) ==
  me.r.kind = "sale" /\ me.pc \in {"shift", "customer", "number", "commit"} /\ me.r.amount > 0 =>
    me.r.customer # NoCustomer

AtPlace(me) ==
  DOMAIN me = ReqColumns /\ me.r \in Requests /\ me.pc \in Places(me.r.kind) /\ CreditNamed(me)

\* A reversal holds the bill it is about, which may still be reversed.
OriginalHeld(me) ==
  IsReversal(me) /\ me.pc \in {"peek", "shift", "customer", "number", "commit"} =>
    /\ <<"invoice", me.r.invoice>> \in me.held
    /\ IF me.r.kind = "cancel" THEN MayCancel(me.r.invoice) ELSE MayReturn(me.r)

\* The drawer the unlocked look saw is the bill's, and was one the user may use.
SeenDrawer(me) ==
  LET s == invoices[me.r.invoice].shift IN
  IF IsReversal(me) /\ me.pc \in {"shift", "customer", "number", "commit"}
  THEN IF me.seen = 0 THEN ~MayUseShift(me.r.actor, s)
       ELSE /\ me.seen = s /\ s \in DOMAIN shifts
            /\ shifts[s].owner = me.r.actor \/ IsManager(me.r.actor)
  ELSE me.seen = 0

\* An open drawer, under its lock.
Holds(me, s) ==
  <<"shift", s>> \in me.held /\ s \in DOMAIN shifts /\ shifts[s].status = "OPEN"

\* The drawer of a bill, a repayment or a closing.
DrawerHeld(me) ==
  /\ me.r.kind \in {"sale", "return", "cancel", "repay", "close"}
  /\ me.pc \in {"customer", "number", "commit"}
  => /\ me.shift # 0 => Holds(me, me.shift)
     /\ me.seen \notin {0, me.shift} => shifts[me.seen].status # "OPEN"
     /\ Explicit(me.r) => me.shift = me.r.shift /\ MayUseShift(me.r.actor, me.shift)
     /\ ~Explicit(me.r) /\ me.shift \notin {0, me.seen} => shifts[me.shift].owner = me.r.actor
     /\ me.r.kind = "close" => me.shift # 0

\* The customer's balance, which allows what the flow is about.
CustomerHeld(me) ==
  /\ me.r.kind \in {"sale", "return", "cancel", "repay", "opening", "delete"}
  /\ me.pc \in {"number", "commit"}
  => /\ CustomerOf(me.r) # NoCustomer => <<"customer", CustomerOf(me.r)>> \in me.held
     /\ me.balance = BalanceOf(CustomerOf(me.r))
     /\ CustomerAllows(me, me.balance)

NumberHeld(me) ==
  me.r.kind \in {"sale", "return"} /\ me.pc = "commit" =>
    <<"number", Series(me.r)>> \in me.held /\ me.number = lastNumber[Series(me.r)] + 1

ExpenseHeld(me) ==
  /\ me.r.kind = "expense" => me.was = NoExpense
  /\ IsEdit(me) /\ me.pc \in {"payout", "commit"} =>
       /\ <<"expense", me.r.expense>> \in me.held
       /\ me.r.expense \in DOMAIN expenses
       /\ me.was = expenses[me.r.expense] /\ ~me.was.deleted

\* The drawer an expense is paid from.
PayoutHeld(me) ==
  (me.r.kind = "expense" \/ IsEdit(me)) /\ me.pc = "commit" =>
    IF me.was.shift # 0 THEN me.shift = me.was.shift /\ <<"shift", me.shift>> \in me.held
    ELSE me.shift # 0 =>
           /\ Holds(me, me.shift) /\ shifts[me.shift].owner = me.r.actor
           /\ CashOut(Spent(me.r, me.was)) > 0 /\ CashOut(me.was) = 0

\* A success names the document that carries the request's key.
Told(me) ==
  me.outcome \in {"ok", "replayed"} /\ me.r.kind \in {"sale", "return", "repay"} =>
    me.doc \in Known(me.r) /\ SameRequest(me.doc, me.r)

\* The canonical order: a request that wants a lock holds only locks before it.
LockRank ==
  [status |-> 0, token |-> 0, entry |-> 0,
   invoice |-> 1, expense |-> 1, shift |-> 3, customer |-> 4, number |-> 5]

PlaceRank ==
  [replay |-> 0, stock |-> 0, check |-> 1, row |-> 1, insert |-> 1, token |-> 1,
   original |-> 1, expense |-> 1, peek |-> 2, shift |-> 3,
   payout |-> 3, customer |-> 4, number |-> 5, commit |-> 6, done |-> 6]

HeldBelow(me) ==
  \A x \in me.held : x[1] \in DOMAIN LockRank /\ LockRank[x[1]] < PlaceRank[me.pc]

Right(me) ==
  /\ AtPlace(me) /\ OriginalHeld(me) /\ SeenDrawer(me) /\ DrawerHeld(me) /\ CustomerHeld(me)
  /\ NumberHeld(me) /\ ExpenseHeld(me) /\ PayoutHeld(me) /\ Told(me) /\ HeldBelow(me)

HeldApart == \A q, o \in Req : q # o => req[q].held \cap req[o].held = {}

\* An index entry of an insert under way is held by its own insert.
OwnEntry(q, me) == \A x \in me.held : x[1] = "entry" => x[2] = q

BillingInv ==
  /\ BooksShaped /\ req = [q \in Req |-> req[q]]
  /\ HeldApart /\ \A q \in Req : Right(req[q]) /\ OwnEntry(q, req[q])

-----------------------------------------------------------------------------
(* The paths of the flows *)

LEMMA Paths ==
  /\ Path("sale") = <<"replay", "stock", "shift", "customer", "number", "commit">>
  /\ Path("return") = <<"replay", "original", "peek", "shift", "customer", "number", "commit">>
  /\ Path("cancel") = <<"original", "peek", "shift", "customer", "commit">>
  /\ Path("repay") = <<"replay", "shift", "customer", "commit">>
  /\ Path("opening") = <<"customer", "commit">>
  /\ Path("open") = <<"check", "row", "insert", "token", "commit">>
  /\ Path("close") = <<"shift", "commit">>
  /\ Path("delete") = <<"customer", "commit">>
  /\ Path("expense") = <<"payout", "commit">>
  /\ Path("editExpense") = <<"expense", "payout", "commit">>
  /\ Path("dropExpense") = <<"expense", "payout", "commit">>
  BY DEF Path, SalePath

\* The places of a path, and what comes after each.
LEMMA SaleSteps ==
  /\ Places("sale") = {"done", "replay", "stock", "shift", "customer", "number", "commit"}
  /\ StepAfter("sale", "replay") = "stock" /\ StepAfter("sale", "stock") = "shift"
  /\ StepAfter("sale", "shift") = "customer" /\ StepAfter("sale", "customer") = "number"
  /\ StepAfter("sale", "number") = "commit"
  BY Paths DEF Places, StepAfter

LEMMA ReversalSteps ==
  /\ Places("return") = {"done", "replay", "original", "peek", "shift", "customer", "number", "commit"}
  /\ Places("cancel") = {"done", "original", "peek", "shift", "customer", "commit"}
  /\ StepAfter("return", "replay") = "original" /\ StepAfter("return", "original") = "peek"
  /\ StepAfter("return", "peek") = "shift" /\ StepAfter("return", "shift") = "customer"
  /\ StepAfter("return", "customer") = "number" /\ StepAfter("return", "number") = "commit"
  /\ StepAfter("cancel", "original") = "peek" /\ StepAfter("cancel", "peek") = "shift"
  /\ StepAfter("cancel", "shift") = "customer" /\ StepAfter("cancel", "customer") = "commit"
  BY Paths, SMTT(30) DEF Places, StepAfter

LEMMA CustomerSteps ==
  /\ Places("repay") = {"done", "replay", "shift", "customer", "commit"}
  /\ Places("opening") = {"done", "customer", "commit"}
  /\ Places("delete") = {"done", "customer", "commit"}
  /\ StepAfter("repay", "replay") = "shift" /\ StepAfter("repay", "shift") = "customer"
  /\ StepAfter("repay", "customer") = "commit" /\ StepAfter("opening", "customer") = "commit"
  /\ StepAfter("delete", "customer") = "commit"
  BY Paths DEF Places, StepAfter

LEMMA DrawerSteps ==
  /\ Places("open") = {"done", "check", "row", "insert", "token", "commit"}
  /\ Places("close") = {"done", "shift", "commit"} /\ StepAfter("close", "shift") = "commit"
  /\ Places("expense") = {"done", "payout", "commit"}
  /\ StepAfter("expense", "payout") = "commit"
  /\ \A kind \in {"editExpense", "dropExpense"} :
       /\ Places(kind) = {"done", "expense", "payout", "commit"}
       /\ StepAfter(kind, "expense") = "payout" /\ StepAfter(kind, "payout") = "commit"
  BY Paths DEF Places, StepAfter

-----------------------------------------------------------------------------
(* What others find again under their locks *)

\* Bills stay, with their terms; whoever has not locked one neither writes nor returns it.
BillsKept(h) ==
  /\ \A i \in DOMAIN invoices : i \in DOMAIN invoices' /\ InvoiceKept(i)
  /\ \A i \in DOMAIN invoices : <<"invoice", i>> \notin h =>
       invoices'[i] = invoices[i] /\ ReturnsOf(i)' = ReturnsOf(i)

MovementsKept == \A u \in DOMAIN udhar : u \in DOMAIN udhar' /\ udhar'[u] = udhar[u]

CustomersKept(h) ==
  \A c \in Customer : <<"customer", c>> \notin h =>
    customers'[c] = customers[c] /\ RowsOf(c)' = RowsOf(c)

\* Drawers keep their owners, and a closed one stays closed.
DrawersKept(h) ==
  \A s \in DOMAIN shifts :
    /\ s \in DOMAIN shifts' /\ shifts'[s].owner = shifts[s].owner
    /\ shifts'[s].status = "OPEN" => shifts[s].status = "OPEN"
    /\ <<"shift", s>> \notin h => shifts'[s].status = shifts[s].status

ExpensesKept(h) ==
  \A e \in DOMAIN expenses :
    e \in DOMAIN expenses' /\ (<<"expense", e>> \notin h => expenses'[e] = expenses[e])

NumbersKept(h) ==
  \A series \in {"SALE", "RETURN"} :
    <<"number", series>> \notin h => lastNumber'[series] = lastNumber[series]

\* Whoever holds the locks h writes no row of another lock.
Untouched(h) ==
  /\ BillsKept(h) /\ MovementsKept /\ CustomersKept(h) /\ DrawersKept(h) /\ ExpensesKept(h)
  /\ NumbersKept(h)

\* A transaction that writes nothing touches nothing.
LEMMA NothingTouched ==
  ASSUME UNCHANGED books
  PROVE  Untouched({})
  BY DEF books, Untouched, BillsKept, MovementsKept, CustomersKept, DrawersKept, ExpensesKept,
         NumbersKept, InvoiceKept, ReturnsOf, RowsOf

\* The worth of a return is computed from the bill and its returns alone.
LEMMA RefundKept ==
  ASSUME NEW h, Untouched(h), NEW r, r.invoice \in DOMAIN invoices, <<"invoice", r.invoice>> \notin h
  PROVE  /\ RefundTotal(r)' = RefundTotal(r)
         /\ ReturnQty(r)' = ReturnQty(r) /\ Returnable(r.invoice)' = Returnable(r.invoice)
         /\ \A balance : CashRefund(r, balance)' = CashRefund(r, balance)
<1> DEFINE i == r.invoice
<1>1. invoices'[i] = invoices[i] /\ ReturnsOf(i)' = ReturnsOf(i)
  BY DEF Untouched, BillsKept
<1>2. \A j \in ReturnsOf(i) : invoices'[j].total = invoices[j].total /\ invoices'[j].udhar = invoices[j].udhar
  BY DEF Untouched, BillsKept, InvoiceKept, ReturnsOf
<1>3. /\ [j \in ReturnsOf(i)' |-> invoices'[j].total] = [j \in ReturnsOf(i) |-> invoices[j].total]
      /\ [j \in ReturnsOf(i)' |-> invoices'[j].udhar] = [j \in ReturnsOf(i) |-> invoices[j].udhar]
  BY <1>1, <1>2
<1>4. Refunded(i)' = Refunded(i) /\ ReversedUdhar(i)' = ReversedUdhar(i)
  BY <1>3 DEF Refunded, ReversedUdhar
<1>5. Returnable(i)' = Returnable(i) /\ ReturnQty(r)' = ReturnQty(r)
  BY <1>1 DEF Returnable, ReturnQty
<1>6. RefundTotal(r)' = RefundTotal(r)
  BY <1>1, <1>4, <1>5 DEF RefundTotal
<1>7. ASSUME NEW balance PROVE CashRefund(r, balance)' = CashRefund(r, balance)
  <2>1. ReturnedUdhar(r, balance)' = ReturnedUdhar(r, balance)
    BY <1>1, <1>4, <1>6 DEF ReturnedUdhar
  <2>2. CancelledUdhar(i, balance)' = CancelledUdhar(i, balance)
    BY <1>1 DEF CancelledUdhar
  <2>3. RefundTender(r)' = RefundTender(r)
    BY <1>1 DEF RefundTender
  <2> QED BY <1>1, <1>6, <2>1, <2>2, <2>3 DEF CashRefund
<1> QED BY <1>5, <1>6, <1>7

\* A bill that may be reversed still may.
LEMMA OriginalKept ==
  ASSUME NEW h, Untouched(h), NEW me, OriginalHeld(me), me.held \cap h = {}
  PROVE  OriginalHeld(me)'
<1> SUFFICES ASSUME IsReversal(me), me.pc \in {"peek", "shift", "customer", "number", "commit"}
             PROVE  IF me.r.kind = "cancel" THEN MayCancel(me.r.invoice)' ELSE MayReturn(me.r)'
  BY DEF OriginalHeld, IsReversal
<1> DEFINE i == me.r.invoice
<1>1. <<"invoice", i>> \notin h /\ i \in DOMAIN invoices
      /\ IF me.r.kind = "cancel" THEN MayCancel(i) ELSE MayReturn(me.r)
  BY DEF OriginalHeld, MayCancel, MayReturn, IsOpenSale
<1>2. invoices'[i] = invoices[i] /\ i \in DOMAIN invoices'
  BY <1>1 DEF Untouched, BillsKept
<1>3. CASE me.r.kind = "cancel"
  BY <1>1, <1>2, <1>3 DEF MayCancel, IsOpenSale
<1>4. CASE me.r.kind # "cancel"
  BY <1>1, <1>2, <1>4, RefundKept DEF MayReturn, IsOpenSale
<1> QED BY <1>3, <1>4

\* A drawer that was not usable stays so, and one in use under its lock stays open.
LEMMA DrawerKept ==
  ASSUME BooksShaped, BooksShaped', NEW h, Untouched(h), NEW me, me.held \cap h = {},
         OriginalHeld(me), SeenDrawer(me), DrawerHeld(me)
  PROVE  SeenDrawer(me)' /\ DrawerHeld(me)'
<1>0. ShiftsShaped /\ ShiftsShaped' /\ InvoicesShaped
  BY DEF BooksShaped
<1>00. 0 \notin DOMAIN shifts /\ 0 \notin DOMAIN shifts'
  BY <1>0 DEF ShiftsShaped, IsRows
<1>1. \A s \in DOMAIN shifts :
        /\ s \in DOMAIN shifts' /\ shifts'[s].owner = shifts[s].owner
        /\ shifts'[s].status = "OPEN" => shifts[s].status = "OPEN"
        /\ <<"shift", s>> \notin h => shifts'[s].status = shifts[s].status
  BY Zenon DEF Untouched, DrawersKept
<1>2. SeenDrawer(me)'
  <2>1. CASE IsReversal(me) /\ me.pc \in {"shift", "customer", "number", "commit"}
    <3> DEFINE s == invoices[me.r.invoice].shift
    <3>1. me.r.invoice \in DOMAIN invoices
      BY <2>1 DEF OriginalHeld, MayCancel, MayReturn, IsOpenSale
    <3>2. invoices'[me.r.invoice].shift = s /\ s \in {0} \cup DOMAIN shifts
      BY <1>0, <3>1 DEF Untouched, BillsKept, InvoiceKept, InvoicesShaped
    <3> HIDE DEF s
    <3>3. IF me.seen = 0 THEN ~MayUseShift(me.r.actor, s)
          ELSE /\ me.seen = s /\ s \in DOMAIN shifts
               /\ shifts[s].owner = me.r.actor \/ IsManager(me.r.actor)
      BY <2>1 DEF SeenDrawer, s
    <3>4. ASSUME NEW x, x = s
          PROVE  IF me.seen = 0 THEN ~MayUseShift(me.r.actor, x)'
                 ELSE /\ me.seen = x /\ x \in DOMAIN shifts'
                      /\ shifts'[x].owner = me.r.actor \/ IsManager(me.r.actor)
      BY <1>00, <1>1, <3>2, <3>3, <3>4 DEF MayUseShift
    <3> QED BY <2>1, <3>2, <3>4 DEF SeenDrawer, IsReversal
  <2>2. CASE ~(IsReversal(me) /\ me.pc \in {"shift", "customer", "number", "commit"})
    BY <2>2 DEF SeenDrawer, IsReversal
  <2> QED BY <2>1, <2>2
<1>3. DrawerHeld(me)'
  <2> SUFFICES ASSUME me.r.kind \in {"sale", "return", "cancel", "repay", "close"},
                      me.pc \in {"customer", "number", "commit"}
               PROVE  /\ me.shift # 0 => Holds(me, me.shift)'
                      /\ me.seen \notin {0, me.shift} => shifts'[me.seen].status # "OPEN"
                      /\ Explicit(me.r) => me.shift = me.r.shift /\ MayUseShift(me.r.actor, me.shift)'
                      /\ ~Explicit(me.r) /\ me.shift \notin {0, me.seen} =>
                           shifts'[me.shift].owner = me.r.actor
                      /\ me.r.kind = "close" => me.shift # 0
    BY DEF DrawerHeld, Explicit
  <2>1. /\ me.shift # 0 => Holds(me, me.shift)
        /\ me.seen \notin {0, me.shift} => shifts[me.seen].status # "OPEN"
        /\ Explicit(me.r) => me.shift = me.r.shift /\ MayUseShift(me.r.actor, me.shift)
        /\ ~Explicit(me.r) /\ me.shift \notin {0, me.seen} => shifts[me.shift].owner = me.r.actor
        /\ me.r.kind = "close" => me.shift # 0
    BY DEF DrawerHeld
  <2>2. me.shift # 0 => Holds(me, me.shift)'
    BY <1>1, <2>1 DEF Holds
  <2>3. me.seen # 0 => me.seen \in DOMAIN shifts
    BY DEF SeenDrawer
  <2>4. Explicit(me.r) => MayUseShift(me.r.actor, me.shift)'
    BY <1>00, <1>1, <2>1, <2>2 DEF MayUseShift, Holds
  <2> QED BY <1>1, <2>1, <2>2, <2>3, <2>4 DEF Holds
<1> QED BY <1>2, <1>3

\* The customer a flow has locked has the balance it read, and is as live as it was.
LEMMA CustomerKept ==
  ASSUME BooksShaped, NEW h, Untouched(h), NEW me, me.held \cap h = {}, me.r \in Requests,
         OriginalHeld(me), CustomerHeld(me)
  PROVE  CustomerHeld(me)'
<1> SUFFICES ASSUME me.r.kind \in {"sale", "return", "cancel", "repay", "opening", "delete"},
                    me.pc \in {"number", "commit"}
             PROVE  CustomerHeld(me)'
  BY DEF CustomerHeld
<1> DEFINE r == me.r
<1>0. r \in Request /\ r.customer \in Customer \cup {NoCustomer}
      /\ (r.kind \in {"repay", "opening", "delete"} => r.customer \in Customer)
  BY RequestsAssumption DEF Request
<1>1. IsReversal(me) => r.invoice \in DOMAIN invoices /\ <<"invoice", r.invoice>> \notin h
  BY DEF OriginalHeld, MayCancel, MayReturn, IsOpenSale, IsReversal
<1>2. PICK c : c = CustomerOf(r)
  OBVIOUS
<1>3. CustomerOf(r)' = c /\ c \in Customer \cup {NoCustomer}
  BY <1>0, <1>1, <1>2 DEF Untouched, BillsKept, InvoiceKept, CustomerOf, IsReversal, BooksShaped, InvoicesShaped
<1>4. /\ c # NoCustomer => <<"customer", c>> \in me.held
      /\ me.balance = BalanceOf(c)
      /\ CustomerAllows(me, me.balance)
  BY <1>2 DEF CustomerHeld
<1>5. c # NoCustomer => customers'[c] = customers[c] /\ RowsOf(c)' = RowsOf(c)
  <2>1. c # NoCustomer => c \in Customer /\ <<"customer", c>> \notin h
    BY <1>3, <1>4
  <2> QED BY <2>1, Zenon DEF Untouched, CustomersKept
<1>6. BalanceOf(c)' = BalanceOf(c)
  BY <1>5 DEF BalanceOf
<1>7. CustomerAllows(me, me.balance)'
  <2>1. CASE IsReversal(me)
    <3>1. DrawerForRefund(r, me.shift, me.balance)
      BY <1>4, <2>1 DEF CustomerAllows, IsReversal
    <3>2. DrawerForRefund(r, me.shift, me.balance)'
      BY <1>1, <2>1, <3>1, RefundKept DEF DrawerForRefund
    <3> QED BY <2>1, <3>2 DEF CustomerAllows, IsReversal
  <2>2. CASE r.kind = "opening"
    <3>1. r.customer \in Customer /\ c = r.customer /\ c # NoCustomer
      BY <1>0, <1>2, <2>2, ShopAssumption DEF CustomerOf
    <3>2. /\ ~customers[c].deleted /\ IsManager(r.actor) /\ MayOpenBalance(r)
      BY <1>4, <2>2, <3>1 DEF CustomerAllows
    <3>3. MayOpenBalance(r)'
      BY <1>5, <3>1, <3>2 DEF MayOpenBalance, RowsOf
    <3> QED BY <1>5, <2>2, <3>1, <3>2, <3>3 DEF CustomerAllows
  <2>3. CASE r.kind \in {"sale", "repay", "delete"}
    <3>1. c = r.customer
      BY <1>2, <2>3 DEF CustomerOf
    <3> QED BY <1>4, <1>5, <2>3, <3>1 DEF CustomerAllows, MayCredit, MayRepay
  <2> QED BY <2>1, <2>2, <2>3 DEF IsReversal
<1> QED BY <1>3, <1>4, <1>6, <1>7 DEF CustomerHeld

LEMMA NumberKept ==
  ASSUME NEW h, Untouched(h), NEW me, me.held \cap h = {}, NumberHeld(me)
  PROVE  NumberHeld(me)'
<1>1. Series(me.r) \in {"SALE", "RETURN"}
  BY DEF Series
<1>2. <<"number", Series(me.r)>> \notin h => lastNumber'[Series(me.r)] = lastNumber[Series(me.r)]
  BY <1>1, Zenon DEF Untouched, NumbersKept
<1> QED BY <1>2 DEF NumberHeld, Series

LEMMA ExpenseKept ==
  ASSUME NEW h, Untouched(h), NEW me, me.held \cap h = {}, ExpenseHeld(me)
  PROVE  ExpenseHeld(me)'
<1>1. \A e \in DOMAIN expenses :
        e \in DOMAIN expenses' /\ (<<"expense", e>> \notin h => expenses'[e] = expenses[e])
  BY Zenon DEF Untouched, ExpensesKept
<1> QED BY <1>1 DEF ExpenseHeld, IsEdit

LEMMA PayoutKept ==
  ASSUME NEW h, Untouched(h), NEW me, me.held \cap h = {}, PayoutHeld(me)
  PROVE  PayoutHeld(me)'
<1>1. \A s \in DOMAIN shifts :
        /\ s \in DOMAIN shifts' /\ shifts'[s].owner = shifts[s].owner
        /\ <<"shift", s>> \notin h => shifts'[s].status = shifts[s].status
  BY Zenon DEF Untouched, DrawersKept
<1> QED BY <1>1 DEF PayoutHeld, IsEdit, Holds

\* The document an answer names stays what it says.
LEMMA ToldKept ==
  ASSUME NEW h, Untouched(h), NEW me, Told(me)
  PROVE  Told(me)'
<1> SUFFICES ASSUME me.outcome \in {"ok", "replayed"}, me.r.kind \in {"sale", "return", "repay"}
             PROVE  me.doc \in Known(me.r)' /\ SameRequest(me.doc, me.r)'
  BY DEF Told
<1>1. me.doc \in Known(me.r) /\ SameRequest(me.doc, me.r)
  BY DEF Told
<1>2. CASE me.r.kind = "repay"
  <2>1. \A u \in DOMAIN udhar : u \in DOMAIN udhar' /\ udhar'[u] = udhar[u]
    BY Zenon DEF Untouched, MovementsKept
  <2> QED BY <1>1, <1>2, <2>1 DEF Known, SameRequest, Payment, SamePayment
<1>3. CASE me.r.kind # "repay"
  <2>1. \A i \in DOMAIN invoices : i \in DOMAIN invoices' /\ InvoiceKept(i)
    BY Zenon DEF Untouched, BillsKept
  <2> QED BY <1>1, <1>3, <2>1 DEF Known, SameRequest, Holder, InvoiceKept
<1> QED BY <1>2, <1>3

\* What a request knows stays so while others commit under other locks.
LEMMA RightKept ==
  ASSUME BooksShaped, BooksShaped', NEW h, Untouched(h), NEW me, me.held \cap h = {}, Right(me)
  PROVE  Right(me)'
<1>1. AtPlace(me)' /\ HeldBelow(me)'
  BY DEF Right, AtPlace, CreditNamed, HeldBelow
<1>2. me.r \in Requests
  BY DEF Right, AtPlace
<1> QED BY <1>1, <1>2, OriginalKept, DrawerKept, CustomerKept, NumberKept, ExpenseKept, PayoutKept,
           ToldKept DEF Right

-----------------------------------------------------------------------------
(* What a request knows after each of its steps *)

\* Everything a request knows, except some columns, is what it knew.
SameBut(me, next, columns) ==
  DOMAIN next = ReqColumns /\ \A k \in ReqColumns \ columns : next[k] = me[k]

\* The locks of each place; they come after all locks of the places before.
LEMMA LocksOfPlaces ==
  ASSUME NEW me
  PROVE  /\ me.pc = "original" => Needs(me) = {<<"invoice", me.r.invoice>>}
         /\ me.pc \in {"replay", "stock", "peek", "check", "insert", "commit", "done"} => Needs(me) = {}
         /\ me.pc = "shift" => Needs(me) = {<<"shift", WantedShift(me)>>} \ {<<"shift", 0>>}
         /\ me.pc = "customer" =>
              Needs(me) = {<<"customer", CustomerOf(me.r)>>} \ {<<"customer", NoCustomer>>}
         /\ me.pc = "number" => Needs(me) = {<<"number", Series(me.r)>>}
         /\ me.pc = "expense" => Needs(me) = {<<"expense", me.r.expense>>}
         /\ me.pc = "payout" =>
              Needs(me) = {<<"shift", PayingShift(me.r, me.was)>>} \ {<<"shift", 0>>}
         /\ me.pc = "row" => Needs(me) = RowLocks(me.r.actor)
         /\ me.pc = "token" => Needs(me) = ReadLocks("token", me.r.actor)
  BY DEF Needs

LEMMA LocksInOrder ==
  ASSUME NEW me, me.pc \in DOMAIN PlaceRank \ {"row", "token"}, NEW x \in Needs(me)
  PROVE  /\ x[1] \in DOMAIN LockRank /\ LockRank[x[1]] = PlaceRank[me.pc]
         /\ x[1] # "entry" /\ PlaceRank[me.pc] # 0
  BY LocksOfPlaces DEF PlaceRank, LockRank

\* The kinds, and where the paths of each go.
LEMMA PlacesKnown ==
  ASSUME NEW me, AtPlace(me)
  PROVE  /\ me.r \in Request /\ me.r.kind \in Kind
         /\ me.pc \in DOMAIN PlaceRank
         /\ me.pc = "replay" => me.r.kind \in {"sale", "return", "repay"}
         /\ me.pc = "stock" => me.r.kind = "sale"
         /\ me.pc \in {"original", "peek"} => IsReversal(me)
         /\ me.pc = "shift" => me.r.kind \in {"sale", "return", "cancel", "repay", "close"}
         /\ me.pc = "customer" =>
              me.r.kind \in {"sale", "return", "cancel", "repay", "opening", "delete"}
         /\ me.pc = "number" => me.r.kind \in {"sale", "return"}
         /\ me.pc \in {"check", "row", "insert", "token"} => me.r.kind = "open"
         /\ me.pc = "expense" => IsEdit(me)
         /\ me.pc = "payout" => me.r.kind = "expense" \/ IsEdit(me)
<1>1. me.r \in Request /\ me.r.kind \in Kind
  BY RequestsAssumption DEF AtPlace, Request
<1> QED BY <1>1, SaleSteps, ReversalSteps, CustomerSteps, DrawerSteps
        DEF AtPlace, Kind, PlaceRank, IsReversal, IsEdit

\* A request that holds nothing and has read nothing.
IsFresh(me, r, pc) ==
  /\ DOMAIN me = ReqColumns /\ me.r = r /\ me.pc = pc
  /\ me.seen = 0 /\ me.was = NoExpense /\ me.held = {}

LEMMA WaitingFresh ==
  ASSUME NEW r
  PROVE  IsFresh(Waiting(r), r, Path(r.kind)[1]) /\ Waiting(r).outcome = "none"
  BY DEF Waiting, ReqColumns, IsFresh

\* A request at the start of its path or of its transaction knows nothing.
LEMMA FreshRight ==
  ASSUME NEW me, NEW r \in Requests, NEW pc \in {Path(r.kind)[1], TxStart(r.kind)} \ {"none"},
         IsFresh(me, r, pc), me.outcome = "none",
         r.kind = "sale" /\ pc = "shift" /\ r.amount > 0 => r.customer # NoCustomer
  PROVE  Right(me)
<1>0. me.r = r /\ me.pc = pc /\ DOMAIN me = ReqColumns
      /\ me.seen = 0 /\ me.was = NoExpense /\ me.held = {}
  BY DEF IsFresh
<1>1. me.r.kind \in Kind
  BY <1>0, RequestsAssumption DEF Request
<1>2. /\ me.pc \in Places(me.r.kind) /\ me.pc \notin {"peek", "number", "commit"}
      /\ me.pc = "shift" => ~IsReversal(me)
      /\ me.pc = "customer" => me.r.kind \in {"opening", "delete"}
      /\ me.pc = "payout" => ~IsEdit(me)
  BY <1>0, <1>1, Paths, SaleSteps, ReversalSteps, CustomerSteps, DrawerSteps
     DEF Kind, TxStart, IsReversal, IsEdit
<1>3. AtPlace(me) /\ OriginalHeld(me) /\ SeenDrawer(me) /\ DrawerHeld(me) /\ HeldBelow(me)
  BY <1>0, <1>2 DEF AtPlace, CreditNamed, OriginalHeld, SeenDrawer, DrawerHeld, HeldBelow, IsReversal
<1>4. CustomerHeld(me) /\ NumberHeld(me) /\ ExpenseHeld(me) /\ PayoutHeld(me)
  BY <1>0, <1>2 DEF CustomerHeld, NumberHeld, ExpenseHeld, PayoutHeld, IsEdit
<1>5. Told(me)
  BY DEF Told
<1> QED BY <1>3, <1>4, <1>5 DEF Right

\* The pass of a check before the transaction.
LEMMA ChecksPassed ==
  ASSUME NEW me, Right(me), me.pc \in {"replay", "stock"}, NEW next,
         SameBut(me, next, {"pc"}), next.pc = StepAfter(me.r.kind, me.pc),
         me.pc = "stock" /\ me.r.amount > 0 => me.r.customer # NoCustomer
  PROVE  Right(next)
<1>0. AtPlace(me)
  BY DEF Right
<1>1. next.r = me.r /\ next.seen = me.seen /\ next.shift = me.shift /\ next.held = me.held
      /\ next.was = me.was /\ next.outcome = me.outcome /\ next.doc = me.doc
      /\ DOMAIN next = ReqColumns
  BY DEF SameBut, ReqColumns
<1>2. \/ me.pc = "replay" /\ me.r.kind = "sale" /\ next.pc = "stock"
      \/ me.pc = "replay" /\ me.r.kind = "return" /\ next.pc = "original"
      \/ me.pc = "replay" /\ me.r.kind = "repay" /\ next.pc = "shift"
      \/ me.pc = "stock" /\ me.r.kind = "sale" /\ next.pc = "shift"
  BY <1>0, PlacesKnown, SaleSteps, ReversalSteps, CustomerSteps, DrawerSteps
<1>3. AtPlace(next)
  BY <1>0, <1>1, <1>2, SaleSteps, ReversalSteps, CustomerSteps, DrawerSteps DEF AtPlace, CreditNamed
<1>4. OriginalHeld(next) /\ SeenDrawer(next) /\ DrawerHeld(next) /\ CustomerHeld(next)
  BY <1>1, <1>2 DEF Right, OriginalHeld, SeenDrawer, DrawerHeld, CustomerHeld, IsReversal
<1>5. NumberHeld(next) /\ ExpenseHeld(next) /\ PayoutHeld(next) /\ Told(next)
  BY <1>1, <1>2 DEF Right, NumberHeld, ExpenseHeld, PayoutHeld, Told, IsEdit
<1>6. HeldBelow(next)
  <2>1. PlaceRank[me.pc] <= PlaceRank[next.pc] /\ PlaceRank[me.pc] \in Int /\ PlaceRank[next.pc] \in Int
    BY <1>2 DEF PlaceRank
  <2>2. \A k \in DOMAIN LockRank : LockRank[k] \in Int
    BY DEF LockRank
  <2> QED BY <1>1, <2>1, <2>2 DEF Right, HeldBelow
<1> QED BY <1>3, <1>4, <1>5, <1>6 DEF Right

\* A request that goes on with the locks of its place holds locks before the next place.
LEMMA OrderKept ==
  ASSUME NEW me, HeldBelow(me), me.pc \in DOMAIN PlaceRank \ {"row", "token"}, NEW next,
         next.held \subseteq me.held \cup Needs(me),
         next.pc \in DOMAIN PlaceRank, PlaceRank[me.pc] < PlaceRank[next.pc]
  PROVE  HeldBelow(next)
<1>1. \A k \in DOMAIN LockRank : LockRank[k] \in Int
  BY DEF LockRank
<1>2. \A k \in DOMAIN PlaceRank : PlaceRank[k] \in Int
  BY DEF PlaceRank
<1> SUFFICES ASSUME NEW x \in next.held
             PROVE  x[1] \in DOMAIN LockRank /\ LockRank[x[1]] < PlaceRank[next.pc]
  BY DEF HeldBelow
<1>3. CASE x \in me.held
  BY <1>1, <1>2, <1>3 DEF HeldBelow
<1>4. CASE x \in Needs(me)
  BY <1>1, <1>2, <1>4, LocksInOrder
<1> QED BY <1>3, <1>4

\* The bill a reversal is about is locked, and may be reversed.
LEMMA OriginalLocked ==
  ASSUME NEW me, Right(me), me.pc = "original",
         IF me.r.kind = "cancel" THEN MayCancel(me.r.invoice) ELSE MayReturn(me.r),
         NEW next, SameBut(me, next, {"pc", "held"}), next.held = me.held \cup Needs(me),
         next.pc = StepAfter(me.r.kind, me.pc)
  PROVE  Right(next)
<1>0. AtPlace(me) /\ IsReversal(me)
  BY PlacesKnown DEF Right
<1>1. next.r = me.r /\ next.seen = me.seen /\ next.was = me.was
      /\ next.outcome = me.outcome /\ next.doc = me.doc /\ DOMAIN next = ReqColumns
  BY DEF SameBut, ReqColumns
<1>2. next.pc = "peek"
  BY <1>0, ReversalSteps DEF IsReversal
<1>3. AtPlace(next) /\ IsReversal(next)
  BY <1>0, <1>1, <1>2, ReversalSteps DEF AtPlace, CreditNamed, IsReversal
<1>4. <<"invoice", me.r.invoice>> \in next.held
  BY LocksOfPlaces
<1>5. OriginalHeld(next) /\ SeenDrawer(next) /\ DrawerHeld(next) /\ CustomerHeld(next)
  BY <1>1, <1>2, <1>4 DEF Right, OriginalHeld, SeenDrawer, DrawerHeld, CustomerHeld, IsReversal
<1>6. NumberHeld(next) /\ ExpenseHeld(next) /\ PayoutHeld(next) /\ Told(next)
  BY <1>0, <1>1, <1>2 DEF Right, NumberHeld, ExpenseHeld, PayoutHeld, Told, IsEdit, IsReversal
<1>7. HeldBelow(next)
  BY <1>2, OrderKept DEF Right, PlaceRank
<1> QED BY <1>3, <1>5, <1>6, <1>7 DEF Right

\* The look at the bill's drawer.
LEMMA ShiftPeeked ==
  ASSUME NEW me, Right(me), me.pc = "peek",
         NEW next, SameBut(me, next, {"pc", "seen"}),
         LET s == invoices[me.r.invoice].shift IN
         next.seen = IF MayUseShift(me.r.actor, s) THEN s ELSE 0,
         next.pc = StepAfter(me.r.kind, me.pc), ShiftsShaped
  PROVE  Right(next)
<1>0. AtPlace(me) /\ IsReversal(me)
  BY PlacesKnown DEF Right
<1>1. next.r = me.r /\ next.held = me.held /\ next.was = me.was
      /\ next.outcome = me.outcome /\ next.doc = me.doc /\ DOMAIN next = ReqColumns
  BY DEF SameBut, ReqColumns
<1>2. next.pc = "shift"
  BY <1>0, ReversalSteps DEF IsReversal
<1>3. AtPlace(next) /\ IsReversal(next)
  BY <1>0, <1>1, <1>2, ReversalSteps DEF AtPlace, CreditNamed, IsReversal
<1>4. OriginalHeld(next)
  BY <1>1, <1>2 DEF Right, OriginalHeld, IsReversal
<1>5. SeenDrawer(next)
  <2>1. 0 \notin DOMAIN shifts
    BY DEF ShiftsShaped, IsRows
  <2> QED BY <1>1, <1>2, <1>3, <2>1 DEF SeenDrawer, MayUseShift
<1>6. DrawerHeld(next) /\ CustomerHeld(next)
  BY <1>1, <1>2 DEF DrawerHeld, CustomerHeld
<1>7. NumberHeld(next) /\ ExpenseHeld(next) /\ PayoutHeld(next) /\ Told(next)
  BY <1>0, <1>1, <1>2 DEF Right, NumberHeld, ExpenseHeld, PayoutHeld, Told, IsEdit, IsReversal
<1>8. HeldBelow(next)
  BY <1>1, <1>2, OrderKept DEF Right, PlaceRank
<1> QED BY <1>3, <1>4, <1>5, <1>6, <1>7, <1>8 DEF Right

\* The drawer the locking read finds is none or open, and the user's or one they may use.
LEMMA ShiftLocked ==
  ASSUME NEW me, Right(me), me.pc = "shift",
         me.r.kind = "sale" => ShiftAllowed(me.r), me.r.kind = "close" => ClosesShift(me.r),
         NEW next, SameBut(me, next, {"pc", "held", "shift"}),
         next.held = me.held \cup Needs(me), next.shift = WantedShift(me),
         next.pc = StepAfter(me.r.kind, me.pc), ShiftsShaped
  PROVE  Right(next)
<1>0. AtPlace(me) /\ me.r.kind \in {"sale", "return", "cancel", "repay", "close"}
  BY PlacesKnown DEF Right
<1>1. next.r = me.r /\ next.seen = me.seen /\ next.was = me.was
      /\ next.outcome = me.outcome /\ next.doc = me.doc /\ DOMAIN next = ReqColumns
  BY DEF SameBut, ReqColumns
<1>2. /\ me.r.kind \in {"sale", "return", "cancel", "repay"} => next.pc = "customer"
      /\ me.r.kind = "close" => next.pc = "commit"
  BY <1>0, SaleSteps, ReversalSteps, CustomerSteps, DrawerSteps
<1>3. AtPlace(next) /\ next.pc \in {"customer", "commit"}
  BY <1>0, <1>1, <1>2, SaleSteps, ReversalSteps, CustomerSteps, DrawerSteps DEF AtPlace, CreditNamed
<1>4. OriginalHeld(next)
  BY <1>1, <1>2, <1>3 DEF Right, OriginalHeld, IsReversal, SameBut, ReqColumns
<1>5. SeenDrawer(next)
  BY <1>1, <1>3 DEF Right, SeenDrawer, IsReversal
<1>6. DrawerHeld(next)
  <2> DEFINE w == WantedShift(me)
  <2>1. OpenShiftOf(me.r.actor) # 0 =>
          /\ OpenShiftOf(me.r.actor) \in DOMAIN shifts
          /\ shifts[OpenShiftOf(me.r.actor)].status = "OPEN"
          /\ shifts[OpenShiftOf(me.r.actor)].owner = me.r.actor
    BY OwnShift DEF OpenShifts
  <2>2. me.seen # 0 => me.seen \in DOMAIN shifts /\ IsReversal(me)
    BY DEF Right, SeenDrawer
  <2>3. Explicit(me.r) => ~IsReversal(me) /\ MayUseShift(me.r.actor, me.r.shift) /\ w = me.r.shift
    BY <2>2 DEF Explicit, IsReversal, ShiftAllowed, ClosesShift, WantedShift
  <2>4. ~Explicit(me.r) => w = me.seen \/ w = OpenShiftOf(me.r.actor)
    BY DEF WantedShift
  <2>5. w # 0 => w \in DOMAIN shifts /\ shifts[w].status = "OPEN"
    BY <2>1, <2>2, <2>3 DEF WantedShift, MayUseShift
  <2>6. me.seen \notin {0, w} => shifts[me.seen].status # "OPEN"
    BY DEF WantedShift
  <2>7. me.r.kind = "close" => w # 0
    <3>1. CASE me.r.kind = "close" /\ me.r.shift = 0
      BY <2>2, <3>1 DEF ClosesShift, WantedShift, Explicit, IsReversal
    <3>2. CASE me.r.kind = "close" /\ me.r.shift # 0
      BY <2>3, <3>2 DEF Explicit
    <3> QED BY <3>1, <3>2
  <2>8. w # 0 => <<"shift", w>> \in Needs(me)
    BY LocksOfPlaces
  <2> HIDE DEF w
  <2>9. next.shift = w
    BY DEF w
  <2> QED BY <1>1, <2>1, <2>3, <2>4, <2>5, <2>6, <2>7, <2>8, <2>9 DEF DrawerHeld, Holds
<1>7. CustomerHeld(next) /\ NumberHeld(next)
  BY <1>0, <1>1, <1>2 DEF CustomerHeld, NumberHeld
<1>8. ExpenseHeld(next) /\ PayoutHeld(next) /\ Told(next)
  BY <1>0, <1>1 DEF Right, ExpenseHeld, PayoutHeld, Told, IsEdit
<1>9. HeldBelow(next)
  BY <1>3, OrderKept DEF Right, PlaceRank
<1> QED BY <1>3, <1>4, <1>5, <1>6, <1>7, <1>8, <1>9 DEF Right

\* What a flow requires of the customer depends on the request and its drawer alone.
LEMMA SameAllowance ==
  ASSUME NEW me, NEW next, next.r = me.r, next.shift = me.shift, NEW balance,
         CustomerAllows(me, balance)
  PROVE  CustomerAllows(next, balance)
  BY DEF CustomerAllows

\* The customer is locked, and the balance allows the flow.
LEMMA CustomerLocked ==
  ASSUME NEW me, Right(me), me.pc = "customer",
         CustomerAllows(me, BalanceOf(CustomerOf(me.r))),
         NEW next, SameBut(me, next, {"pc", "held", "balance"}),
         next.held = me.held \cup Needs(me), next.balance = BalanceOf(CustomerOf(me.r)),
         next.pc = StepAfter(me.r.kind, me.pc)
  PROVE  Right(next)
<1>0. AtPlace(me) /\ me.r.kind \in {"sale", "return", "cancel", "repay", "opening", "delete"}
  BY PlacesKnown DEF Right
<1>1. next.r = me.r /\ next.seen = me.seen /\ next.shift = me.shift /\ next.was = me.was
      /\ next.outcome = me.outcome /\ next.doc = me.doc /\ DOMAIN next = ReqColumns
  BY DEF SameBut, ReqColumns
<1>2. /\ me.r.kind \in {"sale", "return"} => next.pc = "number"
      /\ me.r.kind \in {"cancel", "repay", "opening", "delete"} => next.pc = "commit"
  BY <1>0, SaleSteps, ReversalSteps, CustomerSteps
<1>3. AtPlace(next) /\ next.pc \in {"number", "commit"}
  BY <1>0, <1>1, <1>2, SaleSteps, ReversalSteps, CustomerSteps DEF AtPlace, CreditNamed
<1>4. OriginalHeld(next) /\ SeenDrawer(next)
  BY <1>1, <1>3 DEF Right, OriginalHeld, SeenDrawer, IsReversal
<1>5. DrawerHeld(next)
  BY <1>1, <1>3 DEF Right, DrawerHeld, Holds
<1>6. CustomerHeld(next)
  <2>1. CustomerAllows(next, next.balance)
    BY <1>1, SameAllowance
  <2>2. CustomerOf(me.r) # NoCustomer => <<"customer", CustomerOf(me.r)>> \in next.held
    BY LocksOfPlaces
  <2> QED BY <1>1, <2>1, <2>2 DEF CustomerHeld
<1>7. NumberHeld(next) /\ ExpenseHeld(next) /\ PayoutHeld(next) /\ Told(next)
  BY <1>0, <1>1, <1>2 DEF Right, NumberHeld, ExpenseHeld, PayoutHeld, Told, IsEdit
<1>8. HeldBelow(next)
  BY <1>3, OrderKept DEF Right, PlaceRank
<1> QED BY <1>3, <1>4, <1>5, <1>6, <1>7, <1>8 DEF Right

\* The series is locked, and the number is its next.
LEMMA NumberLocked ==
  ASSUME NEW me, Right(me), me.pc = "number",
         NEW next, SameBut(me, next, {"pc", "held", "number"}),
         next.held = me.held \cup Needs(me), next.number = lastNumber[Series(me.r)] + 1,
         next.pc = StepAfter(me.r.kind, me.pc)
  PROVE  Right(next)
<1>0. AtPlace(me) /\ me.r.kind \in {"sale", "return"}
  BY PlacesKnown DEF Right
<1>1. next.r = me.r /\ next.seen = me.seen /\ next.shift = me.shift /\ next.balance = me.balance
      /\ next.was = me.was /\ next.outcome = me.outcome /\ next.doc = me.doc
      /\ DOMAIN next = ReqColumns
  BY DEF SameBut, ReqColumns
<1>2. next.pc = "commit"
  BY <1>0, SaleSteps, ReversalSteps
<1>3. AtPlace(next)
  BY <1>0, <1>1, <1>2, SaleSteps, ReversalSteps DEF AtPlace, CreditNamed
<1>4. OriginalHeld(next) /\ SeenDrawer(next)
  BY <1>1, <1>2 DEF Right, OriginalHeld, SeenDrawer, IsReversal
<1>5. DrawerHeld(next)
  BY <1>1, <1>2 DEF Right, DrawerHeld, Holds
<1>6. CustomerHeld(next)
  BY <1>1, <1>2, SameAllowance DEF Right, CustomerHeld
<1>7. NumberHeld(next)
  BY <1>1, LocksOfPlaces DEF NumberHeld
<1>8. ExpenseHeld(next) /\ PayoutHeld(next) /\ Told(next)
  BY <1>0, <1>1, <1>2 DEF Right, ExpenseHeld, PayoutHeld, Told, IsEdit
<1>9. HeldBelow(next)
  BY <1>2, OrderKept DEF Right, PlaceRank
<1> QED BY <1>3, <1>4, <1>5, <1>6, <1>7, <1>8, <1>9 DEF Right

\* A live expense is locked as it was found.
LEMMA ExpenseLocked ==
  ASSUME NEW me, Right(me), me.pc = "expense",
         me.r.expense \in DOMAIN expenses, ~expenses[me.r.expense].deleted,
         NEW next, SameBut(me, next, {"pc", "held", "was"}),
         next.held = me.held \cup Needs(me), next.was = expenses[me.r.expense],
         next.pc = StepAfter(me.r.kind, me.pc)
  PROVE  Right(next)
<1>0. AtPlace(me) /\ IsEdit(me)
  BY PlacesKnown DEF Right
<1>1. next.r = me.r /\ next.seen = me.seen
      /\ next.outcome = me.outcome /\ next.doc = me.doc /\ DOMAIN next = ReqColumns
  BY DEF SameBut, ReqColumns
<1>2. next.pc = "payout"
  BY <1>0, DrawerSteps DEF IsEdit
<1>3. AtPlace(next)
  BY <1>0, <1>1, <1>2, DrawerSteps DEF AtPlace, CreditNamed, IsEdit
<1>4. OriginalHeld(next) /\ SeenDrawer(next) /\ DrawerHeld(next) /\ CustomerHeld(next) /\ NumberHeld(next)
  BY <1>1, <1>2 DEF Right, OriginalHeld, SeenDrawer, DrawerHeld, CustomerHeld, NumberHeld
<1>5. ExpenseHeld(next)
  BY <1>0, <1>1, LocksOfPlaces DEF ExpenseHeld, IsEdit
<1>6. PayoutHeld(next) /\ Told(next)
  BY <1>1, <1>2 DEF Right, PayoutHeld, Told
<1>7. HeldBelow(next)
  BY <1>2, OrderKept DEF Right, PlaceRank
<1> QED BY <1>3, <1>4, <1>5, <1>6, <1>7 DEF Right

\* The drawer an expense is paid from, or was paid from.
LEMMA PayoutLocked ==
  ASSUME NEW me, Right(me), me.pc = "payout", ShiftsShaped,
         NEW next, SameBut(me, next, {"pc", "held", "shift"}),
         next.held = me.held \cup Needs(me), next.shift = PayingShift(me.r, me.was),
         next.pc = StepAfter(me.r.kind, me.pc)
  PROVE  Right(next)
<1>0. AtPlace(me) /\ (me.r.kind = "expense" \/ IsEdit(me))
  BY PlacesKnown DEF Right
<1>1. next.r = me.r /\ next.seen = me.seen /\ next.was = me.was
      /\ next.outcome = me.outcome /\ next.doc = me.doc /\ DOMAIN next = ReqColumns
  BY DEF SameBut, ReqColumns
<1>2. next.pc = "commit"
  BY <1>0, DrawerSteps DEF IsEdit
<1>3. AtPlace(next)
  BY <1>0, <1>1, <1>2, DrawerSteps DEF AtPlace, CreditNamed, IsEdit
<1>4. OriginalHeld(next) /\ SeenDrawer(next) /\ DrawerHeld(next) /\ CustomerHeld(next) /\ NumberHeld(next)
  BY <1>0, <1>1 DEF Right, OriginalHeld, SeenDrawer, DrawerHeld, CustomerHeld, NumberHeld, IsEdit,
                    IsReversal
<1>5. ExpenseHeld(next)
  BY <1>1, <1>2 DEF Right, ExpenseHeld, IsEdit, SameBut, ReqColumns
<1>6. PayoutHeld(next)
  <2> DEFINE s == PayingShift(me.r, me.was)
  <2>1. s # 0 => <<"shift", s>> \in next.held
    BY LocksOfPlaces
  <2>2. me.was.shift # 0 => s = me.was.shift
    BY DEF PayingShift
  <2>3. me.was.shift = 0 /\ s # 0 =>
          /\ s = OpenShiftOf(me.r.actor)
          /\ CashOut(Spent(me.r, me.was)) > 0 /\ CashOut(me.was) = 0
    BY DEF PayingShift
  <2>4. me.was.shift = 0 /\ s # 0 => s \in OpenShifts(me.r.actor)
    BY <2>3, OwnShift
  <2> HIDE DEF s
  <2>5. next.shift = s
    BY DEF s
  <2> QED BY <1>1, <2>1, <2>2, <2>3, <2>4, <2>5 DEF PayoutHeld, Holds, OpenShifts
<1>7. Told(next)
  BY <1>1 DEF Right, Told
<1>8. HeldBelow(next)
  BY <1>2, OrderKept DEF Right, PlaceRank
<1> QED BY <1>3, <1>4, <1>5, <1>6, <1>7, <1>8 DEF Right

-----------------------------------------------------------------------------
(* A commit writes only what it has locked *)

\* The movement of a locked customer's balance, or none.
LEMMA BalanceTouches ==
  ASSUME CustomersShaped, NEW h, NEW c, c \in Customer => <<"customer", c>> \in h,
         UNCHANGED <<udhar, customers>> \/ \E row : MovesBalance(c, row)
  PROVE  MovementsKept /\ CustomersKept(h)
<1>1. CASE UNCHANGED <<udhar, customers>>
  BY <1>1 DEF MovementsKept, CustomersKept, RowsOf
<1>2. ASSUME NEW row, MovesBalance(c, row) PROVE MovementsKept /\ CustomersKept(h)
  <2>1. /\ DOMAIN udhar' = DOMAIN udhar \cup {Len(udhar) + 1}
        /\ \A u \in DOMAIN udhar : udhar'[u] = udhar[u]
        /\ udhar'[Len(udhar) + 1].customer = c
    BY <1>2, AppendRow DEF MovesBalance, CustomersShaped
  <2>2. \A d \in Customer : d # c => customers'[d] = customers[d] /\ RowsOf(d)' = RowsOf(d)
    BY <1>2, <2>1 DEF MovesBalance, CustomersShaped, RowsOf
  <2> QED BY <2>1, <2>2 DEF MovementsKept, CustomersKept
<1> QED BY <1>1, <1>2

\* The counters of a drawer.
LEMMA CountersTouch ==
  ASSUME NEW h, NEW s, OnlyCounters(s)
  PROVE  DrawersKept(h)
  BY DEF OnlyCounters, DrawersKept

\* A bill more, and at most one written, which is locked and which a return is of.
LEMMA DocumentsTouch ==
  ASSUME NEW h, NEW i, OnlyInvoice(i), i \in DOMAIN invoices => <<"invoice", i>> \in h,
         NEW r, NEW type, NEW s, NEW c,
         SameDocuments \/ (NewDocument(r, type, i, s, c) /\ (type = "SALE" \/ i \in DOMAIN invoices))
  PROVE  BillsKept(h)
<1>1. \A j \in DOMAIN invoices : j \in DOMAIN invoices' /\ InvoiceKept(j)
  BY DEF OnlyInvoice
<1>2. ASSUME NEW j \in DOMAIN invoices, <<"invoice", j>> \notin h
      PROVE  invoices'[j] = invoices[j] /\ ReturnsOf(j)' = ReturnsOf(j)
  <2>1. j # i
    BY <1>2
  <2>2. invoices'[j] = invoices[j]
    BY <2>1 DEF OnlyInvoice
  <2>3. CASE SameDocuments
    BY <1>1, <2>2, <2>3 DEF SameDocuments, ReturnsOf, InvoiceKept
  <2>4. CASE NewDocument(r, type, i, s, c)
    <3>1. /\ DOMAIN invoices' = DOMAIN invoices \cup {Len(invoices) + 1}
          /\ invoices'[Len(invoices) + 1].type = type
          /\ invoices'[Len(invoices) + 1].original = i
      BY <2>4 DEF NewDocument
    <3>2. Len(invoices) + 1 \notin ReturnsOf(j)'
      BY <2>1, <3>1 DEF ReturnsOf
    <3> QED BY <1>1, <2>2, <3>1, <3>2 DEF ReturnsOf, InvoiceKept
  <2> QED BY <2>2, <2>3, <2>4
<1> QED BY <1>1, <1>2 DEF BillsKept

\* The tables a flow does not write.
LEMMA OthersUntouched ==
  ASSUME NEW h
  PROVE  /\ invoices' = invoices => BillsKept(h)
         /\ udhar' = udhar => MovementsKept
         /\ UNCHANGED <<udhar, customers>> => CustomersKept(h)
         /\ shifts' = shifts => DrawersKept(h)
         /\ expenses' = expenses => ExpensesKept(h)
         /\ lastNumber' = lastNumber => NumbersKept(h)
  BY DEF BillsKept, InvoiceKept, ReturnsOf, MovementsKept, CustomersKept, RowsOf, DrawersKept,
         ExpensesKept, NumbersKept

LEMMA SaleTouches ==
  ASSUME BooksShaped, NEW r \in Request, NEW s, NEW number, NEW h,
         BookSale(r, s, BalanceOf(r.customer), number),
         r.customer # NoCustomer => <<"customer", r.customer>> \in h, <<"number", "SALE">> \in h
  PROVE  Untouched(h)
<1>1. 0 \notin DOMAIN invoices
  BY DEF BooksShaped, InvoicesShaped, IsRows
<1>2. OnlyInvoice(0) /\ NewDocument(r, "SALE", 0, s, r.customer)
      /\ lastNumber' = [lastNumber EXCEPT !["SALE"] = number]
  BY SaleDocuments DEF BooksShaped
<1>3. BillsKept(h)
  BY <1>1, <1>2, DocumentsTouch
<1>4. MovementsKept /\ CustomersKept(h)
  <2>1. UNCHANGED <<udhar, customers>> \/ \E row : MovesBalance(r.customer, row)
    BY SaleMovesBalance
  <2>2. r.customer \in Customer => <<"customer", r.customer>> \in h
    BY ShopAssumption
  <2> QED BY <2>1, <2>2, BalanceTouches DEF BooksShaped
<1>5. DrawersKept(h)
  BY MoveDrawerCounters, CountersTouch DEF BookSale, BooksShaped
<1>6. ExpensesKept(h)
  BY OthersUntouched DEF BookSale
<1>7. NumbersKept(h)
  BY <1>2 DEF NumbersKept, BooksShaped, NumbersShaped
<1> QED BY <1>3, <1>4, <1>5, <1>6, <1>7 DEF Untouched

\* What a return and a cancellation do alike.
LEMMA ReverseTouches ==
  ASSUME BooksShaped, NEW r \in Request, r.invoice \in DOMAIN invoices, NEW s, NEW reversed,
         NEW goods, NEW i, NEW h,
         Reverse(r, s, BalanceOf(invoices[r.invoice].customer), reversed, goods, i),
         LET c == invoices[r.invoice].customer IN c # NoCustomer => <<"customer", c>> \in h
  PROVE  MovementsKept /\ CustomersKept(h) /\ DrawersKept(h) /\ ExpensesKept(h)
<1> DEFINE c == invoices[r.invoice].customer
<1>1. UNCHANGED <<udhar, customers>> \/ \E row : MovesBalance(c, row)
  BY ReverseMovesBalance
<1>2. c \in Customer => <<"customer", c>> \in h
  BY ShopAssumption
<1>3. MovementsKept /\ CustomersKept(h)
  BY <1>1, <1>2, BalanceTouches DEF BooksShaped
<1>4. DrawersKept(h)
  BY MoveDrawerCounters, CountersTouch DEF Reverse, BooksShaped
<1>5. ExpensesKept(h)
  BY OthersUntouched DEF Reverse
<1> QED BY <1>3, <1>4, <1>5

LEMMA ReturnTouches ==
  ASSUME BooksShaped, NEW r \in Request, r.invoice \in DOMAIN invoices, NEW s, NEW number, NEW h,
         BookReturn(r, s, BalanceOf(invoices[r.invoice].customer), number),
         LET c == invoices[r.invoice].customer IN c # NoCustomer => <<"customer", c>> \in h,
         <<"invoice", r.invoice>> \in h, <<"number", "RETURN">> \in h
  PROVE  Untouched(h)
<1> DEFINE c == invoices[r.invoice].customer
<1>1. OnlyInvoice(r.invoice) /\ NewDocument(r, "RETURN", r.invoice, s, c)
      /\ lastNumber' = [lastNumber EXCEPT !["RETURN"] = number]
  BY ReturnDocuments DEF BooksShaped
<1>2. BillsKept(h)
  BY <1>1, DocumentsTouch
<1>3. MovementsKept /\ CustomersKept(h) /\ DrawersKept(h) /\ ExpensesKept(h)
  <2>1. \E reversed, goods, i : Reverse(r, s, BalanceOf(c), reversed, goods, i)
    BY DEF BookReturn
  <2> QED BY <2>1, ReverseTouches
<1>4. NumbersKept(h)
  BY <1>1 DEF NumbersKept, BooksShaped, NumbersShaped
<1> QED BY <1>2, <1>3, <1>4 DEF Untouched

LEMMA CancelTouches ==
  ASSUME BooksShaped, NEW r \in Request, r.invoice \in DOMAIN invoices, NEW s, NEW h,
         BookCancel(r, s, BalanceOf(invoices[r.invoice].customer)),
         LET c == invoices[r.invoice].customer IN c # NoCustomer => <<"customer", c>> \in h,
         <<"invoice", r.invoice>> \in h
  PROVE  Untouched(h)
<1> DEFINE c == invoices[r.invoice].customer
<1>1. OnlyInvoice(r.invoice) /\ SameDocuments /\ lastNumber' = lastNumber
  BY CancelDocuments DEF BooksShaped
<1>2. BillsKept(h)
  BY <1>1, DocumentsTouch
<1>3. MovementsKept /\ CustomersKept(h) /\ DrawersKept(h) /\ ExpensesKept(h)
  <2>1. \E reversed, goods, i : Reverse(r, s, BalanceOf(c), reversed, goods, i)
    BY DEF BookCancel
  <2> QED BY <2>1, ReverseTouches
<1> QED BY <1>1, <1>2, <1>3, OthersUntouched DEF Untouched

\* The flows that write no document.
LEMMA RepaymentTouches ==
  ASSUME BooksShaped, NEW r \in Request, NEW s, NEW h, BookRepayment(r, s, BalanceOf(r.customer)),
         <<"customer", r.customer>> \in h
  PROVE  Untouched(h)
<1>1. \E row : MovesBalance(r.customer, row)
  BY RepaymentMovesBalance
<1>2. MovementsKept /\ CustomersKept(h)
  BY <1>1, BalanceTouches DEF BooksShaped
<1>3. DrawersKept(h)
  BY RepaymentCounters, CountersTouch DEF BooksShaped
<1>4. invoices' = invoices /\ expenses' = expenses /\ lastNumber' = lastNumber
  BY DEF BookRepayment
<1> QED BY <1>2, <1>3, <1>4, OthersUntouched DEF Untouched

LEMMA OpeningTouches ==
  ASSUME BooksShaped, NEW r \in Request, NEW h, BookOpening(r), BalanceOf(r.customer) = 0,
         <<"customer", r.customer>> \in h
  PROVE  Untouched(h)
<1>1. \E row : MovesBalance(r.customer, row)
  BY OpeningMovesBalance
<1>2. MovementsKept /\ CustomersKept(h)
  BY <1>1, BalanceTouches DEF BooksShaped
<1>3. invoices' = invoices /\ shifts' = shifts /\ expenses' = expenses /\ lastNumber' = lastNumber
  BY DEF BookOpening
<1> QED BY <1>2, <1>3, OthersUntouched DEF Untouched

LEMMA DeleteTouches ==
  ASSUME BooksShaped, NEW c, NEW h, BookDelete(c), <<"customer", c>> \in h
  PROVE  Untouched(h)
<1>1. UNCHANGED <<invoices, udhar, shifts, expenses, lastNumber>>
  BY DEF BookDelete
<1>2. CustomersKept(h)
  BY <1>1 DEF BookDelete, CustomersKept, BooksShaped, CustomersShaped, RowsOf
<1> QED BY <1>1, <1>2, OthersUntouched DEF Untouched

LEMMA OpenShiftTouches ==
  ASSUME BooksShaped, NEW r, NEW h, BookOpenShift(r)
  PROVE  Untouched(h)
<1>1. UNCHANGED <<invoices, udhar, customers, expenses, lastNumber>>
  BY DEF BookOpenShift
<1>2. DrawersKept(h)
  BY OpenShiftRow DEF BooksShaped, DrawersKept
<1> QED BY <1>1, <1>2, OthersUntouched DEF Untouched

LEMMA CloseShiftTouches ==
  ASSUME BooksShaped, NEW s \in DOMAIN shifts, NEW h, BookCloseShift(s), <<"shift", s>> \in h
  PROVE  Untouched(h)
<1>1. UNCHANGED <<invoices, udhar, customers, expenses, lastNumber>>
  BY DEF BookCloseShift
<1>2. DrawersKept(h)
  BY CloseShiftRow DEF BooksShaped, DrawersKept
<1> QED BY <1>1, <1>2, OthersUntouched DEF Untouched

LEMMA ExpenseTouches ==
  ASSUME BooksShaped, NEW r, NEW e, NEW was, NEW s, NEW h, BookExpense(r, e, was, s),
         DOMAIN was = ExpenseColumns, e \in DOMAIN expenses => <<"expense", e>> \in h
  PROVE  Untouched(h)
<1>1. UNCHANGED <<invoices, udhar, customers, lastNumber>>
  BY DEF BookExpense
<1>2. DrawersKept(h)
  BY PayFromDrawerCounters, CountersTouch DEF BookExpense, BooksShaped
<1>3. ExpensesKept(h)
  BY ExpenseRows DEF BooksShaped, ExpensesKept
<1> QED BY <1>1, <1>2, <1>3, OthersUntouched DEF Untouched

-----------------------------------------------------------------------------
(* A commit is a serial flow *)

\* The drawer a request holds at its commit is one the serial flow may book on.
LEMMA OwnDrawerAtCommit ==
  ASSUME BooksShaped, NEW me, me.shift # 0 => Holds(me, me.shift),
         me.shift # 0 => shifts[me.shift].owner = me.r.actor
  PROVE  me.shift \in OwnDrawer(me.r.actor)
<1>1. CASE me.shift = 0
  BY <1>1 DEF OwnDrawer
<1>2. CASE me.shift # 0
  <2>1. me.shift \in OpenShifts(me.r.actor)
    BY <1>2 DEF Holds, OpenShifts
  <2> QED BY <2>1, OnlyShift DEF BooksShaped, OwnDrawer
<1> QED BY <1>1, <1>2

LEMMA ReversalDrawerAtCommit ==
  ASSUME BooksShaped, NEW me, Right(me), IsReversal(me), me.pc = "commit"
  PROVE  me.shift \in ReversalDrawer(me.r)
<1> DEFINE s == invoices[me.r.invoice].shift
           a == me.r.actor
<1>0. 0 \notin DOMAIN shifts
  BY DEF BooksShaped, ShiftsShaped, IsRows
<1>1. IF me.seen = 0 THEN ~MayUseShift(a, s)
      ELSE me.seen = s /\ s \in DOMAIN shifts /\ (shifts[s].owner = a \/ IsManager(a))
  BY DEF Right, SeenDrawer
<1>2. /\ me.shift # 0 => Holds(me, me.shift)
      /\ me.seen \notin {0, me.shift} => shifts[me.seen].status # "OPEN"
      /\ me.shift \notin {0, me.seen} => shifts[me.shift].owner = a
  BY DEF Right, DrawerHeld, IsReversal, Explicit
<1>3. CASE me.seen # 0 /\ me.shift = me.seen
  BY <1>1, <1>2, <1>3 DEF MayUseShift, Holds, ReversalDrawer
<1>4. CASE me.seen = 0 \/ me.shift # me.seen
  <2>1. ~MayUseShift(a, s)
    BY <1>1, <1>2, <1>4 DEF MayUseShift
  <2>2. me.shift \in OwnDrawer(a)
    BY <1>2, <1>4, OwnDrawerAtCommit
  <2> QED BY <2>1, <2>2 DEF ReversalDrawer
<1> QED BY <1>3, <1>4

LEMMA SaleServed ==
  ASSUME BooksShaped, NEW me, Right(me), me.pc = "commit", me.r.kind = "sale",
         Known(me.r) = {}, BookSale(me.r, me.shift, me.balance, me.number)
  PROVE  Sale(me.r) /\ Untouched(me.held)
<1> DEFINE r == me.r
<1>0. r \in Request
  BY RequestsAssumption DEF Right, AtPlace
<1>1. /\ r.customer # NoCustomer => <<"customer", r.customer>> \in me.held
      /\ me.balance = BalanceOf(r.customer)
      /\ Live(r.customer) /\ MayCredit(r, me.balance)
  BY DEF Right, CustomerHeld, CustomerOf, CustomerAllows, Live
<1>2. <<"number", "SALE">> \in me.held /\ me.number = lastNumber["SALE"] + 1
  BY DEF Right, NumberHeld, Series
<1>3. ShiftAllowed(r) /\ me.shift \in SaleDrawer(r)
  <2>1. me.seen = 0
    BY DEF Right, SeenDrawer, IsReversal
  <2>2. /\ me.shift # 0 => Holds(me, me.shift)
        /\ Explicit(r) => me.shift = r.shift /\ MayUseShift(r.actor, me.shift)
        /\ ~Explicit(r) /\ me.shift # 0 => shifts[me.shift].owner = r.actor
    BY <2>1 DEF Right, DrawerHeld
  <2>3. CASE r.shift = 0
    BY <2>2, <2>3, OwnDrawerAtCommit DEF Explicit, ShiftAllowed, SaleDrawer
  <2>4. CASE r.shift # 0
    BY <2>2, <2>4 DEF Explicit, ShiftAllowed, SaleDrawer
  <2> QED BY <2>3, <2>4
<1>4. Holder(r.key) = {} /\ (r.amount > 0 => r.customer # NoCustomer)
  BY DEF Known, Right, AtPlace, CreditNamed
<1>5. Sale(r)
  BY <1>1, <1>2, <1>3, <1>4 DEF Sale
<1> QED BY <1>0, <1>1, <1>2, <1>5, SaleTouches

LEMMA ReturnServed ==
  ASSUME BooksShaped, NEW me, Right(me), me.pc = "commit", me.r.kind = "return",
         Known(me.r) = {}, BookReturn(me.r, me.shift, me.balance, me.number)
  PROVE  Return(me.r) /\ Untouched(me.held) /\ me.r.invoice \in DOMAIN invoices
<1> DEFINE r == me.r
           c == invoices[r.invoice].customer
<1>0. r \in Request /\ IsReversal(me)
  BY RequestsAssumption DEF Right, AtPlace, IsReversal
<1>1. MayReturn(r) /\ <<"invoice", r.invoice>> \in me.held
  BY <1>0 DEF Right, OriginalHeld
<1>2. r.invoice \in DOMAIN invoices
  BY <1>1 DEF MayReturn, IsOpenSale
<1>3. /\ c # NoCustomer => <<"customer", c>> \in me.held
      /\ me.balance = BalanceOf(c) /\ DrawerForRefund(r, me.shift, me.balance)
  BY DEF Right, CustomerHeld, CustomerOf, CustomerAllows
<1>4. <<"number", "RETURN">> \in me.held /\ me.number = lastNumber["RETURN"] + 1
  BY DEF Right, NumberHeld, Series
<1>5. me.shift \in ReversalDrawer(r)
  BY <1>0, ReversalDrawerAtCommit
<1>6. Holder(r.key) = {}
  BY DEF Known
<1>7. Return(r)
  BY <1>1, <1>3, <1>4, <1>5, <1>6 DEF Return
<1> QED BY <1>0, <1>1, <1>2, <1>3, <1>4, <1>7, ReturnTouches

LEMMA CancelServed ==
  ASSUME BooksShaped, NEW me, Right(me), me.pc = "commit", me.r.kind = "cancel",
         BookCancel(me.r, me.shift, me.balance)
  PROVE  Cancel(me.r) /\ Untouched(me.held)
<1> DEFINE r == me.r
           c == invoices[r.invoice].customer
<1>0. r \in Request /\ IsReversal(me)
  BY RequestsAssumption DEF Right, AtPlace, IsReversal
<1>1. MayCancel(r.invoice) /\ <<"invoice", r.invoice>> \in me.held
  BY <1>0 DEF Right, OriginalHeld
<1>2. r.invoice \in DOMAIN invoices
  BY <1>1 DEF MayCancel, IsOpenSale
<1>3. /\ c # NoCustomer => <<"customer", c>> \in me.held
      /\ me.balance = BalanceOf(c) /\ DrawerForRefund(r, me.shift, me.balance)
  BY DEF Right, CustomerHeld, CustomerOf, CustomerAllows
<1>4. me.shift \in ReversalDrawer(r)
  BY <1>0, ReversalDrawerAtCommit
<1>5. Cancel(r)
  BY <1>1, <1>3, <1>4 DEF Cancel
<1> QED BY <1>0, <1>1, <1>2, <1>3, <1>5, CancelTouches

LEMMA RepaymentServed ==
  ASSUME BooksShaped, NEW me, Right(me), me.pc = "commit", me.r.kind = "repay",
         Known(me.r) = {}, BookRepayment(me.r, me.shift, me.balance)
  PROVE  Repay(me.r) /\ Untouched(me.held)
<1> DEFINE r == me.r
<1>0. r \in Request /\ r.customer \in Customer /\ r.customer # NoCustomer
  BY RequestsAssumption, ShopAssumption DEF Right, AtPlace
<1>1. /\ <<"customer", r.customer>> \in me.held /\ me.balance = BalanceOf(r.customer)
      /\ Live(r.customer) /\ MayRepay(r, me.balance)
  BY <1>0 DEF Right, CustomerHeld, CustomerOf, CustomerAllows, Live
<1>2. me.shift \in OwnDrawer(r.actor)
  <2>1. me.seen = 0 /\ ~Explicit(r)
    BY DEF Right, SeenDrawer, IsReversal, Explicit
  <2>2. /\ me.shift # 0 => Holds(me, me.shift)
        /\ me.shift # 0 => shifts[me.shift].owner = r.actor
    BY <2>1 DEF Right, DrawerHeld
  <2> QED BY <2>2, OwnDrawerAtCommit
<1>3. Payment(r.key) = {}
  BY DEF Known
<1>4. Repay(r)
  BY <1>1, <1>2, <1>3 DEF Repay
<1> QED BY <1>0, <1>1, <1>4, RepaymentTouches

LEMMA OpeningServed ==
  ASSUME BooksShaped, NEW me, Right(me), me.pc = "commit", me.r.kind = "opening", BookOpening(me.r)
  PROVE  Opening(me.r) /\ Untouched(me.held)
<1> DEFINE r == me.r
<1>0. r \in Request /\ r.customer \in Customer /\ r.customer # NoCustomer
  BY RequestsAssumption, ShopAssumption DEF Right, AtPlace
<1>1. /\ <<"customer", r.customer>> \in me.held
      /\ Live(r.customer) /\ IsManager(r.actor) /\ MayOpenBalance(r)
  BY <1>0 DEF Right, CustomerHeld, CustomerOf, CustomerAllows, Live
<1>2. Opening(r)
  BY <1>1 DEF Opening
<1>3. BalanceOf(r.customer) = 0
  BY <1>0, <1>1 DEF MayOpenBalance, BalanceOf
<1> QED BY <1>0, <1>1, <1>2, <1>3, OpeningTouches

LEMMA DeleteServed ==
  ASSUME BooksShaped, NEW me, Right(me), me.pc = "commit", me.r.kind = "delete",
         BookDelete(me.r.customer)
  PROVE  Delete(me.r) /\ Untouched(me.held)
<1> DEFINE r == me.r
<1>0. r \in Request /\ r.customer \in Customer /\ r.customer # NoCustomer
  BY RequestsAssumption, ShopAssumption DEF Right, AtPlace
<1>1. /\ <<"customer", r.customer>> \in me.held
      /\ Live(r.customer) /\ BalanceOf(r.customer) = 0
  BY <1>0 DEF Right, CustomerHeld, CustomerOf, CustomerAllows, Live
<1> QED BY <1>1, DeleteTouches DEF Delete

LEMMA CloseShiftServed ==
  ASSUME BooksShaped, NEW me, Right(me), me.pc = "commit", me.r.kind = "close",
         BookCloseShift(me.shift)
  PROVE  CloseShift(me.r) /\ Untouched(me.held)
<1> DEFINE r == me.r
<1>1. me.seen = 0
  BY DEF Right, SeenDrawer, IsReversal
<1>2. /\ Holds(me, me.shift)
      /\ Explicit(r) => me.shift = r.shift /\ MayUseShift(r.actor, me.shift)
      /\ ~Explicit(r) => shifts[me.shift].owner = r.actor /\ me.shift # 0
  BY <1>1 DEF Right, DrawerHeld
<1>3. CASE r.shift = 0
  <2>1. me.shift \in OpenShifts(r.actor)
    BY <1>2, <1>3 DEF Explicit, Holds, OpenShifts
  <2>2. OpenShiftOf(r.actor) = me.shift
    BY <2>1, OnlyShift DEF BooksShaped
  <2>3. CloseShift(r)
    BY <1>2, <1>3, <2>2 DEF CloseShift, ClosesShift, Explicit
  <2> QED BY <1>2, <2>3, CloseShiftTouches DEF Holds
<1>4. CASE r.shift # 0
  <2>1. CloseShift(r)
    BY <1>2, <1>4 DEF CloseShift, ClosesShift, Explicit
  <2> QED BY <1>2, <2>1, CloseShiftTouches DEF Holds
<1> QED BY <1>3, <1>4

\* The drawer an expense is paid from is the one the serial flow finds, or the one it was on.
LEMMA PayoutAtCommit ==
  ASSUME BooksShaped, NEW me, Right(me), me.pc = "commit", me.r.kind = "expense" \/ IsEdit(me)
  PROVE  IF me.was.shift = 0 THEN me.shift \in {0, PayingShift(me.r, me.was)}
         ELSE me.shift = me.was.shift
<1>1. CASE me.was.shift # 0
  BY <1>1 DEF Right, PayoutHeld
<1>2. CASE me.was.shift = 0 /\ me.shift # 0
  <2>1. /\ me.shift \in OpenShifts(me.r.actor)
        /\ CashOut(Spent(me.r, me.was)) > 0 /\ CashOut(me.was) = 0
    BY <1>2 DEF Right, PayoutHeld, Holds, OpenShifts
  <2> QED BY <1>2, <2>1, OnlyShift DEF BooksShaped, PayingShift
<1> QED BY <1>1, <1>2

LEMMA ExpenseServed ==
  ASSUME BooksShaped, NEW me, Right(me), me.pc = "commit", me.r.kind = "expense" \/ IsEdit(me),
         BookExpense(me.r, IF me.r.kind = "expense" THEN 0 ELSE me.r.expense, me.was, me.shift)
  PROVE  (Expense(me.r) \/ EditExpense(me.r)) /\ Untouched(me.held)
<1> DEFINE r == me.r
<1>1. CASE r.kind = "expense"
  <2>1. me.was = NoExpense /\ NoExpense.shift = 0 /\ DOMAIN NoExpense = ExpenseColumns
    BY <1>1 DEF Right, ExpenseHeld, NoExpense, ExpenseColumns
  <2>2. BookExpense(r, 0, NoExpense, me.shift) /\ me.shift \in {0, PayingShift(r, NoExpense)}
    BY <1>1, <2>1, PayoutAtCommit
  <2>3. Expense(r)
    BY <1>1, <2>2 DEF Expense
  <2>4. 0 \notin DOMAIN expenses
    BY DEF BooksShaped, ExpensesShaped, IsRows
  <2> QED BY <2>1, <2>2, <2>3, <2>4, ExpenseTouches
<1>2. CASE IsEdit(me)
  <2>1. /\ <<"expense", r.expense>> \in me.held /\ r.expense \in DOMAIN expenses
        /\ me.was = expenses[r.expense] /\ ~me.was.deleted
    BY <1>2 DEF Right, ExpenseHeld
  <2>2. DOMAIN me.was = ExpenseColumns
    BY <2>1 DEF BooksShaped, ExpensesShaped
  <2>3. BookExpense(r, r.expense, me.was, me.shift)
    BY <1>2 DEF IsEdit
  <2>4. EditExpense(r)
    BY <1>2, <2>1, <2>3, PayoutAtCommit DEF EditExpense, IsEdit
  <2> QED BY <2>1, <2>2, <2>3, <2>4, ExpenseTouches
<1> QED BY <1>1, <1>2

-----------------------------------------------------------------------------
(* The invariant is kept by every step *)

\* One request goes on or commits, and the others find under their locks what they read.
LEMMA OneMoves ==
  ASSUME BillingInv, NEW q \in Req, NEW next, req' = [req EXCEPT ![q] = next],
         BooksShaped', Right(next)', OwnEntry(q, next),
         \A o \in Req \ {q} : next.held \cap req[o].held = {},
         NEW h, h \subseteq req[q].held, Untouched(h)
  PROVE  BillingInv'
<1>1. /\ req'[q] = next /\ req' = [o \in Req |-> req'[o]]
      /\ \A o \in Req \ {q} : req'[o] = req[o]
  BY DEF BillingInv
<1>2. HeldApart'
  <2> SUFFICES ASSUME NEW x \in Req, NEW y \in Req, x # y
               PROVE  req'[x].held \cap req'[y].held = {}
    BY DEF HeldApart
  <2>1. CASE x = q
    BY <1>1, <2>1
  <2>2. CASE y = q
    BY <1>1, <2>2
  <2>3. CASE x # q /\ y # q
    BY <1>1, <2>3 DEF BillingInv, HeldApart
  <2> QED BY <2>1, <2>2, <2>3
<1>3. ASSUME NEW o \in Req PROVE Right(req[o])' /\ OwnEntry(o, req[o])'
  <2>1. CASE o = q
    BY <1>1, <2>1 DEF OwnEntry
  <2>2. CASE o # q
    <3>1. PICK me : me = req[o]
      OBVIOUS
    <3>2. Right(me) /\ me.held \cap h = {}
      BY <2>2, <3>1 DEF BillingInv, HeldApart
    <3>3. Right(me)'
      BY <3>2, RightKept DEF BillingInv
    <3>4. OwnEntry(o, me)
      BY <3>1 DEF BillingInv
    <3> QED BY <1>1, <2>2, <3>1, <3>3, <3>4 DEF OwnEntry
  <2> QED BY <2>1, <2>2
<1> QED BY <1>1, <1>2, <1>3 DEF BillingInv

\* The books as they were.
LEMMA BooksStay ==
  ASSUME BooksShaped, UNCHANGED books
  PROVE  BooksShaped' /\ Untouched({})
  BY NothingTouched DEF books, BooksShaped, InvoicesShaped, ShiftsShaped, ExpensesShaped,
         CustomersShaped, NumbersShaped, OneDrawerEach

\* A step before the commit.
LEMMA GoesOn ==
  ASSUME BillingInv, UNCHANGED books, NEW q \in Req, NEW next, req' = [req EXCEPT ![q] = next],
         Right(next), next.held \subseteq req[q].held \cup Needs(req[q]), Granted(q),
         req[q].pc \in DOMAIN PlaceRank \ {"row", "token"}
  PROVE  BillingInv'
<1>1. BooksShaped' /\ Untouched({})
  BY BooksStay DEF BillingInv
<1>2. Right(next)'
  BY <1>1, RightKept DEF BillingInv
<1>3. \A o \in Req \ {q} : next.held \cap req[o].held = {}
  BY DEF BillingInv, HeldApart, Granted, WaitsFor
<1>4. OwnEntry(q, next)
  <2>1. OwnEntry(q, req[q])
    BY DEF BillingInv
  <2>2. \A x \in Needs(req[q]) : x[1] # "entry"
    BY LocksInOrder
  <2> QED BY <2>1, <2>2 DEF OwnEntry
<1> QED BY <1>1, <1>2, <1>3, <1>4, OneMoves

\* An answered request knows only the document it was told of.
LEMMA AnsweredRight ==
  ASSUME NEW next, NEW r \in Requests, IsFresh(next, r, "done"), Told(next)'
  PROVE  Right(next)'
<1>1. AtPlace(next)' /\ OriginalHeld(next)' /\ SeenDrawer(next)' /\ DrawerHeld(next)'
  BY DEF IsFresh, AtPlace, CreditNamed, Places, OriginalHeld, SeenDrawer, DrawerHeld
<1>2. CustomerHeld(next)' /\ NumberHeld(next)' /\ ExpenseHeld(next)' /\ PayoutHeld(next)'
  BY DEF IsFresh, CustomerHeld, NumberHeld, ExpenseHeld, PayoutHeld
<1>3. HeldBelow(next)'
  BY DEF IsFresh, HeldBelow
<1> QED BY <1>1, <1>2, <1>3 DEF Right

\* A request is answered, by its commit or without one.
LEMMA IsAnswered ==
  ASSUME BillingInv, NEW q \in Req, NEW outcome, NEW doc, Answer(q, outcome, doc),
         BooksShaped', NEW h, h \subseteq req[q].held, Untouched(h), NEW r, r = req[q].r,
         outcome \in {"ok", "replayed"} /\ r.kind \in {"sale", "return", "repay"} =>
           doc \in Known(r)' /\ SameRequest(doc, r)'
  PROVE  BillingInv'
<1>1. PICK next : next = [Waiting(r) EXCEPT !.pc = "done", !.outcome = outcome, !.doc = doc]
  OBVIOUS
<1>2. req' = [req EXCEPT ![q] = next]
  BY <1>1 DEF Answer
<1>3. IsFresh(next, r, "done") /\ next.outcome = outcome /\ next.doc = doc
  BY <1>1 DEF Waiting, ReqColumns, IsFresh
<1>4. Told(next)'
  BY <1>3 DEF IsFresh, Told
<1>5. r \in Requests
  BY DEF BillingInv, Right, AtPlace
<1>6. Right(next)'
  BY <1>3, <1>4, <1>5, AnsweredRight
<1> QED BY <1>2, <1>3, <1>6, OneMoves DEF IsFresh, OwnEntry

\* An answer that leaves the books alone: a refusal, a failure or a replay.
LEMMA IsRefused ==
  ASSUME BillingInv, UNCHANGED books, NEW q \in Req, NEW outcome, NEW doc, Answer(q, outcome, doc),
         \/ outcome \notin {"ok", "replayed"}
         \/ req[q].r.kind \notin {"sale", "return", "repay"}
         \/ doc \in Known(req[q].r) /\ SameRequest(doc, req[q].r)
  PROVE  BillingInv'
<1>1. PICK r : r = req[q].r
  OBVIOUS
<1>2. BooksShaped' /\ Untouched({})
  BY BooksStay DEF BillingInv
<1>3. Known(r)' = Known(r) /\ (SameRequest(doc, r) => SameRequest(doc, r)')
  BY DEF books, Known, Payment, Holder, SameRequest, SamePayment
<1> QED BY <1>1, <1>2, <1>3, IsAnswered

LEMMA KnownAnswered ==
  ASSUME BillingInv, UNCHANGED books, NEW q \in Req, AnswerKnown(q)
  PROVE  BillingInv'
<1>1. PICK d \in Known(req[q].r) :
        IF SameRequest(d, req[q].r) THEN Answer(q, "replayed", d) ELSE Reject(q)
  BY DEF AnswerKnown
<1>2. CASE SameRequest(d, req[q].r)
  BY <1>1, <1>2, IsRefused
<1>3. CASE ~SameRequest(d, req[q].r)
  <2>1. Answer(q, "rejected", 0)
    BY <1>1, <1>3 DEF Reject
  <2> QED BY <2>1, IsRefused
<1> QED BY <1>2, <1>3

LEMMA IsRejected ==
  ASSUME BillingInv, UNCHANGED books, NEW q \in Req, Reject(q)
  PROVE  BillingInv'
<1>1. Answer(q, "rejected", 0)
  BY DEF Reject
<1> QED BY <1>1, IsRefused

\* The steps before the commit, each with the answer it may give instead.
LEMMA RequestKnown ==
  ASSUME BillingInv, NEW q \in Req
  PROVE  /\ Right(req[q]) /\ DOMAIN req[q] = ReqColumns /\ req[q].r \in Requests
         /\ AtPlace(req[q]) /\ BooksShaped /\ ShiftsShaped /\ OwnEntry(q, req[q])
  BY DEF BillingInv, Right, AtPlace, BooksShaped

\* Where nothing is locked nothing has to be waited for.
LEMMA NothingNeeded ==
  ASSUME NEW q \in Req, Needs(req[q]) = {}
  PROVE  Granted(q)
  BY DEF Granted, WaitsFor

LEMMA PassesCheck ==
  ASSUME BillingInv, NEW q \in Req, req[q].pc \in {"replay", "stock"}, Granted(q),
         Go(q, req[q]), UNCHANGED books,
         req[q].pc = "stock" /\ req[q].r.amount > 0 => req[q].r.customer # NoCustomer
  PROVE  BillingInv'
<1>1. PICK me, next : me = req[q] /\ next = [me EXCEPT !.pc = StepAfter(me.r.kind, me.pc)]
  OBVIOUS
<1>2. Right(me) /\ DOMAIN me = ReqColumns
  BY <1>1, RequestKnown
<1>3. SameBut(me, next, {"pc"}) /\ next.pc = StepAfter(me.r.kind, me.pc) /\ next.held = me.held
  BY <1>1, <1>2 DEF SameBut, ReqColumns
<1>4. Right(next)
  BY <1>1, <1>2, <1>3, ChecksPassed
<1> QED BY <1>1, <1>3, <1>4, GoesOn DEF Go, PlaceRank

LEMMA CheckStep ==
  ASSUME BillingInv, NEW q \in Req, CheckReplay(q) \/ CheckStock(q)
  PROVE  BillingInv'
<1>1. /\ UNCHANGED books /\ req[q].pc \in {"replay", "stock"}
      /\ \/ AnswerKnown(q) \/ Reject(q)
         \/ /\ Go(q, req[q])
            /\ req[q].pc = "stock" /\ req[q].r.amount > 0 => req[q].r.customer # NoCustomer
  BY DEF CheckReplay, CheckStock
<1>2. Granted(q)
  BY <1>1, LocksOfPlaces, NothingNeeded
<1> QED BY <1>1, <1>2, KnownAnswered, IsRejected, PassesCheck

LEMMA LockOriginalStep ==
  ASSUME BillingInv, NEW q \in Req, LockOriginal(q)
  PROVE  BillingInv'
<1>1. CASE req[q].r.kind = "cancel" /\ Answer(q, "replayed", req[q].r.invoice)
  BY <1>1, IsRefused DEF LockOriginal
<1>2. CASE Reject(q)
  BY <1>2, IsRejected DEF LockOriginal
<1>3. CASE /\ IF req[q].r.kind = "cancel" THEN MayCancel(req[q].r.invoice) ELSE MayReturn(req[q].r)
           /\ Go(q, Locked(req[q]))
  <2>1. PICK me, next : /\ me = req[q]
                        /\ next = [Locked(me) EXCEPT !.pc = StepAfter(Locked(me).r.kind, Locked(me).pc)]
    OBVIOUS
  <2>2. Right(me) /\ DOMAIN me = ReqColumns /\ me.pc = "original"
    BY <2>1, RequestKnown DEF LockOriginal
  <2>3. /\ SameBut(me, next, {"pc", "held"}) /\ next.pc = StepAfter(me.r.kind, me.pc)
        /\ next.held = me.held \cup Needs(me)
    BY <2>1, <2>2 DEF SameBut, ReqColumns, Locked
  <2>4. Right(next)
    BY <1>3, <2>1, <2>2, <2>3, OriginalLocked
  <2> QED BY <1>3, <2>1, <2>3, <2>4, GoesOn DEF Go, LockOriginal, PlaceRank
<1> QED BY <1>1, <1>2, <1>3 DEF LockOriginal

LEMMA PeekShiftStep ==
  ASSUME BillingInv, NEW q \in Req, PeekShift(q)
  PROVE  BillingInv'
<1>1. PICK me, s : me = req[q] /\ s = invoices[req[q].r.invoice].shift
  OBVIOUS
<1>2. PICK seen : seen = IF MayUseShift(me.r.actor, s) THEN s ELSE 0
  OBVIOUS
<1>3. PICK next : next = [[me EXCEPT !.seen = seen] EXCEPT
                            !.pc = StepAfter([me EXCEPT !.seen = seen].r.kind, [me EXCEPT !.seen = seen].pc)]
  OBVIOUS
<1>4. Right(me) /\ DOMAIN me = ReqColumns /\ me.pc = "peek" /\ ShiftsShaped
  BY <1>1, RequestKnown DEF PeekShift
<1>5. /\ SameBut(me, next, {"pc", "seen"}) /\ next.pc = StepAfter(me.r.kind, me.pc)
      /\ next.seen = seen /\ next.held = me.held
  BY <1>3, <1>4 DEF SameBut, ReqColumns
<1>6. Right(next)
  BY <1>1, <1>2, <1>4, <1>5, ShiftPeeked
<1>7. Granted(q)
  BY <1>1, <1>4, LocksOfPlaces, NothingNeeded
<1>8. req' = [req EXCEPT ![q] = next]
  BY <1>1, <1>2, <1>3 DEF PeekShift, Go
<1> QED BY <1>1, <1>5, <1>6, <1>7, <1>8, GoesOn DEF PeekShift, PlaceRank

LEMMA LockShiftStep ==
  ASSUME BillingInv, NEW q \in Req, LockShift(q)
  PROVE  BillingInv'
<1>1. CASE Reject(q)
  BY <1>1, IsRejected DEF LockShift
<1>2. CASE /\ req[q].r.kind = "sale" => ShiftAllowed(req[q].r)
           /\ req[q].r.kind = "close" => ClosesShift(req[q].r)
           /\ Go(q, [Locked(req[q]) EXCEPT !.shift = WantedShift(req[q])])
  <2>1. PICK me, mine : me = req[q] /\ mine = [Locked(me) EXCEPT !.shift = WantedShift(me)]
    OBVIOUS
  <2>2. PICK next : next = [mine EXCEPT !.pc = StepAfter(mine.r.kind, mine.pc)]
    OBVIOUS
  <2>3. Right(me) /\ DOMAIN me = ReqColumns /\ me.pc = "shift" /\ ShiftsShaped
    BY <2>1, RequestKnown DEF LockShift
  <2>4. /\ SameBut(me, next, {"pc", "held", "shift"}) /\ next.pc = StepAfter(me.r.kind, me.pc)
        /\ next.held = me.held \cup Needs(me) /\ next.shift = WantedShift(me)
    BY <2>1, <2>2, <2>3 DEF SameBut, ReqColumns, Locked
  <2>5. Right(next)
    BY <1>2, <2>1, <2>3, <2>4, ShiftLocked
  <2>6. req' = [req EXCEPT ![q] = next]
    BY <1>2, <2>1, <2>2 DEF Go
  <2> QED BY <2>1, <2>4, <2>5, <2>6, GoesOn DEF LockShift, PlaceRank
<1> QED BY <1>1, <1>2 DEF LockShift

LEMMA LockCustomerStep ==
  ASSUME BillingInv, NEW q \in Req, LockCustomer(q)
  PROVE  BillingInv'
<1>1. CASE Reject(q)
  BY <1>1, IsRejected DEF LockCustomer
<1>2. CASE SameOpening(req[q].r) /\ Answer(q, "replayed", 0)
  BY <1>2, IsRefused DEF LockCustomer, SameOpening
<1>3. CASE ~Reject(q) /\ ~(SameOpening(req[q].r) /\ Answer(q, "replayed", 0))
  <2>1. PICK me, balance : me = req[q] /\ balance = BalanceOf(CustomerOf(me.r))
    OBVIOUS
  <2>2. PICK mine : mine = [Locked(me) EXCEPT !.balance = balance]
    OBVIOUS
  <2>3. PICK next : next = [mine EXCEPT !.pc = StepAfter(mine.r.kind, mine.pc)]
    OBVIOUS
  <2>4. Right(me) /\ DOMAIN me = ReqColumns /\ me.pc = "customer"
    BY <2>1, RequestKnown DEF LockCustomer
  <2>5. CustomerAllows(me, balance) /\ Go(q, mine)
    BY <1>3, <2>1, <2>2 DEF LockCustomer, BalanceOf
  <2>6. /\ SameBut(me, next, {"pc", "held", "balance"}) /\ next.pc = StepAfter(me.r.kind, me.pc)
        /\ next.held = me.held \cup Needs(me) /\ next.balance = balance
    BY <2>2, <2>3, <2>4 DEF SameBut, ReqColumns, Locked
  <2>7. Right(next)
    BY <2>1, <2>4, <2>5, <2>6, CustomerLocked
  <2>8. req' = [req EXCEPT ![q] = next]
    BY <2>3, <2>5 DEF Go
  <2> QED BY <2>1, <2>6, <2>7, <2>8, GoesOn DEF LockCustomer, PlaceRank
<1> QED BY <1>1, <1>2, <1>3

LEMMA LockNumberStep ==
  ASSUME BillingInv, NEW q \in Req, LockNumber(q)
  PROVE  BillingInv'
<1>1. PICK me, n : me = req[q] /\ n = lastNumber[Series(req[q].r)] + 1
  OBVIOUS
<1>2. PICK mine : mine = [Locked(me) EXCEPT !.number = n]
  OBVIOUS
<1>3. PICK next : next = [mine EXCEPT !.pc = StepAfter(mine.r.kind, mine.pc)]
  OBVIOUS
<1>4. Right(me) /\ DOMAIN me = ReqColumns /\ me.pc = "number"
  BY <1>1, RequestKnown DEF LockNumber
<1>5. /\ SameBut(me, next, {"pc", "held", "number"}) /\ next.pc = StepAfter(me.r.kind, me.pc)
      /\ next.held = me.held \cup Needs(me) /\ next.number = n
  BY <1>2, <1>3, <1>4 DEF SameBut, ReqColumns, Locked
<1>6. Right(next)
  BY <1>1, <1>4, <1>5, NumberLocked
<1>7. req' = [req EXCEPT ![q] = next]
  BY <1>1, <1>2, <1>3 DEF LockNumber, Go
<1> QED BY <1>1, <1>5, <1>6, <1>7, GoesOn DEF LockNumber, PlaceRank

LEMMA LockExpenseStep ==
  ASSUME BillingInv, NEW q \in Req, LockExpense(q)
  PROVE  BillingInv'
<1>1. CASE Reject(q)
  BY <1>1, IsRejected DEF LockExpense
<1>2. CASE ~Reject(q)
  <2>1. PICK me, was : me = req[q] /\ was = expenses[req[q].r.expense]
    OBVIOUS
  <2>2. PICK mine : mine = [Locked(me) EXCEPT !.was = was]
    OBVIOUS
  <2>3. PICK next : next = [mine EXCEPT !.pc = StepAfter(mine.r.kind, mine.pc)]
    OBVIOUS
  <2>4. Right(me) /\ DOMAIN me = ReqColumns /\ me.pc = "expense"
    BY <2>1, RequestKnown DEF LockExpense
  <2>5. me.r.expense \in DOMAIN expenses /\ ~was.deleted /\ Go(q, mine)
    BY <1>2, <2>1, <2>2 DEF LockExpense
  <2>6. /\ SameBut(me, next, {"pc", "held", "was"}) /\ next.pc = StepAfter(me.r.kind, me.pc)
        /\ next.held = me.held \cup Needs(me) /\ next.was = was
    BY <2>2, <2>3, <2>4 DEF SameBut, ReqColumns, Locked
  <2>7. Right(next)
    BY <2>1, <2>4, <2>5, <2>6, ExpenseLocked
  <2>8. req' = [req EXCEPT ![q] = next]
    BY <2>3, <2>5 DEF Go
  <2> QED BY <2>1, <2>6, <2>7, <2>8, GoesOn DEF LockExpense, PlaceRank
<1> QED BY <1>1, <1>2

LEMMA LockPayoutStep ==
  ASSUME BillingInv, NEW q \in Req, LockPayout(q)
  PROVE  BillingInv'
<1>1. PICK me, s : me = req[q] /\ s = PayingShift(req[q].r, req[q].was)
  OBVIOUS
<1>2. PICK mine : mine = [Locked(me) EXCEPT !.shift = s]
  OBVIOUS
<1>3. PICK next : next = [mine EXCEPT !.pc = StepAfter(mine.r.kind, mine.pc)]
  OBVIOUS
<1>4. Right(me) /\ DOMAIN me = ReqColumns /\ me.pc = "payout" /\ ShiftsShaped
  BY <1>1, RequestKnown DEF LockPayout
<1>5. /\ SameBut(me, next, {"pc", "held", "shift"}) /\ next.pc = StepAfter(me.r.kind, me.pc)
      /\ next.held = me.held \cup Needs(me) /\ next.shift = s
  BY <1>2, <1>3, <1>4 DEF SameBut, ReqColumns, Locked
<1>6. Right(next)
  BY <1>1, <1>4, <1>5, PayoutLocked
<1>7. req' = [req EXCEPT ![q] = next]
  BY <1>1, <1>2, <1>3 DEF LockPayout, Go
<1> QED BY <1>1, <1>5, <1>6, <1>7, GoesOn DEF LockPayout, PlaceRank

\* An opening that moves along its path holds nothing but entries of the indexes.
LEMMA OpenGoesOn ==
  ASSUME BillingInv, UNCHANGED books, NEW q \in Req, req[q].r.kind = "open",
         NEW pc \in {"row", "insert", "token", "commit"}, NEW held, MovesTo(q, pc, held),
         \A x \in held : x[1] \in {"status", "token", "entry"} /\ (x[1] = "entry" => x[2] = q),
         \A o \in Req \ {q} : held \cap req[o].held = {}
  PROVE  BillingInv'
<1>0. PICK me : me = req[q]
  OBVIOUS
<1>1. PICK next : next = [me EXCEPT !.pc = pc, !.held = held]
  OBVIOUS
<1>2. Right(me) /\ DOMAIN me = ReqColumns /\ AtPlace(me) /\ me.r.kind = "open"
  BY <1>0, RequestKnown
<1>3. /\ DOMAIN next = ReqColumns /\ next.pc = pc /\ next.held = held /\ next.r = me.r
      /\ next.seen = me.seen /\ next.was = me.was /\ next.outcome = me.outcome /\ next.doc = me.doc
  BY <1>1, <1>2 DEF ReqColumns
<1>4. AtPlace(next)
  BY <1>2, <1>3, DrawerSteps DEF AtPlace, CreditNamed
<1>5. OriginalHeld(next) /\ SeenDrawer(next) /\ DrawerHeld(next) /\ CustomerHeld(next)
  BY <1>2, <1>3 DEF Right, OriginalHeld, SeenDrawer, DrawerHeld, CustomerHeld, IsReversal
<1>6. NumberHeld(next) /\ ExpenseHeld(next) /\ PayoutHeld(next) /\ Told(next)
  BY <1>2, <1>3 DEF Right, NumberHeld, ExpenseHeld, PayoutHeld, Told, IsEdit
<1>7. HeldBelow(next)
  BY <1>3 DEF HeldBelow, LockRank, PlaceRank
<1>8. Right(next)
  BY <1>4, <1>5, <1>6, <1>7 DEF Right
<1>9. BooksShaped' /\ Untouched({})
  BY BooksStay DEF BillingInv
<1>10. Right(next)'
  BY <1>8, <1>9, RightKept DEF BillingInv
<1>11. req' = [req EXCEPT ![q] = next]
  BY <1>0, <1>1 DEF MovesTo
<1>12. OwnEntry(q, next)
  BY <1>3 DEF OwnEntry
<1> QED BY <1>3, <1>9, <1>10, <1>11, <1>12, OneMoves

LEMMA CheckOpenStep ==
  ASSUME BillingInv, NEW q \in Req, CheckOpen(q)
  PROVE  BillingInv'
<1>1. req[q].r.kind = "open" /\ UNCHANGED books
  BY RequestKnown, PlacesKnown DEF CheckOpen
<1>0. PICK a : a = req[q].r.actor
  OBVIOUS
<1>2. PICK index \in Index : /\ Free(q, ReadLocks(index, a))
                            /\ \/ MovesTo(q, "insert", {})
                               \/ MovesTo(q, "row", {<<index, a>>})
  BY <1>0 DEF CheckOpen
<1>3. \A o \in Req \ {q} : {<<index, a>>} \cap req[o].held = {}
  BY <1>2 DEF Free, ReadLocks
<1>4. CASE MovesTo(q, "insert", {})
  BY <1>1, <1>4, OpenGoesOn
<1>5. CASE MovesTo(q, "row", {<<index, a>>})
  <2>1. \A x \in {<<index, a>>} : x[1] \in {"status", "token"}
    BY DEF Index
  <2> QED BY <1>1, <1>3, <1>5, <2>1, OpenGoesOn
<1> QED BY <1>2, <1>4, <1>5

LEMMA CheckRowStep ==
  ASSUME BillingInv, NEW q \in Req, CheckRow(q)
  PROVE  BillingInv'
<1>1. req[q].r.kind = "open" /\ UNCHANGED books
  BY RequestKnown, PlacesKnown DEF CheckRow
<1>2. CASE MovesTo(q, "insert", {})
  BY <1>1, <1>2, OpenGoesOn
<1> QED BY <1>1, <1>2, IsRejected DEF CheckRow

LEMMA InsertShiftStep ==
  ASSUME BillingInv, NEW q \in Req, InsertShift(q)
  PROVE  BillingInv'
<1>1. req[q].r.kind = "open" /\ UNCHANGED books /\ MovesTo(q, "token", {<<"entry", q>>})
  BY RequestKnown, PlacesKnown DEF InsertShift
<1>2. \A o \in Req \ {q} : {<<"entry", q>>} \cap req[o].held = {}
  BY RequestKnown DEF OwnEntry
<1> QED BY <1>1, <1>2, OpenGoesOn

LEMMA InsertTokenStep ==
  ASSUME BillingInv, NEW q \in Req, InsertToken(q)
  PROVE  BillingInv'
<1>1. PICK me, a : me = req[q] /\ a = req[q].r.actor
  OBVIOUS
<1>2. /\ me.r.kind = "open" /\ me.pc = "token" /\ UNCHANGED books
      /\ MovesTo(q, "commit", me.held \cup {<<"token", a>>})
  BY <1>1, RequestKnown, PlacesKnown DEF InsertToken
<1>3. <<"token", a>> \in Needs(me)
  BY <1>1, <1>2, LocksOfPlaces DEF ReadLocks
<1>4. \A o \in Req \ {q} : (me.held \cup {<<"token", a>>}) \cap req[o].held = {}
  BY <1>1, <1>3 DEF InsertToken, Granted, WaitsFor, BillingInv, HeldApart
<1>5. \A x \in me.held : x[1] \in {"status", "token", "entry"} /\ (x[1] = "entry" => x[2] = q)
  <2>1. HeldBelow(me) /\ OwnEntry(q, me)
    BY <1>1, RequestKnown DEF Right
  <2>2. \A k \in DOMAIN LockRank : LockRank[k] < 1 => k \in {"status", "token", "entry"}
    BY DEF LockRank
  <2>3. PlaceRank["token"] = 1
    BY DEF PlaceRank
  <2> QED BY <1>2, <2>1, <2>2, <2>3 DEF HeldBelow, OwnEntry
<1> QED BY <1>1, <1>2, <1>4, <1>5, OpenGoesOn

\* A new document is the last, and the one its request is told of.
LEMMA DocumentTold ==
  ASSUME InvoicesShaped, NEW r, NEW type, NEW original, NEW s, NEW c, r.kind # "repay",
         NewDocument(r, type, original, s, c), NEW doc, doc = Len(invoices')
  PROVE  doc \in Known(r)' /\ SameRequest(doc, r)'
<1>1. /\ DOMAIN invoices' = 1 .. Len(invoices') /\ Len(invoices') \in Nat
      /\ DOMAIN invoices = 1 .. Len(invoices) /\ Len(invoices) \in Nat
      /\ DOMAIN invoices' = DOMAIN invoices \cup {Len(invoices) + 1}
  BY DEF NewDocument, InvoicesShaped, IsRows
<1>2. doc = Len(invoices) + 1
  <2>1. Len(invoices) + 1 \in 1 .. Len(invoices')
    BY <1>1
  <2>2. Len(invoices') \in 1 .. Len(invoices')
    BY <1>1, <2>1
  <2>3. Len(invoices') \in 1 .. Len(invoices) \/ Len(invoices') = Len(invoices) + 1
    <3>1. Len(invoices') \in DOMAIN invoices'
      BY Zenon, <1>1, <2>2
    <3> QED BY Zenon, <1>1, <3>1
  <2> QED BY <1>1, <2>1, <2>3
<1>3. doc \in DOMAIN invoices' /\ invoices'[doc].key = r.key /\ invoices'[doc].bill = Bill(r)
  BY <1>1, <1>2 DEF NewDocument
<1> QED BY <1>3 DEF Known, SameRequest, Holder

\* So is the row of a repayment.
LEMMA PaymentTold ==
  ASSUME BooksShaped, NEW r \in Request, r.kind = "repay", NEW s,
         BookRepayment(r, s, BalanceOf(r.customer)), NEW doc, doc = Len(udhar')
  PROVE  doc \in Known(r)' /\ SameRequest(doc, r)'
<1>1. PICK row : /\ udhar' = Append(udhar, row)
                 /\ row.type = "PAYMENT" /\ row.key = r.key /\ row.customer = r.customer
                 /\ row.amount = r.amount /\ row.tender = r.tender
  BY RepaymentMovesBalance DEF MovesBalance
<1>2. doc \in DOMAIN udhar' /\ udhar'[doc] = row
  BY <1>1, AppendRow DEF BooksShaped, CustomersShaped
<1> QED BY <1>1, <1>2 DEF Known, SameRequest, Payment, SamePayment

\* Each commit keeps the invariant, and is a flow of the serial books.
LEMMA CommitSaleStep ==
  ASSUME BillingInv, NEW q \in Req, CommitSale(q)
  PROVE  BillingInv' /\ SerialNext
<1>1. PICK me, doc : me = req[q] /\ doc = Len(invoices')
  OBVIOUS
<1>2. /\ Right(me) /\ me.r \in Requests /\ me.r \in Request /\ BooksShaped
      /\ me.pc = "commit" /\ me.r.kind = "sale"
      /\ Known(me.r) = {} /\ BookSale(me.r, me.shift, me.balance, me.number)
  BY <1>1, RequestKnown, RequestsAssumption DEF CommitSale, AtCommit
<1>3. Sale(me.r) /\ Untouched(me.held)
  BY <1>2, SaleServed
<1>4. Serve(me.r) /\ BooksShaped'
  BY <1>2, <1>3, ServeShaped DEF Serve
<1>5. doc \in Known(me.r)' /\ SameRequest(doc, me.r)'
  BY <1>1, <1>2, SaleDocuments, DocumentTold DEF BooksShaped
<1>6. BillingInv'
  <2>1. Answer(q, "ok", doc)
    BY <1>1 DEF CommitSale
  <2>2. PICK r, h : r = req[q].r /\ h = req[q].held
    OBVIOUS
  <2> QED BY <1>1, <1>3, <1>4, <1>5, <2>1, <2>2, IsAnswered
<1> QED BY <1>2, <1>4, <1>6 DEF SerialNext

LEMMA CommitReturnStep ==
  ASSUME BillingInv, NEW q \in Req, CommitReturn(q)
  PROVE  BillingInv' /\ SerialNext
<1>1. PICK me, doc : me = req[q] /\ doc = Len(invoices')
  OBVIOUS
<1>2. /\ Right(me) /\ me.r \in Requests /\ BooksShaped
      /\ me.pc = "commit" /\ me.r.kind = "return"
      /\ Known(me.r) = {} /\ BookReturn(me.r, me.shift, me.balance, me.number)
  BY <1>1, RequestKnown DEF CommitReturn, AtCommit
<1>3. Return(me.r) /\ Untouched(me.held) /\ me.r.invoice \in DOMAIN invoices
  BY <1>2, ReturnServed
<1>4. Serve(me.r) /\ BooksShaped'
  BY <1>2, <1>3, ServeShaped DEF Serve
<1>5. doc \in Known(me.r)' /\ SameRequest(doc, me.r)'
  BY <1>1, <1>2, <1>3, ReturnDocuments, DocumentTold DEF BooksShaped
<1>6. BillingInv'
  <2>1. Answer(q, "ok", doc)
    BY <1>1 DEF CommitReturn
  <2>2. PICK r, h : r = req[q].r /\ h = req[q].held
    OBVIOUS
  <2> QED BY <1>1, <1>3, <1>4, <1>5, <2>1, <2>2, IsAnswered
<1> QED BY <1>2, <1>4, <1>6 DEF SerialNext

LEMMA CommitRepaymentStep ==
  ASSUME BillingInv, NEW q \in Req, CommitRepayment(q)
  PROVE  BillingInv' /\ SerialNext
<1>1. PICK me, doc : me = req[q] /\ doc = Len(udhar')
  OBVIOUS
<1>2. /\ Right(me) /\ me.r \in Requests /\ me.r \in Request /\ BooksShaped
      /\ me.pc = "commit" /\ me.r.kind = "repay"
      /\ Known(me.r) = {} /\ BookRepayment(me.r, me.shift, me.balance)
  BY <1>1, RequestKnown, RequestsAssumption DEF CommitRepayment, AtCommit
<1>3. Repay(me.r) /\ Untouched(me.held)
  BY <1>2, RepaymentServed
<1>4. Serve(me.r) /\ BooksShaped'
  BY <1>2, <1>3, ServeShaped DEF Serve
<1>5. doc \in Known(me.r)' /\ SameRequest(doc, me.r)'
  <2>1. me.balance = BalanceOf(me.r.customer)
    BY <1>2 DEF Right, CustomerHeld, CustomerOf
  <2> QED BY <1>1, <1>2, <2>1, PaymentTold
<1>6. BillingInv'
  <2>1. Answer(q, "ok", doc)
    BY <1>1 DEF CommitRepayment
  <2>2. PICK r, h : r = req[q].r /\ h = req[q].held
    OBVIOUS
  <2> QED BY <1>1, <1>3, <1>4, <1>5, <2>1, <2>2, IsAnswered
<1> QED BY <1>2, <1>4, <1>6 DEF SerialNext

\* The commits whose answers name no document of a key.
LEMMA PlainCommitStep ==
  ASSUME BillingInv, NEW q \in Req,
         \/ CommitCancel(q) \/ CommitOpening(q) \/ CommitCloseShift(q) \/ CommitDelete(q)
         \/ CommitExpense(q) \/ (CommitOpenShift(q) /\ OpenShifts(req[q].r.actor) = {})
  PROVE  BillingInv' /\ SerialNext
<1>1. PICK me : me = req[q]
  OBVIOUS
<1>2. Right(me) /\ me.r \in Requests /\ BooksShaped
  BY <1>1, RequestKnown
<1>3. Serve(me.r) /\ Untouched(me.held)
  <2>1. CASE CommitCancel(q)
    BY <1>1, <1>2, <2>1, CancelServed DEF CommitCancel, AtCommit, Serve
  <2>2. CASE CommitOpening(q)
    BY <1>1, <1>2, <2>2, OpeningServed DEF CommitOpening, AtCommit, Serve
  <2>3. CASE CommitCloseShift(q)
    BY <1>1, <1>2, <2>3, CloseShiftServed DEF CommitCloseShift, AtCommit, Serve
  <2>4. CASE CommitDelete(q)
    BY <1>1, <1>2, <2>4, DeleteServed DEF CommitDelete, AtCommit, Serve
  <2>5. CASE CommitExpense(q)
    BY <1>1, <1>2, <2>5, ExpenseServed DEF CommitExpense, IsEdit, Serve
  <2>6. CASE CommitOpenShift(q) /\ OpenShifts(me.r.actor) = {}
    <3>1. BookOpenShift(me.r) /\ me.r.kind = "open"
      BY <1>1, <2>6 DEF CommitOpenShift, AtCommit
    <3>2. OpenShift(me.r)
      BY <2>6, <3>1 DEF OpenShift
    <3> QED BY <1>2, <3>1, <3>2, OpenShiftTouches DEF Serve
  <2> QED BY <1>1, <2>1, <2>2, <2>3, <2>4, <2>5, <2>6
<1>4. BooksShaped'
  BY <1>2, <1>3, ServeShaped
<1>5. /\ me.r.kind \notin {"sale", "return", "repay"}
      /\ \E outcome, doc : Answer(q, outcome, doc)
  <2>1. CASE CommitCancel(q)
    BY <1>1, <2>1 DEF CommitCancel, AtCommit
  <2>2. CASE CommitOpening(q)
    BY <1>1, <2>2 DEF CommitOpening, AtCommit
  <2>3. CASE CommitCloseShift(q)
    BY <1>1, <2>3 DEF CommitCloseShift, AtCommit
  <2>4. CASE CommitDelete(q)
    BY <1>1, <2>4 DEF CommitDelete, AtCommit
  <2>5. CASE CommitExpense(q)
    BY <1>1, <2>5 DEF CommitExpense
  <2>6. CASE CommitOpenShift(q) /\ OpenShifts(me.r.actor) = {}
    BY <1>1, <2>6 DEF CommitOpenShift, AtCommit
  <2> QED BY <1>1, <2>1, <2>2, <2>3, <2>4, <2>5, <2>6
<1>6. BillingInv'
  <2>1. PICK outcome, doc : Answer(q, outcome, doc)
    BY <1>5
  <2>2. PICK r, h : r = req[q].r /\ h = req[q].held
    OBVIOUS
  <2> QED BY <1>1, <1>3, <1>4, <1>5, <2>1, <2>2, IsAnswered
<1> QED BY <1>2, <1>3, <1>6 DEF SerialNext

\* A step that fails, is refused, or is run again leaves the books alone.
LEMMA RefusedStep ==
  ASSUME BillingInv, NEW q \in Req,
         LoseKeyRace(q) \/ SaleOutOfStock(q) \/ Fail(q)
           \/ (CommitOpenShift(q) /\ OpenShifts(req[q].r.actor) # {})
  PROVE  BillingInv' /\ UNCHANGED books
<1>1. CASE LoseKeyRace(q)
  BY <1>1, KnownAnswered DEF LoseKeyRace
<1>2. CASE SaleOutOfStock(q)
  BY <1>2, IsRejected DEF SaleOutOfStock
<1>3. CASE Fail(q)
  <2>1. Answer(q, "failed", 0) /\ UNCHANGED books
    BY <1>3 DEF Fail
  <2> QED BY <2>1, IsRefused
<1>4. CASE CommitOpenShift(q) /\ OpenShifts(req[q].r.actor) # {}
  BY <1>4, IsRejected DEF CommitOpenShift
<1> QED BY <1>1, <1>2, <1>3, <1>4

\* A bill is in its transaction once it went past the checks before it.
LEMMA InTxSale ==
  ASSUME NEW me, AtPlace(me), me.r.kind = "sale", InTx(me)
  PROVE  me.pc \in {"shift", "customer", "number", "commit"}
<1> DEFINE at(pc) == CHOOSE i \in DOMAIN Path("sale") : Path("sale")[i] = pc
<1>1. at("replay") = 1 /\ at("stock") = 2 /\ at("shift") = 3
  BY Paths
<1>2. me.pc # "done" /\ at(me.pc) >= at("shift")
  BY DEF InTx, TxStart
<1>3. me.pc \in {"done", "replay", "stock", "shift", "customer", "number", "commit"}
  BY SaleSteps DEF AtPlace
<1> HIDE DEF at
<1> QED BY <1>1, <1>2, <1>3

LEMMA RunAgainStep ==
  ASSUME BillingInv, NEW q \in Req, MayRunAgain(req[q]), RunAgain(q)
  PROVE  BillingInv' /\ UNCHANGED books
<1>1. PICK r, pc, attempt : r = req[q].r /\ pc = TxStart(req[q].r.kind) /\ attempt = req[q].attempt + 1
  OBVIOUS
<1>2. PICK next : next = [Waiting(r) EXCEPT !.pc = pc, !.attempt = attempt]
  OBVIOUS
<1>3. req' = [req EXCEPT ![q] = next] /\ UNCHANGED books /\ pc # "none"
  BY <1>1, <1>2 DEF RunAgain, MayRunAgain, InTx
<1>4. IsFresh(next, r, pc) /\ next.outcome = "none"
  BY <1>2 DEF IsFresh, Waiting, ReqColumns
<1>5. r \in Requests /\ pc \in {Path(r.kind)[1], TxStart(r.kind)} \ {"none"}
  BY <1>1, <1>3, RequestKnown
<1>6. BooksShaped' /\ Untouched({})
  BY <1>3, BooksStay DEF BillingInv
<1>7. Right(next)
  <2>1. r.kind = "sale" /\ r.amount > 0 => r.customer # NoCustomer
    BY <1>1, RequestKnown, InTxSale DEF MayRunAgain, AtPlace, CreditNamed
  <2> QED BY <1>4, <1>5, <2>1, FreshRight
<1>8. Right(next)'
  BY <1>4, <1>6, <1>7, RightKept DEF BillingInv, IsFresh
<1> QED BY <1>3, <1>4, <1>6, <1>8, OneMoves DEF IsFresh, OwnEntry

LEMMA RetryStep ==
  ASSUME BillingInv, NEW q \in Req, Retry(q) \/ Victim(q)
  PROVE  BillingInv' /\ UNCHANGED books
<1>1. CASE Retry(q)
  BY <1>1, RunAgainStep DEF Retry
<1>2. CASE Victim(q) /\ MayRunAgain(req[q])
  BY <1>2, RunAgainStep DEF Victim
<1>3. CASE Victim(q) /\ ~MayRunAgain(req[q])
  BY <1>3, IsRefused DEF Victim
<1> QED BY <1>1, <1>2, <1>3

\* Each step keeps the invariant, and is a flow of the serial books or leaves them alone.
LEMMA ReadingStep ==
  ASSUME BillingInv, NEW q \in Req,
         \/ CheckReplay(q) \/ CheckStock(q) \/ LockOriginal(q) \/ PeekShift(q)
         \/ LockShift(q) \/ LockCustomer(q) \/ LockNumber(q) \/ LockExpense(q) \/ LockPayout(q)
         \/ CheckOpen(q) \/ CheckRow(q) \/ InsertShift(q) \/ InsertToken(q)
  PROVE  BillingInv' /\ UNCHANGED books
<1>1. CASE CheckReplay(q) \/ CheckStock(q)
  BY <1>1, CheckStep DEF CheckReplay, CheckStock
<1>2. CASE LockOriginal(q)
  BY <1>2, LockOriginalStep DEF LockOriginal
<1>3. CASE PeekShift(q)
  BY <1>3, PeekShiftStep DEF PeekShift
<1>4. CASE LockShift(q)
  BY <1>4, LockShiftStep DEF LockShift
<1>5. CASE LockCustomer(q)
  BY <1>5, LockCustomerStep DEF LockCustomer
<1>6. CASE LockNumber(q)
  BY <1>6, LockNumberStep DEF LockNumber
<1>7. CASE LockExpense(q)
  BY <1>7, LockExpenseStep DEF LockExpense
<1>8. CASE LockPayout(q)
  BY <1>8, LockPayoutStep DEF LockPayout
<1>9. CASE CheckOpen(q) \/ CheckRow(q)
  BY <1>9, CheckOpenStep, CheckRowStep DEF CheckOpen, CheckRow
<1>10. CASE InsertShift(q) \/ InsertToken(q)
  BY <1>10, InsertShiftStep, InsertTokenStep DEF InsertShift, InsertToken
<1> QED BY <1>1, <1>2, <1>3, <1>4, <1>5, <1>6, <1>7, <1>8, <1>9, <1>10

LEMMA BillingStep ==
  ASSUME BillingInv, [Next]_vars
  PROVE  BillingInv' /\ [SerialNext]_books
<1>1. CASE UNCHANGED vars
  <2>1. UNCHANGED books /\ req' = req
    BY <1>1 DEF vars
  <2>2. BooksShaped' /\ Untouched({})
    BY <2>1, BooksStay DEF BillingInv
  <2>3. ASSUME NEW o \in Req
        PROVE  Right(req[o])' /\ OwnEntry(o, req[o])'
    <3>1. PICK me : me = req[o]
      OBVIOUS
    <3>2. Right(me)' /\ OwnEntry(o, me)
      BY <2>2, <3>1, RightKept DEF BillingInv
    <3> QED BY <2>1, <3>1, <3>2 DEF OwnEntry
  <2>4. HeldApart' /\ (req = [q \in Req |-> req[q]])'
    BY <2>1 DEF BillingInv, HeldApart
  <2> QED BY <2>1, <2>2, <2>3, <2>4 DEF BillingInv
<1>2. ASSUME NEW q \in Req, Step(q) \/ Retry(q) \/ Victim(q) \/ Fail(q)
      PROVE  BillingInv' /\ [SerialNext]_books
  <2>1. CASE \/ CheckReplay(q) \/ CheckStock(q) \/ LockOriginal(q) \/ PeekShift(q)
             \/ LockShift(q) \/ LockCustomer(q) \/ LockNumber(q) \/ LockExpense(q) \/ LockPayout(q)
             \/ CheckOpen(q) \/ CheckRow(q) \/ InsertShift(q) \/ InsertToken(q)
    BY <2>1, ReadingStep
  <2>2. CASE CommitSale(q)
    BY <2>2, CommitSaleStep
  <2>3. CASE CommitReturn(q)
    BY <2>3, CommitReturnStep
  <2>4. CASE CommitRepayment(q)
    BY <2>4, CommitRepaymentStep
  <2>5. CASE \/ CommitCancel(q) \/ CommitOpening(q) \/ CommitCloseShift(q) \/ CommitDelete(q)
             \/ CommitExpense(q)
    BY <2>5, PlainCommitStep
  <2>6. CASE CommitOpenShift(q)
    BY <2>6, PlainCommitStep, RefusedStep
  <2>7. CASE LoseKeyRace(q) \/ SaleOutOfStock(q) \/ Fail(q)
    BY <2>7, RefusedStep
  <2>8. CASE Retry(q) \/ Victim(q)
    BY <2>8, RetryStep
  <2> QED BY <1>2, <2>1, <2>2, <2>3, <2>4, <2>5, <2>6, <2>7, <2>8 DEF Step
<1> QED BY <1>1, <1>2 DEF Next

LEMMA BillingInit == Init => BillingInv
<1> SUFFICES ASSUME Init PROVE BillingInv
  OBVIOUS
<1>1. BooksShaped
  BY InitShaped DEF Init
<1>2. PICK mix \in Mixes : req = [q \in Req |-> Waiting(mix[q])]
  BY DEF Init
<1>3. ASSUME NEW q \in Req
      PROVE  Right(req[q]) /\ OwnEntry(q, req[q]) /\ req[q].held = {}
  <2>1. PICK r, me : r = mix[q] /\ me = Waiting(r)
    OBVIOUS
  <2>2. r \in Requests /\ req[q] = me
    BY <1>2, <2>1, MixesAssumption
  <2>3. IsFresh(me, r, Path(r.kind)[1]) /\ me.outcome = "none"
    BY <2>1, WaitingFresh
  <2>4. PICK pc : pc = Path(r.kind)[1]
    OBVIOUS
  <2>5. pc # "none" /\ (r.kind = "sale" => pc # "shift")
    BY <2>2, <2>4, Paths, RequestsAssumption DEF Request, Kind
  <2> QED BY <2>2, <2>3, <2>4, <2>5, FreshRight DEF IsFresh, OwnEntry
<1>4. HeldApart
  BY <1>3 DEF HeldApart
<1> QED BY <1>1, <1>2, <1>3, <1>4 DEF BillingInv

-----------------------------------------------------------------------------
(* What holds of every behaviour *)

(***************************************************************************)
(* Checkouts, reversals, repayments, openings, deletions, drawers and      *)
(* expenses that run at the same time, are rolled back and run again, have *)
(* the effects of flows run one after the other in the order of their      *)
(* commits.                                                                *)
(***************************************************************************)
THEOREM BillingSerializable == Spec => Serializable
<1>1. Init => InitBooks
  BY DEF Init
<1> QED BY <1>1, BillingInit, BillingStep, PTL DEF Spec, Serializable, SerialSpec

\* The invariant holds beside what the serial books keep.
LEMMA BillingSafe == Spec => [](BillingInv /\ DayBooks)
<1>1. Init => BillingInv /\ DayBooks
  BY BillingInit, DayInit DEF Init
<1>2. BillingInv /\ DayBooks /\ [Next]_vars => (BillingInv /\ DayBooks)'
  BY BillingStep, DayStep
<1> QED BY <1>1, <1>2, PTL DEF Spec

(***************************************************************************)
(* One open drawer per cashier, no movement of a balance lost, and nothing *)
(* owed by or to a deleted customer, although every flow looked at the     *)
(* rows before it wrote them.                                              *)
(***************************************************************************)
THEOREM BillingGuardsRows == Spec => []RowsGuarded
<1>1. DayBooks => RowsGuarded
  BY DrawersCounted DEF DayBooks, BooksShaped, RowsGuarded
<1> QED BY <1>1, BillingSafe, PTL

(***************************************************************************)
(* Numbers without a gap, one document per key, and every success told of  *)
(* the document that carries its key and says what it asked for, whatever  *)
(* was rolled back, run again or sent twice.                               *)
(***************************************************************************)
THEOREM BillingNumbersDocuments == Spec => []DocumentsSound
<1>1. BillingInv /\ DayBooks => DocumentsSound
  BY DEF BillingInv, Right, Told, DayBooks, DocumentsSound, OneDocumentPerKey
<1> QED BY <1>1, BillingSafe, PTL

(***************************************************************************)
(* No request writes to a drawer that is closed, also not one that had     *)
(* looked at it while it was open.                                         *)
(***************************************************************************)
THEOREM BillingFreezesDrawers == Spec => ClosedDrawerFrozen
<1> DEFINE Frozen == \A s \in DOMAIN shifts : shifts[s].status = "CLOSED" => shifts'[s] = shifts[s]
<1>1. BillingInv /\ [Next]_vars => [Frozen]_vars
  <2> SUFFICES ASSUME BillingInv, [Next]_vars PROVE Frozen
    OBVIOUS
  <2>1. [SerialNext]_books /\ BooksShaped
    BY BillingStep DEF BillingInv
  <2>2. CASE SerialNext
    BY <2>1, <2>2, ClosedStep DEF SerialNext
  <2>3. CASE UNCHANGED books
    BY <2>3 DEF books
  <2> QED BY <2>1, <2>2, <2>3
<1> QED BY <1>1, BillingSafe, PTL DEF Spec, ClosedDrawerFrozen

\* One of several places comes last.
LEMMA LastPlace ==
  ASSUME NEW R \in SUBSET (0 .. 6), R # {}
  PROVE  \E n \in R : \A m \in R : m <= n
<1> DEFINE beyond(n) == \A m \in R : m <= n
<1>1. beyond(6)
  OBVIOUS
<1>2. \A n \in 1 .. 6 : beyond(n) /\ n \notin R => beyond(n - 1)
  OBVIOUS
<1>3. beyond(0) => 0 \in R
  <2>1. PICK m \in R : m \in 0 .. 6
    OBVIOUS
  <2> QED BY <2>1
<1> HIDE DEF beyond
<1>4. \E n \in 0 .. 6 : n \in R /\ beyond(n)
  BY <1>1, <1>2, <1>3
<1> QED BY <1>4 DEF beyond

(***************************************************************************)
(* Where requests wait for each other's locks in a circle, all of them are *)
(* openings of drawers, whose locking read and whose insert meet the       *)
(* entries of two indexes in any order.  Every other flow waits for a lock *)
(* further along the canonical order, and no opening that waits holds one. *)
(***************************************************************************)
THEOREM BillingDeadlocksOnlyOpens == Spec => []OnlyOpensCircle
<1>1. ASSUME BillingInv, NEW S \in SUBSET Req, Circle(S), NEW p \in S, req[p].r.kind # "open"
      PROVE  FALSE
  <2> DEFINE rank(q) == PlaceRank[req[q].pc]
  <2>1. ASSUME NEW q \in Req
        PROVE  /\ req[q].pc \in DOMAIN PlaceRank /\ HeldBelow(req[q]) /\ AtPlace(req[q])
               /\ req[q].pc \in {"row", "token"} => req[q].r.kind = "open"
    BY <1>1, PlacesKnown DEF BillingInv, Right
  <2>2. \A q \in Req : rank(q) \in 0 .. 6
    <3>1. \A pc \in DOMAIN PlaceRank : PlaceRank[pc] \in 0 .. 6
      BY DEF PlaceRank
    <3> QED BY <2>1, <3>1
  <2>3. ASSUME NEW q \in Req, req[q].r.kind # "open", NEW o \in WaitsFor(q)
        PROVE  rank(q) # 0 /\ rank(q) < rank(o)
    <3>1. PICK x \in Needs(req[q]) : x \in req[o].held /\ o \in Req
      BY <2>3 DEF WaitsFor
    <3>2. LockRank[x[1]] = rank(q) /\ rank(q) # 0
      BY <2>1, <2>3, <3>1, LocksInOrder
    <3>3. LockRank[x[1]] < rank(o)
      BY <2>1, <3>1 DEF HeldBelow
    <3> QED BY <3>2, <3>3
  <2>4. ASSUME NEW o \in S, req[o].r.kind = "open"
        PROVE  rank(o) = 1
    <3>1. PICK me : me = req[o]
      OBVIOUS
    <3>2. Needs(me) # {}
      BY <1>1, <3>1 DEF Circle, WaitsFor
    <3>3. me.pc \in {"done", "check", "row", "insert", "token", "commit"}
      BY <2>1, <2>4, <3>1, DrawerSteps DEF AtPlace
    <3>4. me.pc \in {"row", "token"}
      BY <3>2, <3>3, LocksOfPlaces
    <3> QED BY <3>1, <3>4 DEF PlaceRank
  <2>5. PICK R : R = {rank(q) : q \in {o \in S : req[o].r.kind # "open"}}
    OBVIOUS
  <2>6. R \in SUBSET (0 .. 6) /\ R # {}
    BY <1>1, <2>2, <2>5
  <2>7. PICK n \in R : \A m \in R : m <= n
    BY <2>6, LastPlace
  <2>8. PICK q \in S : req[q].r.kind # "open" /\ rank(q) = n
    BY <2>5, <2>7
  <2>9. PICK o \in S : o \in WaitsFor(q)
    BY <1>1, <2>8 DEF Circle
  <2>10. rank(q) # 0 /\ rank(q) < rank(o) /\ rank(q) \in 0 .. 6 /\ rank(o) \in 0 .. 6
    BY <2>2, <2>3, <2>8, <2>9
  <2>11. CASE req[o].r.kind = "open"
    <3>1. rank(o) = 1
      BY <2>4, <2>11
    <3> QED BY <2>10, <3>1
  <2>12. CASE req[o].r.kind # "open"
    <3>1. rank(o) \in R
      BY <2>5, <2>12
    <3>2. rank(o) <= rank(q)
      BY <2>7, <2>8, <3>1
    <3> QED BY <2>10, <3>2
  <2> QED BY <2>11, <2>12
<1>2. BillingInv => OnlyOpensCircle
  BY <1>1 DEF OnlyOpensCircle
<1> QED BY <1>2, BillingSafe, PTL

-----------------------------------------------------------------------------
(* Values added up *)

LEMMA AddedInt ==
  ASSUME NEW f, IsFiniteSet(DOMAIN f), \A x \in DOMAIN f : f[x] \in Int
  PROVE  Added(f) \in Int
  BY SumInt DEF Added

\* Nothing changes.
LEMMA AddedSame ==
  ASSUME NEW f, NEW g, IsFiniteSet(DOMAIN f), DOMAIN g = DOMAIN f, \A x \in DOMAIN f : g[x] = f[x]
  PROVE  Added(g) = Added(f)
  BY SumAgree DEF Added

\* One value changes.
LEMMA AddedMove ==
  ASSUME NEW f, NEW g, IsFiniteSet(DOMAIN f), DOMAIN g = DOMAIN f, NEW d \in DOMAIN f,
         \A x \in DOMAIN f : f[x] \in Int, g[d] \in Int, \A x \in DOMAIN f : x # d => g[x] = f[x]
  PROVE  Added(g) = Added(f) + (g[d] - f[d]) /\ Added(f) \in Int
<1>1. \A x \in DOMAIN f : f[x] \in Int /\ g[x] \in Int
  OBVIOUS
<1> QED BY <1>1, SumChange, SumInt DEF Added

\* A value more.
LEMMA AddedJoin ==
  ASSUME NEW f, NEW g, IsFiniteSet(DOMAIN f), NEW d, d \notin DOMAIN f, DOMAIN g = DOMAIN f \cup {d},
         \A x \in DOMAIN f : f[x] \in Int, g[d] \in Int, \A x \in DOMAIN f : g[x] = f[x]
  PROVE  Added(g) = Added(f) + g[d] /\ Added(f) \in Int
<1> DEFINE S == DOMAIN f
<1>1. SumFunctionOnSet(f, S) \in Int
  BY SumInt
<1>2. SumFunctionOnSet(g, S) = SumFunctionOnSet(f, S)
  BY SumAgree
<1>3. SumFunctionOnSet(g, S \cup {d}) = g[d] + SumFunctionOnSet(g, S)
  <2>1. \A x \in S \cup {d} : g[x] \in Int
    OBVIOUS
  <2> HIDE DEF S
  <2> QED BY <2>1, SumExtend DEF S
<1> QED BY <1>1, <1>2, <1>3 DEF Added

\* What is added to one drawer among all, or to one bill among all.
At(x, s, d) == IF x = s THEN d ELSE 0

-----------------------------------------------------------------------------
(* What the books hold beside their sums *)

RowsTyped ==
  /\ \A i \in DOMAIN invoices : invoices[i] \in InvoiceType
  /\ \A u \in DOMAIN udhar : udhar[u] \in UdharType
  /\ customers \in [Customer -> [balance : Int, deleted : BOOLEAN]]
  /\ \A s \in DOMAIN shifts : shifts[s] \in ShiftType
  /\ \A e \in DOMAIN expenses : expenses[e] \in ExpenseType
  /\ onHand \in Int /\ ledger \in [Account -> Int]

\* A cancelled bill names the drawer that paid it back, a return the bill it is of.
BillsLinked ==
  \A i \in DOMAIN invoices :
    /\ invoices[i].cancelShift \in {0} \cup DOMAIN shifts
    /\ invoices[i].type = "RETURN" =>
         /\ invoices[i].status = "COMPLETED" /\ invoices[i].qty > 0
         /\ invoices[i].original \in DOMAIN invoices

\* Credit is reversed by returns and by cancellations.
MovementsLinked ==
  \A u \in DOMAIN udhar :
    /\ udhar[u].shift \in {0} \cup DOMAIN shifts
    /\ udhar[u].type = "ADJUSTMENT" =>
         /\ udhar[u].invoice \in DOMAIN invoices
         /\ \/ invoices[udhar[u].invoice].type = "RETURN"
            \/ invoices[udhar[u].invoice].status = "CANCELLED"

\* The postings of an expense hold what it implies.
ExpensesPosted ==
  \A e \in DOMAIN expenses :
    expenses[e].cash = CashOut(expenses[e]) /\ expenses[e].bank = BankOut(expenses[e])

SumsHold == ReceivablesMatch /\ DrawersRebuild /\ ExpensesOnBooks /\ StockMatchesBooks /\ RefundsCapped

-----------------------------------------------------------------------------
(* Finite tables *)

LEMMA RowsFinite ==
  ASSUME NEW t, IsRows(t)
  PROVE  IsFiniteSet(DOMAIN t) /\ 0 \notin DOMAIN t /\ DOMAIN t \subseteq Nat
<1>1. DOMAIN t = 1 .. Len(t) /\ Len(t) \in Nat
  BY DEF IsRows
<1> QED BY <1>1, FS_Interval

-----------------------------------------------------------------------------
(* The credit reversed of a bill, while movements are added *)

\* The rows that reversed credit of bill i.
ReversalsOf(i) == {v \in DOMAIN udhar : udhar[v].type = "ADJUSTMENT" /\ udhar[v].invoice = i}

MovementsTyped == IsRows(udhar) /\ \A u \in DOMAIN udhar : udhar[u] \in UdharType

LEMMA ReversedInt ==
  ASSUME MovementsTyped, NEW i
  PROVE  CreditReversed(i) \in Int
<1> DEFINE f == [u \in ReversalsOf(i) |-> udhar[u].amount]
<1>1. IsFiniteSet(DOMAIN f)
  BY RowsFinite, FS_Subset DEF ReversalsOf, MovementsTyped
<1>2. \A u \in DOMAIN f : f[u] \in Int
  BY DEF ReversalsOf, MovementsTyped, UdharType
<1> HIDE DEF f
<1>3. Added(f) \in Int
  BY <1>1, <1>2, AddedInt
<1> QED BY <1>3 DEF f, CreditReversed, ReversalsOf

\* A movement more: n is its position.
MovementAdded(n, row) ==
  /\ n \notin DOMAIN udhar /\ DOMAIN udhar' = DOMAIN udhar \cup {n}
  /\ udhar'[n] = row /\ \A u \in DOMAIN udhar : udhar'[u] = udhar[u]

LEMMA ReversedMore ==
  ASSUME MovementsTyped, NEW n, NEW row, MovementAdded(n, row), row.amount \in Int, NEW i
  PROVE  CreditReversed(i)' =
           CreditReversed(i) + (IF row.type = "ADJUSTMENT" /\ row.invoice = i THEN row.amount ELSE 0)
<1>1. PICK f : f = [u \in ReversalsOf(i) |-> udhar[u].amount]
  OBVIOUS
<1>2. PICK g : g = [u \in ReversalsOf(i)' |-> udhar'[u].amount]
  OBVIOUS
<1>3. CreditReversed(i) = Added(f) /\ CreditReversed(i)' = Added(g)
  BY <1>1, <1>2 DEF CreditReversed, ReversalsOf
<1>4. IsFiniteSet(DOMAIN f)
  BY <1>1, RowsFinite, FS_Subset DEF ReversalsOf, MovementsTyped
<1>5. \A u \in DOMAIN f : f[u] \in Int
  BY <1>1 DEF ReversalsOf, MovementsTyped, UdharType
<1>6. CASE row.type = "ADJUSTMENT" /\ row.invoice = i
  <2>1. n \notin DOMAIN f /\ DOMAIN g = DOMAIN f \cup {n} /\ g[n] = row.amount
        /\ \A u \in DOMAIN f : g[u] = f[u]
    BY <1>1, <1>2, <1>6 DEF ReversalsOf, MovementAdded
  <2> QED BY <1>3, <1>4, <1>5, <1>6, <2>1, AddedJoin
<1>7. CASE ~(row.type = "ADJUSTMENT" /\ row.invoice = i)
  <2>1. DOMAIN g = DOMAIN f /\ \A u \in DOMAIN f : g[u] = f[u]
    BY <1>1, <1>2, <1>7 DEF ReversalsOf, MovementAdded
  <2>2. Added(f) \in Int
    BY <1>4, <1>5, AddedInt
  <2> QED BY <1>3, <1>4, <1>7, <2>1, <2>2, AddedSame
<1> QED BY <1>6, <1>7

-----------------------------------------------------------------------------
(* What the bills add to the drawers and to the stock *)

BillsTyped == IsRows(invoices) /\ \A i \in DOMAIN invoices : invoices[i] \in InvoiceType

\* What the sums read of a bill, which no flow but its cancellation writes.
TermsKept(i) ==
  /\ invoices'[i].type = invoices[i].type /\ invoices'[i].status = invoices[i].status
  /\ invoices'[i].shift = invoices[i].shift /\ invoices'[i].cancelShift = invoices[i].cancelShift
  /\ invoices'[i].qty = invoices[i].qty /\ invoices'[i].total = invoices[i].total
  /\ invoices'[i].cash = invoices[i].cash /\ invoices'[i].udhar = invoices[i].udhar
  /\ invoices'[i].original = invoices[i].original /\ invoices'[i].restock = invoices[i].restock

\* What one bill is in the sums.
OnDrawer(i, x) ==
  [cash  |-> Booked(invoices[i], x, invoices[i].cash) - Undone(invoices[i], x, PaidBack(i)),
   sales |-> Booked(invoices[i], x, invoices[i].total) - Undone(invoices[i], x, invoices[i].total),
   udhar |-> Booked(invoices[i], x, invoices[i].udhar) - Undone(invoices[i], x, CreditReversed(i))]

LEMMA BillInt ==
  ASSUME BillsTyped, NEW i \in DOMAIN invoices, CreditReversed(i) \in Int, NEW x
  PROVE  OnDrawer(i, x) \in [cash : Int, sales : Int, udhar : Int] /\ Sold(invoices[i]) \in Int
<1>1. /\ invoices[i].cash \in Int /\ invoices[i].total \in Int /\ invoices[i].udhar \in Int
      /\ invoices[i].qty \in Int
  BY DEF BillsTyped, InvoiceType
<1>2. PaidBack(i) \in Int
  BY <1>1 DEF PaidBack, LargerOf
<1>3. \A amount \in Int : Booked(invoices[i], x, amount) \in Int /\ Undone(invoices[i], x, amount) \in Int
  BY DEF Booked, Undone
<1>4. Sold(invoices[i]) \in Int
  BY <1>1 DEF Sold
<1> QED BY <1>1, <1>2, <1>3, <1>4 DEF OnDrawer

\* A bill nobody cancels is in the sums what it was.
LEMMA BillStays ==
  ASSUME NEW i, TermsKept(i), invoices[i].status = "CANCELLED" => CreditReversed(i)' = CreditReversed(i), NEW x
  PROVE  OnDrawer(i, x)' = OnDrawer(i, x) /\ Sold(invoices[i])' = Sold(invoices[i])
<1>1. \A amount : Booked(invoices'[i], x, amount) = Booked(invoices[i], x, amount)
  BY DEF TermsKept, Booked
<1>2. \A amount : Undone(invoices'[i], x, amount) = Undone(invoices[i], x, amount)
  BY DEF TermsKept, Undone
<1>3. Undone(invoices'[i], x, PaidBack(i)') = Undone(invoices[i], x, PaidBack(i))
  BY DEF TermsKept, Undone, PaidBack
<1>4. Undone(invoices'[i], x, CreditReversed(i)') = Undone(invoices[i], x, CreditReversed(i))
  BY DEF TermsKept, Undone
<1>5. Sold(invoices'[i]) = Sold(invoices[i])
  BY DEF TermsKept, Sold
<1> QED BY <1>1, <1>2, <1>3, <1>4, <1>5 DEF TermsKept, OnDrawer

\* The four sums over the bills.
OnDrawers(x) ==
  [cash |-> Added(CashOn(x)), sales |-> Added(SalesOn(x)), udhar |-> Added(UdharOn(x))]

SoldInAll == Added([i \in DOMAIN invoices |-> Sold(invoices[i])])

DrawerSums == [cash : Int, sales : Int, udhar : Int]

LEMMA OnDrawersInt ==
  ASSUME BillsTyped, \A i \in DOMAIN invoices : CreditReversed(i) \in Int, NEW x
  PROVE  OnDrawers(x) \in DrawerSums /\ SoldInAll \in Int
<1>1. \A i \in DOMAIN invoices : OnDrawer(i, x) \in DrawerSums /\ Sold(invoices[i]) \in Int
  BY BillInt DEF DrawerSums
<1>2. PICK f : f = CashOn(x)
  OBVIOUS
<1>3. PICK g : g = SalesOn(x)
  OBVIOUS
<1>4. PICK h : h = UdharOn(x)
  OBVIOUS
<1>5. PICK k : k = [i \in DOMAIN invoices |-> Sold(invoices[i])]
  OBVIOUS
<1>6. /\ DOMAIN f = DOMAIN invoices /\ DOMAIN g = DOMAIN invoices
      /\ DOMAIN h = DOMAIN invoices /\ DOMAIN k = DOMAIN invoices
      /\ \A i \in DOMAIN invoices :
           f[i] = OnDrawer(i, x).cash /\ g[i] = OnDrawer(i, x).sales /\ h[i] = OnDrawer(i, x).udhar
           /\ k[i] = Sold(invoices[i])
  BY <1>2, <1>3, <1>4, <1>5 DEF CashOn, SalesOn, UdharOn, OnDrawer
<1>7. \A i \in DOMAIN invoices : f[i] \in Int /\ g[i] \in Int /\ h[i] \in Int /\ k[i] \in Int
  BY <1>1, <1>6 DEF DrawerSums
<1>8. Added(f) \in Int /\ Added(g) \in Int /\ Added(h) \in Int /\ Added(k) \in Int
  BY <1>6, <1>7, RowsFinite, AddedInt DEF BillsTyped
<1> QED BY <1>2, <1>3, <1>4, <1>5, <1>8 DEF OnDrawers, SoldInAll, DrawerSums

\* A bill or a return more: n is its position.
BillAdded(n, row) ==
  /\ n \notin DOMAIN invoices /\ DOMAIN invoices' = DOMAIN invoices \cup {n}
  /\ invoices'[n] = row
  /\ \A i \in DOMAIN invoices :
       TermsKept(i) /\ (invoices[i].status = "CANCELLED" => CreditReversed(i)' = CreditReversed(i))

LEMMA BillsMore ==
  ASSUME BillsTyped, \A i \in DOMAIN invoices : CreditReversed(i) \in Int,
         NEW n, NEW row \in InvoiceType, BillAdded(n, row), row.status = "COMPLETED", NEW x
  PROVE  /\ OnDrawers(x)'.cash = OnDrawers(x).cash + Booked(row, x, row.cash)
         /\ OnDrawers(x)'.sales = OnDrawers(x).sales + Booked(row, x, row.total)
         /\ OnDrawers(x)'.udhar = OnDrawers(x).udhar + Booked(row, x, row.udhar)
         /\ SoldInAll' = SoldInAll + Sold(row)
<1>1. \A i \in DOMAIN invoices :
        /\ OnDrawer(i, x) \in DrawerSums /\ Sold(invoices[i]) \in Int
        /\ OnDrawer(i, x)' = OnDrawer(i, x) /\ Sold(invoices[i])' = Sold(invoices[i])
  BY BillInt, BillStays DEF DrawerSums, BillAdded
<1>2. PICK f, fn : f = CashOn(x) /\ fn = CashOn(x)'
  OBVIOUS
<1>3. PICK g, gn : g = SalesOn(x) /\ gn = SalesOn(x)'
  OBVIOUS
<1>4. PICK h, hn : h = UdharOn(x) /\ hn = UdharOn(x)'
  OBVIOUS
<1>5. PICK k, kn : /\ k = [i \in DOMAIN invoices |-> Sold(invoices[i])]
                   /\ kn = [i \in DOMAIN invoices' |-> Sold(invoices'[i])]
  OBVIOUS
<1>6. /\ DOMAIN f = DOMAIN invoices /\ DOMAIN g = DOMAIN invoices
      /\ DOMAIN h = DOMAIN invoices /\ DOMAIN k = DOMAIN invoices
      /\ \A i \in DOMAIN invoices :
           f[i] = OnDrawer(i, x).cash /\ g[i] = OnDrawer(i, x).sales /\ h[i] = OnDrawer(i, x).udhar
           /\ k[i] = Sold(invoices[i])
  BY <1>2, <1>3, <1>4, <1>5 DEF CashOn, SalesOn, UdharOn, OnDrawer
<1>7. /\ DOMAIN fn = DOMAIN invoices' /\ DOMAIN gn = DOMAIN invoices'
      /\ DOMAIN hn = DOMAIN invoices' /\ DOMAIN kn = DOMAIN invoices'
      /\ \A i \in DOMAIN invoices' :
           fn[i] = OnDrawer(i, x)'.cash /\ gn[i] = OnDrawer(i, x)'.sales /\ hn[i] = OnDrawer(i, x)'.udhar
           /\ kn[i] = Sold(invoices[i])'
  BY <1>2, <1>3, <1>4, <1>5 DEF CashOn, SalesOn, UdharOn, OnDrawer
<1>8. \A i \in DOMAIN invoices :
        /\ f[i] \in Int /\ g[i] \in Int /\ h[i] \in Int /\ k[i] \in Int
        /\ fn[i] = f[i] /\ gn[i] = g[i] /\ hn[i] = h[i] /\ kn[i] = k[i]
  BY <1>1, <1>6, <1>7 DEF DrawerSums, BillAdded
<1>9. /\ row.cash \in Int /\ row.total \in Int /\ row.udhar \in Int /\ row.qty \in Int
      /\ \A amount : Undone(row, x, amount) = 0
      /\ \A amount \in Int : Booked(row, x, amount) \in Int
      /\ Sold(row) \in Int
  BY DEF InvoiceType, Undone, Booked, Sold
<1>10. /\ fn[n] = Booked(row, x, row.cash) /\ gn[n] = Booked(row, x, row.total)
       /\ hn[n] = Booked(row, x, row.udhar) /\ kn[n] = Sold(row)
  BY <1>7, <1>9 DEF BillAdded, OnDrawer
<1>11. /\ Added(fn) = Added(f) + fn[n] /\ Added(gn) = Added(g) + gn[n]
       /\ Added(hn) = Added(h) + hn[n] /\ Added(kn) = Added(k) + kn[n]
  <2>1. PICK S : S = DOMAIN invoices
    OBVIOUS
  <2>2. /\ IsFiniteSet(S) /\ n \notin S
        /\ DOMAIN f = S /\ DOMAIN g = S /\ DOMAIN h = S /\ DOMAIN k = S
        /\ DOMAIN fn = S \cup {n} /\ DOMAIN gn = S \cup {n}
        /\ DOMAIN hn = S \cup {n} /\ DOMAIN kn = S \cup {n}
    BY <1>6, <1>7, <2>1, RowsFinite DEF BillAdded, BillsTyped
  <2>3. fn[n] \in Int /\ gn[n] \in Int /\ hn[n] \in Int /\ kn[n] \in Int
    BY <1>9, <1>10
  <2>4. \A i \in S : f[i] \in Int /\ fn[i] = f[i]
    BY <1>8, <2>1
  <2>5. \A i \in S : g[i] \in Int /\ gn[i] = g[i]
    BY <1>8, <2>1
  <2>6. \A i \in S : h[i] \in Int /\ hn[i] = h[i]
    BY <1>8, <2>1
  <2>7. \A i \in S : k[i] \in Int /\ kn[i] = k[i]
    BY <1>8, <2>1
  <2>8. Added(fn) = Added(f) + fn[n]
    BY <2>2, <2>3, <2>4, AddedJoin
  <2>9. Added(gn) = Added(g) + gn[n]
    BY <2>2, <2>3, <2>5, AddedJoin
  <2>10. Added(hn) = Added(h) + hn[n]
    BY <2>2, <2>3, <2>6, AddedJoin
  <2>11. Added(kn) = Added(k) + kn[n]
    BY <2>2, <2>3, <2>7, AddedJoin
  <2> QED BY <2>8, <2>9, <2>10, <2>11
<1> QED BY <1>2, <1>3, <1>4, <1>5, <1>10, <1>11 DEF OnDrawers, SoldInAll

\* Bill i is cancelled; drawer s pays back what its credit does not cover.
BillCancelled(i, s) ==
  /\ i \in DOMAIN invoices /\ DOMAIN invoices' = DOMAIN invoices
  /\ invoices[i].type = "SALE" /\ invoices[i].status = "COMPLETED"
  /\ invoices'[i] = [invoices[i] EXCEPT !.status = "CANCELLED", !.cancelShift = s]
  /\ \A j \in DOMAIN invoices : j # i =>
       TermsKept(j) /\ (invoices[j].status = "CANCELLED" => CreditReversed(j)' = CreditReversed(j))

LEMMA BillsFewer ==
  ASSUME BillsTyped, \A j \in DOMAIN invoices : CreditReversed(j) \in Int,
         NEW i, NEW s, BillCancelled(i, s), CreditReversed(i)' \in 0 .. invoices[i].udhar, NEW x
  PROVE  /\ OnDrawers(x)'.cash =
              OnDrawers(x).cash - At(x, s, invoices[i].cash + (invoices[i].udhar - CreditReversed(i)'))
         /\ OnDrawers(x)'.sales = OnDrawers(x).sales - At(x, s, invoices[i].total)
         /\ OnDrawers(x)'.udhar = OnDrawers(x).udhar - At(x, s, CreditReversed(i)')
         /\ SoldInAll' = SoldInAll - invoices[i].qty
<1>1. \A j \in DOMAIN invoices : j # i =>
        OnDrawer(j, x)' = OnDrawer(j, x) /\ Sold(invoices[j])' = Sold(invoices[j])
  BY BillStays DEF BillCancelled
<1>2. PICK f, fn : f = CashOn(x) /\ fn = CashOn(x)'
  OBVIOUS
<1>3. PICK g, gn : g = SalesOn(x) /\ gn = SalesOn(x)'
  OBVIOUS
<1>4. PICK h, hn : h = UdharOn(x) /\ hn = UdharOn(x)'
  OBVIOUS
<1>5. PICK k, kn : /\ k = [j \in DOMAIN invoices |-> Sold(invoices[j])]
                   /\ kn = [j \in DOMAIN invoices' |-> Sold(invoices'[j])]
  OBVIOUS
<1>6. /\ DOMAIN f = DOMAIN invoices /\ DOMAIN g = DOMAIN invoices
      /\ DOMAIN h = DOMAIN invoices /\ DOMAIN k = DOMAIN invoices
      /\ \A j \in DOMAIN invoices :
           f[j] = OnDrawer(j, x).cash /\ g[j] = OnDrawer(j, x).sales /\ h[j] = OnDrawer(j, x).udhar
           /\ k[j] = Sold(invoices[j])
  BY <1>2, <1>3, <1>4, <1>5 DEF CashOn, SalesOn, UdharOn, OnDrawer
<1>7. /\ DOMAIN fn = DOMAIN invoices /\ DOMAIN gn = DOMAIN invoices
      /\ DOMAIN hn = DOMAIN invoices /\ DOMAIN kn = DOMAIN invoices
      /\ \A j \in DOMAIN invoices :
           fn[j] = OnDrawer(j, x)'.cash /\ gn[j] = OnDrawer(j, x)'.sales /\ hn[j] = OnDrawer(j, x)'.udhar
           /\ kn[j] = Sold(invoices[j])'
  BY <1>2, <1>3, <1>4, <1>5 DEF CashOn, SalesOn, UdharOn, OnDrawer, BillCancelled
<1>8. \A j \in DOMAIN invoices : OnDrawer(j, x) \in DrawerSums /\ Sold(invoices[j]) \in Int
  BY BillInt DEF DrawerSums
<1>9. PICK row, next, rev : row = invoices[i] /\ next = invoices'[i] /\ rev = CreditReversed(i)'
  OBVIOUS
<1>10. /\ row \in InvoiceType /\ row.type = "SALE" /\ row.status = "COMPLETED"
       /\ next = [row EXCEPT !.status = "CANCELLED", !.cancelShift = s]
       /\ rev \in 0 .. row.udhar
  BY <1>9 DEF BillCancelled, BillsTyped
<1>11. /\ row.cash \in Int /\ row.total \in Int /\ row.udhar \in Int /\ row.qty \in Int /\ rev \in Int
  BY <1>10 DEF InvoiceType
<1>12. /\ next.type = "SALE" /\ next.status = "CANCELLED" /\ next.cancelShift = s
       /\ next.shift = row.shift /\ next.cash = row.cash /\ next.total = row.total
       /\ next.udhar = row.udhar /\ next.qty = row.qty
  BY <1>10 DEF InvoiceType
<1>13. \A amount : /\ Booked(next, x, amount) = Booked(row, x, amount)
                   /\ Undone(row, x, amount) = 0 /\ Undone(next, x, amount) = At(x, s, amount)
  BY <1>10, <1>12 DEF Booked, Undone, At
<1>14. \A amount \in Int : Booked(row, x, amount) \in Int /\ At(x, s, amount) \in Int
  BY DEF Booked, At
<1>15. PaidBack(i)' = row.cash + (row.udhar - rev)
  BY <1>9, <1>10, <1>11, <1>12 DEF PaidBack, LargerOf
<1>16. row.cash + (row.udhar - rev) \in Int
  BY <1>11
<1>17. /\ OnDrawer(i, x)'.cash = OnDrawer(i, x).cash - At(x, s, row.cash + (row.udhar - rev))
       /\ OnDrawer(i, x)'.sales = OnDrawer(i, x).sales - At(x, s, row.total)
       /\ OnDrawer(i, x)'.udhar = OnDrawer(i, x).udhar - At(x, s, rev)
  BY <1>9, <1>11, <1>12, <1>13, <1>14, <1>15, <1>16 DEF OnDrawer
<1>18. Sold(invoices[i])' = Sold(invoices[i]) - row.qty
  BY <1>9, <1>10, <1>11, <1>12 DEF Sold
<1>19. i \in DOMAIN invoices /\ IsFiniteSet(DOMAIN invoices)
  BY RowsFinite DEF BillCancelled, BillsTyped
<1>20. /\ fn[i] = f[i] - At(x, s, row.cash + (row.udhar - rev)) /\ fn[i] \in Int /\ f[i] \in Int
       /\ gn[i] = g[i] - At(x, s, row.total) /\ gn[i] \in Int /\ g[i] \in Int
       /\ hn[i] = h[i] - At(x, s, rev) /\ hn[i] \in Int /\ h[i] \in Int
       /\ kn[i] = k[i] - row.qty /\ kn[i] \in Int /\ k[i] \in Int
  BY <1>6, <1>7, <1>8, <1>11, <1>14, <1>16, <1>17, <1>18, <1>19 DEF DrawerSums
<1>21. \A j \in DOMAIN invoices :
         /\ f[j] \in Int /\ g[j] \in Int /\ h[j] \in Int /\ k[j] \in Int
         /\ j # i => fn[j] = f[j] /\ gn[j] = g[j] /\ hn[j] = h[j] /\ kn[j] = k[j]
  BY <1>1, <1>6, <1>7, <1>8 DEF DrawerSums
<1>22. Added(fn) = Added(f) + (fn[i] - f[i]) /\ Added(f) \in Int
  BY <1>6, <1>7, <1>19, <1>20, <1>21, AddedMove
<1>23. Added(gn) = Added(g) + (gn[i] - g[i]) /\ Added(g) \in Int
  BY <1>6, <1>7, <1>19, <1>20, <1>21, AddedMove
<1>24. Added(hn) = Added(h) + (hn[i] - h[i]) /\ Added(h) \in Int
  BY <1>6, <1>7, <1>19, <1>20, <1>21, AddedMove
<1>25. Added(kn) = Added(k) + (kn[i] - k[i]) /\ Added(k) \in Int
  BY <1>6, <1>7, <1>19, <1>20, <1>21, AddedMove
<1>26. PICK pc, ps, pu : pc = At(x, s, row.cash + (row.udhar - rev)) /\ ps = At(x, s, row.total) /\ pu = At(x, s, rev)
  OBVIOUS
<1>27. pc \in Int /\ ps \in Int /\ pu \in Int
  BY <1>11, <1>14, <1>16, <1>26
<1>28. /\ Added(fn) = Added(f) - pc /\ Added(gn) = Added(g) - ps /\ Added(hn) = Added(h) - pu
       /\ Added(kn) = Added(k) - row.qty
  BY <1>11, <1>20, <1>22, <1>23, <1>24, <1>25, <1>26, <1>27
<1> QED BY <1>2, <1>3, <1>4, <1>5, <1>9, <1>26, <1>28 DEF OnDrawers, SoldInAll

\* No bill is written.
LEMMA BillsSame ==
  ASSUME IsRows(invoices), invoices' = invoices,
         \A i \in DOMAIN invoices : invoices[i].status = "CANCELLED" => CreditReversed(i)' = CreditReversed(i),
         NEW x
  PROVE  OnDrawers(x)' = OnDrawers(x) /\ SoldInAll' = SoldInAll
<1>1. \A i \in DOMAIN invoices : OnDrawer(i, x)' = OnDrawer(i, x)
  BY BillStays DEF TermsKept
<1>2. PICK f, fn : f = CashOn(x) /\ fn = CashOn(x)'
  OBVIOUS
<1>3. PICK g, gn : g = SalesOn(x) /\ gn = SalesOn(x)'
  OBVIOUS
<1>4. PICK h, hn : h = UdharOn(x) /\ hn = UdharOn(x)'
  OBVIOUS
<1>5. /\ DOMAIN f = DOMAIN invoices /\ DOMAIN g = DOMAIN invoices /\ DOMAIN h = DOMAIN invoices
      /\ DOMAIN fn = DOMAIN invoices /\ DOMAIN gn = DOMAIN invoices /\ DOMAIN hn = DOMAIN invoices
      /\ \A i \in DOMAIN invoices :
           /\ f[i] = OnDrawer(i, x).cash /\ g[i] = OnDrawer(i, x).sales /\ h[i] = OnDrawer(i, x).udhar
           /\ fn[i] = OnDrawer(i, x)'.cash /\ gn[i] = OnDrawer(i, x)'.sales
           /\ hn[i] = OnDrawer(i, x)'.udhar
  BY <1>2, <1>3, <1>4 DEF CashOn, SalesOn, UdharOn, OnDrawer
<1>6. Added(fn) = Added(f) /\ Added(gn) = Added(g) /\ Added(hn) = Added(h)
  BY <1>1, <1>5, RowsFinite, AddedSame
<1> QED BY <1>2, <1>3, <1>4, <1>6 DEF OnDrawers, SoldInAll

-----------------------------------------------------------------------------
(* What repayments bring the drawers, and what the customers owe *)

Receipts(x) == [all |-> Added(ReceiptsOn(x)), cash |-> Added(CashReceiptsOn(x))]

LEMMA ReceivedInt ==
  ASSUME NEW row \in UdharType, NEW x
  PROVE  Received(row, x) \in Int
  BY DEF Received, UdharType

LEMMA ReceiptsInt ==
  ASSUME MovementsTyped, NEW x
  PROVE  Receipts(x) \in [all : Int, cash : Int]
<1>1. PICK f, g : f = ReceiptsOn(x) /\ g = CashReceiptsOn(x)
  OBVIOUS
<1>2. /\ DOMAIN f = DOMAIN udhar /\ DOMAIN g = DOMAIN udhar
      /\ \A u \in DOMAIN udhar : f[u] \in Int /\ g[u] \in Int
  BY <1>1, ReceivedInt DEF ReceiptsOn, CashReceiptsOn, MovementsTyped
<1>3. Added(f) \in Int /\ Added(g) \in Int
  BY <1>2, RowsFinite, AddedInt DEF MovementsTyped
<1> QED BY <1>1, <1>3 DEF Receipts

LEMMA ReceiptsMore ==
  ASSUME MovementsTyped, NEW n, NEW row \in UdharType, MovementAdded(n, row), NEW x
  PROVE  /\ Receipts(x)'.all = Receipts(x).all + Received(row, x)
         /\ Receipts(x)'.cash = Receipts(x).cash + (IF row.tender = "CASH" THEN Received(row, x) ELSE 0)
<1>1. PICK f, fn : f = ReceiptsOn(x) /\ fn = ReceiptsOn(x)'
  OBVIOUS
<1>2. PICK g, gn : g = CashReceiptsOn(x) /\ gn = CashReceiptsOn(x)'
  OBVIOUS
<1>3. PICK S : S = DOMAIN udhar
  OBVIOUS
<1>4. /\ IsFiniteSet(S) /\ n \notin S /\ DOMAIN f = S /\ DOMAIN g = S
      /\ DOMAIN fn = S \cup {n} /\ DOMAIN gn = S \cup {n}
  BY <1>1, <1>2, <1>3, RowsFinite DEF ReceiptsOn, CashReceiptsOn, MovementAdded, MovementsTyped
<1>5. \A u \in S : Received(udhar[u], x) \in Int /\ udhar'[u] = udhar[u]
  BY <1>3, ReceivedInt DEF MovementsTyped, MovementAdded
<1>6. \A u \in S : f[u] \in Int /\ fn[u] = f[u]
  BY <1>1, <1>3, <1>4, <1>5 DEF ReceiptsOn, MovementAdded
<1>7. \A u \in S : g[u] \in Int /\ gn[u] = g[u]
  BY <1>2, <1>3, <1>4, <1>5 DEF CashReceiptsOn, MovementAdded
<1>8. fn[n] = Received(row, x) /\ gn[n] = IF row.tender = "CASH" THEN Received(row, x) ELSE 0
  BY <1>1, <1>2 DEF ReceiptsOn, CashReceiptsOn, MovementAdded
<1>9. fn[n] \in Int /\ gn[n] \in Int
  BY <1>8, ReceivedInt
<1>10. Added(fn) = Added(f) + fn[n]
  BY <1>4, <1>6, <1>9, AddedJoin
<1>11. Added(gn) = Added(g) + gn[n]
  BY <1>4, <1>7, <1>9, AddedJoin
<1> QED BY <1>1, <1>2, <1>8, <1>10, <1>11 DEF Receipts

Owed == Added([c \in Customer |-> customers[c].balance])

\* The balance of customer c moves by d.
LEMMA OwedMoves ==
  ASSUME customers \in [Customer -> [balance : Int, deleted : BOOLEAN]], NEW c \in Customer, NEW d \in Int,
         customers' = [customers EXCEPT ![c].balance = customers[c].balance + d]
  PROVE  Owed' = Owed + d /\ customers' \in [Customer -> [balance : Int, deleted : BOOLEAN]]
<1>1. /\ customers' \in [Customer -> [balance : Int, deleted : BOOLEAN]]
      /\ customers'[c].balance = customers[c].balance + d
      /\ \A k \in Customer : k # c => customers'[k] = customers[k]
  <2>1. customers[c].balance \in Int /\ customers[c].balance + d \in Int
    OBVIOUS
  <2>2. PICK b : b = customers[c].balance + d
    OBVIOUS
  <2>3. customers' = [customers EXCEPT ![c] = [customers[c] EXCEPT !.balance = b]]
    BY <2>2
  <2>4. [customers[c] EXCEPT !.balance = b] \in [balance : Int, deleted : BOOLEAN]
    BY <2>1, <2>2
  <2>5. [customers[c] EXCEPT !.balance = b].balance = b
    BY <2>1
  <2> QED BY <2>2, <2>3, <2>4, <2>5
<1>2. PICK f, g : /\ f = [k \in Customer |-> customers[k].balance]
                  /\ g = [k \in Customer |-> customers'[k].balance]
  OBVIOUS
<1>3. DOMAIN f = Customer /\ DOMAIN g = Customer /\ IsFiniteSet(Customer)
  BY <1>2, ShopAssumption
<1>4. /\ \A k \in Customer : f[k] \in Int /\ (k # c => g[k] = f[k])
      /\ g[c] = f[c] + d /\ g[c] \in Int
  BY <1>1, <1>2
<1>5. Added(g) = Added(f) + (g[c] - f[c]) /\ Added(f) \in Int
  BY <1>3, <1>4, AddedMove
<1>6. Added(g) = Added(f) + d
  BY <1>4, <1>5
<1> QED BY <1>1, <1>2, <1>6 DEF Owed

LEMMA OwedSame ==
  ASSUME \A c \in Customer : customers'[c].balance = customers[c].balance
  PROVE  Owed' = Owed
<1>1. PICK f, g : /\ f = [k \in Customer |-> customers[k].balance]
                  /\ g = [k \in Customer |-> customers'[k].balance]
  OBVIOUS
<1>2. f = g
  BY <1>1
<1> QED BY <1>1, <1>2 DEF Owed

-----------------------------------------------------------------------------
(* What the expenses cost, and take from the drawers *)

SpentOn(x) == Added(PayoutsOn(x))

OutlayInAll == Added([e \in DOMAIN expenses |-> Outlay(expenses[e])])

PaidFrom(row, x) == IF row.shift = x THEN CashOut(row) ELSE 0

ExpensesTyped == IsRows(expenses) /\ \A e \in DOMAIN expenses : expenses[e] \in ExpenseType

LEMMA OutlayInt ==
  ASSUME NEW row \in ExpenseType, NEW x
  PROVE  /\ Outlay(row) \in Int /\ PaidFrom(row, x) \in Int /\ CashOut(row) \in Nat /\ BankOut(row) \in Nat
         /\ Outlay(row) = CashOut(row) + BankOut(row)
  BY DEF ExpenseType, Outlay, PaidFrom, CashOut, BankOut

LEMMA SpentInt ==
  ASSUME ExpensesTyped, NEW x
  PROVE  SpentOn(x) \in Int /\ OutlayInAll \in Int
<1>1. PICK f, g : f = PayoutsOn(x) /\ g = [e \in DOMAIN expenses |-> Outlay(expenses[e])]
  OBVIOUS
<1>2. /\ DOMAIN f = DOMAIN expenses /\ DOMAIN g = DOMAIN expenses
      /\ \A e \in DOMAIN expenses : f[e] \in Int /\ g[e] \in Int
  BY <1>1, OutlayInt DEF PayoutsOn, PaidFrom, ExpensesTyped
<1>3. Added(f) \in Int /\ Added(g) \in Int
  BY <1>2, RowsFinite, AddedInt DEF ExpensesTyped
<1> QED BY <1>1, <1>3 DEF SpentOn, OutlayInAll

\* An expense is a row more, or becomes another row.
ExpenseWritten(e, was, row) ==
  \/ /\ e \notin DOMAIN expenses /\ was = NoExpense
     /\ DOMAIN expenses' = DOMAIN expenses \cup {e} /\ expenses'[e] = row
     /\ \A x \in DOMAIN expenses : expenses'[x] = expenses[x]
  \/ /\ e \in DOMAIN expenses /\ was = expenses[e]
     /\ DOMAIN expenses' = DOMAIN expenses /\ expenses'[e] = row
     /\ \A x \in DOMAIN expenses : x # e => expenses'[x] = expenses[x]

LEMMA SpentMore ==
  ASSUME ExpensesTyped, NEW e, NEW was, NEW row \in ExpenseType, ExpenseWritten(e, was, row), NEW x
  PROVE  /\ SpentOn(x)' = SpentOn(x) + (PaidFrom(row, x) - PaidFrom(was, x))
         /\ OutlayInAll' = OutlayInAll + (Outlay(row) - Outlay(was))
<1>1. PICK f, fn : f = PayoutsOn(x) /\ fn = PayoutsOn(x)'
  OBVIOUS
<1>2. PICK g, gn : /\ g = [k \in DOMAIN expenses |-> Outlay(expenses[k])]
                   /\ gn = [k \in DOMAIN expenses' |-> Outlay(expenses'[k])]
  OBVIOUS
<1>3. PICK S : S = DOMAIN expenses
  OBVIOUS
<1>4. /\ IsFiniteSet(S) /\ DOMAIN f = S /\ DOMAIN g = S
      /\ DOMAIN fn = DOMAIN expenses' /\ DOMAIN gn = DOMAIN expenses'
      /\ \A k \in S : f[k] = PaidFrom(expenses[k], x) /\ g[k] = Outlay(expenses[k])
      /\ \A k \in DOMAIN expenses' : fn[k] = PaidFrom(expenses'[k], x) /\ gn[k] = Outlay(expenses'[k])
  BY <1>1, <1>2, <1>3, RowsFinite DEF PayoutsOn, PaidFrom, ExpensesTyped
<1>5. \A k \in S : f[k] \in Int /\ g[k] \in Int
  BY <1>3, <1>4, OutlayInt DEF ExpensesTyped
<1>6. PaidFrom(row, x) \in Int /\ Outlay(row) \in Int
  BY OutlayInt
<1>7. CASE /\ e \notin DOMAIN expenses /\ was = NoExpense
           /\ DOMAIN expenses' = DOMAIN expenses \cup {e} /\ expenses'[e] = row
           /\ \A k \in DOMAIN expenses : expenses'[k] = expenses[k]
  <2>1. PaidFrom(was, x) = 0 /\ Outlay(was) = 0
    BY <1>7 DEF NoExpense, PaidFrom, Outlay, CashOut
  <2>2. /\ DOMAIN fn = S \cup {e} /\ DOMAIN gn = S \cup {e} /\ e \notin S
        /\ fn[e] = PaidFrom(row, x) /\ gn[e] = Outlay(row)
        /\ \A k \in S : fn[k] = f[k] /\ gn[k] = g[k]
    BY <1>3, <1>4, <1>7
  <2>3. Added(fn) = Added(f) + fn[e]
    BY <1>4, <1>5, <1>6, <2>2, AddedJoin
  <2>4. Added(gn) = Added(g) + gn[e]
    BY <1>4, <1>5, <1>6, <2>2, AddedJoin
  <2> QED BY <1>1, <1>2, <1>6, <2>1, <2>2, <2>3, <2>4 DEF SpentOn, OutlayInAll
<1>8. CASE /\ e \in DOMAIN expenses /\ was = expenses[e]
           /\ DOMAIN expenses' = DOMAIN expenses /\ expenses'[e] = row
           /\ \A k \in DOMAIN expenses : k # e => expenses'[k] = expenses[k]
  <2>1. /\ DOMAIN fn = S /\ DOMAIN gn = S /\ e \in S
        /\ fn[e] = PaidFrom(row, x) /\ gn[e] = Outlay(row)
        /\ f[e] = PaidFrom(was, x) /\ g[e] = Outlay(was)
        /\ \A k \in S : k # e => fn[k] = f[k] /\ gn[k] = g[k]
    BY <1>3, <1>4, <1>8
  <2>2. Added(fn) = Added(f) + (fn[e] - f[e])
    BY <1>4, <1>5, <1>6, <2>1, AddedMove
  <2>3. Added(gn) = Added(g) + (gn[e] - g[e])
    BY <1>4, <1>5, <1>6, <2>1, AddedMove
  <2> QED BY <1>1, <1>2, <2>1, <2>2, <2>3 DEF SpentOn, OutlayInAll
<1> QED BY <1>7, <1>8 DEF ExpenseWritten

-----------------------------------------------------------------------------
(* What the returns of a bill give back *)

\* Of one bill: the pieces its returns took back, the money, and the credit.
GivenBack(j) ==
  [qty |-> Added([k \in ReturnsOf(j) |-> invoices[k].qty]), total |-> Refunded(j), udhar |-> ReversedUdhar(j)]

LEMMA GivenBackInt ==
  ASSUME BillsTyped, NEW j
  PROVE  GivenBack(j) \in [qty : Int, total : Int, udhar : Int] /\ IsFiniteSet(ReturnsOf(j))
<1>1. PICK f, g, h : /\ f = [k \in ReturnsOf(j) |-> invoices[k].qty]
                     /\ g = [k \in ReturnsOf(j) |-> invoices[k].total]
                     /\ h = [k \in ReturnsOf(j) |-> invoices[k].udhar]
  OBVIOUS
<1>2. IsFiniteSet(ReturnsOf(j))
  BY RowsFinite, FS_Subset DEF ReturnsOf, BillsTyped
<1>3. /\ DOMAIN f = ReturnsOf(j) /\ DOMAIN g = ReturnsOf(j) /\ DOMAIN h = ReturnsOf(j)
      /\ \A k \in ReturnsOf(j) : f[k] \in Int /\ g[k] \in Int /\ h[k] \in Int
  BY <1>1 DEF ReturnsOf, BillsTyped, InvoiceType
<1>4. Added(f) \in Int /\ Added(g) \in Int /\ Added(h) \in Int
  BY <1>2, <1>3, AddedInt
<1> QED BY <1>1, <1>2, <1>4 DEF GivenBack, Refunded, ReversedUdhar

\* What a return's place in these sums depends on.
ReturnTermsKept(i) ==
  /\ invoices'[i].type = invoices[i].type /\ invoices'[i].original = invoices[i].original
  /\ invoices'[i].qty = invoices[i].qty /\ invoices'[i].total = invoices[i].total
  /\ invoices'[i].udhar = invoices[i].udhar

LEMMA GivenBackSame ==
  ASSUME BillsTyped, DOMAIN invoices' = DOMAIN invoices, \A i \in DOMAIN invoices : ReturnTermsKept(i), NEW j
  PROVE  ReturnsOf(j)' = ReturnsOf(j) /\ GivenBack(j)' = GivenBack(j)
<1>1. ReturnsOf(j)' = ReturnsOf(j)
  BY DEF ReturnsOf, ReturnTermsKept
<1>2. \A k \in ReturnsOf(j) : k \in DOMAIN invoices
  BY DEF ReturnsOf
<1>3. /\ [k \in ReturnsOf(j)' |-> invoices'[k].qty] = [k \in ReturnsOf(j) |-> invoices[k].qty]
      /\ [k \in ReturnsOf(j)' |-> invoices'[k].total] = [k \in ReturnsOf(j) |-> invoices[k].total]
      /\ [k \in ReturnsOf(j)' |-> invoices'[k].udhar] = [k \in ReturnsOf(j) |-> invoices[k].udhar]
  BY <1>1, <1>2 DEF ReturnTermsKept
<1> QED BY <1>1, <1>3 DEF GivenBack, Refunded, ReversedUdhar

\* A document more: the sums of bill j take it in if it is a return of j.
LEMMA GivenBackMore ==
  ASSUME BillsTyped, NEW n, n \notin DOMAIN invoices, DOMAIN invoices' = DOMAIN invoices \cup {n},
         NEW row \in InvoiceType, invoices'[n] = row, \A i \in DOMAIN invoices : ReturnTermsKept(i), NEW j
  PROVE  /\ row.type = "RETURN" /\ row.original = j =>
              /\ GivenBack(j)'.qty = GivenBack(j).qty + row.qty
              /\ GivenBack(j)'.total = GivenBack(j).total + row.total
              /\ GivenBack(j)'.udhar = GivenBack(j).udhar + row.udhar
         /\ ~(row.type = "RETURN" /\ row.original = j) =>
              ReturnsOf(j)' = ReturnsOf(j) /\ GivenBack(j)' = GivenBack(j)
<1>1. PICK f, g, h : /\ f = [k \in ReturnsOf(j) |-> invoices[k].qty]
                     /\ g = [k \in ReturnsOf(j) |-> invoices[k].total]
                     /\ h = [k \in ReturnsOf(j) |-> invoices[k].udhar]
  OBVIOUS
<1>2. PICK fn, gn, hn : /\ fn = [k \in ReturnsOf(j)' |-> invoices'[k].qty]
                        /\ gn = [k \in ReturnsOf(j)' |-> invoices'[k].total]
                        /\ hn = [k \in ReturnsOf(j)' |-> invoices'[k].udhar]
  OBVIOUS
<1>3. IsFiniteSet(ReturnsOf(j)) /\ n \notin ReturnsOf(j)
  BY GivenBackInt DEF ReturnsOf
<1>4. /\ DOMAIN f = ReturnsOf(j) /\ DOMAIN g = ReturnsOf(j) /\ DOMAIN h = ReturnsOf(j)
      /\ \A k \in ReturnsOf(j) : f[k] \in Int /\ g[k] \in Int /\ h[k] \in Int
  BY <1>1 DEF ReturnsOf, BillsTyped, InvoiceType
<1>5. /\ DOMAIN fn = ReturnsOf(j)' /\ DOMAIN gn = ReturnsOf(j)' /\ DOMAIN hn = ReturnsOf(j)'
      /\ ReturnsOf(j) \subseteq ReturnsOf(j)'
      /\ \A k \in ReturnsOf(j) : fn[k] = f[k] /\ gn[k] = g[k] /\ hn[k] = h[k]
  BY <1>1, <1>2 DEF ReturnsOf, ReturnTermsKept
<1>6. CASE row.type = "RETURN" /\ row.original = j
  <2>1. ReturnsOf(j)' = ReturnsOf(j) \cup {n}
    BY <1>6 DEF ReturnsOf, ReturnTermsKept
  <2>2. /\ fn[n] = row.qty /\ gn[n] = row.total /\ hn[n] = row.udhar
        /\ fn[n] \in Int /\ gn[n] \in Int /\ hn[n] \in Int
    BY <1>2, <2>1 DEF InvoiceType
  <2>3. Added(fn) = Added(f) + row.qty
    BY <1>3, <1>4, <1>5, <2>1, <2>2, AddedJoin
  <2>4. Added(gn) = Added(g) + row.total
    BY <1>3, <1>4, <1>5, <2>1, <2>2, AddedJoin
  <2>5. Added(hn) = Added(h) + row.udhar
    BY <1>3, <1>4, <1>5, <2>1, <2>2, AddedJoin
  <2> QED BY <1>1, <1>2, <1>6, <2>3, <2>4, <2>5 DEF GivenBack, Refunded, ReversedUdhar
<1>7. CASE ~(row.type = "RETURN" /\ row.original = j)
  <2>1. ReturnsOf(j)' = ReturnsOf(j)
    BY <1>7 DEF ReturnsOf, ReturnTermsKept
  <2>2. Added(fn) = Added(f) /\ Added(gn) = Added(g) /\ Added(hn) = Added(h)
    BY <1>3, <1>4, <1>5, <2>1, AddedSame
  <2> QED BY <1>1, <1>2, <1>7, <2>1, <2>2 DEF GivenBack, Refunded, ReversedUdhar
<1> QED BY <1>6, <1>7

\* What holds of one bill and its returns.
Capped(j) ==
  /\ invoices[j].returned = GivenBack(j).qty
  /\ invoices[j].returned <= invoices[j].qty
  /\ GivenBack(j).total <= invoices[j].total
  /\ invoices[j].returned = invoices[j].qty => GivenBack(j).total = invoices[j].total
  /\ GivenBack(j).udhar <= invoices[j].udhar
  /\ invoices[j].status = "CANCELLED" => ReturnsOf(j) = {}

LEMMA CappedAll == RefundsCapped <=> \A j \in DOMAIN invoices : invoices[j].type = "SALE" => Capped(j)
  BY DEF RefundsCapped, Capped, GivenBack, Refunded

LEMMA CappedAllNext ==
  ASSUME \A j \in DOMAIN invoices' : invoices'[j].type = "SALE" => Capped(j)'
  PROVE  RefundsCapped'
  BY DEF RefundsCapped, Capped, GivenBack, Refunded

\* Of a bill that is not written, and of which no return is.
LEMMA CappedStays ==
  ASSUME NEW j, ReturnTermsKept(j), invoices'[j].returned = invoices[j].returned,
         invoices'[j].status = invoices[j].status \/ ReturnsOf(j) = {},
         ReturnsOf(j)' = ReturnsOf(j), GivenBack(j)' = GivenBack(j), Capped(j)
  PROVE  Capped(j)'
  BY DEF Capped, ReturnTermsKept

\* A new bill: nothing came back of it.
LEMMA CappedSale ==
  ASSUME BillsTyped, BillsLinked, RefundsCapped,
         NEW n, NEW row \in InvoiceType, n \notin DOMAIN invoices, DOMAIN invoices' = DOMAIN invoices \cup {n},
         invoices'[n] = row, row.type = "SALE", row.status = "COMPLETED", row.returned = 0,
         row.qty = 0 => row.total = 0, \A i \in DOMAIN invoices : invoices'[i] = invoices[i]
  PROVE  RefundsCapped'
<1>1. \A i \in DOMAIN invoices : ReturnTermsKept(i)
  BY DEF ReturnTermsKept
<1>2. \A j : ReturnsOf(j)' = ReturnsOf(j) /\ GivenBack(j)' = GivenBack(j)
  BY <1>1, GivenBackMore
<1>3. ReturnsOf(n) = {}
  BY DEF ReturnsOf, BillsLinked
<1>4. GivenBack(n) = [qty |-> 0, total |-> 0, udhar |-> 0]
  <2>1. \A f : DOMAIN f = {} => Added(f) = 0
    BY SumEmpty DEF Added
  <2>2. PICK f, g, h : /\ f = [k \in ReturnsOf(n) |-> invoices[k].qty]
                       /\ g = [k \in ReturnsOf(n) |-> invoices[k].total]
                       /\ h = [k \in ReturnsOf(n) |-> invoices[k].udhar]
    OBVIOUS
  <2>3. Added(f) = 0 /\ Added(g) = 0 /\ Added(h) = 0
    BY <1>3, <2>1, <2>2
  <2> QED BY <2>2, <2>3 DEF GivenBack, Refunded, ReversedUdhar
<1>5. Capped(n)'
  BY <1>2, <1>3, <1>4 DEF Capped, InvoiceType
<1>6. \A j \in DOMAIN invoices : invoices'[j].type = "SALE" => Capped(j)'
  BY <1>1, <1>2, CappedAll, CappedStays
<1>7. \A j \in DOMAIN invoices' : invoices'[j].type = "SALE" => Capped(j)'
  BY <1>5, <1>6
<1> QED BY <1>7, CappedAllNext

\* A return of bill i, within what is left of it.
LEMMA CappedReturn ==
  ASSUME BillsTyped, RefundsCapped,
         NEW n, NEW row \in InvoiceType, n \notin DOMAIN invoices, DOMAIN invoices' = DOMAIN invoices \cup {n},
         invoices'[n] = row, row.type = "RETURN",
         NEW i \in DOMAIN invoices, row.original = i, invoices[i].type = "SALE", invoices[i].status # "CANCELLED",
         invoices'[i] = [invoices[i] EXCEPT !.returned = @ + row.qty],
         \A j \in DOMAIN invoices : j # i => invoices'[j] = invoices[j],
         row.qty <= invoices[i].qty - invoices[i].returned,
         row.total <= invoices[i].total - GivenBack(i).total,
         row.qty = invoices[i].qty - invoices[i].returned => row.total = invoices[i].total - GivenBack(i).total,
         row.udhar <= invoices[i].udhar - GivenBack(i).udhar
  PROVE  RefundsCapped'
<1>1. PICK was, next : was = invoices[i] /\ next = invoices'[i]
  OBVIOUS
<1>2. /\ was \in InvoiceType /\ next = [was EXCEPT !.returned = @ + row.qty]
  BY <1>1 DEF BillsTyped
<1>3. /\ next.type = was.type /\ next.original = was.original /\ next.qty = was.qty /\ next.total = was.total
      /\ next.udhar = was.udhar /\ next.status = was.status /\ next.returned = was.returned + row.qty
  BY <1>2 DEF InvoiceType
<1>4. \A j \in DOMAIN invoices : ReturnTermsKept(j)
  BY <1>1, <1>3 DEF ReturnTermsKept
<1>5. Capped(i)'
  <2>1. /\ GivenBack(i)'.qty = GivenBack(i).qty + row.qty
        /\ GivenBack(i)'.total = GivenBack(i).total + row.total
        /\ GivenBack(i)'.udhar = GivenBack(i).udhar + row.udhar
    BY <1>4, GivenBackMore
  <2>2. PICK q, t, u : q = GivenBack(i).qty /\ t = GivenBack(i).total /\ u = GivenBack(i).udhar
    OBVIOUS
  <2>3. q \in Int /\ t \in Int /\ u \in Int
    BY <2>2, GivenBackInt
  <2>4. /\ was.qty \in Int /\ was.returned \in Int /\ was.total \in Int /\ was.udhar \in Int
        /\ row.qty \in Int /\ row.total \in Int /\ row.udhar \in Int
    BY <1>2 DEF InvoiceType
  <2>5. Capped(i)
    BY <1>1, CappedAll
  <2>6. /\ was.returned = q /\ was.returned <= was.qty /\ t <= was.total /\ u <= was.udhar
        /\ row.qty <= was.qty - was.returned /\ row.total <= was.total - t /\ row.udhar <= was.udhar - u
        /\ row.qty = was.qty - was.returned => row.total = was.total - t
    BY <1>1, <2>2, <2>5 DEF Capped
  <2>7. /\ next.returned = q + row.qty /\ next.returned <= next.qty
        /\ t + row.total <= next.total /\ u + row.udhar <= next.udhar
        /\ next.returned = next.qty => t + row.total = next.total
    BY <1>3, <2>3, <2>4, <2>6
  <2>8. next.status # "CANCELLED"
    BY <1>1, <1>3
  <2> QED BY <1>1, <2>1, <2>2, <2>7, <2>8 DEF Capped
<1>6. \A j \in DOMAIN invoices : j # i /\ invoices'[j].type = "SALE" => Capped(j)'
  <2>1. \A j \in DOMAIN invoices : j # i => ReturnsOf(j)' = ReturnsOf(j) /\ GivenBack(j)' = GivenBack(j)
    BY <1>4, GivenBackMore
  <2> QED BY <1>4, <2>1, CappedAll, CappedStays
<1>7. \A j \in DOMAIN invoices' : invoices'[j].type = "SALE" => Capped(j)'
  BY <1>5, <1>6
<1> QED BY <1>7, CappedAllNext

\* A bill of which nothing came back has no returns.
LEMMA NoneReturned ==
  ASSUME BillsTyped, BillsLinked, RefundsCapped, NEW i \in DOMAIN invoices, invoices[i].type = "SALE",
         invoices[i].returned = 0
  PROVE  ReturnsOf(i) = {}
<1>1. PICK f : f = [k \in ReturnsOf(i) |-> invoices[k].qty]
  OBVIOUS
<1>2. DOMAIN f = ReturnsOf(i) /\ \A k \in ReturnsOf(i) : f[k] \in Nat /\ f[k] > 0
  BY <1>1 DEF ReturnsOf, BillsTyped, BillsLinked, InvoiceType
<1>3. Added(f) = 0
  BY <1>1, CappedAll DEF Capped, GivenBack
<1>4. ASSUME NEW k \in ReturnsOf(i) PROVE FALSE
  <2>1. f[k] <= Added(f)
    BY <1>2, GivenBackInt, SumOneOfNat DEF Added
  <2> QED BY <1>2, <1>3, <1>4, <2>1
<1> QED BY <1>4

\* A cancellation of bill i, of which nothing came back.
LEMMA CappedCancel ==
  ASSUME BillsTyped, BillsLinked, RefundsCapped, NEW s, NEW i, BillCancelled(i, s), invoices[i].returned = 0,
         \A j \in DOMAIN invoices : j # i => invoices'[j] = invoices[j]
  PROVE  RefundsCapped'
<1>1. PICK was, next : was = invoices[i] /\ next = invoices'[i]
  OBVIOUS
<1>2. was \in InvoiceType /\ next = [was EXCEPT !.status = "CANCELLED", !.cancelShift = s]
  BY <1>1 DEF BillsTyped, BillCancelled
<1>3. /\ next.type = was.type /\ next.original = was.original /\ next.qty = was.qty /\ next.total = was.total
      /\ next.udhar = was.udhar /\ next.returned = was.returned
  BY <1>2 DEF InvoiceType
<1>4. \A j \in DOMAIN invoices :
        /\ ReturnTermsKept(j) /\ invoices'[j].returned = invoices[j].returned
        /\ j # i => invoices'[j].status = invoices[j].status
  BY <1>1, <1>3 DEF ReturnTermsKept
<1>5. \A j : ReturnsOf(j)' = ReturnsOf(j) /\ GivenBack(j)' = GivenBack(j)
  BY <1>4, GivenBackSame DEF BillCancelled
<1>6. ReturnsOf(i) = {}
  BY NoneReturned DEF BillCancelled
<1>7. \A j \in DOMAIN invoices : invoices'[j].type = "SALE" => Capped(j)'
  BY <1>4, <1>5, <1>6, CappedAll, CappedStays DEF ReturnTermsKept
<1>8. \A j \in DOMAIN invoices' : invoices'[j].type = "SALE" => Capped(j)'
  BY <1>7 DEF BillCancelled
<1> QED BY <1>8, CappedAllNext

LEMMA CappedSame ==
  ASSUME BillsTyped, RefundsCapped, invoices' = invoices
  PROVE  RefundsCapped'
<1>1. \A j \in DOMAIN invoices : ReturnTermsKept(j)
  BY DEF ReturnTermsKept
<1>2. \A j : ReturnsOf(j)' = ReturnsOf(j) /\ GivenBack(j)' = GivenBack(j)
  BY <1>1, GivenBackSame
<1>3. \A j \in DOMAIN invoices' : invoices'[j].type = "SALE" => Capped(j)'
  BY <1>1, <1>2, CappedAll, CappedStays
<1> QED BY <1>3, CappedAllNext

-----------------------------------------------------------------------------
(* The counters of the drawers *)

DrawersTyped == IsRows(shifts) /\ \A s \in DOMAIN shifts : shifts[s] \in ShiftType

\* Drawer s moves its counters, no other does.
CountersMove(s, expected, sales, credit, receipts, payouts) ==
  /\ DOMAIN shifts' = DOMAIN shifts
  /\ \A x \in DOMAIN shifts :
       /\ shifts'[x] \in ShiftType
       /\ shifts'[x].opening = shifts[x].opening /\ shifts'[x].status = shifts[x].status
       /\ shifts'[x].expected = shifts[x].expected + At(x, s, expected)
       /\ shifts'[x].sales = shifts[x].sales + At(x, s, sales)
       /\ shifts'[x].udhar = shifts[x].udhar + At(x, s, credit)
       /\ shifts'[x].receipts = shifts[x].receipts + At(x, s, receipts)
       /\ shifts'[x].payouts = shifts[x].payouts + At(x, s, payouts)

LEMMA CountersStay ==
  ASSUME DrawersTyped, shifts' = shifts, NEW s,
         NEW de, NEW ds, NEW du, NEW dr, NEW dp,
         s \notin DOMAIN shifts \/ (de = 0 /\ ds = 0 /\ du = 0 /\ dr = 0 /\ dp = 0)
  PROVE  CountersMove(s, de, ds, du, dr, dp)
  BY DEF DrawersTyped, CountersMove, At, ShiftType

\* The row of a drawer whose counters move.
Moved(was, row, expected, sales, credit, receipts, payouts) ==
  /\ row \in ShiftType /\ row.opening = was.opening /\ row.status = was.status
  /\ row.expected = was.expected + expected /\ row.sales = was.sales + sales
  /\ row.udhar = was.udhar + credit
  /\ row.receipts = was.receipts + receipts /\ row.payouts = was.payouts + payouts

LEMMA CountersOfRow ==
  ASSUME DrawersTyped, NEW s \in DOMAIN shifts, NEW row, shifts' = [shifts EXCEPT ![s] = row],
         NEW de, NEW ds, NEW du, NEW dr, NEW dp, Moved(shifts[s], row, de, ds, du, dr, dp)
  PROVE  CountersMove(s, de, ds, du, dr, dp)
<1>1. DOMAIN shifts' = DOMAIN shifts /\ shifts'[s] = row /\ \A x \in DOMAIN shifts : x # s => shifts'[x] = shifts[x]
  BY ChangeRow DEF DrawersTyped
<1>2. ASSUME NEW x \in DOMAIN shifts, x # s
      PROVE  /\ shifts'[x] \in ShiftType
             /\ shifts'[x].opening = shifts[x].opening /\ shifts'[x].status = shifts[x].status
             /\ shifts'[x].expected = shifts[x].expected + At(x, s, de)
             /\ shifts'[x].sales = shifts[x].sales + At(x, s, ds)
             /\ shifts'[x].udhar = shifts[x].udhar + At(x, s, du)
             /\ shifts'[x].receipts = shifts[x].receipts + At(x, s, dr)
             /\ shifts'[x].payouts = shifts[x].payouts + At(x, s, dp)
  <2>1. shifts'[x] = shifts[x] /\ \A d : At(x, s, d) = 0
    BY <1>1, <1>2 DEF At
  <2>2. /\ shifts[x] \in ShiftType /\ shifts[x].expected \in Int /\ shifts[x].sales \in Int
        /\ shifts[x].udhar \in Int /\ shifts[x].receipts \in Int /\ shifts[x].payouts \in Int
    BY DEF DrawersTyped, ShiftType
  <2> QED BY <2>1, <2>2
<1>3. \A d : At(s, s, d) = d
  BY DEF At
<1> QED BY <1>1, <1>2, <1>3 DEF CountersMove, Moved

LEMMA MoveDrawerMoves ==
  ASSUME DrawersTyped, NEW s \in {0} \cup DOMAIN shifts,
         NEW total \in Int, NEW cash \in Int, NEW bank \in Int, NEW credit \in Int,
         MoveDrawer(s, total, cash, bank, credit)
  PROVE  CountersMove(s, cash, total, credit, 0, 0)
<1>0. 0 \notin DOMAIN shifts
  BY RowsFinite DEF DrawersTyped
<1>1. CASE s = 0
  BY <1>0, <1>1, CountersStay DEF MoveDrawer
<1>2. CASE s # 0
  <2>1. PICK was : was = shifts[s] /\ was \in ShiftType
    BY <1>2 DEF DrawersTyped
  <2>2. /\ was.sales \in Int /\ was.cash \in Int /\ was.bank \in Int /\ was.udhar \in Int /\ was.expected \in Int
        /\ was.receipts \in Int /\ was.payouts \in Int
    BY <2>1 DEF ShiftType
  <2>3. PICK a, b, c, d, e :
          /\ a = was.sales + total /\ b = was.cash + cash /\ c = was.bank + bank /\ d = was.udhar + credit
          /\ e = was.expected + cash
    OBVIOUS
  <2>31. a \in Int /\ b \in Int /\ c \in Int /\ d \in Int /\ e \in Int
    BY <2>2, <2>3
  <2>4. PICK row : row = [was EXCEPT !.sales = a, !.cash = b, !.bank = c, !.udhar = d, !.expected = e]
    OBVIOUS
  <2>5. /\ row \in ShiftType /\ row.opening = was.opening /\ row.status = was.status
        /\ row.expected = e /\ row.sales = a /\ row.udhar = d
        /\ row.receipts = was.receipts /\ row.payouts = was.payouts
    BY <2>1, <2>31, <2>4 DEF ShiftType
  <2>6. Moved(was, row, cash, total, credit, 0, 0)
    BY <2>2, <2>3, <2>5 DEF Moved
  <2>7. shifts' = [shifts EXCEPT ![s] = row]
    BY <1>2, <2>1, <2>3, <2>4 DEF MoveDrawer
  <2> QED BY <1>2, <2>1, <2>6, <2>7, CountersOfRow
<1> QED BY <1>1, <1>2

LEMMA RepaymentMoves ==
  ASSUME DrawersTyped, NEW r \in Request, NEW s \in {0} \cup DOMAIN shifts, NEW balance, BookRepayment(r, s, balance),
         NEW cash \in Int, cash = IF r.tender = "CASH" THEN r.amount ELSE 0
  PROVE  CountersMove(s, cash, 0, 0, r.amount, 0)
<1>0. 0 \notin DOMAIN shifts /\ r.amount \in Int
  BY RowsFinite DEF DrawersTyped, Request
<1>1. CASE s = 0
  BY <1>0, <1>1, CountersStay DEF BookRepayment
<1>2. CASE s # 0
  <2>1. PICK was : was = shifts[s] /\ was \in ShiftType
    BY <1>2 DEF DrawersTyped
  <2>2. /\ was.sales \in Int /\ was.udhar \in Int /\ was.expected \in Int
        /\ was.receipts \in Int /\ was.payouts \in Int
    BY <2>1 DEF ShiftType
  <2>3. PICK a \in Int, e \in Int : a = was.receipts + r.amount /\ e = was.expected + cash
    BY <1>0, <2>2
  <2>4. PICK row : row = [was EXCEPT !.receipts = a, !.expected = e]
    OBVIOUS
  <2>5. /\ row \in ShiftType /\ row.opening = was.opening /\ row.status = was.status
        /\ row.expected = e /\ row.sales = was.sales /\ row.udhar = was.udhar
        /\ row.receipts = a /\ row.payouts = was.payouts
    BY <2>1, <2>4 DEF ShiftType
  <2>6. Moved(was, row, cash, 0, 0, r.amount, 0)
    BY <2>2, <2>3, <2>5 DEF Moved
  <2>7. shifts' = [shifts EXCEPT ![s].receipts = @ + r.amount, ![s].expected = @ + cash]
    BY <1>2 DEF BookRepayment
  <2>8. shifts' = [shifts EXCEPT ![s] = row]
    BY <1>2, <2>1, <2>3, <2>4, <2>7
  <2> QED BY <1>2, <2>1, <2>6, <2>8, CountersOfRow
<1> QED BY <1>1, <1>2

\* An expense moves an open drawer alone.
LEMMA PayoutMoves ==
  ASSUME DrawersTyped, NEW s \in {0} \cup DOMAIN shifts, NEW was, NEW next, PayFromDrawer(s, was, next),
         NEW paid \in Int, paid = Payout(was, next)
  PROVE  /\ s # 0 /\ shifts[s].status = "OPEN" => CountersMove(s, 0 - paid, 0, 0, 0, paid)
         /\ ~(s # 0 /\ shifts[s].status = "OPEN") => CountersMove(0, 0, 0, 0, 0, 0)
<1>1. CASE ~(s # 0 /\ shifts[s].status = "OPEN")
  BY <1>1, CountersStay DEF PayFromDrawer
<1>2. CASE s # 0 /\ shifts[s].status = "OPEN"
  <2>1. PICK row0 : row0 = shifts[s] /\ row0 \in ShiftType
    BY <1>2 DEF DrawersTyped
  <2>2. /\ row0.sales \in Int /\ row0.udhar \in Int /\ row0.expected \in Int
        /\ row0.receipts \in Int /\ row0.payouts \in Int
    BY <2>1 DEF ShiftType
  <2>3. PICK a \in Int, e \in Int : a = row0.payouts + paid /\ e = row0.expected - paid
    BY <2>2
  <2>4. PICK row : row = [row0 EXCEPT !.expected = e, !.payouts = a]
    OBVIOUS
  <2>5. /\ row \in ShiftType /\ row.opening = row0.opening /\ row.status = row0.status
        /\ row.expected = e /\ row.sales = row0.sales /\ row.udhar = row0.udhar
        /\ row.receipts = row0.receipts /\ row.payouts = a
    BY <2>1, <2>4 DEF ShiftType
  <2>6. Moved(row0, row, 0 - paid, 0, 0, 0, paid)
    BY <2>2, <2>3, <2>5 DEF Moved
  <2>7. shifts' = [shifts EXCEPT ![s] = row]
    BY <1>2, <2>1, <2>3, <2>4 DEF PayFromDrawer
  <2>8. CountersMove(s, 0 - paid, 0, 0, 0, paid)
    BY <1>2, <2>1, <2>6, <2>7, CountersOfRow
  <2> QED BY <1>2, <2>8
<1> QED BY <1>1, <1>2

\* The counters of one drawer are what the documents that name it add up to.
Rebuilt(x) ==
  /\ shifts[x].expected =
       shifts[x].opening + OnDrawers(x).cash + Receipts(x).cash - shifts[x].payouts
  /\ shifts[x].status = "OPEN" => shifts[x].payouts = SpentOn(x)
  /\ shifts[x].sales = OnDrawers(x).sales
  /\ shifts[x].udhar = OnDrawers(x).udhar
  /\ shifts[x].receipts = Receipts(x).all

LEMMA RebuiltAll == DrawersRebuild <=> \A x \in DOMAIN shifts : Rebuilt(x)
  BY DEF DrawersRebuild, Rebuilt, OnDrawers, Receipts, SpentOn

LEMMA RebuiltAllNext ==
  ASSUME \A x \in DOMAIN shifts' : Rebuilt(x)'
  PROVE  DrawersRebuild'
  BY DEF DrawersRebuild, Rebuilt, OnDrawers, Receipts, SpentOn

\* The sums are numbers.
SumsTyped ==
  /\ \A i \in DOMAIN invoices : CreditReversed(i) \in Int
  /\ \A x : OnDrawers(x) \in DrawerSums /\ Receipts(x) \in [all : Int, cash : Int] /\ SpentOn(x) \in Int
  /\ SoldInAll \in Int /\ OutlayInAll \in Int

LEMMA SumsAreTyped ==
  ASSUME BillsTyped, MovementsTyped, ExpensesTyped
  PROVE  SumsTyped
<1>1. \A i \in DOMAIN invoices : CreditReversed(i) \in Int
  BY ReversedInt
<1>2. \A x : OnDrawers(x) \in DrawerSums /\ SoldInAll \in Int
  BY <1>1, OnDrawersInt
<1>3. \A x : Receipts(x) \in [all : Int, cash : Int]
  BY ReceiptsInt
<1>4. \A x : SpentOn(x) \in Int /\ OutlayInAll \in Int
  BY SpentInt
<1> QED BY <1>1, <1>2, <1>3, <1>4 DEF SumsTyped

\* What a flow adds to what the documents say of drawer s, and it is nothing for the others.
DocumentsMove(s, cash, sales, credit, receipts, cashReceipts, payouts) ==
  \A x \in DOMAIN shifts :
    /\ OnDrawers(x)'.cash = OnDrawers(x).cash + At(x, s, cash)
    /\ OnDrawers(x)'.sales = OnDrawers(x).sales + At(x, s, sales)
    /\ OnDrawers(x)'.udhar = OnDrawers(x).udhar + At(x, s, credit)
    /\ Receipts(x)'.all = Receipts(x).all + At(x, s, receipts)
    /\ Receipts(x)'.cash = Receipts(x).cash + At(x, s, cashReceipts)
    /\ shifts[x].status = "OPEN" => SpentOn(x)' = SpentOn(x) + At(x, s, payouts)

\* A flow that moves the counters by what it adds to the documents keeps them together.
LEMMA RebuiltKept ==
  ASSUME DrawersTyped, SumsTyped, DrawersRebuild, NEW s,
         NEW dc \in Int, NEW ds \in Int, NEW du \in Int, NEW dr \in Int, NEW drc \in Int, NEW dp \in Int,
         DocumentsMove(s, dc, ds, du, dr, drc, dp),
         NEW de, CountersMove(s, de, ds, du, dr, dp), de = dc + drc - dp
  PROVE  DrawersRebuild' /\ \A x \in DOMAIN shifts' : shifts'[x] \in ShiftType
<1>1. ASSUME NEW x \in DOMAIN shifts
      PROVE  Rebuilt(x)'
  <2>1. PICK was, next, on, rc, sp : was = shifts[x] /\ next = shifts'[x] /\ on = OnDrawers(x) /\ rc = Receipts(x)
                                     /\ sp = SpentOn(x)
    OBVIOUS
  <2>2. PICK onn, rcn, spn : onn = OnDrawers(x)' /\ rcn = Receipts(x)' /\ spn = SpentOn(x)'
    OBVIOUS
  <2>3. PICK ac, as, au, ar, arc, ap, ae :
          /\ ac = At(x, s, dc) /\ as = At(x, s, ds) /\ au = At(x, s, du)
          /\ ar = At(x, s, dr) /\ arc = At(x, s, drc) /\ ap = At(x, s, dp) /\ ae = At(x, s, de)
    OBVIOUS
  <2>4. /\ ac \in Int /\ as \in Int /\ au \in Int /\ ar \in Int /\ arc \in Int /\ ap \in Int
        /\ ae = ac + arc - ap
    BY <2>3 DEF At
  <2>5. /\ was.expected \in Int /\ was.opening \in Int /\ was.payouts \in Int /\ was.sales \in Int
        /\ was.udhar \in Int /\ was.receipts \in Int
    BY <2>1 DEF DrawersTyped, ShiftType
  <2>6. on.cash \in Int /\ on.sales \in Int /\ on.udhar \in Int /\ rc.all \in Int /\ rc.cash \in Int /\ sp \in Int
    BY <2>1 DEF SumsTyped, DrawerSums
  <2>7. /\ was.expected = was.opening + on.cash + rc.cash - was.payouts
        /\ was.status = "OPEN" => was.payouts = sp
        /\ was.sales = on.sales /\ was.udhar = on.udhar /\ was.receipts = rc.all
    BY <2>1, RebuiltAll DEF Rebuilt
  <2>8. /\ next.opening = was.opening /\ next.status = was.status /\ next.expected = was.expected + ae
        /\ next.sales = was.sales + as /\ next.udhar = was.udhar + au /\ next.receipts = was.receipts + ar
        /\ next.payouts = was.payouts + ap
    BY <2>1, <2>3 DEF CountersMove
  <2>9. /\ onn.cash = on.cash + ac /\ onn.sales = on.sales + as /\ onn.udhar = on.udhar + au
        /\ rcn.all = rc.all + ar /\ rcn.cash = rc.cash + arc
        /\ was.status = "OPEN" => spn = sp + ap
    BY <2>1, <2>2, <2>3 DEF DocumentsMove
  <2>10. /\ next.expected = next.opening + onn.cash + rcn.cash - next.payouts
         /\ next.status = "OPEN" => next.payouts = spn
         /\ next.sales = onn.sales /\ next.udhar = onn.udhar /\ next.receipts = rcn.all
    BY <2>4, <2>5, <2>6, <2>7, <2>8, <2>9
  <2> QED BY <2>1, <2>2, <2>10 DEF Rebuilt
<1>2. DOMAIN shifts' = DOMAIN shifts /\ \A x \in DOMAIN shifts : shifts'[x] \in ShiftType
  BY DEF CountersMove
<1> QED BY <1>1, <1>2, RebuiltAllNext

-----------------------------------------------------------------------------
(* The accounts *)

\* What a posting does to the accounts the sums are compared with.
AccountsMove(receivable, spent, goods) ==
  /\ ledger' \in [Account -> Int]
  /\ ledger'["RECEIVABLE"] = ledger["RECEIVABLE"] + receivable
  /\ ledger'["EXPENSES"] = ledger["EXPENSES"] + spent
  /\ ledger'["INVENTORY"] = ledger["INVENTORY"] + goods

LEMMA PostMoves ==
  ASSUME ledger \in [Account -> Int], NEW entries \in [Account -> Int], Post(entries)
  PROVE  AccountsMove(entries["RECEIVABLE"], entries["EXPENSES"], entries["INVENTORY"])
  BY DEF Post, AccountsMove, Account

LEMMA BillPosted ==
  ASSUME ledger \in [Account -> Int], NEW cash \in Int, NEW bank \in Int, NEW credit \in Int,
         NEW total \in Int, NEW goods \in Int, Post(Entries(cash, bank, credit, total, goods))
  PROVE  AccountsMove(credit, 0, 0 - goods)
<1>1. PICK e : e = Entries(cash, bank, credit, total, goods)
  OBVIOUS
<1>2. /\ e \in [Account -> Int] /\ e["RECEIVABLE"] = credit /\ e["EXPENSES"] = 0
      /\ e["INVENTORY"] = 0 - goods
  BY <1>1 DEF Entries, NoEntries, Account
<1>3. AccountsMove(e["RECEIVABLE"], e["EXPENSES"], e["INVENTORY"])
  BY <1>1, <1>2, PostMoves
<1> QED BY <1>2, <1>3

\* The accounts keep up with what they are compared with.
LEMMA AccountsAgree ==
  ASSUME RowsTyped, SumsTyped, ReceivablesMatch, ExpensesOnBooks, StockMatchesBooks,
         NEW credit \in Int, NEW spent \in Int, NEW goods \in Int, AccountsMove(credit, spent, goods),
         NEW owed \in Int, owed = Owed, Owed' = Owed + credit, OutlayInAll' = OutlayInAll + spent,
         SoldInAll' = SoldInAll - goods, onHand' = onHand + goods, onHand' >= 0
  PROVE  ReceivablesMatch' /\ ExpensesOnBooks' /\ StockMatchesBooks' /\ onHand' \in Int
<1>1. PICK sold, outlay : sold = SoldInAll /\ outlay = OutlayInAll /\ sold \in Int /\ outlay \in Int
  BY DEF SumsTyped
<1>2. PICK rec, exp, inv : /\ rec = ledger["RECEIVABLE"] /\ exp = ledger["EXPENSES"] /\ inv = ledger["INVENTORY"]
                           /\ rec \in Int /\ exp \in Int /\ inv \in Int
  BY DEF RowsTyped, Account
<1>3. rec = owed /\ exp = outlay /\ onHand = Stock - sold /\ inv = onHand - Stock
  BY <1>1, <1>2 DEF ReceivablesMatch, Owed, ExpensesOnBooks, OutlayInAll, StockMatchesBooks, SoldInAll
<1>4. /\ ledger'["RECEIVABLE"] = rec + credit /\ ledger'["EXPENSES"] = exp + spent
      /\ ledger'["INVENTORY"] = inv + goods
  BY <1>2 DEF AccountsMove
<1>5. onHand \in Int /\ Stock \in Int
  BY ShopAssumption DEF RowsTyped
<1>6. ReceivablesMatch'
  <2>1. Owed' = owed + credit
    OBVIOUS
  <2> QED BY <1>3, <1>4, <2>1 DEF ReceivablesMatch, Owed
<1>7. ExpensesOnBooks'
  BY <1>1, <1>3, <1>4 DEF ExpensesOnBooks, OutlayInAll
<1>8. StockMatchesBooks' /\ onHand' \in Int
  <2>1. SoldInAll' = sold - goods
    BY <1>1
  <2>2. onHand' = Stock - (sold - goods) /\ inv + goods = onHand' - Stock /\ onHand' \in Int
    BY <1>1, <1>2, <1>3, <1>5
  <2> QED BY <1>4, <2>1, <2>2 DEF StockMatchesBooks, SoldInAll
<1> QED BY <1>6, <1>7, <1>8

LEMMA OwedInt ==
  ASSUME customers \in [Customer -> [balance : Int, deleted : BOOLEAN]]
  PROVE  Owed \in Int
<1>1. PICK f : f = [c \in Customer |-> customers[c].balance]
  OBVIOUS
<1>2. IsFiniteSet(DOMAIN f) /\ \A c \in DOMAIN f : f[c] \in Int
  BY <1>1, ShopAssumption
<1>3. Added(f) \in Int
  BY <1>2, AddedInt
<1> QED BY <1>1, <1>3 DEF Owed

-----------------------------------------------------------------------------
(* The books are sound: an inductive invariant of the flows *)

BooksSound == RowsTyped /\ BillsLinked /\ MovementsLinked /\ ExpensesPosted /\ SumsHold

LEMMA TablesTyped ==
  ASSUME BooksShaped, RowsTyped
  PROVE  BillsTyped /\ MovementsTyped /\ ExpensesTyped /\ DrawersTyped /\ SumsTyped /\ Owed \in Int
<1>1. BillsTyped /\ MovementsTyped /\ ExpensesTyped /\ DrawersTyped
  BY DEF BooksShaped, InvoicesShaped, CustomersShaped, ExpensesShaped, ShiftsShaped, RowsTyped,
         BillsTyped, MovementsTyped, ExpensesTyped, DrawersTyped
<1> QED BY <1>1, SumsAreTyped, OwedInt DEF RowsTyped

\* The documents alone decide the sums.
LEMMA SumsSame ==
  ASSUME UNCHANGED <<invoices, udhar, expenses>>
  PROVE  /\ \A i : CreditReversed(i)' = CreditReversed(i)
         /\ \A x : OnDrawers(x)' = OnDrawers(x) /\ Receipts(x)' = Receipts(x) /\ SpentOn(x)' = SpentOn(x)
         /\ SoldInAll' = SoldInAll /\ OutlayInAll' = OutlayInAll
<1>1. \A i : CreditReversed(i)' = CreditReversed(i)
  BY DEF CreditReversed
<1>2. \A i : PaidBack(i)' = PaidBack(i)
  BY <1>1 DEF PaidBack
<1>3. \A x : CashOn(x)' = CashOn(x) /\ SalesOn(x)' = SalesOn(x) /\ UdharOn(x)' = UdharOn(x)
  BY <1>1, <1>2 DEF CashOn, SalesOn, UdharOn
<1>4. \A x : ReceiptsOn(x)' = ReceiptsOn(x) /\ CashReceiptsOn(x)' = CashReceiptsOn(x) /\ PayoutsOn(x)' = PayoutsOn(x)
  BY DEF ReceiptsOn, CashReceiptsOn, PayoutsOn
<1> QED BY <1>1, <1>3, <1>4 DEF OnDrawers, Receipts, SpentOn, SoldInAll, OutlayInAll

LEMMA LinksSame ==
  ASSUME BillsLinked, MovementsLinked, ExpensesPosted, UNCHANGED <<invoices, udhar, expenses>>,
         DOMAIN shifts \subseteq DOMAIN shifts'
  PROVE  BillsLinked' /\ MovementsLinked' /\ ExpensesPosted'
  BY DEF BillsLinked, MovementsLinked, ExpensesPosted

\* The flows that write nothing the accounts are compared with.
LEMMA AccountsSame ==
  ASSUME ReceivablesMatch, ExpensesOnBooks, StockMatchesBooks, UNCHANGED <<invoices, expenses, onHand, ledger>>,
         Owed' = Owed
  PROVE  ReceivablesMatch' /\ ExpensesOnBooks' /\ StockMatchesBooks'
  BY DEF ReceivablesMatch, ExpensesOnBooks, StockMatchesBooks, Owed

LEMMA CloseShiftBooks ==
  ASSUME BooksShaped, BooksSound, NEW r \in Request, CloseShift(r)
  PROVE  BooksSound'
<1>1. PICK s : s \in DOMAIN shifts /\ BookCloseShift(s)
  BY OwnShift DEF CloseShift, ClosesShift, MayUseShift, OpenShifts, BooksShaped
<1>2. UNCHANGED <<invoices, udhar, customers, expenses, lastNumber, onHand, ledger>>
  BY <1>1 DEF BookCloseShift
<1>3. PICK was : was = shifts[s]
  OBVIOUS
<1>4. PICK row : row = [was EXCEPT !.status = "CLOSED"]
  OBVIOUS
<1>5. /\ row \in ShiftType /\ row.opening = was.opening /\ row.expected = was.expected
      /\ row.sales = was.sales /\ row.udhar = was.udhar /\ row.receipts = was.receipts
      /\ row.payouts = was.payouts /\ row.status = "CLOSED"
  BY <1>1, <1>3, <1>4 DEF BooksSound, RowsTyped, ShiftType
<1>6. shifts' = [shifts EXCEPT ![s] = row]
  BY <1>1, <1>3, <1>4 DEF BookCloseShift
<1>7. DOMAIN shifts' = DOMAIN shifts /\ \A x \in DOMAIN shifts : shifts'[x] = IF x = s THEN row ELSE shifts[x]
  BY <1>6, ChangeRow DEF BooksShaped, ShiftsShaped
<1>8. \A x : OnDrawers(x)' = OnDrawers(x) /\ Receipts(x)' = Receipts(x)
  BY <1>2, SumsSame
<1>81. \A x : SpentOn(x)' = SpentOn(x)
  BY <1>2, SumsSame
<1>9. \A x \in DOMAIN shifts : Rebuilt(x)
  BY RebuiltAll DEF BooksSound, SumsHold
<1>10. ASSUME NEW x \in DOMAIN shifts PROVE Rebuilt(x)'
  <2>1. CASE x = s
    BY <1>3, <1>5, <1>7, <1>8, <1>9, <2>1 DEF Rebuilt
  <2>2. CASE x # s
    BY <1>7, <1>8, <1>81, <1>9, <2>2 DEF Rebuilt
  <2> QED BY <2>1, <2>2
<1>11. DrawersRebuild'
  BY <1>7, <1>10, RebuiltAllNext
<1>12. RowsTyped'
  BY <1>2, <1>5, <1>7 DEF BooksSound, RowsTyped
<1>13. BillsLinked' /\ MovementsLinked' /\ ExpensesPosted'
  BY <1>2, <1>7, LinksSame DEF BooksSound
<1>14. ReceivablesMatch' /\ ExpensesOnBooks' /\ StockMatchesBooks'
  BY <1>2, OwedSame, AccountsSame DEF BooksSound, SumsHold
<1>15. RefundsCapped'
  BY <1>2, CappedSame, TablesTyped DEF BooksSound, SumsHold
<1> QED BY <1>11, <1>12, <1>13, <1>14, <1>15 DEF BooksSound, SumsHold

\* No row names a drawer that is not there.
LEMMA NothingBooked ==
  ASSUME BooksShaped, RowsTyped, BillsLinked, MovementsLinked, NEW n, n \notin {0} \cup DOMAIN shifts
  PROVE  /\ OnDrawers(n) = [cash |-> 0, sales |-> 0, udhar |-> 0]
         /\ Receipts(n) = [all |-> 0, cash |-> 0] /\ SpentOn(n) = 0
<1>0. /\ IsFiniteSet(DOMAIN invoices) /\ IsFiniteSet(DOMAIN udhar) /\ IsFiniteSet(DOMAIN expenses)
  BY RowsFinite DEF BooksShaped, InvoicesShaped, CustomersShaped, ExpensesShaped
<1>1. \A f : IsFiniteSet(DOMAIN f) /\ (\A x \in DOMAIN f : f[x] = 0) => Added(f) = 0
  BY SumZero DEF Added
<1>2. PICK f, g, h : f = CashOn(n) /\ g = SalesOn(n) /\ h = UdharOn(n)
  OBVIOUS
<1>3. \A i \in DOMAIN invoices : \A amount : Booked(invoices[i], n, amount) = 0 /\ Undone(invoices[i], n, amount) = 0
  BY DEF Booked, Undone, BooksShaped, InvoicesShaped, BillsLinked
<1>4. /\ DOMAIN f = DOMAIN invoices /\ DOMAIN g = DOMAIN invoices /\ DOMAIN h = DOMAIN invoices
      /\ \A i \in DOMAIN invoices : f[i] = 0 /\ g[i] = 0 /\ h[i] = 0
  BY <1>2, <1>3 DEF CashOn, SalesOn, UdharOn
<1>5. Added(f) = 0 /\ Added(g) = 0 /\ Added(h) = 0
  BY <1>0, <1>1, <1>4
<1>6. PICK k, l, p : k = ReceiptsOn(n) /\ l = CashReceiptsOn(n) /\ p = PayoutsOn(n)
  OBVIOUS
<1>7. /\ DOMAIN k = DOMAIN udhar /\ DOMAIN l = DOMAIN udhar /\ DOMAIN p = DOMAIN expenses
      /\ \A u \in DOMAIN udhar : k[u] = 0 /\ l[u] = 0
      /\ \A e \in DOMAIN expenses : p[e] = 0
  BY <1>6 DEF ReceiptsOn, CashReceiptsOn, PayoutsOn, Received, MovementsLinked, BooksShaped, ExpensesShaped
<1>8. Added(k) = 0 /\ Added(l) = 0 /\ Added(p) = 0
  BY <1>0, <1>1, <1>7
<1> QED BY <1>2, <1>5, <1>6, <1>8 DEF OnDrawers, Receipts, SpentOn

LEMMA OpenShiftBooks ==
  ASSUME BooksShaped, BooksSound, NEW r \in Request, OpenShift(r)
  PROVE  BooksSound'
<1>1. PICK n, row : n = Len(shifts) + 1 /\ row = NewShift(r.actor, r.amount)
  OBVIOUS
<1>2. shifts' = Append(shifts, row)
  BY <1>1 DEF OpenShift, BookOpenShift
<1>3. UNCHANGED <<invoices, udhar, customers, expenses, lastNumber, onHand, ledger>>
  BY DEF OpenShift, BookOpenShift
<1>4. /\ DOMAIN shifts' = DOMAIN shifts \cup {n} /\ n \notin DOMAIN shifts /\ n # 0
      /\ shifts'[n] = row /\ \A x \in DOMAIN shifts : shifts'[x] = shifts[x]
  <2>1. IsRows(shifts) /\ Len(shifts) \in Nat
    BY DEF BooksShaped, ShiftsShaped, IsRows
  <2> QED BY <1>1, <1>2, <2>1, AppendRow
<1>5. /\ row \in ShiftType /\ row.opening = row.expected /\ row.opening \in Int /\ row.sales = 0 /\ row.udhar = 0
      /\ row.receipts = 0 /\ row.payouts = 0
  BY <1>1 DEF NewShift, ShiftType, Request
<1>6. \A x : OnDrawers(x)' = OnDrawers(x) /\ Receipts(x)' = Receipts(x)
  BY <1>3, SumsSame
<1>7. \A x : SpentOn(x)' = SpentOn(x)
  BY <1>3, SumsSame
<1>8. /\ OnDrawers(n) = [cash |-> 0, sales |-> 0, udhar |-> 0]
      /\ Receipts(n) = [all |-> 0, cash |-> 0] /\ SpentOn(n) = 0
  BY <1>4, NothingBooked DEF BooksSound
<1>9. Rebuilt(n)'
  BY <1>4, <1>5, <1>6, <1>7, <1>8 DEF Rebuilt
<1>10. \A x \in DOMAIN shifts : Rebuilt(x)
  BY RebuiltAll DEF BooksSound, SumsHold
<1>11. \A x \in DOMAIN shifts : Rebuilt(x)'
  BY <1>4, <1>6, <1>7, <1>10 DEF Rebuilt
<1>12. DrawersRebuild'
  BY <1>4, <1>9, <1>11, RebuiltAllNext
<1>13. RowsTyped'
  BY <1>3, <1>4, <1>5 DEF BooksSound, RowsTyped
<1>14. BillsLinked' /\ MovementsLinked' /\ ExpensesPosted'
  BY <1>3, <1>4, LinksSame DEF BooksSound
<1>15. ReceivablesMatch' /\ ExpensesOnBooks' /\ StockMatchesBooks'
  BY <1>3, OwedSame, AccountsSame DEF BooksSound, SumsHold
<1>16. RefundsCapped'
  BY <1>3, CappedSame, TablesTyped DEF BooksSound, SumsHold
<1> QED BY <1>12, <1>13, <1>14, <1>15, <1>16 DEF BooksSound, SumsHold

LEMMA DeleteBooks ==
  ASSUME BooksShaped, BooksSound, NEW r \in Request, r.customer \in Customer, Delete(r)
  PROVE  BooksSound'
<1>1. /\ customers' = [customers EXCEPT ![r.customer].deleted = TRUE]
      /\ UNCHANGED <<invoices, udhar, shifts, expenses, lastNumber, onHand, ledger>>
  BY DEF Delete, BookDelete
<1>2. customers \in [Customer -> [balance : Int, deleted : BOOLEAN]]
  BY DEF BooksSound, RowsTyped
<1>3. /\ customers' \in [Customer -> [balance : Int, deleted : BOOLEAN]]
      /\ \A c \in Customer : customers'[c].balance = customers[c].balance
  BY <1>1, <1>2
<1>4. DrawersRebuild'
  <2>1. \A x : OnDrawers(x)' = OnDrawers(x) /\ Receipts(x)' = Receipts(x)
    BY <1>1, SumsSame
  <2>2. \A x : SpentOn(x)' = SpentOn(x)
    BY <1>1, SumsSame
  <2>3. \A x \in DOMAIN shifts : Rebuilt(x)
    BY RebuiltAll DEF BooksSound, SumsHold
  <2>4. \A x \in DOMAIN shifts' : Rebuilt(x)'
    BY <1>1, <2>1, <2>2, <2>3 DEF Rebuilt
  <2> QED BY <2>4, RebuiltAllNext
<1>5. RowsTyped'
  BY <1>1, <1>3 DEF BooksSound, RowsTyped
<1>6. BillsLinked' /\ MovementsLinked' /\ ExpensesPosted'
  BY <1>1, LinksSame DEF BooksSound
<1>7. ReceivablesMatch' /\ ExpensesOnBooks' /\ StockMatchesBooks'
  BY <1>1, <1>3, OwedSame, AccountsSame DEF BooksSound, SumsHold
<1>8. RefundsCapped'
  BY <1>1, CappedSame, TablesTyped DEF BooksSound, SumsHold
<1> QED BY <1>4, <1>5, <1>6, <1>7, <1>8 DEF BooksSound, SumsHold

-----------------------------------------------------------------------------
(* Amounts *)

\* A bill's total is not negative, and nothing for nothing.
LEMMA TotalNat ==
  ASSUME NEW q \in Nat
  PROVE  Total(q) \in Nat /\ (q = 0 => Total(q) = 0)
<1>1. PICK p, m : p = Price /\ m = Rupee /\ p \in Nat \ {0} /\ m \in Nat \ {0}
  BY ShopAssumption
<1>2. PICK worth : worth = 2 * p * q + m
  OBVIOUS
<1>3. PICK n : n = worth \div (2 * m)
  OBVIOUS
<1>4. 2 * p * q \in Nat /\ (q = 0 => 2 * p * q = 0)
  BY <1>1
<1>5. worth \in Nat /\ 2 * m \in Nat \ {0}
  BY <1>1, <1>2, <1>4
<1>6. n \in Nat
  BY <1>3, <1>5
<1>7. q = 0 => n = 0
  <2>1. q = 0 => worth = m
    BY <1>1, <1>2, <1>4
  <2>2. m \div (2 * m) = 0
    BY <1>1
  <2> QED BY <1>3, <2>1, <2>2
<1>8. n * m \in Nat /\ (q = 0 => n * m = 0)
  BY <1>1, <1>6, <1>7
<1> QED BY <1>1, <1>2, <1>3, <1>8 DEF Total

\* A refund is within what is left of the sale, and all of it with the last pieces.
LEMMA RefundBounds ==
  ASSUME NEW r \in Request, NEW left \in Int, left = invoices[r.invoice].total - Refunded(r.invoice), left >= 0,
         ReturnQty(r) \in Nat
  PROVE  /\ RefundTotal(r) \in 0 .. left
         /\ ReturnQty(r) = Returnable(r.invoice) => RefundTotal(r) = left
<1>1. PICK q : q = ReturnQty(r) /\ q \in Nat
  OBVIOUS
<1>2. PICK worth : worth = Price * q
  OBVIOUS
<1>3. worth \in Nat
  BY <1>1, <1>2, ShopAssumption
<1>4. RefundTotal(r) = IF q = Returnable(r.invoice) THEN LargerOf(left, 0) ELSE SmallerOf(worth, LargerOf(left, 0))
  BY <1>1, <1>2 DEF RefundTotal
<1> QED BY <1>1, <1>3, <1>4 DEF LargerOf, SmallerOf

\* The credit a return cancels is within the refund and within what is left of the sale's.
LEMMA ReturnedBounds ==
  ASSUME NEW r \in Request, NEW balance \in Int, NEW left \in Int,
         left = invoices[r.invoice].udhar - ReversedUdhar(r.invoice), left >= 0, RefundTotal(r) \in Nat
  PROVE  ReturnedUdhar(r, balance) \in 0 .. left
<1>1. PICK total : total = RefundTotal(r) /\ total \in Nat
  OBVIOUS
<1>2. ReturnedUdhar(r, balance) =
        IF invoices[r.invoice].customer = NoCustomer THEN 0
        ELSE SmallerOf(LargerOf(balance, 0), SmallerOf(total, LargerOf(left, 0)))
  BY <1>1 DEF ReturnedUdhar
<1> QED BY <1>1, <1>2 DEF LargerOf, SmallerOf

LEMMA CancelledBounds ==
  ASSUME NEW i, NEW balance \in Int, invoices[i].udhar \in Nat
  PROVE  CancelledUdhar(i, balance) \in 0 .. invoices[i].udhar
BY DEF CancelledUdhar, LargerOf, SmallerOf

-----------------------------------------------------------------------------
(* What a movement of a balance leaves of the sums *)

CustomersTyped == customers \in [Customer -> [balance : Int, deleted : BOOLEAN]]

\* The balance of customer c moves by d, and leaves row.
Moves(c, d, row) ==
  /\ c \in Customer /\ d \in Int /\ row \in UdharType
  /\ udhar' = Append(udhar, row)
  /\ customers' = [customers EXCEPT ![c].balance = customers[c].balance + d]

\* The rows of the movements after it.
MovementsThen(row) ==
  /\ DOMAIN udhar \subseteq DOMAIN udhar'
  /\ \A u \in DOMAIN udhar : udhar'[u] = udhar[u]
  /\ \A u \in DOMAIN udhar' \ DOMAIN udhar : udhar'[u] = row

LEMMA MovesSums ==
  ASSUME MovementsTyped, CustomersTyped, NEW c, NEW d, NEW row, Moves(c, d, row)
  PROVE  /\ Owed' = Owed + d /\ CustomersTyped' /\ MovementsThen(row)
         /\ \A u \in DOMAIN udhar' : udhar'[u] \in UdharType
         /\ \A i : CreditReversed(i)' =
                     CreditReversed(i) + (IF row.type = "ADJUSTMENT" /\ row.invoice = i THEN row.amount ELSE 0)
         /\ \A x : /\ Receipts(x)'.all = Receipts(x).all + Received(row, x)
                   /\ Receipts(x)'.cash = Receipts(x).cash + (IF row.tender = "CASH" THEN Received(row, x) ELSE 0)
<1>1. PICK n : n = Len(udhar) + 1
  OBVIOUS
<1>2. MovementAdded(n, row)
  BY <1>1, AppendRow DEF Moves, MovementAdded, MovementsTyped
<1>3. Owed' = Owed + d /\ CustomersTyped'
  BY OwedMoves DEF Moves, CustomersTyped
<1>4. MovementsThen(row) /\ \A u \in DOMAIN udhar' : udhar'[u] \in UdharType
  BY <1>2 DEF MovementAdded, MovementsThen, MovementsTyped, Moves
<1>5. row.amount \in Int /\ row \in UdharType
  BY DEF Moves, UdharType
<1>6. \A i : CreditReversed(i)' =
               CreditReversed(i) + (IF row.type = "ADJUSTMENT" /\ row.invoice = i THEN row.amount ELSE 0)
  BY <1>2, <1>5, ReversedMore
<1>7. \A x : /\ Receipts(x)'.all = Receipts(x).all + Received(row, x)
             /\ Receipts(x)'.cash = Receipts(x).cash + (IF row.tender = "CASH" THEN Received(row, x) ELSE 0)
  BY <1>2, <1>5, ReceiptsMore
<1> QED BY <1>3, <1>4, <1>6, <1>7

\* A movement that is no repayment.
LEMMA MovesNoReceipts ==
  ASSUME MovementsTyped, CustomersTyped, NEW c, NEW d, NEW row, Moves(c, d, row), row.type # "PAYMENT"
  PROVE  \A x : Receipts(x)' = Receipts(x)
<1>1. ASSUME NEW x PROVE Receipts(x)' = Receipts(x)
  <2>1. Received(row, x) = 0
    BY DEF Received
  <2>2. Receipts(x) \in [all : Int, cash : Int]
    BY ReceiptsInt
  <2>3. PICK a, b : a = Receipts(x) /\ b = Receipts(x)'
    OBVIOUS
  <2>4. b.all = a.all + 0 /\ b.cash = a.cash + 0
    BY <2>1, <2>3, MovesSums
  <2>5. b = [all |-> b.all, cash |-> b.cash]
    BY <2>3 DEF Receipts
  <2> QED BY <2>2, <2>3, <2>4, <2>5
<1> QED BY <1>1

\* No movement.
LEMMA NothingMoves ==
  ASSUME MovementsTyped, CustomersTyped, UNCHANGED <<udhar, customers>>
  PROVE  /\ Owed' = Owed + 0 /\ CustomersTyped'
         /\ \A u \in DOMAIN udhar' : udhar'[u] \in UdharType
         /\ \A i : CreditReversed(i)' = CreditReversed(i)
         /\ \A x : Receipts(x)' = Receipts(x)
<1>1. Owed' = Owed /\ Owed \in Int
  BY OwedInt DEF Owed, CustomersTyped
<1>2. CustomersTyped' /\ \A u \in DOMAIN udhar' : udhar'[u] \in UdharType
  BY DEF CustomersTyped, MovementsTyped
<1> QED BY <1>1, <1>2 DEF CreditReversed, Receipts, ReceiptsOn, CashReceiptsOn

LEMMA MovementsStayLinked ==
  ASSUME MovementsLinked, DOMAIN invoices \subseteq DOMAIN invoices', DOMAIN shifts \subseteq DOMAIN shifts',
         \A i \in DOMAIN invoices :
           /\ invoices'[i].type = invoices[i].type
           /\ invoices[i].status = "CANCELLED" => invoices'[i].status = "CANCELLED",
         \/ udhar' = udhar
         \/ \E row : /\ MovementsThen(row) /\ row.shift \in {0} \cup DOMAIN shifts
                     /\ row.type = "ADJUSTMENT" =>
                          /\ row.invoice \in DOMAIN invoices'
                          /\ \/ invoices'[row.invoice].type = "RETURN"
                             \/ invoices'[row.invoice].status = "CANCELLED"
  PROVE  MovementsLinked'
<1>1. ASSUME NEW u \in DOMAIN udhar
      PROVE  /\ udhar[u].shift \in {0} \cup DOMAIN shifts'
             /\ udhar[u].type = "ADJUSTMENT" =>
                  /\ udhar[u].invoice \in DOMAIN invoices'
                  /\ \/ invoices'[udhar[u].invoice].type = "RETURN"
                     \/ invoices'[udhar[u].invoice].status = "CANCELLED"
  BY DEF MovementsLinked
<1>2. CASE udhar' = udhar
  BY <1>1, <1>2 DEF MovementsLinked
<1>3. ASSUME NEW row, MovementsThen(row), row.shift \in {0} \cup DOMAIN shifts,
             row.type = "ADJUSTMENT" =>
               /\ row.invoice \in DOMAIN invoices'
               /\ \/ invoices'[row.invoice].type = "RETURN"
                  \/ invoices'[row.invoice].status = "CANCELLED"
      PROVE  MovementsLinked'
  <2>1. ASSUME NEW u \in DOMAIN udhar' \ DOMAIN udhar
        PROVE  udhar'[u] = row
    BY <1>3 DEF MovementsThen
  <2>2. \A u \in DOMAIN udhar : udhar'[u] = udhar[u]
    BY <1>3 DEF MovementsThen
  <2> QED BY <1>1, <1>3, <2>1, <2>2 DEF MovementsLinked
<1> QED BY <1>2, <1>3

\* The flows that write no expense.
LEMMA ExpensesSame ==
  ASSUME ExpensesTyped, ExpensesPosted, expenses' = expenses
  PROVE  /\ \A x : SpentOn(x)' = SpentOn(x) + 0
         /\ OutlayInAll' = OutlayInAll + 0 /\ ExpensesPosted'
         /\ \A e \in DOMAIN expenses' : expenses'[e] \in ExpenseType
<1>1. \A x : SpentOn(x) \in Int /\ OutlayInAll \in Int
  BY SpentInt
<1>2. \A x : SpentOn(x)' = SpentOn(x) /\ OutlayInAll' = OutlayInAll
  BY DEF SpentOn, PayoutsOn, OutlayInAll
<1> QED BY <1>1, <1>2 DEF ExpensesPosted, ExpensesTyped

-----------------------------------------------------------------------------
(* A bill *)

\* The row of a bill.
BillRow(row, r, s, total, cash, bank) ==
  /\ row \in InvoiceType /\ row.type = "SALE" /\ row.status = "COMPLETED" /\ row.shift = s
  /\ row.qty = r.qty /\ row.returned = 0 /\ row.total = total /\ row.cash = cash /\ row.bank = bank
  /\ row.udhar = r.amount /\ row.cancelShift = 0

LEMMA SaleRow ==
  ASSUME NEW r \in Request, r.amount \in Nat, NEW s \in Nat, NEW balance, NEW number \in Nat,
         BookSale(r, s, balance, number)
  PROVE  \E row, total, cash, bank :
           /\ total = Total(r.qty) /\ total \in Nat /\ (r.qty = 0 => total = 0)
           /\ cash \in Int /\ bank \in Int
           /\ BillRow(row, r, s, total, cash, bank)
           /\ invoices' = Append(invoices, row)
           /\ MoveDrawer(s, total, cash, bank, r.amount)
           /\ Post(Entries(cash, bank, r.amount, total, r.qty))
<1>0. /\ r.qty \in Nat /\ r.key \in Nat /\ r.customer \in Customer \cup {NoCustomer} /\ r.kind \in Kind
      /\ r.tender \in Tender /\ r.invoice \in Nat /\ r.amount \in Int
  BY DEF Request
<1>1. PICK total : total = Total(r.qty)
  OBVIOUS
<1>2. total \in Nat /\ (r.qty = 0 => total = 0)
  BY <1>0, <1>1, TotalNat
<1>3. PICK paid : paid = total - r.amount
  OBVIOUS
<1>4. PICK cash : cash = IF r.tender = "CASH" THEN paid ELSE 0
  OBVIOUS
<1>5. PICK bank : bank = paid - cash
  OBVIOUS
<1>6. paid \in Int /\ cash \in Int /\ bank \in Int
  BY <1>0, <1>2, <1>3, <1>4, <1>5
<1>7. PICK bill : bill = Bill(r)
  OBVIOUS
<1>8. bill \in [kind : Kind, customer : Customer \cup {NoCustomer}, qty : Nat, amount : Int, tender : Tender, invoice : Nat]
  BY <1>0, <1>7 DEF Bill
<1>9. PICK row :
        row = [type |-> "SALE", status |-> "COMPLETED", key |-> r.key, bill |-> bill,
               number |-> number, customer |-> r.customer, shift |-> s, qty |-> r.qty,
               returned |-> 0, total |-> total, cash |-> cash, bank |-> bank,
               udhar |-> r.amount, original |-> 0, restock |-> FALSE, cancelShift |-> 0]
  OBVIOUS
<1>10. row \in InvoiceType
  BY <1>0, <1>2, <1>6, <1>8, <1>9 DEF InvoiceType
<1>11. BillRow(row, r, s, total, cash, bank)
  BY <1>9, <1>10 DEF BillRow
<1>12. /\ invoices' = Append(invoices, row)
       /\ MoveDrawer(s, total, cash, bank, r.amount)
       /\ Post(Entries(cash, bank, r.amount, total, r.qty))
  BY <1>1, <1>3, <1>4, <1>5, <1>7, <1>9 DEF BookSale
<1> QED BY <1>1, <1>2, <1>6, <1>11, <1>12

LEMMA SaleMoves ==
  ASSUME NEW r \in Request, r.amount \in Nat, r.amount > 0 => r.customer # NoCustomer, IsRows(invoices),
         NEW s, NEW number, BookSale(r, s, BalanceOf(r.customer), number), CustomersTyped
  PROVE  \/ r.amount = 0 /\ UNCHANGED <<udhar, customers>>
         \/ \E row : Moves(r.customer, r.amount, row) /\ row.type = "CREDIT" /\ row.shift = 0
<1>1. CASE r.amount > 0
  <2>1. PICK balance : balance = BalanceOf(r.customer)
    OBVIOUS
  <2>2. r.customer \in Customer /\ balance = customers[r.customer].balance /\ balance \in Int
    BY <1>1, <2>1 DEF Request, BalanceOf, CustomersTyped
  <2>3. PICK after, i : after = balance + r.amount /\ i = Len(invoices) + 1
    OBVIOUS
  <2>4. after \in Int /\ i \in Nat
    BY <2>2, <2>3 DEF IsRows
  <2>5. PICK row : row = UdharRow("CREDIT", [r EXCEPT !.key = 0], balance, after, 0, i)
    OBVIOUS
  <2>6. row \in UdharType /\ row.type = "CREDIT" /\ row.shift = 0
    BY <2>2, <2>4, <2>5 DEF UdharRow, UdharType, Request
  <2>7. /\ udhar' = Append(udhar, row)
        /\ customers' = [customers EXCEPT ![r.customer].balance = after]
    BY <1>1, <2>1, <2>3, <2>5 DEF BookSale, SetBalance
  <2>8. Moves(r.customer, r.amount, row)
    BY <2>2, <2>3, <2>6, <2>7 DEF Moves
  <2> QED BY <2>6, <2>8
<1>2. CASE ~(r.amount > 0)
  BY <1>2 DEF BookSale
<1> QED BY <1>1, <1>2

LEMMA SaleBooks ==
  ASSUME BooksShaped, BooksSound, NEW r \in Requests, Sale(r)
  PROVE  BooksSound'
<1>1. /\ r \in Request /\ r.amount \in Nat /\ (r.amount > 0 => r.customer # NoCustomer)
      /\ r.qty \in Nat
  BY RequestsAssumption DEF Sale, Request
<1>2. PICK s \in SaleDrawer(r) : BookSale(r, s, BalanceOf(r.customer), lastNumber["SALE"] + 1)
  BY DEF Sale
<1>3. s \in {0} \cup DOMAIN shifts /\ s \in Nat
  <2>1. Usable(s)
    BY <1>2, DrawersUsable DEF Sale, BooksShaped
  <2> QED BY <2>1, RowsFinite DEF Usable, BooksShaped, ShiftsShaped
<1>4. lastNumber["SALE"] + 1 \in Nat
  BY DEF BooksShaped, NumbersShaped
<1>5. PICK row, total, cash, bank :
        /\ total = Total(r.qty) /\ total \in Nat /\ (r.qty = 0 => total = 0)
        /\ cash \in Int /\ bank \in Int
        /\ BillRow(row, r, s, total, cash, bank)
        /\ invoices' = Append(invoices, row)
        /\ MoveDrawer(s, total, cash, bank, r.amount)
        /\ Post(Entries(cash, bank, r.amount, total, r.qty))
  BY <1>1, <1>2, <1>3, <1>4, SaleRow
<1>6. /\ BillsTyped /\ MovementsTyped /\ ExpensesTyped /\ DrawersTyped /\ SumsTyped /\ Owed \in Int
      /\ CustomersTyped /\ RowsTyped
  BY TablesTyped DEF BooksSound, CustomersTyped, RowsTyped
<1>7. /\ onHand >= r.qty /\ onHand' = onHand + (0 - r.qty) /\ onHand' >= 0 /\ expenses' = expenses
  <2>1. onHand >= r.qty /\ onHand' = onHand - r.qty /\ expenses' = expenses
    BY <1>2 DEF BookSale, TakeStock
  <2> QED BY <1>1, <1>6, <2>1 DEF RowsTyped
<1>8. /\ Owed' = Owed + r.amount /\ CustomersTyped'
      /\ \A u \in DOMAIN udhar' : udhar'[u] \in UdharType
      /\ \A i : CreditReversed(i) \in Int => CreditReversed(i)' = CreditReversed(i)
      /\ \A x : Receipts(x)' = Receipts(x)
  <2>1. CASE r.amount = 0 /\ UNCHANGED <<udhar, customers>>
    BY <1>6, <2>1, NothingMoves
  <2>2. ASSUME NEW m, Moves(r.customer, r.amount, m), m.type = "CREDIT"
        PROVE  /\ Owed' = Owed + r.amount /\ CustomersTyped'
               /\ \A u \in DOMAIN udhar' : udhar'[u] \in UdharType
               /\ \A i : CreditReversed(i) \in Int => CreditReversed(i)' = CreditReversed(i)
               /\ \A x : Receipts(x)' = Receipts(x)
    <3>1. \A x : Receipts(x)' = Receipts(x)
      BY <1>6, <2>2, MovesNoReceipts
    <3>2. \A i : CreditReversed(i)' = CreditReversed(i) + 0
      BY <1>6, <2>2, MovesSums
    <3> QED BY <1>6, <2>2, <3>1, <3>2, MovesSums
  <2> QED BY <1>1, <1>2, <1>6, <2>1, <2>2, SaleMoves DEF BillsTyped
<1>9. PICK n : n = Len(invoices) + 1
  OBVIOUS
<1>10. /\ n \notin DOMAIN invoices /\ DOMAIN invoices' = DOMAIN invoices \cup {n} /\ invoices'[n] = row
       /\ \A i \in DOMAIN invoices : invoices'[i] = invoices[i]
  BY <1>5, <1>6, <1>9, AppendRow DEF BillsTyped
<1>11. BillAdded(n, row)
  BY <1>6, <1>8, <1>10 DEF BillAdded, TermsKept, SumsTyped
<1>12. /\ row \in InvoiceType /\ row.type = "SALE" /\ row.status = "COMPLETED" /\ row.shift = s
       /\ row.qty = r.qty /\ row.returned = 0 /\ row.total = total /\ row.cash = cash
       /\ row.udhar = r.amount /\ row.cancelShift = 0
  BY <1>5 DEF BillRow
<1>13. \A x : \A amount : Booked(row, x, amount) = At(x, s, amount)
  BY <1>12 DEF Booked, At
<1>14. /\ \A x : /\ OnDrawers(x)'.cash = OnDrawers(x).cash + At(x, s, cash)
                 /\ OnDrawers(x)'.sales = OnDrawers(x).sales + At(x, s, total)
                 /\ OnDrawers(x)'.udhar = OnDrawers(x).udhar + At(x, s, r.amount)
       /\ SoldInAll' = SoldInAll + Sold(row)
  <2>1. \A i \in DOMAIN invoices : CreditReversed(i) \in Int
    BY <1>6 DEF SumsTyped
  <2>2. /\ \A x : /\ OnDrawers(x)'.cash = OnDrawers(x).cash + Booked(row, x, row.cash)
                  /\ OnDrawers(x)'.sales = OnDrawers(x).sales + Booked(row, x, row.total)
                  /\ OnDrawers(x)'.udhar = OnDrawers(x).udhar + Booked(row, x, row.udhar)
        /\ SoldInAll' = SoldInAll + Sold(row)
    BY <1>6, <1>11, <1>12, <2>1, BillsMore
  <2> QED BY <1>12, <1>13, <2>2
<1>15. CountersMove(s, cash, total, r.amount, 0, 0)
  <2>1. total \in Int /\ r.amount \in Int /\ cash \in Int /\ bank \in Int
    BY <1>1, <1>5
  <2>2. MoveDrawer(s, total, cash, bank, r.amount)
    BY <1>5
  <2> QED BY <1>3, <1>6, <2>1, <2>2, MoveDrawerMoves
<1>16. /\ \A x : SpentOn(x)' = SpentOn(x) + 0
       /\ OutlayInAll' = OutlayInAll + 0 /\ ExpensesPosted'
       /\ \A e \in DOMAIN expenses' : expenses'[e] \in ExpenseType
  BY <1>6, <1>7, ExpensesSame DEF BooksSound
<1>17. DrawersRebuild' /\ \A x \in DOMAIN shifts' : shifts'[x] \in ShiftType
  <2>1. \A x : At(x, s, 0) = 0
    BY DEF At
  <2>2. \A x : Receipts(x)'.all = Receipts(x).all + At(x, s, 0) /\ Receipts(x)'.cash = Receipts(x).cash + At(x, s, 0)
    BY <1>6, <1>8, <2>1 DEF SumsTyped
  <2>3. \A x : SpentOn(x)' = SpentOn(x) + At(x, s, 0)
    BY <1>16, <2>1
  <2>4. DrawersRebuild
    BY DEF BooksSound, SumsHold
  <2>5. cash = cash + 0 - 0 /\ total \in Int /\ r.amount \in Int
    BY <1>1, <1>5
  <2>6. DocumentsMove(s, cash, total, r.amount, 0, 0, 0)
    BY <1>14, <2>2, <2>3 DEF DocumentsMove
  <2>7. 0 \in Int /\ cash \in Int
    BY <1>5
  <2> QED BY <1>6, <1>15, <2>4, <2>5, <2>6, <2>7, RebuiltKept
<1>18. ReceivablesMatch' /\ ExpensesOnBooks' /\ StockMatchesBooks' /\ onHand' \in Int
  <2>1. AccountsMove(r.amount, 0, 0 - r.qty)
    BY <1>1, <1>5, <1>6, BillPosted DEF RowsTyped
  <2>2. SoldInAll' = SoldInAll - (0 - r.qty)
    BY <1>1, <1>6, <1>12, <1>14 DEF Sold, SumsTyped
  <2>3. 0 - r.qty \in Int /\ r.amount \in Int
    BY <1>1
  <2> QED BY <1>6, <1>7, <1>8, <1>16, <2>1, <2>2, <2>3, AccountsAgree DEF BooksSound, SumsHold
<1>19. RefundsCapped'
  BY <1>5, <1>6, <1>10, <1>12, CappedSale DEF BooksSound, SumsHold
<1>20. RowsTyped'
  <2>1. \A i \in DOMAIN invoices' : invoices'[i] \in InvoiceType
    BY <1>6, <1>10, <1>12 DEF RowsTyped
  <2>2. ledger' \in [Account -> Int]
    BY <1>1, <1>5, <1>6, BillPosted DEF RowsTyped, AccountsMove
  <2> QED BY <1>8, <1>16, <1>17, <1>18, <2>1, <2>2 DEF RowsTyped, CustomersTyped
<1>21. DOMAIN shifts' = DOMAIN shifts
  BY <1>15 DEF CountersMove
<1>22. BillsLinked'
  BY <1>10, <1>12, <1>21 DEF BillsLinked, BooksSound
<1>23. MovementsLinked'
  <2>1. \/ udhar' = udhar
        \/ \E m : MovementsThen(m) /\ m.shift = 0 /\ m.type = "CREDIT"
    BY <1>1, <1>2, <1>6, SaleMoves, MovesSums DEF BillsTyped
  <2> QED BY <1>10, <1>21, <2>1, MovementsStayLinked DEF BooksSound
<1> QED BY <1>16, <1>17, <1>18, <1>19, <1>20, <1>22, <1>23 DEF BooksSound, SumsHold

-----------------------------------------------------------------------------
(* A return *)

\* What a reversal does to the balance of the bill's customer.
CreditReverses(c, reversed, i) ==
  \/ reversed = 0 /\ UNCHANGED <<udhar, customers>>
  \/ \E row : /\ Moves(c, 0 - reversed, row) /\ row.type = "ADJUSTMENT" /\ row.shift = 0
              /\ row.invoice = i /\ row.amount = reversed

LEMMA ReverseMoves ==
  ASSUME NEW r \in Request, CustomersTyped, NEW c \in Customer \cup {NoCustomer}, c = invoices[r.invoice].customer,
         NEW reversed \in Nat, reversed > 0 => c # NoCustomer, NEW i \in Nat, NEW s, NEW goods,
         Reverse(r, s, BalanceOf(c), reversed, goods, i)
  PROVE  CreditReverses(c, reversed, i)
<1>1. CASE reversed > 0
  <2>1. PICK balance : balance = BalanceOf(c)
    OBVIOUS
  <2>2. c \in Customer /\ balance = customers[c].balance /\ balance \in Int
    BY <1>1, <2>1 DEF BalanceOf, CustomersTyped
  <2>3. PICK after : after = balance - reversed
    OBVIOUS
  <2>4. after \in Int /\ after = customers[c].balance + (0 - reversed)
    BY <2>2, <2>3
  <2>5. PICK request : request = [r EXCEPT !.customer = c, !.key = 0, !.amount = reversed]
    OBVIOUS
  <2>6. request.customer = c /\ request.key = 0 /\ request.amount = reversed /\ request.tender \in Tender
    BY <2>5 DEF Request
  <2>7. PICK row : row = UdharRow("ADJUSTMENT", request, balance, after, 0, i)
    OBVIOUS
  <2>8. /\ row \in UdharType /\ row.type = "ADJUSTMENT" /\ row.shift = 0 /\ row.invoice = i /\ row.amount = reversed
    BY <2>2, <2>4, <2>6, <2>7 DEF UdharRow, UdharType
  <2>9. /\ udhar' = Append(udhar, row)
        /\ customers' = [customers EXCEPT ![c].balance = after]
    BY <1>1, <2>1, <2>3, <2>5, <2>7 DEF Reverse, SetBalance
  <2>10. Moves(c, 0 - reversed, row)
    BY <2>2, <2>4, <2>8, <2>9 DEF Moves
  <2> QED BY <2>8, <2>10 DEF CreditReverses
<1>2. CASE ~(reversed > 0)
  BY <1>2 DEF Reverse, CreditReverses
<1> QED BY <1>1, <1>2

\* The row of a return.
ReturnedRow(row, r, s, total, cash, reversed) ==
  /\ row \in InvoiceType /\ row.type = "RETURN" /\ row.status = "COMPLETED" /\ row.shift = s
  /\ row.qty = ReturnQty(r) /\ row.total = total /\ row.cash = cash /\ row.udhar = reversed
  /\ row.original = r.invoice /\ row.restock = r.restock /\ row.cancelShift = 0

LEMMA ReturnRow ==
  ASSUME NEW r \in Request, r.kind = "return", NEW s \in Nat, NEW balance, NEW number \in Nat,
         BookReturn(r, s, balance, number), ReturnQty(r) \in Nat, RefundTotal(r) \in Nat,
         NEW reversed \in Nat, reversed = ReturnedUdhar(r, balance),
         invoices[r.invoice].customer \in Customer \cup {NoCustomer}
  PROVE  \E row, cash, bank, goods :
           /\ cash \in Int /\ bank \in Int /\ goods = (IF r.restock THEN ReturnQty(r) ELSE 0)
           /\ ReturnedRow(row, r, s, RefundTotal(r), cash, reversed)
           /\ invoices' = Append([invoices EXCEPT ![r.invoice].returned = @ + ReturnQty(r)], row)
           /\ Reverse(r, s, balance, reversed, goods, Len(invoices) + 1)
           /\ MoveDrawer(s, -RefundTotal(r), -cash, -bank, -reversed)
           /\ Post(Entries(-cash, -bank, -reversed, -RefundTotal(r), -goods))
           /\ onHand' = onHand + goods /\ expenses' = expenses
<1>0. /\ r.key \in Nat /\ r.qty \in Nat /\ r.customer \in Customer \cup {NoCustomer} /\ r.kind \in Kind
      /\ r.tender \in Tender /\ r.invoice \in Nat /\ r.amount \in Int /\ r.restock \in BOOLEAN
  BY DEF Request
<1>1. PICK cash, bank, total, qty, c :
        /\ cash = CashRefund(r, balance) /\ bank = BankRefund(r, balance) /\ total = RefundTotal(r)
        /\ qty = ReturnQty(r) /\ c = invoices[r.invoice].customer
  OBVIOUS
<1>2. cash \in Int /\ bank \in Int /\ total \in Nat /\ qty \in Nat
  BY <1>1 DEF CashRefund, BankRefund
<1>3. PICK goods : goods = IF r.restock THEN ReturnQty(r) ELSE 0
  OBVIOUS
<1>4. PICK bill : bill = Bill(r)
  OBVIOUS
<1>5. bill \in [kind : Kind, customer : Customer \cup {NoCustomer}, qty : Nat, amount : Int, tender : Tender, invoice : Nat]
  BY <1>0, <1>4 DEF Bill
<1>6. PICK row :
        row = [type |-> "RETURN", status |-> "COMPLETED", key |-> r.key, bill |-> bill,
               number |-> number, customer |-> c, shift |-> s, qty |-> qty,
               returned |-> 0, total |-> total, cash |-> cash,
               bank |-> bank, udhar |-> reversed, original |-> r.invoice,
               restock |-> r.restock, cancelShift |-> 0]
  OBVIOUS
<1>7. row \in InvoiceType
  BY <1>0, <1>1, <1>2, <1>5, <1>6 DEF InvoiceType
<1>8. ReturnedRow(row, r, s, RefundTotal(r), cash, reversed)
  BY <1>1, <1>6, <1>7 DEF ReturnedRow
<1>9. invoices' = Append([invoices EXCEPT ![r.invoice].returned = @ + ReturnQty(r)], row)
  BY <1>1, <1>4, <1>6 DEF BookReturn
<1>10. Reverse(r, s, balance, reversed, goods, Len(invoices) + 1)
  BY <1>3 DEF BookReturn
<1>11. /\ MoveDrawer(s, -RefundTotal(r), -cash, -bank, -reversed)
       /\ Post(Entries(-cash, -bank, -reversed, -RefundTotal(r), -goods))
       /\ onHand' = onHand + goods /\ expenses' = expenses
  BY <1>1, <1>10 DEF Reverse
<1> QED BY <1>2, <1>3, <1>8, <1>9, <1>10, <1>11

\* The bounds of a return: what the sale has left.
LEMMA ReturnWithin ==
  ASSUME BooksShaped, BooksSound, NEW r \in Request, MayReturn(r), NEW balance \in Int
  PROVE  /\ r.invoice \in DOMAIN invoices /\ invoices[r.invoice].type = "SALE"
         /\ invoices[r.invoice].status = "COMPLETED"
         /\ ReturnQty(r) \in Nat /\ ReturnQty(r) > 0 /\ ReturnQty(r) <= Returnable(r.invoice)
         /\ RefundTotal(r) \in Nat
         /\ RefundTotal(r) <= invoices[r.invoice].total - GivenBack(r.invoice).total
         /\ ReturnQty(r) = Returnable(r.invoice) =>
              RefundTotal(r) = invoices[r.invoice].total - GivenBack(r.invoice).total
         /\ ReturnedUdhar(r, balance) \in Nat
         /\ ReturnedUdhar(r, balance) <= invoices[r.invoice].udhar - GivenBack(r.invoice).udhar
         /\ ReturnedUdhar(r, balance) > 0 => invoices[r.invoice].customer # NoCustomer
<1>1. /\ r.invoice \in DOMAIN invoices /\ invoices[r.invoice].type = "SALE"
      /\ invoices[r.invoice].status = "COMPLETED" /\ ReturnQty(r) \in 1 .. Returnable(r.invoice)
  BY DEF MayReturn, IsOpenSale
<1>2. PICK sale, back : sale = invoices[r.invoice] /\ back = GivenBack(r.invoice)
  OBVIOUS
<1>3. /\ sale.qty \in Nat /\ sale.returned \in Nat /\ sale.total \in Nat /\ sale.udhar \in Nat
  BY <1>1, <1>2 DEF BooksSound, RowsTyped, InvoiceType
<1>4. back.total \in Int /\ back.udhar \in Int
  BY <1>2, GivenBackInt, TablesTyped DEF BooksSound
<1>5. back.total <= sale.total /\ back.udhar <= sale.udhar
  BY <1>1, <1>2, CappedAll DEF Capped, BooksSound, SumsHold
<1>6. back.total = Refunded(r.invoice) /\ back.udhar = ReversedUdhar(r.invoice)
  BY <1>2 DEF GivenBack
<1>7. PICK n : n = Returnable(r.invoice) /\ n \in Int
  BY <1>2, <1>3 DEF Returnable
<1>8. ReturnQty(r) \in Nat /\ ReturnQty(r) > 0 /\ ReturnQty(r) <= n
  BY <1>1, <1>7
<1>9. PICK left : left = sale.total - back.total /\ left \in Int /\ left >= 0
  BY <1>3, <1>4, <1>5
<1>10. RefundTotal(r) \in 0 .. left /\ (ReturnQty(r) = Returnable(r.invoice) => RefundTotal(r) = left)
  BY <1>2, <1>6, <1>8, <1>9, RefundBounds
<1>11. PICK credit : credit = sale.udhar - back.udhar /\ credit \in Int /\ credit >= 0
  BY <1>3, <1>4, <1>5
<1>12. ReturnedUdhar(r, balance) \in 0 .. credit
  BY <1>2, <1>6, <1>10, <1>9, <1>11, ReturnedBounds
<1>13. ReturnedUdhar(r, balance) > 0 => invoices[r.invoice].customer # NoCustomer
  BY DEF ReturnedUdhar
<1> QED BY <1>1, <1>2, <1>7, <1>8, <1>9, <1>10, <1>11, <1>12, <1>13

\* What the balance and the credit reversed become, in one formula for either case.
CreditMoves(reversed, i) ==
  /\ Owed' = Owed + (0 - reversed) /\ CustomersTyped'
  /\ \A u \in DOMAIN udhar' : udhar'[u] \in UdharType
  /\ \A j : CreditReversed(j)' = CreditReversed(j) + (IF i = j THEN reversed ELSE 0)
  /\ \A x : Receipts(x)' = Receipts(x)

LEMMA ReverseSums ==
  ASSUME NEW r \in Request, MovementsTyped, CustomersTyped, NEW c \in Customer \cup {NoCustomer},
         c = invoices[r.invoice].customer, NEW reversed \in Nat, reversed > 0 => c # NoCustomer, NEW i \in Nat,
         NEW s, NEW goods, Reverse(r, s, BalanceOf(c), reversed, goods, i)
  PROVE  CreditMoves(reversed, i)
<1>1. CASE reversed = 0 /\ UNCHANGED <<udhar, customers>>
  <2>1. \A j : CreditReversed(j) \in Int
    BY ReversedInt
  <2> QED BY <1>1, <2>1, NothingMoves DEF CreditMoves
<1>2. ASSUME NEW m, Moves(c, 0 - reversed, m), m.type = "ADJUSTMENT", m.invoice = i, m.amount = reversed
      PROVE  CreditMoves(reversed, i)
  <2>1. \A x : Receipts(x)' = Receipts(x)
    BY <1>2, MovesNoReceipts
  <2>2. \A j : CreditReversed(j)' =
                 CreditReversed(j) + (IF m.type = "ADJUSTMENT" /\ m.invoice = j THEN m.amount ELSE 0)
    BY <1>2, MovesSums
  <2>3. /\ Owed' = Owed + (0 - reversed) /\ CustomersTyped'
        /\ \A u \in DOMAIN udhar' : udhar'[u] \in UdharType
    BY <1>2, MovesSums
  <2> QED BY <1>2, <2>1, <2>2, <2>3 DEF CreditMoves
<1>3. CreditReverses(c, reversed, i)
  BY ReverseMoves
<1> QED BY <1>1, <1>2, <1>3 DEF CreditReverses

\* The row of it, if any, names document i.
ReversalWritten(i) ==
  \/ udhar' = udhar
  \/ \E m : MovementsThen(m) /\ m.shift = 0 /\ m.type = "ADJUSTMENT" /\ m.invoice = i

LEMMA ReverseLinked ==
  ASSUME NEW r \in Request, MovementsTyped, CustomersTyped, NEW c \in Customer \cup {NoCustomer},
         c = invoices[r.invoice].customer, NEW reversed \in Nat, reversed > 0 => c # NoCustomer, NEW i \in Nat,
         NEW s, NEW goods, Reverse(r, s, BalanceOf(c), reversed, goods, i)
  PROVE  ReversalWritten(i)
<1>1. CreditReverses(c, reversed, i)
  BY ReverseMoves
<1>2. \A row : Moves(c, 0 - reversed, row) => MovementsThen(row)
  BY MovesSums
<1> QED BY <1>1, <1>2 DEF CreditReverses, ReversalWritten

\* Of a sale some pieces of which came back: its terms stand.
ReturnedOf(i, qty) ==
  /\ i \in DOMAIN invoices
  /\ invoices'[i] = [invoices[i] EXCEPT !.returned = @ + qty]
  /\ invoices'[i] \in InvoiceType
  /\ \A j \in DOMAIN invoices : TermsKept(j) /\ (j # i => invoices'[j] = invoices[j])

\* The tables after a return's document is added.
LEMMA ReturnTables ==
  ASSUME BillsTyped, NEW i \in DOMAIN invoices, NEW qty \in Nat, NEW row, NEW n, n = Len(invoices) + 1,
         invoices' = Append([invoices EXCEPT ![i].returned = @ + qty], row)
  PROVE  /\ n \in Nat /\ n \notin DOMAIN invoices /\ DOMAIN invoices' = DOMAIN invoices \cup {n} /\ invoices'[n] = row
         /\ ReturnedOf(i, qty)
<1>1. PICK was : was = invoices[i] /\ was \in InvoiceType
  BY DEF BillsTyped
<1>11. PICK back : back = was.returned + qty
  OBVIOUS
<1>12. back \in Nat
  <2>1. was.returned \in Nat
    BY <1>1 DEF InvoiceType
  <2> QED BY <1>11, <2>1
<1>2. PICK sale : sale = [was EXCEPT !.returned = back]
  OBVIOUS
<1>3. /\ sale \in InvoiceType
      /\ sale.type = was.type /\ sale.status = was.status /\ sale.shift = was.shift
      /\ sale.cancelShift = was.cancelShift /\ sale.qty = was.qty /\ sale.total = was.total
      /\ sale.cash = was.cash /\ sale.udhar = was.udhar
      /\ sale.original = was.original /\ sale.restock = was.restock
  BY <1>1, <1>12, <1>2 DEF InvoiceType
<1>4. PICK table : table = [invoices EXCEPT ![i] = sale]
  OBVIOUS
<1>5. /\ IsRows(table) /\ DOMAIN table = DOMAIN invoices /\ Len(table) = Len(invoices)
      /\ \A j \in DOMAIN invoices : table[j] = IF j = i THEN sale ELSE invoices[j]
  BY <1>4, ChangeRow DEF BillsTyped
<1>6. invoices' = Append(table, row)
  BY <1>1, <1>11, <1>2, <1>4
<1>7. /\ n \notin DOMAIN table /\ DOMAIN invoices' = DOMAIN table \cup {n} /\ invoices'[n] = row
      /\ \A j \in DOMAIN table : invoices'[j] = table[j]
  BY <1>5, <1>6, AppendRow
<1>8. \A j \in DOMAIN invoices : TermsKept(j)
  BY <1>1, <1>3, <1>5, <1>7 DEF TermsKept
<1>9. n \in Nat
  BY DEF BillsTyped, IsRows
<1>10. ReturnedOf(i, qty)
  BY <1>1, <1>11, <1>2, <1>3, <1>5, <1>7, <1>8 DEF ReturnedOf
<1> QED BY <1>5, <1>7, <1>9, <1>10

LEMMA ReturnBooks ==
  ASSUME BooksShaped, BooksSound, NEW r \in Requests, Return(r)
  PROVE  BooksSound'
<1>1. /\ r \in Request /\ r.kind = "return" /\ MayReturn(r)
  BY RequestsAssumption DEF Return
<1>2. PICK i, c, balance : i = r.invoice /\ c = invoices[i].customer /\ balance = BalanceOf(c)
  OBVIOUS
<1>3. PICK s \in ReversalDrawer(r) : BookReturn(r, s, balance, lastNumber["RETURN"] + 1)
  BY <1>2 DEF Return
<1>4. s \in {0} \cup DOMAIN shifts /\ s \in Nat
  <2>1. Usable(s)
    BY <1>3, DrawersUsable DEF BooksShaped
  <2> QED BY <2>1, RowsFinite DEF Usable, BooksShaped, ShiftsShaped
<1>5. lastNumber["RETURN"] + 1 \in Nat
  BY DEF BooksShaped, NumbersShaped
<1>6. /\ BillsTyped /\ MovementsTyped /\ ExpensesTyped /\ DrawersTyped /\ SumsTyped /\ Owed \in Int
      /\ CustomersTyped /\ RowsTyped
  BY TablesTyped DEF BooksSound, CustomersTyped, RowsTyped
<1>7. i \in DOMAIN invoices /\ c \in Customer \cup {NoCustomer}
  BY <1>1, <1>2 DEF MayReturn, IsOpenSale, BooksShaped, InvoicesShaped
<1>8. balance \in Int
  BY <1>2, <1>6, <1>7 DEF BalanceOf, CustomersTyped
<1>9. PICK qty, total, reversed : qty = ReturnQty(r) /\ total = RefundTotal(r) /\ reversed = ReturnedUdhar(r, balance)
  OBVIOUS
<1>10. /\ invoices[i].type = "SALE" /\ invoices[i].status = "COMPLETED"
       /\ qty \in Nat /\ qty > 0 /\ qty <= Returnable(i)
       /\ total \in Nat /\ total <= invoices[i].total - GivenBack(i).total
       /\ qty = Returnable(i) => total = invoices[i].total - GivenBack(i).total
       /\ reversed \in Nat /\ reversed <= invoices[i].udhar - GivenBack(i).udhar
       /\ reversed > 0 => c # NoCustomer
  BY <1>1, <1>2, <1>8, <1>9, ReturnWithin
<1>11. PICK row, cash, bank, goods :
         /\ cash \in Int /\ bank \in Int /\ goods = (IF r.restock THEN ReturnQty(r) ELSE 0)
         /\ ReturnedRow(row, r, s, RefundTotal(r), cash, reversed)
         /\ invoices' = Append([invoices EXCEPT ![r.invoice].returned = @ + ReturnQty(r)], row)
         /\ Reverse(r, s, balance, reversed, goods, Len(invoices) + 1)
         /\ MoveDrawer(s, -RefundTotal(r), -cash, -bank, -reversed)
         /\ Post(Entries(-cash, -bank, -reversed, -RefundTotal(r), -goods))
         /\ onHand' = onHand + goods /\ expenses' = expenses
  <2>1. /\ ReturnQty(r) \in Nat /\ RefundTotal(r) \in Nat /\ reversed \in Nat
        /\ invoices[r.invoice].customer \in Customer \cup {NoCustomer}
    BY <1>2, <1>7, <1>9, <1>10
  <2> QED BY <1>1, <1>3, <1>4, <1>5, <1>9, <2>1, ReturnRow
<1>12. /\ row \in InvoiceType /\ row.type = "RETURN" /\ row.status = "COMPLETED" /\ row.shift = s
       /\ row.qty = qty /\ row.total = total /\ row.cash = cash /\ row.udhar = reversed
       /\ row.original = i /\ row.restock = r.restock /\ row.cancelShift = 0
  BY <1>2, <1>9, <1>11 DEF ReturnedRow
<1>13. PICK n : n = Len(invoices) + 1
  OBVIOUS
<1>14. /\ n \in Nat /\ n \notin DOMAIN invoices /\ DOMAIN invoices' = DOMAIN invoices \cup {n} /\ invoices'[n] = row
       /\ ReturnedOf(i, qty)
  <2>1. invoices' = Append([invoices EXCEPT ![i].returned = @ + qty], row)
    BY <1>2, <1>9, <1>11
  <2>2. qty \in Nat
    BY <1>10
  <2> QED BY <1>6, <1>7, <1>13, <2>1, <2>2, ReturnTables
<1>15. CreditMoves(reversed, n)
  <2>1. Reverse(r, s, BalanceOf(c), reversed, goods, n) /\ c = invoices[r.invoice].customer
    BY <1>2, <1>11, <1>13
  <2> QED BY <1>1, <1>6, <1>7, <1>10, <1>14, <2>1, ReverseSums
<1>16. BillAdded(n, row)
  <2>1. \A j \in DOMAIN invoices : CreditReversed(j)' = CreditReversed(j)
    BY <1>6, <1>14, <1>15 DEF CreditMoves, SumsTyped
  <2> QED BY <1>14, <2>1 DEF BillAdded, ReturnedOf
<1>17. PICK mc, mt, mr, mg : mc = -cash /\ mt = -total /\ mr = -reversed /\ mg = -goods
  OBVIOUS
<1>18. /\ mc \in Int /\ mt \in Int /\ mr \in Int /\ goods \in Nat /\ mg \in Int /\ -bank \in Int /\ mr = 0 - reversed
       /\ 0 - mg = goods
  <2>1. mc \in Int /\ -bank \in Int
    BY <1>11, <1>17
  <2>3. mt \in Int /\ mr \in Int /\ mr = 0 - reversed
    BY <1>9, <1>10, <1>17
  <2>2. goods \in Nat
    BY <1>9, <1>10, <1>11
  <2> QED BY <1>17, <2>1, <2>2, <2>3
<1>19. \A x : /\ Booked(row, x, row.cash) = At(x, s, mc) /\ Booked(row, x, row.total) = At(x, s, mt)
              /\ Booked(row, x, row.udhar) = At(x, s, mr)
  BY <1>12, <1>17 DEF Booked, At
<1>20. /\ \A x : /\ OnDrawers(x)'.cash = OnDrawers(x).cash + At(x, s, mc)
                 /\ OnDrawers(x)'.sales = OnDrawers(x).sales + At(x, s, mt)
                 /\ OnDrawers(x)'.udhar = OnDrawers(x).udhar + At(x, s, mr)
       /\ SoldInAll' = SoldInAll + Sold(row)
  <2>1. \A j \in DOMAIN invoices : CreditReversed(j) \in Int
    BY <1>6 DEF SumsTyped
  <2>2. /\ \A x : /\ OnDrawers(x)'.cash = OnDrawers(x).cash + Booked(row, x, row.cash)
                  /\ OnDrawers(x)'.sales = OnDrawers(x).sales + Booked(row, x, row.total)
                  /\ OnDrawers(x)'.udhar = OnDrawers(x).udhar + Booked(row, x, row.udhar)
        /\ SoldInAll' = SoldInAll + Sold(row)
    BY <1>6, <1>12, <1>16, <2>1, BillsMore
  <2> QED BY <1>19, <2>2
<1>21. CountersMove(s, mc, mt, mr, 0, 0)
  <2>1. MoveDrawer(s, mt, mc, -bank, mr)
    BY <1>9, <1>11, <1>17
  <2> QED BY <1>4, <1>6, <1>18, <2>1, MoveDrawerMoves
<1>22. /\ \A x : SpentOn(x)' = SpentOn(x) + 0
       /\ OutlayInAll' = OutlayInAll + 0 /\ ExpensesPosted'
       /\ \A e \in DOMAIN expenses' : expenses'[e] \in ExpenseType
  BY <1>6, <1>11, ExpensesSame DEF BooksSound
<1>23. DrawersRebuild' /\ \A x \in DOMAIN shifts' : shifts'[x] \in ShiftType
  <2>1. \A x : At(x, s, 0) = 0
    BY DEF At
  <2>2. \A x : Receipts(x)'.all = Receipts(x).all + At(x, s, 0) /\ Receipts(x)'.cash = Receipts(x).cash + At(x, s, 0)
    BY <1>6, <1>15, <2>1 DEF SumsTyped, CreditMoves
  <2>3. \A x : SpentOn(x)' = SpentOn(x) + At(x, s, 0)
    BY <1>22, <2>1
  <2>4. DrawersRebuild
    BY DEF BooksSound, SumsHold
  <2>5. mc = mc + 0 - 0
    BY <1>18
  <2>6. DocumentsMove(s, mc, mt, mr, 0, 0, 0)
    BY <1>20, <2>2, <2>3 DEF DocumentsMove
  <2>7. 0 \in Int
    OBVIOUS
  <2> QED BY <1>6, <1>18, <1>21, <2>4, <2>5, <2>6, <2>7, RebuiltKept
<1>24. AccountsMove(mr, 0, 0 - mg)
  <2>1. Post(Entries(mc, -bank, mr, mt, mg))
    BY <1>9, <1>11, <1>17
  <2> QED BY <1>6, <1>18, <2>1, BillPosted DEF RowsTyped
<1>25. ReceivablesMatch' /\ ExpensesOnBooks' /\ StockMatchesBooks' /\ onHand' \in Int
  <2>1. AccountsMove(mr, 0, goods)
    BY <1>18, <1>24
  <2>2. SoldInAll' = SoldInAll - goods
    BY <1>6, <1>9, <1>10, <1>11, <1>12, <1>20 DEF Sold, SumsTyped
  <2>3. goods \in Int /\ 0 \in Int
    BY <1>18
  <2>4. onHand' = onHand + goods /\ onHand' >= 0
    <3>1. onHand >= 0 /\ onHand \in Int
      BY <1>6 DEF BooksSound, SumsHold, StockMatchesBooks, RowsTyped
    <3>2. goods \in Nat /\ onHand' = onHand + goods
      BY <1>11, <1>18
    <3> QED BY <3>1, <3>2
  <2>5. Owed' = Owed + mr
    BY <1>15, <1>18 DEF CreditMoves
  <2> QED BY <1>6, <1>18, <1>22, <2>1, <2>2, <2>3, <2>4, <2>5, AccountsAgree DEF BooksSound, SumsHold
<1>26. RefundsCapped'
  <2>1. invoices'[i] = [invoices[i] EXCEPT !.returned = @ + row.qty]
    BY <1>12, <1>14 DEF ReturnedOf
  <2>2. Returnable(i) = invoices[i].qty - invoices[i].returned
    BY DEF Returnable
  <2> QED BY <1>6, <1>7, <1>10, <1>12, <1>14, <2>1, <2>2, CappedReturn DEF BooksSound, SumsHold, ReturnedOf
<1>27. RowsTyped'
  <2>1. \A j \in DOMAIN invoices' : invoices'[j] \in InvoiceType
    BY <1>6, <1>12, <1>14 DEF RowsTyped, ReturnedOf
  <2>2. ledger' \in [Account -> Int]
    BY <1>24 DEF AccountsMove
  <2> QED BY <1>15, <1>22, <1>23, <1>25, <2>1, <2>2 DEF RowsTyped, CustomersTyped, CreditMoves
<1>28. DOMAIN shifts' = DOMAIN shifts
  BY <1>21 DEF CountersMove
<1>29. BillsLinked'
  BY <1>7, <1>10, <1>12, <1>14, <1>28 DEF BillsLinked, BooksSound, ReturnedOf, TermsKept
<1>30. MovementsLinked'
  <2>1. ReversalWritten(n)
    <3>1. Reverse(r, s, BalanceOf(c), reversed, goods, n) /\ c = invoices[r.invoice].customer
      BY <1>2, <1>11, <1>13
    <3>2. reversed \in Nat /\ (reversed > 0 => c # NoCustomer)
      BY <1>10
    <3> QED BY <1>1, <1>6, <1>7, <1>14, <3>1, <3>2, ReverseLinked
  <2> QED BY <1>12, <1>14, <1>28, <2>1, MovementsStayLinked DEF BooksSound, ReturnedOf, TermsKept, ReversalWritten
<1> QED BY <1>22, <1>23, <1>25, <1>26, <1>27, <1>29, <1>30 DEF BooksSound, SumsHold

-----------------------------------------------------------------------------
(* A cancellation *)

\* Nothing was reversed yet of a bill that stands.
LEMMA NothingReversed ==
  ASSUME MovementsLinked, NEW i, invoices[i].type = "SALE", invoices[i].status = "COMPLETED"
  PROVE  CreditReversed(i) = 0
<1>1. PICK f : f = [u \in ReversalsOf(i) |-> udhar[u].amount]
  OBVIOUS
<1>2. DOMAIN f = {}
  BY <1>1 DEF ReversalsOf, MovementsLinked
<1>3. Added(f) = 0
  BY <1>2, SumEmpty DEF Added
<1> QED BY <1>1, <1>3 DEF CreditReversed, ReversalsOf

\* The table after bill i is cancelled on drawer s.
CancelledOf(i, s) ==
  /\ DOMAIN invoices' = DOMAIN invoices
  /\ invoices'[i] = [invoices[i] EXCEPT !.status = "CANCELLED", !.cancelShift = s]
  /\ invoices'[i] \in InvoiceType
  /\ invoices'[i].type = invoices[i].type /\ invoices'[i].status = "CANCELLED"
  /\ invoices'[i].cancelShift = s
  /\ \A j \in DOMAIN invoices : j # i => invoices'[j] = invoices[j] /\ TermsKept(j)

Cancelling(i, s) == invoices' = [invoices EXCEPT ![i].status = "CANCELLED", ![i].cancelShift = s]

LEMMA CancelTables ==
  ASSUME BillsTyped, NEW i \in DOMAIN invoices, NEW s \in Nat, Cancelling(i, s)
  PROVE  CancelledOf(i, s)
<1>1. PICK was : was = invoices[i] /\ was \in InvoiceType
  BY DEF BillsTyped
<1>2. PICK row : row = [was EXCEPT !.status = "CANCELLED", !.cancelShift = s]
  OBVIOUS
<1>3. row \in InvoiceType /\ row.type = was.type /\ row.status = "CANCELLED" /\ row.cancelShift = s
  BY <1>1, <1>2 DEF InvoiceType
<1>4. invoices' = [invoices EXCEPT ![i] = row]
  BY <1>1, <1>2 DEF Cancelling
<1>5. DOMAIN invoices' = DOMAIN invoices /\ \A j \in DOMAIN invoices : invoices'[j] = IF j = i THEN row ELSE invoices[j]
  BY <1>4, ChangeRow DEF BillsTyped
<1> QED BY <1>1, <1>2, <1>3, <1>5 DEF CancelledOf, TermsKept

LEMMA CancelBooks ==
  ASSUME BooksShaped, BooksSound, NEW r \in Requests, Cancel(r)
  PROVE  BooksSound'
<1>1. /\ r \in Request /\ r.kind = "cancel" /\ MayCancel(r.invoice)
  BY RequestsAssumption DEF Cancel
<1>2. PICK i, c, balance : i = r.invoice /\ c = invoices[i].customer /\ balance = BalanceOf(c)
  OBVIOUS
<1>3. PICK s \in ReversalDrawer(r) : BookCancel(r, s, balance)
  BY <1>2 DEF Cancel
<1>4. s \in {0} \cup DOMAIN shifts /\ s \in Nat
  <2>1. Usable(s)
    BY <1>3, DrawersUsable DEF BooksShaped
  <2> QED BY <2>1, RowsFinite DEF Usable, BooksShaped, ShiftsShaped
<1>6. /\ BillsTyped /\ MovementsTyped /\ ExpensesTyped /\ DrawersTyped /\ SumsTyped /\ Owed \in Int
      /\ CustomersTyped /\ RowsTyped
  BY TablesTyped DEF BooksSound, CustomersTyped, RowsTyped
<1>7. /\ i \in DOMAIN invoices /\ c \in Customer \cup {NoCustomer} /\ i \in Nat
      /\ invoices[i].type = "SALE" /\ invoices[i].status = "COMPLETED" /\ invoices[i].returned = 0
  BY <1>1, <1>2, <1>6, RowsFinite DEF MayCancel, IsOpenSale, BooksShaped, InvoicesShaped
<1>8. balance \in Int
  BY <1>2, <1>6, <1>7 DEF BalanceOf, CustomersTyped
<1>9. PICK qty, total, paid, credit, reversed :
        /\ qty = invoices[i].qty /\ total = invoices[i].total /\ paid = invoices[i].cash /\ credit = invoices[i].udhar
        /\ reversed = CancelledUdhar(i, balance)
  OBVIOUS
<1>10. qty \in Nat /\ total \in Nat /\ paid \in Int /\ credit \in Nat /\ invoices[i].bank \in Int
  BY <1>6, <1>7, <1>9 DEF BillsTyped, InvoiceType
<1>11. reversed \in Nat /\ reversed <= credit /\ (reversed > 0 => c # NoCustomer)
  <2>1. reversed \in 0 .. credit
    BY <1>8, <1>9, <1>10, CancelledBounds
  <2>2. reversed > 0 => c # NoCustomer
    BY <1>2, <1>9 DEF CancelledUdhar
  <2> QED BY <1>10, <2>1, <2>2
<1>12. PICK cash, bank : cash = CashRefund(r, balance) /\ bank = BankRefund(r, balance)
  OBVIOUS
<1>13. cash = paid + (credit - reversed) /\ cash \in Int /\ bank \in Int
  <2>1. cash = paid + (credit - reversed) /\ bank = invoices[i].bank
    BY <1>1, <1>2, <1>9, <1>12 DEF CashRefund, BankRefund
  <2> QED BY <1>10, <1>11, <2>1
<1>14. Reverse(r, s, balance, reversed, qty, i)
  BY <1>2, <1>3, <1>9 DEF BookCancel
<1>15. /\ MoveDrawer(s, -total, -cash, -bank, -reversed)
       /\ Post(Entries(-cash, -bank, -reversed, -total, -qty))
       /\ onHand' = onHand + qty /\ expenses' = expenses
  BY <1>1, <1>2, <1>9, <1>12, <1>14 DEF Reverse
<1>16. Cancelling(i, s)
  BY <1>2, <1>3 DEF BookCancel, Cancelling
<1>17. CancelledOf(i, s)
  <2>1. i \in DOMAIN invoices /\ s \in Nat /\ BillsTyped
    BY <1>4, <1>6, <1>7
  <2> QED BY <1>16, <2>1, CancelTables
<1>171. /\ DOMAIN invoices' = DOMAIN invoices /\ invoices'[i] \in InvoiceType
        /\ invoices'[i].type = "SALE" /\ invoices'[i].status = "CANCELLED" /\ invoices'[i].cancelShift = s
        /\ \A j \in DOMAIN invoices : j # i => invoices'[j] = invoices[j]
  BY <1>7, <1>17 DEF CancelledOf
<1>18. CreditMoves(reversed, i)
  <2>1. Reverse(r, s, BalanceOf(c), reversed, qty, i) /\ c = invoices[r.invoice].customer
    BY <1>2, <1>14
  <2> QED BY <1>1, <1>6, <1>7, <1>11, <2>1, ReverseSums
<1>19. CreditReversed(i)' = reversed /\ \A j \in DOMAIN invoices : j # i => CreditReversed(j)' = CreditReversed(j)
  <2>1. CreditReversed(i) = 0
    BY <1>7, NothingReversed DEF BooksSound
  <2> QED BY <1>6, <1>11, <1>18, <2>1 DEF CreditMoves, SumsTyped
<1>20. BillCancelled(i, s)
  BY <1>7, <1>17, <1>19 DEF BillCancelled, CancelledOf
<1>21. PICK mc, mt, mr, mg : mc = -cash /\ mt = -total /\ mr = -reversed /\ mg = -qty
  OBVIOUS
<1>22. /\ mc \in Int /\ mt \in Int /\ mr \in Int /\ mg \in Int /\ -bank \in Int /\ mr = 0 - reversed
       /\ 0 - mg = qty
  <2>1. mc \in Int /\ -bank \in Int
    BY <1>13, <1>21
  <2>2. mt \in Int /\ mr \in Int /\ mr = 0 - reversed /\ mg \in Int /\ 0 - mg = qty
    BY <1>10, <1>11, <1>21
  <2> QED BY <2>1, <2>2
<1>23. ASSUME NEW x
       PROVE  /\ OnDrawers(x)'.cash = OnDrawers(x).cash + At(x, s, mc)
              /\ OnDrawers(x)'.sales = OnDrawers(x).sales + At(x, s, mt)
              /\ OnDrawers(x)'.udhar = OnDrawers(x).udhar + At(x, s, mr)
              /\ SoldInAll' = SoldInAll - qty
  <2>1. \A j \in DOMAIN invoices : CreditReversed(j) \in Int
    BY <1>6 DEF SumsTyped
  <2>2. CreditReversed(i)' \in 0 .. invoices[i].udhar
    BY <1>9, <1>10, <1>11, <1>19
  <2>3. /\ OnDrawers(x)'.cash =
             OnDrawers(x).cash - At(x, s, invoices[i].cash + (invoices[i].udhar - CreditReversed(i)'))
        /\ OnDrawers(x)'.sales = OnDrawers(x).sales - At(x, s, invoices[i].total)
        /\ OnDrawers(x)'.udhar = OnDrawers(x).udhar - At(x, s, CreditReversed(i)')
        /\ SoldInAll' = SoldInAll - invoices[i].qty
    BY <1>6, <1>20, <2>1, <2>2, BillsFewer
  <2>4. PICK on, next : on = OnDrawers(x) /\ next = OnDrawers(x)' /\ on \in DrawerSums
    BY <1>6 DEF SumsTyped
  <2>5. /\ next.cash = on.cash - At(x, s, cash) /\ next.sales = on.sales - At(x, s, total)
        /\ next.udhar = on.udhar - At(x, s, reversed) /\ SoldInAll' = SoldInAll - qty
    BY <1>9, <1>13, <1>19, <2>3, <2>4
  <2>6. on.cash \in Int /\ on.sales \in Int /\ on.udhar \in Int
    BY <2>4 DEF DrawerSums
  <2>7. \A d \in Int : \A a \in Int : a - At(x, s, d) = a + At(x, s, -d)
    BY DEF At
  <2>8. /\ next.cash = on.cash + At(x, s, mc) /\ next.sales = on.sales + At(x, s, mt)
        /\ next.udhar = on.udhar + At(x, s, mr)
    BY <1>10, <1>11, <1>13, <1>21, <2>5, <2>6, <2>7
  <2> QED BY <2>4, <2>5, <2>8
<1>24. CountersMove(s, mc, mt, mr, 0, 0)
  <2>1. MoveDrawer(s, mt, mc, -bank, mr)
    BY <1>15, <1>21
  <2> QED BY <1>4, <1>6, <1>22, <2>1, MoveDrawerMoves
<1>25. /\ \A x : SpentOn(x)' = SpentOn(x) + 0
       /\ OutlayInAll' = OutlayInAll + 0 /\ ExpensesPosted'
       /\ \A e \in DOMAIN expenses' : expenses'[e] \in ExpenseType
  BY <1>6, <1>15, ExpensesSame DEF BooksSound
<1>26. DrawersRebuild' /\ \A x \in DOMAIN shifts' : shifts'[x] \in ShiftType
  <2>1. \A x : At(x, s, 0) = 0
    BY DEF At
  <2>2. \A x : Receipts(x)'.all = Receipts(x).all + At(x, s, 0) /\ Receipts(x)'.cash = Receipts(x).cash + At(x, s, 0)
    BY <1>6, <1>18, <2>1 DEF SumsTyped, CreditMoves
  <2>3. \A x : SpentOn(x)' = SpentOn(x) + At(x, s, 0)
    BY <1>25, <2>1
  <2>4. DrawersRebuild
    BY DEF BooksSound, SumsHold
  <2>5. mc = mc + 0 - 0
    BY <1>22
  <2>6. DocumentsMove(s, mc, mt, mr, 0, 0, 0)
    BY <1>23, <2>2, <2>3 DEF DocumentsMove
  <2>7. 0 \in Int
    OBVIOUS
  <2> QED BY <1>6, <1>22, <1>24, <2>4, <2>5, <2>6, <2>7, RebuiltKept
<1>27. AccountsMove(mr, 0, 0 - mg)
  <2>1. Post(Entries(mc, -bank, mr, mt, mg))
    BY <1>15, <1>21
  <2> QED BY <1>6, <1>22, <2>1, BillPosted DEF RowsTyped
<1>28. ReceivablesMatch' /\ ExpensesOnBooks' /\ StockMatchesBooks' /\ onHand' \in Int
  <2>1. AccountsMove(mr, 0, qty)
    BY <1>22, <1>27
  <2>2. SoldInAll' = SoldInAll - qty
    BY <1>23
  <2>3. qty \in Int /\ 0 \in Int
    BY <1>10
  <2>4. onHand' = onHand + qty /\ onHand' >= 0
    <3>1. onHand >= 0 /\ onHand \in Int
      BY <1>6 DEF BooksSound, SumsHold, StockMatchesBooks, RowsTyped
    <3> QED BY <1>10, <1>15, <3>1
  <2>5. Owed' = Owed + mr
    BY <1>18, <1>22 DEF CreditMoves
  <2> QED BY <1>6, <1>22, <1>25, <2>1, <2>2, <2>3, <2>4, <2>5, AccountsAgree DEF BooksSound, SumsHold
<1>29. RefundsCapped'
  <2>1. RefundsCapped /\ BillsLinked
    BY DEF BooksSound, SumsHold
  <2> QED BY <1>6, <1>7, <1>171, <1>20, <2>1, CappedCancel
<1>30. RowsTyped'
  <2>1. \A j \in DOMAIN invoices' : invoices'[j] \in InvoiceType
    BY <1>6, <1>171 DEF RowsTyped
  <2>2. ledger' \in [Account -> Int]
    BY <1>27 DEF AccountsMove
  <2> QED BY <1>18, <1>25, <1>26, <1>28, <2>1, <2>2 DEF RowsTyped, CustomersTyped, CreditMoves
<1>31. DOMAIN shifts' = DOMAIN shifts
  BY <1>24 DEF CountersMove
<1>32. BillsLinked'
  <2>1. /\ invoices'[i].cancelShift \in {0} \cup DOMAIN shifts'
        /\ invoices'[i].type # "RETURN"
    BY <1>4, <1>171, <1>31
  <2>2. BillsLinked
    BY DEF BooksSound
  <2> QED BY <1>171, <1>31, <2>1, <2>2 DEF BillsLinked
<1>33. MovementsLinked'
  <2>1. ReversalWritten(i)
    <3>1. Reverse(r, s, BalanceOf(c), reversed, qty, i) /\ c = invoices[r.invoice].customer
      BY <1>2, <1>14
    <3> QED BY <1>1, <1>6, <1>7, <1>11, <3>1, ReverseLinked
  <2>2. \A j \in DOMAIN invoices :
          /\ invoices'[j].type = invoices[j].type
          /\ invoices[j].status = "CANCELLED" => invoices'[j].status = "CANCELLED"
    BY <1>7, <1>171
  <2>3. \/ udhar' = udhar
        \/ \E row : /\ MovementsThen(row) /\ row.shift \in {0} \cup DOMAIN shifts
                    /\ row.type = "ADJUSTMENT" =>
                         /\ row.invoice \in DOMAIN invoices'
                         /\ \/ invoices'[row.invoice].type = "RETURN"
                            \/ invoices'[row.invoice].status = "CANCELLED"
    BY <1>7, <1>171, <2>1 DEF ReversalWritten
  <2> QED BY <1>171, <1>31, <2>2, <2>3, MovementsStayLinked DEF BooksSound
<1> QED BY <1>25, <1>26, <1>28, <1>29, <1>30, <1>32, <1>33 DEF BooksSound, SumsHold

-----------------------------------------------------------------------------
(* A movement of a balance without a bill: a repayment, an opening balance *)

\* What the row of a movement brings drawer s, and no other.
Brings(row, s, receipts, cash) ==
  \A x \in DOMAIN shifts :
    /\ Received(row, x) = At(x, s, receipts)
    /\ (IF row.tender = "CASH" THEN Received(row, x) ELSE 0) = At(x, s, cash)

LEMMA MovementBooks ==
  ASSUME BooksShaped, BooksSound, NEW c, NEW d, NEW row, Moves(c, d, row), row.type # "ADJUSTMENT",
         row.shift \in {0} \cup DOMAIN shifts, NEW s, NEW received \in Int, NEW cash \in Int,
         Brings(row, s, received, cash), CountersMove(s, cash, 0, 0, received, 0), AccountsMove(d, 0, 0),
         UNCHANGED <<invoices, expenses, onHand>>
  PROVE  BooksSound'
<1>1. /\ BillsTyped /\ MovementsTyped /\ ExpensesTyped /\ DrawersTyped /\ SumsTyped /\ Owed \in Int
      /\ CustomersTyped /\ RowsTyped
  BY TablesTyped DEF BooksSound, CustomersTyped, RowsTyped
<1>2. d \in Int
  BY DEF Moves
<1>3. /\ Owed' = Owed + d /\ CustomersTyped' /\ MovementsThen(row)
      /\ \A u \in DOMAIN udhar' : udhar'[u] \in UdharType
  BY <1>1, MovesSums
<1>4. \A i : CreditReversed(i)' = CreditReversed(i)
  <2>1. \A i : CreditReversed(i)' = CreditReversed(i) + 0
    BY <1>1, MovesSums
  <2>2. \A i : CreditReversed(i) \in Int
    BY <1>1, ReversedInt
  <2> QED BY <2>1, <2>2
<1>5. \A x : OnDrawers(x)' = OnDrawers(x) /\ SoldInAll' = SoldInAll
  BY <1>1, <1>4, BillsSame DEF BillsTyped
<1>6. /\ \A x : SpentOn(x)' = SpentOn(x) + 0
      /\ OutlayInAll' = OutlayInAll + 0 /\ ExpensesPosted'
      /\ \A e \in DOMAIN expenses' : expenses'[e] \in ExpenseType
  BY <1>1, ExpensesSame DEF BooksSound
<1>7. DrawersRebuild' /\ \A x \in DOMAIN shifts' : shifts'[x] \in ShiftType
  <2>1. \A x : At(x, s, 0) = 0
    BY DEF At
  <2>2. \A x : /\ Receipts(x)'.all = Receipts(x).all + Received(row, x)
               /\ Receipts(x)'.cash = Receipts(x).cash + (IF row.tender = "CASH" THEN Received(row, x) ELSE 0)
    BY <1>1, MovesSums
  <2>3. \A x \in DOMAIN shifts : /\ Receipts(x)'.all = Receipts(x).all + At(x, s, received)
                                 /\ Receipts(x)'.cash = Receipts(x).cash + At(x, s, cash)
    BY <2>2 DEF Brings
  <2>4. \A x : /\ OnDrawers(x)'.cash = OnDrawers(x).cash + At(x, s, 0)
               /\ OnDrawers(x)'.sales = OnDrawers(x).sales + At(x, s, 0)
               /\ OnDrawers(x)'.udhar = OnDrawers(x).udhar + At(x, s, 0)
    BY <1>1, <1>5, <2>1 DEF SumsTyped, DrawerSums
  <2>5. \A x : SpentOn(x)' = SpentOn(x) + At(x, s, 0)
    BY <1>6, <2>1
  <2>6. DocumentsMove(s, 0, 0, 0, received, cash, 0)
    BY <2>3, <2>4, <2>5 DEF DocumentsMove
  <2>7. DrawersRebuild
    BY DEF BooksSound, SumsHold
  <2>8. cash = 0 + cash - 0 /\ 0 \in Int
    OBVIOUS
  <2> QED BY <1>1, <2>6, <2>7, <2>8, RebuiltKept
<1>8. ReceivablesMatch' /\ ExpensesOnBooks' /\ StockMatchesBooks' /\ onHand' \in Int
  <2>1. /\ onHand' = onHand + 0 /\ onHand' >= 0 /\ SoldInAll' = SoldInAll - 0
    BY <1>1, <1>5 DEF BooksSound, SumsHold, StockMatchesBooks, RowsTyped, SumsTyped
  <2>2. 0 \in Int
    OBVIOUS
  <2> QED BY <1>1, <1>2, <1>3, <1>6, <2>1, <2>2, AccountsAgree DEF BooksSound, SumsHold
<1>9. RefundsCapped'
  BY <1>1, CappedSame DEF BooksSound, SumsHold
<1>10. RowsTyped'
  <2>1. ledger' \in [Account -> Int]
    BY DEF AccountsMove
  <2> QED BY <1>1, <1>3, <1>6, <1>7, <1>8, <2>1 DEF RowsTyped, CustomersTyped
<1>11. DOMAIN shifts' = DOMAIN shifts
  BY DEF CountersMove
<1>12. BillsLinked'
  BY <1>11 DEF BillsLinked, BooksSound
<1>13. MovementsLinked'
  BY <1>3, <1>11, MovementsStayLinked DEF BooksSound
<1> QED BY <1>6, <1>7, <1>8, <1>9, <1>10, <1>12, <1>13 DEF BooksSound, SumsHold

LEMMA RepayBooks ==
  ASSUME BooksShaped, BooksSound, NEW r \in Requests, Repay(r)
  PROVE  BooksSound'
<1>1. /\ r \in Request /\ r.amount \in Int /\ r.customer \in Customer
  BY RequestsAssumption DEF Repay
<1>2. PICK balance : balance = BalanceOf(r.customer)
  OBVIOUS
<1>3. PICK s \in OwnDrawer(r.actor) : BookRepayment(r, s, balance)
  BY <1>2 DEF Repay
<1>4. /\ DrawersTyped /\ CustomersTyped /\ RowsTyped
  BY TablesTyped DEF BooksSound, CustomersTyped, RowsTyped
<1>5. s \in {0} \cup DOMAIN shifts /\ s \in Nat /\ 0 \notin DOMAIN shifts
  <2>1. Usable(s)
    BY <1>3, DrawersUsable DEF BooksShaped
  <2> QED BY <2>1, RowsFinite DEF Usable, BooksShaped, ShiftsShaped
<1>6. balance = customers[r.customer].balance /\ balance \in Int
  BY <1>1, <1>2, <1>4, ShopAssumption DEF BalanceOf, CustomersTyped
<1>7. PICK d, cash, bank, after :
        /\ d = 0 - r.amount /\ cash = (IF r.tender = "CASH" THEN r.amount ELSE 0)
        /\ bank = r.amount - cash /\ after = balance + d
  OBVIOUS
<1>8. d \in Int /\ cash \in Int /\ bank \in Int /\ after \in Int
  BY <1>1, <1>6, <1>7
<1>9. after = balance - r.amount /\ d = -r.amount
  BY <1>1, <1>6, <1>7
<1>10. PICK row : row = UdharRow("PAYMENT", r, balance, after, s, 0)
  OBVIOUS
<1>11. /\ row \in UdharType /\ row.type = "PAYMENT" /\ row.shift = s /\ row.amount = r.amount /\ row.tender = r.tender
  BY <1>1, <1>5, <1>6, <1>8, <1>10 DEF UdharRow, UdharType, Request
<1>12. Moves(r.customer, d, row)
  <2>1. udhar' = Append(udhar, row)
    BY <1>3, <1>9, <1>10 DEF BookRepayment
  <2>2. customers' = [customers EXCEPT ![r.customer].balance = customers[r.customer].balance + d]
    BY <1>3, <1>6, <1>7, <1>9 DEF BookRepayment, SetBalance
  <2> QED BY <1>1, <1>8, <1>11, <2>1, <2>2 DEF Moves
<1>13. Brings(row, s, r.amount, cash)
  BY <1>7, <1>11 DEF Brings, Received, At
<1>14. CountersMove(s, cash, 0, 0, r.amount, 0)
  BY <1>1, <1>3, <1>4, <1>5, <1>7, <1>8, RepaymentMoves
<1>15. AccountsMove(d, 0, 0)
  <2>1. Post(Entries(cash, bank, d, 0, 0))
    BY <1>3, <1>7, <1>9 DEF BookRepayment
  <2>2. AccountsMove(d, 0, 0 - 0)
    BY <1>4, <1>8, <2>1, BillPosted DEF RowsTyped
  <2> QED BY <2>2
<1>16. UNCHANGED <<invoices, expenses, onHand>>
  BY <1>3 DEF BookRepayment
<1>17. row.type # "ADJUSTMENT" /\ row.shift \in {0} \cup DOMAIN shifts
  BY <1>5, <1>11
<1> QED BY <1>1, <1>8, <1>12, <1>13, <1>14, <1>15, <1>16, <1>17, MovementBooks

LEMMA OpeningBooks ==
  ASSUME BooksShaped, BooksSound, NEW r \in Requests, Opening(r)
  PROVE  BooksSound'
<1>1. /\ r \in Request /\ r.amount \in Int /\ r.customer \in Customer
  BY RequestsAssumption DEF Opening, Request
<1>2. /\ DrawersTyped /\ CustomersTyped /\ RowsTyped
  BY TablesTyped DEF BooksSound, CustomersTyped, RowsTyped
<1>3. BookOpening(r) /\ customers[r.customer].balance = 0
  BY DEF Opening, MayOpenBalance
<1>4. PICK d : d = r.amount
  OBVIOUS
<1>5. PICK row : row = UdharRow("OPENING", [r EXCEPT !.key = 0], 0, d, 0, 0)
  OBVIOUS
<1>6. row \in UdharType /\ row.type = "OPENING" /\ row.shift = 0
  BY <1>1, <1>4, <1>5 DEF UdharRow, UdharType, Request
<1>7. d \in Int /\ customers[r.customer].balance + d = r.amount
  BY <1>1, <1>3, <1>4
<1>8. Moves(r.customer, d, row)
  <2>1. udhar' = Append(udhar, row)
    BY <1>3, <1>4, <1>5 DEF BookOpening
  <2>2. customers' = [customers EXCEPT ![r.customer].balance = customers[r.customer].balance + d]
    BY <1>3, <1>7 DEF BookOpening, SetBalance
  <2> QED BY <1>1, <1>6, <1>7, <2>1, <2>2 DEF Moves
<1>9. Brings(row, 0, 0, 0)
  BY <1>6 DEF Brings, Received, At
<1>10. CountersMove(0, 0, 0, 0, 0, 0)
  BY <1>2, <1>3, CountersStay DEF BookOpening
<1>11. AccountsMove(d, 0, 0)
  <2>1. PICK e : e = [NoEntries EXCEPT !["RECEIVABLE"] = r.amount, !["EQUITY"] = -r.amount]
    OBVIOUS
  <2>2. /\ e \in [Account -> Int] /\ e["RECEIVABLE"] = d /\ e["EXPENSES"] = 0 /\ e["INVENTORY"] = 0
    BY <1>1, <1>4, <2>1 DEF NoEntries, Account
  <2>3. Post(e)
    BY <1>3, <2>1 DEF BookOpening
  <2>4. AccountsMove(e["RECEIVABLE"], e["EXPENSES"], e["INVENTORY"])
    BY <1>2, <2>2, <2>3, PostMoves DEF RowsTyped
  <2> QED BY <2>2, <2>4
<1>12. UNCHANGED <<invoices, expenses, onHand>>
  BY <1>3 DEF BookOpening
<1>13. row.type # "ADJUSTMENT" /\ row.shift \in {0} \cup DOMAIN shifts /\ 0 \in Int
  BY <1>6
<1> QED BY <1>8, <1>9, <1>10, <1>11, <1>12, <1>13, MovementBooks

-----------------------------------------------------------------------------
(* An expense *)

\* The row of an expense that is recorded, edited or taken back on drawer s.
ExpenseRow(row, was, next, s) ==
  row = [next EXCEPT !.shift = DrawerAfter(was, next, s), !.cash = CashOut(next), !.bank = BankOut(next)]

LEMMA NextExpense ==
  ASSUME NEW r \in Requests, r.kind \in {"expense", "editExpense", "dropExpense"},
         NEW was \in ExpenseType, NEW next, next = Spent(r, was)
  PROVE  next \in ExpenseType
<1>1. r \in Request /\ (r.kind # "dropExpense" => r.amount \in Nat)
  BY RequestsAssumption
<1>2. CASE r.kind = "dropExpense"
  BY <1>2 DEF Spent, ExpenseType
<1>3. CASE r.kind # "dropExpense"
  BY <1>1, <1>3 DEF Spent, ExpenseType, Request
<1> QED BY <1>2, <1>3

LEMMA ExpenseRowTyped ==
  ASSUME NEW was \in ExpenseType, NEW next \in ExpenseType, NEW s \in Nat, NEW row, ExpenseRow(row, was, next, s)
  PROVE  /\ row \in ExpenseType /\ row.shift = DrawerAfter(was, next, s) /\ row.shift \in {0, s}
         /\ row.cash = CashOut(row) /\ row.bank = BankOut(row)
         /\ CashOut(row) = CashOut(next) /\ BankOut(row) = BankOut(next)
<1>1. PICK d, cash, bank : d = DrawerAfter(was, next, s) /\ cash = CashOut(next) /\ bank = BankOut(next)
  OBVIOUS
<1>2. d \in {0, s} /\ d \in Nat
  BY <1>1 DEF DrawerAfter
<1>3. cash \in Nat /\ bank \in Nat
  BY <1>1, OutlayInt
<1>4. row = [next EXCEPT !.shift = d, !.cash = cash, !.bank = bank]
  BY <1>1 DEF ExpenseRow
<1>5. /\ row \in ExpenseType /\ row.shift = d /\ row.cash = cash /\ row.bank = bank
      /\ row.amount = next.amount /\ row.paid = next.paid /\ row.tender = next.tender /\ row.deleted = next.deleted
  BY <1>2, <1>3, <1>4 DEF ExpenseType
<1>6. CashOut(row) = CashOut(next) /\ BankOut(row) = BankOut(next)
  BY <1>5 DEF CashOut, BankOut
<1> QED BY <1>1, <1>2, <1>5, <1>6

\* The drawers on which a flow may book an expense.
Charged(was, s) ==
  /\ s \in {0} \cup DOMAIN shifts
  /\ was.shift # 0 => s = was.shift
  /\ was.shift = 0 /\ s # 0 => CashOut(was) = 0 /\ shifts[s].status = "OPEN"

\* What the expense takes from the open drawers is what its drawer pays out.
LEMMA ChargeMoves ==
  ASSUME DrawersTyped, NEW was \in ExpenseType, NEW next \in ExpenseType, NEW s, Charged(was, s),
         NEW row, ExpenseRow(row, was, next, s), PayFromDrawer(s, was, next)
  PROVE  \E t : \E paid \in Int :
           /\ CountersMove(t, 0 - paid, 0, 0, 0, paid)
           /\ \A x \in DOMAIN shifts : shifts[x].status = "OPEN" =>
                PaidFrom(row, x) - PaidFrom(was, x) = At(x, t, paid)
<1>1. /\ s \in {0} \cup DOMAIN shifts /\ s \in Nat /\ 0 \notin DOMAIN shifts
  BY RowsFinite DEF Charged, DrawersTyped
<1>2. PICK old, new : old = CashOut(was) /\ new = CashOut(next) /\ old \in Nat /\ new \in Nat
  BY OutlayInt
<1>3. PICK paid : paid = new - old
  OBVIOUS
<1>4. paid \in Int /\ paid = Payout(was, next)
  BY <1>2, <1>3 DEF Payout
<1>5. row.shift = DrawerAfter(was, next, s) /\ CashOut(row) = new
  BY <1>1, <1>2, ExpenseRowTyped
<1>6. CASE s # 0 /\ shifts[s].status = "OPEN"
  <2>1. CountersMove(s, 0 - paid, 0, 0, 0, paid)
    BY <1>1, <1>4, <1>6, PayoutMoves
  <2>2. ASSUME NEW x \in DOMAIN shifts
        PROVE  PaidFrom(row, x) - PaidFrom(was, x) = At(x, s, paid)
    <3>1. CASE x # s
      <4>1. row.shift # x /\ was.shift # x
        BY <1>1, <1>5, <3>1 DEF DrawerAfter, Charged
      <4> QED BY <3>1, <4>1 DEF PaidFrom, At
    <3>2. CASE x = s
      <4>1. PaidFrom(was, x) = old
        BY <1>1, <1>2, <1>6, <3>2 DEF PaidFrom, Charged
      <4>2. PaidFrom(row, x) = new
        <5>1. CASE new > 0
          BY <1>2, <1>5, <3>2, <5>1 DEF PaidFrom, DrawerAfter
        <5>2. CASE new = 0
          BY <1>5, <5>2 DEF PaidFrom
        <5> QED BY <1>2, <5>1, <5>2
      <4> QED BY <1>3, <3>2, <4>1, <4>2 DEF At
    <3> QED BY <3>1, <3>2
  <2>3. \A x \in DOMAIN shifts : shifts[x].status = "OPEN" => PaidFrom(row, x) - PaidFrom(was, x) = At(x, s, paid)
    BY <2>2
  <2>4. paid \in Int
    BY <1>4
  <2> QED BY <2>1, <2>3, <2>4
<1>7. CASE ~(s # 0 /\ shifts[s].status = "OPEN")
  <2>1. CountersMove(0, 0, 0, 0, 0, 0)
    BY <1>1, <1>4, <1>7, PayoutMoves
  <2>2. ASSUME NEW x \in DOMAIN shifts, shifts[x].status = "OPEN"
        PROVE  PaidFrom(row, x) - PaidFrom(was, x) = At(x, 0, 0)
    <3>1. row.shift # x /\ was.shift # x
      BY <1>1, <1>5, <1>7, <2>2 DEF DrawerAfter, Charged
    <3> QED BY <3>1 DEF PaidFrom, At
  <2>3. CountersMove(0, 0 - 0, 0, 0, 0, 0) /\ 0 \in Int
    BY <2>1
  <2> QED BY <2>2, <2>3
<1> QED BY <1>6, <1>7

\* The ledger moves by what the expense costs more.
LEMMA ExpensePosted ==
  ASSUME ledger \in [Account -> Int], NEW was \in ExpenseType, NEW next \in ExpenseType,
         was.cash = CashOut(was), was.bank = BankOut(was), SyncLedger(was, next)
  PROVE  AccountsMove(0, Outlay(next) - Outlay(was), 0)
<1>1. PICK cash, bank : cash = CashOut(next) - was.cash /\ bank = BankOut(next) - was.bank
  OBVIOUS
<1>2. PICK more : more = cash + bank
  OBVIOUS
<1>3. /\ CashOut(next) \in Nat /\ BankOut(next) \in Nat /\ CashOut(was) \in Nat /\ BankOut(was) \in Nat
      /\ Outlay(next) = CashOut(next) + BankOut(next) /\ Outlay(was) = CashOut(was) + BankOut(was)
  BY OutlayInt
<1>4. cash \in Int /\ bank \in Int /\ more \in Int /\ more = Outlay(next) - Outlay(was)
  BY <1>1, <1>2, <1>3
<1>5. PICK e : e = [NoEntries EXCEPT !["EXPENSES"] = more, !["CASH"] = -cash, !["BANK"] = -bank]
  OBVIOUS
<1>6. /\ e \in [Account -> Int] /\ e["RECEIVABLE"] = 0 /\ e["EXPENSES"] = more /\ e["INVENTORY"] = 0
  BY <1>4, <1>5 DEF NoEntries, Account
<1>7. Post(e)
  BY <1>1, <1>2, <1>5 DEF SyncLedger
<1>8. AccountsMove(e["RECEIVABLE"], e["EXPENSES"], e["INVENTORY"])
  BY <1>6, <1>7, PostMoves
<1> QED BY <1>4, <1>6, <1>8

LEMMA ExpenseTables ==
  ASSUME ExpensesTyped, NEW e, NEW was, NEW row,
         (e = 0 /\ was = NoExpense) \/ (e \in DOMAIN expenses /\ was = expenses[e]),
         expenses' = IF e \in DOMAIN expenses THEN [expenses EXCEPT ![e] = row] ELSE Append(expenses, row)
  PROVE  \E n : ExpenseWritten(n, was, row)
<1>1. IsRows(expenses) /\ 0 \notin DOMAIN expenses
  BY RowsFinite DEF ExpensesTyped
<1>2. CASE e = 0 /\ was = NoExpense
  <2>1. expenses' = Append(expenses, row)
    BY <1>1, <1>2
  <2>2. PICK n : n = Len(expenses) + 1
    OBVIOUS
  <2>3. ExpenseWritten(n, was, row)
    BY <1>1, <1>2, <2>1, <2>2, AppendRow DEF ExpenseWritten
  <2> QED BY <2>3
<1>3. CASE e \in DOMAIN expenses /\ was = expenses[e]
  <2>1. expenses' = [expenses EXCEPT ![e] = row]
    BY <1>3
  <2>2. ExpenseWritten(e, was, row)
    BY <1>1, <1>3, <2>1, ChangeRow DEF ExpenseWritten
  <2> QED BY <2>2
<1> QED BY <1>2, <1>3

LEMMA ExpenseWrites ==
  ASSUME BooksShaped, BooksSound,
         NEW r \in Requests, r.kind \in {"expense", "editExpense", "dropExpense"}, NEW e, NEW was, NEW s,
         (e = 0 /\ was = NoExpense) \/ (e \in DOMAIN expenses /\ was = expenses[e]),
         Charged(was, s), BookExpense(r, e, was, s)
  PROVE  BooksSound'
<1>1. /\ BillsTyped /\ MovementsTyped /\ ExpensesTyped /\ DrawersTyped /\ SumsTyped /\ Owed \in Int
      /\ CustomersTyped /\ RowsTyped
  BY TablesTyped DEF BooksSound, CustomersTyped, RowsTyped
<1>2. was \in ExpenseType /\ was.cash = CashOut(was) /\ was.bank = BankOut(was)
  <2>1. CASE was = NoExpense
    BY <2>1 DEF NoExpense, ExpenseType, Tender, CashOut, BankOut
  <2>2. CASE e \in DOMAIN expenses /\ was = expenses[e]
    BY <1>1, <2>2 DEF ExpensesTyped, BooksSound, ExpensesPosted
  <2> QED BY <2>1, <2>2
<1>3. PICK next : next = Spent(r, was)
  OBVIOUS
<1>4. next \in ExpenseType
  BY <1>2, <1>3, NextExpense
<1>5. PICK row : ExpenseRow(row, was, next, s)
  BY DEF ExpenseRow
<1>6. s \in {0} \cup DOMAIN shifts /\ s \in Nat
  BY <1>1, RowsFinite DEF Charged, DrawersTyped
<1>7. /\ row \in ExpenseType /\ row.shift \in {0, s} /\ row.cash = CashOut(row) /\ row.bank = BankOut(row)
      /\ CashOut(row) = CashOut(next) /\ BankOut(row) = BankOut(next)
  BY <1>2, <1>4, <1>5, <1>6, ExpenseRowTyped
<1>8. /\ expenses' = IF e \in DOMAIN expenses THEN [expenses EXCEPT ![e] = row] ELSE Append(expenses, row)
      /\ PayFromDrawer(s, was, next) /\ SyncLedger(was, next)
      /\ UNCHANGED <<invoices, udhar, customers, lastNumber, onHand>>
  BY <1>3, <1>5 DEF BookExpense, ExpenseRow
<1>9. PICK n : ExpenseWritten(n, was, row)
  BY <1>1, <1>8, ExpenseTables
<1>10. PICK t : \E paid \in Int :
         /\ CountersMove(t, 0 - paid, 0, 0, 0, paid)
         /\ \A x \in DOMAIN shifts : shifts[x].status = "OPEN" =>
              PaidFrom(row, x) - PaidFrom(was, x) = At(x, t, paid)
  BY <1>1, <1>2, <1>4, <1>5, <1>8, ChargeMoves
<1>11. PICK paid \in Int :
         /\ CountersMove(t, 0 - paid, 0, 0, 0, paid)
         /\ \A x \in DOMAIN shifts : shifts[x].status = "OPEN" =>
              PaidFrom(row, x) - PaidFrom(was, x) = At(x, t, paid)
  BY <1>10
<1>12. PICK spent : spent = Outlay(next) - Outlay(was)
  OBVIOUS
<1>13. AccountsMove(0, spent, 0)
  BY <1>1, <1>2, <1>4, <1>8, <1>12, ExpensePosted DEF RowsTyped
<1>14. spent \in Int /\ Outlay(row) = Outlay(next)
  BY <1>2, <1>4, <1>7, <1>12, OutlayInt
<1>15. \A x : /\ SpentOn(x)' = SpentOn(x) + (PaidFrom(row, x) - PaidFrom(was, x))
              /\ OutlayInAll' = OutlayInAll + (Outlay(row) - Outlay(was))
  BY <1>1, <1>7, <1>9, SpentMore
<1>16. OutlayInAll' = OutlayInAll + spent
  BY <1>12, <1>14, <1>15
<1>17. /\ \A i : CreditReversed(i)' = CreditReversed(i)
       /\ \A x : Receipts(x)' = Receipts(x)
  BY <1>8 DEF CreditReversed, Receipts, ReceiptsOn, CashReceiptsOn
<1>18. \A x : OnDrawers(x)' = OnDrawers(x) /\ SoldInAll' = SoldInAll
  BY <1>1, <1>8, <1>17, BillsSame DEF BillsTyped
<1>19. DrawersRebuild' /\ \A x \in DOMAIN shifts' : shifts'[x] \in ShiftType
  <2>1. \A x : At(x, t, 0) = 0
    BY DEF At
  <2>2. \A x : Receipts(x)'.all = Receipts(x).all + At(x, t, 0) /\ Receipts(x)'.cash = Receipts(x).cash + At(x, t, 0)
    BY <1>1, <1>17, <2>1 DEF SumsTyped
  <2>3. \A x : /\ OnDrawers(x)'.cash = OnDrawers(x).cash + At(x, t, 0)
               /\ OnDrawers(x)'.sales = OnDrawers(x).sales + At(x, t, 0)
               /\ OnDrawers(x)'.udhar = OnDrawers(x).udhar + At(x, t, 0)
    BY <1>1, <1>18, <2>1 DEF SumsTyped, DrawerSums
  <2>4. \A x \in DOMAIN shifts : shifts[x].status = "OPEN" => SpentOn(x)' = SpentOn(x) + At(x, t, paid)
    BY <1>11, <1>15
  <2>5. DocumentsMove(t, 0, 0, 0, 0, 0, paid)
    BY <2>2, <2>3, <2>4 DEF DocumentsMove
  <2>6. DrawersRebuild
    BY DEF BooksSound, SumsHold
  <2>7. 0 - paid = 0 + 0 - paid /\ 0 \in Int
    OBVIOUS
  <2>8. CountersMove(t, 0 - paid, 0, 0, 0, paid)
    BY <1>11
  <2> QED BY <1>1, <2>5, <2>6, <2>7, <2>8, RebuiltKept
<1>20. ReceivablesMatch' /\ ExpensesOnBooks' /\ StockMatchesBooks' /\ onHand' \in Int
  <2>1. /\ onHand' = onHand + 0 /\ onHand' >= 0 /\ SoldInAll' = SoldInAll - 0
    BY <1>1, <1>8, <1>18 DEF BooksSound, SumsHold, StockMatchesBooks, RowsTyped, SumsTyped
  <2>2. Owed' = Owed + 0 /\ 0 \in Int
    BY <1>1, <1>8 DEF Owed
  <2> QED BY <1>1, <1>13, <1>14, <1>16, <2>1, <2>2, AccountsAgree DEF BooksSound, SumsHold
<1>21. RefundsCapped'
  BY <1>1, <1>8, CappedSame DEF BooksSound, SumsHold
<1>22. /\ DOMAIN expenses' = DOMAIN expenses \cup {n} /\ expenses'[n] = row
       /\ \A x \in DOMAIN expenses : x # n => expenses'[x] = expenses[x]
  BY <1>9 DEF ExpenseWritten
<1>23. RowsTyped'
  <2>1. ledger' \in [Account -> Int]
    BY <1>13 DEF AccountsMove
  <2>2. \A x \in DOMAIN expenses' : expenses'[x] \in ExpenseType
    BY <1>1, <1>7, <1>22 DEF ExpensesTyped
  <2> QED BY <1>1, <1>8, <1>19, <1>20, <2>1, <2>2 DEF RowsTyped
<1>24. ExpensesPosted'
  BY <1>7, <1>22 DEF ExpensesPosted, BooksSound
<1>25. DOMAIN shifts' = DOMAIN shifts
  BY <1>11 DEF CountersMove
<1>26. BillsLinked' /\ MovementsLinked'
  BY <1>8, <1>25 DEF BillsLinked, MovementsLinked, BooksSound
<1> QED BY <1>19, <1>20, <1>21, <1>23, <1>24, <1>26 DEF BooksSound, SumsHold

LEMMA ExpenseBooks ==
  ASSUME BooksShaped, BooksSound, NEW r \in Requests, Expense(r) \/ EditExpense(r)
  PROVE  BooksSound'
<1>1. /\ ShiftsShaped /\ ExpensesShaped
  BY DEF BooksShaped
<1>2. ASSUME NEW was, was.shift = 0, NEW s \in {0, PayingShift(r, was)}
      PROVE  Charged(was, s)
  <2>1. Usable(s)
    BY <1>1, <1>2, DrawersUsable DEF Usable
  <2>2. s # 0 => CashOut(was) = 0
    BY <1>2 DEF PayingShift
  <2> QED BY <1>2, <2>1, <2>2 DEF Usable, Charged
<1>3. CASE Expense(r)
  <2>1. PICK s \in {0, PayingShift(r, NoExpense)} : BookExpense(r, 0, NoExpense, s)
    BY <1>3 DEF Expense
  <2>2. Charged(NoExpense, s)
    BY <1>2 DEF NoExpense
  <2>3. r.kind = "expense"
    BY <1>3 DEF Expense
  <2> QED BY <2>1, <2>2, <2>3, ExpenseWrites
<1>4. CASE EditExpense(r)
  <2>1. PICK e, was : e = r.expense /\ was = expenses[e]
    OBVIOUS
  <2>2. e \in DOMAIN expenses /\ r.kind \in {"editExpense", "dropExpense"}
    BY <1>4, <2>1 DEF EditExpense
  <2>3. PICK s \in (IF was.shift = 0 THEN {0, PayingShift(r, was)} ELSE {was.shift}) : BookExpense(r, e, was, s)
    BY <1>4, <2>1 DEF EditExpense
  <2>4. Charged(was, s)
    <3>1. CASE was.shift = 0
      BY <1>2, <2>3, <3>1
    <3>2. CASE was.shift # 0
      BY <1>1, <2>1, <2>2, <2>3, <3>2 DEF Charged, ExpensesShaped
    <3> QED BY <3>1, <3>2
  <2> QED BY <2>1, <2>2, <2>3, <2>4, ExpenseWrites
<1> QED BY <1>3, <1>4

-----------------------------------------------------------------------------
(* Every flow keeps the books *)

LEMMA ServeBooks ==
  ASSUME BooksShaped, BooksSound, NEW r \in Requests, Serve(r)
  PROVE  BooksSound'
<1>1. r \in Request
  BY RequestsAssumption
<1>2. CASE OpenShift(r)
  BY <1>1, <1>2, OpenShiftBooks
<1>3. CASE CloseShift(r)
  BY <1>1, <1>3, CloseShiftBooks
<1>4. CASE Delete(r)
  <2>1. r.customer \in Customer
    BY <1>4, RequestsAssumption DEF Delete
  <2> QED BY <1>1, <1>4, <2>1, DeleteBooks
<1> QED BY <1>2, <1>3, <1>4, SaleBooks, ReturnBooks, CancelBooks, RepayBooks, OpeningBooks, ExpenseBooks
        DEF Serve

LEMMA SumsStay ==
  ASSUME BooksShaped, BooksSound, UNCHANGED books
  PROVE  BooksSound'
<1>1. /\ invoices' = invoices /\ udhar' = udhar /\ customers' = customers /\ shifts' = shifts
      /\ expenses' = expenses /\ onHand' = onHand /\ ledger' = ledger
  BY DEF books
<1>2. RowsTyped'
  BY <1>1 DEF BooksSound, RowsTyped
<1>3. BillsLinked' /\ MovementsLinked' /\ ExpensesPosted'
  BY <1>1, LinksSame DEF BooksSound
<1>4. ReceivablesMatch' /\ ExpensesOnBooks' /\ StockMatchesBooks'
  BY <1>1, OwedSame, AccountsSame DEF BooksSound, SumsHold
<1>5. \A x : OnDrawers(x)' = OnDrawers(x) /\ Receipts(x)' = Receipts(x) /\ SpentOn(x)' = SpentOn(x)
  BY <1>1, SumsSame
<1>6. DrawersRebuild'
  <2>1. \A x \in DOMAIN shifts : Rebuilt(x)
    BY RebuiltAll DEF BooksSound, SumsHold
  <2>2. \A x \in DOMAIN shifts' : Rebuilt(x)'
    BY <1>1, <1>5, <2>1 DEF Rebuilt
  <2> QED BY <2>2, RebuiltAllNext
<1>7. RefundsCapped'
  BY <1>1, CappedSame, TablesTyped DEF BooksSound, SumsHold
<1> QED BY <1>2, <1>3, <1>4, <1>6, <1>7 DEF BooksSound, SumsHold

\* At the start of a day nothing is on the books.
LEMMA InitialBooks ==
  ASSUME InitBooks, BooksShaped
  PROVE  BooksSound
<1>1. /\ DOMAIN invoices = {} /\ DOMAIN udhar = {} /\ DOMAIN expenses = {}
      /\ customers = [c \in Customer |-> [balance |-> 0, deleted |-> FALSE]]
      /\ onHand = Stock /\ ledger = NoEntries
  BY DEF InitBooks
<1>2. \A s \in DOMAIN shifts : /\ shifts[s] \in ShiftType /\ shifts[s].opening = 0 /\ shifts[s].expected = 0
                              /\ shifts[s].sales = 0 /\ shifts[s].udhar = 0 /\ shifts[s].receipts = 0 /\ shifts[s].payouts = 0
  <2>1. CASE shifts = <<>>
    BY <2>1
  <2>2. ASSUME NEW a \in Actor, shifts = <<NewShift(a, 0)>>
        PROVE  \A s \in DOMAIN shifts :
                 /\ shifts[s] \in ShiftType /\ shifts[s].opening = 0 /\ shifts[s].expected = 0
                 /\ shifts[s].sales = 0 /\ shifts[s].udhar = 0 /\ shifts[s].receipts = 0 /\ shifts[s].payouts = 0
    BY <2>2 DEF NewShift, ShiftType
  <2> QED BY <2>1, <2>2 DEF InitBooks
<1>3. RowsTyped
  BY <1>1, <1>2, ShopAssumption DEF RowsTyped, NoEntries, Account
<1>4. BillsLinked /\ MovementsLinked /\ ExpensesPosted /\ RefundsCapped
  BY <1>1 DEF BillsLinked, MovementsLinked, ExpensesPosted, RefundsCapped
<1>5. \A f : DOMAIN f = {} => Added(f) = 0
  BY SumEmpty DEF Added
<1>6. /\ \A x : OnDrawers(x) = [cash |-> 0, sales |-> 0, udhar |-> 0]
      /\ \A x : Receipts(x) = [all |-> 0, cash |-> 0] /\ SpentOn(x) = 0
      /\ SoldInAll = 0 /\ OutlayInAll = 0
  <2>1. \A x : /\ DOMAIN CashOn(x) = {} /\ DOMAIN SalesOn(x) = {} /\ DOMAIN UdharOn(x) = {}
               /\ DOMAIN ReceiptsOn(x) = {} /\ DOMAIN CashReceiptsOn(x) = {} /\ DOMAIN PayoutsOn(x) = {}
    BY <1>1 DEF CashOn, SalesOn, UdharOn, ReceiptsOn, CashReceiptsOn, PayoutsOn
  <2>2. \A x : OnDrawers(x) = [cash |-> 0, sales |-> 0, udhar |-> 0]
    BY <1>5, <2>1 DEF OnDrawers
  <2>3. \A x : Receipts(x) = [all |-> 0, cash |-> 0] /\ SpentOn(x) = 0
    BY <1>5, <2>1 DEF Receipts, SpentOn
  <2>4. PICK f : f = [i \in DOMAIN invoices |-> Sold(invoices[i])]
    OBVIOUS
  <2>5. PICK g : g = [e \in DOMAIN expenses |-> Outlay(expenses[e])]
    OBVIOUS
  <2>6. Added(f) = 0 /\ Added(g) = 0
    BY <1>1, <1>5, <2>4, <2>5
  <2> QED BY <2>2, <2>3, <2>4, <2>5, <2>6 DEF SoldInAll, OutlayInAll
<1>7. DrawersRebuild
  BY <1>2, <1>6, RebuiltAll DEF Rebuilt
<1>8. Owed = 0
  <2>1. PICK f : f = [c \in Customer |-> customers[c].balance]
    OBVIOUS
  <2>2. DOMAIN f = Customer /\ \A c \in Customer : f[c] = 0
    BY <1>1, <2>1
  <2>3. Added(f) = 0
    BY <2>2, ShopAssumption, SumZero DEF Added
  <2> QED BY <2>1, <2>3 DEF Owed
<1>9. ReceivablesMatch /\ ExpensesOnBooks /\ StockMatchesBooks
  BY <1>1, <1>6, <1>8, ShopAssumption
     DEF ReceivablesMatch, Owed, ExpensesOnBooks, OutlayInAll, StockMatchesBooks, SoldInAll, NoEntries, Account
<1> QED BY <1>3, <1>4, <1>7, <1>9 DEF BooksSound, SumsHold

-----------------------------------------------------------------------------
(* Who raises a balance over the limit *)

LEMMA BalanceMoves ==
  ASSUME CustomersTyped, NEW k, NEW d, NEW row, Moves(k, d, row), NEW c \in Customer
  PROVE  customers'[c].balance = customers[c].balance + At(c, k, d) /\ customers[c].balance \in Int
<1>1. k \in Customer /\ d \in Int /\ customers' = [customers EXCEPT ![k].balance = customers[k].balance + d]
  BY DEF Moves
<1>2. PICK b : b = customers[k].balance + d
  OBVIOUS
<1>3. customers' = [customers EXCEPT ![k].balance = b] /\ b \in Int
  BY <1>1, <1>2 DEF CustomersTyped
<1>4. customers[c].balance \in Int
  BY DEF CustomersTyped
<1>5. CASE c = k
  BY <1>2, <1>3, <1>5 DEF CustomersTyped, At
<1>6. CASE c # k
  BY <1>3, <1>4, <1>6 DEF CustomersTyped, At
<1> QED BY <1>4, <1>5, <1>6

\* Credit given beyond the limit, or an opening balance, is a manager's.
LEMMA SaleRaises ==
  ASSUME BooksShaped, BooksSound, NEW r \in Requests, Sale(r), NEW c \in Customer,
         customers'[c].balance > customers[c].balance, customers'[c].balance > CreditLimit
  PROVE  IsManager(r.actor)
<1>1. /\ r \in Request /\ r.amount \in Nat /\ (r.amount > 0 => r.customer # NoCustomer)
  BY RequestsAssumption DEF Sale
<1>2. PICK s : BookSale(r, s, BalanceOf(r.customer), lastNumber["SALE"] + 1)
  BY DEF Sale
<1>3. CustomersTyped /\ BillsTyped
  BY TablesTyped DEF BooksSound, CustomersTyped, RowsTyped
<1>4. CASE UNCHANGED <<udhar, customers>>
  BY <1>3, <1>4 DEF CustomersTyped
<1>5. ASSUME NEW row, Moves(r.customer, r.amount, row)
      PROVE  IsManager(r.actor)
  <2>1. /\ customers'[c].balance = customers[c].balance + At(c, r.customer, r.amount)
        /\ customers[c].balance \in Int
    BY <1>3, <1>5, BalanceMoves
  <2>2. c = r.customer /\ r.amount > 0
    BY <1>1, <2>1 DEF At
  <2>3. customers'[c].balance = BalanceOf(r.customer) + r.amount
    BY <2>1, <2>2, ShopAssumption DEF At, BalanceOf
  <2>4. BalanceOf(r.customer) + r.amount <= CreditLimit \/ IsManager(r.actor)
    BY <2>2 DEF Sale, MayCredit
  <2>5. BalanceOf(r.customer) + r.amount \in Int /\ CreditLimit \in Int
    BY <1>1, <2>1, <2>2, ShopAssumption DEF BalanceOf
  <2> QED BY <2>3, <2>4, <2>5
<1> QED BY <1>1, <1>2, <1>3, <1>4, <1>5, SaleMoves DEF BillsTyped

\* A reversal raises no balance.
LEMMA ReversalRaises ==
  ASSUME BooksShaped, BooksSound, NEW r \in Requests, Return(r) \/ Cancel(r), NEW c \in Customer
  PROVE  ~(customers'[c].balance > customers[c].balance)
<1>1. /\ r \in Request
  BY RequestsAssumption
<1>2. PICK i, k, balance : i = r.invoice /\ k = invoices[i].customer /\ balance = BalanceOf(k)
  OBVIOUS
<1>3. CustomersTyped /\ BillsTyped /\ RowsTyped
  BY TablesTyped DEF BooksSound, CustomersTyped, RowsTyped
<1>4. i \in DOMAIN invoices /\ k \in Customer \cup {NoCustomer}
  BY <1>2 DEF Return, Cancel, MayReturn, MayCancel, IsOpenSale, BooksShaped, InvoicesShaped
<1>5. balance \in Int
  BY <1>2, <1>3, <1>4 DEF BalanceOf, CustomersTyped
<1>6. ASSUME NEW reversed \in Nat, reversed > 0 => k # NoCustomer, NEW n \in Nat, NEW s, NEW goods,
             Reverse(r, s, BalanceOf(k), reversed, goods, n)
      PROVE  ~(customers'[c].balance > customers[c].balance)
  <2>1. CreditReverses(k, reversed, n)
    BY <1>1, <1>2, <1>3, <1>4, <1>6, ReverseMoves
  <2>2. CASE UNCHANGED <<udhar, customers>>
    BY <1>3, <2>2 DEF CustomersTyped
  <2>3. ASSUME NEW row, Moves(k, 0 - reversed, row)
        PROVE  ~(customers'[c].balance > customers[c].balance)
    <3>1. customers'[c].balance = customers[c].balance + At(c, k, 0 - reversed) /\ customers[c].balance \in Int
      BY <1>3, <2>3, BalanceMoves
    <3> QED BY <1>6, <3>1 DEF At
  <2> QED BY <2>1, <2>2, <2>3 DEF CreditReverses
<1>7. CASE Return(r)
  <2>1. PICK s : BookReturn(r, s, balance, lastNumber["RETURN"] + 1)
    BY <1>2, <1>7 DEF Return
  <2>2. PICK reversed : reversed = ReturnedUdhar(r, balance)
    OBVIOUS
  <2>3. reversed \in Nat /\ (reversed > 0 => k # NoCustomer)
    <3>1. PICK qty, total : qty = ReturnQty(r) /\ total = RefundTotal(r)
      OBVIOUS
    <3>2. MayReturn(r)
      BY <1>7 DEF Return
    <3> QED BY <1>1, <1>2, <1>3, <1>5, <2>2, <3>1, <3>2, ReturnWithin DEF BooksSound, SumsHold
  <2>4. PICK goods, n : goods = (IF r.restock THEN ReturnQty(r) ELSE 0) /\ n = Len(invoices) + 1
    OBVIOUS
  <2>5. Reverse(r, s, BalanceOf(k), reversed, goods, n)
    BY <1>2, <2>1, <2>2, <2>4 DEF BookReturn
  <2>6. n \in Nat
    BY <1>3, <2>4 DEF BillsTyped, IsRows
  <2> QED BY <1>6, <2>3, <2>5, <2>6
<1>8. CASE Cancel(r)
  <2>1. PICK s : BookCancel(r, s, balance)
    BY <1>2, <1>8 DEF Cancel
  <2>2. PICK reversed, goods : reversed = CancelledUdhar(i, balance) /\ goods = invoices[i].qty
    OBVIOUS
  <2>3. reversed \in Nat /\ (reversed > 0 => k # NoCustomer)
    <3>1. invoices[i].udhar \in Nat
      BY <1>3, <1>4 DEF BillsTyped, InvoiceType
    <3>2. reversed \in 0 .. invoices[i].udhar
      BY <1>5, <2>2, <3>1, CancelledBounds
    <3>3. reversed > 0 => k # NoCustomer
      BY <1>2, <2>2 DEF CancelledUdhar
    <3> QED BY <3>1, <3>2, <3>3
  <2>4. Reverse(r, s, BalanceOf(k), reversed, goods, i)
    BY <1>2, <2>1, <2>2 DEF BookCancel
  <2>5. i \in Nat
    BY <1>3, <1>4, RowsFinite DEF BillsTyped
  <2> QED BY <1>6, <2>3, <2>4, <2>5
<1> QED BY <1>7, <1>8

LEMMA ServeRaises ==
  ASSUME BooksShaped, BooksSound, NEW r \in Requests, Serve(r), NEW c \in Customer,
         customers'[c].balance > customers[c].balance, customers'[c].balance > CreditLimit
  PROVE  IsManager(r.actor)
<1>1. CustomersTyped
  BY DEF BooksSound, RowsTyped, CustomersTyped
<1>2. customers' # customers
  BY <1>1 DEF CustomersTyped
<1>3. CASE Sale(r)
  BY <1>3, SaleRaises
<1>4. CASE Return(r) \/ Cancel(r)
  BY <1>4, ReversalRaises
<1>5. CASE Opening(r)
  BY <1>5 DEF Opening
<1>6. CASE Repay(r)
  <2>1. r.amount \in Nat /\ r.customer \in Customer
    BY <1>6, RequestsAssumption DEF Repay
  <2>2. PICK s : BookRepayment(r, s, BalanceOf(r.customer))
    BY <1>6 DEF Repay
  <2>3. PICK k, b : k = r.customer /\ b = BalanceOf(k) - r.amount
    OBVIOUS
  <2>4. customers' = [customers EXCEPT ![k].balance = b] /\ k \in Customer
    BY <2>1, <2>2, <2>3 DEF BookRepayment, SetBalance
  <2>5. customers[k].balance \in Int /\ b = customers[k].balance - r.amount
    BY <1>1, <2>3, <2>4, ShopAssumption DEF CustomersTyped, BalanceOf
  <2>6. b <= customers[k].balance
    BY <2>1, <2>5
  <2>7. customers'[c].balance = IF c = k THEN b ELSE customers[c].balance
    BY <1>1, <2>4 DEF CustomersTyped
  <2>8. customers[c].balance \in Int /\ b \in Int
    BY <1>1, <2>1, <2>5 DEF CustomersTyped
  <2> QED BY <2>6, <2>7, <2>8
<1>7. CASE Delete(r)
  <2>1. PICK k : customers' = [customers EXCEPT ![k].deleted = TRUE]
    BY <1>7 DEF Delete, BookDelete
  <2>2. customers'[c].balance = customers[c].balance /\ customers[c].balance \in Int
    BY <1>1, <2>1 DEF CustomersTyped
  <2> QED BY <2>2
<1>8. CASE OpenShift(r) \/ CloseShift(r)
  BY <1>2, <1>8 DEF OpenShift, CloseShift, BookOpenShift, BookCloseShift
<1>9. CASE Expense(r) \/ EditExpense(r)
  <2>1. \A e, was, s : BookExpense(r, e, was, s) => customers' = customers
    BY DEF BookExpense
  <2> QED BY <1>2, <1>9, <2>1 DEF Expense, EditExpense
<1> QED BY <1>3, <1>4, <1>5, <1>6, <1>7, <1>8, <1>9 DEF Serve

-----------------------------------------------------------------------------
(* Each commit serves its request *)

\* Request q committed: its flow happened, and it is told so.
Served(q) == Serve(req[q].r) /\ req[q].pc = "commit" /\ req'[q].outcome = "ok"

LEMMA AnswerTold ==
  ASSUME BillingInv, NEW q \in Req, NEW outcome, NEW doc, Answer(q, outcome, doc)
  PROVE  req'[q].outcome = outcome
<1>1. PICK next : next = [Waiting(req[q].r) EXCEPT !.pc = "done", !.outcome = outcome, !.doc = doc]
  OBVIOUS
<1>2. next.outcome = outcome
  BY <1>1 DEF Waiting
<1>3. req' = [req EXCEPT ![q] = next] /\ q \in DOMAIN req
  BY <1>1 DEF Answer, BillingInv
<1> QED BY <1>2, <1>3

LEMMA CommitServes ==
  ASSUME BillingInv, NEW q \in Req, Step(q) \/ Retry(q) \/ Victim(q) \/ Fail(q)
  PROVE  UNCHANGED books \/ Served(q)
<1>1. PICK me : me = req[q]
  OBVIOUS
<1>2. Right(me) /\ me.r \in Requests /\ BooksShaped
  BY <1>1, RequestKnown
<1>3. CASE CommitSale(q)
  <2>1. Sale(me.r) /\ me.pc = "commit"
    BY <1>1, <1>2, <1>3, SaleServed DEF CommitSale, AtCommit
  <2> QED BY <1>1, <1>3, <2>1, AnswerTold DEF CommitSale, Served, Serve
<1>4. CASE CommitReturn(q)
  <2>1. Return(me.r) /\ me.pc = "commit"
    BY <1>1, <1>2, <1>4, ReturnServed DEF CommitReturn, AtCommit
  <2> QED BY <1>1, <1>4, <2>1, AnswerTold DEF CommitReturn, Served, Serve
<1>5. CASE CommitCancel(q)
  <2>1. Cancel(me.r) /\ me.pc = "commit"
    BY <1>1, <1>2, <1>5, CancelServed DEF CommitCancel, AtCommit
  <2> QED BY <1>1, <1>5, <2>1, AnswerTold DEF CommitCancel, Served, Serve
<1>6. CASE CommitRepayment(q)
  <2>1. Repay(me.r) /\ me.pc = "commit"
    BY <1>1, <1>2, <1>6, RepaymentServed DEF CommitRepayment, AtCommit
  <2> QED BY <1>1, <1>6, <2>1, AnswerTold DEF CommitRepayment, Served, Serve
<1>7. CASE CommitOpening(q)
  <2>1. Opening(me.r) /\ me.pc = "commit"
    BY <1>1, <1>2, <1>7, OpeningServed DEF CommitOpening, AtCommit
  <2> QED BY <1>1, <1>7, <2>1, AnswerTold DEF CommitOpening, Served, Serve
<1>8. CASE CommitCloseShift(q)
  <2>1. CloseShift(me.r) /\ me.pc = "commit"
    BY <1>1, <1>2, <1>8, CloseShiftServed DEF CommitCloseShift, AtCommit
  <2> QED BY <1>1, <1>8, <2>1, AnswerTold DEF CommitCloseShift, Served, Serve
<1>9. CASE CommitDelete(q)
  <2>1. Delete(me.r) /\ me.pc = "commit"
    BY <1>1, <1>2, <1>9, DeleteServed DEF CommitDelete, AtCommit
  <2> QED BY <1>1, <1>9, <2>1, AnswerTold DEF CommitDelete, Served, Serve
<1>10. CASE CommitExpense(q)
  <2>1. (Expense(me.r) \/ EditExpense(me.r)) /\ me.pc = "commit"
    BY <1>1, <1>2, <1>10, ExpenseServed DEF CommitExpense, IsEdit
  <2> QED BY <1>1, <1>10, <2>1, AnswerTold DEF CommitExpense, Served, Serve
<1>11. CASE CommitOpenShift(q) /\ OpenShifts(me.r.actor) = {}
  <2>1. BookOpenShift(me.r) /\ me.r.kind = "open" /\ me.pc = "commit" /\ Answer(q, "ok", 0)
    BY <1>1, <1>11 DEF CommitOpenShift, AtCommit
  <2>2. OpenShift(me.r)
    BY <1>11, <2>1 DEF OpenShift
  <2> QED BY <1>1, <2>1, <2>2, AnswerTold DEF Served, Serve
<1>12. CASE CommitOpenShift(q) /\ OpenShifts(me.r.actor) # {}
  BY <1>1, <1>12 DEF CommitOpenShift
<1>13. CASE \/ CheckReplay(q) \/ CheckStock(q) \/ LockOriginal(q) \/ PeekShift(q)
            \/ LockShift(q) \/ LockCustomer(q) \/ LockNumber(q) \/ LockExpense(q) \/ LockPayout(q)
            \/ CheckOpen(q) \/ CheckRow(q) \/ InsertShift(q) \/ InsertToken(q)
  BY <1>13, ReadingStep
<1>14. CASE LoseKeyRace(q) \/ SaleOutOfStock(q) \/ Fail(q)
  BY <1>14, RefusedStep
<1>15. CASE Retry(q) \/ Victim(q)
  BY <1>15, RetryStep
<1> QED BY <1>1, <1>3, <1>4, <1>5, <1>6, <1>7, <1>8, <1>9, <1>10, <1>11, <1>12, <1>13, <1>14, <1>15 DEF Step

-----------------------------------------------------------------------------
(* Every request keeps its type *)

ReqTyped == req \in [Req -> ReqType]

LEMMA PlacesTyped ==
  ASSUME BillingInv, NEW q \in Req
  PROVE  req[q].pc \in {"replay", "stock", "original", "peek", "shift", "customer", "number",
                        "check", "row", "insert", "token", "expense", "payout", "commit", "done"}
<1>1. PICK me : me = req[q]
  OBVIOUS
<1>2. AtPlace(me)
  BY <1>1, RequestKnown
<1>3. me.pc \in DOMAIN PlaceRank
  BY <1>2, PlacesKnown
<1> QED BY <1>1, <1>3 DEF PlaceRank

LEMMA PlacesTypedNext ==
  ASSUME BillingInv', NEW q \in Req
  PROVE  req'[q].pc \in {"replay", "stock", "original", "peek", "shift", "customer", "number",
                         "check", "row", "insert", "token", "expense", "payout", "commit", "done"}
<1>1. PICK me : me = req'[q]
  OBVIOUS
<1>2. AtPlace(me)
  BY <1>1 DEF BillingInv, Right
<1>3. me.pc \in DOMAIN PlaceRank
  BY <1>2, PlacesKnown
<1> QED BY <1>1, <1>3 DEF PlaceRank

\* What a request knows beside its place.
KnowsTyped(me) ==
  /\ me.r \in Requests /\ me.attempt \in 1 .. MaxAttempts /\ me.seen \in Nat /\ me.shift \in Nat
  /\ me.balance \in Int /\ me.number \in Nat /\ me.doc \in Nat /\ me.was \in ExpenseType
  /\ me.held \in SUBSET Resource /\ me.outcome \in {"none", "ok", "replayed", "rejected", "failed"}

\* A request is the record of its columns.
IsReq(me) ==
  me = [r |-> me.r, pc |-> me.pc, attempt |-> me.attempt, seen |-> me.seen, shift |-> me.shift,
        balance |-> me.balance, number |-> me.number, was |-> me.was, held |-> me.held,
        outcome |-> me.outcome, doc |-> me.doc]

LEMMA IsTyped ==
  ASSUME NEW me, IsReq(me), KnowsTyped(me),
         me.pc \in {"replay", "stock", "original", "peek", "shift", "customer", "number",
                    "check", "row", "insert", "token", "expense", "payout", "commit", "done"}
  PROVE  me \in ReqType
  BY DEF IsReq, KnowsTyped, ReqType

LEMMA TypedKnows ==
  ASSUME NEW me \in ReqType
  PROVE  KnowsTyped(me) /\ IsReq(me) /\ me.r \in Request
  BY RequestsAssumption DEF IsReq, KnowsTyped, ReqType

\* One request moves.
LEMMA MoveTyped ==
  ASSUME ReqTyped, BillingInv', NEW q \in Req, NEW next, IsReq(next), KnowsTyped(next),
         req' = [req EXCEPT ![q] = next]
  PROVE  ReqTyped'
<1>1. req'[q] = next
  BY DEF ReqTyped
<1>2. next \in ReqType
  BY <1>1, PlacesTypedNext, IsTyped
<1> QED BY <1>2 DEF ReqTyped

LEMMA GoTyped ==
  ASSUME ReqTyped, BillingInv', NEW q \in Req, NEW me, IsReq(me), KnowsTyped(me), Go(q, me)
  PROVE  ReqTyped'
<1>1. PICK pc : pc = StepAfter(me.r.kind, me.pc)
  OBVIOUS
<1>2. PICK next : next = [me EXCEPT !.pc = pc]
  OBVIOUS
<1>3. IsReq(next) /\ KnowsTyped(next)
  BY <1>2 DEF IsReq, KnowsTyped
<1>4. req' = [req EXCEPT ![q] = next]
  BY <1>1, <1>2 DEF Go
<1> QED BY <1>3, <1>4, MoveTyped

LEMMA WaitingTyped ==
  ASSUME NEW r \in Requests
  PROVE  IsReq(Waiting(r)) /\ KnowsTyped(Waiting(r))
<1>1. 1 \in 1 .. MaxAttempts /\ NoExpense \in ExpenseType
  BY MixesAssumption DEF NoExpense, ExpenseType, Tender
<1> QED BY <1>1 DEF Waiting, IsReq, KnowsTyped

LEMMA AnswerTyped ==
  ASSUME ReqTyped, BillingInv', NEW q \in Req, NEW outcome, NEW doc \in Nat, Answer(q, outcome, doc),
         outcome \in {"ok", "replayed", "rejected", "failed"}
  PROVE  ReqTyped'
<1>1. PICK r, me : r = req[q].r /\ me = Waiting(r)
  OBVIOUS
<1>2. r \in Requests
  BY <1>1 DEF ReqTyped, ReqType
<1>3. IsReq(me) /\ KnowsTyped(me)
  BY <1>1, <1>2, WaitingTyped
<1>4. PICK next : next = [me EXCEPT !.pc = "done", !.outcome = outcome, !.doc = doc]
  OBVIOUS
<1>5. IsReq(next) /\ KnowsTyped(next)
  BY <1>3, <1>4 DEF IsReq, KnowsTyped
<1>6. req' = [req EXCEPT ![q] = next]
  BY <1>1, <1>4 DEF Answer
<1> QED BY <1>5, <1>6, MoveTyped

LEMMA RejectTyped ==
  ASSUME ReqTyped, BillingInv', NEW q \in Req, Reject(q)
  PROVE  ReqTyped'
<1>1. Answer(q, "rejected", 0)
  BY DEF Reject
<1> QED BY <1>1, AnswerTyped

LEMMA AnswerKnownTyped ==
  ASSUME ReqTyped, BillingInv', BooksShaped, NEW q \in Req, AnswerKnown(q)
  PROVE  ReqTyped'
<1>1. PICK d \in Known(req[q].r) :
        IF SameRequest(d, req[q].r) THEN Answer(q, "replayed", d) ELSE Reject(q)
  BY DEF AnswerKnown
<1>2. d \in Nat
  BY <1>1, RowsFinite DEF Known, Payment, Holder, BooksShaped, InvoicesShaped, CustomersShaped
<1> QED BY <1>1, <1>2, AnswerTyped, RejectTyped

\* The rows a request may lock.
LEMMA DrawersTypedNat ==
  ASSUME BooksShaped, NEW a
  PROVE  OpenShiftOf(a) \in Nat
<1>1. DOMAIN shifts \subseteq Nat
  BY RowsFinite DEF BooksShaped, ShiftsShaped
<1>2. OpenShiftOf(a) = 0 \/ OpenShiftOf(a) \in OpenShifts(a)
  BY OwnShift DEF BooksShaped
<1> QED BY <1>1, <1>2 DEF OpenShifts

LEMMA NeedsTyped ==
  ASSUME BooksShaped, NEW me \in ReqType, Right(me)
  PROVE  /\ Needs(me) \in SUBSET Resource
         /\ WantedShift(me) \in Nat /\ PayingShift(me.r, me.was) \in Nat
<1>1. /\ me.r \in Request /\ me.seen \in Nat /\ me.was.shift \in Nat
      /\ me.r.invoice \in Nat /\ me.r.shift \in Nat /\ me.r.expense \in Nat
      /\ me.r.customer \in Customer \cup {NoCustomer}
  BY RequestsAssumption DEF ReqType, ExpenseType, Request
<1>2. WantedShift(me) \in Nat /\ PayingShift(me.r, me.was) \in Nat /\ OpenShiftOf(me.r.actor) \in Nat
  BY <1>1, DrawersTypedNat DEF WantedShift, PayingShift
<1>3. AtPlace(me) /\ me.pc \in DOMAIN PlaceRank
  BY PlacesKnown DEF Right
<1>4. \A n \in Nat : <<"invoice", n>> \in Resource /\ <<"shift", n>> \in Resource /\ <<"expense", n>> \in Resource
  BY DEF Resource
<1>5. \A c \in Customer : <<"customer", c>> \in Resource
  BY DEF Resource
<1>6. <<"number", "SALE">> \in Resource /\ <<"number", "RETURN">> \in Resource
  BY DEF Resource
<1>7. me.pc = "customer" => CustomerOf(me.r) \in Customer \cup {NoCustomer}
  <2>1. IsReversal(me) /\ me.pc = "customer" => me.r.invoice \in DOMAIN invoices
    BY DEF Right, OriginalHeld, IsReversal, MayCancel, MayReturn, IsOpenSale
  <2> QED BY <1>1, <2>1 DEF CustomerOf, IsReversal, BooksShaped, InvoicesShaped
<1>8. ASSUME NEW table, NEW n, n # 0 => <<table, n>> \in Resource
      PROVE  {<<table, n>>} \ {<<table, 0>>} \in SUBSET Resource
  BY <1>8
<1>9. CASE me.pc = "customer"
  <2>1. PICK c : c = CustomerOf(me.r)
    OBVIOUS
  <2>2. c = NoCustomer \/ <<"customer", c>> \in Resource
    BY <1>5, <1>7, <1>9, <2>1
  <2>3. Needs(me) = {<<"customer", c>>} \ {<<"customer", NoCustomer>>}
    BY <1>9, <2>1, LocksOfPlaces
  <2> QED BY <1>2, <2>2, <2>3
<1>10. CASE me.pc = "shift"
  <2>1. Needs(me) = {<<"shift", WantedShift(me)>>} \ {<<"shift", 0>>}
    BY <1>10, LocksOfPlaces
  <2> QED BY <1>2, <1>4, <1>8, <2>1
<1>11. CASE me.pc \in {"row", "token"}
  <2>1. PICK a, s : a = me.r.actor /\ s = OpenShiftOf(me.r.actor)
    OBVIOUS
  <2>2. {<<"shift", s>>} \ {<<"shift", 0>>} \in SUBSET Resource
    BY <1>2, <1>4, <1>8, <2>1
  <2>3. a \in Actor
    BY <1>1, <2>1 DEF Request
  <2>4. \A index \in Index : ReadLocks(index, a) \in SUBSET Resource
    BY <2>3 DEF ReadLocks, Resource
  <2>5. RowLocks(a) \in SUBSET Resource
    BY <2>1, <2>2, <2>4 DEF RowLocks, Index
  <2>6. Needs(me) = RowLocks(a) \/ Needs(me) = ReadLocks("token", a)
    BY <1>11, <2>1, LocksOfPlaces
  <2> QED BY <1>2, <2>4, <2>5, <2>6 DEF Index
<1>12. CASE me.pc = "payout"
  <2>1. Needs(me) = {<<"shift", PayingShift(me.r, me.was)>>} \ {<<"shift", 0>>}
    BY <1>12, LocksOfPlaces
  <2> QED BY <1>2, <1>4, <1>8, <2>1
<1>13. CASE me.pc \in {"original", "number", "expense"}
  <2>1. \/ Needs(me) = {<<"invoice", me.r.invoice>>}
        \/ Needs(me) = {<<"number", Series(me.r)>>}
        \/ Needs(me) = {<<"expense", me.r.expense>>}
    BY <1>13, LocksOfPlaces
  <2>2. <<"number", Series(me.r)>> \in Resource
    BY <1>6 DEF Series
  <2> QED BY <1>1, <1>2, <1>4, <2>1, <2>2
<1>14. CASE me.pc \in {"replay", "stock", "peek", "check", "insert", "commit", "done"}
  <2>1. Needs(me) = {}
    BY <1>14, LocksOfPlaces
  <2> QED BY <1>2, <2>1
<1>15. Needs(me) \in SUBSET Resource
  BY <1>3, <1>9, <1>10, <1>11, <1>12, <1>13, <1>14 DEF PlaceRank
<1> QED BY <1>2, <1>15

\* What is locked more is a set of rows.
LEMMA LockedTyped ==
  ASSUME BooksShaped, NEW me \in ReqType, Right(me)
  PROVE  IsReq(Locked(me)) /\ KnowsTyped(Locked(me))
<1>1. PICK held : held = me.held \cup Needs(me)
  OBVIOUS
<1>2. held \in SUBSET Resource
  BY <1>1, NeedsTyped DEF ReqType
<1>3. Locked(me) = [me EXCEPT !.held = held]
  BY <1>1 DEF Locked
<1> QED BY <1>2, <1>3, TypedKnows DEF IsReq, KnowsTyped

LEMMA BalanceTyped ==
  ASSUME BooksShaped, RowsTyped, NEW me \in ReqType, Right(me), me.pc = "customer"
  PROVE  CustomerOf(me.r) = NoCustomer \/ customers[CustomerOf(me.r)].balance \in Int
<1>1. me.r.customer \in Customer \cup {NoCustomer}
  BY RequestsAssumption DEF ReqType, Request
<1>2. IsReversal(me) => me.r.invoice \in DOMAIN invoices
  BY DEF Right, OriginalHeld, IsReversal, MayCancel, MayReturn, IsOpenSale
<1>3. CustomerOf(me.r) \in Customer \cup {NoCustomer}
  BY <1>1, <1>2 DEF CustomerOf, IsReversal, BooksShaped, InvoicesShaped
<1> QED BY <1>3 DEF RowsTyped

LEMMA ReadingTyped ==
  ASSUME BillingInv, RowsTyped, ReqTyped, BillingInv', NEW q \in Req,
         \/ CheckReplay(q) \/ CheckStock(q) \/ LockOriginal(q) \/ PeekShift(q)
         \/ LockShift(q) \/ LockCustomer(q) \/ LockNumber(q) \/ LockExpense(q) \/ LockPayout(q)
         \/ CheckOpen(q) \/ CheckRow(q) \/ InsertShift(q) \/ InsertToken(q)
  PROVE  ReqTyped'
<1>1. PICK me : me = req[q]
  OBVIOUS
<1>2. me \in ReqType /\ Right(me) /\ BooksShaped
  BY <1>1, RequestKnown DEF ReqTyped
<1>3. IsReq(me) /\ KnowsTyped(me) /\ me.r \in Request
  BY <1>2, TypedKnows
<1>4. PICK locked : locked = Locked(me)
  OBVIOUS
<1>5. IsReq(locked) /\ KnowsTyped(locked)
  BY <1>2, <1>4, LockedTyped
<1>6. DOMAIN shifts \subseteq Nat /\ WantedShift(me) \in Nat /\ PayingShift(me.r, me.was) \in Nat
  BY <1>2, NeedsTyped, RowsFinite DEF BooksShaped, ShiftsShaped
<1>7. CASE CheckReplay(q) \/ CheckStock(q)
  <2>1. Go(q, me) \/ Reject(q) \/ AnswerKnown(q)
    BY <1>1, <1>7 DEF CheckReplay, CheckStock
  <2> QED BY <1>2, <1>3, <2>1, GoTyped, RejectTyped, AnswerKnownTyped
<1>8. CASE LockOriginal(q)
  <2>1. Go(q, locked) \/ Reject(q) \/ Answer(q, "replayed", me.r.invoice)
    BY <1>1, <1>4, <1>8 DEF LockOriginal
  <2>2. me.r.invoice \in Nat
    BY <1>3 DEF Request
  <2> QED BY <1>5, <2>1, <2>2, GoTyped, RejectTyped, AnswerTyped
<1>9. CASE PeekShift(q)
  <2>1. PICK s : s = IF MayUseShift(me.r.actor, invoices[me.r.invoice].shift)
                     THEN invoices[me.r.invoice].shift ELSE 0
    OBVIOUS
  <2>2. s \in Nat
    BY <1>6, <2>1 DEF MayUseShift
  <2>3. PICK next : next = [me EXCEPT !.seen = s]
    OBVIOUS
  <2>4. Go(q, next)
    BY <1>1, <1>9, <2>1, <2>3 DEF PeekShift
  <2>5. IsReq(next) /\ KnowsTyped(next)
    BY <1>3, <2>2, <2>3 DEF IsReq, KnowsTyped
  <2> QED BY <2>4, <2>5, GoTyped
<1>10. CASE LockShift(q)
  <2>1. PICK s : s = WantedShift(me)
    OBVIOUS
  <2>2. PICK next : next = [locked EXCEPT !.shift = s]
    OBVIOUS
  <2>3. Go(q, next) \/ Reject(q)
    BY <1>1, <1>4, <1>10, <2>1, <2>2 DEF LockShift
  <2>4. IsReq(next) /\ KnowsTyped(next)
    BY <1>5, <1>6, <2>1, <2>2 DEF IsReq, KnowsTyped
  <2> QED BY <2>3, <2>4, GoTyped, RejectTyped
<1>11. CASE LockCustomer(q)
  <2>1. PICK b : b = IF CustomerOf(me.r) = NoCustomer THEN 0 ELSE customers[CustomerOf(me.r)].balance
    OBVIOUS
  <2>2. me.pc = "customer"
    BY <1>1, <1>11 DEF LockCustomer
  <2>3. b \in Int
    BY <1>2, <2>1, <2>2, BalanceTyped
  <2>4. PICK next : next = [locked EXCEPT !.balance = b]
    OBVIOUS
  <2>5. Go(q, next) \/ Reject(q) \/ Answer(q, "replayed", 0)
    BY <1>1, <1>4, <1>11, <2>1, <2>4 DEF LockCustomer
  <2>6. IsReq(next) /\ KnowsTyped(next)
    BY <1>5, <2>3, <2>4 DEF IsReq, KnowsTyped
  <2> QED BY <2>5, <2>6, GoTyped, RejectTyped, AnswerTyped
<1>12. CASE LockNumber(q)
  <2>1. PICK n : n = lastNumber[Series(me.r)] + 1
    OBVIOUS
  <2>2. n \in Nat
    BY <1>2, <2>1 DEF BooksShaped, NumbersShaped, Series
  <2>3. PICK next : next = [locked EXCEPT !.number = n]
    OBVIOUS
  <2>4. Go(q, next)
    BY <1>1, <1>4, <1>12, <2>1, <2>3 DEF LockNumber
  <2>5. IsReq(next) /\ KnowsTyped(next)
    BY <1>5, <2>2, <2>3 DEF IsReq, KnowsTyped
  <2> QED BY <2>4, <2>5, GoTyped
<1>13. CASE LockExpense(q)
  <2>1. PICK e : e = expenses[me.r.expense]
    OBVIOUS
  <2>2. PICK next : next = [locked EXCEPT !.was = e]
    OBVIOUS
  <2>3. (Go(q, next) /\ me.r.expense \in DOMAIN expenses) \/ Reject(q)
    BY <1>1, <1>4, <1>13, <2>1, <2>2 DEF LockExpense
  <2>4. ASSUME me.r.expense \in DOMAIN expenses
        PROVE  IsReq(next) /\ KnowsTyped(next)
    <3>1. e \in ExpenseType
      BY <2>1, <2>4 DEF RowsTyped
    <3> QED BY <1>5, <2>2, <3>1 DEF IsReq, KnowsTyped
  <2> QED BY <2>3, <2>4, GoTyped, RejectTyped
<1>14. CASE LockPayout(q)
  <2>1. PICK s : s = PayingShift(me.r, me.was)
    OBVIOUS
  <2>2. PICK next : next = [locked EXCEPT !.shift = s]
    OBVIOUS
  <2>3. Go(q, next)
    BY <1>1, <1>4, <1>14, <2>1, <2>2 DEF LockPayout
  <2>4. IsReq(next) /\ KnowsTyped(next)
    BY <1>5, <1>6, <2>1, <2>2 DEF IsReq, KnowsTyped
  <2> QED BY <2>3, <2>4, GoTyped
<1>15. CASE CheckOpen(q) \/ CheckRow(q) \/ InsertShift(q) \/ InsertToken(q)
  <2>1. me.r.actor \in Actor
    BY <1>3 DEF Request
  <2>2. /\ \A index \in Index : {<<index, me.r.actor>>} \in SUBSET Resource
        /\ {<<"entry", q>>} \in SUBSET Resource /\ {} \in SUBSET Resource
    BY <2>1 DEF Resource
  <2>3. me.held \cup {<<"token", me.r.actor>>} \in SUBSET Resource
    BY <1>3, <2>2 DEF KnowsTyped, Index
  <2>4. Reject(q) \/ \E pc : \E held \in SUBSET Resource : MovesTo(q, pc, held)
    <3>1. CASE CheckOpen(q)
      BY <1>1, <2>2, <3>1 DEF CheckOpen
    <3>2. CASE CheckRow(q)
      BY <2>2, <3>2 DEF CheckRow
    <3>3. CASE InsertShift(q)
      BY <2>2, <3>3 DEF InsertShift
    <3>4. CASE InsertToken(q)
      BY <1>1, <2>3, <3>4 DEF InsertToken
    <3> QED BY <1>15, <3>1, <3>2, <3>3, <3>4
  <2>5. ASSUME NEW pc, NEW held \in SUBSET Resource, MovesTo(q, pc, held)
        PROVE  ReqTyped'
    <3>1. PICK next : next = [me EXCEPT !.pc = pc, !.held = held]
      OBVIOUS
    <3>2. IsReq(next) /\ KnowsTyped(next)
      BY <1>3, <2>5, <3>1 DEF IsReq, KnowsTyped
    <3>3. req' = [req EXCEPT ![q] = next]
      BY <1>1, <2>5, <3>1 DEF MovesTo
    <3> QED BY <3>2, <3>3, MoveTyped
  <2> QED BY <2>4, <2>5, RejectTyped
<1> QED BY <1>7, <1>8, <1>9, <1>10, <1>11, <1>12, <1>13, <1>14, <1>15

LEMMA CommitTyped ==
  ASSUME BillingInv, RowsTyped, ReqTyped, BillingInv', NEW q \in Req,
         \/ CommitSale(q) \/ CommitReturn(q) \/ CommitCancel(q) \/ CommitRepayment(q)
         \/ CommitOpening(q) \/ CommitOpenShift(q) \/ CommitCloseShift(q) \/ CommitDelete(q)
         \/ CommitExpense(q)
  PROVE  ReqTyped'
<1>1. Len(invoices') \in Nat /\ Len(udhar') \in Nat
  BY DEF BillingInv, BooksShaped, InvoicesShaped, CustomersShaped, IsRows
<1>2. req[q].r.invoice \in Nat
  BY RequestsAssumption DEF ReqTyped, ReqType, Request
<1>3. CASE CommitSale(q) \/ CommitReturn(q)
  <2>1. Answer(q, "ok", Len(invoices'))
    BY <1>3 DEF CommitSale, CommitReturn
  <2> QED BY <1>1, <2>1, AnswerTyped
<1>4. CASE CommitRepayment(q)
  <2>1. Answer(q, "ok", Len(udhar'))
    BY <1>4 DEF CommitRepayment
  <2> QED BY <1>1, <2>1, AnswerTyped
<1>5. CASE CommitCancel(q)
  <2>1. Answer(q, "ok", req[q].r.invoice)
    BY <1>5 DEF CommitCancel
  <2> QED BY <1>2, <2>1, AnswerTyped
<1>6. CASE \/ CommitOpening(q) \/ CommitOpenShift(q) \/ CommitCloseShift(q) \/ CommitDelete(q)
           \/ CommitExpense(q)
  <2>1. Answer(q, "ok", 0) \/ Reject(q)
    BY <1>6 DEF CommitOpening, CommitOpenShift, CommitCloseShift, CommitDelete, CommitExpense
  <2> QED BY <2>1, AnswerTyped, RejectTyped
<1> QED BY <1>3, <1>4, <1>5, <1>6

LEMMA RefusedTyped ==
  ASSUME BillingInv, ReqTyped, BillingInv', NEW q \in Req,
         LoseKeyRace(q) \/ SaleOutOfStock(q) \/ Fail(q) \/ Retry(q) \/ Victim(q)
  PROVE  ReqTyped'
<1>1. CASE LoseKeyRace(q)
  BY <1>1, AnswerKnownTyped DEF LoseKeyRace, BillingInv
<1>2. CASE SaleOutOfStock(q)
  BY <1>2, RejectTyped DEF SaleOutOfStock
<1>3. CASE Fail(q)
  BY <1>3, AnswerTyped DEF Fail
<1>4. CASE MayRunAgain(req[q]) /\ RunAgain(q)
  <2>1. PICK r, pc, attempt : r = req[q].r /\ pc = TxStart(req[q].r.kind) /\ attempt = req[q].attempt + 1
    OBVIOUS
  <2>2. r \in Requests /\ req[q].attempt \in 1 .. MaxAttempts
    BY <2>1 DEF ReqTyped, ReqType
  <2>3. req[q].attempt < MaxAttempts
    BY <1>4 DEF MayRunAgain
  <2>4. attempt \in 1 .. MaxAttempts
    BY <2>1, <2>2, <2>3, MixesAssumption
  <2>5. PICK me : me = Waiting(r)
    OBVIOUS
  <2>6. IsReq(me) /\ KnowsTyped(me)
    BY <2>2, <2>5, WaitingTyped
  <2>7. PICK next : next = [me EXCEPT !.pc = pc, !.attempt = attempt]
    OBVIOUS
  <2>8. IsReq(next) /\ KnowsTyped(next)
    BY <2>4, <2>6, <2>7 DEF IsReq, KnowsTyped
  <2>9. req' = [req EXCEPT ![q] = next]
    BY <1>4, <2>1, <2>5, <2>7 DEF RunAgain
  <2> QED BY <2>8, <2>9, MoveTyped
<1>5. CASE Retry(q) \/ Victim(q)
  BY <1>4, <1>5, AnswerTyped DEF Retry, Victim
<1> QED BY <1>1, <1>2, <1>3, <1>4, <1>5

LEMMA RequestsTyped ==
  ASSUME BillingInv, RowsTyped, ReqTyped, BillingInv', [Next]_vars
  PROVE  ReqTyped'
<1>1. CASE UNCHANGED vars
  BY <1>1 DEF vars, ReqTyped
<1>2. ASSUME NEW q \in Req, Step(q) \/ Retry(q) \/ Victim(q) \/ Fail(q)
      PROVE  ReqTyped'
  <2>1. CASE \/ CheckReplay(q) \/ CheckStock(q) \/ LockOriginal(q) \/ PeekShift(q)
             \/ LockShift(q) \/ LockCustomer(q) \/ LockNumber(q) \/ LockExpense(q) \/ LockPayout(q)
             \/ CheckOpen(q) \/ CheckRow(q) \/ InsertShift(q) \/ InsertToken(q)
    BY <2>1, ReadingTyped
  <2>2. CASE \/ CommitSale(q) \/ CommitReturn(q) \/ CommitCancel(q) \/ CommitRepayment(q)
             \/ CommitOpening(q) \/ CommitOpenShift(q) \/ CommitCloseShift(q) \/ CommitDelete(q)
             \/ CommitExpense(q)
    BY <2>2, CommitTyped
  <2>3. CASE LoseKeyRace(q) \/ SaleOutOfStock(q) \/ Fail(q) \/ Retry(q) \/ Victim(q)
    BY <2>3, RefusedTyped
  <2> QED BY <1>2, <2>1, <2>2, <2>3 DEF Step
<1> QED BY <1>1, <1>2 DEF Next

LEMMA InitialRequests == Init => ReqTyped
<1> SUFFICES ASSUME Init PROVE ReqTyped
  OBVIOUS
<1>1. PICK mix \in Mixes : req = [q \in Req |-> Waiting(mix[q])]
  BY DEF Init
<1>2. ASSUME NEW q \in Req
      PROVE  req[q] \in ReqType
  <2>1. PICK r, me : r = mix[q] /\ me = Waiting(r)
    OBVIOUS
  <2>2. r \in Requests /\ req[q] = me
    BY <1>1, <2>1, MixesAssumption
  <2>3. IsReq(me) /\ KnowsTyped(me)
    BY <2>1, <2>2, WaitingTyped
  <2> QED BY <2>2, <2>3, BillingInit, PlacesTyped, IsTyped
<1> QED BY <1>1, <1>2 DEF ReqTyped

-----------------------------------------------------------------------------
(* The books of every behaviour *)

LEMMA RowsAreSeq ==
  ASSUME NEW table, IsRows(table), NEW S, \A i \in DOMAIN table : table[i] \in S
  PROVE  table \in Seq(S)
<1>1. PICK n : n = Len(table) /\ n \in Nat /\ table = [i \in 1 .. n |-> table[i]]
  BY DEF IsRows
<1>2. table \in [1 .. n -> S]
  BY <1>1
<1> QED BY <1>1, <1>2

LEMMA EveryRowTyped ==
  ASSUME BooksShaped, RowsTyped, ReqTyped
  PROVE  TypeOK
<1>1. invoices \in Seq(InvoiceType) /\ udhar \in Seq(UdharType)
  BY RowsAreSeq DEF BooksShaped, InvoicesShaped, CustomersShaped, RowsTyped
<1>2. shifts \in Seq(ShiftType) /\ expenses \in Seq(ExpenseType)
  BY RowsAreSeq DEF BooksShaped, ShiftsShaped, ExpensesShaped, RowsTyped
<1> QED BY <1>1, <1>2 DEF BooksShaped, NumbersShaped, RowsTyped, ReqTyped, TypeOK

\* One step of the concurrent shop is one flow of the books, or none.
LEMMA BooksStep ==
  ASSUME BillingInv, BooksSound, [Next]_vars
  PROVE  BooksSound'
<1>1. [SerialNext]_books /\ BooksShaped
  BY BillingStep DEF BillingInv
<1>2. CASE SerialNext
  <2>1. PICK r \in Requests : Serve(r)
    BY <1>2 DEF SerialNext
  <2> QED BY <1>1, <2>1, ServeBooks
<1>3. CASE UNCHANGED books
  BY <1>1, <1>3, SumsStay
<1> QED BY <1>1, <1>2, <1>3

LEMMA BillingSums == Spec => [](BillingInv /\ BooksSound /\ ReqTyped)
<1>1. Init => BillingInv /\ BooksSound /\ ReqTyped
  BY BillingInit, InitialBooks, InitialRequests DEF Init, BillingInv
<1>2. BillingInv /\ BooksSound /\ ReqTyped /\ [Next]_vars => (BillingInv /\ BooksSound /\ ReqTyped)'
  BY BillingStep, BooksStep, RequestsTyped DEF BooksSound
<1> QED BY <1>1, <1>2, PTL DEF Spec

(***************************************************************************)
(* Flow after flow the books can be reconciled: the balances add up to the *)
(* ledger's receivable, the drawers to the documents that name them, the   *)
(* expenses and the stock to their accounts, and the returns of a bill to  *)
(* no more than it took.                                                   *)
(***************************************************************************)
THEOREM SerialReconciles ==
  SerialSpec => [](/\ ReceivablesMatch /\ DrawersRebuild /\ ExpensesOnBooks /\ StockMatchesBooks
                   /\ RefundsCapped)
<1>1. InitBooks => DayBooks /\ BooksSound
  BY DayInit, InitialBooks DEF DayBooks
<1>2. DayBooks /\ BooksSound /\ [SerialNext]_books => (DayBooks /\ BooksSound)'
  <2> SUFFICES ASSUME DayBooks, BooksSound, [SerialNext]_books PROVE DayBooks' /\ BooksSound'
    OBVIOUS
  <2>1. DayBooks' /\ BooksShaped
    BY DayStep DEF DayBooks
  <2>2. CASE SerialNext
    BY <2>1, <2>2, ServeBooks DEF SerialNext
  <2>3. CASE UNCHANGED books
    BY <2>1, <2>3, SumsStay
  <2> QED BY <2>1, <2>2, <2>3
<1>3. BooksSound => /\ ReceivablesMatch /\ DrawersRebuild /\ ExpensesOnBooks /\ StockMatchesBooks
                    /\ RefundsCapped
  BY DEF BooksSound, SumsHold
<1> QED BY <1>1, <1>2, <1>3, PTL DEF SerialSpec

(***************************************************************************)
(* The reconciliation's checks hold at any moment between two commits,     *)
(* whatever was rolled back, run again or interleaved: the balances add up *)
(* to the ledger's receivable, every drawer can be rebuilt from the        *)
(* documents that name it, the ledger holds the live paid expenses, the    *)
(* stock is what the documents say, and no refund goes beyond its sale.    *)
(***************************************************************************)
THEOREM BillingReconciles == Spec => []BooksReconcile
<1>1. BillingInv /\ BooksSound /\ ReqTyped => BooksReconcile
  BY EveryRowTyped DEF BillingInv, BooksSound, SumsHold, BooksReconcile
<1> QED BY <1>1, BillingSums, PTL

(***************************************************************************)
(* Nobody but a manager takes a customer over the credit limit, however    *)
(* many credit sales to the customer run at the same time.                 *)
(***************************************************************************)
THEOREM BillingKeepsCreditLimit == Spec => CreditLimitHolds
<1> DEFINE Allowed ==
      \A c \in Customer :
        customers'[c].balance > customers[c].balance /\ customers'[c].balance > CreditLimit
          => \E q \in Req : /\ IsManager(req[q].r.actor)
                            /\ req[q].pc = "commit" /\ req'[q].outcome = "ok"
<1>1. BillingInv /\ BooksSound /\ [Next]_vars => [Allowed]_vars
  <2> SUFFICES ASSUME BillingInv, BooksSound, [Next]_vars,
                      NEW c \in Customer,
                      customers'[c].balance > customers[c].balance,
                      customers'[c].balance > CreditLimit
               PROVE  \E q \in Req : /\ IsManager(req[q].r.actor)
                                     /\ req[q].pc = "commit" /\ req'[q].outcome = "ok"
    OBVIOUS
  <2>1. BooksShaped /\ customers[c].balance \in Int
    BY DEF BillingInv, BooksSound, RowsTyped
  <2>2. customers' # customers
    BY <2>1
  <2>3. ~ UNCHANGED books /\ ~ UNCHANGED vars
    BY <2>2 DEF books, vars
  <2>4. PICK q \in Req : Step(q) \/ Retry(q) \/ Victim(q) \/ Fail(q)
    BY <2>3 DEF Next
  <2>5. Served(q)
    BY <2>3, <2>4, CommitServes
  <2>6. req[q].r \in Requests
    BY RequestKnown
  <2>7. IsManager(req[q].r.actor)
    BY <2>1, <2>5, <2>6, ServeRaises DEF Served
  <2> QED BY <2>5, <2>7 DEF Served
<1>2. Spec => [](BillingInv /\ BooksSound)
  BY BillingSums, PTL
<1> QED BY <1>1, <1>2, PTL DEF Spec, CreditLimitHolds
=============================================================================
