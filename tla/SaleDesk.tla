------------------------------ MODULE SaleDesk ------------------------------
(***************************************************************************)
(* One sale from the product form to the last return: the price the owner  *)
(* typed becomes the stored price and MRP, the till's payment is settled   *)
(* by the checkout, and customers bring the goods back in any portions.    *)
(* Locks, keys and drawers are PosBilling's; here every paisa counts.      *)
(***************************************************************************)
EXTENDS InvoiceMath

CONSTANTS Forms,      \* the sales that start at the product form
          Requests,   \* the sales of products already stocked
          Portions,   \* the quantities of a line brought back at once
          Repayments  \* what the customer may pay off meanwhile, in paise

ASSUME DeskAssumption == Portions \subseteq Nat /\ Repayments \subseteq Nat \ {0}

VARIABLES stage,      \* "form", "stocked", "sold" or "refused"
          req,        \* the request, with the stored price and MRP once saved
          code,       \* why it was refused
          bill,       \* the stored invoice
          payment,    \* its tenders and credit
          back,       \* returnedQuantity of every line
          given,      \* what the returns refunded of every stored amount
          refunded,   \* what the completed returns add up to
          creditBack, \* what of it cancelled credit
          unstocked,  \* whether goods came back that were not put on the shelf
          owed,       \* outstandingBalance of the customer
          ledger      \* what this sale, its returns and the repayments moved: debit minus credit

vars == <<stage, req, code, bill, payment, back, given, refunded, creditBack, unstocked, owed, ledger>>
sold == <<bill, payment, back, given, refunded, creditBack, unstocked, owed, ledger>>

Accounts == {"CASH", "BANK", "AR", "REVENUE", "GST", "COGS", "INVENTORY"}
Blank == -1           \* no MRP was typed
NoBill == [lines |-> <<>>, total |-> 0]

Init ==
  /\ \/ stage = "form" /\ req \in Forms
     \/ stage = "stocked" /\ req \in Requests
  /\ code = ""
  /\ bill = NoBill /\ payment = [tenders |-> <<>>, udhar |-> 0]
  /\ back = <<>> /\ given = <<>>
  /\ refunded = 0 /\ creditBack = 0 /\ unstocked = FALSE /\ owed = req.owedBefore
  /\ ledger = [a \in Accounts |-> 0]

-----------------------------------------------------------------------------
(* The product form and the products API.                                  *)

\* The form turns a shelf price into the stored one when it is typed with GST; a
\* custom line has its price as it is.
StoredPrice(line, withGst) ==
  IF line.custom \/ ~withGst THEN line.price ELSE ExclusiveUnitPrice(line.price, line.gst, line.cess)

\* Mutant: the typed price stays and only its meaning changes.
OtherBasisAsTyped(line, withGst) == line

\* The typed price in the other basis.
OtherBasis(line, withGst) ==
  IF line.custom THEN line
  ELSE [line EXCEPT !.price = IF withGst THEN ExclusiveUnitPrice(@, line.gst, line.cess)
                                         ELSE InclusiveUnitPrice(@, line.gst, line.cess)]

SetPriceBasis ==
  /\ stage = "form"
  /\ req' = [req EXCEPT !.withGst = ~@,
                       !.lines = [i \in DOMAIN @ |-> OtherBasis(@[i], req.withGst)]]
  /\ UNCHANGED <<stage, code>> /\ UNCHANGED sold

\* resolveMrp: a blank MRP is the price of one unit with its taxes.
ResolveMrp(line) ==
  IF line.mrp = Blank THEN InclusiveUnitPrice(line.price, line.gst, line.cess) ELSE line.mrp

Saved(line) ==
  LET priced == [line EXCEPT !.price = StoredPrice(line, req.withGst)]
  IN [priced EXCEPT !.mrp = ResolveMrp(priced)]

SaveProducts ==
  LET lines == [i \in DOMAIN req.lines |-> Saved(req.lines[i])]
  IN /\ stage = "form"
     /\ IF \A i \in DOMAIN lines : WithinMrp(lines[i])
        THEN stage' = "stocked" /\ req' = [req EXCEPT !.lines = lines] /\ UNCHANGED code
        ELSE stage' = "refused" /\ code' = "PRICE_ABOVE_MRP" /\ UNCHANGED req
     /\ UNCHANGED sold

-----------------------------------------------------------------------------
(* Checkout.                                                               *)

\* The checks of the checkout before any lock, in its order.
Refusal(r, b, p) ==
  CASE \E i \in DOMAIN r.lines : ~WithinMrp(r.lines[i]) -> "PRICE_ABOVE_MRP"
    [] BillRefused(r) # "" -> BillRefused(r)
    [] SettleRefused(p, b.total) # "" -> SettleRefused(p, b.total)
    [] r.role = "CASHIER" /\ DiscountNeedsManager(r, b) -> "DISCOUNT_REQUIRES_APPROVAL"
    [] r.role = "CASHIER" /\ CustomNeedsManager(r) -> "CUSTOM_LINE_REQUIRES_APPROVAL"
    [] OTHER -> ""

Tendered(tenders, types) ==
  Total([i \in {j \in DOMAIN tenders : tenders[j].type \in types} |-> tenders[i].amount])
BankTypes == {"UPI", "CARD", "BANK_TRANSFER"}

\* What a document moves in the ledger, seen from a sale; a return moves it back.
Entries(tenders, udhar, taxable, tax, roundOff, cost) ==
  LET split == SplitRevenue(taxable, tax, roundOff)
  IN [a \in Accounts |->
       CASE a = "CASH" -> Tendered(tenders, {"CASH"})
         [] a = "BANK" -> Tendered(tenders, BankTypes)
         [] a = "AR" -> udhar
         [] a = "REVENUE" -> -split.revenue
         [] a = "GST" -> -split.gst
         [] a = "COGS" -> cost
         [] a = "INVENTORY" -> -cost]

CostOf(lines, from, q) ==
  Total([i \in {j \in DOMAIN lines : ~lines[j].custom} |->
           CostOfGoodsSlice(lines[i].cost, from[i], q[i])])

Checkout ==
  LET b == Bill(req)
      p == PaymentSpec(req.choice, b.total)
      none == [i \in DOMAIN b.lines |-> 0]
      all == [i \in DOMAIN b.lines |-> b.lines[i].qty]
  IN /\ stage = "stocked"
     /\ code' = Refusal(req, b, p)
     /\ IF code' # ""
        THEN stage' = "refused" /\ UNCHANGED sold
        ELSE /\ stage' = "sold"
             /\ bill' = b /\ payment' = p
             /\ back' = none
             /\ given' = [i \in DOMAIN b.lines |-> [part \in Parts |-> 0]]
             /\ owed' = owed + p.udhar
             /\ ledger' = Entries(p.tenders, p.udhar, b.taxable, b.tax, b.roundOff, CostOf(b.lines, none, all))
             /\ UNCHANGED <<refunded, creditBack, unstocked>>
     /\ UNCHANGED req

-----------------------------------------------------------------------------
(* Returns and repayments.                                                 *)

\* A customer pays part of what they owe: cash in, receivable down.
Repay(amount) ==
  /\ stage = "sold" /\ amount <= owed
  /\ owed' = owed - amount
  /\ ledger' = [ledger EXCEPT !["CASH"] = @ + amount, !["AR"] = @ - amount]
  /\ UNCHANGED <<stage, req, code, bill, payment, back, given, refunded, creditBack, unstocked>>

\* A sale paid by one tender is refunded by it, anything else in cash.
DefaultRefundTender ==
  LET types == {payment.tenders[i].type : i \in {j \in DOMAIN payment.tenders : payment.tenders[j].amount > 0}}
  IN IF Cardinality(types) = 1 /\ payment.udhar = 0 THEN CHOOSE t \in types : TRUE ELSE "CASH"

\* Mutant: measured against what was sold, not against what is left.
ReturnableAnew(q) == \A i \in DOMAIN q : q[i] <= bill.lines[i].qty

\* selectReturnLines refuses a quantity above what can still be returned.
Returnable(q) == \A i \in DOMAIN q : back[i] + q[i] <= bill.lines[i].qty

\* Mutant: forgets what earlier returns already cancelled.
CreditReversalAnew(total) == Lesser(Lesser(total, payment.udhar), Greater(owed, 0))

\* The refund first cancels credit: at most this sale's, and at most what is owed.
CreditReversal(total) ==
  Lesser(Lesser(total, Greater(payment.udhar - creditBack, 0)), Greater(owed, 0))

\* processReturn: q names what comes back of every line (all of what is left when
\* the request names no line).
ReturnGoods(q, restock) ==
  LET slices == [i \in DOMAIN bill.lines |-> ReturnLine(bill.lines[i], back[i], q[i])]
      taxable == SumOf(slices, LAMBDA s : s.taxable)
      tax == SumOf(slices, TaxOf)
      total == SettledReturn(bill, back, q, refunded, taxable + tax)
      credit == CreditReversal(total)
      tenders == IF total > credit
                 THEN <<[type |-> DefaultRefundTender, amount |-> total - credit]>> ELSE <<>>
      moved == Entries(tenders, credit, taxable, tax, total - (taxable + tax),
                       IF restock THEN CostOf(bill.lines, back, q) ELSE 0)
  IN /\ stage = "sold"
     /\ \E i \in DOMAIN q : q[i] > 0
     /\ Returnable(q)
     /\ back' = [i \in DOMAIN back |-> back[i] + q[i]]
     /\ given' = [i \in DOMAIN given |-> [p \in Parts |-> given[i][p] + slices[i][p]]]
     /\ refunded' = refunded + total
     /\ creditBack' = creditBack + credit
     /\ owed' = owed - credit
     /\ unstocked' = (unstocked \/ ~restock)
     /\ ledger' = [a \in Accounts |-> ledger[a] - moved[a]]
     /\ UNCHANGED <<stage, req, code, bill, payment>>

Next ==
  \/ SetPriceBasis
  \/ SaveProducts
  \/ Checkout
  \/ \E amount \in Repayments : Repay(amount)
  \/ \E q \in [DOMAIN bill.lines -> Portions], restock \in BOOLEAN : ReturnGoods(q, restock)

Spec == Init /\ [][Next]_vars

-----------------------------------------------------------------------------
(* Properties.                                                             *)

\* Every piece of the sale's state keeps its type.
TypeOK ==
  /\ stage \in {"form", "stocked", "sold", "refused"}
  /\ stage = "refused" <=> code # ""
  /\ refunded \in Nat /\ creditBack \in Nat /\ owed \in Nat /\ unstocked \in BOOLEAN
  /\ ledger \in [Accounts -> Int]
  /\ \A i \in DOMAIN back : back[i] \in 0..bill.lines[i].qty
  /\ \A i \in DOMAIN given : given[i] \in [Parts -> Nat]

\* The bill adds up (allocateProportionally and calculate): the shares of the
\* invoice discount are the discount, none exceeds its line, and the total is what
\* the parts say, to the rupee.
BillAddsUp ==
  stage = "sold" =>
    /\ Total(bill.shares) = bill.invoiceDiscount
    /\ \A i \in DOMAIN bill.shares : bill.shares[i] \in 0..NetSubtotals(req)[i]
    /\ bill.subtotal - bill.discount + bill.tax + bill.roundOff = bill.total
    /\ bill.total % 100 = 0 /\ bill.roundOff \in -49..50

\* However the goods come back (calculateReturn and its settlement), the refunds
\* never exceed the sale and are exactly its total once no line has money left.
RefundsSettle ==
  stage = "sold" =>
    /\ refunded <= bill.total
    /\ (\A i \in DOMAIN bill.lines : ~HasRefundLeft(bill.lines[i], back[i])) /\ (\E i \in DOMAIN back : back[i] > 0)
         => refunded = bill.total

\* Every stored amount of a line is given back exactly once (the cumulative slices
\* of calculateReturn), whatever the portions.
SlicesTelescope ==
  \A i \in DOMAIN given : \A p \in Parts :
    /\ given[i][p] <= bill.lines[i].amounts[p]
    /\ back[i] = bill.lines[i].qty => given[i][p] = bill.lines[i].amounts[p]

\* The postings of a sale and its returns balance (splitRevenue keeps both parts
\* positive), and once everything is back on the shelf the goods and the money are
\* where they were.
LedgerNetsOut ==
  /\ Total(ledger) = 0
  /\ stage = "sold" /\ (\A i \in DOMAIN back : back[i] = bill.lines[i].qty) =>
       /\ ~unstocked => ledger["COGS"] = 0
       /\ ledger["REVENUE"] + ledger["GST"] = 0

\* Money that goes back cancels this sale's credit first (processReturn), never the
\* credit of another sale and never more than the customer still owes, so the
\* customer's balance stays what the receivables account says.
CreditCancelledOnce ==
  stage = "sold" => creditBack <= payment.udhar /\ owed = req.owedBefore + ledger["AR"]

\* A cashier's own discount limit is theirs to give (discountLimitAmounts, audit
\* B4): the limit on every line, or once on the bill, never needs a manager.
OwnLimitAllowed ==
  LET pcts == {req.lines[i].pct : i \in DOMAIN req.lines}
  IN (\/ pcts = {CashierLimit} /\ req.discount.type = "NONE"
      \/ pcts = {0} /\ req.discount = [type |-> "PERCENTAGE", value |-> CashierLimit])
     => code # "DISCOUNT_REQUIRES_APPROVAL"

\* The price stored for a shelf price (exclusiveUnitPrice) is the largest whose
\* price with taxes does not exceed what the owner typed.
ShelfPriceKept ==
  stage = "form" /\ req.withGst =>
    \A i \in DOMAIN req.lines :
      LET line == req.lines[i]
          fit == {p \in 0..line.price : InclusiveUnitPrice(p, line.gst, line.cess) <= line.price}
      IN line.custom \/ (StoredPrice(line, TRUE) \in fit /\ \A p \in fit : p <= StoredPrice(line, TRUE))

\* Switching how the price is typed (setPriceBasis) never changes the price that
\* would be stored, however often it is switched before saving.
BasisKeepsPrice ==
  [][stage = "form" /\ stage' = "form" =>
       \A i \in DOMAIN req.lines :
         StoredPrice(req'.lines[i], req'.withGst) = StoredPrice(req.lines[i], req.withGst)]_vars

\* No single unit is sold above its MRP (assertWithinMrp), in the shop's own state or
\* in another.
UnitWithinMrp ==
  stage = "sold" =>
    \A i \in DOMAIN bill.lines :
      LET line == req.lines[i]
      IN ~line.custom /\ line.mrp > 0 /\ line.qty = Unit =>
           bill.lines[i].amounts.taxable + TaxOf(bill.lines[i].amounts) <= line.mrp

\* Every paisa of a bill and of its returns is accounted for, between the lines, the
\* customer's credit and the ledger.
BillsSound ==
  /\ TypeOK /\ BillAddsUp /\ RefundsSettle /\ SlicesTelescope
  /\ LedgerNetsOut /\ CreditCancelledOnce

\* What rounding may not do to a price: take it off the shelf label, above the MRP,
\* past the cashier's own limit, or to another value when it is typed another way.
PricesSound == [](OwnLimitAllowed /\ ShelfPriceKept /\ UnitWithinMrp) /\ BasisKeepsPrice
==============================================================================
