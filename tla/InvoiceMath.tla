----------------------------- MODULE InvoiceMath -----------------------------
(***************************************************************************)
(* The arithmetic of a bill and of its returns: what the shared package    *)
(* invoice-math computes for the till's preview and for the stored         *)
(* invoice, and the rules the checkout lays over it (MRP, discount         *)
(* authority, ledger split).  Amounts are whole paise, quantities whole    *)
(* thousandths of a unit, rates and discounts whole percents.              *)
(***************************************************************************)
EXTENDS Integers, Sequences, FiniteSets, Functions

CONSTANTS MoneyMax,        \* the largest amount a money column holds, in paise
          CashierLimit,    \* cashierMaxDiscountPercent
          CustomCap,       \* cashierMaxCustomLineAmount, in paise
          CustomTotalCap   \* cashierMaxCustomTotalAmount, in paise

ASSUME MathAssumption ==
  /\ MoneyMax \in Nat /\ CashierLimit \in 0..100
  /\ CustomCap \in Nat /\ CustomTotalCap \in Nat

Unit == 1000                                  \* QUANTITY_DP = 3

Lesser(a, b) == IF a <= b THEN a ELSE b
Greater(a, b) == IF a >= b THEN a ELSE b
Total(f) == FoldFunction(LAMBDA a, b : a + b, 0, f)

\* n / d rounded half up, for n >= 0 (Decimal.ROUND_HALF_UP).
HalfUp(n, d) == (2 * n + d) \div (2 * d)

-----------------------------------------------------------------------------
(* Tax and prices.                                                         *)

\* TaxCalculator.calculateTax in EXCLUSIVE mode, the only one the engine uses:
\* every component is rounded by itself.
CalculateTax(taxable, gst, cess, interState) ==
  [cgst |-> IF interState THEN 0 ELSE HalfUp(taxable * gst, 200),
   sgst |-> IF interState THEN 0 ELSE HalfUp(taxable * gst, 200),
   igst |-> IF interState THEN HalfUp(taxable * gst, 100) ELSE 0,
   cess |-> HalfUp(taxable * cess, 100)]

InclusiveUnitPrice(price, gst, cess) ==
  Greater(price + Total(CalculateTax(price, gst, cess, FALSE)),
          price + Total(CalculateTax(price, gst, cess, TRUE)))

\* Mutant: starts on the paise grid and only goes down.
ExclusiveUnitPriceDown(inclusive, gst, cess) ==
  LET fits(p) == InclusiveUnitPrice(p, gst, cess) <= inclusive
      lowered[p \in 0..inclusive] == IF p > 0 /\ ~fits(p) THEN lowered[p - 1] ELSE p
  IN lowered[(inclusive * 100) \div (100 + gst + cess)]

\* The exact quotient rounded down, raised while the next paisa still fits, then
\* lowered while it does not.
ExclusiveUnitPrice(inclusive, gst, cess) ==
  LET fits(p) == InclusiveUnitPrice(p, gst, cess) <= inclusive
      raised[p \in 0..inclusive] == IF fits(p + 1) THEN raised[p + 1] ELSE p
      lowered[p \in 0..inclusive] == IF p > 0 /\ ~fits(p) THEN lowered[p - 1] ELSE p
  IN lowered[raised[(inclusive * 100) \div (100 + gst + cess)]]

\* Mutant: compares the intra-state price only.
WithinMrpHome(line) ==
  line.custom \/ line.mrp = 0
    \/ line.price + Total(CalculateTax(line.price, line.gst, line.cess, FALSE)) <= line.mrp

\* assertWithinMrp: an MRP of 0 means none is printed; custom lines have none.
WithinMrp(line) ==
  line.custom \/ line.mrp = 0 \/ InclusiveUnitPrice(line.price, line.gst, line.cess) <= line.mrp

-----------------------------------------------------------------------------
(* The invoice discount over the lines (allocateProportionally).           *)

\* Mutant: the last line takes whatever the rounding left, room or no room.
AllocateLast(total, weights) ==
  LET n == Len(weights)
      base == Total(weights)
      first == [i \in 1..n |-> Lesser(HalfUp(total * weights[i], base), weights[i])]
  IN IF total > 0 /\ base > 0
     THEN [first EXCEPT ![n] = @ + total - Total(first)]
     ELSE [i \in 1..n |-> 0]

\* rest[k] is what is left to place, or to take back, once the last k lines
\* have settled their part of the rounding difference.
Allocate(total, weights) ==
  LET n == Len(weights)
      base == Total(weights)
      first == [i \in 1..n |-> Lesser(HalfUp(total * weights[i], base), weights[i])]
      rest[k \in 0..n] ==
        IF k = 0 THEN total - Total(first)
        ELSE LET i == n + 1 - k
                 r == rest[k - 1]
             IN IF r > 0 THEN r - Lesser(r, weights[i] - first[i])
                         ELSE r + Lesser(-r, first[i])
  IN IF total > 0 /\ base > 0
     THEN [i \in 1..n |-> first[i] + rest[n - i] - rest[n + 1 - i]]
     ELSE [i \in 1..n |-> 0]

-----------------------------------------------------------------------------
(* The bill (InvoiceMathEngine.calculate).                                 *)

LineSubtotal(line) == HalfUp(line.price * line.qty, Unit)
ItemDiscount(line) == HalfUp(LineSubtotal(line) * line.pct, 100)
NetSubtotals(req) ==
  [i \in DOMAIN req.lines |-> LineSubtotal(req.lines[i]) - ItemDiscount(req.lines[i])]

InvoiceDiscount(req) ==
  CASE req.discount.type = "PERCENTAGE" -> HalfUp(Total(NetSubtotals(req)) * req.discount.value, 100)
    [] req.discount.type = "FIXED_AMOUNT" -> req.discount.value
    [] OTHER -> 0

\* One stored line: its amounts, each of which is refunded slice by slice.
BillLine(line, share, interState) ==
  LET discount == ItemDiscount(line) + share
      taxable == LineSubtotal(line) - discount
      tax == CalculateTax(taxable, line.gst, line.cess, interState)
  IN [qty |-> line.qty, cost |-> line.cost, custom |-> line.custom,
      amounts |-> [discount |-> discount, taxable |-> taxable, cgst |-> tax.cgst,
                   sgst |-> tax.sgst, igst |-> tax.igst, cess |-> tax.cess]]

Taxes == {"cgst", "sgst", "igst", "cess"}
Parts == {"discount", "taxable"} \cup Taxes
TaxOf(amounts) == Total([p \in Taxes |-> amounts[p]])
SumOf(lines, Amount(_)) == Total([i \in DOMAIN lines |-> Amount(lines[i])])

RoundedToRupee(paise) == HalfUp(paise, 100) * 100

Bill(req) ==
  LET shares == Allocate(InvoiceDiscount(req), NetSubtotals(req))
      lines == [i \in DOMAIN req.lines |-> BillLine(req.lines[i], shares[i], req.interState)]
      taxable == SumOf(lines, LAMBDA l : l.amounts.taxable)
      tax == SumOf(lines, LAMBDA l : TaxOf(l.amounts))
  IN [lines |-> lines, shares |-> shares, taxable |-> taxable, tax |-> tax,
      subtotal |-> SumOf(req.lines, LineSubtotal),
      itemDiscount |-> SumOf(req.lines, ItemDiscount),
      invoiceDiscount |-> InvoiceDiscount(req),
      discount |-> SumOf(lines, LAMBDA l : l.amounts.discount),
      roundOff |-> RoundedToRupee(taxable + tax) - (taxable + tax),
      total |-> RoundedToRupee(taxable + tax)]

\* The checks of calculate that refuse a bill, in its order; "" accepts it.
BillRefused(req) ==
  LET net == Total(NetSubtotals(req))
      discount == InvoiceDiscount(req)
  IN CASE \E i \in DOMAIN req.lines : LineSubtotal(req.lines[i]) > MoneyMax -> "ERR_AMOUNT_TOO_LARGE"
       [] discount > 0 /\ net = 0 -> "ERR_ZERO_SUBTOTAL_DISCOUNT"
       [] discount > net -> "ERR_DISCOUNT_EXCEEDS_SUBTOTAL"
       [] Bill(req).subtotal > MoneyMax \/ Bill(req).total > MoneyMax -> "ERR_AMOUNT_TOO_LARGE"
       [] OTHER -> ""

-----------------------------------------------------------------------------
(* Payment: what the panel offers and how the engine settles it.           *)

\* The payment a cashier's choice amounts to for a bill of this total: the whole
\* of it in one tender, on credit, or split with the rest on credit if allowed.
PaymentSpec(choice, total) ==
  CASE choice.method = "CREDIT" -> [tenders |-> <<>>, udhar |-> total]
    [] choice.method = "SPLIT" ->
         [tenders |-> SelectSeq(choice.split, LAMBDA t : t.amount > 0),
          udhar |-> IF choice.onCredit
                    THEN Greater(total - SumOf(choice.split, LAMBDA t : t.amount), 0) ELSE 0]
    [] OTHER -> [tenders |-> <<[type |-> choice.method, amount |-> total,
                               tendered |-> Greater(choice.cash, total)]>>, udhar |-> 0]

SettleRefused(payment, total) ==
  CASE \E i \in DOMAIN payment.tenders :
         payment.tenders[i].tendered > payment.tenders[i].amount
           /\ payment.tenders[i].type # "CASH" -> "ERR_CHANGE_NOT_ALLOWED"
    [] SumOf(payment.tenders, LAMBDA t : t.amount) + payment.udhar # total -> "ERR_PAYMENT_MISMATCH"
    [] OTHER -> ""

-----------------------------------------------------------------------------
(* Discount authority of a cashier (enforceDiscountAuthority).             *)

LimitOf(amount) == HalfUp(amount * CashierLimit, 100)

\* discountLimitAmounts: the limit once on the whole bill, or on every line.
InvoiceAllowance(req, bill) == LimitOf(bill.subtotal - bill.itemDiscount)
EffectiveAllowance(req, bill) ==
  Greater(LimitOf(bill.subtotal), SumOf(req.lines, LAMBDA l : LimitOf(LineSubtotal(l))))

\* Mutant: amounts are compared as re-derived percentages.
DiscountNeedsManagerByPercent(req, bill) ==
  \/ \E i \in DOMAIN req.lines : req.lines[i].pct > CashierLimit
  \/ bill.discount * 100 > bill.subtotal * CashierLimit

DiscountNeedsManager(req, bill) ==
  \/ \E i \in DOMAIN req.lines : req.lines[i].pct > CashierLimit
  \/ bill.invoiceDiscount > 0 /\ req.discount.type = "PERCENTAGE" /\ req.discount.value > CashierLimit
  \/ bill.invoiceDiscount > InvoiceAllowance(req, bill)
  \/ bill.discount > EffectiveAllowance(req, bill)

CustomNeedsManager(req) ==
  LET custom == [i \in {j \in DOMAIN req.lines : req.lines[j].custom} |-> LineSubtotal(req.lines[i])]
  IN (\E i \in DOMAIN custom : custom[i] > CustomCap) \/ Total(custom) > CustomTotalCap

-----------------------------------------------------------------------------
(* Returns (InvoiceMathEngine.calculateReturn) and their settlement.       *)

\* What has been refunded of a stored amount once q of its Q units went back.
Cumulative(amount, q, Q) ==
  CASE q = 0 -> 0 [] q = Q -> amount [] OTHER -> HalfUp(amount * q, Q)

\* Mutant: every return is rounded by itself.
SliceAlone(amount, before, q, Q) == HalfUp(amount * q, Q)

Slice(amount, before, q, Q) == Cumulative(amount, before + q, Q) - Cumulative(amount, before, Q)

ReturnLine(line, before, q) ==
  [p \in Parts |-> Slice(line.amounts[p], before, q, line.qty)]
ReturnLineTotal(slice) == slice.taxable + TaxOf(slice)

\* hasRefundLeft: a line with no money left never keeps the sale open.
HasRefundLeft(line, back) ==
  back < line.qty /\ ReturnLineTotal(ReturnLine(line, back, line.qty - back)) > 0

CompletesInvoice(bill, back, returning) ==
  \A i \in DOMAIN bill.lines : ~HasRefundLeft(bill.lines[i], back[i] + returning[i])

\* Mutant: the last return is only capped like every other.
SettledReturnCapped(bill, back, returning, refunded, grand) ==
  Lesser(grand, Greater(bill.total - refunded, 0))

\* The document total: capped by what the sale has left, all of it when the sale
\* is complete.
SettledReturn(bill, back, returning, refunded, grand) ==
  LET remaining == Greater(bill.total - refunded, 0)
  IN IF CompletesInvoice(bill, back, returning) THEN remaining ELSE Lesser(grand, remaining)

CostOfGoodsSlice(cost, before, q) == HalfUp(cost * (before + q), Unit) - HalfUp(cost * before, Unit)

\* Mutant: the shortfall is dropped with the negative entry.
SplitRevenueDropped(taxable, tax, roundOff) ==
  [revenue |-> Greater(taxable + roundOff, 0), gst |-> tax]

\* splitRevenue: revenue carries the round-off; a shortfall moves onto the GST.
SplitRevenue(taxable, tax, roundOff) ==
  IF taxable + roundOff >= 0
  THEN [revenue |-> taxable + roundOff, gst |-> tax]
  ELSE [revenue |-> 0, gst |-> Greater(tax + taxable + roundOff, 0)]
==============================================================================
