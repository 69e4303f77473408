----------------------------- MODULE MCSaleDesk -----------------------------
(* Small sales chosen for their rounding: odd paise, halves of a kilo, free *)
(* lines, discounts that do not divide, and totals just under half a rupee. *)
EXTENDS SaleDesk

Line(price, mrp, gst, cess, qty, pct, custom) ==
  [price |-> price, mrp |-> mrp, gst |-> gst, cess |-> cess, qty |-> qty, pct |-> pct,
   custom |-> custom, cost |-> (price * 2) \div 3]

Carts ==
  { <<Line(205, 0, 18, 12, 3000, 0, FALSE)>>,
    <<Line(205, Blank, 18, 0, 1000, 0, FALSE), Line(17, 17, 12, 1, 2000, 10, FALSE)>>,
    <<Line(50, 60, 18, 0, 3000, 10, FALSE), Line(333, Blank, 5, 0, 1500, 10, FALSE)>>,
    <<Line(39, 0, 0, 0, 1000, 0, FALSE)>>,
    <<Line(205, 241, 18, 0, 1000, 0, FALSE)>>,
    <<Line(5, 0, 5, 0, 1000, 0, FALSE), Line(5, 0, 0, 0, 1000, 0, FALSE), Line(33, 40, 5, 0, 1000, 100, FALSE)>>,
    <<Line(101, 150, 28, 12, 1500, 0, FALSE), Line(3, 0, 5, 0, 1000, 0, FALSE)>>,
    <<Line(600, 0, 18, 0, 1000, 0, TRUE), Line(33, 40, 5, 0, 3000, 100, FALSE)>> }

Discounts == { [type |-> "NONE", value |-> 0], [type |-> "PERCENTAGE", value |-> 10],
               [type |-> "FIXED_AMOUNT", value |-> 7] }

Choices == { [method |-> "CASH", cash |-> 5000, split |-> <<>>, onCredit |-> FALSE],
             [method |-> "CREDIT", cash |-> 0, split |-> <<>>, onCredit |-> FALSE],
             [method |-> "SPLIT", cash |-> 0, onCredit |-> TRUE,
              split |-> <<[type |-> "BANK_TRANSFER", amount |-> 100, tendered |-> 100]>>] }

AllRequests ==
  [lines : Carts, discount : Discounts, choice : Choices, interState : BOOLEAN,
   role : {"CASHIER", "MANAGER"}, owedBefore : {0, 500}, withGst : BOOLEAN]

MCForms ==
  {r \in AllRequests : r.discount.type = "NONE" /\ r.role = "MANAGER" /\ r.choice.method = "CREDIT"
                         /\ r.owedBefore = 0}

MCRequests ==
  {r \in AllRequests : r.withGst /\ \A i \in DOMAIN r.lines : r.lines[i].mrp # Blank}
==============================================================================
