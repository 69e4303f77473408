--------------------------- MODULE MCProcurement ---------------------------
EXTENDS Procurement

CONSTANTS asha, ravi, mira

R(op, doc, by, n) ==
  [op |-> op, doc |-> doc, by |-> by, n |-> n, price |-> Cost, ref |-> "none", key |-> 0, result |-> "PASS"]
On(r, ref) == [r EXCEPT !.ref = ref]
Keyed(r, key) == [r EXCEPT !.key = key]

-----------------------------------------------------------------------------
(* Shops the chain of requests before has led to *)

Empty ==
  [order |-> NoOrder, receipt |-> [r \in Receipts |-> NoReceipt], bill |-> [b \in Bills |-> NoBill],
   return |-> [v \in Returns |-> NoReturn],
   supplier |-> [pending |-> 0, opening |-> 0, deleted |-> FALSE], posted |-> {}, stock |-> 0]

\* An order asha raised and ravi approved.
Approved(qty) ==
  [Empty EXCEPT !.order = [status |-> "APPROVED", qty |-> qty, asked |-> {asha}, decided |-> {ravi}]]

\* ... with all of it accepted on r1.
InStore(qty) ==
  [Approved(qty) EXCEPT
     !.order.status = "RECEIVED",
     !.receipt["r1"] = [NoReceipt EXCEPT !.status = "ACCEPTED", !.asked = {asha}, !.outstanding = qty,
                          !.received = qty, !.accepted = qty],
     !.supplier.pending = qty * Cost, !.posted = {"r1"}, !.stock = qty]

\* ... and b1 of all of it approved.
Invoiced(qty) ==
  [InStore(qty) EXCEPT
     !.bill["b1"] = [NoBill EXCEPT !.status = "APPROVED", !.asked = {asha}, !.decided = {ravi}, !.ref = "r1",
                       !.qty = qty, !.price = Cost, !.outstanding = qty * (Cost + UnitTax)]]

\* ... and v1 of one unit approved.
SendingBack(qty) ==
  [Invoiced(qty) EXCEPT
     !.return["v1"] = [status |-> "APPROVED", asked |-> {asha}, decided |-> {ravi}, ref |-> "r1", qty |-> 1]]

-----------------------------------------------------------------------------
(* Who does what *)

Ordering ==
  {R("createOrder", "order", asha, 2), R("editOrder", "order", ravi, 1), R("submitOrder", "order", asha, 0),
   R("submitOrder", "order", ravi, 0), R("approveOrder", "order", mira, 0), R("approveOrder", "order", ravi, 0),
   R("rejectOrder", "order", asha, 0), R("deleteSupplier", "supplier", ravi, 0),
   R("createReceipt", "r1", asha, 1)}

Receiving ==
  {R("createReceipt", "r1", asha, 1), R("createReceipt", "r2", ravi, 0),
   R("receiveGoods", "r1", asha, 2), R("receiveGoods", "r2", asha, 1),
   [R("inspectGoods", "r1", ravi, 1) EXCEPT !.result = "LINES"],
   R("acceptGoods", "r1", asha, 0), R("acceptGoods", "r2", ravi, 0),
   R("approveReceipt", "r1", ravi, 0), R("cancelReceipt", "r2", asha, 0)}

Inspecting ==
  {R("createReceipt", "r1", asha, 0), R("receiveGoods", "r1", asha, 2), R("receiveGoods", "r1", ravi, 1),
   R("inspectGoods", "r1", ravi, 0), [R("inspectGoods", "r1", ravi, 0) EXCEPT !.result = "FAIL"],
   [R("inspectGoods", "r1", asha, 0) EXCEPT !.result = "REJECT"],
   R("acceptGoods", "r1", asha, 0), R("rejectReceipt", "r1", ravi, 0), R("cancelReceipt", "r1", asha, 0)}

Billing ==
  {On(R("createBill", "b1", asha, 2), "r1"), [On(R("createBill", "b2", ravi, 1), "r1") EXCEPT !.price = Cost + 1],
   R("submitBill", "b1", asha, 0), R("submitBill", "b2", ravi, 0),
   R("approveBill", "b1", mira, 0), R("rejectBill", "b1", ravi, 0), R("cancelBill", "b1", asha, 0),
   R("approveBill", "b2", mira, 0), R("postBill", "b1", mira, 0), R("postBill", "b2", mira, 0)}

Paying ==
  {R("postBill", "b1", ravi, 0), Keyed(R("payBill", "b1", asha, 2), 1), Keyed(R("payBill", "b1", ravi, 2), 1),
   Keyed(R("payBill", "b1", asha, 1), 2), R("payBill", "b1", asha, 4),
   Keyed(R("paySupplier", "supplier", asha, 2), 3), Keyed(R("paySupplier", "supplier", ravi, 2), 3),
   Keyed(R("paySupplier", "supplier", ravi, 1), 2), R("deleteSupplier", "supplier", ravi, 0)}

Returning ==
  {On(R("createReturn", "v1", asha, 2), "r1"), On(R("createReturn", "v2", ravi, 1), "r1"),
   R("submitReturn", "v1", asha, 0), R("submitReturn", "v2", ravi, 0),
   R("approveReturn", "v1", mira, 0), R("rejectReturn", "v1", ravi, 0), R("cancelReturn", "v1", asha, 0),
   R("shipReturn", "v1", asha, 0), R("completeReturn", "v1", ravi, 0), R("completeReturn", "v1", mira, 0)}

Crediting ==
  {R("completeReturn", "v1", asha, 0), On(R("createNote", "n1", asha, 1), "v1"), On(R("createNote", "n2", ravi, 2), "v1"), On(R("createNote", "n2", ravi, 1), "v1"),
   R("submitNote", "n1", asha, 0), R("submitNote", "n2", asha, 0),
   R("approveNote", "n1", mira, 0), R("approveNote", "n2", mira, 0), R("rejectNote", "n1", ravi, 0), R("cancelNote", "n2", ravi, 0)}

Applying ==
  {R("postBill", "b1", ravi, 0), R("createNote", "n1", asha, 3), R("submitNote", "n1", asha, 0), R("approveNote", "n1", mira, 0),
   On(R("allocateNote", "n1", asha, 2), "b1"), On(R("allocateNote", "n1", ravi, 2), "b1"), R("closeNote", "n1", mira, 0),
   Keyed(R("payBill", "b1", asha, 2), 1), Keyed(R("payBill", "b1", ravi, 1), 2)}

At(shop, asked) == [shop |-> shop, asks |-> asked]

AllDesks ==
  {At(Empty, Ordering), At(Approved(2), Receiving), At(Approved(2), Inspecting), At(InStore(2), Billing),
   At(Invoiced(2), Paying), At(InStore(2), Returning), At(SendingBack(2), Crediting), At(Invoiced(2), Applying)}

=============================================================================
