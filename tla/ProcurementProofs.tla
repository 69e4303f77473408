-------------------------- MODULE ProcurementProofs --------------------------
(***************************************************************************)
(* What holds of one supplier's documents for any number of requests under *)
(* way, any ids, people and amounts: a key pays once and its twin is never *)
(* refused, a submitted order keeps its quantity, nobody decides on what   *)
(* he asked for, no more is accepted than was ordered nor credited than    *)
(* went back, no bill is settled beyond its total, and the balance and the *)
(* stock are what the documents on the books add up to.                    *)
(*                                                                         *)
(* The argument: a row that is locked is written by its holder alone, so   *)
(* what a payment read of its bill, an acceptance of the other receipts    *)
(* and a note of the other notes is so when it commits; what was read      *)
(* without a lock is of the kind that cannot come undone (an order never   *)
(* goes back to DRAFT, a document is created once); and a commit moves one *)
(* row of each sum, by as much as it moves the balance.                    *)
(***************************************************************************)
EXTENDS Procurement, SumLemmas

-----------------------------------------------------------------------------
(* The inductive invariant: what the rows look like, and what a request knows *)

TxRow(x) == x = [at |-> x.at, end |-> x.end, seen |-> x.seen] /\ x.at \in Nat

RequestsShaped ==
  /\ asks \subseteq Requests /\ tx = [t \in asks |-> tx[t]] /\ \A t \in asks : TxRow(tx[t])
  /\ lock = [r \in Rows |-> lock[r]]

TablesSound ==
  /\ DOMAIN order = DOMAIN NoOrder /\ OrderSound(order)
  /\ TableSound(receipt, Receipts, NoReceipt, ReceiptMoves)
  /\ TableSound(bill, Bills, NoBill, BillMoves)
  /\ TableSound(return, Returns, NoReturn, ReturnMoves)
  /\ TableSound(note, Notes, NoNote, NoteMoves)

\* NeverOverpaid, of amounts that are numbers.
BillAmount(x) ==
  /\ x.outstanding \in Nat
  /\ x.status = "PAID" => x.outstanding = 0
  /\ x.status = "PARTIALLY_PAID" => x.outstanding > 0

AmountsSound == (\A b \in Bills : BillAmount(bill[b])) /\ \A n \in Notes : note[n].remaining \in Nat

\* One payment for a key.
KeysOnce == \A p, q \in payments : p.key = q.key /\ p.key # 0 => p = q

\* Who creates a document is alone with it; whatever else is asked is about one there is.
Rooted(t) ==
  Open(t) => IF t.op \in Creates
             THEN /\ ~Exists(t.doc)
                  /\ \A u \in asks : u # t /\ u.op \in Creates /\ Open(u) => u.doc # t.doc
             ELSE Exists(t.doc)

\* An approval that found the order submitted by others will find it so.
ApproveKnows(t) ==
  t.op = "approveOrder" /\ Open(t) /\ tx[t].at >= 2 /\ Seen(t).ok =>
    order.status \notin {"NONE", "DRAFT"} /\ t.by \notin order.asked

\* A payment of a bill holds the bill, and what it read of it is still so: what is left,
\* and that no payment of it carries the key.
PayKnows(t) ==
  t.op = "payBill" /\ Open(t) /\ tx[t].at >= 2 =>
    /\ lock[t.doc] = t
    /\ tx[t].at >= 3 => /\ Seen(t).n = bill[t.doc].outstanding
                        /\ Seen(t).ok /\ t.key # 0 => \A p \in payments : p.key = t.key => p.bill # t.doc

\* Who applies a note to a bill holds the bill.
AllocateHolds(t) == t.op = "allocateNote" /\ Open(t) /\ tx[t].at >= 2 => lock[t.ref] = t

Informed(t) == Rooted(t) /\ ApproveKnows(t) /\ PayKnows(t) /\ AllocateHolds(t)

ProcurementInv ==
  RequestsShaped /\ TablesSound /\ AmountsSound /\ KeysOnce /\ \A t \in asks : Informed(t)
-----------------------------------------------------------------------------
(* The second invariant: what the documents add up to *)

\* What every row counts is a number.
PaymentsCounted ==
  IsFiniteSet(payments) /\ \A p \in payments : p.amount \in Nat /\ p.id \in Nat /\ p.id < Cardinality(payments)

ReceiptCounts(x) == x.accepted \in Nat /\ x.received \in Nat
BillCounts(x) == x.qty \in Nat /\ x.price \in Nat /\ x.paid \in Nat /\ x.outstanding \in Nat
NoteCounts(x) == x.total \in Nat /\ x.remaining \in Nat /\ x.ref \in Returns \cup {"none"}

Counted ==
  /\ order.qty \in Nat /\ order.status \in DOMAIN OrderMoves
  /\ \A r \in Receipts : ReceiptCounts(receipt[r])
  /\ \A b \in Bills : BillCounts(bill[b])
  /\ \A v \in Returns : return[v].qty \in Nat
  /\ \A n \in Notes : NoteCounts(note[n])
  /\ alloc = [p \in Notes \X Bills |-> alloc[p]] /\ \A p \in Notes \X Bills : alloc[p] \in Nat
  /\ DOMAIN supplier = {"pending", "opening", "deleted"} /\ supplier.opening \in Int /\ supplier.pending \in Int /\ stock \in Int
  /\ PaymentsCounted
  /\ \A r \in Rows : lock[r] \in asks \cup {Free}

\* AcceptedWithinOrdered; and nothing is received for an order that can still be edited.
GoodsWithin == AcceptedWithinOrdered /\ (order.status \in {"NONE", "DRAFT"} => Accepted("none") = 0)

\* Who accepts goods holds the order, and knows what the other receipts took in.
AcceptKnows(t) ==
  t.op = "acceptGoods" /\ Open(t) /\ tx[t].at >= 2 =>
    lock["order"] = t /\ (tx[t].at >= 3 => Seen(t).n = Accepted(t.doc))

\* Who raises a note of a return holds the return, and knows at least as much of its notes as there is.
NoteKnows(t) ==
  t.op = "createNote" /\ t.ref # "none" /\ Open(t) /\ tx[t].at >= 2 =>
    lock[t.ref] = t /\ (tx[t].at >= 3 => Seen(t).n \in Nat /\ Noted(t.ref, t.doc) <= Seen(t).n)

Knows(t) == AcceptKnows(t) /\ NoteKnows(t)

DocumentsInv == Counted /\ GoodsWithin /\ NotesWithinReturn /\ \A t \in asks : Knows(t)

\* A source is posted when its document got there, and a return always then.
PostedSound ==
  /\ \A r \in Receipts : r \in posted => receipt[r].status \in InStock
  /\ \A b \in Bills : b \in posted => OnBooks(bill[b])
  /\ \A v \in Returns : v \in posted <=> return[v].status = "COMPLETED"
  /\ \A n \in Notes : n \in posted => Issued(note[n])

\* A bill's total is what was paid, what was applied and what is left, before it is posted as well.
SettledAt(x, p, a) ==
  /\ p = x.paid /\ (x.paid + a) + x.outstanding = BillTotal(x)
  /\ x.status \notin {"PARTIALLY_PAID", "PAID"} => x.outstanding = BillTotal(x)

BillSettled(b) == SettledAt(bill[b], PaidOf(b), AppliedTo(b))

GivenAt(x, g) ==
  /\ x.remaining + g = x.total
  /\ x.status = "NONE" => x.remaining = x.total

NoteGiven(n) == GivenAt(note[n], GivenOut(n))

PayablesInv ==
  /\ PostedSound /\ (\A b \in Bills : BillSettled(b)) /\ (\A n \in Notes : NoteGiven(n)) /\ BooksFollowDocuments

-----------------------------------------------------------------------------
(* Requests and rows *)

LEMMA Sound ==
  ASSUME NEW t \in Requests
  PROVE  t \in Request /\ RequestSound(t) /\ t # Free /\ IdsApart
BY DesksAssumption DEF Requests

LEMMA RowsApart ==
  ASSUME NEW t \in Requests
  PROVE  /\ t.doc = "order" => t.doc \notin Documents
         /\ t.doc \in Receipts => t.doc \notin Bills \cup Returns \cup Notes \cup {"order", "supplier"}
         /\ t.doc \in Bills => t.doc \notin Receipts \cup Returns \cup Notes \cup {"order", "supplier"}
         /\ t.doc \in Returns => t.doc \notin Receipts \cup Bills \cup Notes \cup {"order", "supplier"}
         /\ t.doc \in Notes => t.doc \notin Receipts \cup Bills \cup Returns \cup {"order", "supplier"}
         /\ t.doc = "supplier" => t.doc \notin Documents
BY Sound DEF IdsApart, Documents

\* A row written into a table.
LEMMA RowWritten ==
  ASSUME NEW S, NEW f, NEW g, NEW d \in S, NEW row,
         f = [x \in S |-> f[x]], g = [f EXCEPT ![d] = row]
  PROVE  g = [x \in S |-> g[x]] /\ \A x \in S : g[x] = IF x = d THEN row ELSE f[x]
OBVIOUS

\* How a row x may become y, and its document d exist, at the commit of t.
Follows(x, y) ==
  /\ DOMAIN y = DOMAIN x
  /\ y.status = "DRAFT" => x.status \in {"NONE", "DRAFT"}
  /\ \/ y.decided = x.decided /\ (y.asked = x.asked \/ x.status \in {"NONE", "DRAFT"})
     \/ y.asked = x.asked /\ y.status \notin {"NONE", "DRAFT"} /\ y.decided \cap x.asked = {}

Created(t, d) == t.op \in Creates /\ t.doc = d

Grows(t, d, x, y) == Follows(x, y) /\ (y.status = "NONE" <=> x.status = "NONE" /\ ~Created(t, d))

TableGrows(t, ids, f, g, moves) ==
  g = [d \in ids |-> g[d]] /\ \A d \in ids : Grows(t, d, f[d], g[d]) /\ g[d].status \in DOMAIN moves

LEMMA FollowsSound ==
  ASSUME NEW x, NEW y, RowSound(x), Follows(x, y), y.status = "NONE" => x.status = "NONE"
  PROVE  RowSound(y)
  BY DEF RowSound, Follows

LEMMA TableStays ==
  ASSUME NEW t, NEW ids, NEW f, NEW g, NEW blank, NEW moves,
         TableSound(f, ids, blank, moves), g = f, t.op \in Creates => t.doc \notin ids
  PROVE  TableGrows(t, ids, f, g, moves)
BY DEF TableSound, TableGrows, Grows, Follows, Created

LEMMA RowGrows ==
  ASSUME NEW t, NEW ids, NEW f, NEW g, NEW blank, NEW moves, NEW d \in ids, NEW row,
         TableSound(f, ids, blank, moves), g = [f EXCEPT ![d] = row],
         Grows(t, d, f[d], row), row.status \in DOMAIN moves,
         t.op \in Creates => t.doc = d \/ t.doc \notin ids
  PROVE  TableGrows(t, ids, f, g, moves)
<1>1. f = [x \in ids |-> f[x]] /\ \A x \in ids : f[x].status \in DOMAIN moves
  BY DEF TableSound
<1>2. g = [x \in ids |-> g[x]] /\ \A x \in ids : g[x] = IF x = d THEN row ELSE f[x]
  BY <1>1, RowWritten
<1>3. ASSUME NEW x \in ids PROVE Grows(t, x, f[x], g[x]) /\ g[x].status \in DOMAIN moves
  <2>1. CASE x = d
    BY <1>2, <2>1
  <2>2. CASE x # d
    BY <1>1, <1>2, <2>2 DEF Grows, Follows, Created
  <2> QED BY <2>1, <2>2
<1> QED BY <1>2, <1>3 DEF TableGrows

LEMMA TableKept ==
  ASSUME NEW t, NEW ids, NEW f, NEW g, NEW blank, NEW moves,
         TableSound(f, ids, blank, moves), TableGrows(t, ids, f, g, moves)
  PROVE  TableSound(g, ids, blank, moves)
<1> SUFFICES ASSUME NEW d \in ids
             PROVE  DOMAIN g[d] = DOMAIN blank /\ RowSound(g[d])
  BY DEF TableSound, TableGrows
<1>1. PICK x, y : x = f[d] /\ y = g[d]
  OBVIOUS
<1>2. Follows(x, y) /\ RowSound(x) /\ DOMAIN x = DOMAIN blank /\ (y.status = "NONE" => x.status = "NONE")
  BY <1>1 DEF TableSound, TableGrows, Grows
<1>3. RowSound(y)
  BY <1>2, FollowsSound
<1> QED BY <1>1, <1>2, <1>3 DEF Follows

\* The fields of the request's row, and its steps.
LEMMA TxFields ==
  ASSUME RequestsShaped, NEW t \in asks
  PROVE  /\ t \in Requests /\ t \in DOMAIN tx /\ t # Free
         /\ DOMAIN tx[t] = {"at", "end", "seen"} /\ tx[t].at \in Nat
<1>1. PICK x : x = tx[t]
  OBVIOUS
<1>2. x = [at |-> x.at, end |-> x.end, seen |-> x.seen] /\ x.at \in Nat
  BY <1>1 DEF RequestsShaped, TxRow
<1>3. DOMAIN x = {"at", "end", "seen"}
  BY <1>2
<1> QED BY <1>1, <1>2, <1>3, Sound DEF RequestsShaped

\* The row of a request is written, and nobody else's.
LEMMA OneMoves ==
  ASSUME RequestsShaped, NEW t \in asks, NEW row, TxRow(row), tx' = [tx EXCEPT ![t] = row],
         asks' = asks, lock' = [r \in Rows |-> lock'[r]]
  PROVE  /\ RequestsShaped' /\ tx'[t] = row
         /\ \A u \in asks : u # t => tx'[u] = tx[u] /\ (Open(u)' <=> Open(u)) /\ Seen(u)' = Seen(u)
<1>1. tx = [u \in asks |-> tx[u]] /\ \A u \in asks : TxRow(tx[u])
  BY DEF RequestsShaped
<1>2. tx' = [u \in asks |-> tx'[u]] /\ \A u \in asks : tx'[u] = IF u = t THEN row ELSE tx[u]
  BY <1>1, RowWritten
<1>3. \A u \in asks : TxRow(tx'[u])
  BY <1>1, <1>2
<1>4. RequestsShaped'
  BY <1>2, <1>3 DEF RequestsShaped, TxRow
<1> QED BY <1>2, <1>4 DEF Open, Seen

\* At the end of its plan a request ends, and lets go of its rows alone.
Ends(t, how) == t \in asks /\ AtEnd(t) /\ Finish(t, how)

LEMMA EndsMove ==
  ASSUME RequestsShaped, NEW t, NEW how \in {"done", "refused"}, Ends(t, how)
  PROVE  /\ t \in asks /\ RequestsShaped' /\ asks' = asks /\ Open(t) /\ ~Open(t)' /\ tx'[t].end = how
         /\ \A u \in asks : u # t => tx'[u] = tx[u] /\ (Open(u)' <=> Open(u)) /\ Seen(u)' = Seen(u)
         /\ \A u \in asks, r \in Rows : u # t /\ lock[r] = u => lock'[r] = u
<1>1. /\ t \in asks /\ Open(t) /\ tx' = [tx EXCEPT ![t].end = how] /\ asks' = asks
      /\ lock' = [r \in Rows |-> IF lock[r] = t THEN Free ELSE lock[r]]
  BY DEF Ends, AtEnd, Finish
<1>2. PICK x : x = tx[t]
  OBVIOUS
<1>3. x = [at |-> x.at, end |-> x.end, seen |-> x.seen] /\ x.at \in Nat
  BY <1>1, <1>2 DEF RequestsShaped, TxRow
<1>4. PICK row : row = [at |-> x.at, end |-> how, seen |-> x.seen]
  OBVIOUS
<1>5. TxRow(row) /\ row.end = how
  BY <1>3, <1>4 DEF TxRow
<1>6. tx' = [tx EXCEPT ![t] = row]
  <2>1. [x EXCEPT !.end = how] = row
    BY <1>3, <1>4
  <2>2. tx' = [tx EXCEPT ![t] = [x EXCEPT !.end = how]]
    BY <1>1, <1>2, <1>3 DEF RequestsShaped
  <2> QED BY <2>1, <2>2
<1>7. lock' = [r \in Rows |-> lock'[r]] /\ \A r \in Rows : lock'[r] = IF lock[r] = t THEN Free ELSE lock[r]
  BY <1>1
<1>8. /\ RequestsShaped' /\ tx'[t] = row
      /\ \A u \in asks : u # t => tx'[u] = tx[u] /\ (Open(u)' <=> Open(u)) /\ Seen(u)' = Seen(u)
  BY <1>1, <1>5, <1>6, <1>7, OneMoves
<1>9. ~Open(t)' /\ tx'[t].end = how
  BY <1>5, <1>8 DEF Open
<1> QED BY <1>1, <1>7, <1>8, <1>9

LEMMA SendMoves ==
  ASSUME RequestsShaped, NEW t, Send(t)
  PROVE  /\ t \in asks /\ RequestsShaped' /\ UNCHANGED <<docs, asks, lock>> /\ (Open(t)' => tx'[t].at = 1)
         /\ ~Open(t) /\ Ripe(t) /\ tx'[t].end = tx[t].end
         /\ \A u \in asks : u # t => tx'[u] = tx[u] /\ (Open(u)' <=> Open(u)) /\ Seen(u)' = Seen(u)
<1>1. /\ t \in asks /\ tx[t].at = 0 /\ Ripe(t) /\ tx' = [tx EXCEPT ![t].at = 1] /\ UNCHANGED <<docs, asks, lock>>
  BY DEF Send
<1>2. PICK x : x = tx[t]
  OBVIOUS
<1>3. x = [at |-> x.at, end |-> x.end, seen |-> x.seen] /\ x.at \in Nat
  BY <1>1, <1>2 DEF RequestsShaped, TxRow
<1>4. PICK row : row = [at |-> 1, end |-> x.end, seen |-> x.seen]
  OBVIOUS
<1>5. TxRow(row) /\ row.at = 1 /\ row.end = x.end
  BY <1>3, <1>4 DEF TxRow
<1>6. tx' = [tx EXCEPT ![t] = row]
  <2>1. [x EXCEPT !.at = 1] = row
    BY <1>3, <1>4
  <2>2. tx' = [tx EXCEPT ![t] = [x EXCEPT !.at = 1]]
    BY <1>1, <1>2, <1>3 DEF RequestsShaped
  <2> QED BY <2>1, <2>2
<1>7. lock' = [r \in Rows |-> lock'[r]]
  BY <1>1 DEF RequestsShaped
<1>8. /\ RequestsShaped' /\ tx'[t] = row
      /\ \A u \in asks : u # t => tx'[u] = tx[u] /\ (Open(u)' <=> Open(u)) /\ Seen(u)' = Seen(u)
  BY <1>1, <1>5, <1>6, <1>7, OneMoves
<1>9. ~Open(t)
  BY <1>1 DEF Open
<1> QED BY <1>1, <1>2, <1>5, <1>8, <1>9

\* An open request takes the next lock of its plan, or its look at what it holds no lock of.
LEMMA AdvanceMoves ==
  ASSUME RequestsShaped, NEW t, Advance(t)
  PROVE  /\ t \in asks /\ RequestsShaped' /\ UNCHANGED <<docs, asks>> /\ Open(t) /\ Open(t)'
         /\ tx[t].at \in 1 .. Len(Plan(t)) /\ tx'[t].at = tx[t].at + 1 /\ tx'[t].end = tx[t].end
         /\ \A u \in asks : u # t => tx'[u] = tx[u] /\ (Open(u)' <=> Open(u)) /\ Seen(u)' = Seen(u)
         /\ \A u \in asks, r \in Rows : lock[r] = u => lock'[r] = u
         /\ \/ Plan(t)[tx[t].at] = "read" /\ Seen(t)' = Look(t)
            \/ /\ Plan(t)[tx[t].at] # "read" /\ Seen(t)' = Seen(t)
               /\ Plan(t)[tx[t].at] \in Rows => lock'[Plan(t)[tx[t].at]] = t
<1>1. t \in asks /\ Open(t) /\ tx[t].at <= Len(Plan(t)) /\ UNCHANGED <<docs, asks>>
  BY DEF Advance
<1>2. PICK x, step : x = tx[t] /\ step = Plan(t)[tx[t].at]
  OBVIOUS
<1>3. x = [at |-> x.at, end |-> x.end, seen |-> x.seen] /\ x.at \in Nat
  BY <1>1, <1>2 DEF RequestsShaped, TxRow
<1>4. x.at > 0 /\ x.end = "no"
  BY <1>1, <1>2 DEF Open
<1>5. \/ step = "read" /\ tx' = [tx EXCEPT ![t].at = @ + 1, ![t].seen = Look(t)] /\ lock' = lock
      \/ step # "read" /\ lock[step] = Free /\ lock' = [lock EXCEPT ![step] = t] /\ tx' = [tx EXCEPT ![t].at = @ + 1]
  BY <1>2 DEF Advance
<1>6. PICK s : s = IF step = "read" THEN Look(t) ELSE x.seen
  OBVIOUS
<1>7. PICK row : row = [at |-> x.at + 1, end |-> "no", seen |-> s]
  OBVIOUS
<1>8. TxRow(row) /\ row.at = x.at + 1 /\ row.end = "no" /\ row.seen = s
  BY <1>3, <1>7 DEF TxRow
<1>9. tx' = [tx EXCEPT ![t] = row]
  <2>0. t \in DOMAIN tx
    BY <1>1 DEF RequestsShaped
  <2>1. CASE step = "read"
    <3>0. PICK y : y = [x EXCEPT !.at = x.at + 1]
      OBVIOUS
    <3>3. y = [at |-> x.at + 1, end |-> "no", seen |-> x.seen]
      BY <1>3, <1>4, <3>0
    <3>4. [y EXCEPT !.seen = s] = row
      BY <1>7, <3>3
    <3>1. [x EXCEPT !.at = x.at + 1, !.seen = s] = row
      BY <3>0, <3>4, Zenon
    <3>2. tx' = [tx EXCEPT ![t] = [x EXCEPT !.at = x.at + 1, !.seen = s]]
      BY <1>2, <1>5, <1>6, <2>0, <2>1
    <3> QED BY <3>1, <3>2
  <2>2. CASE step # "read"
    <3>1. [x EXCEPT !.at = x.at + 1] = row
      BY <1>3, <1>4, <1>6, <1>7, <2>2
    <3>2. tx' = [tx EXCEPT ![t] = [x EXCEPT !.at = x.at + 1]]
      BY <1>2, <1>5, <2>0, <2>2
    <3> QED BY <3>1, <3>2
  <2> QED BY <2>1, <2>2
<1>10. lock = [r \in Rows |-> lock[r]]
  BY DEF RequestsShaped
<1>11. lock' = [r \in Rows |-> lock'[r]]
  BY <1>5, <1>10
<1>12. /\ RequestsShaped' /\ tx'[t] = row
       /\ \A u \in asks : u # t => tx'[u] = tx[u] /\ (Open(u)' <=> Open(u)) /\ Seen(u)' = Seen(u)
  BY <1>1, <1>8, <1>9, <1>11, OneMoves
<1>13. Open(t)' /\ Seen(t)' = s
  BY <1>3, <1>4, <1>8, <1>12 DEF Open, Seen
<1>14. ASSUME NEW u \in asks, NEW r \in Rows, lock[r] = u PROVE lock'[r] = u
  <2>1. u # Free
    BY TxFields
  <2> QED BY <1>5, <1>10, <1>14, <2>1
<1>15. step # "read" /\ step \in Rows => lock'[step] = t
  BY <1>5, <1>10
<1>16. x.seen = Seen(t) /\ tx[t].at \in 1 .. Len(Plan(t))
  BY <1>1, <1>2, <1>3, <1>4 DEF Seen
<1> QED BY <1>1, <1>2, <1>4, <1>6, <1>8, <1>12, <1>13, <1>14, <1>15, <1>16

-----------------------------------------------------------------------------
(* How a commit writes its row *)

Who == {"status", "asked", "decided"}

\* Only document d of the table was written, and of it only its status and who dealt with it.
WhoOnly(ids, f, g, d, s) ==
  /\ \A x \in ids : x # d => g[x] = f[x]
  /\ g[d].status = s /\ \A k \in DOMAIN f[d] \ Who : g[d][k] = f[d][k]

LEMMA RowMoved ==
  ASSUME NEW t, NEW ids, NEW f, NEW g, NEW blank, NEW moves, NEW d \in ids, NEW s \in DOMAIN moves \ {"NONE", "DRAFT"},
         TableSound(f, ids, blank, moves), Who \subseteq DOMAIN blank, f[d].status # "NONE", t.op \notin Creates,
         g = [f EXCEPT ![d].status = s]
  PROVE  TableGrows(t, ids, f, g, moves) /\ WhoOnly(ids, f, g, d, s)
<1>1. PICK x, row : x = f[d] /\ row = [x EXCEPT !.status = s]
  OBVIOUS
<1>2. f = [e \in ids |-> f[e]] /\ DOMAIN x = DOMAIN blank
  BY <1>1 DEF TableSound
<1>3. g = [f EXCEPT ![d] = row]
  BY <1>1, <1>2
<1>4. /\ DOMAIN row = DOMAIN x /\ row.status = s /\ row.asked = x.asked /\ row.decided = x.decided
      /\ \A k \in DOMAIN x \ Who : row[k] = x[k]
  BY <1>1, <1>2 DEF Who
<1>5. Grows(t, d, x, row)
  BY <1>1, <1>4 DEF Grows, Follows, Created
<1>6. TableGrows(t, ids, f, g, moves)
  <2>1. Grows(t, d, f[d], row) /\ row.status \in DOMAIN moves /\ (t.op \in Creates => t.doc = d \/ t.doc \notin ids)
    BY <1>1, <1>4, <1>5
  <2> QED BY <1>3, <2>1, RowGrows
<1>7. \A e \in ids : g[e] = IF e = d THEN row ELSE f[e]
  BY <1>2, <1>3, RowWritten
<1>8. WhoOnly(ids, f, g, d, s)
  <2>1. x = f[d] /\ g[d] = row
    BY <1>1, <1>7
  <2> QED BY <1>4, <1>7, <2>1 DEF WhoOnly
<1> QED BY <1>6, <1>8

LEMMA RowDecided ==
  ASSUME NEW t, NEW ids, NEW f, NEW g, NEW blank, NEW moves, NEW d \in ids, NEW s \in DOMAIN moves \ {"NONE", "DRAFT"},
         TableSound(f, ids, blank, moves), Who \subseteq DOMAIN blank, f[d].status # "NONE", t.op \notin Creates,
         MayDecide(t.by, f[d].asked), g = [f EXCEPT ![d].status = s, ![d].decided = {t.by}]
  PROVE  TableGrows(t, ids, f, g, moves) /\ WhoOnly(ids, f, g, d, s)
<1>1. PICK x, row : x = f[d] /\ row = [x EXCEPT !.status = s, !.decided = {t.by}]
  OBVIOUS
<1>2. f = [e \in ids |-> f[e]] /\ DOMAIN x = DOMAIN blank
  BY <1>1 DEF TableSound
<1>3. g = [f EXCEPT ![d] = row]
  BY <1>1, <1>2
<1>4. /\ DOMAIN row = DOMAIN x /\ row.status = s /\ row.asked = x.asked /\ row.decided = {t.by}
      /\ \A k \in DOMAIN x \ Who : row[k] = x[k]
  BY <1>1, <1>2 DEF Who
<1>5. Grows(t, d, x, row)
  BY <1>1, <1>4 DEF Grows, Follows, Created, MayDecide
<1>6. TableGrows(t, ids, f, g, moves)
  <2>1. Grows(t, d, f[d], row) /\ row.status \in DOMAIN moves /\ (t.op \in Creates => t.doc = d \/ t.doc \notin ids)
    BY <1>1, <1>4, <1>5
  <2> QED BY <1>3, <2>1, RowGrows
<1>7. \A e \in ids : g[e] = IF e = d THEN row ELSE f[e]
  BY <1>2, <1>3, RowWritten
<1>8. WhoOnly(ids, f, g, d, s)
  <2>1. x = f[d] /\ g[d] = row
    BY <1>1, <1>7
  <2> QED BY <1>4, <1>7, <2>1 DEF WhoOnly
<1> QED BY <1>6, <1>8

LEMMA RowSubmitted ==
  ASSUME NEW t, NEW ids, NEW f, NEW g, NEW blank, NEW moves, NEW d \in ids, NEW s \in DOMAIN moves \ {"NONE", "DRAFT"},
         TableSound(f, ids, blank, moves), Who \subseteq DOMAIN blank, f[d].status = "DRAFT", t.op \notin Creates,
         g = [f EXCEPT ![d].status = s, ![d].asked = @ \cup {t.by}]
  PROVE  TableGrows(t, ids, f, g, moves) /\ WhoOnly(ids, f, g, d, s)
<1>1. PICK x, row : x = f[d] /\ row = [x EXCEPT !.status = s, !.asked = @ \cup {t.by}]
  OBVIOUS
<1>2. f = [e \in ids |-> f[e]] /\ DOMAIN x = DOMAIN blank
  BY <1>1 DEF TableSound
<1>3. g = [f EXCEPT ![d] = row]
  BY <1>1, <1>2
<1>4. /\ DOMAIN row = DOMAIN x /\ row.status = s /\ row.decided = x.decided
      /\ \A k \in DOMAIN x \ Who : row[k] = x[k]
  BY <1>1, <1>2 DEF Who
<1>5. Grows(t, d, x, row)
  BY <1>1, <1>4 DEF Grows, Follows, Created
<1>6. TableGrows(t, ids, f, g, moves)
  <2>1. Grows(t, d, f[d], row) /\ row.status \in DOMAIN moves /\ (t.op \in Creates => t.doc = d \/ t.doc \notin ids)
    BY <1>1, <1>4, <1>5
  <2> QED BY <1>3, <2>1, RowGrows
<1>7. \A e \in ids : g[e] = IF e = d THEN row ELSE f[e]
  BY <1>2, <1>3, RowWritten
<1>8. WhoOnly(ids, f, g, d, s)
  <2>1. x = f[d] /\ g[d] = row
    BY <1>1, <1>7
  <2> QED BY <1>4, <1>7, <2>1 DEF WhoOnly
<1> QED BY <1>6, <1>8

\* A new document, or one whose other fields are written with its status.
Writes(f, g, d, row) == g = [f EXCEPT ![d] = row]

Fills(t, d, x, row, moves) ==
  /\ DOMAIN row = DOMAIN x /\ row.status \in DOMAIN moves /\ row.decided = x.decided
  /\ \/ x.status = "NONE" /\ row.status = "DRAFT" /\ Created(t, d)
     \/ x.status # "NONE" /\ row.status \notin {"NONE", "DRAFT"} /\ row.asked = x.asked /\ t.op \notin Creates

LEMMA RowFilled ==
  ASSUME NEW t, NEW ids, NEW f, NEW g, NEW blank, NEW moves, NEW d \in ids, NEW row,
         TableSound(f, ids, blank, moves), Writes(f, g, d, row), Fills(t, d, f[d], row, moves)
  PROVE  TableGrows(t, ids, f, g, moves)
<1>1. Grows(t, d, f[d], row) /\ row.status \in DOMAIN moves /\ g = [f EXCEPT ![d] = row]
  BY DEF Fills, Writes, Grows, Follows, Created
<1>2. t.op \in Creates => t.doc = d \/ t.doc \notin ids
  BY DEF Fills, Created
<1> QED BY <1>1, <1>2, RowGrows

-----------------------------------------------------------------------------
(* What a commit does to the documents *)

\* An order may be rejected by whoever asked for it, and stays rejected.
OrderFollows(x, y) ==
  /\ DOMAIN y = DOMAIN x
  /\ y.status = "DRAFT" => x.status \in {"NONE", "DRAFT"}
  /\ \/ y.decided = x.decided /\ (y.asked = x.asked \/ x.status \in {"NONE", "DRAFT"})
     \/ y.asked = x.asked /\ y.status \notin {"NONE", "DRAFT"} /\ (y.status # "REJECTED" => y.decided \cap x.asked = {})
  /\ x.status = "REJECTED" => y.status = "REJECTED"

OrderGrows(t) ==
  /\ OrderFollows(order, order')
  /\ order'.status = "NONE" <=> order.status = "NONE" /\ ~Created(t, "order")
  /\ order.status \notin {"NONE", "DRAFT"} => order'.qty = order.qty

LEMMA OrderStaysSound ==
  ASSUME NEW x, NEW y, OrderSound(x), OrderFollows(x, y), y.status = "NONE" => x.status = "NONE"
  PROVE  OrderSound(y)
  BY DEF OrderSound, OrderFollows
ReceiptsGrow(t) == TableGrows(t, Receipts, receipt, receipt', ReceiptMoves)
BillsGrow(t) == TableGrows(t, Bills, bill, bill', BillMoves)
ReturnsGrow(t) == TableGrows(t, Returns, return, return', ReturnMoves)
NotesGrow(t) == TableGrows(t, Notes, note, note', NoteMoves)

PaysOnce(t) ==
  \/ payments' = payments
  \/ \E p : /\ payments' = payments \cup {p} /\ Known(t) = {} /\ p.key = t.key
            /\ p.bill = IF t.op = "payBill" THEN t.doc ELSE "none"

BillsLeft(t) ==
  \A b \in Bills : \/ bill'[b].outstanding = bill[b].outstanding
                   \/ b = t.doc /\ t.op \in {"createBill", "payBill"}
                   \/ b = t.ref /\ t.op = "allocateNote"

Outcome(t) ==
  /\ OrderGrows(t) /\ ReceiptsGrow(t) /\ BillsGrow(t) /\ ReturnsGrow(t) /\ NotesGrow(t)
  /\ PaysOnce(t) /\ BillsLeft(t) /\ AmountsSound'

\* What is not written stays as it is.
LEMMA Unwritten ==
  ASSUME ProcurementInv, NEW t \in Requests
  PROVE  /\ order' = order /\ t.doc # "order" => OrderGrows(t)
         /\ receipt' = receipt /\ t.doc \notin Receipts => ReceiptsGrow(t)
         /\ bill' = bill /\ t.doc \notin Bills => BillsGrow(t)
         /\ return' = return /\ t.doc \notin Returns => ReturnsGrow(t)
         /\ note' = note /\ t.doc \notin Notes => NotesGrow(t)
         /\ payments' = payments => PaysOnce(t)
         /\ bill' = bill => BillsLeft(t)
         /\ bill' = bill /\ note' = note => AmountsSound'
<1>1. TablesSound /\ AmountsSound
  BY DEF ProcurementInv
<1>2. order' = order /\ t.doc # "order" => OrderGrows(t)
  BY DEF OrderGrows, OrderFollows, Created
<1>3. receipt' = receipt /\ t.doc \notin Receipts => ReceiptsGrow(t)
  BY <1>1, TableStays DEF TablesSound, ReceiptsGrow
<1>4. bill' = bill /\ t.doc \notin Bills => BillsGrow(t)
  BY <1>1, TableStays DEF TablesSound, BillsGrow
<1>5. return' = return /\ t.doc \notin Returns => ReturnsGrow(t)
  BY <1>1, TableStays DEF TablesSound, ReturnsGrow
<1>6. note' = note /\ t.doc \notin Notes => NotesGrow(t)
  BY <1>1, TableStays DEF TablesSound, NotesGrow
<1>7. bill' = bill /\ note' = note => AmountsSound'
  BY <1>1 DEF AmountsSound, BillAmount
<1> QED BY <1>2, <1>3, <1>4, <1>5, <1>6, <1>7 DEF PaysOnce, BillsLeft

\* Only the checks of the document's own kind count.
LEMMA CanBy ==
  ASSUME NEW t \in Requests, NEW s
  PROVE  /\ t.doc = "order" => (Can(t, s) <=> CanOrder(t, s))
         /\ t.doc \in Receipts => (Can(t, s) <=> CanReceipt(t, s))
         /\ t.doc \in Bills => (Can(t, s) <=> CanBill(t, s))
         /\ t.doc \in Returns => (Can(t, s) <=> CanReturn(t, s))
         /\ t.doc \in Notes => (Can(t, s) <=> CanNote(t, s))
         /\ t.doc = "supplier" => (Can(t, s) <=> CanPay(t, s))
<1>1. /\ t.doc = "order" => t.doc \notin Receipts \cup Bills \cup Returns \cup Notes
      /\ t.doc = "supplier" => t.doc \notin Receipts \cup Bills \cup Returns \cup Notes /\ t.doc # "order"
  BY RowsApart DEF Documents
<1>2. PICK co, cr, cb, cv, cn, cp : /\ co = CanOrder(t, s) /\ cr = CanReceipt(t, s) /\ cb = CanBill(t, s)
                                    /\ cv = CanReturn(t, s) /\ cn = CanNote(t, s) /\ cp = CanPay(t, s)
  OBVIOUS
<1>3. Can(t, s) = CASE t.doc = "order" -> co [] t.doc \in Receipts -> cr [] t.doc \in Bills -> cb
                    [] t.doc \in Returns -> cv [] t.doc \in Notes -> cn [] OTHER -> cp
  BY <1>2 DEF Can
<1> QED BY <1>1, <1>2, <1>3, RowsApart

LEMMA ExistsBy ==
  ASSUME NEW t \in Requests
  PROVE  /\ t.doc = "order" => (Exists(t.doc) <=> order.status # "NONE")
         /\ t.doc \in Receipts => (Exists(t.doc) <=> receipt[t.doc].status # "NONE")
         /\ t.doc \in Bills => (Exists(t.doc) <=> bill[t.doc].status # "NONE")
         /\ t.doc \in Returns => (Exists(t.doc) <=> return[t.doc].status # "NONE")
         /\ t.doc \in Notes => (Exists(t.doc) <=> note[t.doc].status # "NONE")
<1>1. t.doc = "order" => t.doc \notin Receipts \cup Bills \cup Returns \cup Notes
  BY RowsApart DEF Documents
<1> QED BY <1>1, RowsApart DEF Exists

LEMMA Ending ==
  ASSUME ProcurementInv, NEW t, NEW op, Commits(t, op)
  PROVE  /\ t \in Requests /\ t.op = op /\ Can(t, Seen(t)) /\ Ends(t, "done") /\ Informed(t)
         /\ Open(t) /\ tx[t].at \in Nat /\ tx[t].at > Len(Plan(t))
         /\ IF op \in Creates THEN ~Exists(t.doc) ELSE Exists(t.doc)
<1>1. t \in asks /\ t.op = op /\ Open(t) /\ Can(t, Seen(t)) /\ Ends(t, "done") /\ tx[t].at > Len(Plan(t))
  BY DEF Commits, AtEnd, Ends
<1>2. Informed(t) /\ t \in Requests /\ tx[t].at \in Nat
  BY <1>1 DEF ProcurementInv, RequestsShaped, TxRow
<1>3. IF op \in Creates THEN ~Exists(t.doc) ELSE Exists(t.doc)
  BY <1>1, <1>2 DEF Informed, Rooted
<1> QED BY <1>1, <1>2, <1>3

OrderCommit(t) == CreateOrder(t) \/ EditOrder(t) \/ SubmitOrder(t) \/ ApproveOrder(t) \/ RejectOrder(t)

LEMMA OrderCommits ==
  ASSUME ProcurementInv, NEW t, OrderCommit(t)
  PROVE  Ends(t, "done") /\ Outcome(t)
<1>1. PICK op \in {"createOrder", "editOrder", "submitOrder", "approveOrder", "rejectOrder"} : Commits(t, op)
  BY DEF OrderCommit, CreateOrder, EditOrder, SubmitOrder, ApproveOrder, RejectOrder
<1>2. /\ t \in Requests /\ t.op = op /\ Can(t, Seen(t)) /\ Ends(t, "done") /\ Informed(t)
      /\ Open(t) /\ tx[t].at \in Nat /\ tx[t].at > Len(Plan(t))
      /\ IF op \in Creates THEN ~Exists(t.doc) ELSE Exists(t.doc)
  BY <1>1, Ending
<1>3. t.doc = "order"
  BY <1>2, Sound DEF RequestSound
<1>4. t.doc \notin Documents
  BY <1>2, <1>3, RowsApart
<1>5. CanOrder(t, Seen(t)) /\ (op = "createOrder" <=> order.status = "NONE")
  BY <1>2, <1>3, CanBy, ExistsBy DEF Creates
<1>6. OnlyOrder
  BY DEF OrderCommit, CreateOrder, EditOrder, SubmitOrder, ApproveOrder, RejectOrder
<1>7. DOMAIN order = {"status", "qty", "asked", "decided"}
  BY DEF ProcurementInv, TablesSound, NoOrder
<1>8. OrderGrows(t)
  <2>1. CASE CreateOrder(t)
    <3>1. op = "createOrder" /\ order.status = "NONE"
      BY <1>2, <1>5, <2>1 DEF CreateOrder, Commits
    <3>2. /\ DOMAIN order' = DOMAIN order /\ order'.status = "DRAFT" /\ order'.decided = order.decided
      BY <1>7, <2>1 DEF CreateOrder
    <3> QED BY <1>2, <1>3, <3>1, <3>2 DEF OrderGrows, OrderFollows, Created, Creates
  <2>2. CASE EditOrder(t)
    <3>1. op = "editOrder" /\ order.status = "DRAFT"
      BY <1>2, <1>5, <2>2 DEF EditOrder, Commits, CanOrder
    <3>2. /\ DOMAIN order' = DOMAIN order /\ order'.status = order.status /\ order'.decided = order.decided
      BY <1>7, <2>2 DEF EditOrder
    <3> QED BY <3>1, <3>2 DEF OrderGrows, OrderFollows
  <2>3. CASE SubmitOrder(t)
    <3>1. op = "submitOrder" /\ order.status = "DRAFT"
      BY <1>2, <1>5, <2>3 DEF SubmitOrder, Commits, CanOrder
    <3>2. /\ DOMAIN order' = DOMAIN order /\ order'.status = "SUBMITTED" /\ order'.decided = order.decided
      BY <1>7, <2>3 DEF SubmitOrder
    <3> QED BY <3>1, <3>2 DEF OrderGrows, OrderFollows
  <2>4. CASE ApproveOrder(t)
    <3>1. op = "approveOrder" /\ order.status = "SUBMITTED" /\ Seen(t).ok
      BY <1>2, <1>5, <2>4 DEF ApproveOrder, Commits, CanOrder
    <3>2. tx[t].at >= 2
      BY <1>2, <3>1 DEF Plan
    <3>3. t.by \notin order.asked
      BY <1>2, <3>1, <3>2 DEF Informed, ApproveKnows
    <3>4. /\ DOMAIN order' = DOMAIN order /\ order'.status = "APPROVED" /\ order'.decided = {t.by}
          /\ order'.asked = order.asked /\ order'.qty = order.qty
      BY <1>7, <2>4 DEF ApproveOrder
    <3> QED BY <3>1, <3>3, <3>4 DEF OrderGrows, OrderFollows
  <2>5. CASE RejectOrder(t)
    <3>1. op = "rejectOrder" /\ order.status = "SUBMITTED"
      BY <1>2, <1>5, <2>5 DEF RejectOrder, Commits, CanOrder
    <3>2. /\ DOMAIN order' = DOMAIN order /\ order'.status = "REJECTED" /\ order'.decided = {t.by}
          /\ order'.asked = order.asked /\ order'.qty = order.qty
      BY <1>7, <2>5 DEF RejectOrder
    <3> QED BY <3>1, <3>2 DEF OrderGrows, OrderFollows
  <2> QED BY <2>1, <2>2, <2>3, <2>4, <2>5 DEF OrderCommit
<1> QED BY <1>2, <1>4, <1>6, <1>8, Unwritten DEF Outcome, OnlyOrder, Documents

ReceiptCommit(t) ==
  \/ CreateReceipt(t) \/ ReceiveGoods(t) \/ InspectGoods(t) \/ AcceptGoods(t)
  \/ ApproveReceipt(t) \/ RejectReceipt(t) \/ CancelReceipt(t)

\* How a receipt x becomes y: what it counts for changes when its goods are accepted, and only then.
ReceiptTurns(t, x, y) ==
  /\ y.accepted \in {x.accepted, x.received, t.n, 0} /\ y.received \in {x.received, t.n}
  /\ IF t.op = "acceptGoods"
     THEN x.status \notin InStock /\ y.status = "ACCEPTED" /\ y.accepted = IF x.inspected THEN x.accepted ELSE x.received
     ELSE (y.status \in InStock <=> x.status \in InStock) /\ (x.status \in InStock => y.accepted = x.accepted)

ReceiptTurned(t) ==
  /\ \A r \in Receipts : r # t.doc => receipt'[r] = receipt[r]
  /\ ReceiptTurns(t, receipt[t.doc], receipt'[t.doc])

LEMMA ReceiptMovesFrom ==
  ASSUME NEW s \in DOMAIN ReceiptMoves,
         \E to \in {"RECEIVING", "QUALITY_INSPECTION", "ACCEPTED", "CANCELLED"} : to \in ReceiptMoves[s]
  PROVE  s \notin InStock
BY DEF ReceiptMoves, InStock

LEMMA ReceiptWritten ==
  ASSUME ProcurementInv, NEW t, NEW op \in {"createReceipt", "receiveGoods", "inspectGoods", "acceptGoods",
                                            "approveReceipt", "rejectReceipt", "cancelReceipt"},
         Commits(t, op), ReceiptCommit(t)
  PROVE  ReceiptsGrow(t) /\ ReceiptTurned(t)
<1>2. /\ t \in Requests /\ t.op = op /\ Can(t, Seen(t))
      /\ IF op \in Creates THEN ~Exists(t.doc) ELSE Exists(t.doc)
  BY Ending
<1>3. t.doc \in Receipts
  BY <1>2, Sound DEF RequestSound
<1>5. CanReceipt(t, Seen(t)) /\ (op = "createReceipt" <=> receipt[t.doc].status = "NONE") /\ (t.op \in Creates <=> op = "createReceipt")
  BY <1>2, <1>3, CanBy, ExistsBy DEF Creates
<1>7. TableSound(receipt, Receipts, NoReceipt, ReceiptMoves)
  BY DEF ProcurementInv, TablesSound
<1>8. PICK x : x = receipt[t.doc]
  OBVIOUS
<1>9. DOMAIN x = {"status", "asked", "decided", "outstanding", "received", "accepted", "inspected"}
  BY <1>3, <1>7, <1>8 DEF TableSound, NoReceipt
<1>10. Who \subseteq DOMAIN NoReceipt /\ receipt = [r \in Receipts |-> receipt[r]]
  BY <1>7 DEF Who, NoReceipt, TableSound
<1>11. {"DRAFT", "RECEIVING", "QUALITY_INSPECTION", "ACCEPTED", "COMPLETED", "REJECTED", "CANCELLED"} \subseteq DOMAIN ReceiptMoves
  BY DEF ReceiptMoves
<1>a. ASSUME NEW row, receipt' = [receipt EXCEPT ![t.doc] = row], ReceiptTurns(t, x, row)
      PROVE  ReceiptTurned(t)
  <2>1. \A r \in Receipts : receipt'[r] = IF r = t.doc THEN row ELSE receipt[r]
    BY <1>3, <1>10, <1>a, RowWritten
  <2>2. receipt'[t.doc] = row /\ \A r \in Receipts : r # t.doc => receipt'[r] = receipt[r]
    BY <1>3, <2>1
  <2> QED BY <1>8, <1>a, <2>2 DEF ReceiptTurned
<1>b. ASSUME NEW s, WhoOnly(Receipts, receipt, receipt', t.doc, s), t.op # "acceptGoods", s \in InStock <=> x.status \in InStock
      PROVE  ReceiptTurned(t)
  <2>1. PICK y : y = receipt'[t.doc]
    OBVIOUS
  <2>2. y.status = s /\ \A k \in {"accepted", "received"} : y[k] = x[k]
    BY <1>8, <1>9, <1>b, <2>1 DEF WhoOnly, Who
  <2>3. ReceiptTurns(t, x, y)
    BY <1>b, <2>2 DEF ReceiptTurns
  <2>4. \A r \in Receipts : r # t.doc => receipt'[r] = receipt[r]
    BY <1>b DEF WhoOnly
  <2> QED BY <1>8, <2>1, <2>3, <2>4 DEF ReceiptTurned
<1>c. x.status \in DOMAIN ReceiptMoves
  BY <1>3, <1>7, <1>8 DEF TableSound
<1>12. CASE CreateReceipt(t)
  <2>1. op = "createReceipt" /\ x.status = "NONE"
    BY <1>2, <1>5, <1>8, <1>12 DEF CreateReceipt, Commits
  <2>2. PICK row : row = [x EXCEPT !.status = "DRAFT", !.asked = {t.by}, !.outstanding = Outstanding(Seen(t)), !.received = t.n]
    OBVIOUS
  <2>3. receipt' = [receipt EXCEPT ![t.doc] = row]
    BY <1>8, <1>12, <2>2, Zenon DEF CreateReceipt
  <2>4. DOMAIN row = DOMAIN x /\ row.status = "DRAFT" /\ row.decided = x.decided
    BY <1>9, <2>2
  <2>5. Created(t, t.doc)
    BY <1>2, <2>1 DEF Created, Creates
  <2>6. Fills(t, t.doc, receipt[t.doc], row, ReceiptMoves) /\ Writes(receipt, receipt', t.doc, row)
    BY <1>8, <1>11, <2>1, <2>3, <2>4, <2>5 DEF Fills, Writes
  <2>7. TableGrows(t, Receipts, receipt, receipt', ReceiptMoves)
    BY <1>3, <1>7, <2>6, RowFilled
  <2>8. row.accepted = x.accepted /\ row.received = t.n
    BY <1>9, <2>2
  <2>9. ReceiptTurned(t)
    <3>1. ReceiptTurns(t, x, row)
      BY <1>2, <2>1, <2>4, <2>8 DEF ReceiptTurns, InStock
    <3> QED BY <1>a, <2>3, <3>1
  <2> QED BY <2>7, <2>9 DEF ReceiptsGrow
<1>13. CASE ReceiveGoods(t)
  <2>1. op = "receiveGoods"
    BY <1>2, <1>13 DEF ReceiveGoods, Commits
  <2>2. PICK row : row = [x EXCEPT !.status = "RECEIVING", !.received = t.n]
    OBVIOUS
  <2>3. receipt' = [receipt EXCEPT ![t.doc] = row]
    BY <1>3, <1>8, <1>10, <1>13, <2>2 DEF ReceiveGoods
  <2>4. DOMAIN row = DOMAIN x /\ row.status = "RECEIVING" /\ row.decided = x.decided /\ row.asked = x.asked
    BY <1>9, <2>2
  <2>6. Fills(t, t.doc, receipt[t.doc], row, ReceiptMoves) /\ Writes(receipt, receipt', t.doc, row)
    BY <1>5, <1>8, <1>11, <2>1, <2>3, <2>4 DEF Fills, Writes
  <2>7. TableGrows(t, Receipts, receipt, receipt', ReceiptMoves)
    BY <1>3, <1>7, <2>6, RowFilled
  <2>8. row.accepted = x.accepted /\ row.received = t.n /\ x.status \notin InStock
    <3>1. "RECEIVING" \in ReceiptMoves[x.status]
      BY <1>2, <1>5, <1>8, <2>1 DEF CanReceipt
    <3>2. x.status \notin InStock
      BY <1>c, <3>1, ReceiptMovesFrom
    <3> QED BY <1>9, <2>2, <3>2
  <2>9. ReceiptTurned(t)
    <3>1. ReceiptTurns(t, x, row)
      BY <1>2, <2>1, <2>4, <2>8 DEF ReceiptTurns, InStock
    <3> QED BY <1>a, <2>3, <3>1
  <2> QED BY <2>7, <2>9 DEF ReceiptsGrow
<1>14. CASE InspectGoods(t)
  <2>1. op = "inspectGoods"
    BY <1>2, <1>14 DEF InspectGoods, Commits
  <2>2. PICK s, n : /\ s = (IF t.result = "REJECT" THEN "REJECTED" ELSE "QUALITY_INSPECTION")
                    /\ n = CASE t.result = "LINES" -> t.n
                             [] t.result = "PASS" -> receipt[t.doc].received
                             [] OTHER -> 0
    OBVIOUS
  <2>3. PICK row : row = [x EXCEPT !.status = s, !.inspected = TRUE, !.accepted = n]
    OBVIOUS
  <2>4. receipt' = [receipt EXCEPT ![t.doc] = row]
    BY <1>8, <1>14, <2>2, <2>3, Zenon DEF InspectGoods
  <2>5. DOMAIN row = DOMAIN x /\ row.status = s /\ row.decided = x.decided /\ row.asked = x.asked
    BY <1>9, <2>3
  <2>6. Fills(t, t.doc, receipt[t.doc], row, ReceiptMoves) /\ Writes(receipt, receipt', t.doc, row)
    BY <1>5, <1>8, <1>11, <2>1, <2>2, <2>4, <2>5 DEF Fills, Writes
  <2>7. TableGrows(t, Receipts, receipt, receipt', ReceiptMoves)
    BY <1>3, <1>7, <2>6, RowFilled
  <2>8. row.accepted = n /\ row.received = x.received /\ x.status \notin InStock
    <3>1. "QUALITY_INSPECTION" \in ReceiptMoves[x.status]
      BY <1>2, <1>5, <1>8, <2>1 DEF CanReceipt
    <3>2. x.status \notin InStock
      BY <1>c, <3>1, ReceiptMovesFrom
    <3> QED BY <1>9, <2>3, <3>2
  <2>9. ReceiptTurned(t)
    <3>0. n \in {x.accepted, x.received, t.n, 0}
      BY <1>8, <2>2
    <3>1. ReceiptTurns(t, x, row)
      BY <1>2, <2>1, <2>2, <2>5, <2>8, <3>0 DEF ReceiptTurns, InStock
    <3> QED BY <1>a, <2>4, <3>1
  <2> QED BY <2>7, <2>9 DEF ReceiptsGrow
<1>15. CASE AcceptGoods(t)
  <2>1. op = "acceptGoods"
    BY <1>2, <1>15 DEF AcceptGoods, Commits
  <2>2. PICK row : row = [x EXCEPT !.status = "ACCEPTED", !.accepted = Taking(t.doc)]
    OBVIOUS
  <2>3. receipt' = [receipt EXCEPT ![t.doc] = row]
    <3>1. receipt' = [receipt EXCEPT ![t.doc].status = "ACCEPTED", ![t.doc].accepted = Taking(t.doc)]
      BY <1>15 DEF AcceptGoods
    <3> QED BY <1>3, <1>8, <1>10, <2>2, <3>1
  <2>4. DOMAIN row = DOMAIN x /\ row.status = "ACCEPTED" /\ row.decided = x.decided /\ row.asked = x.asked
    BY <1>9, <2>2
  <2>6. Fills(t, t.doc, receipt[t.doc], row, ReceiptMoves) /\ Writes(receipt, receipt', t.doc, row)
    BY <1>5, <1>8, <1>11, <2>1, <2>3, <2>4 DEF Fills, Writes
  <2>7. TableGrows(t, Receipts, receipt, receipt', ReceiptMoves)
    BY <1>3, <1>7, <2>6, RowFilled
  <2>8. row.accepted = Taking(t.doc) /\ row.received = x.received /\ x.status \notin InStock
    <3>1. "ACCEPTED" \in ReceiptMoves[x.status]
      BY <1>2, <1>5, <1>8, <2>1 DEF CanReceipt
    <3>2. x.status \notin InStock
      BY <1>c, <3>1, ReceiptMovesFrom
    <3> QED BY <1>9, <2>2, <3>2
  <2>9. ReceiptTurned(t)
    <3>0. Taking(t.doc) = IF x.inspected THEN x.accepted ELSE x.received
      BY <1>8 DEF Taking
    <3>1. ReceiptTurns(t, x, row)
      BY <1>2, <2>1, <2>4, <2>8, <3>0 DEF ReceiptTurns
    <3> QED BY <1>a, <2>3, <3>1
  <2> QED BY <2>7, <2>9 DEF ReceiptsGrow
<1>16. CASE ApproveReceipt(t)
  <2>1. op = "approveReceipt" /\ receipt' = [receipt EXCEPT ![t.doc].status = "COMPLETED", ![t.doc].decided = {t.by}]
    BY <1>2, <1>16 DEF ApproveReceipt, Commits
  <2>2. MayDecide(t.by, receipt[t.doc].asked)
    BY <1>2, <1>5, <2>1 DEF CanReceipt
  <2>3. receipt[t.doc].status # "NONE" /\ t.op \notin Creates /\ "COMPLETED" \in DOMAIN ReceiptMoves \ {"NONE", "DRAFT"}
    BY <1>5, <1>11, <2>1
  <2>4. ReceiptsGrow(t) /\ WhoOnly(Receipts, receipt, receipt', t.doc, "COMPLETED")
    BY <1>3, <1>7, <1>10, <2>1, <2>2, <2>3, RowDecided DEF ReceiptsGrow
  <2>5. x.status = "ACCEPTED"
    BY <1>2, <1>5, <1>8, <2>1 DEF CanReceipt
  <2> QED BY <1>2, <1>b, <2>1, <2>4, <2>5 DEF InStock
<1>17. CASE RejectReceipt(t)
  <2>1. op = "rejectReceipt" /\ receipt' = [receipt EXCEPT ![t.doc].status = "REJECTED", ![t.doc].decided = {t.by}]
    BY <1>2, <1>17 DEF RejectReceipt, Commits
  <2>2. MayDecide(t.by, receipt[t.doc].asked)
    BY <1>2, <1>5, <2>1 DEF CanReceipt
  <2>3. receipt[t.doc].status # "NONE" /\ t.op \notin Creates /\ "REJECTED" \in DOMAIN ReceiptMoves \ {"NONE", "DRAFT"}
    BY <1>5, <1>11, <2>1
  <2>4. ReceiptsGrow(t) /\ WhoOnly(Receipts, receipt, receipt', t.doc, "REJECTED")
    BY <1>3, <1>7, <1>10, <2>1, <2>2, <2>3, RowDecided DEF ReceiptsGrow
  <2>5. x.status \in {"RECEIVING", "PARTIALLY_RECEIVED", "QUALITY_INSPECTION"}
    BY <1>2, <1>5, <1>8, <2>1 DEF CanReceipt
  <2> QED BY <1>2, <1>b, <2>1, <2>4, <2>5 DEF InStock
<1>18. CASE CancelReceipt(t)
  <2>1. op = "cancelReceipt" /\ receipt' = [receipt EXCEPT ![t.doc].status = "CANCELLED"]
    BY <1>2, <1>18 DEF CancelReceipt, Commits
  <2>2. receipt[t.doc].status # "NONE" /\ t.op \notin Creates /\ "CANCELLED" \in DOMAIN ReceiptMoves \ {"NONE", "DRAFT"}
    BY <1>5, <1>11, <2>1
  <2>4. ReceiptsGrow(t) /\ WhoOnly(Receipts, receipt, receipt', t.doc, "CANCELLED")
    BY <1>3, <1>7, <1>10, <2>1, <2>2, RowMoved DEF ReceiptsGrow
  <2>5. x.status \notin InStock
    <3>1. "CANCELLED" \in ReceiptMoves[x.status]
      BY <1>2, <1>5, <1>8, <2>1 DEF CanReceipt
    <3> QED BY <1>c, <3>1, ReceiptMovesFrom
  <2> QED BY <1>2, <1>b, <2>1, <2>4, <2>5 DEF InStock
<1> QED BY <1>12, <1>13, <1>14, <1>15, <1>16, <1>17, <1>18 DEF ReceiptCommit

LEMMA ReceiptCommits ==
  ASSUME ProcurementInv, NEW t, ReceiptCommit(t)
  PROVE  Ends(t, "done") /\ Outcome(t)
<1>1. PICK op \in {"createReceipt", "receiveGoods", "inspectGoods", "acceptGoods",
                   "approveReceipt", "rejectReceipt", "cancelReceipt"} : Commits(t, op)
  BY DEF ReceiptCommit, CreateReceipt, ReceiveGoods, InspectGoods, AcceptGoods, ApproveReceipt, RejectReceipt, CancelReceipt
<1>2. t \in Requests /\ t.op = op /\ Can(t, Seen(t)) /\ Ends(t, "done")
  BY <1>1, Ending
<1>3. t.doc \in Receipts
  BY <1>2, Sound DEF RequestSound
<1>4. t.doc # "order" /\ t.doc \notin Bills \cup Returns \cup Notes
  BY <1>2, <1>3, RowsApart
<1>5. ReceiptsGrow(t)
  BY <1>1, ReceiptWritten
<1>6. UNCHANGED <<bill, return, note, alloc, payments>>
  BY DEF ReceiptCommit, CreateReceipt, ReceiveGoods, InspectGoods, AcceptGoods, ApproveReceipt, RejectReceipt,
         CancelReceipt, OnlyReceipt
<1>7. OrderGrows(t)
  <2>1. CASE AcceptGoods(t)
    <3>1. t.op = "acceptGoods"
      BY <2>1 DEF AcceptGoods, Commits
    <3>2. order.status \in Receivable
      BY <1>2, <1>3, <3>1, CanBy DEF CanReceipt
    <3>3. DOMAIN order = {"status", "qty", "asked", "decided"}
      BY DEF ProcurementInv, TablesSound, NoOrder
    <3>4. PICK s : /\ s = (IF Accepted(t.doc) + Taking(t.doc) >= order.qty THEN "RECEIVED" ELSE "PARTIALLY_RECEIVED")
                   /\ order' = [order EXCEPT !.status = s]
      BY <2>1 DEF AcceptGoods
    <3>5. s \notin {"NONE", "DRAFT"}
      BY <3>4
    <3>6. /\ DOMAIN order' = DOMAIN order /\ order'.status = s /\ order'.decided = order.decided
          /\ order'.asked = order.asked /\ order'.qty = order.qty
      BY <3>3, <3>4
    <3> QED BY <3>2, <3>5, <3>6 DEF OrderGrows, OrderFollows, Receivable
  <2>2. CASE ~AcceptGoods(t)
    <3>1. order' = order
      BY <2>2 DEF ReceiptCommit, CreateReceipt, ReceiveGoods, InspectGoods, ApproveReceipt, RejectReceipt, CancelReceipt, OnlyReceipt
    <3> QED BY <1>2, <1>4, <3>1, Unwritten
  <2> QED BY <2>1, <2>2
<1> QED BY <1>2, <1>4, <1>5, <1>6, <1>7, Unwritten DEF Outcome

BillOps == {"createBill", "submitBill", "approveBill", "rejectBill", "cancelBill", "postBill", "payBill"}
BillCommit(t) ==
  CreateBill(t) \/ SubmitBill(t) \/ DecideBill(t) \/ CancelBill(t) \/ PostBill(t) \/ PayBill(t)

\* How a bill x becomes y.
BillCreated(t, x, y) ==
  /\ x.status = "NONE" /\ y.status = "DRAFT" /\ y.qty = t.n /\ y.price = t.price /\ y.paid = x.paid
  /\ y.outstanding = t.n * (t.price + UnitTax)
SameAmounts(x, y) == y.qty = x.qty /\ y.price = x.price /\ y.paid = x.paid /\ y.outstanding = x.outstanding
BillPosted(x, y) == SameAmounts(x, y) /\ x.status = "APPROVED" /\ y.status = "POSTED"
BillAside(x, y) == SameAmounts(x, y) /\ ~OnBooks(x) /\ ~OnBooks(y)
BillSettles(t, x, y) ==
  /\ x.status \in {"POSTED", "PARTIALLY_PAID"} /\ y.status \in {"PARTIALLY_PAID", "PAID"}
  /\ y.qty = x.qty /\ y.price = x.price /\ y.outstanding = x.outstanding - t.n

BillTurns(t, x, y) ==
  /\ t.op = "createBill" => BillCreated(t, x, y)
  /\ t.op = "postBill" => BillPosted(x, y)
  /\ t.op = "payBill" => IF Seen(t).ok THEN BillSettles(t, x, y) /\ y.paid = x.paid + t.n ELSE y = x
  /\ t.op \in {"submitBill", "approveBill", "rejectBill", "cancelBill"} => BillAside(x, y)

BillTurned(t) ==
  (\A b \in Bills : b # t.doc => bill'[b] = bill[b]) /\ BillTurns(t, bill[t.doc], bill'[t.doc])

\* A bill of which only its status and who dealt with it was written.
LEMMA BillMarked ==
  ASSUME ProcurementInv, NEW d \in Bills, NEW s, WhoOnly(Bills, bill, bill', d, s)
  PROVE  SameAmounts(bill[d], bill'[d]) /\ bill'[d].status = s
<1>1. DOMAIN bill[d] = DOMAIN NoBill
  BY DEF ProcurementInv, TablesSound, TableSound
<1>2. {"qty", "price", "paid", "outstanding"} \subseteq DOMAIN bill[d] \ Who
  BY <1>1 DEF NoBill, Who
<1>3. PICK x, y : x = bill[d] /\ y = bill'[d]
  OBVIOUS
<1>4. y.status = s /\ \A k \in {"qty", "price", "paid", "outstanding"} : y[k] = x[k]
  BY <1>2, <1>3 DEF WhoOnly
<1> QED BY <1>3, <1>4 DEF SameAmounts

\* A bill nobody paid or settled keeps its amounts.
LEMMA AmountsKept ==
  ASSUME ProcurementInv, NEW t, NEW d \in Bills, NEW s, WhoOnly(Bills, bill, bill', d, s), s \notin {"PAID", "PARTIALLY_PAID"}
  PROVE  BillsLeft(t) /\ \A b \in Bills : BillAmount(bill'[b])
<1>1. DOMAIN bill[d] = DOMAIN NoBill /\ \A b \in Bills : BillAmount(bill[b])
  BY DEF ProcurementInv, TablesSound, TableSound, AmountsSound
<1>2. "outstanding" \in DOMAIN bill[d] \ Who
  BY <1>1 DEF NoBill, Who
<1>3. PICK x, y : x = bill[d] /\ y = bill'[d]
  OBVIOUS
<1>4. y.status = s /\ y.outstanding = x.outstanding /\ BillAmount(x)
  BY <1>1, <1>2, <1>3 DEF WhoOnly
<1>5. BillAmount(y)
  BY <1>4 DEF BillAmount
<1>6. \A b \in Bills : b # d => bill'[b] = bill[b]
  BY DEF WhoOnly
<1> QED BY <1>1, <1>3, <1>4, <1>5, <1>6 DEF BillsLeft

\* The payment of t: once, and with its key.
LEMMA PayPays ==
  ASSUME NEW t, NEW b, Pay(t, b), b = IF t.op = "payBill" THEN t.doc ELSE "none"
  PROVE  PaysOnce(t)
<1>1. CASE Known(t) # {}
  BY <1>1 DEF Pay, PaysOnce
<1>2. CASE Known(t) = {}
  <2>1. PICK p : p = [id |-> Cardinality(payments), key |-> t.key, bill |-> b, amount |-> t.n]
    OBVIOUS
  <2>2. payments' = payments \cup {p} /\ p.key = t.key /\ p.bill = b
    BY <1>2, <2>1 DEF Pay
  <2> QED BY <1>2, <2>2 DEF PaysOnce
<1> QED BY <1>1, <1>2

LEMMA BillPaid ==
  ASSUME ProcurementInv, NEW t, Commits(t, "payBill"), PayBill(t)
  PROVE  BillsGrow(t) /\ PaysOnce(t) /\ BillsLeft(t) /\ (\A b \in Bills : BillAmount(bill'[b])) /\ BillTurned(t)
<1>1. /\ t \in Requests /\ t.op = "payBill" /\ Can(t, Seen(t)) /\ Exists(t.doc) /\ Informed(t)
      /\ Open(t) /\ tx[t].at \in Nat /\ tx[t].at > Len(Plan(t))
  BY Ending DEF Creates
<1>2. t.doc \in Bills /\ t.n \in Nat /\ t.op \notin Creates
  BY <1>1, Sound DEF RequestSound, Request, Creates
<1>3. CanBill(t, Seen(t)) /\ bill[t.doc].status # "NONE"
  BY <1>1, <1>2, CanBy, ExistsBy
<1>4. TableSound(bill, Bills, NoBill, BillMoves) /\ \A b \in Bills : BillAmount(bill[b])
  BY DEF ProcurementInv, TablesSound, AmountsSound
<1>5. CASE ~Seen(t).ok
  <2>1. UNCHANGED <<bill, payments>>
    BY <1>5 DEF PayBill
  <2>2. BillsGrow(t)
    BY <1>2, <1>4, <2>1, TableStays DEF BillsGrow
  <2>3. BillTurned(t)
    BY <1>1, <1>5, <2>1 DEF BillTurned, BillTurns
  <2> QED BY <1>4, <2>1, <2>2, <2>3 DEF PaysOnce, BillsLeft
<1>6. CASE Seen(t).ok
  <2>1. /\ Pay(t, t.doc)
        /\ bill' = [Settle(t.doc, Seen(t).n, t.n) EXCEPT ![t.doc].paid = @ + t.n]
    BY <1>6 DEF PayBill
  <2>2. bill[t.doc].status \in {"POSTED", "PARTIALLY_PAID"} /\ t.n <= Seen(t).n
    BY <1>1, <1>3, <1>6 DEF CanBill
  <2>3. Seen(t).n = bill[t.doc].outstanding
    <3>1. tx[t].at >= 3
      BY <1>1 DEF Plan, PayBillPlan
    <3> QED BY <1>1, <3>1 DEF Informed, PayKnows
  <2>4. PICK x, left, s : /\ x = bill[t.doc] /\ left = x.outstanding - t.n
                          /\ s = IF left <= 0 THEN "PAID" ELSE "PARTIALLY_PAID"
    OBVIOUS
  <2>5. DOMAIN x = {"status", "asked", "decided", "ref", "qty", "price", "paid", "outstanding"}
    BY <1>2, <1>4, <2>4 DEF TableSound, NoBill
  <2>6. bill = [b \in Bills |-> bill[b]]
    BY <1>4 DEF TableSound
  <2>7. PICK row : row = [x EXCEPT !.outstanding = left, !.status = s, !.paid = @ + t.n]
    OBVIOUS
  <2>8. bill' = [bill EXCEPT ![t.doc] = row]
    <3>1. bill' = [bill EXCEPT ![t.doc].outstanding = left, ![t.doc].status = s, ![t.doc].paid = @ + t.n]
      BY <2>1, <2>3, <2>4 DEF Settle
    <3> QED BY <1>2, <2>4, <2>5, <2>6, <2>7, <3>1
  <2>9. DOMAIN row = DOMAIN x /\ row.status = s /\ row.outstanding = left /\ row.decided = x.decided /\ row.asked = x.asked
    BY <2>5, <2>7
  <2>10. s \in DOMAIN BillMoves \ {"NONE", "DRAFT"}
    BY <2>4 DEF BillMoves
  <2>11. Fills(t, t.doc, bill[t.doc], row, BillMoves) /\ Writes(bill, bill', t.doc, row)
    BY <1>2, <1>3, <2>4, <2>8, <2>9, <2>10 DEF Fills, Writes
  <2>12. BillsGrow(t) /\ \A b \in Bills : bill'[b] = IF b = t.doc THEN row ELSE bill[b]
    <3>1. TableGrows(t, Bills, bill, bill', BillMoves)
      BY <1>2, <1>4, <2>11, RowFilled
    <3>2. bill = [b \in Bills |-> bill[b]]
      BY <1>4 DEF TableSound
    <3>3. \A b \in Bills : bill'[b] = IF b = t.doc THEN row ELSE bill[b]
      BY <1>2, <2>8, <3>2, RowWritten
    <3> QED BY <3>1, <3>3 DEF BillsGrow
  <2>13. BillAmount(row)
    <3>1. x.outstanding \in Nat /\ left \in Nat
      BY <1>2, <1>4, <2>2, <2>3, <2>4 DEF BillAmount
    <3> QED BY <2>4, <2>9, <3>1 DEF BillAmount
  <2>14. PaysOnce(t)
    BY <1>1, <2>1, PayPays
  <2>15. BillTurned(t)
    <3>1. row.qty = x.qty /\ row.price = x.price /\ row.paid = x.paid + t.n
      BY <2>5, <2>7
    <3>2. BillSettles(t, x, row)
      BY <2>2, <2>4, <2>9, <3>1 DEF BillSettles
    <3>3. bill'[t.doc] = row
      BY <1>2, <2>12
    <3>4. BillTurns(t, bill[t.doc], bill'[t.doc])
      BY <1>1, <1>6, <2>4, <3>1, <3>2, <3>3 DEF BillTurns
    <3> QED BY <2>12, <3>4 DEF BillTurned
  <2> QED BY <1>1, <1>4, <2>12, <2>13, <2>14, <2>15 DEF BillsLeft
<1> QED BY <1>5, <1>6

LEMMA BillWritten ==
  ASSUME ProcurementInv, NEW t, NEW op \in BillOps, Commits(t, op), BillCommit(t)
  PROVE  BillsGrow(t) /\ PaysOnce(t) /\ BillsLeft(t) /\ (\A b \in Bills : BillAmount(bill'[b])) /\ BillTurned(t)
<1>1. /\ t \in Requests /\ t.op = op /\ Can(t, Seen(t))
      /\ IF op \in Creates THEN ~Exists(t.doc) ELSE Exists(t.doc)
  BY Ending
<1>2. t.doc \in Bills /\ t.n \in Nat /\ t.price \in Nat
  BY <1>1, Sound DEF RequestSound, Request, BillOps
<1>3. CanBill(t, Seen(t)) /\ (op = "createBill" <=> bill[t.doc].status = "NONE") /\ (t.op \in Creates <=> op = "createBill")
  BY <1>1, <1>2, CanBy, ExistsBy DEF Creates, BillOps
<1>4. TableSound(bill, Bills, NoBill, BillMoves) /\ \A b \in Bills : BillAmount(bill[b])
  BY DEF ProcurementInv, TablesSound, AmountsSound
<1>5. Who \subseteq DOMAIN NoBill /\ {"DRAFT", "PENDING_APPROVAL", "APPROVED", "REJECTED", "CANCELLED", "POSTED"} \subseteq DOMAIN BillMoves
  BY DEF Who, NoBill, BillMoves
<1>6. CASE CreateBill(t)
  <2>1. op = "createBill" /\ payments' = payments
    BY <1>1, <1>6 DEF CreateBill, Commits, OnlyBill
  <2>2. PICK x, owed : x = bill[t.doc] /\ owed = t.n * (t.price + UnitTax)
    OBVIOUS
  <2>3. DOMAIN x = {"status", "asked", "decided", "ref", "qty", "price", "paid", "outstanding"} /\ x.status = "NONE"
    BY <1>2, <1>3, <1>4, <2>1, <2>2 DEF TableSound, NoBill
  <2>4. PICK row : row = [x EXCEPT !.status = "DRAFT", !.asked = {t.by}, !.ref = t.ref,
                                   !.qty = t.n, !.price = t.price, !.outstanding = owed]
    OBVIOUS
  <2>5. bill' = [bill EXCEPT ![t.doc] = row]
    BY <1>6, <2>2, <2>4, Zenon DEF CreateBill
  <2>6. DOMAIN row = DOMAIN x /\ row.status = "DRAFT" /\ row.outstanding = owed /\ row.decided = x.decided
    BY <2>3, <2>4
  <2>7. Fills(t, t.doc, bill[t.doc], row, BillMoves) /\ Writes(bill, bill', t.doc, row)
    BY <1>1, <1>5, <2>1, <2>2, <2>3, <2>5, <2>6 DEF Fills, Writes, Created, Creates
  <2>8. BillsGrow(t) /\ \A b \in Bills : bill'[b] = IF b = t.doc THEN row ELSE bill[b]
    <3>1. TableGrows(t, Bills, bill, bill', BillMoves)
      BY <1>2, <1>4, <2>7, RowFilled
    <3>2. bill = [b \in Bills |-> bill[b]]
      BY <1>4 DEF TableSound
    <3>3. \A b \in Bills : bill'[b] = IF b = t.doc THEN row ELSE bill[b]
      BY <1>2, <2>5, <3>2, RowWritten
    <3> QED BY <3>1, <3>3 DEF BillsGrow
  <2>9. BillAmount(row)
    <3>1. owed \in Nat
      <4>1. t.price + UnitTax \in Nat
        BY <1>2, ProcurementAssumption
      <4> QED BY <1>2, <2>2, <4>1
    <3> QED BY <2>6, <3>1 DEF BillAmount
  <2>10. BillTurned(t)
    <3>1. row.qty = t.n /\ row.price = t.price /\ row.paid = x.paid
      BY <2>3, <2>4
    <3>2. BillCreated(t, x, row)
      BY <2>2, <2>3, <2>6, <3>1 DEF BillCreated
    <3>3. bill'[t.doc] = row
      BY <1>2, <2>8
    <3>4. BillTurns(t, bill[t.doc], bill'[t.doc])
      BY <1>1, <2>1, <2>2, <3>2, <3>3 DEF BillTurns
    <3> QED BY <2>8, <3>4 DEF BillTurned
  <2> QED BY <1>1, <1>4, <2>1, <2>8, <2>9, <2>10 DEF BillsLeft, PaysOnce
<1>7. CASE SubmitBill(t)
  <2>1. /\ op = "submitBill" /\ payments' = payments
        /\ bill' = [bill EXCEPT ![t.doc].status = "PENDING_APPROVAL", ![t.doc].asked = @ \cup {t.by}]
    BY <1>1, <1>7 DEF SubmitBill, Commits, OnlyBill
  <2>2. bill[t.doc].status = "DRAFT" /\ t.op \notin Creates
    <3>1. "SUBMITTED" \in BillMoves[bill[t.doc].status] /\ bill[t.doc].status \in DOMAIN BillMoves
      BY <1>1, <1>2, <1>3, <1>4, <2>1 DEF CanBill, TableSound
    <3> QED BY <1>3, <2>1, <3>1 DEF BillMoves
  <2>3. TableGrows(t, Bills, bill, bill', BillMoves) /\ WhoOnly(Bills, bill, bill', t.doc, "PENDING_APPROVAL")
    <3>1. "PENDING_APPROVAL" \in DOMAIN BillMoves \ {"NONE", "DRAFT"}
      BY <1>5
    <3> QED BY <1>2, <1>4, <1>5, <2>1, <2>2, <3>1, RowSubmitted
  <2>4. "PENDING_APPROVAL" \notin {"PAID", "PARTIALLY_PAID"}
    OBVIOUS
  <2>5. BillsLeft(t) /\ \A b \in Bills : BillAmount(bill'[b])
    BY <1>2, <2>3, <2>4, AmountsKept
  <2>6. BillTurned(t)
    <3>1. BillAside(bill[t.doc], bill'[t.doc])
      BY <1>2, <2>2, <2>3, BillMarked DEF BillAside, OnBooks
    <3>2. \A b \in Bills : b # t.doc => bill'[b] = bill[b]
      BY <2>3 DEF WhoOnly
    <3> QED BY <1>1, <2>1, <3>1, <3>2 DEF BillTurned, BillTurns
  <2> QED BY <2>1, <2>3, <2>5, <2>6 DEF BillsGrow, PaysOnce
<1>8. CASE DecideBill(t)
  <2>1. PICK s \in {"APPROVED", "REJECTED"} :
          /\ op \in {"approveBill", "rejectBill"} /\ payments' = payments
          /\ bill' = [bill EXCEPT ![t.doc].status = s, ![t.doc].decided = {t.by}]
    BY <1>1, <1>8 DEF DecideBill, Commits, OnlyBill
  <2>2. MayDecide(t.by, bill[t.doc].asked) /\ bill[t.doc].status # "NONE" /\ t.op \notin Creates
    BY <1>1, <1>3, <2>1 DEF CanBill
  <2>3. s \in DOMAIN BillMoves \ {"NONE", "DRAFT"}
    BY <1>5
  <2>4. TableGrows(t, Bills, bill, bill', BillMoves) /\ WhoOnly(Bills, bill, bill', t.doc, s)
    BY <1>2, <1>4, <1>5, <2>1, <2>2, <2>3, RowDecided
  <2>5. BillTurned(t)
    <3>0. bill[t.doc].status = "PENDING_APPROVAL"
      BY <1>1, <1>3, <2>1 DEF CanBill
    <3>1. BillAside(bill[t.doc], bill'[t.doc])
      BY <1>2, <2>4, <3>0, BillMarked DEF BillAside, OnBooks
    <3>2. \A b \in Bills : b # t.doc => bill'[b] = bill[b]
      BY <2>4 DEF WhoOnly
    <3> QED BY <1>1, <2>1, <3>1, <3>2 DEF BillTurned, BillTurns
  <2> QED BY <1>2, <2>1, <2>4, <2>5, AmountsKept DEF BillsGrow, PaysOnce
<1>9. CASE CancelBill(t) \/ PostBill(t)
  <2>1. PICK s \in {"CANCELLED", "POSTED"} :
          /\ op = (IF s = "POSTED" THEN "postBill" ELSE "cancelBill") /\ payments' = payments
          /\ bill' = [bill EXCEPT ![t.doc].status = s]
    BY <1>1, <1>9 DEF CancelBill, PostBill, Commits, OnlyBill
  <2>2. bill[t.doc].status # "NONE" /\ t.op \notin Creates /\ s \in DOMAIN BillMoves \ {"NONE", "DRAFT"}
    BY <1>3, <1>5, <2>1
  <2>3. TableGrows(t, Bills, bill, bill', BillMoves) /\ WhoOnly(Bills, bill, bill', t.doc, s)
    BY <1>2, <1>4, <1>5, <2>1, <2>2, RowMoved
  <2>4. SameAmounts(bill[t.doc], bill'[t.doc]) /\ bill'[t.doc].status = s
    BY <1>2, <2>3, BillMarked
  <2>5. BillTurns(t, bill[t.doc], bill'[t.doc])
    <3>1. CASE s = "POSTED"
      <4>1. "POSTED" \in BillMoves[bill[t.doc].status] /\ bill[t.doc].status \in DOMAIN BillMoves
        BY <1>1, <1>2, <1>3, <1>4, <2>1, <3>1 DEF CanBill, TableSound
      <4>2. bill[t.doc].status = "APPROVED"
        BY <4>1 DEF BillMoves
      <4> QED BY <1>1, <2>1, <2>4, <3>1, <4>2 DEF BillTurns, BillPosted
    <3>2. CASE s = "CANCELLED"
      <4>1. bill[t.doc].status \in Undecided
        BY <1>1, <1>3, <2>1, <3>2 DEF CanBill
      <4> QED BY <1>1, <2>1, <2>4, <3>2, <4>1 DEF BillTurns, BillAside, OnBooks, Undecided
    <3> QED BY <3>1, <3>2
  <2>6. BillTurned(t)
    BY <2>3, <2>5 DEF WhoOnly, BillTurned
  <2> QED BY <1>2, <2>1, <2>3, <2>6, AmountsKept DEF BillsGrow, PaysOnce
<1>10. CASE PayBill(t)
  <2>1. Commits(t, "payBill")
    BY <1>10 DEF PayBill
  <2> QED BY <1>10, <2>1, BillPaid
<1> QED BY <1>6, <1>7, <1>8, <1>9, <1>10 DEF BillCommit

LEMMA BillCommits ==
  ASSUME ProcurementInv, NEW t, BillCommit(t)
  PROVE  Ends(t, "done") /\ Outcome(t)
<1>1. PICK op \in BillOps : Commits(t, op)
  BY DEF BillCommit, BillOps, CreateBill, SubmitBill, DecideBill, CancelBill, PostBill, PayBill
<1>2. t \in Requests /\ t.op = op /\ Ends(t, "done")
  BY <1>1, Ending
<1>3. t.doc \in Bills
  BY <1>2, Sound DEF RequestSound, BillOps
<1>4. t.doc # "order" /\ t.doc \notin Receipts \cup Returns \cup Notes
  BY <1>2, <1>3, RowsApart
<1>5. BillsGrow(t) /\ PaysOnce(t) /\ BillsLeft(t) /\ \A b \in Bills : BillAmount(bill'[b])
  BY <1>1, BillWritten
<1>6. UNCHANGED <<order, receipt, return, note>>
  BY DEF BillCommit, CreateBill, SubmitBill, DecideBill, CancelBill, PostBill, PayBill, OnlyBill
<1>7. AmountsSound'
  <2>1. AmountsSound
    BY DEF ProcurementInv
  <2> QED BY <1>5, <1>6, <2>1 DEF AmountsSound, BillAmount
<1> QED BY <1>2, <1>4, <1>5, <1>6, <1>7, Unwritten DEF Outcome

PaymentCommit(t) == PaySupplier(t) \/ DeleteSupplier(t)

LEMMA PaymentCommits ==
  ASSUME ProcurementInv, NEW t, PaymentCommit(t)
  PROVE  Ends(t, "done") /\ Outcome(t)
<1>1. PICK op \in {"paySupplier", "deleteSupplier"} : Commits(t, op)
  BY DEF PaymentCommit, PaySupplier, DeleteSupplier
<1>2. t \in Requests /\ t.op = op /\ Ends(t, "done")
  BY <1>1, Ending
<1>3. t.doc = "supplier"
  BY <1>2, Sound DEF RequestSound
<1>4. t.doc # "order" /\ t.doc \notin Receipts \cup Bills \cup Returns \cup Notes
  BY <1>2, <1>3, RowsApart DEF Documents
<1>5. UNCHANGED <<order, receipt, bill, return, note>>
  BY DEF PaymentCommit, PaySupplier, DeleteSupplier
<1>6. PaysOnce(t)
  <2>1. CASE PaySupplier(t)
    <3>1. Pay(t, "none") /\ t.op # "payBill"
      BY <2>1 DEF PaySupplier, Commits
    <3> QED BY <3>1, PayPays
  <2>2. CASE DeleteSupplier(t)
    BY <2>2 DEF DeleteSupplier, PaysOnce
  <2> QED BY <2>1, <2>2 DEF PaymentCommit
<1> QED BY <1>2, <1>4, <1>5, <1>6, Unwritten DEF Outcome

ReturnOps == {"createReturn", "submitReturn", "approveReturn", "rejectReturn", "cancelReturn", "shipReturn", "completeReturn"}
ReturnCommit(t) ==
  CreateReturn(t) \/ SubmitReturn(t) \/ DecideReturn(t) \/ CancelReturn(t) \/ ShipReturn(t) \/ CompleteReturn(t)

\* How a return x becomes y: nothing happens to it once its goods went back.
ReturnTurns(t, x, y) ==
  /\ x.status # "COMPLETED" /\ (y.status = "COMPLETED" <=> t.op = "completeReturn")
  /\ y.qty = IF t.op = "createReturn" THEN t.n ELSE x.qty

ReturnTurned(t) ==
  (\A v \in Returns : v # t.doc => return'[v] = return[v]) /\ ReturnTurns(t, return[t.doc], return'[t.doc])

LEMMA ReturnMarked ==
  ASSUME ProcurementInv, NEW t, NEW d \in Returns, t.doc = d, NEW s, WhoOnly(Returns, return, return', d, s),
         t.op # "createReturn", return[d].status # "COMPLETED", s = "COMPLETED" <=> t.op = "completeReturn"
  PROVE  ReturnTurned(t)
<1>1. DOMAIN return[d] = DOMAIN NoReturn
  BY DEF ProcurementInv, TablesSound, TableSound
<1>2. "qty" \in DOMAIN return[d] \ Who
  BY <1>1 DEF NoReturn, Who
<1>3. PICK x, y : x = return[d] /\ y = return'[d]
  OBVIOUS
<1>4. y.status = s /\ y.qty = x.qty
  BY <1>2, <1>3 DEF WhoOnly
<1>5. ReturnTurns(t, x, y)
  BY <1>3, <1>4 DEF ReturnTurns
<1>6. \A v \in Returns : v # d => return'[v] = return[v]
  BY DEF WhoOnly
<1> QED BY <1>3, <1>5, <1>6 DEF ReturnTurned

LEMMA ReturnWritten ==
  ASSUME ProcurementInv, NEW t, NEW op \in ReturnOps, Commits(t, op), ReturnCommit(t)
  PROVE  ReturnsGrow(t) /\ ReturnTurned(t)
<1>1. /\ t \in Requests /\ t.op = op /\ Can(t, Seen(t))
      /\ IF op \in Creates THEN ~Exists(t.doc) ELSE Exists(t.doc)
  BY Ending
<1>2. t.doc \in Returns
  BY <1>1, Sound DEF RequestSound, ReturnOps
<1>3. CanReturn(t, Seen(t)) /\ (op = "createReturn" <=> return[t.doc].status = "NONE") /\ (t.op \in Creates <=> op = "createReturn")
  BY <1>1, <1>2, CanBy, ExistsBy DEF Creates, ReturnOps
<1>4. TableSound(return, Returns, NoReturn, ReturnMoves)
  BY DEF ProcurementInv, TablesSound
<1>5. Who \subseteq DOMAIN NoReturn /\ {"DRAFT", "PENDING_APPROVAL", "APPROVED", "REJECTED", "CANCELLED", "SHIPPED", "COMPLETED"} \subseteq DOMAIN ReturnMoves
  BY DEF Who, NoReturn, ReturnMoves
<1>6. CASE CreateReturn(t)
  <2>1. op = "createReturn"
    BY <1>1, <1>6 DEF CreateReturn, Commits
  <2>2. PICK x : x = return[t.doc]
    OBVIOUS
  <2>3. DOMAIN x = {"status", "asked", "decided", "ref", "qty"} /\ x.status = "NONE"
    BY <1>2, <1>3, <1>4, <2>1, <2>2 DEF TableSound, NoReturn
  <2>4. PICK row : row = [x EXCEPT !.status = "DRAFT", !.asked = {t.by}, !.ref = t.ref, !.qty = t.n]
    OBVIOUS
  <2>5. return' = [return EXCEPT ![t.doc] = row]
    BY <1>6, <2>2, <2>4, Zenon DEF CreateReturn
  <2>6. DOMAIN row = DOMAIN x /\ row.status = "DRAFT" /\ row.decided = x.decided
    BY <2>3, <2>4
  <2>7. Fills(t, t.doc, return[t.doc], row, ReturnMoves) /\ Writes(return, return', t.doc, row)
    BY <1>1, <1>5, <2>1, <2>2, <2>3, <2>5, <2>6 DEF Fills, Writes, Created, Creates
  <2>8. TableGrows(t, Returns, return, return', ReturnMoves)
    BY <1>2, <1>4, <2>7, RowFilled
  <2>9. row.qty = t.n
    BY <2>3, <2>4
  <2>10. return = [v \in Returns |-> return[v]]
    BY <1>4 DEF TableSound
  <2>11. \A v \in Returns : return'[v] = IF v = t.doc THEN row ELSE return[v]
    BY <1>2, <2>5, <2>10, RowWritten
  <2>12. ReturnTurns(t, x, row)
    BY <1>1, <2>1, <2>3, <2>6, <2>9 DEF ReturnTurns
  <2>13. return'[t.doc] = row
    BY <1>2, <2>11
  <2> QED BY <2>2, <2>8, <2>11, <2>12, <2>13 DEF ReturnsGrow, ReturnTurned
<1>7. CASE SubmitReturn(t)
  <2>1. /\ op = "submitReturn"
        /\ return' = [return EXCEPT ![t.doc].status = "PENDING_APPROVAL", ![t.doc].asked = @ \cup {t.by}]
    BY <1>1, <1>7 DEF SubmitReturn, Commits
  <2>2. return[t.doc].status = "DRAFT" /\ t.op \notin Creates
    <3>1. "SUBMITTED" \in ReturnMoves[return[t.doc].status] /\ return[t.doc].status \in DOMAIN ReturnMoves
      BY <1>1, <1>2, <1>3, <1>4, <2>1 DEF CanReturn, TableSound
    <3> QED BY <1>3, <2>1, <3>1 DEF ReturnMoves
  <2>3. "PENDING_APPROVAL" \in DOMAIN ReturnMoves \ {"NONE", "DRAFT"}
    BY <1>5
  <2>4. TableGrows(t, Returns, return, return', ReturnMoves) /\ WhoOnly(Returns, return, return', t.doc, "PENDING_APPROVAL")
    BY <1>2, <1>4, <1>5, <2>1, <2>2, <2>3, RowSubmitted
  <2>5. ReturnTurned(t)
    BY <1>1, <1>2, <2>1, <2>2, <2>4, ReturnMarked
  <2> QED BY <2>4, <2>5 DEF ReturnsGrow
<1>8. CASE DecideReturn(t)
  <2>1. PICK s \in {"APPROVED", "REJECTED"} :
          /\ op \in {"approveReturn", "rejectReturn"}
          /\ return' = [return EXCEPT ![t.doc].status = s, ![t.doc].decided = {t.by}]
    BY <1>1, <1>8 DEF DecideReturn, Commits
  <2>2. MayDecide(t.by, return[t.doc].asked) /\ return[t.doc].status # "NONE" /\ t.op \notin Creates
    BY <1>1, <1>3, <2>1 DEF CanReturn
  <2>3. s \in DOMAIN ReturnMoves \ {"NONE", "DRAFT"}
    BY <1>5
  <2>4. TableGrows(t, Returns, return, return', ReturnMoves) /\ WhoOnly(Returns, return, return', t.doc, s)
    BY <1>2, <1>4, <1>5, <2>1, <2>2, <2>3, RowDecided
  <2>5. return[t.doc].status = "PENDING_APPROVAL"
    BY <1>1, <1>3, <2>1 DEF CanReturn
  <2>6. ReturnTurned(t)
    BY <1>1, <1>2, <2>1, <2>4, <2>5, ReturnMarked
  <2> QED BY <2>4, <2>6 DEF ReturnsGrow
<1>9. CASE CancelReturn(t) \/ ShipReturn(t) \/ CompleteReturn(t)
  <2>1. PICK s \in {"CANCELLED", "SHIPPED", "COMPLETED"} :
          /\ op = CASE s = "CANCELLED" -> "cancelReturn" [] s = "SHIPPED" -> "shipReturn" [] OTHER -> "completeReturn"
          /\ return' = [return EXCEPT ![t.doc].status = s]
    BY <1>1, <1>9 DEF CancelReturn, ShipReturn, CompleteReturn, Commits
  <2>2. return[t.doc].status # "NONE" /\ t.op \notin Creates /\ s \in DOMAIN ReturnMoves \ {"NONE", "DRAFT"}
    BY <1>3, <1>5, <2>1
  <2>3. TableGrows(t, Returns, return, return', ReturnMoves) /\ WhoOnly(Returns, return, return', t.doc, s)
    BY <1>2, <1>4, <1>5, <2>1, <2>2, RowMoved
  <2>4. return[t.doc].status # "COMPLETED"
    <3>1. return[t.doc].status \in Undecided \/ s \in ReturnMoves[return[t.doc].status]
      BY <1>1, <1>3, <2>1 DEF CanReturn
    <3> QED BY <3>1 DEF Undecided, ReturnMoves
  <2>5. ReturnTurned(t)
    BY <1>1, <1>2, <2>1, <2>3, <2>4, ReturnMarked
  <2> QED BY <2>3, <2>5 DEF ReturnsGrow
<1> QED BY <1>6, <1>7, <1>8, <1>9 DEF ReturnCommit

LEMMA ReturnCommits ==
  ASSUME ProcurementInv, NEW t, ReturnCommit(t)
  PROVE  Ends(t, "done") /\ Outcome(t)
<1>1. PICK op \in ReturnOps : Commits(t, op)
  BY DEF ReturnCommit, ReturnOps, CreateReturn, SubmitReturn, DecideReturn, CancelReturn, ShipReturn, CompleteReturn
<1>2. t \in Requests /\ t.op = op /\ Ends(t, "done")
  BY <1>1, Ending
<1>3. t.doc \in Returns
  BY <1>2, Sound DEF RequestSound, ReturnOps
<1>4. t.doc # "order" /\ t.doc \notin Receipts \cup Bills \cup Notes
  BY <1>2, <1>3, RowsApart
<1>5. ReturnsGrow(t)
  BY <1>1, ReturnWritten
<1>6. UNCHANGED <<order, receipt, bill, note, payments>>
  BY DEF ReturnCommit, CreateReturn, SubmitReturn, DecideReturn, CancelReturn, ShipReturn, CompleteReturn, OnlyReturn
<1> QED BY <1>2, <1>4, <1>5, <1>6, Unwritten DEF Outcome

NoteOps == {"createNote", "submitNote", "approveNote", "rejectNote", "cancelNote", "allocateNote", "closeNote"}
NoteCommit(t) ==
  \/ CreateNote(t) \/ SubmitNote(t) \/ ApproveNote(t) \/ RejectNote(t) \/ CancelNote(t) \/ AllocateNote(t) \/ CloseNote(t)

\* How a note x becomes y: what it is worth and for which return is settled at its creation,
\* it is issued when it is approved, and it counts for its return until it is rejected or cancelled.
NoteLive(x) == x.status \notin {"NONE", "REJECTED", "CANCELLED"}

NoteTurns(t, x, y) ==
  IF t.op = "createNote"
  THEN x.status = "NONE" /\ y.status = "DRAFT" /\ y.ref = t.ref /\ y.total = t.n /\ y.remaining = t.n
  ELSE /\ x.status # "NONE" /\ y.status \notin {"NONE", "DRAFT"} /\ y.ref = x.ref /\ y.total = x.total
       /\ y.remaining = IF t.op = "allocateNote" THEN x.remaining - t.n ELSE x.remaining
       /\ NoteLive(y) => NoteLive(x)
       /\ Issued(y) <=> Issued(x) \/ t.op = "approveNote"
       /\ t.op = "approveNote" => x.status = "PENDING_APPROVAL"

NoteTurned(t) ==
  (\A n \in Notes : n # t.doc => note'[n] = note[n]) /\ NoteTurns(t, note[t.doc], note'[t.doc])

LEMMA NoteMarked ==
  ASSUME ProcurementInv, NEW t, NEW d \in Notes, t.doc = d, NEW s, s \notin {"NONE", "DRAFT"}, WhoOnly(Notes, note, note', d, s),
         t.op \notin {"createNote", "allocateNote"}, note[d].status # "NONE",
         s \notin {"NONE", "REJECTED", "CANCELLED"} => NoteLive(note[d]),
         s \in {"ISSUED", "ALLOCATED", "CLOSED"} <=> Issued(note[d]) \/ t.op = "approveNote",
         t.op = "approveNote" => note[d].status = "PENDING_APPROVAL"
  PROVE  NoteTurned(t)
<1>1. DOMAIN note[d] = DOMAIN NoNote
  BY DEF ProcurementInv, TablesSound, TableSound
<1>2. {"ref", "total", "remaining"} \subseteq DOMAIN note[d] \ Who
  BY <1>1 DEF NoNote, Who
<1>3. PICK x, y : x = note[d] /\ y = note'[d]
  OBVIOUS
<1>4. y.status = s /\ \A k \in {"ref", "total", "remaining"} : y[k] = x[k]
  BY <1>2, <1>3 DEF WhoOnly
<1>5. NoteTurns(t, x, y)
  BY <1>3, <1>4 DEF NoteTurns, NoteLive, Issued
<1>6. \A n \in Notes : n # d => note'[n] = note[n]
  BY DEF WhoOnly
<1> QED BY <1>3, <1>5, <1>6 DEF NoteTurned

\* A note nothing was applied of keeps what is left of it.
LEMMA RemainingKept ==
  ASSUME ProcurementInv, NEW d \in Notes, NEW s, WhoOnly(Notes, note, note', d, s)
  PROVE  \A n \in Notes : note'[n].remaining \in Nat
<1>1. DOMAIN note[d] = DOMAIN NoNote /\ \A n \in Notes : note[n].remaining \in Nat
  BY DEF ProcurementInv, TablesSound, TableSound, AmountsSound
<1>2. "remaining" \in DOMAIN note[d] \ Who
  BY <1>1 DEF NoNote, Who
<1>3. note'[d].remaining = note[d].remaining
  BY <1>2 DEF WhoOnly
<1> QED BY <1>1, <1>3 DEF WhoOnly

LEMMA NoteWritten ==
  ASSUME ProcurementInv, NEW t, NEW op \in NoteOps, Commits(t, op), NoteCommit(t)
  PROVE  NotesGrow(t) /\ NoteTurned(t) /\ \A n \in Notes : note'[n].remaining \in Nat
<1>1. /\ t \in Requests /\ t.op = op /\ Can(t, Seen(t))
      /\ IF op \in Creates THEN ~Exists(t.doc) ELSE Exists(t.doc)
  BY Ending
<1>2. t.doc \in Notes /\ t.n \in Nat
  BY <1>1, Sound DEF RequestSound, Request, NoteOps
<1>3. CanNote(t, Seen(t)) /\ (op = "createNote" <=> note[t.doc].status = "NONE") /\ (t.op \in Creates <=> op = "createNote")
  BY <1>1, <1>2, CanBy, ExistsBy DEF Creates, NoteOps
<1>4. TableSound(note, Notes, NoNote, NoteMoves) /\ \A n \in Notes : note[n].remaining \in Nat
  BY DEF ProcurementInv, TablesSound, AmountsSound
<1>5. Who \subseteq DOMAIN NoNote /\ {"DRAFT", "PENDING_APPROVAL", "ISSUED", "REJECTED", "CANCELLED", "ALLOCATED", "CLOSED"} \subseteq DOMAIN NoteMoves
  BY DEF Who, NoNote, NoteMoves
<1>6. PICK x : x = note[t.doc]
  OBVIOUS
<1>7. DOMAIN x = {"status", "asked", "decided", "ref", "total", "remaining"} /\ note = [n \in Notes |-> note[n]]
  BY <1>2, <1>4, <1>6 DEF TableSound, NoNote
<1>8. ASSUME NEW row, note' = [note EXCEPT ![t.doc] = row], Fills(t, t.doc, note[t.doc], row, NoteMoves), row.remaining \in Nat,
               NoteTurns(t, x, row)
      PROVE  NotesGrow(t) /\ NoteTurned(t) /\ \A n \in Notes : note'[n].remaining \in Nat
  <2>1. TableGrows(t, Notes, note, note', NoteMoves)
    <3>1. Writes(note, note', t.doc, row)
      BY <1>8 DEF Writes
    <3> QED BY <1>2, <1>4, <1>8, <3>1, RowFilled
  <2>2. \A n \in Notes : note'[n] = IF n = t.doc THEN row ELSE note[n]
    BY <1>2, <1>7, <1>8, RowWritten
  <2>3. note'[t.doc] = row
    BY <1>2, <2>2
  <2> QED BY <1>4, <1>6, <1>8, <2>1, <2>2, <2>3 DEF NotesGrow, NoteTurned
<1>9. CASE CreateNote(t)
  <2>1. op = "createNote"
    BY <1>1, <1>9 DEF CreateNote, Commits
  <2>2. PICK row : row = [x EXCEPT !.status = "DRAFT", !.asked = {t.by}, !.ref = t.ref, !.total = t.n, !.remaining = t.n]
    OBVIOUS
  <2>3. note' = [note EXCEPT ![t.doc] = row]
    BY <1>6, <1>9, <2>2, Zenon DEF CreateNote
  <2>4. DOMAIN row = DOMAIN x /\ row.status = "DRAFT" /\ row.decided = x.decided /\ row.remaining = t.n
    BY <1>7, <2>2
  <2>5. Fills(t, t.doc, note[t.doc], row, NoteMoves)
    BY <1>1, <1>3, <1>5, <1>6, <2>1, <2>4 DEF Fills, Created, Creates
  <2>6. NoteTurns(t, x, row)
    <3>1. row.ref = t.ref /\ row.total = t.n
      BY <1>7, <2>2
    <3> QED BY <1>1, <1>3, <1>6, <2>1, <2>4, <3>1 DEF NoteTurns
  <2> QED BY <1>2, <1>8, <2>3, <2>4, <2>5, <2>6
<1>10. CASE AllocateNote(t)
  <2>1. op = "allocateNote"
    BY <1>1, <1>10 DEF AllocateNote, Commits
  <2>2. x.status # "NONE" /\ t.n <= x.remaining
    BY <1>1, <1>3, <1>6, <2>1 DEF CanNote
  <2>3. PICK row, left : row = [x EXCEPT !.remaining = left, !.status = "ALLOCATED"] /\ left = x.remaining - t.n
    OBVIOUS
  <2>4. note' = [note EXCEPT ![t.doc] = row]
    <3>1. note' = [note EXCEPT ![t.doc].remaining = left, ![t.doc].status = "ALLOCATED"]
      BY <1>6, <1>10, <2>3, Zenon DEF AllocateNote
    <3> QED BY <1>2, <1>6, <1>7, <2>3, <3>1
  <2>5. /\ DOMAIN row = DOMAIN x /\ row.status = "ALLOCATED" /\ row.decided = x.decided /\ row.asked = x.asked
        /\ row.remaining = left
    BY <1>7, <2>3
  <2>6. left \in Nat
    BY <1>2, <1>4, <1>6, <2>2, <2>3
  <2>7. Fills(t, t.doc, note[t.doc], row, NoteMoves)
    BY <1>3, <1>5, <1>6, <2>1, <2>2, <2>5 DEF Fills
  <2>8. NoteTurns(t, x, row)
    <3>1. row.ref = x.ref /\ row.total = x.total
      BY <1>7, <2>3
    <3>2. x.status \in {"ISSUED", "ALLOCATED"}
      BY <1>1, <1>3, <1>6, <2>1 DEF CanNote
    <3> QED BY <1>1, <2>1, <2>3, <2>5, <3>1, <3>2 DEF NoteTurns, NoteLive, Issued
  <2> QED BY <1>8, <2>4, <2>5, <2>6, <2>7, <2>8
<1>11. CASE SubmitNote(t)
  <2>1. /\ op = "submitNote"
        /\ note' = [note EXCEPT ![t.doc].status = "PENDING_APPROVAL", ![t.doc].asked = @ \cup {t.by}]
    BY <1>1, <1>11 DEF SubmitNote, Commits
  <2>2. note[t.doc].status = "DRAFT" /\ t.op \notin Creates
    <3>1. "SUBMITTED" \in NoteMoves[note[t.doc].status] /\ note[t.doc].status \in DOMAIN NoteMoves
      BY <1>1, <1>2, <1>3, <1>4, <2>1 DEF CanNote, TableSound
    <3> QED BY <1>3, <2>1, <3>1 DEF NoteMoves
  <2>3. "PENDING_APPROVAL" \in DOMAIN NoteMoves \ {"NONE", "DRAFT"}
    BY DEF NoteMoves
  <2>4. TableGrows(t, Notes, note, note', NoteMoves) /\ WhoOnly(Notes, note, note', t.doc, "PENDING_APPROVAL")
    BY <1>2, <1>4, <1>5, <2>1, <2>2, <2>3, RowSubmitted
  <2>5. NoteTurned(t)
    <3>1. t.op = "submitNote" /\ NoteLive(note[t.doc]) /\ ~Issued(note[t.doc])
      BY <1>1, <2>1, <2>2 DEF NoteLive, Issued
    <3>2. PICK s : s = "PENDING_APPROVAL"
      OBVIOUS
    <3>3. WhoOnly(Notes, note, note', t.doc, s)
      BY <2>4, <3>2
    <3> QED BY <1>2, <2>2, <3>1, <3>2, <3>3, NoteMarked
  <2> QED BY <1>2, <2>4, <2>5, RemainingKept DEF NotesGrow
<1>12. CASE ApproveNote(t) \/ RejectNote(t)
  <2>1. PICK s \in {"ISSUED", "REJECTED"} :
          /\ op = IF s = "ISSUED" THEN "approveNote" ELSE "rejectNote"
          /\ note' = [note EXCEPT ![t.doc].status = s, ![t.doc].decided = {t.by}]
    BY <1>1, <1>12 DEF ApproveNote, RejectNote, Commits
  <2>2. MayDecide(t.by, note[t.doc].asked) /\ note[t.doc].status # "NONE" /\ t.op \notin Creates
    BY <1>1, <1>3, <2>1 DEF CanNote
  <2>3. s \in DOMAIN NoteMoves \ {"NONE", "DRAFT"}
    BY <1>5
  <2>4. TableGrows(t, Notes, note, note', NoteMoves) /\ WhoOnly(Notes, note, note', t.doc, s)
    BY <1>2, <1>4, <1>5, <2>1, <2>2, <2>3, RowDecided
  <2>5. note[t.doc].status = "PENDING_APPROVAL"
    BY <1>1, <1>3, <2>1 DEF CanNote
  <2>6. NoteTurned(t)
    BY <1>1, <1>2, <2>1, <2>2, <2>4, <2>5, NoteMarked DEF NoteLive, Issued
  <2> QED BY <1>2, <2>4, <2>6, RemainingKept DEF NotesGrow
<1>13. CASE CancelNote(t) \/ CloseNote(t)
  <2>1. PICK s \in {"CANCELLED", "CLOSED"} :
          op = (IF s = "CLOSED" THEN "closeNote" ELSE "cancelNote") /\ note' = [note EXCEPT ![t.doc].status = s]
    BY <1>1, <1>13 DEF CancelNote, CloseNote, Commits
  <2>2. note[t.doc].status # "NONE" /\ t.op \notin Creates /\ s \in DOMAIN NoteMoves \ {"NONE", "DRAFT"}
    BY <1>3, <1>5, <2>1
  <2>3. TableGrows(t, Notes, note, note', NoteMoves) /\ WhoOnly(Notes, note, note', t.doc, s)
    BY <1>2, <1>4, <1>5, <2>1, <2>2, RowMoved
  <2>4. IF s = "CLOSED" THEN note[t.doc].status \in {"ISSUED", "ALLOCATED"} ELSE note[t.doc].status \in Undecided
    <3>1. CASE s = "CANCELLED"
      BY <1>1, <1>3, <2>1, <3>1 DEF CanNote
    <3>2. CASE s = "CLOSED"
      <4>1. "CLOSED" \in NoteMoves[note[t.doc].status] /\ note[t.doc].status \in DOMAIN NoteMoves
        BY <1>1, <1>2, <1>3, <1>4, <2>1, <3>2 DEF CanNote, TableSound
      <4> QED BY <3>2, <4>1 DEF NoteMoves
    <3> QED BY <3>1, <3>2
  <2>5. NoteTurned(t)
    BY <1>1, <1>2, <2>1, <2>2, <2>3, <2>4, NoteMarked DEF NoteLive, Issued, Undecided
  <2> QED BY <1>2, <2>3, <2>5, RemainingKept DEF NotesGrow
<1> QED BY <1>9, <1>10, <1>11, <1>12, <1>13 DEF NoteCommit

\* A note applied to a bill settles no more of it than is left.
LEMMA NoteSettles ==
  ASSUME ProcurementInv, NEW t, Commits(t, "allocateNote"), AllocateNote(t)
  PROVE  /\ BillsGrow(t) /\ BillsLeft(t) /\ \A b \in Bills : BillAmount(bill'[b])
         /\ \A b \in Bills : b # t.ref => bill'[b] = bill[b]
         /\ BillSettles(t, bill[t.ref], bill'[t.ref]) /\ bill'[t.ref].paid = bill[t.ref].paid
<1>1. t \in Requests /\ t.op = "allocateNote" /\ Can(t, Seen(t))
  BY Ending
<1>2. t.doc \in Notes /\ t.ref \in Bills /\ t.n \in Nat /\ t.op \notin Creates
  BY <1>1, Sound DEF RequestSound, Request, Creates
<1>3. bill[t.ref].status \in {"POSTED", "PARTIALLY_PAID"} /\ t.n <= bill[t.ref].outstanding
  BY <1>1, <1>2, CanBy DEF CanNote
<1>4. TableSound(bill, Bills, NoBill, BillMoves) /\ \A b \in Bills : BillAmount(bill[b])
  BY DEF ProcurementInv, TablesSound, AmountsSound
<1>5. PICK x, left, s : /\ x = bill[t.ref] /\ left = x.outstanding - t.n
                        /\ s = IF left <= 0 THEN "PAID" ELSE "PARTIALLY_PAID"
  OBVIOUS
<1>6. DOMAIN x = {"status", "asked", "decided", "ref", "qty", "price", "paid", "outstanding"}
  BY <1>2, <1>4, <1>5 DEF TableSound, NoBill
<1>7. bill = [b \in Bills |-> bill[b]]
  BY <1>4 DEF TableSound
<1>8. PICK row : row = [x EXCEPT !.outstanding = left, !.status = s]
  OBVIOUS
<1>9. bill' = [bill EXCEPT ![t.ref] = row]
  <2>1. bill' = [bill EXCEPT ![t.ref].outstanding = left, ![t.ref].status = s]
    BY <1>5 DEF AllocateNote, Settle
  <2> QED BY <1>2, <1>5, <1>6, <1>7, <1>8, <2>1
<1>10. DOMAIN row = DOMAIN x /\ row.status = s /\ row.outstanding = left /\ row.decided = x.decided /\ row.asked = x.asked
  BY <1>6, <1>8
<1>11. s \in DOMAIN BillMoves \ {"NONE", "DRAFT"}
  BY <1>5 DEF BillMoves
<1>12. Fills(t, t.ref, bill[t.ref], row, BillMoves) /\ Writes(bill, bill', t.ref, row)
  BY <1>2, <1>3, <1>5, <1>9, <1>10, <1>11 DEF Fills, Writes
<1>13. TableGrows(t, Bills, bill, bill', BillMoves)
  BY <1>2, <1>4, <1>12, RowFilled
<1>14. \A b \in Bills : bill'[b] = IF b = t.ref THEN row ELSE bill[b]
  BY <1>2, <1>7, <1>9, RowWritten
<1>15. BillAmount(row)
  <2>1. x.outstanding \in Nat /\ left \in Nat
    BY <1>2, <1>3, <1>4, <1>5 DEF BillAmount
  <2> QED BY <1>5, <1>10, <2>1 DEF BillAmount
<1>16. \A b \in Bills : BillAmount(bill'[b])
  BY <1>4, <1>14, <1>15
<1>17. BillsLeft(t)
  BY <1>1, <1>14 DEF BillsLeft
<1>18. BillSettles(t, x, row) /\ row.paid = x.paid
  <2>1. row.qty = x.qty /\ row.price = x.price /\ row.paid = x.paid
    BY <1>6, <1>8
  <2> QED BY <1>3, <1>5, <1>10, <2>1 DEF BillSettles
<1>19. bill'[t.ref] = row
  BY <1>2, <1>14
<1> QED BY <1>5, <1>13, <1>14, <1>16, <1>17, <1>18, <1>19 DEF BillsGrow

LEMMA NoteCommits ==
  ASSUME ProcurementInv, NEW t, NoteCommit(t)
  PROVE  Ends(t, "done") /\ Outcome(t)
<1>1. PICK op \in NoteOps : Commits(t, op)
  BY DEF NoteCommit, NoteOps, CreateNote, SubmitNote, ApproveNote, RejectNote, CancelNote, AllocateNote, CloseNote
<1>2. t \in Requests /\ t.op = op /\ Ends(t, "done")
  BY <1>1, Ending
<1>3. t.doc \in Notes
  BY <1>2, Sound DEF RequestSound, NoteOps
<1>4. t.doc # "order" /\ t.doc \notin Receipts \cup Bills \cup Returns
  BY <1>2, <1>3, RowsApart
<1>5. NotesGrow(t) /\ \A n \in Notes : note'[n].remaining \in Nat
  BY <1>1, NoteWritten
<1>6. UNCHANGED <<order, receipt, return, payments>>
  BY DEF NoteCommit, CreateNote, SubmitNote, ApproveNote, RejectNote, CancelNote, AllocateNote, CloseNote, OnlyNote
<1>7. \A b \in Bills : BillAmount(bill[b])
  BY DEF ProcurementInv, AmountsSound
<1>8. BillsGrow(t) /\ BillsLeft(t) /\ \A b \in Bills : BillAmount(bill'[b])
  <2>1. CASE AllocateNote(t)
    <3>1. Commits(t, "allocateNote")
      BY <2>1 DEF AllocateNote
    <3> QED BY <2>1, <3>1, NoteSettles
  <2>2. CASE ~AllocateNote(t)
    <3>1. bill' = bill
      BY <2>2 DEF NoteCommit, CreateNote, SubmitNote, ApproveNote, RejectNote, CancelNote, CloseNote, OnlyNote
    <3> QED BY <1>2, <1>4, <1>7, <3>1, Unwritten
  <2> QED BY <2>1, <2>2
<1>9. AmountsSound'
  BY <1>5, <1>8 DEF AmountsSound, BillAmount
<1> QED BY <1>2, <1>4, <1>5, <1>6, <1>8, <1>9, Unwritten DEF Outcome

-----------------------------------------------------------------------------
(* What every step keeps *)

LEMMA DocumentsKept ==
  ASSUME ProcurementInv, NEW t, Outcome(t)
  PROVE  TablesSound' /\ KeysOnce' /\ AmountsSound'
<1>1. TablesSound /\ KeysOnce
  BY DEF ProcurementInv
<1>2. DOMAIN order' = DOMAIN NoOrder /\ OrderSound(order')
  <2>1. PICK x, y : x = order /\ y = order'
    OBVIOUS
  <2>2. OrderFollows(x, y) /\ OrderSound(x) /\ DOMAIN x = DOMAIN NoOrder /\ (y.status = "NONE" => x.status = "NONE")
    BY <1>1, <2>1 DEF Outcome, OrderGrows, TablesSound
  <2>3. OrderSound(y)
    BY <2>2, OrderStaysSound
  <2> QED BY <2>1, <2>2, <2>3 DEF OrderFollows
<1>3. TableSound(receipt', Receipts, NoReceipt, ReceiptMoves)
  BY <1>1, TableKept DEF Outcome, ReceiptsGrow, TablesSound
<1>4. TableSound(bill', Bills, NoBill, BillMoves)
  BY <1>1, TableKept DEF Outcome, BillsGrow, TablesSound
<1>5. TableSound(return', Returns, NoReturn, ReturnMoves)
  BY <1>1, TableKept DEF Outcome, ReturnsGrow, TablesSound
<1>6. TableSound(note', Notes, NoNote, NoteMoves)
  BY <1>1, TableKept DEF Outcome, NotesGrow, TablesSound
<1>7. TablesSound'
  BY <1>2, <1>3, <1>4, <1>5, <1>6 DEF TablesSound
<1>8. KeysOnce'
  <2>1. CASE payments' = payments
    BY <1>1, <2>1 DEF KeysOnce
  <2>2. CASE payments' # payments
    <3>1. PICK p : payments' = payments \cup {p} /\ Known(t) = {} /\ p.key = t.key
      BY <2>2 DEF Outcome, PaysOnce
    <3>2. \A q \in payments : p.key # 0 => q.key # p.key
      BY <3>1 DEF Known
    <3> QED BY <1>1, <3>1, <3>2 DEF KeysOnce
  <2> QED BY <2>1, <2>2
<1> QED BY <1>7, <1>8 DEF Outcome

\* A document comes to be when it is created, and stays.
LEMMA ExistsOnce ==
  ASSUME NEW t, Outcome(t), NEW u \in Requests
  PROVE  Exists(u.doc)' <=> Exists(u.doc) \/ Created(t, u.doc)
<1>1. CASE u.doc = "order"
  <2>1. u.doc \notin Receipts \cup Bills \cup Returns \cup Notes
    BY <1>1, RowsApart DEF Documents
  <2>2. order'.status # "NONE" <=> order.status # "NONE" \/ Created(t, u.doc)
    BY <1>1 DEF Outcome, OrderGrows, Grows
  <2> QED BY <1>1, <2>1, <2>2 DEF Exists
<1>2. CASE u.doc \in Receipts
  <2>1. receipt'[u.doc].status # "NONE" <=> receipt[u.doc].status # "NONE" \/ Created(t, u.doc)
    BY <1>2 DEF Outcome, ReceiptsGrow, TableGrows, Grows
  <2> QED BY <1>2, <2>1, RowsApart DEF Exists
<1>3. CASE u.doc \in Bills
  <2>1. bill'[u.doc].status # "NONE" <=> bill[u.doc].status # "NONE" \/ Created(t, u.doc)
    BY <1>3 DEF Outcome, BillsGrow, TableGrows, Grows
  <2> QED BY <1>3, <2>1, RowsApart DEF Exists
<1>4. CASE u.doc \in Returns
  <2>1. return'[u.doc].status # "NONE" <=> return[u.doc].status # "NONE" \/ Created(t, u.doc)
    BY <1>4 DEF Outcome, ReturnsGrow, TableGrows, Grows
  <2> QED BY <1>4, <2>1, RowsApart DEF Exists
<1>5. CASE u.doc \in Notes
  <2>1. note'[u.doc].status # "NONE" <=> note[u.doc].status # "NONE" \/ Created(t, u.doc)
    BY <1>5 DEF Outcome, NotesGrow, TableGrows, Grows
  <2> QED BY <1>5, <2>1, RowsApart DEF Exists
<1>6. CASE u.doc = "supplier"
  <2>1. u.doc \notin Receipts \cup Bills \cup Returns \cup Notes /\ u.doc # "order"
    BY <1>6, RowsApart DEF Documents
  <2>2. Exists(u.doc)
    BY <2>1 DEF Exists
  <2>3. Exists(u.doc)'
    BY <2>1 DEF Exists
  <2> QED BY <2>2, <2>3
<1>7. u.doc \in Documents \cup {"order", "supplier"}
  BY Sound DEF Request
<1> QED BY <1>1, <1>2, <1>3, <1>4, <1>5, <1>6, <1>7 DEF Documents

\* What the others know stays so when t commits.
LEMMA OthersKnow ==
  ASSUME ProcurementInv, NEW t, Ends(t, "done"), Outcome(t), NEW u \in asks, u # t
  PROVE  Informed(u)'
<1>1. /\ t \in asks /\ asks' = asks /\ Open(t) /\ ~Open(t)' /\ tx[t].at > Len(Plan(t)) /\ tx[t].at \in Nat
      /\ \A v \in asks : v # t => tx'[v] = tx[v] /\ (Open(v)' <=> Open(v)) /\ Seen(v)' = Seen(v)
      /\ \A v \in asks, r \in Rows : v # t /\ lock[r] = v => lock'[r] = v
  BY EndsMove, TxFields DEF ProcurementInv, Ends, AtEnd
<1>2. Informed(u) /\ Informed(t) /\ u \in Requests /\ t \in Requests
  BY <1>1 DEF ProcurementInv, RequestsShaped
<1>3. Exists(u.doc)' <=> Exists(u.doc) \/ Created(t, u.doc)
  BY <1>2, ExistsOnce
<1>4. Rooted(u)'
  <2>1. CASE u.op \in Creates /\ Open(u)
    <3>1. ~Exists(u.doc) /\ \A v \in asks : v # u /\ v.op \in Creates /\ Open(v) => v.doc # u.doc
      BY <1>2, <2>1 DEF Informed, Rooted
    <3>2. ~Created(t, u.doc)
      BY <1>1, <3>1 DEF Created
    <3>3. \A v \in asks : Open(v)' => Open(v)
      BY <1>1
    <3> QED BY <1>1, <1>3, <2>1, <3>1, <3>2, <3>3 DEF Rooted
  <2>2. CASE u.op \notin Creates /\ Open(u)
    <3>1. Exists(u.doc)'
      BY <1>2, <1>3, <2>2 DEF Informed, Rooted
    <3> QED BY <2>2, <3>1 DEF Rooted
  <2>3. CASE ~Open(u)
    BY <1>1, <2>3 DEF Rooted
  <2> QED BY <2>1, <2>2, <2>3
<1>5. ApproveKnows(u)'
  <2>1. order.status \notin {"NONE", "DRAFT"} => order'.status \notin {"NONE", "DRAFT"} /\ order'.asked = order.asked
    BY DEF Outcome, OrderGrows, OrderFollows
  <2> QED BY <1>1, <1>2, <2>1 DEF Informed, ApproveKnows
<1>6. PayKnows(u)'
  <2> SUFFICES ASSUME u.op = "payBill", Open(u), tx[u].at >= 2
               PROVE  /\ lock'[u.doc] = u
                      /\ tx[u].at >= 3 => /\ Seen(u).n = bill'[u.doc].outstanding
                                          /\ Seen(u).ok /\ u.key # 0 => \A p \in payments' : p.key = u.key => p.bill # u.doc
    BY <1>1 DEF PayKnows
  <2>1. /\ lock[u.doc] = u
        /\ tx[u].at >= 3 => /\ Seen(u).n = bill[u.doc].outstanding
                            /\ Seen(u).ok /\ u.key # 0 => \A p \in payments : p.key = u.key => p.bill # u.doc
    BY <1>2 DEF Informed, PayKnows
  <2>2. u.doc \in Bills /\ u.doc \in Rows /\ u.op \notin Creates
    BY <1>2, Sound DEF RequestSound, Rows, Documents, Creates
  <2>3. lock'[u.doc] = u
    BY <1>1, <2>1, <2>2
  <2>4. t.op = "payBill" => t.doc # u.doc
    <3>1. t.op = "payBill" => tx[t].at >= 2
      BY <1>1 DEF Plan, PayBillPlan
    <3> QED BY <1>1, <1>2, <2>1, <3>1 DEF Informed, PayKnows
  <2>5. t.op = "allocateNote" => t.ref # u.doc
    <3>1. t.op = "allocateNote" => tx[t].at >= 2
      BY <1>1 DEF Plan
    <3> QED BY <1>1, <1>2, <2>1, <3>1 DEF Informed, AllocateHolds
  <2>6. t.op = "createBill" => t.doc # u.doc
    BY <1>1, <1>2, <2>2 DEF Informed, Rooted, Creates
  <2>7. bill'[u.doc].outstanding = bill[u.doc].outstanding
    BY <2>2, <2>4, <2>5, <2>6 DEF Outcome, BillsLeft
  <2>8. \A p \in payments' : p \in payments \/ p.bill # u.doc
    <3>1. "none" # u.doc
      BY <1>2, <2>2, Sound DEF IdsApart, Documents
    <3> QED BY <2>4, <3>1 DEF Outcome, PaysOnce
  <2> QED BY <2>1, <2>3, <2>7, <2>8
<1>7. AllocateHolds(u)'
  <2>1. u.op = "allocateNote" => u.ref \in Rows
    BY <1>2, Sound DEF RequestSound, Rows, Documents
  <2> QED BY <1>1, <1>2, <2>1 DEF Informed, AllocateHolds
<1> QED BY <1>4, <1>5, <1>6, <1>7 DEF Informed

LEMMA CommitKeeps ==
  ASSUME ProcurementInv, NEW t, Ends(t, "done"), Outcome(t)
  PROVE  ProcurementInv'
<1>1. TablesSound' /\ KeysOnce' /\ AmountsSound'
  BY DocumentsKept
<1>2. t \in asks /\ RequestsShaped' /\ asks' = asks /\ ~Open(t)'
  BY EndsMove DEF ProcurementInv
<1>3. Informed(t)'
  BY <1>2 DEF Informed, Rooted, ApproveKnows, PayKnows, AllocateHolds
<1>4. \A u \in asks' : Informed(u)'
  BY <1>2, <1>3, OthersKnow
<1> QED BY <1>1, <1>2, <1>4 DEF ProcurementInv

\* A step of t that writes no document.
LEMMA QuietKeeps ==
  ASSUME ProcurementInv, NEW t \in asks, UNCHANGED <<docs, asks>>, RequestsShaped', Informed(t)',
         t.op \in Creates /\ Open(t)' => Open(t) \/ ~Creating(t.doc),
         \A u \in asks : u # t => tx'[u] = tx[u] /\ (Open(u)' <=> Open(u)) /\ Seen(u)' = Seen(u),
         \A u \in asks, r \in Rows : u # t /\ lock[r] = u => lock'[r] = u
  PROVE  ProcurementInv'
<1>1. UNCHANGED <<order, receipt, bill, return, note, payments>> /\ asks' = asks
  BY DEF docs
<1>2. TablesSound' /\ AmountsSound' /\ KeysOnce'
  BY <1>1 DEF ProcurementInv, TablesSound, AmountsSound, BillAmount, KeysOnce
<1>3. ASSUME NEW u \in asks, u # t PROVE Informed(u)'
  <2>1. Informed(u) /\ u \in Requests
    BY <1>3 DEF ProcurementInv, RequestsShaped
  <2>2. Exists(u.doc)' <=> Exists(u.doc)
    BY <1>1 DEF Exists
  <2>3. Rooted(u)'
    <3>1. CASE u.op \in Creates /\ Open(u)
      <4>1. ~Exists(u.doc) /\ \A v \in asks : v # u /\ v.op \in Creates /\ Open(v) => v.doc # u.doc
        BY <2>1, <3>1 DEF Informed, Rooted
      <4>2. t.op \in Creates /\ Open(t)' => t.doc # u.doc
        BY <1>3, <3>1, <4>1 DEF Creating
      <4>3. \A v \in asks : v # u /\ v.op \in Creates /\ Open(v)' => v.doc # u.doc
        BY <4>1, <4>2
      <4> QED BY <1>1, <1>3, <2>2, <3>1, <4>1, <4>3 DEF Rooted
    <3>2. CASE u.op \notin Creates /\ Open(u)
      <4>1. Exists(u.doc)'
        BY <2>1, <2>2, <3>2 DEF Informed, Rooted
      <4> QED BY <3>2, <4>1 DEF Rooted
    <3>3. CASE ~Open(u)
      BY <1>3, <3>3 DEF Rooted
    <3> QED BY <3>1, <3>2, <3>3
  <2>4. ApproveKnows(u)'
    BY <1>1, <1>3, <2>1 DEF Informed, ApproveKnows
  <2>5. PayKnows(u)'
    <3>1. u.op = "payBill" => u.doc \in Rows
      BY <2>1, Sound DEF RequestSound, Rows, Documents
    <3>2. PayKnows(u)
      BY <2>1 DEF Informed
    <3>3. SUFFICES ASSUME u.op = "payBill", Open(u), tx[u].at >= 2
                   PROVE  /\ lock'[u.doc] = u
                          /\ tx[u].at >= 3 => /\ Seen(u).n = bill[u.doc].outstanding
                                              /\ Seen(u).ok /\ u.key # 0 => \A p \in payments : p.key = u.key => p.bill # u.doc
      BY <1>1, <1>3 DEF PayKnows
    <3> QED BY <1>3, <3>1, <3>2, <3>3 DEF PayKnows
  <2>6. AllocateHolds(u)'
    <3>1. u.op = "allocateNote" => u.ref \in Rows
      BY <2>1, Sound DEF RequestSound, Rows, Documents
    <3> QED BY <1>3, <2>1, <3>1 DEF Informed, AllocateHolds
  <2> QED BY <2>3, <2>4, <2>5, <2>6 DEF Informed
<1>4. \A u \in asks' : Informed(u)'
  BY <1>1, <1>3
<1> QED BY <1>2, <1>4 DEF ProcurementInv

LEMMA SendKeeps ==
  ASSUME ProcurementInv, NEW t, Send(t)
  PROVE  ProcurementInv'
<1>1. /\ t \in asks /\ RequestsShaped' /\ UNCHANGED <<docs, asks, lock>> /\ (Open(t)' => tx'[t].at = 1) /\ ~Open(t) /\ Ripe(t)
      /\ \A u \in asks : u # t => tx'[u] = tx[u] /\ (Open(u)' <=> Open(u)) /\ Seen(u)' = Seen(u)
  BY SendMoves DEF ProcurementInv
<1>2. UNCHANGED <<order, receipt, bill, return, note, payments>>
  BY <1>1 DEF docs
<1>3. Exists(t.doc)' <=> Exists(t.doc)
  BY <1>2 DEF Exists
<1>4. IF t.op \in Creates THEN ~Exists(t.doc) /\ ~Creating(t.doc) ELSE Exists(t.doc)
  BY <1>1 DEF Ripe
<1>5. Rooted(t)'
  <2>1. CASE t.op \in Creates
    <3>1. \A v \in asks : v # t /\ v.op \in Creates /\ Open(v)' => v.doc # t.doc
      BY <1>1, <1>4, <2>1 DEF Creating
    <3> QED BY <1>1, <1>3, <1>4, <2>1, <3>1 DEF Rooted
  <2>2. CASE t.op \notin Creates
    BY <1>3, <1>4, <2>2 DEF Rooted
  <2> QED BY <2>1, <2>2
<1>6. Informed(t)'
  BY <1>1, <1>5 DEF Informed, ApproveKnows, PayKnows, AllocateHolds
<1> QED BY <1>1, <1>4, <1>6, QuietKeeps

LEMMA AdvanceKeeps ==
  ASSUME ProcurementInv, NEW t, Advance(t)
  PROVE  ProcurementInv'
<1>1. /\ t \in asks /\ RequestsShaped' /\ UNCHANGED <<docs, asks>> /\ Open(t) /\ Open(t)'
      /\ tx[t].at \in 1 .. Len(Plan(t)) /\ tx'[t].at = tx[t].at + 1
      /\ \A u \in asks : u # t => tx'[u] = tx[u] /\ (Open(u)' <=> Open(u)) /\ Seen(u)' = Seen(u)
      /\ \A u \in asks, r \in Rows : lock[r] = u => lock'[r] = u
  BY AdvanceMoves DEF ProcurementInv
<1>2. \/ Plan(t)[tx[t].at] = "read" /\ Seen(t)' = Look(t)
      \/ /\ Plan(t)[tx[t].at] # "read" /\ Seen(t)' = Seen(t)
         /\ Plan(t)[tx[t].at] \in Rows => lock'[Plan(t)[tx[t].at]] = t
  BY AdvanceMoves DEF ProcurementInv
<1>3. UNCHANGED <<order, receipt, bill, return, note, payments>>
  BY <1>1 DEF docs
<1>4. Informed(t) /\ t \in Requests /\ RequestSound(t) /\ tx[t].at \in Nat
  BY <1>1, Sound DEF ProcurementInv, RequestsShaped, TxRow
<1>5. Rooted(t)'
  <2>1. Exists(t.doc)' <=> Exists(t.doc)
    BY <1>3 DEF Exists
  <2>2. CASE t.op \in Creates
    <3>1. ~Exists(t.doc) /\ \A v \in asks : v # t /\ v.op \in Creates /\ Open(v) => v.doc # t.doc
      BY <1>1, <1>4, <2>2 DEF Informed, Rooted
    <3>2. \A v \in asks : v # t /\ v.op \in Creates /\ Open(v)' => v.doc # t.doc
      BY <1>1, <3>1
    <3> QED BY <1>1, <2>1, <2>2, <3>1, <3>2 DEF Rooted
  <2>3. CASE t.op \notin Creates
    BY <1>1, <1>4, <2>1, <2>3 DEF Informed, Rooted
  <2> QED BY <2>2, <2>3
<1>6. ApproveKnows(t)'
  <2> SUFFICES ASSUME t.op = "approveOrder", tx'[t].at >= 2, Seen(t)'.ok
               PROVE  order.status \notin {"NONE", "DRAFT"} /\ t.by \notin order.asked
    BY <1>3 DEF ApproveKnows
  <2>1. Plan(t) = <<"read", "order">>
    BY DEF Plan
  <2>2. CASE tx[t].at = 1
    <3>1. Seen(t)' = Look(t)
      BY <1>2, <2>1, <2>2
    <3>2. PICK fits : fits = (order.status = "SUBMITTED" /\ MayDecide(t.by, order.asked))
      OBVIOUS
    <3>3. Look(t) = [n |-> 0, ok |-> fits]
      BY <3>2 DEF Look
    <3>4. order.status = "SUBMITTED" /\ MayDecide(t.by, order.asked)
      <4>1. Look(t).ok = fits
        BY <3>3
      <4> QED BY <3>1, <3>2, <4>1, Zenon
    <3> QED BY <3>4 DEF MayDecide
  <2>3. CASE tx[t].at = 2
    <3>1. Seen(t)' = Seen(t)
      BY <1>2, <2>1, <2>3
    <3> QED BY <1>1, <1>4, <2>3, <3>1 DEF Informed, ApproveKnows
  <2> QED BY <1>1, <2>1, <2>2, <2>3
<1>7. PayKnows(t)'
  <2> SUFFICES ASSUME t.op = "payBill"
               PROVE  /\ lock'[t.doc] = t
                      /\ tx'[t].at >= 3 => /\ Seen(t)'.n = bill[t.doc].outstanding
                                           /\ Seen(t)'.ok /\ t.key # 0 => \A p \in payments : p.key = t.key => p.bill # t.doc
    BY <1>3 DEF PayKnows
  <2>1. Plan(t) = <<t.doc, "read", "supplier">>
    BY DEF Plan, PayBillPlan
  <2>2. t.doc \in Rows /\ t.doc # "read"
    BY <1>4, Sound DEF RequestSound, Rows, Documents, IdsApart
  <2>3. CASE tx[t].at = 1
    BY <1>1, <1>2, <2>1, <2>2, <2>3
  <2>4. CASE tx[t].at = 2
    <3>1. Seen(t)' = Look(t) /\ lock'[t.doc] = t
      BY <1>1, <1>2, <1>4, <2>1, <2>2, <2>4 DEF Informed, PayKnows
    <3>2. PICK new : new = (t.key = 0 \/ \A p \in payments : p.key # t.key)
      OBVIOUS
    <3>3. Look(t) = [n |-> bill[t.doc].outstanding, ok |-> new]
      BY <3>2 DEF Look
    <3>4. Look(t).n = bill[t.doc].outstanding /\ Look(t).ok = new
      BY <3>3
    <3> QED BY <3>1, <3>2, <3>4, Zenon
  <2>5. CASE tx[t].at = 3
    <3>1. Seen(t)' = Seen(t) /\ lock'[t.doc] = t
      BY <1>1, <1>2, <1>4, <2>1, <2>2, <2>5 DEF Informed, PayKnows
    <3> QED BY <1>1, <1>4, <2>5, <3>1 DEF Informed, PayKnows
  <2> QED BY <1>1, <2>1, <2>3, <2>4, <2>5
<1>8. AllocateHolds(t)'
  <2> SUFFICES ASSUME t.op = "allocateNote"
               PROVE  lock'[t.ref] = t
    BY DEF AllocateHolds
  <2>1. Plan(t) = <<t.ref, t.doc>> /\ t.ref \in Rows /\ t.ref # "read"
    BY <1>4, Sound DEF Plan, RequestSound, Rows, Documents, IdsApart
  <2>2. CASE tx[t].at = 1
    BY <1>2, <2>1, <2>2
  <2>3. CASE tx[t].at = 2
    BY <1>1, <1>4, <2>1, <2>3 DEF Informed, AllocateHolds
  <2> QED BY <1>1, <2>1, <2>2, <2>3
<1>9. Informed(t)'
  BY <1>5, <1>6, <1>7, <1>8 DEF Informed
<1> QED BY <1>1, <1>9, QuietKeeps

LEMMA RefuseKeeps ==
  ASSUME ProcurementInv, NEW t, Refuse(t)
  PROVE  ProcurementInv'
<1>1. Ends(t, "refused") /\ UNCHANGED docs
  BY DEF Refuse, Ends, AtEnd
<1>2. /\ t \in asks /\ RequestsShaped' /\ asks' = asks /\ ~Open(t)'
      /\ \A u \in asks : u # t => tx'[u] = tx[u] /\ (Open(u)' <=> Open(u)) /\ Seen(u)' = Seen(u)
      /\ \A u \in asks, r \in Rows : u # t /\ lock[r] = u => lock'[r] = u
  BY <1>1, EndsMove DEF ProcurementInv
<1>3. Informed(t)'
  BY <1>2 DEF Informed, Rooted, ApproveKnows, PayKnows, AllocateHolds
<1> QED BY <1>1, <1>2, <1>3, QuietKeeps

-----------------------------------------------------------------------------
(* The invariant, and what follows from it *)

LEMMA StartsSound ==
  ASSUME Init
  PROVE  ProcurementInv
<1>1. PICK d \in Desk :
        /\ order = d.shop.order /\ receipt = d.shop.receipt /\ bill = d.shop.bill /\ return = d.shop.return
        /\ note = [n \in Notes |-> NoNote] /\ payments = {} /\ asks = d.asks
        /\ tx = [t \in d.asks |-> [at |-> 0, end |-> "no", seen |-> [n |-> 0, ok |-> FALSE]]]
        /\ lock = [r \in Rows |-> Free]
  BY DEF Init
<1>2. ShopSound(d.shop) /\ asks \subseteq Requests
  BY <1>1, DesksAssumption DEF Requests
<1>3. PICK blank : blank = [at |-> 0, end |-> "no", seen |-> [n |-> 0, ok |-> FALSE]]
  OBVIOUS
<1>4. tx = [t \in asks |-> blank] /\ TxRow(blank) /\ blank.at = 0
  <2>1. tx = [t \in asks |-> blank]
    BY <1>1, <1>3
  <2>2. PICK s : s = [n |-> 0, ok |-> FALSE]
    OBVIOUS
  <2>3. blank = [at |-> 0, end |-> "no", seen |-> s]
    BY <1>3, <2>2
  <2>4. TxRow(blank) /\ blank.at = 0
    BY <2>3 DEF TxRow
  <2> QED BY <2>1, <2>4
<1>5. RequestsShaped
  BY <1>1, <1>2, <1>4 DEF RequestsShaped
<1>6. TableSound(note, Notes, NoNote, NoteMoves) /\ \A n \in Notes : note[n].remaining \in Nat
  BY <1>1 DEF TableSound, RowSound, NoNote, NoteMoves
<1>7. TablesSound
  BY <1>1, <1>2, <1>6 DEF TablesSound, ShopSound
<1>8. AmountsSound
  BY <1>1, <1>2, <1>6 DEF AmountsSound, BillAmount, ShopSound
<1>9. KeysOnce
  BY <1>1 DEF KeysOnce
<1>10. ASSUME NEW t \in asks PROVE Informed(t)
  <2>1. ~Open(t)
    BY <1>4, <1>10 DEF Open
  <2> QED BY <2>1 DEF Informed, Rooted, ApproveKnows, PayKnows, AllocateHolds
<1> QED BY <1>5, <1>7, <1>8, <1>9, <1>10 DEF ProcurementInv

LEMMA StepKinds ==
  ASSUME ProcurementInv, NEW t, Handle(t)
  PROVE  Send(t) \/ Advance(t) \/ Refuse(t) \/ (Ends(t, "done") /\ Outcome(t))
<1>1. \/ Send(t) \/ Advance(t) \/ Refuse(t)
      \/ OrderCommit(t) \/ ReceiptCommit(t) \/ BillCommit(t) \/ PaymentCommit(t) \/ ReturnCommit(t) \/ NoteCommit(t)
  BY DEF Handle, OrderCommit, ReceiptCommit, BillCommit, PaymentCommit, ReturnCommit, NoteCommit
<1> QED BY <1>1, OrderCommits, ReceiptCommits, BillCommits, PaymentCommits, ReturnCommits, NoteCommits

LEMMA StepsKeep ==
  ASSUME ProcurementInv, [Next]_vars
  PROVE  ProcurementInv'
<1>1. CASE UNCHANGED vars
  <2>1. UNCHANGED <<order, receipt, bill, return, note, payments, asks, tx, lock>>
    BY <1>1 DEF vars, docs
  <2> QED BY <2>1 DEF ProcurementInv, RequestsShaped, TxRow, TablesSound, AmountsSound, BillAmount, KeysOnce,
                      Informed, Rooted, ApproveKnows, PayKnows, AllocateHolds, Exists, Open, Seen
<1>2. ASSUME NEW t \in Requests, Handle(t) PROVE ProcurementInv'
  BY <1>2, StepKinds, SendKeeps, AdvanceKeeps, RefuseKeeps, CommitKeeps
<1> QED BY <1>1, <1>2 DEF Next

\* The rows are sound, no bill is settled beyond its total, a key pays once and a
\* request that holds a row still knows what it read of it, whatever the others do.
THEOREM ProcurementStaysSound == Spec => []ProcurementInv
<1>1. Init => ProcurementInv
  BY StartsSound
<1>2. ProcurementInv /\ [Next]_vars => ProcurementInv'
  BY StepsKeep
<1> QED BY <1>1, <1>2, PTL DEF Spec

\* Nobody approves an order, and nobody approves or rejects a receipt, bill, return or
\* note, that he created, edited or submitted, whoever edits it between the approver's
\* look at it and the approval (PurchaseApprovalService, processApproval: the check
\* reads before the row is locked). Rejecting an order is left to whoever raised it:
\* the code asks who decides on APPROVE alone.
THEOREM DutiesStaySeparated == Spec => []DutiesSeparated
<1>1. ProcurementInv => DutiesSeparated
  BY DEF ProcurementInv, TablesSound, TableSound, RowSound, OrderSound, DutiesSeparated
<1> QED BY <1>1, ProcurementStaysSound, PTL

\* However many payments and credit notes meet at a bill, none of them settles more
\* of it than is left, and no note gives out more than it is worth
\* (SupplierPayablesService.payVendorBill, SupplierCreditAllocationService).
THEOREM BillsNeverOverpaid == Spec => []NeverOverpaid
<1>1. ProcurementInv => NeverOverpaid
  <2> SUFFICES ASSUME ProcurementInv PROVE NeverOverpaid
    OBVIOUS
  <2>1. (\A b \in Bills : BillAmount(bill[b])) /\ \A n \in Notes : note[n].remaining \in Nat
    BY DEF ProcurementInv, AmountsSound
  <2> QED BY <2>1 DEF NeverOverpaid, BillAmount
<1> QED BY <1>1, ProcurementStaysSound, PTL

\* What t was sent for, and what its key already stands for.
PaidFor(t) == IF t.op = "payBill" THEN t.doc ELSE "none"

\* A payment whose key already paid the same is not refused.
LEMMA TwinsLetThrough ==
  ASSUME ProcurementInv, NEW t, AtEnd(t), t.key # 0, ~supplier.deleted,
         NEW p \in payments, p.key = t.key, p.amount = t.n, p.bill = PaidFor(t)
  PROVE  Can(t, Seen(t))
<1>1. t \in asks /\ Open(t) /\ tx[t].at > Len(Plan(t)) /\ tx[t].at \in Nat /\ Informed(t) /\ t \in Requests /\ RequestSound(t)
  BY TxFields, Sound DEF ProcurementInv, AtEnd
<1>2. p \in Known(t) /\ \A q \in Known(t) : q = p
  BY DEF Known, ProcurementInv, KeysOnce
<1>3. CASE t.op = "payBill"
  <2>1. t.doc \in Bills /\ p.bill = t.doc
    BY <1>1, <1>3 DEF RequestSound, PaidFor
  <2>2. tx[t].at >= 3
    BY <1>1, <1>3 DEF Plan, PayBillPlan
  <2>3. ~Seen(t).ok
    BY <1>1, <1>3, <2>1, <2>2 DEF Informed, PayKnows
  <2>4. CanBill(t, Seen(t))
    BY <1>2, <1>3, <2>1, <2>3 DEF CanBill
  <2> QED BY <1>1, <2>1, <2>4, CanBy
<1>4. CASE t.op = "paySupplier"
  <2>1. t.doc = "supplier" /\ p.bill = "none"
    BY <1>1, <1>4 DEF RequestSound, PaidFor
  <2>2. \A q \in Known(t) : SamePayment(t, q)
    BY <1>2, <1>4, <2>1 DEF SamePayment
  <2>3. CanPay(t, Seen(t))
    BY <1>2, <1>4, <2>2 DEF CanPay
  <2> QED BY <1>1, <2>1, <2>3, CanBy
<1>5. t.op \in {"payBill", "paySupplier"}
  BY <1>1 DEF RequestSound
<1> QED BY <1>3, <1>4, <1>5

LEMMA TwinsAnsweredAlike ==
  ASSUME ProcurementInv, [Next]_vars, NEW t \in asks, t.key # 0, ~supplier.deleted, tx[t].end = "no",
         NEW p \in payments, p.key = t.key, p.amount = t.n, p.bill = PaidFor(t)
  PROVE  tx'[t].end # "refused"
<1>1. CASE UNCHANGED vars
  BY <1>1 DEF vars
<1>2. ASSUME NEW u \in Requests, Handle(u) PROVE tx'[t].end # "refused"
  <2>1. CASE Send(u)
    BY <2>1, SendMoves DEF ProcurementInv
  <2>2. CASE Advance(u)
    BY <2>2, AdvanceMoves DEF ProcurementInv
  <2>3. CASE Refuse(u)
    <3>1. u # t
      <4>1. AtEnd(u) /\ ~Can(u, Seen(u))
        BY <2>3 DEF Refuse
      <4> QED BY <4>1, TwinsLetThrough
    <3>2. Ends(u, "refused")
      BY <2>3 DEF Refuse, Ends, AtEnd
    <3> QED BY <3>1, <3>2, EndsMove DEF ProcurementInv
  <2>4. CASE Ends(u, "done")
    BY <2>4, EndsMove DEF ProcurementInv
  <2> QED BY <1>2, <2>1, <2>2, <2>3, <2>4, StepKinds
<1> QED BY <1>1, <1>2 DEF Next

LEMMA KeyPaysOnce ==
  ASSUME NEW S, \A p, q \in S : p.key = q.key /\ p.key # 0 => p = q, NEW k, k # 0
  PROVE  Cardinality({p \in S : p.key = k}) <= 1
<1>1. CASE {p \in S : p.key = k} = {}
  <2>1. Cardinality({p \in S : p.key = k}) = 0
    BY <1>1, FS_EmptySet
  <2> QED BY <2>1
<1>2. CASE {p \in S : p.key = k} # {}
  <2>1. PICK q \in S : q.key = k
    BY <1>2
  <2>2. {p \in S : p.key = k} = {q}
    BY <2>1
  <2>3. Cardinality({p \in S : p.key = k}) = 1
    BY <2>2, FS_Singleton
  <2> QED BY <2>3
<1> QED BY <1>1, <1>2

LEMMA OrderFrozen ==
  ASSUME ProcurementInv, [Next]_vars, order.status \notin {"NONE", "DRAFT"}
  PROVE  order'.qty = order.qty
<1>1. CASE UNCHANGED vars
  BY <1>1 DEF vars, docs
<1>2. ASSUME NEW t \in Requests, Handle(t) PROVE order'.qty = order.qty
  <2>1. CASE Send(t) \/ Advance(t) \/ Refuse(t)
    BY <2>1 DEF Send, Advance, Refuse, docs
  <2>2. CASE Outcome(t)
    BY <2>2 DEF Outcome, OrderGrows
  <2> QED BY <1>2, <2>1, <2>2, StepKinds
<1> QED BY <1>1, <1>2 DEF Next

\* A payment sent twice with one key is paid once and its twin is never told that it
\* failed, however the two interleave with each other and with everybody else; and
\* the quantity that was submitted is the quantity approved and received
\* (SupplierPayablesService.pay and payVendorBill, PurchaseDraftService).
THEOREM RequestsStaySound == Spec => RequestsSound
<1>1. ProcurementInv /\ ProcurementInv' /\ [Next]_vars =>
        \A t \in asks : t.key # 0 =>
          LET to == IF t.op = "payBill" THEN t.doc ELSE "none"
              found == {p \in payments : p.key = t.key}
          IN /\ Cardinality({p \in payments' : p.key = t.key}) <= 1
             /\ (\E p \in found : p.amount = t.n /\ p.bill = to) /\ ~supplier.deleted /\ tx[t].end = "no"
                  => tx'[t].end # "refused"
  <2> SUFFICES ASSUME ProcurementInv, ProcurementInv', [Next]_vars, NEW t \in asks, t.key # 0
               PROVE  /\ Cardinality({p \in payments' : p.key = t.key}) <= 1
                      /\ (\E p \in payments : p.key = t.key /\ p.amount = t.n /\ p.bill = PaidFor(t))
                           /\ ~supplier.deleted /\ tx[t].end = "no" => tx'[t].end # "refused"
    BY DEF PaidFor
  <2>1. Cardinality({p \in payments' : p.key = t.key}) <= 1
    <3>1. \A p, q \in payments' : p.key = q.key /\ p.key # 0 => p = q
      BY DEF ProcurementInv, KeysOnce
    <3> QED BY <3>1, KeyPaysOnce
  <2> QED BY <2>1, TwinsAnsweredAlike
<1>2. ProcurementInv /\ [Next]_vars => (order.status \notin {"NONE", "DRAFT"} => order'.qty = order.qty)
  BY OrderFrozen
<1> QED BY <1>1, <1>2, ProcurementStaysSound, PTL DEF Spec, RequestsSound, TwinsReplay, SubmittedOrderFrozen

-----------------------------------------------------------------------------
(* What a row counts for, and how the writing of one row moves the sums *)

LEMMA ReceiptNumber == ASSUME NEW x, ReceiptCounts(x) PROVE TakenIn(x) \in Nat
BY DEF ReceiptCounts, TakenIn

LEMMA BillNumber ==
  ASSUME NEW x, BillCounts(x)
  PROVE  BillTotal(x) \in Nat /\ x.qty * Cost \in Nat /\ PostedFor(x) \in Int
<1>1. x.price + UnitTax \in Nat /\ x.qty \in Nat /\ Cost \in Nat
  BY ProcurementAssumption DEF BillCounts
<1>2. BillTotal(x) \in Nat /\ x.qty * Cost \in Nat
  BY <1>1 DEF BillTotal
<1> QED BY <1>2 DEF PostedFor

LEMMA ReturnNumber ==
  ASSUME NEW x, x.qty \in Nat
  PROVE  SentBack(x) \in Nat /\ ReturnTotal(x) \in Nat /\ x.qty * Cost \in Nat
<1>1. Cost + UnitTax \in Nat /\ Cost \in Nat
  BY ProcurementAssumption
<1> QED BY <1>1 DEF SentBack, ReturnTotal

LEMMA NoteNumber ==
  ASSUME NEW x, NoteCounts(x), NEW v
  PROVE  NotedFor(x, v) \in Nat /\ CreditedFor(x, v) \in Nat /\ CreditedFor(x, v) <= NotedFor(x, v)
BY DEF NoteCounts, NotedFor, CreditedFor, Issued

LEMMA AcceptedMoves ==
  ASSUME Counted, Counted', NEW d \in Receipts, \A r \in Receipts : r # d => receipt'[r] = receipt[r], NEW but
  PROVE  /\ Accepted(but) \in Nat
         /\ but = d => Accepted(but)' = Accepted(but)
         /\ but # d => Accepted(but)' = Accepted(but) + (TakenIn(receipt'[d]) - TakenIn(receipt[d]))
<1>1. PICK f, g, S : /\ f = [r \in Receipts |-> TakenIn(receipt[r])] /\ g = [r \in Receipts |-> TakenIn(receipt'[r])]
                     /\ S = Receipts \ {but}
  OBVIOUS
<1>2. IsFiniteSet(S)
  BY <1>1, ProcurementAssumption, FS_Subset
<1>3. \A r \in Receipts : ReceiptCounts(receipt[r]) /\ ReceiptCounts(receipt'[r])
  BY DEF Counted
<1>4. \A r \in Receipts : TakenIn(receipt[r]) \in Nat /\ TakenIn(receipt'[r]) \in Nat
  BY <1>3, ReceiptNumber
<1>5. (\A r \in S : f[r] \in Nat /\ f[r] \in Int /\ g[r] \in Int) /\ \A r \in S : r # d => g[r] = f[r]
  BY <1>1, <1>4
<1>6. /\ d \in S => SumFunctionOnSet(g, S) = SumFunctionOnSet(f, S) + (g[d] - f[d])
      /\ d \notin S => SumFunctionOnSet(g, S) = SumFunctionOnSet(f, S)
  BY <1>2, <1>5, SumStep
<1>7. SumFunctionOnSet(f, S) \in Nat
  BY <1>2, <1>5, SumNat
<1>8. Accepted(but) = SumFunctionOnSet(f, S) /\ Accepted(but)' = SumFunctionOnSet(g, S)
  BY <1>1 DEF Accepted
<1> QED BY <1>1, <1>6, <1>7, <1>8

LEMMA AcceptedStays ==
  ASSUME NEW but, NEW d, \A r \in Receipts : r # d => receipt'[r] = receipt[r],
         d \in Receipts => TakenIn(receipt'[d]) = TakenIn(receipt[d])
  PROVE  Accepted(but)' = Accepted(but)
<1>1. \A r \in Receipts : TakenIn(receipt'[r]) = TakenIn(receipt[r])
  OBVIOUS
<1> QED BY <1>1 DEF Accepted

LEMMA AcceptedNumber == ASSUME Counted, NEW but PROVE Accepted(but) \in Nat
<1>1. PICK f, S : f = [r \in Receipts |-> TakenIn(receipt[r])] /\ S = Receipts \ {but}
  OBVIOUS
<1>2. IsFiniteSet(S)
  BY <1>1, ProcurementAssumption, FS_Subset
<1>3. \A r \in S : f[r] \in Nat
  BY <1>1, ReceiptNumber DEF Counted
<1> QED BY <1>1, <1>2, <1>3, SumNat DEF Accepted

LEMMA NotedNumber == ASSUME Counted, NEW v, NEW but PROVE Noted(v, but) \in Nat
<1>1. PICK f, S : f = [n \in Notes |-> NotedFor(note[n], v)] /\ S = Notes \ {but}
  OBVIOUS
<1>2. IsFiniteSet(S)
  BY <1>1, ProcurementAssumption, FS_Subset
<1>3. \A n \in S : f[n] \in Nat
  BY <1>1, NoteNumber DEF Counted
<1> QED BY <1>1, <1>2, <1>3, SumNat DEF Noted

LEMMA NotedMoves ==
  ASSUME Counted, Counted', NEW d \in Notes, \A n \in Notes : n # d => note'[n] = note[n], NEW v, NEW but
  PROVE  /\ Noted(v, but)' \in Nat
         /\ but = d => Noted(v, but)' = Noted(v, but)
         /\ but # d => Noted(v, but)' = Noted(v, but) + (NotedFor(note'[d], v) - NotedFor(note[d], v))
<1>1. PICK f, g, S : /\ f = [n \in Notes |-> NotedFor(note[n], v)] /\ g = [n \in Notes |-> NotedFor(note'[n], v)]
                     /\ S = Notes \ {but}
  OBVIOUS
<1>2. IsFiniteSet(S)
  BY <1>1, ProcurementAssumption, FS_Subset
<1>3. \A n \in Notes : NoteCounts(note[n]) /\ NoteCounts(note'[n])
  BY DEF Counted
<1>4. \A n \in Notes : NotedFor(note[n], v) \in Nat /\ NotedFor(note'[n], v) \in Nat
  BY <1>3, NoteNumber
<1>5. (\A n \in S : f[n] \in Int /\ g[n] \in Int /\ g[n] \in Nat) /\ \A n \in S : n # d => g[n] = f[n]
  BY <1>1, <1>4
<1>6. /\ d \in S => SumFunctionOnSet(g, S) = SumFunctionOnSet(f, S) + (g[d] - f[d])
      /\ d \notin S => SumFunctionOnSet(g, S) = SumFunctionOnSet(f, S)
  BY <1>2, <1>5, SumStep
<1>7. SumFunctionOnSet(g, S) \in Nat
  BY <1>2, <1>5, SumNat
<1>8. Noted(v, but) = SumFunctionOnSet(f, S) /\ Noted(v, but)' = SumFunctionOnSet(g, S)
  BY <1>1 DEF Noted
<1> QED BY <1>1, <1>6, <1>7, <1>8

\* All but note d, and d itself.
LEMMA NotedWith ==
  ASSUME Counted, NEW d \in Notes, NEW v
  PROVE  Noted(v, "none") = NotedFor(note[d], v) + Noted(v, d)
<1>1. PICK f : f = [n \in Notes |-> NotedFor(note[n], v)]
  OBVIOUS
<1>2. \A n \in Notes : f[n] \in Int
  BY <1>1, NoteNumber DEF Counted
<1>3. SumFunctionOnSet(f, Notes) = f[d] + SumFunctionOnSet(f, Notes \ {d})
  BY <1>2, ProcurementAssumption, SumRemove
<1>4. Notes \ {"none"} = Notes
  BY DesksAssumption DEF IdsApart, Documents
<1> QED BY <1>1, <1>3, <1>4 DEF Noted

LEMMA AcceptedWith ==
  ASSUME Counted, NEW d \in Receipts
  PROVE  Accepted("none") = TakenIn(receipt[d]) + Accepted(d)
<1>1. PICK f : f = [r \in Receipts |-> TakenIn(receipt[r])]
  OBVIOUS
<1>2. \A r \in Receipts : f[r] \in Int
  BY <1>1, ReceiptNumber DEF Counted
<1>3. SumFunctionOnSet(f, Receipts) = f[d] + SumFunctionOnSet(f, Receipts \ {d})
  BY <1>2, ProcurementAssumption, SumRemove
<1>4. Receipts \ {"none"} = Receipts
  BY DesksAssumption DEF IdsApart, Documents
<1> QED BY <1>1, <1>3, <1>4 DEF Accepted

-----------------------------------------------------------------------------
(* What the commits of each kind write, row by row *)

OrderTurned(t) ==
  /\ t.n \in Nat /\ order'.qty \in {order.qty, t.n}
  /\ order'.status \in {order.status, "DRAFT", "SUBMITTED", "APPROVED", "REJECTED"}
  /\ order.status \notin {"NONE", "DRAFT"} => order'.qty = order.qty /\ order'.status \notin {"NONE", "DRAFT"}

LEMMA OrderTurn ==
  ASSUME ProcurementInv, NEW t, OrderCommit(t)
  PROVE  t \in Requests /\ OrderTurned(t) /\ OnlyOrder
<1>1. PICK op \in {"createOrder", "editOrder", "submitOrder", "approveOrder", "rejectOrder"} : Commits(t, op)
  BY DEF OrderCommit, CreateOrder, EditOrder, SubmitOrder, ApproveOrder, RejectOrder
<1>2. t \in Requests /\ t.op = op /\ (IF op \in Creates THEN ~Exists(t.doc) ELSE Exists(t.doc))
  BY <1>1, Ending
<1>3. t.n \in Nat /\ t.doc = "order" /\ OnlyOrder
  BY <1>2, Sound DEF Request, RequestSound, OrderCommit, CreateOrder, EditOrder, SubmitOrder, ApproveOrder, RejectOrder
<1>4. DOMAIN order = {"status", "qty", "asked", "decided"}
  BY DEF ProcurementInv, TablesSound, NoOrder
<1>5. order'.qty \in {order.qty, t.n} /\ order'.status \in {order.status, "DRAFT", "SUBMITTED", "APPROVED", "REJECTED"}
  BY <1>4 DEF OrderCommit, CreateOrder, EditOrder, SubmitOrder, ApproveOrder, RejectOrder
<1>6. OrderGrows(t)
  BY OrderCommits DEF Outcome
<1> QED BY <1>2, <1>3, <1>5, <1>6 DEF OrderTurned, OrderGrows, OrderFollows

\* Nobody posts anything, and nothing moves.
BooksStay == UNCHANGED <<supplier, posted, stock>>

ReceiptOps == {"createReceipt", "receiveGoods", "inspectGoods", "acceptGoods", "approveReceipt", "rejectReceipt", "cancelReceipt"}

\* What acceptGoods does to the order and the books, having taken in n.
GoodsTaken(t, n) ==
  /\ n <= Outstanding(Seen(t)) /\ stock' = stock + n
  /\ IF n > 0 THEN PostWithPayable(t.doc, n * Cost) ELSE UNCHANGED <<posted, supplier>>
  /\ order'.qty = order.qty /\ order'.status \in {"RECEIVED", "PARTIALLY_RECEIVED"}

LEMMA ReceiptTurn ==
  ASSUME ProcurementInv, NEW t, ReceiptCommit(t)
  PROVE  /\ t \in Requests /\ t.doc \in Receipts /\ t.n \in Nat /\ t.op \in ReceiptOps /\ ReceiptTurned(t)
         /\ UNCHANGED <<bill, return, note, alloc, payments>>
         /\ t.op # "acceptGoods" => order' = order /\ BooksStay
         /\ t.op = "acceptGoods" => GoodsTaken(t, TakenIn(receipt'[t.doc]))
<1>1. PICK op \in ReceiptOps : Commits(t, op)
  BY DEF ReceiptCommit, CreateReceipt, ReceiveGoods, InspectGoods, AcceptGoods, ApproveReceipt, RejectReceipt, CancelReceipt, ReceiptOps
<1>2. t \in Requests /\ t.op = op /\ Can(t, Seen(t))
  BY <1>1, Ending
<1>3. t.doc \in Receipts /\ t.n \in Nat
  BY <1>2, Sound DEF Request, RequestSound, ReceiptOps
<1>4. ReceiptTurned(t)
  BY <1>1, ReceiptWritten DEF ReceiptOps
<1>5. UNCHANGED <<bill, return, note, alloc, payments>>
  BY DEF ReceiptCommit, CreateReceipt, ReceiveGoods, InspectGoods, AcceptGoods, ApproveReceipt, RejectReceipt,
         CancelReceipt, OnlyReceipt
<1>6. CASE t.op # "acceptGoods"
  <2>1. ~AcceptGoods(t)
    BY <1>6 DEF AcceptGoods, Commits
  <2>2. OnlyReceipt
    BY <2>1 DEF ReceiptCommit, CreateReceipt, ReceiveGoods, InspectGoods, ApproveReceipt, RejectReceipt, CancelReceipt
  <2> QED BY <1>2, <1>3, <1>4, <1>5, <1>6, <2>2 DEF OnlyReceipt, BooksStay
<1>7. CASE t.op = "acceptGoods"
  <2>1. AcceptGoods(t)
    BY <1>7 DEF ReceiptCommit, CreateReceipt, ReceiveGoods, InspectGoods, ApproveReceipt, RejectReceipt, CancelReceipt, Commits
  <2>2. PICK x, y, n : x = receipt[t.doc] /\ y = receipt'[t.doc] /\ n = Taking(t.doc)
    OBVIOUS
  <2>3. TakenIn(y) = n
    <3>1. y.status = "ACCEPTED" /\ y.accepted = IF x.inspected THEN x.accepted ELSE x.received
      BY <1>4, <1>7, <2>2 DEF ReceiptTurned, ReceiptTurns
    <3> QED BY <2>2, <3>1, Zenon DEF TakenIn, InStock, Taking
  <2>4. n <= Outstanding(Seen(t))
    BY <1>2, <1>3, <1>7, <2>2, CanBy DEF CanReceipt
  <2>5. PICK s : /\ s = (IF Accepted(t.doc) + n >= order.qty THEN "RECEIVED" ELSE "PARTIALLY_RECEIVED")
                 /\ order' = [order EXCEPT !.status = s]
    BY <2>1, <2>2 DEF AcceptGoods
  <2>6. order'.qty = order.qty /\ order'.status \in {"RECEIVED", "PARTIALLY_RECEIVED"}
    <3>1. DOMAIN order = {"status", "qty", "asked", "decided"}
      BY DEF ProcurementInv, TablesSound, NoOrder
    <3> QED BY <2>5, <3>1
  <2>7. stock' = stock + n /\ (IF n > 0 THEN PostWithPayable(t.doc, n * Cost) ELSE UNCHANGED <<posted, supplier>>)
    BY <2>1, <2>2, Zenon DEF AcceptGoods
  <2>8. GoodsTaken(t, n)
    BY <2>4, <2>6, <2>7 DEF GoodsTaken
  <2> QED BY <1>2, <1>3, <1>4, <1>5, <1>7, <2>2, <2>3, <2>8
<1> QED BY <1>6, <1>7

LEMMA BillTurn ==
  ASSUME ProcurementInv, NEW t, BillCommit(t)
  PROVE  /\ t \in Requests /\ t.doc \in Bills /\ t.n \in Nat /\ t.price \in Nat /\ t.op \in BillOps /\ BillTurned(t)
         /\ Commits(t, t.op) /\ UNCHANGED <<order, receipt, return, note, alloc, stock>>
         /\ t.op \notin {"postBill", "payBill"} => UNCHANGED <<payments, supplier, posted>>
         /\ t.op = "postBill" => PostWithPayable(t.doc, BillTotal(bill[t.doc]) - bill[t.doc].qty * Cost) /\ payments' = payments
         /\ t.op = "payBill" => IF Seen(t).ok THEN Pay(t, t.doc) /\ posted' = posted ELSE UNCHANGED <<bill, payments, supplier, posted>>
<1>1. PICK op \in BillOps : Commits(t, op)
  BY DEF BillCommit, CreateBill, SubmitBill, DecideBill, CancelBill, PostBill, PayBill, BillOps
<1>2. t \in Requests /\ t.op = op
  BY <1>1, Ending
<1>3. t.doc \in Bills /\ t.n \in Nat /\ t.price \in Nat
  BY <1>2, Sound DEF Request, RequestSound, BillOps
<1>4. BillTurned(t)
  BY <1>1, BillWritten
<1>5. UNCHANGED <<order, receipt, return, note, alloc, stock>>
  BY DEF BillCommit, CreateBill, SubmitBill, DecideBill, CancelBill, PostBill, PayBill, OnlyBill
<1>6. CASE t.op = "payBill"
  <2>1. PayBill(t)
    BY <1>6 DEF BillCommit, CreateBill, SubmitBill, DecideBill, CancelBill, PostBill, Commits
  <2>2. IF Seen(t).ok THEN Pay(t, t.doc) /\ posted' = posted ELSE UNCHANGED <<bill, payments, supplier, posted>>
    BY <2>1, Zenon DEF PayBill
  <2> QED BY <1>1, <1>2, <1>3, <1>4, <1>5, <1>6, <2>2
<1>7. CASE t.op = "postBill"
  <2>1. PostBill(t)
    BY <1>7 DEF BillCommit, CreateBill, SubmitBill, DecideBill, CancelBill, PayBill, Commits
  <2>2. PostWithPayable(t.doc, BillTotal(bill[t.doc]) - bill[t.doc].qty * Cost) /\ payments' = payments
    BY <2>1 DEF PostBill
  <2> QED BY <1>1, <1>2, <1>3, <1>4, <1>5, <1>7, <2>2
<1>8. CASE t.op \notin {"postBill", "payBill"}
  <2>1. ~PayBill(t) /\ ~PostBill(t)
    BY <1>8 DEF PayBill, PostBill, Commits
  <2>2. OnlyBill
    BY <2>1 DEF BillCommit, CreateBill, SubmitBill, DecideBill, CancelBill
  <2> QED BY <1>1, <1>2, <1>3, <1>4, <1>5, <1>8, <2>2 DEF OnlyBill
<1> QED BY <1>6, <1>7, <1>8

LEMMA PaymentTurn ==
  ASSUME ProcurementInv, NEW t, PaymentCommit(t)
  PROVE  /\ t \in Requests /\ t.doc = "supplier" /\ t.n \in Nat /\ t.op \in {"paySupplier", "deleteSupplier"}
         /\ UNCHANGED <<order, receipt, bill, return, note, alloc, posted, stock>>
         /\ IF t.op = "paySupplier" THEN Pay(t, "none")
            ELSE supplier' = [supplier EXCEPT !.deleted = TRUE] /\ payments' = payments
<1>1. PICK op \in {"paySupplier", "deleteSupplier"} : Commits(t, op)
  BY DEF PaymentCommit, PaySupplier, DeleteSupplier
<1>2. t \in Requests /\ t.op = op
  BY <1>1, Ending
<1>3. t.doc = "supplier" /\ t.n \in Nat
  BY <1>2, Sound DEF Request, RequestSound
<1> QED BY <1>2, <1>3 DEF PaymentCommit, PaySupplier, DeleteSupplier, Commits

LEMMA ReturnTurn ==
  ASSUME ProcurementInv, NEW t, ReturnCommit(t)
  PROVE  /\ t \in Requests /\ t.doc \in Returns /\ t.n \in Nat /\ t.op \in ReturnOps /\ ReturnTurned(t)
         /\ UNCHANGED <<order, receipt, bill, note, alloc, payments>>
         /\ t.op # "completeReturn" => BooksStay
         /\ t.op = "completeReturn" => /\ stock' = stock - return[t.doc].qty
                                       /\ PostWithPayable(t.doc, -(return[t.doc].qty * Cost))
<1>1. PICK op \in ReturnOps : Commits(t, op)
  BY DEF ReturnCommit, ReturnOps, CreateReturn, SubmitReturn, DecideReturn, CancelReturn, ShipReturn, CompleteReturn
<1>2. t \in Requests /\ t.op = op
  BY <1>1, Ending
<1>3. t.doc \in Returns /\ t.n \in Nat
  BY <1>2, Sound DEF Request, RequestSound, ReturnOps
<1>4. ReturnTurned(t)
  BY <1>1, ReturnWritten
<1>5. UNCHANGED <<order, receipt, bill, note, alloc, payments>>
  BY DEF ReturnCommit, CreateReturn, SubmitReturn, DecideReturn, CancelReturn, ShipReturn, CompleteReturn, OnlyReturn
<1>6. CASE t.op = "completeReturn"
  <2>1. CompleteReturn(t)
    BY <1>6 DEF ReturnCommit, CreateReturn, SubmitReturn, DecideReturn, CancelReturn, ShipReturn, Commits
  <2> QED BY <1>1, <1>2, <1>3, <1>4, <1>5, <1>6, <2>1 DEF CompleteReturn
<1>7. CASE t.op # "completeReturn"
  <2>1. ~CompleteReturn(t)
    BY <1>7 DEF CompleteReturn, Commits
  <2>2. BooksStay
    BY <2>1 DEF ReturnCommit, CreateReturn, SubmitReturn, DecideReturn, CancelReturn, ShipReturn, OnlyReturn, BooksStay
  <2> QED BY <1>1, <1>2, <1>3, <1>4, <1>5, <1>7, <2>2
<1> QED BY <1>6, <1>7

LEMMA NoteTurn ==
  ASSUME ProcurementInv, NEW t, NoteCommit(t)
  PROVE  /\ t \in Requests /\ t.doc \in Notes /\ t.n \in Nat /\ t.op \in NoteOps /\ NoteTurned(t)
         /\ CanNote(t, Seen(t)) /\ Commits(t, t.op)
         /\ t.op = "createNote" => t.ref \in Returns \cup {"none"}
         /\ UNCHANGED <<order, receipt, return, payments, stock>>
         /\ t.op # "allocateNote" => UNCHANGED <<bill, alloc>>
         /\ t.op = "allocateNote" => /\ t.ref \in Bills /\ (\A b \in Bills : b # t.ref => bill'[b] = bill[b])
                                     /\ BillSettles(t, bill[t.ref], bill'[t.ref]) /\ bill'[t.ref].paid = bill[t.ref].paid
                                     /\ alloc' = [alloc EXCEPT ![<<t.doc, t.ref>>] = @ + t.n]
         /\ t.op # "approveNote" => UNCHANGED <<posted, supplier>>
         /\ t.op = "approveNote" => IF IssueDebit(t.doc) > 0 THEN PostWithPayable(t.doc, -IssueDebit(t.doc))
                                    ELSE UNCHANGED <<posted, supplier>>
<1>1. PICK op \in NoteOps : Commits(t, op)
  BY DEF NoteCommit, NoteOps, CreateNote, SubmitNote, ApproveNote, RejectNote, CancelNote, AllocateNote, CloseNote
<1>2. t \in Requests /\ t.op = op /\ Can(t, Seen(t))
  BY <1>1, Ending
<1>3. /\ t.doc \in Notes /\ t.n \in Nat /\ (t.op = "createNote" => t.ref \in Returns \cup {"none"})
      /\ (t.op = "allocateNote" => t.ref \in Bills)
  <2>1. RequestSound(t) /\ t.op \in NoteOps /\ t.n \in Nat
    BY <1>2, Sound DEF Request
  <2> QED BY <2>1 DEF RequestSound, NoteOps
<1>4. NoteTurned(t) /\ CanNote(t, Seen(t))
  BY <1>1, <1>2, <1>3, NoteWritten, CanBy
<1>5. UNCHANGED <<order, receipt, return, payments, stock>>
  BY DEF NoteCommit, CreateNote, SubmitNote, ApproveNote, RejectNote, CancelNote, AllocateNote, CloseNote, OnlyNote
<1>6. t.op # "allocateNote" => UNCHANGED <<bill, alloc>>
  BY DEF NoteCommit, CreateNote, SubmitNote, ApproveNote, RejectNote, CancelNote, AllocateNote, CloseNote, OnlyNote, Commits
<1>7. t.op # "approveNote" => UNCHANGED <<posted, supplier>>
  BY DEF NoteCommit, CreateNote, SubmitNote, ApproveNote, RejectNote, CancelNote, AllocateNote, CloseNote, OnlyNote, Commits
<1>8. ASSUME t.op = "allocateNote"
      PROVE  /\ t.ref \in Bills /\ (\A b \in Bills : b # t.ref => bill'[b] = bill[b])
             /\ BillSettles(t, bill[t.ref], bill'[t.ref]) /\ bill'[t.ref].paid = bill[t.ref].paid
             /\ alloc' = [alloc EXCEPT ![<<t.doc, t.ref>>] = @ + t.n]
  <2>1. AllocateNote(t) /\ Commits(t, "allocateNote")
    BY <1>8 DEF NoteCommit, CreateNote, SubmitNote, ApproveNote, RejectNote, CancelNote, CloseNote, Commits, AllocateNote
  <2>2. alloc' = [alloc EXCEPT ![<<t.doc, t.ref>>] = @ + t.n]
    BY <2>1 DEF AllocateNote
  <2> QED BY <1>3, <1>8, <2>1, <2>2, NoteSettles
<1>9. ASSUME t.op = "approveNote"
      PROVE  IF IssueDebit(t.doc) > 0 THEN PostWithPayable(t.doc, -IssueDebit(t.doc)) ELSE UNCHANGED <<posted, supplier>>
  <2>1. ApproveNote(t)
    BY <1>9 DEF NoteCommit, CreateNote, SubmitNote, AllocateNote, RejectNote, CancelNote, CloseNote, Commits
  <2> QED BY <2>1, Zenon DEF ApproveNote
<1> QED BY <1>1, <1>2, <1>3, <1>4, <1>5, <1>6, <1>7, <1>8, <1>9

-----------------------------------------------------------------------------
(* Numbers stay numbers *)

SupplierShape(s) == DOMAIN s = {"pending", "opening", "deleted"} /\ s.opening \in Int /\ s.pending \in Int

LEMMA Posts ==
  ASSUME Counted, NEW source, NEW delta \in Int, PostWithPayable(source, delta)
  PROVE  /\ posted' = posted \cup {source} /\ SupplierShape(supplier') /\ supplier'.opening = supplier.opening
         /\ supplier'.pending = supplier.pending + (IF source \in posted THEN 0 ELSE delta)
<1>1. PICK x, y, n : x = supplier /\ y = supplier' /\ n = IF source \in posted THEN 0 ELSE delta
  OBVIOUS
<1>2. DOMAIN x = {"pending", "opening", "deleted"} /\ x.opening \in Int /\ x.pending \in Int /\ n \in Int
  BY <1>1 DEF Counted
<1>3. y = [x EXCEPT !.pending = @ + n] /\ posted' = posted \cup {source}
  BY <1>1 DEF PostWithPayable
<1>4. DOMAIN y = {"pending", "opening", "deleted"} /\ y.opening = x.opening /\ y.pending = x.pending + n
  BY <1>2, <1>3
<1> QED BY <1>1, <1>2, <1>3, <1>4 DEF SupplierShape

LEMMA Pays ==
  ASSUME Counted, NEW t, t.n \in Nat, NEW b, Pay(t, b)
  PROVE  /\ PaymentsCounted' /\ SupplierShape(supplier') /\ supplier'.opening = supplier.opening
         /\ IF Known(t) = {}
            THEN /\ supplier'.pending = supplier.pending - t.n
                 /\ \E p : p \notin payments /\ payments' = payments \cup {p} /\ p.bill = b /\ p.amount = t.n
            ELSE supplier' = supplier /\ payments' = payments
<1>1. PICK x, y : x = supplier /\ y = supplier'
  OBVIOUS
<1>2. DOMAIN x = {"pending", "opening", "deleted"} /\ x.opening \in Int /\ x.pending \in Int /\ PaymentsCounted
  BY <1>1 DEF Counted
<1>3. CASE Known(t) # {}
  <2>1. supplier' = supplier /\ payments' = payments
    BY <1>3 DEF Pay
  <2>2. PaymentsCounted'
    BY <1>2, <2>1 DEF PaymentsCounted
  <2> QED BY <1>1, <1>2, <1>3, <2>1, <2>2 DEF SupplierShape
<1>4. CASE Known(t) = {}
  <2>1. PICK p : p = [id |-> Cardinality(payments), key |-> t.key, bill |-> b, amount |-> t.n]
    OBVIOUS
  <2>2. payments' = payments \cup {p} /\ y = [x EXCEPT !.pending = @ - t.n]
    BY <1>1, <1>4, <2>1 DEF Pay
  <2>3. p.id = Cardinality(payments) /\ p.amount = t.n /\ p.bill = b
    BY <2>1
  <2>4. IsFiniteSet(payments) /\ \A q \in payments : q.amount \in Nat /\ q.id \in Nat /\ q.id < Cardinality(payments)
    BY <1>2 DEF PaymentsCounted
  <2>5. Cardinality(payments) \in Nat
    BY <2>4, FS_CardinalityType
  <2>6. p \notin payments
    BY <2>3, <2>4, <2>5
  <2>7. IsFiniteSet(payments') /\ Cardinality(payments') = Cardinality(payments) + 1
    BY <2>2, <2>4, <2>6, FS_AddElement
  <2>8. \A q \in payments' : q.amount \in Nat /\ q.id \in Nat /\ q.id < Cardinality(payments')
    <3>1. ASSUME NEW q \in payments PROVE q.amount \in Nat /\ q.id \in Nat /\ q.id < Cardinality(payments')
      BY <2>4, <2>5, <2>7, <3>1
    <3>2. p.amount \in Nat /\ p.id \in Nat /\ p.id < Cardinality(payments')
      BY <2>3, <2>5, <2>7
    <3> QED BY <2>2, <3>1, <3>2
  <2>9. PaymentsCounted'
    BY <2>7, <2>8 DEF PaymentsCounted
  <2>10. DOMAIN y = {"pending", "opening", "deleted"} /\ y.opening = x.opening /\ y.pending = x.pending - t.n /\ y.pending \in Int
    BY <1>2, <2>2
  <2>11. SupplierShape(supplier') /\ supplier'.opening = supplier.opening /\ supplier'.pending = supplier.pending - t.n
    BY <1>1, <1>2, <2>10 DEF SupplierShape
  <2> QED BY <1>4, <2>2, <2>3, <2>6, <2>9, <2>11
<1> QED BY <1>3, <1>4

\* The parts of Counted.
AllocCounts == alloc = [p \in Notes \X Bills |-> alloc[p]] /\ \A p \in Notes \X Bills : alloc[p] \in Nat
LocksHeld == \A r \in Rows : lock[r] \in asks \cup {Free}

LEMMA CountedParts ==
  ASSUME Counted
  PROVE  /\ order.qty \in Nat /\ order.status \in DOMAIN OrderMoves /\ (\A r \in Receipts : ReceiptCounts(receipt[r])) /\ (\A b \in Bills : BillCounts(bill[b]))
         /\ (\A v \in Returns : return[v].qty \in Nat) /\ (\A n \in Notes : NoteCounts(note[n]))
         /\ AllocCounts /\ SupplierShape(supplier) /\ stock \in Int /\ PaymentsCounted /\ LocksHeld
BY DEF Counted, AllocCounts, SupplierShape, LocksHeld

LEMMA CountedNext ==
  ASSUME order'.qty \in Nat, order'.status \in DOMAIN OrderMoves, \A r \in Receipts : ReceiptCounts(receipt'[r]), \A b \in Bills : BillCounts(bill'[b]),
         \A v \in Returns : return'[v].qty \in Nat, \A n \in Notes : NoteCounts(note'[n]),
         AllocCounts', SupplierShape(supplier'), stock' \in Int, PaymentsCounted', LocksHeld'
  PROVE  Counted'
BY DEF Counted, AllocCounts, SupplierShape, LocksHeld

LEMMA LocksKept ==
  ASSUME ProcurementInv, Counted, NEW t, NEW how \in {"done", "refused"}, Ends(t, how)
  PROVE  LocksHeld'
<1>1. asks' = asks /\ \A r \in Rows : lock'[r] = IF lock[r] = t THEN Free ELSE lock[r]
  BY DEF Ends, Finish
<1> QED BY <1>1 DEF Counted, LocksHeld

\* What a step leaves alone stays a number.
LEMMA Uncounted ==
  ASSUME Counted
  PROVE  /\ order' = order => order'.qty \in Nat /\ order'.status \in DOMAIN OrderMoves
         /\ receipt' = receipt => \A r \in Receipts : ReceiptCounts(receipt'[r])
         /\ bill' = bill => \A b \in Bills : BillCounts(bill'[b])
         /\ return' = return => \A v \in Returns : return'[v].qty \in Nat
         /\ note' = note => \A n \in Notes : NoteCounts(note'[n])
         /\ alloc' = alloc => AllocCounts'
         /\ supplier' = supplier => SupplierShape(supplier')
         /\ stock' = stock => stock' \in Int
         /\ payments' = payments => PaymentsCounted'
BY CountedParts DEF AllocCounts, PaymentsCounted

LEMMA CreditedNumber == ASSUME Counted, NEW v PROVE Credited(v) \in Nat
<1>1. PICK f : f = [n \in Notes |-> CreditedFor(note[n], v)]
  OBVIOUS
<1>2. \A n \in Notes : f[n] \in Nat
  BY <1>1, NoteNumber DEF Counted
<1> QED BY <1>1, <1>2, ProcurementAssumption, SumNat DEF Credited

LEMMA DebitOf ==
  ASSUME NEW n
  PROVE  /\ note[n].ref = "none" => IssueDebit(n) = note[n].total
         /\ note[n].ref # "none" =>
              IssueDebit(n) = Floor((Credited(note[n].ref) + note[n].total) - ReturnPosted(note[n].ref))
                              - Floor(Credited(note[n].ref) - ReturnPosted(note[n].ref))
BY DEF IssueDebit

LEMMA DebitNumber ==
  ASSUME Counted, NEW n \in Notes
  PROVE  IssueDebit(n) \in Int
<1>1. PICK v, c, x, p : v = note[n].ref /\ c = Credited(v) /\ x = note[n].total /\ p = ReturnPosted(v)
  OBVIOUS
<1>2. c \in Nat /\ x \in Nat /\ v \in Returns \cup {"none"}
  BY <1>1, CreditedNumber, CountedParts DEF NoteCounts
<1>3. CASE v = "none"
  <2>1. IssueDebit(n) = x
    BY <1>1, <1>3, DebitOf, Zenon
  <2> QED BY <1>2, <2>1
<1>4. CASE v # "none"
  <2>1. p \in Int
    <3>1. return[v].qty * Cost \in Nat
      BY <1>2, <1>4, CountedParts, ReturnNumber
    <3> QED BY <1>1, <3>1 DEF ReturnPosted
  <2>2. IssueDebit(n) = Floor((c + x) - p) - Floor(c - p)
    BY <1>1, <1>4, DebitOf
  <2> QED BY <1>2, <2>1, <2>2 DEF Floor
<1> QED BY <1>3, <1>4

LEMMA BillsCounted ==
  ASSUME ProcurementInv, Counted, NEW t, BillCommit(t)
  PROVE  \A b \in Bills : BillCounts(bill'[b])
<1>1. /\ t.doc \in Bills /\ t.n \in Nat /\ t.price \in Nat /\ t.op \in BillOps /\ BillTurned(t)
      /\ t.op = "payBill" /\ ~Seen(t).ok => bill' = bill
  BY BillTurn
<1>2. \A b \in Bills : BillCounts(bill[b])
  BY CountedParts
<1>3. PICK x, y : x = bill[t.doc] /\ y = bill'[t.doc]
  OBVIOUS
<1>4. BillTurns(t, x, y) /\ BillCounts(x)
  BY <1>1, <1>2, <1>3 DEF BillTurned
<1>5. y.outstanding \in Nat
  <2>1. BillAmount(bill'[t.doc])
    BY <1>1, BillCommits DEF Outcome, AmountsSound
  <2> QED BY <1>3, <2>1 DEF BillAmount
<1>6. BillCounts(y)
  <2>1. CASE t.op = "createBill"
    BY <1>1, <1>4, <1>5, <2>1 DEF BillTurns, BillCreated, BillCounts
  <2>2. CASE t.op = "postBill"
    BY <1>4, <1>5, <2>2 DEF BillTurns, BillPosted, SameAmounts, BillCounts
  <2>3. CASE t.op = "payBill"
    <3>1. CASE Seen(t).ok
      <4>1. BillSettles(t, x, y) /\ y.paid = x.paid + t.n
        BY <1>4, <2>3, <3>1 DEF BillTurns
      <4> QED BY <1>1, <1>4, <1>5, <4>1 DEF BillSettles, BillCounts
    <3>2. CASE ~Seen(t).ok
      BY <1>1, <1>3, <1>4, <2>3, <3>2
    <3> QED BY <3>1, <3>2
  <2>4. CASE t.op \in {"submitBill", "approveBill", "rejectBill", "cancelBill"}
    BY <1>4, <1>5, <2>4 DEF BillTurns, BillAside, SameAmounts, BillCounts
  <2> QED BY <1>1, <2>1, <2>2, <2>3, <2>4 DEF BillOps
<1> QED BY <1>1, <1>2, <1>3, <1>6 DEF BillTurned

LEMMA NotesCounted ==
  ASSUME ProcurementInv, Counted, NEW t, NoteCommit(t)
  PROVE  (\A n \in Notes : NoteCounts(note'[n])) /\ (\A b \in Bills : BillCounts(bill'[b])) /\ AllocCounts'
<1>1. /\ t.doc \in Notes /\ t.n \in Nat /\ NoteTurned(t) /\ (t.op = "createNote" => t.ref \in Returns \cup {"none"})
      /\ t.op # "allocateNote" => UNCHANGED <<bill, alloc>>
      /\ t.op = "allocateNote" => /\ t.ref \in Bills /\ (\A b \in Bills : b # t.ref => bill'[b] = bill[b])
                                  /\ BillSettles(t, bill[t.ref], bill'[t.ref]) /\ bill'[t.ref].paid = bill[t.ref].paid
                                  /\ alloc' = [alloc EXCEPT ![<<t.doc, t.ref>>] = @ + t.n]
  BY NoteTurn
<1>2. (\A n \in Notes : NoteCounts(note[n])) /\ (\A b \in Bills : BillCounts(bill[b])) /\ AllocCounts
  BY CountedParts
<1>3. (\A n \in Notes : note'[n].remaining \in Nat) /\ \A b \in Bills : bill'[b].outstanding \in Nat
  BY NoteCommits DEF Outcome, AmountsSound, BillAmount
<1>4. PICK x, y : x = note[t.doc] /\ y = note'[t.doc]
  OBVIOUS
<1>5. NoteTurns(t, x, y) /\ NoteCounts(x) /\ y.remaining \in Nat
  BY <1>1, <1>2, <1>3, <1>4 DEF NoteTurned
<1>6. NoteCounts(y)
  <2>1. CASE t.op = "createNote"
    BY <1>1, <1>5, <2>1 DEF NoteTurns, NoteCounts
  <2>2. CASE t.op # "createNote"
    BY <1>5, <2>2 DEF NoteTurns, NoteCounts
  <2> QED BY <2>1, <2>2
<1>7. \A n \in Notes : NoteCounts(note'[n])
  BY <1>1, <1>2, <1>4, <1>6 DEF NoteTurned
<1>8. CASE t.op # "allocateNote"
  BY <1>1, <1>2, <1>7, <1>8 DEF AllocCounts
<1>9. CASE t.op = "allocateNote"
  <2>1. PICK a, b : a = bill[t.ref] /\ b = bill'[t.ref]
    OBVIOUS
  <2>2. BillCounts(a) /\ BillSettles(t, a, b) /\ b.paid = a.paid /\ b.outstanding \in Nat
    BY <1>1, <1>2, <1>3, <1>9, <2>1
  <2>3. BillCounts(b)
    BY <2>2 DEF BillSettles, BillCounts
  <2>4. \A c \in Bills : BillCounts(bill'[c])
    BY <1>1, <1>2, <1>9, <2>1, <2>3
  <2>5. PICK e : e = <<t.doc, t.ref>>
    OBVIOUS
  <2>6. e \in Notes \X Bills /\ alloc' = [alloc EXCEPT ![e] = alloc[e] + t.n]
    BY <1>1, <1>9, <2>5
  <2>7. alloc' = [p \in Notes \X Bills |-> alloc'[p]] /\ \A p \in Notes \X Bills : alloc'[p] = IF p = e THEN alloc[e] + t.n ELSE alloc[p]
    BY <1>2, <2>6, RowWritten DEF AllocCounts
  <2>8. \A p \in Notes \X Bills : alloc'[p] \in Nat
    BY <1>1, <1>2, <2>6, <2>7 DEF AllocCounts
  <2> QED BY <1>7, <2>4, <2>7, <2>8 DEF AllocCounts
<1> QED BY <1>8, <1>9

LEMMA CountedKept ==
  ASSUME ProcurementInv, Counted, NEW t, Ends(t, "done"),
         OrderCommit(t) \/ ReceiptCommit(t) \/ BillCommit(t) \/ PaymentCommit(t) \/ ReturnCommit(t) \/ NoteCommit(t)
  PROVE  Counted'
<1>1. LocksHeld'
  BY LocksKept
<1>2. CASE OrderCommit(t)
  <2>1. OrderTurned(t) /\ OnlyOrder
    BY <1>2, OrderTurn
  <2>2. order'.qty \in Nat /\ order'.status \in DOMAIN OrderMoves
    BY <2>1, CountedParts DEF OrderTurned, OrderMoves
  <2> QED BY <1>1, <2>1, <2>2, Uncounted, CountedNext DEF OnlyOrder
<1>3. CASE ReceiptCommit(t)
  <2>1. /\ t.doc \in Receipts /\ t.n \in Nat /\ ReceiptTurned(t) /\ UNCHANGED <<bill, return, note, alloc, payments>>
        /\ t.op # "acceptGoods" => order' = order /\ BooksStay
        /\ t.op = "acceptGoods" => GoodsTaken(t, TakenIn(receipt'[t.doc]))
    BY <1>3, ReceiptTurn
  <2>2. PICK x, y : x = receipt[t.doc] /\ y = receipt'[t.doc]
    OBVIOUS
  <2>3. ReceiptCounts(y)
    <3>1. ReceiptTurns(t, x, y) /\ ReceiptCounts(x)
      BY <2>1, <2>2, CountedParts DEF ReceiptTurned
    <3> QED BY <2>1, <3>1 DEF ReceiptTurns, ReceiptCounts
  <2>4. \A r \in Receipts : ReceiptCounts(receipt'[r])
    BY <2>1, <2>2, <2>3, CountedParts DEF ReceiptTurned
  <2>5. order'.qty \in Nat /\ order'.status \in DOMAIN OrderMoves /\ SupplierShape(supplier') /\ stock' \in Int
    <3>1. CASE t.op # "acceptGoods"
      BY <2>1, <3>1, Uncounted DEF BooksStay
    <3>2. CASE t.op = "acceptGoods"
      <4>1. PICK n : n = TakenIn(y)
        OBVIOUS
      <4>2. n \in Nat /\ n * Cost \in Nat
        <5>1. n \in Nat /\ Cost \in Nat
          BY <2>3, <4>1, ReceiptNumber, ProcurementAssumption
        <5> QED BY <5>1
      <4>3. GoodsTaken(t, n)
        BY <2>1, <2>2, <3>2, <4>1
      <4>4. SupplierShape(supplier')
        <5>1. CASE n > 0
          BY <4>2, <4>3, <5>1, Posts DEF GoodsTaken
        <5>2. CASE ~(n > 0)
          BY <4>3, <5>2, Uncounted DEF GoodsTaken
        <5> QED BY <5>1, <5>2
      <4> QED BY <4>2, <4>3, <4>4, CountedParts DEF GoodsTaken, OrderMoves
    <3> QED BY <3>1, <3>2
  <2> QED BY <1>1, <2>1, <2>4, <2>5, Uncounted, CountedNext
<1>4. CASE BillCommit(t)
  <2>1. /\ t.doc \in Bills /\ t.n \in Nat /\ t.op \in BillOps /\ UNCHANGED <<order, receipt, return, note, alloc, stock>>
        /\ t.op \notin {"postBill", "payBill"} => UNCHANGED <<payments, supplier, posted>>
        /\ t.op = "postBill" => PostWithPayable(t.doc, BillTotal(bill[t.doc]) - bill[t.doc].qty * Cost) /\ payments' = payments
        /\ t.op = "payBill" => IF Seen(t).ok THEN Pay(t, t.doc) /\ posted' = posted ELSE UNCHANGED <<bill, payments, supplier, posted>>
    BY <1>4, BillTurn
  <2>2. \A b \in Bills : BillCounts(bill'[b])
    BY <1>4, BillsCounted
  <2>3. SupplierShape(supplier') /\ PaymentsCounted'
    <3>1. CASE t.op = "postBill"
      <4>1. BillTotal(bill[t.doc]) - bill[t.doc].qty * Cost \in Int
        <5>1. BillTotal(bill[t.doc]) \in Nat /\ bill[t.doc].qty * Cost \in Nat
          BY <2>1, CountedParts, BillNumber
        <5> QED BY <5>1
      <4> QED BY <2>1, <3>1, <4>1, Posts, Uncounted
    <3>2. CASE t.op = "payBill" /\ Seen(t).ok
      BY <2>1, <3>2, Pays
    <3>3. CASE t.op = "payBill" /\ ~Seen(t).ok
      BY <2>1, <3>3, Uncounted
    <3>4. CASE t.op \notin {"postBill", "payBill"}
      BY <2>1, <3>4, Uncounted
    <3> QED BY <3>1, <3>2, <3>3, <3>4
  <2> QED BY <1>1, <2>1, <2>2, <2>3, Uncounted, CountedNext
<1>5. CASE PaymentCommit(t)
  <2>1. /\ t.n \in Nat /\ UNCHANGED <<order, receipt, bill, return, note, alloc, posted, stock>>
        /\ IF t.op = "paySupplier" THEN Pay(t, "none")
           ELSE supplier' = [supplier EXCEPT !.deleted = TRUE] /\ payments' = payments
    BY <1>5, PaymentTurn
  <2>2. SupplierShape(supplier') /\ PaymentsCounted'
    <3>1. CASE t.op = "paySupplier"
      BY <2>1, <3>1, Pays
    <3>2. CASE t.op # "paySupplier"
      <4>1. PICK x, y : x = supplier /\ y = supplier'
        OBVIOUS
      <4>2. y = [x EXCEPT !.deleted = TRUE] /\ SupplierShape(x)
        BY <2>1, <3>2, <4>1, CountedParts
      <4>3. SupplierShape(y)
        BY <4>2 DEF SupplierShape
      <4> QED BY <2>1, <3>2, <4>1, <4>3, Uncounted
    <3> QED BY <3>1, <3>2
  <2> QED BY <1>1, <2>1, <2>2, Uncounted, CountedNext
<1>6. CASE ReturnCommit(t)
  <2>1. /\ t.doc \in Returns /\ t.n \in Nat /\ ReturnTurned(t) /\ UNCHANGED <<order, receipt, bill, note, alloc, payments>>
        /\ t.op # "completeReturn" => BooksStay
        /\ t.op = "completeReturn" => stock' = stock - return[t.doc].qty /\ PostWithPayable(t.doc, -(return[t.doc].qty * Cost))
    BY <1>6, ReturnTurn
  <2>2. \A v \in Returns : return'[v].qty \in Nat
    BY <2>1, CountedParts DEF ReturnTurned, ReturnTurns
  <2>3. SupplierShape(supplier') /\ stock' \in Int
    <3>1. CASE t.op # "completeReturn"
      BY <2>1, <3>1, Uncounted DEF BooksStay
    <3>2. CASE t.op = "completeReturn"
      <4>1. return[t.doc].qty \in Nat /\ return[t.doc].qty * Cost \in Nat
        BY <2>1, CountedParts, ReturnNumber
      <4>2. -(return[t.doc].qty * Cost) \in Int
        BY <4>1
      <4> QED BY <2>1, <3>2, <4>1, <4>2, CountedParts, Posts
    <3> QED BY <3>1, <3>2
  <2> QED BY <1>1, <2>1, <2>2, <2>3, Uncounted, CountedNext
<1>7. CASE NoteCommit(t)
  <2>1. /\ t.doc \in Notes /\ UNCHANGED <<order, receipt, return, payments, stock>>
        /\ t.op # "approveNote" => UNCHANGED <<posted, supplier>>
        /\ t.op = "approveNote" => IF IssueDebit(t.doc) > 0 THEN PostWithPayable(t.doc, -IssueDebit(t.doc))
                                   ELSE UNCHANGED <<posted, supplier>>
    BY <1>7, NoteTurn
  <2>2. (\A n \in Notes : NoteCounts(note'[n])) /\ (\A b \in Bills : BillCounts(bill'[b])) /\ AllocCounts'
    BY <1>7, NotesCounted
  <2>3. SupplierShape(supplier')
    <3>1. CASE t.op = "approveNote" /\ IssueDebit(t.doc) > 0
      <4>1. -IssueDebit(t.doc) \in Int
        BY <2>1, DebitNumber
      <4> QED BY <2>1, <3>1, <4>1, Posts
    <3>2. CASE ~(t.op = "approveNote" /\ IssueDebit(t.doc) > 0)
      BY <2>1, <3>2, Uncounted
    <3> QED BY <3>1, <3>2
  <2> QED BY <1>1, <2>1, <2>2, <2>3, Uncounted, CountedNext
<1> QED BY <1>2, <1>3, <1>4, <1>5, <1>6, <1>7

-----------------------------------------------------------------------------
(* The documents: within what was ordered, and within what went back *)

\* What the order of a step t allows the others to know.
LEMMA AcceptHolds ==
  ASSUME ProcurementInv, DocumentsInv, NEW t, AcceptGoods(t)
  PROVE  lock["order"] = t /\ Seen(t).n = Accepted(t.doc)
<1>1. Commits(t, "acceptGoods")
  BY DEF AcceptGoods
<1>2. t \in asks /\ t.op = "acceptGoods" /\ Open(t) /\ tx[t].at > Len(Plan(t)) /\ tx[t].at \in Nat
  BY <1>1, Ending DEF Commits, AtEnd
<1>3. tx[t].at >= 3
  BY <1>2 DEF Plan, AcceptPlan
<1> QED BY <1>2, <1>3 DEF DocumentsInv, Knows, AcceptKnows

LEMMA GoodsKept ==
  ASSUME ProcurementInv, DocumentsInv, Counted', NEW t, Ends(t, "done"),
         OrderCommit(t) \/ ReceiptCommit(t) \/ BillCommit(t) \/ PaymentCommit(t) \/ ReturnCommit(t) \/ NoteCommit(t)
  PROVE  GoodsWithin'
<1>1. /\ Counted /\ Accepted("none") <= order.qty /\ (order.status \in {"NONE", "DRAFT"} => Accepted("none") = 0)
      /\ order.qty \in Nat /\ Accepted("none") \in Nat
  BY AcceptedNumber DEF DocumentsInv, GoodsWithin, AcceptedWithinOrdered, Counted
<1> SUFFICES Accepted("none")' <= order'.qty /\ (order'.status \in {"NONE", "DRAFT"} => Accepted("none")' = 0)
  BY DEF GoodsWithin, AcceptedWithinOrdered
<1>2. CASE OrderCommit(t)
  <2>1. OrderTurned(t) /\ receipt' = receipt
    BY <1>2, OrderTurn DEF OnlyOrder
  <2>2. Accepted("none")' = Accepted("none")
    BY <2>1 DEF Accepted
  <2> QED BY <1>1, <2>1, <2>2 DEF OrderTurned
<1>3. CASE ReceiptCommit(t)
  <2>1. /\ t.doc \in Receipts /\ ReceiptTurned(t)
        /\ t.op # "acceptGoods" => order' = order
        /\ t.op = "acceptGoods" => GoodsTaken(t, TakenIn(receipt'[t.doc]))
    BY <1>3, ReceiptTurn
  <2>2. PICK x, y, n : x = receipt[t.doc] /\ y = receipt'[t.doc] /\ n = TakenIn(y)
    OBVIOUS
  <2>3. ReceiptTurns(t, x, y) /\ \A r \in Receipts : r # t.doc => receipt'[r] = receipt[r]
    BY <2>1, <2>2 DEF ReceiptTurned
  <2>4. CASE t.op # "acceptGoods"
    <3>1. TakenIn(y) = TakenIn(x)
      BY <2>3, <2>4 DEF ReceiptTurns, TakenIn
    <3>2. Accepted("none")' = Accepted("none")
      BY <2>2, <2>3, <3>1, AcceptedStays
    <3> QED BY <1>1, <2>1, <2>4, <3>2
  <2>5. CASE t.op = "acceptGoods"
    <3>1. AcceptGoods(t)
      BY <1>3, <2>5 DEF ReceiptCommit, CreateReceipt, ReceiveGoods, InspectGoods, ApproveReceipt, RejectReceipt, CancelReceipt, Commits
    <3>2. Seen(t).n = Accepted(t.doc)
      BY <3>1, AcceptHolds
    <3>3. n <= Outstanding(Seen(t)) /\ order'.qty = order.qty /\ order'.status \notin {"NONE", "DRAFT"}
      BY <2>1, <2>2, <2>5 DEF GoodsTaken
    <3>4. TakenIn(x) = 0
      BY <2>3, <2>5 DEF ReceiptTurns, TakenIn
    <3>5. Accepted(t.doc) \in Nat /\ n \in Nat
      BY <1>1, <2>1, <2>2, AcceptedNumber, ReceiptNumber DEF Counted
    <3>6. Accepted("none") = Accepted(t.doc)
      BY <1>1, <2>1, <2>2, <3>4, <3>5, AcceptedWith
    <3>7. Accepted("none")' = Accepted("none") + n
      <4>1. "none" # t.doc
        BY <2>1, DesksAssumption DEF IdsApart, Documents
      <4>2. Accepted("none")' = Accepted("none") + (TakenIn(receipt'[t.doc]) - TakenIn(receipt[t.doc]))
        BY <1>1, <2>1, <2>3, <4>1, AcceptedMoves
      <4> QED BY <1>1, <2>2, <3>4, <3>5, <4>2
    <3> QED BY <1>1, <3>2, <3>3, <3>5, <3>6, <3>7 DEF Outstanding, Floor
  <2> QED BY <2>4, <2>5
<1>4. CASE BillCommit(t) \/ PaymentCommit(t) \/ ReturnCommit(t) \/ NoteCommit(t)
  <2>1. UNCHANGED <<order, receipt>>
    BY <1>4, BillTurn, PaymentTurn, ReturnTurn, NoteTurn
  <2>2. Accepted("none")' = Accepted("none")
    BY <2>1 DEF Accepted
  <2> QED BY <1>1, <2>1, <2>2
<1> QED BY <1>2, <1>3, <1>4

\* A note t wrote counts no more than before, unless t created it for that return.
LEMMA NotedLess ==
  ASSUME ProcurementInv, Counted, Counted', NEW t, NoteCommit(t), NEW v, v # "none", t.op = "createNote" => t.ref # v, NEW but
  PROVE  Noted(v, but)' \in Nat /\ Noted(v, but)' <= Noted(v, but)
<1>1. t.doc \in Notes /\ NoteTurned(t)
  BY NoteTurn
<1>2. PICK x, y : x = note[t.doc] /\ y = note'[t.doc]
  OBVIOUS
<1>3. NoteTurns(t, x, y) /\ (\A n \in Notes : n # t.doc => note'[n] = note[n]) /\ NoteCounts(x) /\ NoteCounts(y)
  BY <1>1, <1>2 DEF NoteTurned, Counted
<1>4. NotedFor(y, v) <= NotedFor(x, v) /\ NotedFor(x, v) \in Nat /\ NotedFor(y, v) \in Nat
  <2>1. NotedFor(x, v) \in Nat /\ NotedFor(y, v) \in Nat
    BY <1>3, NoteNumber
  <2>2. CASE t.op = "createNote"
    <3>1. NotedFor(y, v) = 0
      BY <1>3, <2>2 DEF NoteTurns, NotedFor
    <3> QED BY <2>1, <3>1
  <2>3. CASE t.op # "createNote"
    <3>1. NotedFor(y, v) \in {NotedFor(x, v), 0}
      BY <1>3, <2>3 DEF NoteTurns, NotedFor, NoteLive
    <3> QED BY <2>1, <3>1
  <2> QED BY <2>1, <2>2, <2>3
<1>5. Noted(v, but) \in Nat
  BY NotedNumber
<1>6. /\ Noted(v, but)' \in Nat
      /\ but = t.doc => Noted(v, but)' = Noted(v, but)
      /\ but # t.doc => Noted(v, but)' = Noted(v, but) + (NotedFor(note'[t.doc], v) - NotedFor(note[t.doc], v))
  BY <1>1, <1>3, NotedMoves
<1>7. CASE but = t.doc
  BY <1>5, <1>6, <1>7
<1>8. CASE but # t.doc
  BY <1>2, <1>4, <1>5, <1>6, <1>8
<1> QED BY <1>7, <1>8

\* Who raises a note of a return still holds the return, and has seen its notes.
LEMMA NoteHolds ==
  ASSUME ProcurementInv, DocumentsInv, NEW t, Commits(t, "createNote"), t.ref # "none"
  PROVE  lock[t.ref] = t /\ Seen(t).n \in Nat /\ Noted(t.ref, t.doc) <= Seen(t).n
<1>1. t \in asks /\ t.op = "createNote" /\ Open(t) /\ tx[t].at > Len(Plan(t)) /\ tx[t].at \in Nat
  BY Ending DEF Commits, AtEnd
<1>2. tx[t].at >= 3
  BY <1>1 DEF Plan, NotePlan
<1> QED BY <1>1, <1>2 DEF DocumentsInv, Knows, NoteKnows

LEMMA NotesKept ==
  ASSUME ProcurementInv, DocumentsInv, Counted', NEW t, Ends(t, "done"),
         OrderCommit(t) \/ ReceiptCommit(t) \/ BillCommit(t) \/ PaymentCommit(t) \/ ReturnCommit(t) \/ NoteCommit(t)
  PROVE  NotesWithinReturn'
<1>1. Counted /\ NotesWithinReturn
  BY DEF DocumentsInv
<1> SUFFICES ASSUME NEW v \in Returns, Noted(v, "none")' > 0
             PROVE  return'[v].status = "COMPLETED" /\ Noted(v, "none")' <= ReturnTotal(return'[v])
  BY DEF NotesWithinReturn
<1>2. Noted(v, "none") > 0 => return[v].status = "COMPLETED" /\ Noted(v, "none") <= ReturnTotal(return[v])
  BY <1>1 DEF NotesWithinReturn
<1>3. Noted(v, "none") \in Nat /\ ReturnTotal(return[v]) \in Nat /\ v # "none"
  BY <1>1, NotedNumber, ReturnNumber, DesksAssumption DEF Counted, IdsApart, Documents
<1>4. CASE OrderCommit(t) \/ ReceiptCommit(t) \/ BillCommit(t) \/ PaymentCommit(t)
  <2>1. UNCHANGED <<return, note>>
    BY <1>4, OrderTurn, ReceiptTurn, BillTurn, PaymentTurn DEF OnlyOrder
  <2>2. Noted(v, "none")' = Noted(v, "none")
    BY <2>1 DEF Noted
  <2> QED BY <1>2, <2>1, <2>2
<1>5. CASE ReturnCommit(t)
  <2>1. t.doc \in Returns /\ ReturnTurned(t) /\ note' = note
    BY <1>5, ReturnTurn
  <2>2. Noted(v, "none")' = Noted(v, "none")
    BY <2>1 DEF Noted
  <2>3. v # t.doc
    BY <1>2, <2>1, <2>2 DEF ReturnTurned, ReturnTurns
  <2>4. return'[v] = return[v]
    BY <2>1, <2>3 DEF ReturnTurned
  <2> QED BY <1>2, <2>2, <2>4
<1>6. CASE NoteCommit(t)
  <2>1. t.doc \in Notes /\ t.n \in Nat /\ NoteTurned(t) /\ CanNote(t, Seen(t)) /\ Commits(t, t.op) /\ return' = return
    BY <1>6, NoteTurn
  <2>2. CASE t.op = "createNote" /\ t.ref = v
    <3>1. Seen(t).n \in Nat /\ Noted(v, t.doc) <= Seen(t).n
      BY <1>3, <2>1, <2>2, NoteHolds
    <3>2. return[v].status = "COMPLETED" /\ Seen(t).n + t.n <= ReturnTotal(return[v])
      <4>1. Backed(t.ref, t.n, Seen(t))
        BY <2>1, <2>2 DEF CanNote
      <4> QED BY <1>3, <2>2, <4>1 DEF Backed
    <3>3. Noted(v, "none")' = Noted(v, t.doc) + t.n
      <4>1. PICK x, y : x = note[t.doc] /\ y = note'[t.doc]
        OBVIOUS
      <4>2. NotedFor(x, v) = 0 /\ NotedFor(y, v) = t.n
        <5>1. NoteTurns(t, x, y)
          BY <2>1, <4>1 DEF NoteTurned
        <5> QED BY <2>2, <5>1 DEF NoteTurns, NotedFor
      <4>3. "none" # t.doc
        BY <2>1, DesksAssumption DEF IdsApart, Documents
      <4>4. \A n \in Notes : n # t.doc => note'[n] = note[n]
        BY <2>1 DEF NoteTurned
      <4>5. Noted(v, "none")' = Noted(v, "none") + (NotedFor(note'[t.doc], v) - NotedFor(note[t.doc], v))
        BY <1>1, <2>1, <4>3, <4>4, NotedMoves
      <4>6. Noted(v, "none") = NotedFor(note[t.doc], v) + Noted(v, t.doc) /\ Noted(v, t.doc) \in Nat
        BY <1>1, <2>1, NotedWith, NotedNumber
      <4> QED BY <1>3, <2>1, <4>1, <4>2, <4>5, <4>6
    <3>4. Noted(v, t.doc) \in Nat
      BY <1>1, NotedNumber
    <3> QED BY <1>3, <2>1, <3>1, <3>2, <3>3, <3>4
  <2>3. CASE ~(t.op = "createNote" /\ t.ref = v)
    <3>1. Noted(v, "none")' \in Nat /\ Noted(v, "none")' <= Noted(v, "none")
      BY <1>1, <1>3, <1>6, <2>3, NotedLess
    <3> QED BY <1>2, <1>3, <2>1, <3>1
  <2> QED BY <2>2, <2>3
<1> QED BY <1>4, <1>5, <1>6

\* What the others know of the receipts and of the notes stays so when t commits.
LEMMA KnownStays ==
  ASSUME ProcurementInv, DocumentsInv, Counted', NEW t, Ends(t, "done"),
         OrderCommit(t) \/ ReceiptCommit(t) \/ BillCommit(t) \/ PaymentCommit(t) \/ ReturnCommit(t) \/ NoteCommit(t),
         NEW u \in asks, u # t
  PROVE  Knows(u)'
<1>1. /\ asks' = asks /\ tx'[u] = tx[u] /\ (Open(u)' <=> Open(u)) /\ Seen(u)' = Seen(u)
      /\ \A r \in Rows : lock[r] = u => lock'[r] = u
  BY EndsMove DEF ProcurementInv
<1>2. Knows(u) /\ u \in Requests /\ Counted
  BY TxFields DEF DocumentsInv, ProcurementInv
<1>3. AcceptKnows(u)'
  <2> SUFFICES ASSUME u.op = "acceptGoods", Open(u), tx[u].at >= 2
               PROVE  lock'["order"] = u /\ (tx[u].at >= 3 => Seen(u).n = Accepted(u.doc)')
    BY <1>1 DEF AcceptKnows
  <2>1. lock["order"] = u /\ (tx[u].at >= 3 => Seen(u).n = Accepted(u.doc))
    BY <1>2 DEF Knows, AcceptKnows
  <2>2. lock'["order"] = u
    BY <1>1, <2>1 DEF Rows
  <2>3. Accepted(u.doc)' = Accepted(u.doc)
    <3>1. CASE ReceiptCommit(t)
      <4>1. ~AcceptGoods(t)
        BY <2>1, AcceptHolds
      <4>2. t.op # "acceptGoods"
        BY <3>1, <4>1 DEF ReceiptCommit, CreateReceipt, ReceiveGoods, InspectGoods, ApproveReceipt, RejectReceipt, CancelReceipt, Commits
      <4>3. PICK x, y : x = receipt[t.doc] /\ y = receipt'[t.doc]
        OBVIOUS
      <4>4. ReceiptTurns(t, x, y) /\ \A r \in Receipts : r # t.doc => receipt'[r] = receipt[r]
        BY <3>1, <4>3, ReceiptTurn DEF ReceiptTurned
      <4>5. TakenIn(y) = TakenIn(x)
        BY <4>2, <4>4 DEF ReceiptTurns, TakenIn
      <4> QED BY <4>3, <4>4, <4>5, AcceptedStays
    <3>2. CASE OrderCommit(t) \/ BillCommit(t) \/ PaymentCommit(t) \/ ReturnCommit(t) \/ NoteCommit(t)
      <4>1. receipt' = receipt
        BY <3>2, OrderTurn, BillTurn, PaymentTurn, ReturnTurn, NoteTurn DEF OnlyOrder
      <4> QED BY <4>1 DEF Accepted
    <3> QED BY <3>1, <3>2
  <2> QED BY <2>1, <2>2, <2>3
<1>4. NoteKnows(u)'
  <2> SUFFICES ASSUME u.op = "createNote", u.ref # "none", Open(u), tx[u].at >= 2
               PROVE  lock'[u.ref] = u /\ (tx[u].at >= 3 => Seen(u).n \in Nat /\ Noted(u.ref, u.doc)' <= Seen(u).n)
    BY <1>1 DEF NoteKnows
  <2>1. lock[u.ref] = u /\ (tx[u].at >= 3 => Seen(u).n \in Nat /\ Noted(u.ref, u.doc) <= Seen(u).n)
    BY <1>2 DEF Knows, NoteKnows
  <2>2. lock'[u.ref] = u
    <3>1. u.ref \in Rows
      BY <1>2, Sound DEF RequestSound, Rows, Documents
    <3> QED BY <1>1, <2>1, <3>1
  <2>3. Noted(u.ref, u.doc) \in Nat
    BY <1>2, NotedNumber
  <2>4. Noted(u.ref, u.doc)' \in Nat /\ Noted(u.ref, u.doc)' <= Noted(u.ref, u.doc)
    <3>1. CASE NoteCommit(t)
      <4>1. t.op = "createNote" => t.ref # u.ref
        <5>1. Commits(t, t.op)
          BY <3>1, NoteTurn
        <5> QED BY <2>1, <5>1, NoteHolds
      <4> QED BY <1>2, <3>1, <4>1, NotedLess
    <3>2. CASE OrderCommit(t) \/ ReceiptCommit(t) \/ BillCommit(t) \/ PaymentCommit(t) \/ ReturnCommit(t)
      <4>1. note' = note
        BY <3>2, OrderTurn, ReceiptTurn, BillTurn, PaymentTurn, ReturnTurn DEF OnlyOrder
      <4>2. Noted(u.ref, u.doc)' = Noted(u.ref, u.doc)
        BY <4>1 DEF Noted
      <4> QED BY <2>3, <4>2
    <3> QED BY <3>1, <3>2
  <2> QED BY <2>1, <2>2, <2>3, <2>4
<1> QED BY <1>3, <1>4 DEF Knows

LEMMA DocumentsCommitKeeps ==
  ASSUME ProcurementInv, DocumentsInv, NEW t, Ends(t, "done"),
         OrderCommit(t) \/ ReceiptCommit(t) \/ BillCommit(t) \/ PaymentCommit(t) \/ ReturnCommit(t) \/ NoteCommit(t)
  PROVE  DocumentsInv'
<1>1. Counted'
  BY CountedKept DEF DocumentsInv
<1>2. GoodsWithin' /\ NotesWithinReturn'
  BY <1>1, GoodsKept, NotesKept
<1>3. asks' = asks /\ ~Open(t)'
  BY EndsMove DEF ProcurementInv
<1>4. Knows(t)'
  BY <1>3 DEF Knows, AcceptKnows, NoteKnows
<1>5. \A u \in asks' : Knows(u)'
  BY <1>1, <1>3, <1>4, KnownStays
<1> QED BY <1>1, <1>2, <1>5 DEF DocumentsInv

\* A step of t that writes no document.
LEMMA DocumentsQuietKeeps ==
  ASSUME ProcurementInv, DocumentsInv, NEW t \in asks, UNCHANGED <<docs, asks>>, LocksHeld', Knows(t)',
         \A u \in asks : u # t => tx'[u] = tx[u] /\ (Open(u)' <=> Open(u)) /\ Seen(u)' = Seen(u),
         \A u \in asks, r \in Rows : u # t /\ lock[r] = u => lock'[r] = u
  PROVE  DocumentsInv'
<1>1. UNCHANGED <<order, receipt, bill, return, note, alloc, payments, supplier, stock>> /\ asks' = asks
  BY DEF docs
<1>2. Counted'
  BY <1>1, Uncounted, CountedNext DEF DocumentsInv
<1>3. /\ \A but : Accepted(but)' = Accepted(but)
      /\ \A v, but : Noted(v, but)' = Noted(v, but)
  BY <1>1 DEF Accepted, Noted
<1>4. GoodsWithin' /\ NotesWithinReturn'
  BY <1>1, <1>3 DEF DocumentsInv, GoodsWithin, AcceptedWithinOrdered, NotesWithinReturn
<1>5. ASSUME NEW u \in asks, u # t PROVE Knows(u)'
  <2>1. Knows(u) /\ u \in Requests
    BY TxFields DEF DocumentsInv, ProcurementInv
  <2>2. AcceptKnows(u)'
    BY <1>3, <1>5, <2>1 DEF Knows, AcceptKnows, Rows
  <2>3. NoteKnows(u)'
    <3>1. u.op = "createNote" /\ u.ref # "none" => u.ref \in Rows
      BY <2>1, Sound DEF RequestSound, Rows, Documents
    <3>2. SUFFICES ASSUME u.op = "createNote", u.ref # "none", Open(u), tx[u].at >= 2
                   PROVE  lock'[u.ref] = u /\ (tx[u].at >= 3 => Seen(u).n \in Nat /\ Noted(u.ref, u.doc) <= Seen(u).n)
      BY <1>3, <1>5 DEF NoteKnows
    <3> QED BY <1>5, <2>1, <3>1, <3>2 DEF Knows, NoteKnows
  <2> QED BY <2>2, <2>3 DEF Knows
<1>6. \A u \in asks' : Knows(u)'
  BY <1>1, <1>5
<1> QED BY <1>2, <1>4, <1>6 DEF DocumentsInv

LEMMA DocumentsSendKeeps ==
  ASSUME ProcurementInv, DocumentsInv, NEW t, Send(t)
  PROVE  DocumentsInv'
<1>1. /\ t \in asks /\ UNCHANGED <<docs, asks, lock>> /\ (Open(t)' => tx'[t].at = 1)
      /\ \A u \in asks : u # t => tx'[u] = tx[u] /\ (Open(u)' <=> Open(u)) /\ Seen(u)' = Seen(u)
  BY SendMoves DEF ProcurementInv
<1>2. LocksHeld'
  BY <1>1 DEF DocumentsInv, Counted, LocksHeld
<1>3. Knows(t)'
  BY <1>1 DEF Knows, AcceptKnows, NoteKnows
<1> QED BY <1>1, <1>2, <1>3, DocumentsQuietKeeps

LEMMA DocumentsRefuseKeeps ==
  ASSUME ProcurementInv, DocumentsInv, NEW t, Refuse(t)
  PROVE  DocumentsInv'
<1>1. Ends(t, "refused") /\ UNCHANGED docs
  BY DEF Refuse, Ends, AtEnd
<1>2. /\ t \in asks /\ asks' = asks /\ ~Open(t)'
      /\ \A u \in asks : u # t => tx'[u] = tx[u] /\ (Open(u)' <=> Open(u)) /\ Seen(u)' = Seen(u)
      /\ \A u \in asks, r \in Rows : u # t /\ lock[r] = u => lock'[r] = u
  BY <1>1, EndsMove DEF ProcurementInv
<1>3. LocksHeld'
  BY <1>1, LocksKept DEF DocumentsInv
<1>4. Knows(t)'
  BY <1>2 DEF Knows, AcceptKnows, NoteKnows
<1> QED BY <1>1, <1>2, <1>3, <1>4, DocumentsQuietKeeps

LEMMA DocumentsAdvanceKeeps ==
  ASSUME ProcurementInv, DocumentsInv, NEW t, Advance(t)
  PROVE  DocumentsInv'
<1>1. /\ t \in asks /\ UNCHANGED <<docs, asks>> /\ Open(t) /\ Open(t)'
      /\ tx[t].at \in 1 .. Len(Plan(t)) /\ tx'[t].at = tx[t].at + 1
      /\ \A u \in asks : u # t => tx'[u] = tx[u] /\ (Open(u)' <=> Open(u)) /\ Seen(u)' = Seen(u)
      /\ \A u \in asks, r \in Rows : lock[r] = u => lock'[r] = u
  BY AdvanceMoves DEF ProcurementInv
<1>2. \/ Plan(t)[tx[t].at] = "read" /\ Seen(t)' = Look(t)
      \/ /\ Plan(t)[tx[t].at] # "read" /\ Seen(t)' = Seen(t)
         /\ Plan(t)[tx[t].at] \in Rows => lock'[Plan(t)[tx[t].at]] = t
  BY AdvanceMoves DEF ProcurementInv
<1>3. UNCHANGED <<receipt, note>>
  BY <1>1 DEF docs
<1>4. Knows(t) /\ t \in Requests /\ RequestSound(t) /\ tx[t].at \in Nat /\ Counted
  BY <1>1, TxFields, Sound DEF DocumentsInv, ProcurementInv
<1>5. LocksHeld'
  <2>1. \A r \in Rows : lock[r] \in asks \cup {Free}
    BY DEF DocumentsInv, Counted
  <2>2. lock = [r \in Rows |-> lock[r]]
    BY DEF ProcurementInv, RequestsShaped
  <2>3. PICK step : step = Plan(t)[tx[t].at]
    OBVIOUS
  <2>4. lock' = lock \/ lock' = [lock EXCEPT ![step] = t]
    BY <2>3 DEF Advance
  <2>5. \A r \in Rows : lock'[r] \in {lock[r], t}
    BY <2>2, <2>4
  <2> QED BY <1>1, <2>1, <2>5 DEF LocksHeld
<1>6. /\ \A but : Accepted(but)' = Accepted(but)
      /\ \A v, but : Noted(v, but)' = Noted(v, but)
  BY <1>3 DEF Accepted, Noted
<1>7. AcceptKnows(t)'
  <2> SUFFICES ASSUME t.op = "acceptGoods"
               PROVE  lock'["order"] = t /\ (tx'[t].at >= 3 => Seen(t)'.n = Accepted(t.doc))
    BY <1>6 DEF AcceptKnows
  <2>1. Plan(t) = <<"order", "read", t.doc, "supplier">> /\ t.doc # "read"
    BY <1>4, Sound DEF Plan, AcceptPlan, RequestSound, IdsApart, Documents
  <2>2. "order" \in Rows
    BY DEF Rows
  <2>3. CASE tx[t].at = 1
    BY <1>1, <1>2, <2>1, <2>2, <2>3
  <2>4. CASE tx[t].at = 2
    <3>1. Seen(t)' = Look(t) /\ lock'["order"] = t
      BY <1>1, <1>2, <1>4, <2>1, <2>2, <2>4 DEF Knows, AcceptKnows
    <3>2. PICK a, k : a = Accepted(t.doc) /\ k = (~supplier.deleted)
      OBVIOUS
    <3>3. Look(t) = [n |-> a, ok |-> k]
      BY <3>2 DEF Look
    <3>4. Look(t).n = a
      BY <3>3
    <3> QED BY <3>1, <3>2, <3>4
  <2>5. CASE tx[t].at \in {3, 4}
    <3>1. Seen(t)' = Seen(t) /\ lock'["order"] = t
      BY <1>1, <1>2, <1>4, <2>1, <2>2, <2>5 DEF Knows, AcceptKnows
    <3> QED BY <1>1, <1>4, <2>5, <3>1 DEF Knows, AcceptKnows
  <2> QED BY <1>1, <2>1, <2>3, <2>4, <2>5
<1>8. NoteKnows(t)'
  <2> SUFFICES ASSUME t.op = "createNote", t.ref # "none"
               PROVE  lock'[t.ref] = t /\ (tx'[t].at >= 3 => Seen(t)'.n \in Nat /\ Noted(t.ref, t.doc) <= Seen(t)'.n)
    BY <1>6 DEF NoteKnows
  <2>1. Plan(t) = <<t.ref, "read">> /\ t.ref \in Rows /\ t.ref # "read"
    BY <1>4, Sound DEF Plan, NotePlan, RequestSound, Rows, Documents, IdsApart
  <2>3. CASE tx[t].at = 1
    BY <1>1, <1>2, <2>1, <2>3
  <2>4. CASE tx[t].at = 2
    <3>1. Seen(t)' = Look(t) /\ lock'[t.ref] = t
      BY <1>1, <1>2, <1>4, <2>1, <2>4 DEF Knows, NoteKnows
    <3>2. PICK a, k : a = Noted(t.ref, t.doc) /\ k = (~supplier.deleted)
      OBVIOUS
    <3>3. Look(t) = [n |-> a, ok |-> k]
      BY <3>2 DEF Look
    <3>4. Look(t).n = a /\ a \in Nat
      BY <1>4, <3>2, <3>3, NotedNumber
    <3> QED BY <3>1, <3>2, <3>4
  <2> QED BY <1>1, <2>1, <2>3, <2>4
<1>9. Knows(t)'
  BY <1>7, <1>8 DEF Knows
<1> QED BY <1>1, <1>5, <1>9, DocumentsQuietKeeps

\* A shop without payments and notes.
LEMMA StartsFresh ==
  ASSUME Init
  PROVE  \E d \in Desk :
           /\ ShopSound(d.shop) /\ order = d.shop.order /\ receipt = d.shop.receipt /\ bill = d.shop.bill
           /\ return = d.shop.return /\ supplier = d.shop.supplier /\ posted = d.shop.posted /\ stock = d.shop.stock
           /\ note = [n \in Notes |-> NoNote] /\ alloc = [p \in Notes \X Bills |-> 0] /\ payments = {}
           /\ lock = [r \in Rows |-> Free] /\ \A t \in asks : ~Open(t)
<1>1. PICK d \in Desk :
        /\ order = d.shop.order /\ receipt = d.shop.receipt /\ bill = d.shop.bill
        /\ return = d.shop.return /\ supplier = d.shop.supplier /\ posted = d.shop.posted /\ stock = d.shop.stock
        /\ note = [n \in Notes |-> NoNote] /\ alloc = [p \in Notes \X Bills |-> 0] /\ payments = {}
        /\ lock = [r \in Rows |-> Free] /\ asks = d.asks
        /\ tx = [t \in d.asks |-> [at |-> 0, end |-> "no", seen |-> [n |-> 0, ok |-> FALSE]]]
  BY DEF Init
<1>2. PICK blank : blank = [at |-> 0, end |-> "no", seen |-> [n |-> 0, ok |-> FALSE]]
  OBVIOUS
<1>3. blank.at = 0
  BY <1>2
<1>4. tx = [t \in asks |-> blank]
  BY <1>1, <1>2
<1>5. \A t \in asks : ~Open(t)
  BY <1>3, <1>4 DEF Open
<1>6. ShopSound(d.shop)
  BY DesksAssumption
<1> QED BY <1>1, <1>5, <1>6

LEMMA DocumentsStart ==
  ASSUME Init
  PROVE  DocumentsInv
<1>1. PICK d \in Desk :
        /\ ShopSound(d.shop) /\ order = d.shop.order /\ receipt = d.shop.receipt /\ bill = d.shop.bill
        /\ return = d.shop.return /\ supplier = d.shop.supplier /\ posted = d.shop.posted /\ stock = d.shop.stock
        /\ note = [n \in Notes |-> NoNote] /\ alloc = [p \in Notes \X Bills |-> 0] /\ payments = {}
        /\ lock = [r \in Rows |-> Free] /\ \A t \in asks : ~Open(t)
  BY StartsFresh
<1>2. ShopCounts(d.shop) /\ ShopBooked(d.shop) /\ \A b \in Bills : bill[b].outstanding \in Nat
  BY <1>1 DEF ShopSound
<1>3. PICK goods, billed, sent :
        /\ goods = SumFunctionOnSet([r \in Receipts |-> TakenIn(receipt[r])], Receipts)
        /\ billed = SumFunctionOnSet([b \in Bills |-> PostedFor(bill[b])], Bills)
        /\ sent = SumFunctionOnSet([v \in Returns |-> SentBack(return[v])], Returns)
  OBVIOUS
<1>4. /\ order.qty \in Nat /\ order.status \in DOMAIN OrderMoves /\ (\A r \in Receipts : ReceiptCounts(receipt[r])) /\ (\A b \in Bills : BillCounts(bill[b]))
      /\ (\A v \in Returns : return[v].qty \in Nat)
      /\ DOMAIN supplier = {"pending", "opening", "deleted"} /\ supplier.opening \in Int
  BY <1>1, <1>2 DEF ShopSound, ShopCounts, ReceiptCounts, BillCounts
<1>5. goods \in Int /\ billed \in Int /\ sent \in Int
  <2>1. PICK f, g, h : /\ f = [r \in Receipts |-> TakenIn(receipt[r])] /\ g = [b \in Bills |-> PostedFor(bill[b])]
                       /\ h = [v \in Returns |-> SentBack(return[v])]
    OBVIOUS
  <2>2. (\A r \in Receipts : f[r] \in Int) /\ (\A b \in Bills : g[b] \in Int) /\ (\A v \in Returns : h[v] \in Int)
    BY <1>4, <2>1, ReceiptNumber, BillNumber, ReturnNumber
  <2> QED BY <1>3, <2>1, <2>2, ProcurementAssumption, SumInt
<1>6. /\ goods <= order.qty /\ (order.status \in {"NONE", "DRAFT"} => goods = 0)
      /\ supplier.pending = supplier.opening + goods * Cost + billed - sent * Cost
      /\ stock = goods - sent
  BY <1>1, <1>2, <1>3 DEF ShopBooked
<1>7. supplier.pending \in Int /\ stock \in Int
  <2>1. goods * Cost \in Int /\ sent * Cost \in Int
    <3>1. Cost \in Int
      BY ProcurementAssumption
    <3> QED BY <1>5, <3>1
  <2> QED BY <1>4, <1>5, <1>6, <2>1
<1>8. \A n \in Notes : NoteCounts(note[n]) /\ \A v : NotedFor(note[n], v) = 0
  BY <1>1 DEF NoteCounts, NoNote, NotedFor
<1>9. PaymentsCounted
  BY <1>1, FS_EmptySet DEF PaymentsCounted
<1>10. Counted
  BY <1>1, <1>4, <1>7, <1>8, <1>9 DEF Counted
<1>11. GoodsWithin
  <2>1. Receipts \ {"none"} = Receipts
    BY DesksAssumption DEF IdsApart, Documents
  <2>2. Accepted("none") = goods
    BY <1>3, <2>1 DEF Accepted
  <2> QED BY <1>6, <2>2 DEF GoodsWithin, AcceptedWithinOrdered
<1>12. ASSUME NEW v, NEW but PROVE Noted(v, but) = 0
  <2>1. PICK f, S : f = [n \in Notes |-> NotedFor(note[n], v)] /\ S = Notes \ {but}
    OBVIOUS
  <2>2. IsFiniteSet(S) /\ \A n \in S : f[n] = 0
    BY <1>8, <2>1, ProcurementAssumption, FS_Subset
  <2> QED BY <2>1, <2>2, SumZero DEF Noted
<1>13. NotesWithinReturn
  BY <1>12 DEF NotesWithinReturn
<1>14. \A t \in asks : Knows(t)
  BY <1>1 DEF Knows, AcceptKnows, NoteKnows
<1> QED BY <1>10, <1>11, <1>13, <1>14 DEF DocumentsInv

LEMMA DocumentsStepsKeep ==
  ASSUME ProcurementInv, DocumentsInv, [Next]_vars
  PROVE  DocumentsInv'
<1>1. CASE UNCHANGED vars
  <2>1. UNCHANGED <<order, receipt, bill, return, note, alloc, payments, supplier, posted, stock, asks, tx, lock>>
    BY <1>1 DEF vars, docs
  <2>2. Counted'
    BY <2>1, Uncounted, CountedNext DEF DocumentsInv, Counted, LocksHeld
  <2>3. /\ \A but : Accepted(but)' = Accepted(but)
        /\ \A v, but : Noted(v, but)' = Noted(v, but)
    BY <2>1 DEF Accepted, Noted
  <2>4. \A t \in asks' : Knows(t)'
    BY <2>1, <2>3 DEF DocumentsInv, Knows, AcceptKnows, NoteKnows, Open, Seen
  <2>5. GoodsWithin' /\ NotesWithinReturn'
    BY <2>1, <2>3 DEF DocumentsInv, GoodsWithin, AcceptedWithinOrdered, NotesWithinReturn
  <2> QED BY <2>2, <2>4, <2>5 DEF DocumentsInv
<1>2. ASSUME NEW t \in Requests, Handle(t) PROVE DocumentsInv'
  <2>1. \/ Send(t) \/ Advance(t) \/ Refuse(t)
        \/ OrderCommit(t) \/ ReceiptCommit(t) \/ BillCommit(t) \/ PaymentCommit(t) \/ ReturnCommit(t) \/ NoteCommit(t)
    BY <1>2 DEF Handle, OrderCommit, ReceiptCommit, BillCommit, PaymentCommit, ReturnCommit, NoteCommit
  <2>2. CASE Send(t) \/ Advance(t) \/ Refuse(t)
    BY <2>2, DocumentsSendKeeps, DocumentsAdvanceKeeps, DocumentsRefuseKeeps
  <2>3. CASE OrderCommit(t) \/ ReceiptCommit(t) \/ BillCommit(t) \/ PaymentCommit(t) \/ ReturnCommit(t) \/ NoteCommit(t)
    <3>1. Ends(t, "done")
      BY <2>3, OrderCommits, ReceiptCommits, BillCommits, PaymentCommits, ReturnCommits, NoteCommits
    <3> QED BY <2>3, <3>1, DocumentsCommitKeeps
  <2> QED BY <2>1, <2>2, <2>3
<1> QED BY <1>1, <1>2 DEF Next

\* Every receipt's goods fit into the order and every note of a return into its value,
\* and each request that is about to add to them knows all the others' by heart.
THEOREM DocumentsStayWithin == Spec => []DocumentsInv
<1>1. Init => DocumentsInv
  BY DocumentsStart
<1>2. ProcurementInv /\ DocumentsInv /\ [Next]_vars => DocumentsInv'
  BY DocumentsStepsKeep
<1> QED BY <1>1, <1>2, ProcurementStaysSound, PTL DEF Spec

\* However many receipts of one order are accepted at the same time, and however many
\* notes are raised for one return, no more is accepted than was ordered and no more
\* credited than went back; every document is in a status of its life cycle, approved
\* by someone else than who asked (PurchaseReceiptService, acceptGoods and
\* SupplierCreditValidationService).
THEOREM DocumentsStaySound == Spec => []DocumentsSound
<1>1. ProcurementInv /\ DocumentsInv => TypeOK
  <2> SUFFICES ASSUME ProcurementInv, DocumentsInv PROVE TypeOK
    OBVIOUS
  <2>1. Counted /\ TablesSound
    BY DEF ProcurementInv, DocumentsInv
  <2> QED BY <2>1 DEF TypeOK, Counted, TablesSound, TableSound, ReceiptCounts
<1>2. DocumentsInv => AcceptedWithinOrdered /\ NotesWithinReturn
  BY DEF DocumentsInv, GoodsWithin
<1>3. ProcurementInv => DutiesSeparated
  BY DEF ProcurementInv, TablesSound, TableSound, RowSound, OrderSound, DutiesSeparated
<1> QED BY <1>1, <1>2, <1>3, ProcurementStaysSound, DocumentsStayWithin, PTL DEF DocumentsSound

-----------------------------------------------------------------------------
(* The books: their sums, and how one row moves each of them *)

LEMMA BooksNumbers ==
  ASSUME Counted
  PROVE  /\ Accepted("none") \in Int /\ BilledMore \in Int /\ Sent \in Int /\ TakenBack \in Int /\ Paid \in Int
         /\ (\A v : Credited(v) \in Nat) /\ \A v \in Returns : Above(v) \in Nat
<1>1. Accepted("none") \in Int /\ \A v : Credited(v) \in Nat
  BY AcceptedNumber, CreditedNumber
<1>2. BilledMore \in Int
  <2>1. PICK f : f = [b \in Bills |-> PostedFor(bill[b])]
    OBVIOUS
  <2>2. \A b \in Bills : f[b] \in Int
    BY <2>1, BillNumber DEF Counted
  <2> QED BY <2>1, <2>2, ProcurementAssumption, SumInt DEF BilledMore
<1>3. Sent \in Int
  <2>1. PICK f : f = [v \in Returns |-> SentBack(return[v])]
    OBVIOUS
  <2>2. \A v \in Returns : f[v] \in Int
    BY <2>1, ReturnNumber DEF Counted
  <2> QED BY <2>1, <2>2, ProcurementAssumption, SumInt DEF Sent
<1>4. \A v \in Returns : Above(v) \in Nat
  <2> SUFFICES ASSUME NEW v \in Returns PROVE Above(v) \in Nat
    OBVIOUS
  <2>1. PICK c, q : c = Credited(v) /\ q = return[v].qty * Cost
    OBVIOUS
  <2>2. c \in Nat /\ q \in Nat
    BY <1>1, <2>1, ReturnNumber DEF Counted
  <2>3. Floor(c - q) \in Nat
    BY <2>2 DEF Floor
  <2> QED BY <2>1, <2>3 DEF Above
<1>5. TakenBack \in Int
  <2>1. PICK f : f = [v \in Returns |-> Above(v)]
    OBVIOUS
  <2>2. \A v \in Returns : f[v] \in Int
    BY <1>4, <2>1
  <2> QED BY <2>1, <2>2, ProcurementAssumption, SumInt DEF TakenBack
<1>6. Paid \in Int
  <2>1. PICK f : f = [p \in payments |-> p.amount]
    OBVIOUS
  <2>2. IsFiniteSet(payments) /\ \A p \in payments : f[p] \in Int
    BY <2>1 DEF Counted, PaymentsCounted
  <2> QED BY <2>1, <2>2, SumInt DEF Paid
<1> QED BY <1>1, <1>2, <1>3, <1>4, <1>5, <1>6

LEMMA BillNumbers ==
  ASSUME Counted, NEW b \in Bills
  PROVE  PaidOf(b) \in Int /\ AppliedTo(b) \in Int
<1>1. PaidOf(b) \in Int
  <2>1. PICK f : f = [p \in payments |-> IF p.bill = b THEN p.amount ELSE 0]
    OBVIOUS
  <2>2. IsFiniteSet(payments) /\ \A p \in payments : f[p] \in Int
    BY <2>1 DEF Counted, PaymentsCounted
  <2> QED BY <2>1, <2>2, SumInt DEF PaidOf
<1>2. AppliedTo(b) \in Int
  <2>1. PICK f : f = [n \in Notes |-> alloc[<<n, b>>]]
    OBVIOUS
  <2>2. \A n \in Notes : f[n] \in Int
    BY <2>1 DEF Counted
  <2> QED BY <2>1, <2>2, ProcurementAssumption, SumInt DEF AppliedTo
<1> QED BY <1>1, <1>2

LEMMA NoteNumbers ==
  ASSUME Counted, NEW n \in Notes
  PROVE  GivenOut(n) \in Int
<1>1. PICK f : f = [b \in Bills |-> alloc[<<n, b>>]]
  OBVIOUS
<1>2. \A b \in Bills : f[b] \in Int
  BY <1>1 DEF Counted
<1> QED BY <1>1, <1>2, ProcurementAssumption, SumInt DEF GivenOut

\* What is not written adds up to what it did.
LEMMA SumsStay ==
  /\ receipt' = receipt => Accepted("none")' = Accepted("none")
  /\ bill' = bill => BilledMore' = BilledMore
  /\ return' = return => Sent' = Sent
  /\ note' = note => \A v : Credited(v)' = Credited(v)
  /\ note' = note /\ return' = return => TakenBack' = TakenBack
  /\ payments' = payments => Paid' = Paid /\ \A b : PaidOf(b)' = PaidOf(b)
  /\ alloc' = alloc => (\A b : AppliedTo(b)' = AppliedTo(b)) /\ \A n : GivenOut(n)' = GivenOut(n)
<1>1. receipt' = receipt => Accepted("none")' = Accepted("none")
  BY DEF Accepted
<1>2. bill' = bill => BilledMore' = BilledMore
  BY DEF BilledMore
<1>3. return' = return => Sent' = Sent
  BY DEF Sent
<1>4. note' = note => \A v : Credited(v)' = Credited(v)
  BY DEF Credited
<1>5. ASSUME note' = note, return' = return PROVE TakenBack' = TakenBack
  <2>1. \A v \in Returns : Above(v)' = Above(v)
    BY <1>4, <1>5 DEF Above
  <2> QED BY <2>1 DEF TakenBack
<1>6. payments' = payments => Paid' = Paid /\ \A b : PaidOf(b)' = PaidOf(b)
  BY DEF Paid, PaidOf
<1>7. alloc' = alloc => (\A b : AppliedTo(b)' = AppliedTo(b)) /\ \A n : GivenOut(n)' = GivenOut(n)
  BY DEF AppliedTo, GivenOut
<1> QED BY <1>1, <1>2, <1>3, <1>4, <1>5, <1>6, <1>7

LEMMA BilledMoves ==
  ASSUME Counted, Counted', NEW d \in Bills, \A b \in Bills : b # d => bill'[b] = bill[b]
  PROVE  BilledMore' = BilledMore + (PostedFor(bill'[d]) - PostedFor(bill[d]))
<1>1. PICK f, g : f = [b \in Bills |-> PostedFor(bill[b])] /\ g = [b \in Bills |-> PostedFor(bill'[b])]
  OBVIOUS
<1>2. \A b \in Bills : BillCounts(bill[b]) /\ BillCounts(bill'[b])
  BY DEF Counted
<1>3. \A b \in Bills : PostedFor(bill[b]) \in Int /\ PostedFor(bill'[b]) \in Int
  BY <1>2, BillNumber
<1>4. (\A b \in Bills : f[b] \in Int /\ g[b] \in Int) /\ \A b \in Bills : b # d => g[b] = f[b]
  BY <1>1, <1>3
<1>5. SumFunctionOnSet(g, Bills) = SumFunctionOnSet(f, Bills) + (g[d] - f[d])
  BY <1>4, ProcurementAssumption, SumChange
<1> QED BY <1>1, <1>5 DEF BilledMore

LEMMA SentMoves ==
  ASSUME Counted, Counted', NEW d \in Returns, \A v \in Returns : v # d => return'[v] = return[v]
  PROVE  Sent' = Sent + (SentBack(return'[d]) - SentBack(return[d]))
<1>1. PICK f, g : f = [v \in Returns |-> SentBack(return[v])] /\ g = [v \in Returns |-> SentBack(return'[v])]
  OBVIOUS
<1>2. \A v \in Returns : return[v].qty \in Nat /\ return'[v].qty \in Nat
  BY DEF Counted
<1>3. \A v \in Returns : SentBack(return[v]) \in Int /\ SentBack(return'[v]) \in Int
  BY <1>2, ReturnNumber
<1>4. (\A v \in Returns : f[v] \in Int /\ g[v] \in Int) /\ \A v \in Returns : v # d => g[v] = f[v]
  BY <1>1, <1>3
<1>5. SumFunctionOnSet(g, Returns) = SumFunctionOnSet(f, Returns) + (g[d] - f[d])
  BY <1>4, ProcurementAssumption, SumChange
<1> QED BY <1>1, <1>5 DEF Sent

LEMMA CreditedMoves ==
  ASSUME Counted, Counted', NEW d \in Notes, \A n \in Notes : n # d => note'[n] = note[n], NEW v
  PROVE  Credited(v)' = Credited(v) + (CreditedFor(note'[d], v) - CreditedFor(note[d], v))
<1>1. PICK f, g : f = [n \in Notes |-> CreditedFor(note[n], v)] /\ g = [n \in Notes |-> CreditedFor(note'[n], v)]
  OBVIOUS
<1>2. \A n \in Notes : NoteCounts(note[n]) /\ NoteCounts(note'[n])
  BY DEF Counted
<1>3. \A n \in Notes : CreditedFor(note[n], v) \in Int /\ CreditedFor(note'[n], v) \in Int
  BY <1>2, NoteNumber
<1>4. (\A n \in Notes : f[n] \in Int /\ g[n] \in Int) /\ \A n \in Notes : n # d => g[n] = f[n]
  BY <1>1, <1>3
<1>5. SumFunctionOnSet(g, Notes) = SumFunctionOnSet(f, Notes) + (g[d] - f[d])
  BY <1>4, ProcurementAssumption, SumChange
<1> QED BY <1>1, <1>5 DEF Credited

LEMMA TakenBackMoves ==
  ASSUME Counted, Counted', NEW d \in Returns, \A v \in Returns : v # d => Above(v)' = Above(v)
  PROVE  TakenBack' = TakenBack + (Above(d)' - Above(d))
<1>1. PICK f, g : f = [v \in Returns |-> Above(v)] /\ g = [v \in Returns |-> Above(v)']
  OBVIOUS
<1>2. \A v \in Returns : Above(v) \in Int
  BY BooksNumbers
<1>3. \A v \in Returns : Above(v)' \in Int
  <2> SUFFICES ASSUME NEW v \in Returns PROVE Above(v)' \in Int
    OBVIOUS
  <2>1. Credited(v)' \in Int
    <3>1. PICK h : h = [n \in Notes |-> CreditedFor(note'[n], v)]
      OBVIOUS
    <3>2. \A n \in Notes : NoteCounts(note'[n])
      BY DEF Counted
    <3>3. \A n \in Notes : h[n] \in Int
      BY <3>1, <3>2, NoteNumber
    <3> QED BY <3>1, <3>3, ProcurementAssumption, SumInt DEF Credited
  <2>2. return'[v].qty * Cost \in Nat
    <3>1. return'[v].qty \in Nat
      BY DEF Counted
    <3> QED BY <3>1, ReturnNumber
  <2> QED BY <2>1, <2>2 DEF Above, Floor
<1>4. (\A v \in Returns : f[v] \in Int /\ g[v] \in Int) /\ \A v \in Returns : v # d => g[v] = f[v]
  BY <1>1, <1>2, <1>3
<1>5. SumFunctionOnSet(g, Returns) = SumFunctionOnSet(f, Returns) + (g[d] - f[d])
  BY <1>4, ProcurementAssumption, SumChange
<1> QED BY <1>1, <1>5 DEF TakenBack

LEMMA PaidMoves ==
  ASSUME Counted, Counted', NEW p, p \notin payments, payments' = payments \cup {p}
  PROVE  /\ Paid' = Paid + p.amount /\ p.amount \in Nat
         /\ \A b \in Bills : PaidOf(b)' = PaidOf(b) + (IF p.bill = b THEN p.amount ELSE 0)
<1>1. IsFiniteSet(payments) /\ \A q \in payments \cup {p} : q.amount \in Nat
  BY DEF Counted, PaymentsCounted
<1>2. Paid' = Paid + p.amount
  <2>1. PICK f, g : f = [q \in payments |-> q.amount] /\ g = [q \in payments \cup {p} |-> q.amount]
    OBVIOUS
  <2>2. (\A q \in payments \cup {p} : g[q] \in Int) /\ (\A q \in payments : g[q] = f[q] /\ f[q] \in Int) /\ g[p] = p.amount
    BY <1>1, <2>1
  <2>3. SumFunctionOnSet(g, payments \cup {p}) = g[p] + SumFunctionOnSet(g, payments)
    BY <1>1, <2>2, SumExtend
  <2>4. SumFunctionOnSet(g, payments) = SumFunctionOnSet(f, payments) /\ SumFunctionOnSet(f, payments) \in Int
    BY <1>1, <2>2, SumAgree, SumInt
  <2>5. Paid = SumFunctionOnSet(f, payments) /\ Paid' = SumFunctionOnSet(g, payments \cup {p})
    BY <2>1 DEF Paid
  <2> QED BY <1>1, <2>2, <2>3, <2>4, <2>5
<1>3. ASSUME NEW b \in Bills PROVE PaidOf(b)' = PaidOf(b) + (IF p.bill = b THEN p.amount ELSE 0)
  <2>1. PICK f, g : /\ f = [q \in payments |-> IF q.bill = b THEN q.amount ELSE 0]
                    /\ g = [q \in payments \cup {p} |-> IF q.bill = b THEN q.amount ELSE 0]
    OBVIOUS
  <2>2. /\ (\A q \in payments \cup {p} : g[q] \in Int) /\ (\A q \in payments : g[q] = f[q] /\ f[q] \in Int)
        /\ g[p] = IF p.bill = b THEN p.amount ELSE 0
    BY <1>1, <2>1
  <2>3. SumFunctionOnSet(g, payments \cup {p}) = g[p] + SumFunctionOnSet(g, payments)
    BY <1>1, <2>2, SumExtend
  <2>4. SumFunctionOnSet(g, payments) = SumFunctionOnSet(f, payments) /\ SumFunctionOnSet(f, payments) \in Int
    BY <1>1, <2>2, SumAgree, SumInt
  <2>5. PaidOf(b) = SumFunctionOnSet(f, payments) /\ PaidOf(b)' = SumFunctionOnSet(g, payments \cup {p})
    BY <2>1 DEF PaidOf
  <2>6. g[p] \in Int
    BY <2>2
  <2> QED BY <2>2, <2>3, <2>4, <2>5, <2>6
<1> QED BY <1>1, <1>2, <1>3

\* Note d gives k more to bill c.
LEMMA AppliedMoves ==
  ASSUME Counted, NEW d \in Notes, NEW c \in Bills, NEW k \in Nat, alloc' = [alloc EXCEPT ![<<d, c>>] = @ + k]
  PROVE  /\ AppliedTo(c)' = AppliedTo(c) + k /\ \A b \in Bills : b # c => AppliedTo(b)' = AppliedTo(b)
         /\ GivenOut(d)' = GivenOut(d) + k /\ \A n \in Notes : n # d => GivenOut(n)' = GivenOut(n)
<1>1. PICK e : e = <<d, c>>
  OBVIOUS
<1>2. alloc = [p \in Notes \X Bills |-> alloc[p]] /\ \A p \in Notes \X Bills : alloc[p] \in Nat
  BY DEF Counted
<1>3. e \in Notes \X Bills /\ alloc' = [alloc EXCEPT ![e] = alloc[e] + k]
  BY <1>1
<1>4. \A p \in Notes \X Bills : alloc'[p] = IF p = e THEN alloc[e] + k ELSE alloc[p]
  BY <1>2, <1>3, RowWritten
<1>5. \A n \in Notes, b \in Bills : /\ alloc[<<n, b>>] \in Nat
                                    /\ alloc'[<<n, b>>] = IF n = d /\ b = c THEN alloc[<<n, b>>] + k ELSE alloc[<<n, b>>]
  BY <1>1, <1>2, <1>4
<1>6. AppliedTo(c)' = AppliedTo(c) + k
  <2>1. PICK f, g : f = [n \in Notes |-> alloc[<<n, c>>]] /\ g = [n \in Notes |-> alloc'[<<n, c>>]]
    OBVIOUS
  <2>2. (\A n \in Notes : f[n] \in Int /\ g[n] \in Int) /\ (\A n \in Notes : n # d => g[n] = f[n]) /\ g[d] = f[d] + k
    BY <1>5, <2>1
  <2>3. SumFunctionOnSet(g, Notes) = SumFunctionOnSet(f, Notes) + (g[d] - f[d]) /\ g[d] - f[d] = k
    BY <2>2, ProcurementAssumption, SumChange
  <2> QED BY <2>1, <2>3 DEF AppliedTo
<1>7. GivenOut(d)' = GivenOut(d) + k
  <2>1. PICK f, g : f = [b \in Bills |-> alloc[<<d, b>>]] /\ g = [b \in Bills |-> alloc'[<<d, b>>]]
    OBVIOUS
  <2>2. (\A b \in Bills : f[b] \in Int /\ g[b] \in Int) /\ (\A b \in Bills : b # c => g[b] = f[b]) /\ g[c] = f[c] + k
    BY <1>5, <2>1
  <2>3. SumFunctionOnSet(g, Bills) = SumFunctionOnSet(f, Bills) + (g[c] - f[c]) /\ g[c] - f[c] = k
    BY <2>2, ProcurementAssumption, SumChange
  <2> QED BY <2>1, <2>3 DEF GivenOut
<1>8. ASSUME NEW b \in Bills, b # c PROVE AppliedTo(b)' = AppliedTo(b)
  <2>1. \A n \in Notes : alloc'[<<n, b>>] = alloc[<<n, b>>]
    BY <1>5, <1>8
  <2> QED BY <2>1 DEF AppliedTo
<1>9. ASSUME NEW n \in Notes, n # d PROVE GivenOut(n)' = GivenOut(n)
  <2>1. \A b \in Bills : alloc'[<<n, b>>] = alloc[<<n, b>>]
    BY <1>5, <1>9
  <2> QED BY <2>1 DEF GivenOut
<1> QED BY <1>6, <1>7, <1>8, <1>9

\* The books stay balanced when every sum moves with the balance.
LEMMA BooksMove ==
  ASSUME Counted, BooksFollowDocuments,
         NEW da \in Int, NEW db \in Int, NEW ds \in Int, NEW dt \in Int, NEW dc \in Int, NEW dp \in Int,
         Accepted("none")' = Accepted("none") + da, BilledMore' = BilledMore + db, Sent' = Sent + ds,
         TakenBack' = TakenBack + dt, Credited("none")' = Credited("none") + dc, Paid' = Paid + dp,
         supplier'.opening = supplier.opening, stock' = stock + (da - ds),
         supplier'.pending = supplier.pending + ((da * Cost + db) - (ds * Cost + dt + dc + dp))
  PROVE  BooksFollowDocuments'
<1>1. PICK a, b, s, k, c, p, m, o, y : /\ a = Accepted("none") /\ b = BilledMore /\ s = Sent /\ k = TakenBack
                                       /\ c = Credited("none") /\ p = Paid /\ m = supplier.pending /\ o = supplier.opening /\ y = stock
  OBVIOUS
<1>2. /\ a \in Int /\ b \in Int /\ s \in Int /\ k \in Int /\ c \in Int /\ p \in Int /\ m \in Int /\ o \in Int /\ y \in Int
      /\ Cost \in Int
  BY <1>1, BooksNumbers, CountedParts, ProcurementAssumption DEF SupplierShape
<1>3. /\ (a + da) * Cost = a * Cost + da * Cost /\ (s + ds) * Cost = s * Cost + ds * Cost
      /\ a * Cost \in Int /\ s * Cost \in Int /\ da * Cost \in Int /\ ds * Cost \in Int
  BY <1>2
<1>4. m = o + a * Cost + b - s * Cost - k - c - p /\ y = a - s
  BY <1>1 DEF BooksFollowDocuments
<1>5. /\ m + ((da * Cost + db) - (ds * Cost + dt + dc + dp))
           = o + (a + da) * Cost + (b + db) - (s + ds) * Cost - (k + dt) - (c + dc) - (p + dp)
      /\ y + (da - ds) = (a + da) - (s + ds)
  <2>1. PICK ac, sc, dac, dsc : ac = a * Cost /\ sc = s * Cost /\ dac = da * Cost /\ dsc = ds * Cost
    OBVIOUS
  <2>2. ac \in Int /\ sc \in Int /\ dac \in Int /\ dsc \in Int /\ (a + da) * Cost = ac + dac /\ (s + ds) * Cost = sc + dsc
    BY <1>3, <2>1
  <2>3. m = o + ac + b - sc - k - c - p
    BY <1>4, <2>1
  <2>4. m + ((dac + db) - (dsc + dt + dc + dp)) = o + (ac + dac) + (b + db) - (sc + dsc) - (k + dt) - (c + dc) - (p + dp)
    BY <1>2, <2>2, <2>3
  <2> QED BY <1>2, <1>4, <2>1, <2>2, <2>4
<1> QED BY <1>1, <1>5 DEF BooksFollowDocuments

-----------------------------------------------------------------------------
(* What is owed, from one commit to the next *)

\* The amounts of one bill.
LEMMA SettledTurns ==
  ASSUME NEW x, NEW y, BillCounts(x), BillCounts(y), NEW p \in Int, NEW a \in Int, NEW t, t.n \in Nat, t.price \in Nat, SettledAt(x, p, a)
  PROVE  /\ BillCreated(t, x, y) => SettledAt(y, p, a) /\ PostedFor(x) = 0 /\ PostedFor(y) = 0
         /\ BillAside(x, y) => SettledAt(y, p, a) /\ PostedFor(x) = 0 /\ PostedFor(y) = 0
         /\ BillPosted(x, y) => /\ SettledAt(y, p, a) /\ PostedFor(x) = 0 /\ PostedFor(y) = BillTotal(x) - x.qty * Cost
                                /\ OnBooks(y) /\ ~OnBooks(x)
         /\ BillSettles(t, x, y) => /\ y.paid = x.paid + t.n => SettledAt(y, p + t.n, a)
                                    /\ y.paid = x.paid => SettledAt(y, p, a + t.n)
                                    /\ PostedFor(y) = PostedFor(x) /\ OnBooks(y)
<1>1. PICK k, m : k = BillTotal(x) /\ m = BillTotal(y)
  OBVIOUS
<1>2. k \in Nat /\ m \in Nat
  BY <1>1, BillNumber
<1>3. p = x.paid /\ (x.paid + a) + x.outstanding = k /\ (x.status \notin {"PARTIALLY_PAID", "PAID"} => x.outstanding = k)
  BY <1>1 DEF SettledAt
<1>4. x.paid \in Nat /\ x.outstanding \in Nat /\ y.paid \in Nat /\ y.outstanding \in Nat
  BY DEF BillCounts
<1>5. ASSUME BillCreated(t, x, y) PROVE SettledAt(y, p, a) /\ PostedFor(x) = 0 /\ PostedFor(y) = 0
  <2>1. x.status = "NONE" /\ y.status = "DRAFT" /\ y.paid = x.paid /\ y.outstanding = m
    BY <1>1, <1>5 DEF BillCreated, BillTotal
  <2>2. y.paid = p /\ (y.paid + a) + y.outstanding = m
    BY <1>2, <1>3, <1>4, <2>1
  <2> QED BY <1>1, <2>1, <2>2 DEF SettledAt, PostedFor, OnBooks
<1>6. ASSUME SameAmounts(x, y), x.status \notin {"PARTIALLY_PAID", "PAID"} PROVE SettledAt(y, p, a) /\ m = k
  <2>1. m = k
    BY <1>1, <1>6 DEF SameAmounts, BillTotal
  <2> QED BY <1>1, <1>3, <1>6, <2>1 DEF SettledAt, SameAmounts
<1>7. ASSUME BillAside(x, y) PROVE SettledAt(y, p, a) /\ PostedFor(x) = 0 /\ PostedFor(y) = 0
  BY <1>6, <1>7 DEF BillAside, PostedFor, OnBooks
<1>8. ASSUME BillPosted(x, y)
      PROVE  SettledAt(y, p, a) /\ PostedFor(x) = 0 /\ PostedFor(y) = BillTotal(x) - x.qty * Cost /\ OnBooks(y) /\ ~OnBooks(x)
  <2>1. x.status = "APPROVED" /\ y.status = "POSTED" /\ SameAmounts(x, y) /\ y.qty = x.qty
    BY <1>8 DEF BillPosted, SameAmounts
  <2>2. SettledAt(y, p, a) /\ BillTotal(y) = BillTotal(x)
    BY <1>1, <1>6, <2>1
  <2>3. OnBooks(y) /\ ~OnBooks(x)
    BY <2>1 DEF OnBooks
  <2> QED BY <2>1, <2>2, <2>3 DEF PostedFor
<1>9. ASSUME BillSettles(t, x, y)
      PROVE  /\ y.paid = x.paid + t.n => SettledAt(y, p + t.n, a)
             /\ y.paid = x.paid => SettledAt(y, p, a + t.n)
             /\ PostedFor(y) = PostedFor(x) /\ OnBooks(y)
  <2>1. /\ x.status \in {"POSTED", "PARTIALLY_PAID"} /\ y.status \in {"PARTIALLY_PAID", "PAID"}
        /\ y.qty = x.qty /\ y.price = x.price /\ y.outstanding = x.outstanding - t.n
    BY <1>9 DEF BillSettles
  <2>2. m = k
    BY <1>1, <2>1 DEF BillTotal
  <2>3. OnBooks(x) /\ OnBooks(y)
    BY <2>1 DEF OnBooks
  <2>4. PostedFor(y) = PostedFor(x)
    BY <1>1, <2>1, <2>2, <2>3 DEF PostedFor
  <2>5. ASSUME y.paid = x.paid + t.n PROVE SettledAt(y, p + t.n, a)
    <3>1. p + t.n = y.paid /\ (y.paid + a) + y.outstanding = m
      BY <1>2, <1>3, <1>4, <2>1, <2>2, <2>5
    <3> QED BY <1>1, <2>1, <3>1 DEF SettledAt
  <2>6. ASSUME y.paid = x.paid PROVE SettledAt(y, p, a + t.n)
    <3>1. p = y.paid /\ (y.paid + (a + t.n)) + y.outstanding = m
      BY <1>2, <1>3, <1>4, <2>1, <2>2, <2>6
    <3> QED BY <1>1, <2>1, <3>1 DEF SettledAt
  <2> QED BY <2>3, <2>4, <2>5, <2>6
<1> QED BY <1>5, <1>7, <1>8, <1>9

\* Bills and notes nothing was written of.
LEMMA SettlementsStay ==
  ASSUME PayablesInv
  PROVE  /\ bill' = bill /\ payments' = payments /\ alloc' = alloc => \A b \in Bills : BillSettled(b)'
         /\ note' = note /\ alloc' = alloc => \A n \in Notes : NoteGiven(n)'
<1>1. (\A b \in Bills : BillSettled(b)) /\ (\A n \in Notes : NoteGiven(n))
  BY DEF PayablesInv
<1>2. ASSUME bill' = bill, payments' = payments, alloc' = alloc, NEW b \in Bills PROVE BillSettled(b)'
  <2>1. PaidOf(b)' = PaidOf(b) /\ AppliedTo(b)' = AppliedTo(b)
    BY <1>2, SumsStay
  <2> QED BY <1>1, <1>2, <2>1 DEF BillSettled
<1>3. ASSUME note' = note, alloc' = alloc, NEW n \in Notes PROVE NoteGiven(n)'
  <2>1. GivenOut(n)' = GivenOut(n)
    BY <1>3, SumsStay
  <2> QED BY <1>1, <1>3, <2>1 DEF NoteGiven
<1> QED BY <1>2, <1>3

\* Nothing that is owed moves.
LEMMA PayablesStand ==
  ASSUME PayablesInv, UNCHANGED <<receipt, bill, return, note, alloc, payments, posted, stock>>,
         supplier'.pending = supplier.pending, supplier'.opening = supplier.opening
  PROVE  PayablesInv'
<1>1. PostedSound'
  BY DEF PayablesInv, PostedSound
<1>2. (\A b \in Bills : BillSettled(b)') /\ \A n \in Notes : NoteGiven(n)'
  BY SettlementsStay
<1>3. BooksFollowDocuments'
  BY SumsStay DEF PayablesInv, BooksFollowDocuments
<1> QED BY <1>1, <1>2, <1>3 DEF PayablesInv

LEMMA PayablesReceipt ==
  ASSUME ProcurementInv, Counted, Counted', PayablesInv, NEW t, ReceiptCommit(t)
  PROVE  PayablesInv'
<1>1. /\ t \in Requests /\ t.doc \in Receipts /\ ReceiptTurned(t)
      /\ UNCHANGED <<bill, return, note, alloc, payments>>
      /\ t.op # "acceptGoods" => BooksStay
      /\ t.op = "acceptGoods" => GoodsTaken(t, TakenIn(receipt'[t.doc]))
  BY ReceiptTurn
<1>2. PICK x, y, n : x = receipt[t.doc] /\ y = receipt'[t.doc] /\ n = TakenIn(y)
  OBVIOUS
<1>3. ReceiptTurns(t, x, y) /\ \A r \in Receipts : r # t.doc => receipt'[r] = receipt[r]
  BY <1>1, <1>2 DEF ReceiptTurned
<1>4. t.doc \notin Bills \cup Returns \cup Notes /\ t.doc # "none"
  BY <1>1, RowsApart, Sound DEF IdsApart, Documents
<1>5. n \in Nat /\ Accepted("none")' = Accepted("none") + (n - TakenIn(x)) /\ TakenIn(x) \in Nat
  <2>1. ReceiptCounts(x) /\ ReceiptCounts(y)
    BY <1>1, <1>2 DEF Counted
  <2>2. Accepted("none")' = Accepted("none") + (TakenIn(receipt'[t.doc]) - TakenIn(receipt[t.doc]))
    BY <1>1, <1>3, <1>4, AcceptedMoves
  <2> QED BY <1>2, <2>1, <2>2, ReceiptNumber
<1>6. (\A b \in Bills : BillSettled(b)') /\ \A m \in Notes : NoteGiven(m)'
  BY <1>1, SettlementsStay
<1>7. /\ BilledMore' = BilledMore + 0 /\ Sent' = Sent + 0 /\ TakenBack' = TakenBack + 0
      /\ Credited("none")' = Credited("none") + 0 /\ Paid' = Paid + 0
  BY <1>1, SumsStay, BooksNumbers
<1>8. PostedSound /\ BooksFollowDocuments
  BY DEF PayablesInv
<1>9. CASE t.op # "acceptGoods"
  <2>1. (y.status \in InStock <=> x.status \in InStock) /\ (x.status \in InStock => y.accepted = x.accepted) /\ BooksStay
    BY <1>1, <1>3, <1>9 DEF ReceiptTurns
  <2>2. n = TakenIn(x)
    BY <1>2, <2>1 DEF TakenIn
  <2>3. PostedSound'
    BY <1>1, <1>2, <1>3, <1>8, <2>1 DEF PostedSound, BooksStay
  <2>4. Accepted("none")' = Accepted("none")
    BY <1>5, <2>2, BooksNumbers
  <2>5. BooksFollowDocuments'
    BY <1>1, <1>8, <2>1, <2>4, SumsStay DEF BooksFollowDocuments, BooksStay
  <2> QED BY <1>6, <2>3, <2>5 DEF PayablesInv
<1>10. CASE t.op = "acceptGoods"
  <2>1. x.status \notin InStock /\ y.status = "ACCEPTED" /\ GoodsTaken(t, n)
    BY <1>1, <1>2, <1>3, <1>10 DEF ReceiptTurns
  <2>2. t.doc \notin posted /\ TakenIn(x) = 0 /\ y.status \in InStock
    BY <1>1, <1>2, <1>8, <2>1 DEF PostedSound, TakenIn, InStock
  <2>3. n * Cost \in Nat
    BY <1>5, ProcurementAssumption
  <2>4. stock' = stock + n /\ (IF n > 0 THEN PostWithPayable(t.doc, n * Cost) ELSE UNCHANGED <<posted, supplier>>)
    BY <2>1 DEF GoodsTaken
  <2>5. /\ posted' \in {posted, posted \cup {t.doc}} /\ supplier'.opening = supplier.opening
        /\ supplier'.pending = supplier.pending + n * Cost
    <3>1. CASE n > 0
      BY <2>2, <2>3, <2>4, <3>1, Posts
    <3>2. CASE n = 0
      <4>1. n * Cost = 0 /\ supplier.pending \in Int
        BY <3>2, ProcurementAssumption, CountedParts DEF SupplierShape
      <4> QED BY <2>4, <3>2, <4>1
    <3> QED BY <1>5, <3>1, <3>2
  <2>6. PostedSound'
    BY <1>1, <1>2, <1>3, <1>4, <1>8, <2>2, <2>5 DEF PostedSound
  <2>7. Accepted("none")' = Accepted("none") + n
    BY <1>5, <2>2, BooksNumbers
  <2>8. /\ stock' = stock + (n - 0)
        /\ supplier'.pending = supplier.pending + ((n * Cost + 0) - (0 * Cost + 0 + 0 + 0))
    BY <1>5, <2>3, <2>4, <2>5, CountedParts, ProcurementAssumption DEF SupplierShape
  <2>9. n \in Int /\ 0 \in Int
    BY <1>5
  <2>10. BooksFollowDocuments'
    BY <1>7, <1>8, <2>5, <2>7, <2>8, <2>9, BooksMove
  <2> QED BY <1>6, <2>6, <2>10 DEF PayablesInv
<1> QED BY <1>9, <1>10

LEMMA PayFinds ==
  ASSUME ProcurementInv, NEW t, Commits(t, "payBill"), Seen(t).ok
  PROVE  Known(t) = {}
<1>1. t \in Requests /\ t.op = "payBill" /\ Can(t, Seen(t)) /\ PayKnows(t) /\ Open(t) /\ tx[t].at \in Nat /\ tx[t].at > Len(Plan(t))
  BY Ending DEF Informed
<1>2. t.doc \in Bills
  BY <1>1, Sound DEF RequestSound
<1>3. Len(Plan(t)) = 3
  BY <1>1 DEF Plan, PayBillPlan
<1>4. t.key # 0 => \A p \in payments : p.key = t.key => p.bill # t.doc
  BY <1>1, <1>3 DEF PayKnows
<1>5. Known(t) # {} => \A p \in Known(t) : SamePayment(t, p)
  <2>1. CanBill(t, Seen(t))
    BY <1>1, <1>2, CanBy
  <2> QED BY <1>1, <2>1 DEF CanBill
<1>6. \A p \in Known(t) : t.key # 0 /\ p \in payments /\ p.key = t.key
  BY DEF Known
<1>7. \A p \in payments : SamePayment(t, p) => p.bill = t.doc
  BY <1>1 DEF SamePayment
<1> QED BY <1>4, <1>5, <1>6, <1>7

LEMMA PayablesBill ==
  ASSUME ProcurementInv, Counted, Counted', PayablesInv, NEW t, BillCommit(t)
  PROVE  PayablesInv'
<1>1. /\ t \in Requests /\ t.doc \in Bills /\ t.n \in Nat /\ t.price \in Nat /\ t.op \in BillOps /\ BillTurned(t)
      /\ Commits(t, t.op) /\ UNCHANGED <<order, receipt, return, note, alloc, stock>>
      /\ t.op \notin {"postBill", "payBill"} => UNCHANGED <<payments, supplier, posted>>
      /\ t.op = "postBill" => PostWithPayable(t.doc, BillTotal(bill[t.doc]) - bill[t.doc].qty * Cost) /\ payments' = payments
      /\ t.op = "payBill" => IF Seen(t).ok THEN Pay(t, t.doc) /\ posted' = posted ELSE UNCHANGED <<bill, payments, supplier, posted>>
  BY BillTurn
<1>2. PICK x, y, p, a : x = bill[t.doc] /\ y = bill'[t.doc] /\ p = PaidOf(t.doc) /\ a = AppliedTo(t.doc)
  OBVIOUS
<1>3. BillTurns(t, x, y) /\ \A b \in Bills : b # t.doc => bill'[b] = bill[b]
  BY <1>1, <1>2 DEF BillTurned
<1>4. t.doc \notin Receipts \cup Returns \cup Notes
  BY <1>1, RowsApart
<1>5. BillCounts(x) /\ BillCounts(y) /\ p \in Int /\ a \in Int /\ SettledAt(x, p, a)
  BY <1>1, <1>2, BillNumbers DEF Counted, PayablesInv, BillSettled
<1>6. BilledMore' = BilledMore + (PostedFor(y) - PostedFor(x))
  BY <1>1, <1>2, <1>3, BilledMoves
<1>7. (\A n \in Notes : NoteGiven(n)') /\ \A b \in Bills : AppliedTo(b)' = AppliedTo(b)
  BY <1>1, SettlementsStay, SumsStay
<1>8. /\ Accepted("none")' = Accepted("none") + 0 /\ Sent' = Sent + 0 /\ TakenBack' = TakenBack + 0
      /\ Credited("none")' = Credited("none") + 0
  BY <1>1, SumsStay, BooksNumbers
<1>9. PostedSound /\ BooksFollowDocuments /\ \A b \in Bills : BillSettled(b)
  BY DEF PayablesInv
<1>10. supplier.pending \in Int /\ stock \in Int /\ Cost \in Nat /\ BilledMore \in Int /\ Paid \in Int
  BY CountedParts, BooksNumbers, ProcurementAssumption DEF SupplierShape
<1>11. stock' = stock + (0 - 0)
  BY <1>1, <1>10
\* The bills: the one that was written, and the others.
<1>12. ASSUME \A b \in Bills : b # t.doc => PaidOf(b)' = PaidOf(b), SettledAt(y, PaidOf(t.doc)', a)
       PROVE  \A b \in Bills : BillSettled(b)'
  <2>1. ASSUME NEW b \in Bills, b # t.doc PROVE BillSettled(b)'
    BY <1>3, <1>7, <1>9, <1>12, <2>1 DEF BillSettled
  <2>2. BillSettled(t.doc)'
    BY <1>1, <1>2, <1>7, <1>12 DEF BillSettled
  <2> QED BY <2>1, <2>2
<1>13. CASE t.op \notin {"postBill", "payBill"}
  <2>1. UNCHANGED <<payments, supplier, posted>>
    BY <1>1, <1>13
  <2>2. SettledAt(y, p, a) /\ PostedFor(x) = 0 /\ PostedFor(y) = 0 /\ ~OnBooks(x)
    <3>1. BillCreated(t, x, y) \/ BillAside(x, y)
      BY <1>1, <1>3, <1>13 DEF BillTurns, BillOps
    <3>2. ~OnBooks(x)
      BY <3>1 DEF BillCreated, BillAside, OnBooks
    <3> QED BY <1>1, <1>5, <3>1, <3>2, SettledTurns
  <2>3. PaidOf(t.doc)' = p /\ (\A b \in Bills : PaidOf(b)' = PaidOf(b)) /\ Paid' = Paid
    BY <1>2, <2>1, SumsStay
  <2>4. \A b \in Bills : BillSettled(b)'
    BY <1>12, <2>2, <2>3
  <2>5. PostedSound'
    BY <1>1, <1>2, <1>3, <1>9, <2>1, <2>2 DEF PostedSound
  <2>6. BilledMore' = BilledMore
    BY <1>6, <1>10, <2>2
  <2>7. BooksFollowDocuments'
    BY <1>1, <1>9, <2>1, <2>3, <2>6, SumsStay DEF BooksFollowDocuments
  <2> QED BY <1>7, <2>4, <2>5, <2>7 DEF PayablesInv
<1>14. CASE t.op = "postBill"
  <2>1. PICK d : d = BillTotal(x) - x.qty * Cost
    OBVIOUS
  <2>2. d \in Int
    <3>1. PICK k, m : k = BillTotal(x) /\ m = x.qty * Cost
      OBVIOUS
    <3>2. k \in Nat /\ m \in Nat
      BY <1>5, <3>1, BillNumber
    <3> QED BY <2>1, <3>1, <3>2
  <2>3. SettledAt(y, p, a) /\ PostedFor(x) = 0 /\ PostedFor(y) = d /\ OnBooks(y) /\ ~OnBooks(x)
    BY <1>1, <1>3, <1>5, <1>14, <2>1, SettledTurns DEF BillTurns
  <2>4. t.doc \notin posted
    BY <1>1, <1>2, <1>9, <2>3 DEF PostedSound
  <2>5. PostWithPayable(t.doc, d) /\ payments' = payments
    BY <1>1, <1>2, <1>14, <2>1
  <2>6. posted' = posted \cup {t.doc} /\ supplier'.opening = supplier.opening /\ supplier'.pending = supplier.pending + d
    BY <2>2, <2>4, <2>5, Posts
  <2>7. PaidOf(t.doc)' = p /\ (\A b \in Bills : PaidOf(b)' = PaidOf(b)) /\ Paid' = Paid + 0
    BY <1>2, <1>10, <2>5, SumsStay
  <2>8. \A b \in Bills : BillSettled(b)'
    BY <1>12, <2>3, <2>7
  <2>9. PostedSound'
    BY <1>1, <1>2, <1>3, <1>4, <1>9, <2>3, <2>6 DEF PostedSound
  <2>10. BilledMore' = BilledMore + d
    BY <1>6, <2>2, <2>3
  <2>11. supplier'.pending = supplier.pending + ((0 * Cost + d) - (0 * Cost + 0 + 0 + 0))
    BY <1>10, <2>2, <2>6
  <2>12. BooksFollowDocuments'
    <3>1. 0 \in Int
      OBVIOUS
    <3> QED BY <1>8, <1>9, <1>11, <2>2, <2>6, <2>7, <2>10, <2>11, <3>1, BooksMove
  <2> QED BY <1>7, <2>8, <2>9, <2>12 DEF PayablesInv
<1>15. CASE t.op = "payBill" /\ Seen(t).ok
  <2>1. BillSettles(t, x, y) /\ y.paid = x.paid + t.n /\ Pay(t, t.doc) /\ posted' = posted
    BY <1>1, <1>3, <1>15 DEF BillTurns
  <2>2. Known(t) = {}
    BY <1>1, <1>15, PayFinds
  <2>3. PICK q : q \notin payments /\ payments' = payments \cup {q} /\ q.bill = t.doc /\ q.amount = t.n
    BY <1>1, <2>1, <2>2, Pays
  <2>4. supplier'.opening = supplier.opening /\ supplier'.pending = supplier.pending - t.n
    BY <1>1, <2>1, <2>2, Pays
  <2>5. Paid' = Paid + t.n /\ \A b \in Bills : PaidOf(b)' = PaidOf(b) + (IF q.bill = b THEN q.amount ELSE 0)
    BY <2>3, PaidMoves
  <2>6. PaidOf(t.doc)' = p + t.n /\ \A b \in Bills : b # t.doc => PaidOf(b)' = PaidOf(b)
    BY <1>1, <1>2, <2>3, <2>5, BillNumbers
  <2>7. SettledAt(y, p + t.n, a) /\ PostedFor(y) = PostedFor(x) /\ OnBooks(y)
    BY <1>1, <1>5, <2>1, SettledTurns
  <2>8. \A b \in Bills : BillSettled(b)'
    BY <1>12, <2>6, <2>7
  <2>9. PostedSound'
    BY <1>1, <1>2, <1>3, <1>9, <2>1, <2>7 DEF PostedSound
  <2>10. BilledMore' = BilledMore + 0
    <3>1. PostedFor(x) \in Int
      BY <1>5, BillNumber
    <3> QED BY <1>6, <2>7, <3>1
  <2>11. supplier'.pending = supplier.pending + ((0 * Cost + 0) - (0 * Cost + 0 + 0 + t.n))
    BY <1>1, <1>10, <2>4
  <2>12. BooksFollowDocuments'
    <3>1. 0 \in Int /\ t.n \in Int
      BY <1>1
    <3> QED BY <1>8, <1>9, <1>11, <2>4, <2>5, <2>10, <2>11, <3>1, BooksMove
  <2> QED BY <1>7, <2>8, <2>9, <2>12 DEF PayablesInv
<1>16. CASE t.op = "payBill" /\ ~Seen(t).ok
  BY <1>1, <1>16, PayablesStand
<1> QED BY <1>13, <1>14, <1>15, <1>16

LEMMA PayablesPayment ==
  ASSUME ProcurementInv, Counted, Counted', PayablesInv, NEW t, PaymentCommit(t)
  PROVE  PayablesInv'
<1>1. /\ t \in Requests /\ t.n \in Nat /\ t.op \in {"paySupplier", "deleteSupplier"}
      /\ UNCHANGED <<order, receipt, bill, return, note, alloc, posted, stock>>
      /\ IF t.op = "paySupplier" THEN Pay(t, "none")
         ELSE supplier' = [supplier EXCEPT !.deleted = TRUE] /\ payments' = payments
  BY PaymentTurn
<1>2. CASE t.op = "deleteSupplier"
  <2>1. PICK s : s = supplier
    OBVIOUS
  <2>2. DOMAIN s = {"pending", "opening", "deleted"} /\ supplier' = [s EXCEPT !.deleted = TRUE] /\ payments' = payments
    BY <1>1, <1>2, <2>1, CountedParts DEF SupplierShape
  <2>3. supplier'.pending = s.pending /\ supplier'.opening = s.opening
    BY <2>2
  <2> QED BY <1>1, <2>1, <2>2, <2>3, PayablesStand
<1>3. CASE t.op = "paySupplier" /\ Known(t) # {}
  <2>1. supplier' = supplier /\ payments' = payments
    BY <1>1, <1>3, Pays
  <2> QED BY <1>1, <2>1, PayablesStand
<1>4. CASE t.op = "paySupplier" /\ Known(t) = {}
  <2>1. Pay(t, "none")
    BY <1>1, <1>4
  <2>2. PICK q : q \notin payments /\ payments' = payments \cup {q} /\ q.bill = "none" /\ q.amount = t.n
    BY <1>1, <1>4, <2>1, Pays
  <2>3. supplier'.opening = supplier.opening /\ supplier'.pending = supplier.pending - t.n
    BY <1>1, <1>4, <2>1, Pays
  <2>4. Paid' = Paid + t.n /\ \A b \in Bills : PaidOf(b)' = PaidOf(b) + (IF q.bill = b THEN q.amount ELSE 0)
    BY <2>2, PaidMoves
  <2>5. "none" \notin Bills
    BY <1>1, Sound DEF IdsApart, Documents
  <2>6. \A b \in Bills : PaidOf(b)' = PaidOf(b)
    BY <2>2, <2>4, <2>5, BillNumbers
  <2>7. PostedSound /\ BooksFollowDocuments /\ \A b \in Bills : BillSettled(b)
    BY DEF PayablesInv
  <2>8. ASSUME NEW b \in Bills PROVE BillSettled(b)'
    <3>1. AppliedTo(b)' = AppliedTo(b)
      BY <1>1, SumsStay
    <3> QED BY <1>1, <2>6, <2>7, <3>1 DEF BillSettled
  <2>9. PostedSound' /\ \A n \in Notes : NoteGiven(n)'
    BY <1>1, <2>7, SettlementsStay DEF PostedSound
  <2>10. supplier.pending \in Int /\ stock \in Int /\ Cost \in Nat
    BY CountedParts, ProcurementAssumption DEF SupplierShape
  <2>11. /\ Accepted("none")' = Accepted("none") + 0 /\ BilledMore' = BilledMore + 0 /\ Sent' = Sent + 0
         /\ TakenBack' = TakenBack + 0 /\ Credited("none")' = Credited("none") + 0
    BY <1>1, SumsStay, BooksNumbers
  <2>12. /\ stock' = stock + (0 - 0)
         /\ supplier'.pending = supplier.pending + ((0 * Cost + 0) - (0 * Cost + 0 + 0 + t.n))
    BY <1>1, <2>3, <2>10
  <2>13. BooksFollowDocuments'
    <3>1. 0 \in Int /\ t.n \in Int
      BY <1>1
    <3> QED BY <2>3, <2>4, <2>7, <2>11, <2>12, <3>1, BooksMove
  <2> QED BY <2>8, <2>9, <2>13 DEF PayablesInv
<1> QED BY <1>1, <1>2, <1>3, <1>4

\* A return none of whose notes is live has no credit.
LEMMA CreditedNone ==
  ASSUME Counted, NEW v, Noted(v, "none") = 0
  PROVE  Credited(v) = 0
<1>1. PICK f, g : f = [n \in Notes |-> NotedFor(note[n], v)] /\ g = [n \in Notes |-> CreditedFor(note[n], v)]
  OBVIOUS
<1>2. Notes \ {"none"} = Notes
  BY DesksAssumption DEF IdsApart, Documents
<1>3. SumFunctionOnSet(f, Notes) = 0
  BY <1>1, <1>2 DEF Noted
<1>4. \A n \in Notes : f[n] \in Nat /\ g[n] \in Nat /\ g[n] <= f[n]
  BY <1>1, NoteNumber DEF Counted
<1>5. \A n \in Notes : f[n] <= 0
  BY <1>3, <1>4, ProcurementAssumption, SumOneOfNat
<1>6. \A n \in Notes : g[n] = 0
  BY <1>4, <1>5
<1> QED BY <1>1, <1>6, ProcurementAssumption, SumZero DEF Credited

LEMMA PayablesReturn ==
  ASSUME ProcurementInv, Counted, Counted', NotesWithinReturn, PayablesInv, NEW t, ReturnCommit(t)
  PROVE  PayablesInv'
<1>1. /\ t \in Requests /\ t.doc \in Returns /\ t.op \in ReturnOps /\ ReturnTurned(t)
      /\ UNCHANGED <<order, receipt, bill, note, alloc, payments>>
      /\ t.op # "completeReturn" => BooksStay
      /\ t.op = "completeReturn" => /\ stock' = stock - return[t.doc].qty
                                    /\ PostWithPayable(t.doc, -(return[t.doc].qty * Cost))
  BY ReturnTurn
<1>2. PICK x, y, q : x = return[t.doc] /\ y = return'[t.doc] /\ q = x.qty
  OBVIOUS
<1>3. ReturnTurns(t, x, y) /\ \A v \in Returns : v # t.doc => return'[v] = return[v]
  BY <1>1, <1>2 DEF ReturnTurned
<1>4. t.doc \notin Receipts \cup Bills \cup Notes
  BY <1>1, RowsApart
<1>5. q \in Nat /\ q * Cost \in Nat
  BY <1>1, <1>2, ReturnNumber DEF Counted
<1>6. Sent' = Sent + (SentBack(y) - SentBack(x)) /\ SentBack(x) = 0 /\ x.status # "COMPLETED"
  <2>1. Sent' = Sent + (SentBack(return'[t.doc]) - SentBack(return[t.doc]))
    BY <1>1, <1>3, SentMoves
  <2> QED BY <1>2, <1>3, <2>1 DEF ReturnTurns, SentBack
<1>7. PostedSound /\ BooksFollowDocuments
  BY DEF PayablesInv
<1>8. t.doc \notin posted
  BY <1>1, <1>2, <1>6, <1>7 DEF PostedSound
<1>9. (\A b \in Bills : BillSettled(b)') /\ \A n \in Notes : NoteGiven(n)'
  BY <1>1, SettlementsStay
<1>10. Credited(t.doc) = 0
  <2>1. ~(Noted(t.doc, "none") > 0)
    BY <1>1, <1>2, <1>6 DEF NotesWithinReturn
  <2>2. Noted(t.doc, "none") \in Nat
    BY NotedNumber
  <2>3. Noted(t.doc, "none") = 0
    BY <2>1, <2>2
  <2> QED BY <2>3, CreditedNone
<1>11. TakenBack' = TakenBack + 0
  <2>1. \A v : Credited(v)' = Credited(v)
    BY <1>1, SumsStay
  <2>2. \A v \in Returns : v # t.doc => Above(v)' = Above(v)
    BY <1>3, <2>1 DEF Above
  <2>3. Above(t.doc) = 0
    BY <1>2, <1>6 DEF Above
  <2>4. Above(t.doc)' = 0
    <3>1. PICK m, c : m = y.qty * Cost /\ c = Credited(t.doc)'
      OBVIOUS
    <3>2. m \in Nat /\ c = 0
      BY <1>1, <1>2, <1>10, <2>1, <3>1, ReturnNumber DEF Counted
    <3>3. Floor(c - m) = 0
      BY <3>2 DEF Floor
    <3> QED BY <1>2, <3>1, <3>3 DEF Above
  <2>5. TakenBack' = TakenBack + (Above(t.doc)' - Above(t.doc))
    BY <1>1, <2>2, TakenBackMoves
  <2> QED BY <2>3, <2>4, <2>5
<1>12. /\ Accepted("none")' = Accepted("none") + 0 /\ BilledMore' = BilledMore + 0
       /\ Credited("none")' = Credited("none") + 0 /\ Paid' = Paid + 0
  BY <1>1, SumsStay, BooksNumbers
<1>13. supplier.pending \in Int /\ stock \in Int /\ Cost \in Nat /\ Sent \in Int
  BY CountedParts, BooksNumbers, ProcurementAssumption DEF SupplierShape
<1>14. CASE t.op # "completeReturn"
  <2>1. y.status # "COMPLETED" /\ BooksStay
    BY <1>1, <1>3, <1>14 DEF ReturnTurns
  <2>2. Sent' = Sent + 0
    BY <1>6, <1>13, <2>1 DEF SentBack
  <2>3. PostedSound'
    BY <1>1, <1>2, <1>3, <1>6, <1>7, <2>1 DEF PostedSound, BooksStay
  <2>4. /\ stock' = stock + (0 - 0) /\ supplier'.opening = supplier.opening
        /\ supplier'.pending = supplier.pending + ((0 * Cost + 0) - (0 * Cost + 0 + 0 + 0))
    BY <1>13, <2>1 DEF BooksStay
  <2>5. BooksFollowDocuments'
    <3>1. 0 \in Int
      OBVIOUS
    <3> QED BY <1>7, <1>11, <1>12, <2>2, <2>4, <3>1, BooksMove
  <2> QED BY <1>9, <2>3, <2>5 DEF PayablesInv
<1>15. CASE t.op = "completeReturn"
  <2>1. y.status = "COMPLETED" /\ y.qty = q /\ stock' = stock - q /\ PostWithPayable(t.doc, -(q * Cost))
    BY <1>1, <1>2, <1>3, <1>15 DEF ReturnTurns
  <2>2. Sent' = Sent + q
    BY <1>5, <1>6, <1>13, <2>1 DEF SentBack
  <2>3. PICK d : d = -(q * Cost)
    OBVIOUS
  <2>4. posted' = posted \cup {t.doc} /\ supplier'.opening = supplier.opening /\ supplier'.pending = supplier.pending + d
    <3>1. d \in Int /\ PostWithPayable(t.doc, d)
      BY <1>5, <2>1, <2>3
    <3> QED BY <1>8, <3>1, Posts
  <2>5. PostedSound'
    BY <1>1, <1>2, <1>3, <1>4, <1>7, <2>1, <2>4 DEF PostedSound
  <2>6. /\ stock' = stock + (0 - q)
        /\ supplier'.pending = supplier.pending + ((0 * Cost + 0) - (q * Cost + 0 + 0 + 0))
    BY <1>5, <1>13, <2>1, <2>3, <2>4
  <2>7. BooksFollowDocuments'
    <3>1. 0 \in Int /\ q \in Int
      BY <1>5
    <3> QED BY <1>7, <1>11, <1>12, <2>2, <2>4, <2>6, <3>1, BooksMove
  <2> QED BY <1>9, <2>5, <2>7 DEF PayablesInv
<1> QED BY <1>14, <1>15

\* What a note x gave out, and what it credits, once it is y.
LEMMA GivenTurns ==
  ASSUME NEW x, NEW y, NoteCounts(x), NoteCounts(y), NEW t, t.n \in Nat, NoteTurns(t, x, y), NEW g \in Int, GivenAt(x, g)
  PROVE  /\ t.op # "allocateNote" => GivenAt(y, g)
         /\ t.op = "allocateNote" => GivenAt(y, g + t.n)
         /\ t.op # "approveNote" => (Issued(y) <=> Issued(x)) /\ \A v : CreditedFor(y, v) = CreditedFor(x, v)
         /\ t.op = "approveNote" => /\ ~Issued(x) /\ Issued(y) /\ y.ref = x.ref /\ y.total = x.total
                                    /\ \A v : CreditedFor(x, v) = 0 /\ CreditedFor(y, v) = IF x.ref = v THEN x.total ELSE 0
<1>1. x.remaining \in Nat /\ x.total \in Nat /\ x.remaining + g = x.total /\ (x.status = "NONE" => x.remaining = x.total)
  BY DEF NoteCounts, GivenAt
<1>2. CASE t.op = "createNote"
  <2>1. x.status = "NONE" /\ y.status = "DRAFT" /\ y.ref = t.ref /\ y.total = t.n /\ y.remaining = t.n
    BY <1>2 DEF NoteTurns
  <2>2. GivenAt(y, g)
    BY <1>1, <2>1 DEF GivenAt
  <2>3. ~Issued(x) /\ ~Issued(y)
    BY <2>1 DEF Issued
  <2> QED BY <1>2, <2>2, <2>3 DEF CreditedFor
<1>3. CASE t.op # "createNote"
  <2>1. /\ x.status # "NONE" /\ y.status \notin {"NONE", "DRAFT"} /\ y.ref = x.ref /\ y.total = x.total
        /\ y.remaining = IF t.op = "allocateNote" THEN x.remaining - t.n ELSE x.remaining
        /\ Issued(y) <=> Issued(x) \/ t.op = "approveNote"
        /\ t.op = "approveNote" => x.status = "PENDING_APPROVAL"
    BY <1>3 DEF NoteTurns
  <2>2. /\ t.op # "allocateNote" => GivenAt(y, g)
        /\ t.op = "allocateNote" => GivenAt(y, g + t.n)
    BY <1>1, <2>1 DEF GivenAt
  <2>3. t.op # "approveNote" => (Issued(y) <=> Issued(x)) /\ \A v : CreditedFor(y, v) = CreditedFor(x, v)
    BY <2>1 DEF CreditedFor
  <2>4. t.op = "approveNote" => ~Issued(x) /\ Issued(y)
    BY <2>1 DEF Issued
  <2>5. t.op = "approveNote" => \A v : CreditedFor(x, v) = 0 /\ CreditedFor(y, v) = IF x.ref = v THEN x.total ELSE 0
    BY <2>1, <2>4 DEF CreditedFor
  <2> QED BY <2>1, <2>2, <2>3, <2>4, <2>5
<1> QED BY <1>2, <1>3

\* What issuing a note takes off the balance is what the sums of the issued notes go up by.
LEMMA IssueMoves ==
  ASSUME Counted, Counted', PostedSound, return' = return, NEW d \in Notes,
         NEW r \in Returns \cup {"none"}, r = note[d].ref, NEW k \in Nat, k = note[d].total,
         r # "none" => return[r].status = "COMPLETED",
         \A v : Credited(v)' = Credited(v) + (IF r = v THEN k ELSE 0)
  PROVE  \E dt \in Nat, dc \in Nat :
           IssueDebit(d) = dt + dc /\ TakenBack' = TakenBack + dt /\ Credited("none")' = Credited("none") + dc
<1>1. \A v : Credited(v) \in Nat
  BY CreditedNumber
<1>2. "none" \notin Returns
  BY DesksAssumption DEF IdsApart, Documents
<1>3. \A v \in Returns : v # r => Above(v)' = Above(v)
  <2> SUFFICES ASSUME NEW v \in Returns, v # r PROVE Above(v)' = Above(v)
    OBVIOUS
  <2>1. Credited(v)' = Credited(v)
    BY <1>1
  <2> QED BY <2>1 DEF Above
<1>4. CASE r = "none"
  <2>1. \A v \in Returns : Above(v)' = Above(v)
    BY <1>2, <1>3, <1>4
  <2>2. TakenBack' = TakenBack + 0
    <3>1. TakenBack' = TakenBack
      BY <2>1 DEF TakenBack
    <3> QED BY <3>1, BooksNumbers
  <2>3. IssueDebit(d) = 0 + k
    <3>1. IssueDebit(d) = k
      BY <1>4, DebitOf
    <3> QED BY <3>1
  <2>4. Credited("none")' = Credited("none") + k
    BY <1>4
  <2> QED BY <2>2, <2>3, <2>4
<1>5. CASE r \in Returns
  <2>1. PICK c, q, dt : c = Credited(r) /\ q = return[r].qty * Cost /\ dt = Floor((c + k) - q) - Floor(c - q)
    OBVIOUS
  <2>2. c \in Nat /\ q \in Nat
    BY <1>1, <1>5, <2>1, ReturnNumber DEF Counted
  <2>3. dt \in Nat
    BY <2>1, <2>2 DEF Floor
  <2>4. return[r].status = "COMPLETED" /\ ReturnPosted(r) = q
    BY <1>2, <1>5, <2>1 DEF PostedSound, ReturnPosted
  <2>5. IssueDebit(d) = dt
    BY <1>2, <1>5, <2>1, <2>4, DebitOf
  <2>6. Above(r) = Floor(c - q) /\ Above(r)' = Floor((c + k) - q)
    <3>1. Credited(r)' = c + k
      BY <2>1
    <3> QED BY <2>1, <2>4, <3>1 DEF Above
  <2>7. TakenBack' = TakenBack + dt
    <3>1. TakenBack' = TakenBack + (Above(r)' - Above(r))
      BY <1>3, <1>5, TakenBackMoves
    <3> QED BY <2>1, <2>6, <3>1
  <2>8. Credited("none")' = Credited("none") + 0
    BY <1>2, <1>5
  <2>9. IssueDebit(d) = dt + 0
    BY <2>3, <2>5
  <2> QED BY <2>3, <2>7, <2>8, <2>9
<1> QED BY <1>4, <1>5

LEMMA PayablesNote ==
  ASSUME ProcurementInv, Counted, Counted', PayablesInv, NEW t, NoteCommit(t)
  PROVE  PayablesInv'
<1>1. /\ t \in Requests /\ t.doc \in Notes /\ t.n \in Nat /\ t.op \in NoteOps /\ NoteTurned(t) /\ CanNote(t, Seen(t))
      /\ UNCHANGED <<order, receipt, return, payments, stock>>
      /\ t.op # "allocateNote" => UNCHANGED <<bill, alloc>>
      /\ t.op = "allocateNote" => /\ t.ref \in Bills /\ (\A b \in Bills : b # t.ref => bill'[b] = bill[b])
                                  /\ BillSettles(t, bill[t.ref], bill'[t.ref]) /\ bill'[t.ref].paid = bill[t.ref].paid
                                  /\ alloc' = [alloc EXCEPT ![<<t.doc, t.ref>>] = @ + t.n]
      /\ t.op # "approveNote" => UNCHANGED <<posted, supplier>>
      /\ t.op = "approveNote" => IF IssueDebit(t.doc) > 0 THEN PostWithPayable(t.doc, -IssueDebit(t.doc))
                                 ELSE UNCHANGED <<posted, supplier>>
  BY NoteTurn
<1>2. PICK x, y, g : x = note[t.doc] /\ y = note'[t.doc] /\ g = GivenOut(t.doc)
  OBVIOUS
<1>3. NoteTurns(t, x, y) /\ \A n \in Notes : n # t.doc => note'[n] = note[n]
  BY <1>1, <1>2 DEF NoteTurned
<1>4. t.doc \notin Receipts \cup Bills \cup Returns
  BY <1>1, RowsApart
<1>5. NoteCounts(x) /\ NoteCounts(y) /\ g \in Int /\ GivenAt(x, g)
  BY <1>1, <1>2, NoteNumbers DEF Counted, PayablesInv, NoteGiven
<1>6. /\ t.op # "allocateNote" => GivenAt(y, g)
      /\ t.op = "allocateNote" => GivenAt(y, g + t.n)
      /\ t.op # "approveNote" => (Issued(y) <=> Issued(x)) /\ \A v : CreditedFor(y, v) = CreditedFor(x, v)
      /\ t.op = "approveNote" => /\ ~Issued(x) /\ Issued(y) /\ y.ref = x.ref /\ y.total = x.total
                                 /\ \A v : CreditedFor(x, v) = 0 /\ CreditedFor(y, v) = IF x.ref = v THEN x.total ELSE 0
  BY <1>1, <1>3, <1>5, GivenTurns
<1>7. \A v : Credited(v)' = Credited(v) + (CreditedFor(y, v) - CreditedFor(x, v))
  <2> SUFFICES ASSUME NEW v PROVE Credited(v)' = Credited(v) + (CreditedFor(y, v) - CreditedFor(x, v))
    OBVIOUS
  <2>1. Credited(v)' = Credited(v) + (CreditedFor(note'[t.doc], v) - CreditedFor(note[t.doc], v))
    BY <1>1, <1>3, CreditedMoves
  <2> QED BY <1>2, <2>1
<1>8. PostedSound /\ BooksFollowDocuments /\ (\A b \in Bills : BillSettled(b)) /\ \A n \in Notes : NoteGiven(n)
  BY DEF PayablesInv
<1>9. /\ Accepted("none")' = Accepted("none") + 0 /\ Sent' = Sent + 0 /\ Paid' = Paid + 0
      /\ \A b \in Bills : PaidOf(b)' = PaidOf(b)
  BY <1>1, SumsStay, BooksNumbers
<1>10. supplier.pending \in Int /\ stock \in Int /\ Cost \in Nat
  BY CountedParts, ProcurementAssumption DEF SupplierShape
<1>11. stock' = stock + (0 - 0)
  BY <1>1, <1>10
\* The notes: the one that was written, and the others.
<1>12. ASSUME \A n \in Notes : n # t.doc => GivenOut(n)' = GivenOut(n), GivenAt(y, GivenOut(t.doc)')
       PROVE  \A n \in Notes : NoteGiven(n)'
  <2>1. ASSUME NEW n \in Notes, n # t.doc PROVE NoteGiven(n)'
    BY <1>3, <1>8, <1>12, <2>1 DEF NoteGiven
  <2>2. NoteGiven(t.doc)'
    BY <1>1, <1>2, <1>12 DEF NoteGiven
  <2> QED BY <2>1, <2>2
<1>13. ASSUME t.op # "allocateNote"
       PROVE  (\A b \in Bills : BillSettled(b)') /\ (\A n \in Notes : NoteGiven(n)') /\ BilledMore' = BilledMore + 0
  <2>1. bill' = bill /\ alloc' = alloc
    BY <1>1, <1>13
  <2>2. (\A n : GivenOut(n)' = GivenOut(n)) /\ BilledMore' = BilledMore + 0
    BY <2>1, SumsStay, BooksNumbers
  <2>3. \A b \in Bills : BillSettled(b)'
    BY <1>1, <2>1, SettlementsStay
  <2>4. GivenAt(y, GivenOut(t.doc)')
    BY <1>2, <1>6, <1>13, <2>2
  <2> QED BY <1>12, <2>2, <2>3, <2>4
<1>14. ASSUME t.op # "approveNote"
       PROVE  TakenBack' = TakenBack + 0 /\ Credited("none")' = Credited("none") + 0
  <2>1. \A v : Credited(v)' = Credited(v)
    <3> SUFFICES ASSUME NEW v PROVE Credited(v)' = Credited(v)
      OBVIOUS
    <3>1. CreditedFor(y, v) = CreditedFor(x, v) /\ CreditedFor(x, v) \in Nat /\ Credited(v) \in Nat
      BY <1>5, <1>6, <1>14, NoteNumber, CreditedNumber
    <3> QED BY <1>7, <3>1
  <2>2. \A v \in Returns : Above(v)' = Above(v)
    BY <1>1, <2>1 DEF Above
  <2>3. TakenBack' = TakenBack
    BY <2>2 DEF TakenBack
  <2> QED BY <2>1, <2>3, BooksNumbers
<1>15. ASSUME t.op # "approveNote", BilledMore' = BilledMore + 0
       PROVE  BooksFollowDocuments'
  <2>1. 0 \in Int
    OBVIOUS
  <2>2. /\ supplier'.opening = supplier.opening
        /\ supplier'.pending = supplier.pending + ((0 * Cost + 0) - (0 * Cost + 0 + 0 + 0))
    BY <1>1, <1>10, <1>15
  <2> QED BY <1>8, <1>9, <1>11, <1>14, <1>15, <2>1, <2>2, BooksMove
<1>16. CASE t.op \notin {"approveNote", "allocateNote"}
  <2>1. PostedSound'
    BY <1>1, <1>2, <1>3, <1>6, <1>8, <1>16 DEF PostedSound
  <2> QED BY <1>13, <1>15, <1>16, <2>1 DEF PayablesInv
<1>17. CASE t.op = "allocateNote"
  <2>1. PICK u, w, p, a : u = bill[t.ref] /\ w = bill'[t.ref] /\ p = PaidOf(t.ref) /\ a = AppliedTo(t.ref)
    OBVIOUS
  <2>2. /\ t.ref \in Bills /\ (\A b \in Bills : b # t.ref => bill'[b] = bill[b]) /\ BillSettles(t, u, w) /\ w.paid = u.paid
        /\ alloc' = [alloc EXCEPT ![<<t.doc, t.ref>>] = @ + t.n]
    BY <1>1, <1>17, <2>1
  <2>3. /\ AppliedTo(t.ref)' = AppliedTo(t.ref) + t.n /\ \A b \in Bills : b # t.ref => AppliedTo(b)' = AppliedTo(b)
        /\ GivenOut(t.doc)' = GivenOut(t.doc) + t.n /\ \A n \in Notes : n # t.doc => GivenOut(n)' = GivenOut(n)
    BY <1>1, <2>2, AppliedMoves
  <2>4. BillCounts(u) /\ BillCounts(w) /\ p \in Int /\ a \in Int /\ SettledAt(u, p, a)
    BY <1>8, <2>1, <2>2, BillNumbers DEF Counted, BillSettled
  <2>5. SettledAt(w, p, a + t.n) /\ PostedFor(w) = PostedFor(u) /\ OnBooks(w)
    <3>1. PICK s : s = [n |-> t.n, price |-> 0]
      OBVIOUS
    <3>2. s.n = t.n /\ s.price \in Nat /\ s.n \in Nat
      BY <1>1, <3>1
    <3>3. BillSettles(s, u, w)
      BY <2>2, <3>2 DEF BillSettles
    <3> QED BY <2>2, <2>4, <3>2, <3>3, SettledTurns
  <2>6. \A b \in Bills : BillSettled(b)'
    <3>1. ASSUME NEW b \in Bills, b # t.ref PROVE BillSettled(b)'
      BY <1>8, <1>9, <2>2, <2>3, <3>1 DEF BillSettled
    <3>2. BillSettled(t.ref)'
      BY <1>9, <2>1, <2>2, <2>3, <2>5 DEF BillSettled
    <3> QED BY <3>1, <3>2
  <2>7. \A n \in Notes : NoteGiven(n)'
    BY <1>2, <1>6, <1>12, <1>17, <2>3
  <2>8. BilledMore' = BilledMore + 0
    <3>1. BilledMore' = BilledMore + (PostedFor(bill'[t.ref]) - PostedFor(bill[t.ref]))
      BY <2>2, BilledMoves
    <3>2. PostedFor(u) \in Int
      BY <2>4, BillNumber
    <3> QED BY <2>1, <2>5, <3>1, <3>2
  <2>9. PostedSound'
    BY <1>1, <1>2, <1>3, <1>6, <1>8, <1>17, <2>1, <2>2, <2>5 DEF PostedSound
  <2> QED BY <1>15, <1>17, <2>6, <2>7, <2>8, <2>9 DEF PayablesInv
<1>18. CASE t.op = "approveNote"
  <2>1. PICK r, k, d : r = x.ref /\ k = x.total /\ d = IssueDebit(t.doc)
    OBVIOUS
  <2>2. ~Issued(x) /\ Issued(y) /\ r \in Returns \cup {"none"} /\ k \in Nat /\ t.doc \notin posted
    BY <1>1, <1>2, <1>5, <1>6, <1>8, <1>18, <2>1 DEF NoteCounts, PostedSound
  <2>3. r # "none" => return[r].status = "COMPLETED"
    BY <1>1, <1>2, <1>18, <2>1 DEF CanNote, Backed
  <2>4. \A v : Credited(v)' = Credited(v) + (IF r = v THEN k ELSE 0)
    <3> SUFFICES ASSUME NEW v PROVE Credited(v)' = Credited(v) + (IF r = v THEN k ELSE 0)
      OBVIOUS
    <3>1. CreditedFor(x, v) = 0 /\ CreditedFor(y, v) = (IF r = v THEN k ELSE 0) /\ Credited(v) \in Nat
      BY <1>6, <1>18, <2>1, CreditedNumber
    <3> QED BY <1>7, <2>2, <3>1
  <2>5. PICK dt \in Nat, dc \in Nat :
          d = dt + dc /\ TakenBack' = TakenBack + dt /\ Credited("none")' = Credited("none") + dc
    BY <1>1, <1>2, <1>8, <2>1, <2>2, <2>3, <2>4, IssueMoves
  <2>6. /\ posted' \in {posted, posted \cup {t.doc}} /\ supplier'.opening = supplier.opening
        /\ supplier'.pending = supplier.pending + (-d)
    <3>1. IF d > 0 THEN PostWithPayable(t.doc, -d) ELSE UNCHANGED <<posted, supplier>>
      BY <1>1, <1>18, <2>1
    <3>2. CASE d > 0
      <4>1. PICK e : e = -d
        OBVIOUS
      <4>2. e \in Int /\ PostWithPayable(t.doc, e)
        BY <2>5, <3>1, <3>2, <4>1
      <4>3. posted' = posted \cup {t.doc} /\ supplier'.opening = supplier.opening /\ supplier'.pending = supplier.pending + e
        BY <2>2, <4>2, Posts
      <4> QED BY <4>1, <4>3
    <3>3. CASE d = 0
      BY <1>10, <3>1, <3>3
    <3> QED BY <2>5, <3>2, <3>3
  <2>7. PostedSound'
    <3>1. \A c : c # t.doc => (c \in posted' <=> c \in posted)
      BY <2>6
    <3>2. \A n \in Notes : n \in posted' => Issued(note'[n])
      <4> SUFFICES ASSUME NEW n \in Notes, n \in posted' PROVE Issued(note'[n])
        OBVIOUS
      <4>1. CASE n = t.doc
        BY <1>2, <2>2, <4>1
      <4>2. CASE n # t.doc
        BY <1>3, <1>8, <3>1, <4>2 DEF PostedSound
      <4> QED BY <4>1, <4>2
    <3>3. UNCHANGED <<receipt, bill, return>>
      BY <1>1, <1>18
    <3>4. \A c \in Receipts \cup Bills \cup Returns : c # t.doc
      BY <1>4
    <3> QED BY <1>8, <3>1, <3>2, <3>3, <3>4 DEF PostedSound
  <2>8. supplier'.pending = supplier.pending + ((0 * Cost + 0) - (0 * Cost + dt + dc + 0))
    BY <1>10, <2>5, <2>6
  <2>9. BooksFollowDocuments'
    <3>1. 0 \in Int /\ dt \in Int /\ dc \in Int /\ BilledMore' = BilledMore + 0
      BY <1>13, <1>18
    <3> QED BY <1>8, <1>9, <1>11, <2>5, <2>6, <2>8, <3>1, BooksMove
  <2> QED BY <1>13, <1>18, <2>7, <2>9 DEF PayablesInv
<1> QED BY <1>16, <1>17, <1>18

\* A shop that nobody paid for yet.
LEMMA PayablesStart ==
  ASSUME Init
  PROVE  PayablesInv
<1>1. PICK d \in Desk :
        /\ ShopSound(d.shop) /\ order = d.shop.order /\ receipt = d.shop.receipt /\ bill = d.shop.bill
        /\ return = d.shop.return /\ supplier = d.shop.supplier /\ posted = d.shop.posted /\ stock = d.shop.stock
        /\ note = [n \in Notes |-> NoNote] /\ alloc = [p \in Notes \X Bills |-> 0] /\ payments = {}
        /\ lock = [r \in Rows |-> Free] /\ \A t \in asks : ~Open(t)
  BY StartsFresh
<1>2. /\ ShopCounts(d.shop) /\ ShopBooked(d.shop) /\ Counted
      /\ \A b \in Bills : bill[b].status \notin {"PARTIALLY_PAID", "PAID"}
  BY <1>1, DocumentsStart DEF ShopSound, DocumentsInv
<1>3. /\ "none" \notin Returns /\ Receipts \ {"none"} = Receipts
  BY DesksAssumption DEF IdsApart, Documents
<1>4. /\ supplier.pending = supplier.opening + Accepted("none") * Cost + BilledMore - Sent * Cost
      /\ stock = Accepted("none") - Sent
      /\ \A r \in Receipts : r \in posted => receipt[r].status \in InStock
      /\ \A b \in Bills : b \in posted => OnBooks(bill[b])
      /\ \A v \in Returns : v \in posted <=> return[v].status = "COMPLETED"
      /\ posted \cap Notes = {}
  <2>1. PICK goods, billed, sent :
          /\ goods = SumFunctionOnSet([r \in Receipts |-> TakenIn(receipt[r])], Receipts)
          /\ billed = SumFunctionOnSet([b \in Bills |-> PostedFor(bill[b])], Bills)
          /\ sent = SumFunctionOnSet([v \in Returns |-> SentBack(return[v])], Returns)
    OBVIOUS
  <2>2. /\ supplier.pending = supplier.opening + goods * Cost + billed - sent * Cost
        /\ stock = goods - sent
        /\ \A r \in Receipts : r \in posted => receipt[r].status \in InStock
        /\ \A b \in Bills : b \in posted => OnBooks(bill[b])
        /\ \A v \in Returns : v \in posted <=> return[v].status = "COMPLETED"
        /\ posted \cap Notes = {}
    BY <1>1, <1>2, <2>1 DEF ShopBooked
  <2>3. Accepted("none") = goods /\ BilledMore = billed /\ Sent = sent
    BY <1>3, <2>1 DEF Accepted, BilledMore, Sent
  <2> QED BY <2>2, <2>3
<1>5. PostedSound
  BY <1>4 DEF PostedSound
<1>6. ASSUME NEW b \in Bills PROVE BillSettled(b)
  <2>1. PaidOf(b) = 0
    BY <1>1, SumEmpty DEF PaidOf
  <2>2. AppliedTo(b) = 0
    <3>1. PICK f : f = [n \in Notes |-> alloc[<<n, b>>]]
      OBVIOUS
    <3>2. \A n \in Notes : f[n] = 0
      BY <1>1, <3>1
    <3> QED BY <3>1, <3>2, ProcurementAssumption, SumZero DEF AppliedTo
  <2>3. bill[b].paid = 0 /\ bill[b].outstanding = BillTotal(bill[b])
    BY <1>1, <1>2 DEF ShopCounts
  <2>4. PICK k : k = BillTotal(bill[b])
    OBVIOUS
  <2>5. k \in Nat
    BY <1>2, <2>4, BillNumber DEF Counted
  <2> QED BY <2>1, <2>2, <2>3, <2>4, <2>5 DEF BillSettled, SettledAt
<1>7. ASSUME NEW n \in Notes PROVE NoteGiven(n)
  <2>1. PICK f : f = [b \in Bills |-> alloc[<<n, b>>]]
    OBVIOUS
  <2>2. \A b \in Bills : f[b] = 0
    BY <1>1, <2>1
  <2>3. GivenOut(n) = 0
    BY <2>1, <2>2, ProcurementAssumption, SumZero DEF GivenOut
  <2>4. note[n].total = 0 /\ note[n].remaining = 0
    BY <1>1 DEF NoNote
  <2> QED BY <2>3, <2>4 DEF NoteGiven, GivenAt
<1>8. \A v : Credited(v) = 0
  <2> SUFFICES ASSUME NEW v PROVE Credited(v) = 0
    OBVIOUS
  <2>1. PICK f : f = [n \in Notes |-> CreditedFor(note[n], v)]
    OBVIOUS
  <2>2. \A n \in Notes : f[n] = 0
    BY <1>1, <2>1 DEF NoNote, CreditedFor, Issued
  <2> QED BY <2>1, <2>2, ProcurementAssumption, SumZero DEF Credited
<1>9. TakenBack = 0
  <2>1. PICK f : f = [v \in Returns |-> Above(v)]
    OBVIOUS
  <2>2. ASSUME NEW v \in Returns PROVE Above(v) = 0
    <3>1. PICK q : q = return[v].qty * Cost
      OBVIOUS
    <3>2. q \in Nat
      BY <1>2, <3>1, ReturnNumber DEF Counted
    <3>3. Floor(0 - q) = 0
      BY <3>2 DEF Floor
    <3> QED BY <1>8, <3>1, <3>3 DEF Above
  <2>3. \A v \in Returns : f[v] = 0
    BY <2>1, <2>2
  <2> QED BY <2>1, <2>3, ProcurementAssumption, SumZero DEF TakenBack
<1>10. Paid = 0
  BY <1>1, SumEmpty DEF Paid
<1>11. BooksFollowDocuments
  <2>1. PICK o, a, b, c, m : /\ o = supplier.opening /\ a = Accepted("none") * Cost /\ b = BilledMore /\ c = Sent * Cost
                             /\ m = supplier.pending
    OBVIOUS
  <2>2. o \in Int /\ a \in Int /\ b \in Int /\ c \in Int
    <3>1. Accepted("none") \in Int /\ Sent \in Int /\ Cost \in Int
      BY <1>2, BooksNumbers, ProcurementAssumption
    <3> QED BY <1>2, <2>1, <3>1, BooksNumbers, CountedParts DEF SupplierShape
  <2>3. m = o + a + b - c
    BY <1>4, <2>1
  <2>4. m = o + a + b - c - 0 - 0 - 0
    BY <2>2, <2>3
  <2>5. m = o + a + b - c - TakenBack - Credited("none") - Paid
    BY <1>8, <1>9, <1>10, <2>4
  <2> QED BY <1>4, <2>1, <2>5 DEF BooksFollowDocuments
<1> QED BY <1>5, <1>6, <1>7, <1>11 DEF PayablesInv

LEMMA PayablesStepsKeep ==
  ASSUME ProcurementInv, DocumentsInv, PayablesInv, [Next]_vars
  PROVE  PayablesInv'
<1>1. CASE UNCHANGED docs
  <2>1. UNCHANGED <<receipt, bill, return, note, alloc, payments, supplier, posted, stock>>
    BY <1>1 DEF docs
  <2> QED BY <2>1, PayablesStand
<1>2. ASSUME NEW t \in Requests, Handle(t) PROVE PayablesInv'
  <2>1. \/ Send(t) \/ Advance(t) \/ Refuse(t)
        \/ OrderCommit(t) \/ ReceiptCommit(t) \/ BillCommit(t) \/ PaymentCommit(t) \/ ReturnCommit(t) \/ NoteCommit(t)
    BY <1>2 DEF Handle, OrderCommit, ReceiptCommit, BillCommit, PaymentCommit, ReturnCommit, NoteCommit
  <2>2. CASE Send(t) \/ Advance(t) \/ Refuse(t)
    <3>1. UNCHANGED docs
      BY <2>2 DEF Send, Advance, Refuse
    <3> QED BY <1>1, <3>1
  <2>3. CASE OrderCommit(t)
    <3>1. UNCHANGED <<receipt, bill, return, note, alloc, payments, supplier, posted, stock>>
      BY <2>3, OrderTurn DEF OnlyOrder
    <3> QED BY <3>1, PayablesStand
  <2>4. CASE ReceiptCommit(t) \/ BillCommit(t) \/ PaymentCommit(t) \/ ReturnCommit(t) \/ NoteCommit(t)
    <3>1. Ends(t, "done")
      BY <2>4, ReceiptCommits, BillCommits, PaymentCommits, ReturnCommits, NoteCommits
    <3>2. Counted /\ Counted' /\ NotesWithinReturn
      BY <2>4, <3>1, CountedKept DEF DocumentsInv
    <3> QED BY <2>4, <3>2, PayablesReceipt, PayablesBill, PayablesPayment, PayablesReturn, PayablesNote
  <2> QED BY <2>1, <2>2, <2>3, <2>4
<1>3. UNCHANGED vars => UNCHANGED docs
  BY DEF vars
<1> QED BY <1>1, <1>2, <1>3 DEF Next

\* What is posted, what each bill and each note has left and what is owed in all agree
\* with the documents, whoever pays, applies, posts and issues in whatever order.
THEOREM PayablesStayBalanced == Spec => []PayablesInv
<1>1. Init => PayablesInv
  BY PayablesStart
<1>2. ProcurementInv /\ DocumentsInv /\ PayablesInv /\ [Next]_vars => PayablesInv'
  BY PayablesStepsKeep
<1> QED BY <1>1, <1>2, ProcurementStaysSound, DocumentsStayWithin, PTL DEF Spec

\* Payments and credit notes settle a bill once and no note gives out more than it is worth,
\* and the balance of the supplier and the stock are what the documents on the books add up
\* to (SupplierPayablesService, LedgerPostingService.postWithPayable, allocateNote).
THEOREM PayablesStaySound == Spec => []PayablesSound
<1>1. ProcurementInv /\ DocumentsInv /\ PayablesInv => SettledOnce
  <2> SUFFICES ASSUME ProcurementInv, DocumentsInv, PayablesInv PROVE SettledOnce
    OBVIOUS
  <2>1. NeverOverpaid
    BY DEF ProcurementInv, AmountsSound, BillAmount, NeverOverpaid
  <2>2. ASSUME NEW b \in Bills, OnBooks(bill[b])
        PROVE  /\ PaidOf(b) = bill[b].paid /\ bill[b].paid + AppliedTo(b) + bill[b].outstanding = BillTotal(bill[b])
               /\ bill[b].outstanding = 0 /\ BillTotal(bill[b]) > 0 => bill[b].status = "PAID"
    <3>1. SettledAt(bill[b], PaidOf(b), AppliedTo(b)) /\ BillAmount(bill[b])
      BY DEF PayablesInv, BillSettled, ProcurementInv, AmountsSound
    <3> QED BY <2>2, <3>1 DEF SettledAt, BillAmount, OnBooks
  <2>3. \A n \in Notes : note[n].remaining + GivenOut(n) = note[n].total
    BY DEF PayablesInv, NoteGiven, GivenAt
  <2> QED BY <2>1, <2>2, <2>3 DEF SettledOnce
<1>2. PayablesInv => BooksFollowDocuments
  BY DEF PayablesInv
<1> QED BY <1>1, <1>2, ProcurementStaysSound, DocumentsStayWithin, PayablesStayBalanced, PTL DEF PayablesSound
=============================================================================
