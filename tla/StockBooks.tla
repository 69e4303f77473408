----------------------------- MODULE StockBooks -----------------------------
(***************************************************************************)
(* The stock of one product as the database keeps it, and what the flows   *)
(* that move it write when they commit: InventoryMutationEngine and the    *)
(* rows its callers add, the reservations, the stock counts and their      *)
(* adjustment requests.                                                    *)
(*                                                                         *)
(* A product has one InventoryItem per location.  SaleItem is the row of   *)
(* the sale location, the one the POS sells from.                          *)
(***************************************************************************)
EXTENDS Integers, Sequences, FiniteSets, Functions

CONSTANTS Item,       \* inventory items: the locations' rows
          SaleItem,
          Actor,      \* users
          Legacy,     \* Product.currentStock from before there were items
          NoValue     \* a count not taken yet, a cache key that does not exist

ASSUME StockAssumption ==
  IsFiniteSet(Item) /\ SaleItem \in Item /\ Legacy \in Nat /\ NoValue \notin Int

VARIABLES items,      \* InventoryItem rows; live: the row exists
          product,    \* Product.currentStock and stockVersion
          moves,      \* StockLedgerEntry rows in the order of their commits
          holds,      \* StockReservation rows with their allocations
          sessions,   \* StockCountSession rows with their one StockCountItem
          asks,       \* AdjustmentRequest rows
          cache,      \* Redis: stock:{shop}:{product}
          clock

stock == <<items, product, moves>>

-----------------------------------------------------------------------------
(* Requests *)

Kind == {"sale", "receipt", "adjust", "opening", "import", "transfer", "reserve", "release",
         "sweep", "start", "count", "complete", "ask", "approve", "recon"}

(***************************************************************************)
(* One record for every endpoint.  item, to: the rows a flow is about; qty *)
(* is signed for an adjustment; key: an idempotency key, 0 for none; ref:  *)
(* the reservation, the count session or the adjustment request.           *)
(***************************************************************************)
Request ==
  [kind : Kind, item : Item, to : Item, qty : Int, key : Nat, actor : Actor, ref : Nat]

-----------------------------------------------------------------------------
(* InventoryItem rows *)

NoItem == [live |-> FALSE, onHand |-> 0, reserved |-> 0, born |-> 0]

NewItem(qty, at) == [live |-> TRUE, onHand |-> qty, reserved |-> 0, born |-> at]

LiveItems(its) == {i \in Item : its[i].live}

OnHandSum(its) == SumFunctionOnSet([i \in Item |-> its[i].onHand], LiveItems(its))

\* onHand - reserved
Available(its, i) == its[i].onHand - its[i].reserved

(***************************************************************************)
(* ensureItem: the row of a location is created on first use.  The stock   *)
(* that predates the items opens the sale location's row, also when the    *)
(* first movement happens elsewhere.                                       *)
(***************************************************************************)
Ensured(its, i, at) ==
  LET gap == product.stock - OnHandSum(its)
      opened == IF gap > 0 /\ ~its[SaleItem].live
                THEN [its EXCEPT ![SaleItem] = NewItem(gap, at)] ELSE its
  IN
  IF its[i].live THEN its
  ELSE IF opened[i].live THEN opened
  ELSE [opened EXCEPT ![i] = NewItem(0, at)]

Row(i, qty, kind, key, at, balance) ==
  [item |-> i, qty |-> qty, kind |-> kind, key |-> key, at |-> at, balance |-> balance]

\* Mutant of BootstrapRows: the row opens with legacy stock and no ledger entry.
BootstrapRowsUnwritten(its, at) == <<>>

\* The OPENING_BALANCE entry of a row that opens with legacy stock.
BootstrapRows(its, at) ==
  IF ~items[SaleItem].live /\ its[SaleItem].live /\ its[SaleItem].onHand > 0
  THEN <<Row(SaleItem, its[SaleItem].onHand, "bootstrap", 0, at, its[SaleItem].onHand)>>
  ELSE <<>>

-----------------------------------------------------------------------------
(* mutateStock *)

\* The movements a request asks of the engine, in their order.
Steps(r) ==
  CASE r.kind = "sale"     -> <<[item |-> SaleItem, qty |-> -r.qty]>>
    [] r.kind = "import"   -> <<[item |-> SaleItem, qty |-> r.qty]>>
    [] r.kind = "transfer" -> <<[item |-> r.item, qty |-> -r.qty], [item |-> r.to, qty |-> r.qty]>>
    [] OTHER               -> <<[item |-> r.item, qty |-> r.qty]>>

\* Every row the movements need.
Placed(steps, at) ==
  LET first == Ensured(items, steps[1].item, at)
  IN  IF Len(steps) = 1 THEN first ELSE Ensured(first, steps[2].item, at)

Net(steps, i) ==
  SumFunctionOnSet([n \in DOMAIN steps |-> steps[n].qty], {n \in DOMAIN steps : steps[n].item = i})

\* The conditional UPDATE: a row gives only what no reservation holds.
Enough(steps, at) ==
  \A i \in Item : Net(steps, i) < 0 => Available(Placed(steps, at), i) >= -Net(steps, i)

(***************************************************************************)
(* What the movements write: the rows, the product's aggregate and the     *)
(* stock ledger.                                                           *)
(***************************************************************************)
Move(steps, kind, key, at) ==
  LET placed == Placed(steps, at)
      total == SumFunction([n \in DOMAIN steps |-> steps[n].qty])
      moved(i) == placed[i].onHand + Net(steps, i)
  IN
  /\ items' = [i \in Item |-> [placed[i] EXCEPT !.onHand = moved(i)]]
  /\ product' = [stock |-> product.stock + total, version |-> product.version + Len(steps)]
  /\ moves' = moves \o BootstrapRows(placed, at)
                \o [n \in DOMAIN steps |->
                      Row(steps[n].item, steps[n].qty, kind, key, at, moved(steps[n].item))]

\* What a set of movements adds up to.
Added(S) == SumFunctionOnSet([m \in DOMAIN moves |-> moves[m].qty], S)

MovesOf(i) == {m \in DOMAIN moves : moves[m].item = i}

\* The movements written under a client's key; adjustments and transfers have their own prefix.
Keyed(r) ==
  {m \in DOMAIN moves :
     /\ r.key # 0 /\ moves[m].key = r.key
     /\ moves[m].kind \in IF r.kind = "transfer" THEN {"transfer"} ELSE {"adjust", "opening"}}

OpeningMoves(i) == {m \in MovesOf(i) : moves[m].kind \in {"opening", "import"}}

\* recordOpeningStock keys the opening of an item by the item itself.
ImportedOpening(i) == {m \in MovesOf(i) : moves[m].kind = "import"}

-----------------------------------------------------------------------------
(* Reservations *)

ActiveHold(h) == holds[h].status = "ALLOCATED"

Older(its, i, j) == its[i].born < its[j].born \/ (its[i].born = its[j].born /\ i = SaleItem)

\* allocateStockFifo over the availability it read: the oldest row gives first.
Allocation(avail, qty) ==
  LET gives == [i \in Item |-> IF avail[i] > 0 THEN avail[i] ELSE 0]
      before(i) == SumFunctionOnSet(gives, {j \in Item \ {i} : Older(items, j, i)})
      left(i) == IF qty > before(i) THEN qty - before(i) ELSE 0
  IN  [i \in Item |-> IF gives[i] < left(i) THEN gives[i] ELSE left(i)]

Allocated(alloc) == SumFunctionOnSet(alloc, Item)

Reserve(alloc) ==
  /\ items' = [i \in Item |-> [items[i] EXCEPT !.reserved = @ + alloc[i]]]
  /\ holds' = Append(holds, [status |-> "ALLOCATED", alloc |-> alloc, due |-> FALSE])

\* GREATEST(reserved - qty, 0)
Free(h, status) ==
  LET less(i) == items[i].reserved - holds[h].alloc[i] IN
  /\ items' = [i \in Item |-> [items[i] EXCEPT !.reserved = IF less(i) > 0 THEN less(i) ELSE 0]]
  /\ holds' = [holds EXCEPT ![h].status = status]

-----------------------------------------------------------------------------
(* Stock counts *)

\* netMovementBetween over the first n rows of the stock ledger.
NetBetween(i, after, upTo, n) ==
  Added({m \in MovesOf(i) : m <= n /\ after < moves[m].at /\ moves[m].at <= upTo})

ExpectedAt(x, upTo, n) == x.expected + NetBetween(x.item, x.startedAt, upTo, n)

\* countVariance of a session: what was counted against what should have been there then.
CountVariance(x, n) == x.counted - ExpectedAt(x, x.countedAt, n)

NewSession(i, at) ==
  [item |-> i, status |-> "IN_PROGRESS", startedAt |-> at, expected |-> items[i].onHand,
   counted |-> NoValue, countedAt |-> 0, variance |-> 0]

\* LIVE_ADJUSTMENT_STATUSES: every request this code leaves behind holds its count.
LiveAsks(s) == {a \in DOMAIN asks : asks[a].session = s}

-----------------------------------------------------------------------------
(***************************************************************************)
(* A product whose stock predates the items; one whose sale row exists; or *)
(* one whose aggregate has drifted from its rows, as the nightly job may   *)
(* find it.                                                                *)
(***************************************************************************)
InitStock ==
  /\ \/ /\ items = [i \in Item |-> NoItem] /\ moves = <<>>
        /\ product = [stock |-> Legacy, version |-> 0]
     \/ /\ items = [[i \in Item |-> NoItem] EXCEPT ![SaleItem] = NewItem(Legacy, 0)]
        /\ moves = <<Row(SaleItem, Legacy, "bootstrap", 0, 0, Legacy)>>
        /\ product \in [stock : {Legacy, Legacy + 1}, version : {0}]
  /\ holds = <<>>
  /\ sessions = <<>>
  /\ asks = <<>>
  /\ cache = Legacy
  /\ clock = 0
=============================================================================
