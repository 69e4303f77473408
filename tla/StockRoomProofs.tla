-------------------------- MODULE StockRoomProofs --------------------------
(***************************************************************************)
(* For any locations, clients and scripts, both isolation levels and any   *)
(* number of faults: the rows of a product, its stock ledger, its holds,   *)
(* its counts and its aggregate agree with each other.                     *)
(***************************************************************************)
EXTENDS StockRoom, SumLemmas, SequenceTheorems

-----------------------------------------------------------------------------
(* Types *)

\* What the clients may ask.
Asking == {r \in Request : Allowed(r)}

MoveRow ==
  [item : Item, qty : Int, kind : Kind \cup {"bootstrap"}, key : Nat, at : Nat, balance : Int]

HoldRow == [status : {"ALLOCATED", "RELEASED", "EXPIRED"}, alloc : [Item -> Nat], due : BOOLEAN]

SessionRow ==
  [item : Item, status : {"IN_PROGRESS", "UNDER_REVIEW"}, startedAt : Nat, expected : Int,
   counted : Int \cup {NoValue}, countedAt : Nat, variance : Int]

AskRow ==
  [session : Nat, status : {"PENDING_APPROVAL", "POSTED"}, by : Actor, item : Item, delta : Int]

Pc ==
  {"idle", "look", "cache", "write", "commit", "sync", "ensure", "check", "header", "insert", "load",
   "find", "save", "read", "product", "sums", "repair", "redis", "set", "once"}

Work ==
  [left : Seq(Asking), pc : Pc, at : Nat, seen : Int, version : Nat, took : BOOLEAN,
   avail : [Item -> Int], rows : Int, shot : Seq(SessionRow), todo : SUBSET Nat]

ItemsTyped == items \in [Item -> [live : BOOLEAN, onHand : Int, reserved : Nat, born : Nat]]

Typed ==
  /\ ItemsTyped
  /\ product \in [stock : Int, version : Nat]
  /\ moves \in Seq(MoveRow) /\ holds \in Seq(HoldRow)
  /\ sessions \in Seq(SessionRow) /\ asks \in Seq(AskRow)
  /\ cache \in Int \cup {NoValue} /\ clock \in Nat /\ faults \in 0..MaxFaults
  /\ work \in [Client -> Work]

\* A client stands at a step of its request, or has none left.
Steady(c) ==
  IF work[c].left = <<>> THEN work[c].pc = "idle"
  ELSE \E n \in DOMAIN Path(Req(c).kind) : work[c].pc = Path(Req(c).kind)[n]

-----------------------------------------------------------------------------
(* The tables *)

(***************************************************************************)
(* A row that does not exist holds nothing; before the sale location has   *)
(* its row the aggregate is right, or it is the stock from before there    *)
(* were rows.                                                              *)
(***************************************************************************)
RowsInv ==
  /\ \A i \in Item : ~items[i].live => items[i].onHand = 0 /\ items[i].reserved = 0
  /\ ~items[SaleItem].live => Agrees
  /\ LiveItems(items) = {} => product.stock >= 0

MovesInv == LedgerRebuilds /\ \A m \in DOMAIN moves : moves[m].at <= clock

\* The posting of a count is its request's, and one count has one request.
PostingsInv ==
  /\ \A m \in DOMAIN moves : moves[m].kind = "count" =>
       moves[m].key \in DOMAIN asks /\ asks[moves[m].key].status = "POSTED"
  /\ \A m, n \in DOMAIN moves :
       moves[m].kind = "count" /\ moves[n].kind = "count" /\ moves[m].key = moves[n].key => m = n
  /\ \A a, b \in DOMAIN asks : asks[a].session # 0 /\ asks[a].session = asks[b].session => a = b

MovedSince(i, t) == Added({m \in MovesOf(i) : t < moves[m].at})

(***************************************************************************)
(* A row is what its session expected at the start and what moved since;   *)
(* a count is taken after the start of its session.                        *)
(***************************************************************************)
SessionsInv ==
  \A s \in DOMAIN sessions :
    LET x == sessions[s] IN
    /\ items[x.item].live /\ x.startedAt <= clock
    /\ x.counted # NoValue => x.startedAt < x.countedAt /\ x.countedAt <= clock
    /\ items[x.item].onHand = x.expected + MovedSince(x.item, x.startedAt)

AsksInv ==
  \A a \in DOMAIN asks :
    /\ items[asks[a].item].live
    /\ asks[a].session # 0 =>
         /\ asks[a].session \in DOMAIN sessions
         /\ sessions[asks[a].session].item = asks[a].item
         /\ sessions[asks[a].session].counted # NoValue

-----------------------------------------------------------------------------
(* What a client knows at each step *)

\* The stamp of a transaction that moves stock is newer than everything in the tables.
Stamped(at) ==
  /\ at <= clock
  /\ \A m \in DOMAIN moves : moves[m].at < at
  /\ \A s \in DOMAIN sessions : sessions[s].startedAt < at

KnowsMove(c) ==
  LET r == Req(c) IN
  /\ r.kind = "import" /\ work[c].pc \in {"write", "commit", "sync"} => items[SaleItem].live
  /\ r.kind \in Moving /\ work[c].pc = "commit" =>
       /\ Stamped(work[c].at)
       /\ Keyed(r) = {}
       /\ r.kind \in {"adjust", "opening"} => items[r.item].live
       /\ r.kind = "opening" => OpeningMoves(r.item) = {}
       /\ r.kind = "import" => MovesOf(SaleItem) = {}
       /\ Enough(Steps(r), work[c].at)

KnowsHold(c) ==
  /\ At(c, "reserve", "commit") =>
       /\ work[c].avail \in [Item -> Nat]
       /\ \A i \in Item : work[c].avail[i] > 0 => Available(items, i) >= work[c].avail[i]
  /\ Req(c).kind \in Releasing /\ work[c].pc \in {"write", "commit"} =>
       work[c].todo \subseteq DOMAIN holds
  /\ Req(c).kind \in Releasing /\ work[c].pc = "commit" =>
       work[c].seen \in work[c].todo /\ ActiveHold(work[c].seen)

KnowsCount(c) ==
  /\ At(c, "count", "look") => Req(c).ref \in DOMAIN sessions
  /\ At(c, "count", "save") =>
       /\ Req(c).ref \in DOMAIN sessions
       /\ sessions[Req(c).ref].startedAt < work[c].at /\ work[c].at <= clock

\* A count of session s as a transaction read it: taken, and of what the session snapped.
CountOf(x, s) ==
  /\ s \in DOMAIN sessions /\ x.counted # NoValue /\ x.startedAt < x.countedAt
  /\ x.item = sessions[s].item /\ x.expected = sessions[s].expected /\ x.startedAt = sessions[s].startedAt

\* The count that is posted gives the shelf as it was counted and what moved since.
Squares(c) ==
  \A n \in DOMAIN work[c].shot :
    LET x == work[c].shot[n] IN
    items[x.item].onHand + work[c].seen =
      x.counted + MovedSince(x.item, x.countedAt) + Unseen(work[c], x)

KnowsAsk(c) ==
  LET a == Req(c).ref IN
  /\ At(c, "approve", "write") =>
       /\ a \in DOMAIN asks
       /\ ServerDefault = "REPEATABLE READ" /\ asks[a].session # 0 =>
            /\ asks[a].session \in DOMAIN work[c].shot
            /\ CountOf(work[c].shot[asks[a].session], asks[a].session)
  /\ At(c, "approve", "commit") =>
       /\ a \in DOMAIN asks /\ asks[a].status = "PENDING_APPROVAL"
       /\ Stamped(work[c].at)
       /\ work[c].seen # 0 => Enough(Adjusting(a, work[c].seen), work[c].at)
       /\ Squares(c) /\ \A n \in DOMAIN work[c].shot : work[c].shot[n].item = asks[a].item

\* What the reconciliation added up is the sum as long as the version stands.
KnowsDrift(c) ==
  /\ At(c, "recon", "sums") \/ At(c, "recon", "repair") => work[c].version <= product.version
  /\ At(c, "recon", "repair") =>
       /\ LiveItems(items) # {}
       /\ work[c].version = product.version => work[c].rows = OnHandSum(items)

Knows(c) ==
  work[c].left # <<>> =>
    KnowsMove(c) /\ KnowsHold(c) /\ KnowsCount(c) /\ KnowsAsk(c) /\ KnowsDrift(c)

OneWriter == \A c, o \in Client : Writing(c) /\ Writing(o) => c = o

Tables ==
  /\ Typed /\ RowsInv /\ MovesInv /\ HoldsBacked /\ MovedOncePerKey
  /\ PostingsInv /\ SessionsInv /\ AsksInv

StockInv == Tables /\ OneWriter /\ \A c \in Client : Steady(c) /\ Knows(c)

-----------------------------------------------------------------------------
(* Sums over the stock ledger *)

QtyOf(mv) == [m \in DOMAIN mv |-> mv[m].qty]

Of(mv, i) == {m \in DOMAIN mv : mv[m].item = i}

QtySum(mv, S) == SumFunctionOnSet(QtyOf(mv), S)

\* A sum of one value, and of two.
LEMMA SumOne ==
  ASSUME NEW f, NEW d, f[d] \in Int
  PROVE  SumFunctionOnSet(f, {d}) = f[d]
<1>1. IsFiniteSet({d}) /\ {d} \ {d} = {}
  BY FS_Singleton
<1>2. SumFunctionOnSet(f, {d}) = f[d] + SumFunctionOnSet(f, {})
  BY <1>1, SumRemove
<1> QED
  BY <1>2, SumEmpty

\* A sum over two.
LEMMA SumTwo ==
  ASSUME NEW f, NEW d, NEW e, d # e, f[d] \in Int, f[e] \in Int
  PROVE  SumFunctionOnSet(f, {d, e}) = f[d] + f[e]
<1>1. IsFiniteSet({d}) /\ {d} \cup {e} = {d, e}
  BY FS_Singleton
<1>2. SumFunctionOnSet(f, {d} \cup {e}) = f[e] + SumFunctionOnSet(f, {d})
  BY <1>1, SumExtend
<1>3. SumFunctionOnSet(f, {d}) = f[d]
  BY SumOne
<1>4. SumFunctionOnSet(f, {d, e}) = f[e] + SumFunctionOnSet(f, {d})
  BY <1>1, <1>2
<1> QED
  BY <1>3, <1>4

\* What Append does, entry by entry.
LEMMA Appended ==
  ASSUME NEW T, NEW mv \in Seq(T), NEW row \in T
  PROVE  /\ Append(mv, row) \in Seq(T) /\ Len(mv) \in Nat
         /\ DOMAIN mv = 1 .. Len(mv) /\ DOMAIN Append(mv, row) = 1 .. (Len(mv) + 1)
         /\ \A m \in DOMAIN mv : Append(mv, row)[m] = mv[m] /\ mv[m] \in T
         /\ Append(mv, row)[Len(mv) + 1] = row
<1>1. /\ Append(mv, row) \in Seq(T) /\ Len(Append(mv, row)) = Len(mv) + 1
      /\ \A i \in 1 .. Len(mv) : Append(mv, row)[i] = mv[i]
      /\ Append(mv, row)[Len(mv) + 1] = row
  BY AppendProperties
<1>2. DOMAIN mv = 1 .. Len(mv) /\ Len(mv) \in Nat
  OBVIOUS
<1>3. DOMAIN Append(mv, row) = 1 .. Len(Append(mv, row))
  BY <1>1
<1>4. \A m \in DOMAIN mv : mv[m] \in T
  OBVIOUS
<1> QED
  BY <1>1, <1>2, <1>3, <1>4

\* A row more: older sums stay, and its own joins.
LEMMA QtyAppend ==
  ASSUME NEW mv \in Seq(MoveRow), NEW row \in MoveRow, NEW S, S \subseteq DOMAIN mv
  PROVE  /\ QtySum(mv, S) \in Int
         /\ QtySum(Append(mv, row), S) = QtySum(mv, S)
         /\ QtySum(Append(mv, row), S \cup {Len(mv) + 1}) = QtySum(mv, S) + row.qty
<1> DEFINE f == QtyOf(mv)
           g == QtyOf(Append(mv, row))
           d == Len(mv) + 1
<1>1. /\ DOMAIN mv = 1 .. Len(mv) /\ DOMAIN Append(mv, row) = 1 .. d /\ Len(mv) \in Nat
      /\ \A m \in DOMAIN mv : Append(mv, row)[m] = mv[m] /\ mv[m] \in MoveRow
      /\ Append(mv, row)[d] = row
  BY Appended
<1>2. IsFiniteSet(DOMAIN mv)
  BY <1>1, FS_Interval
<1>3. IsFiniteSet(S)
  BY <1>2, FS_Subset
<1>4. \A x \in S : f[x] \in Int /\ g[x] = f[x]
  <2> SUFFICES ASSUME NEW x \in S PROVE f[x] \in Int /\ g[x] = f[x]
    OBVIOUS
  <2>1. /\ x \in DOMAIN mv /\ x \in DOMAIN Append(mv, row)
        /\ Append(mv, row)[x] = mv[x] /\ mv[x] \in MoveRow
    BY <1>1
  <2>2. mv[x].qty \in Int
    BY <2>1 DEF MoveRow
  <2> QED
    BY <2>1, <2>2 DEF QtyOf
<1>5. g[d] = row.qty /\ row.qty \in Int /\ d \notin S
  <2>1. d \in DOMAIN Append(mv, row) /\ d \notin DOMAIN mv
    BY <1>1
  <2>2. row.qty \in Int
    BY DEF MoveRow
  <2> QED
    BY <1>1, <2>1, <2>2 DEF QtyOf
<1> HIDE DEF f, g, d
<1>6. SumFunctionOnSet(f, S) \in Int
  BY <1>3, <1>4, SumInt
<1>7. SumFunctionOnSet(f, S) = SumFunctionOnSet(g, S)
  BY <1>3, <1>4, SumAgree
<1>8. \A x \in S \cup {d} : g[x] \in Int
  BY <1>4, <1>5
<1>9. SumFunctionOnSet(g, S \cup {d}) = g[d] + SumFunctionOnSet(g, S)
  BY <1>3, <1>5, <1>8, SumExtend
<1>10. SumFunctionOnSet(g, S \cup {d}) = SumFunctionOnSet(f, S) + row.qty
  BY <1>5, <1>6, <1>7, <1>9
<1> QED
  BY <1>6, <1>7, <1>10 DEF QtySum, f, g, d

Since(mv, i, t) == QtySum(mv, {m \in Of(mv, i) : t < mv[m].at})

\* What moved since t when a row joins.
LEMMA SinceAppend ==
  ASSUME NEW mv \in Seq(MoveRow), NEW row \in MoveRow, NEW i, NEW t \in Int
  PROVE  /\ Since(mv, i, t) \in Int
         /\ row.item = i /\ t < row.at => Since(Append(mv, row), i, t) = Since(mv, i, t) + row.qty
         /\ ~(row.item = i /\ t < row.at) => Since(Append(mv, row), i, t) = Since(mv, i, t)
<1> DEFINE S == {m \in Of(mv, i) : t < mv[m].at}
           T == {m \in Of(Append(mv, row), i) : t < Append(mv, row)[m].at}
           d == Len(mv) + 1
<1>1. /\ DOMAIN mv = 1 .. Len(mv) /\ DOMAIN Append(mv, row) = 1 .. d /\ Len(mv) \in Nat
      /\ \A m \in DOMAIN mv : Append(mv, row)[m] = mv[m] /\ mv[m] \in MoveRow
      /\ Append(mv, row)[d] = row
  BY Appended
<1>2. S \subseteq DOMAIN mv
  BY DEF Of
<1>3. row.item = i /\ t < row.at => T = S \cup {d}
  BY <1>1 DEF Of
<1>4. ~(row.item = i /\ t < row.at) => T = S
  BY <1>1 DEF Of
<1> HIDE DEF S, T, d
<1>5. /\ QtySum(mv, S) \in Int /\ QtySum(Append(mv, row), S) = QtySum(mv, S)
      /\ QtySum(Append(mv, row), S \cup {d}) = QtySum(mv, S) + row.qty
  BY <1>2, QtyAppend DEF d
<1> QED
  BY <1>3, <1>4, <1>5 DEF Since, S, T

(***************************************************************************)
(* A stock ledger that rebuilds the quantities oh.                         *)
(***************************************************************************)
Book(mv, oh) ==
  /\ mv \in Seq(MoveRow) /\ oh \in [Item -> Int]
  /\ \A i \in Item : oh[i] = QtySum(mv, Of(mv, i))
  /\ \A m \in DOMAIN mv : mv[m].balance = QtySum(mv, {n \in Of(mv, mv[m].item) : n <= m})
  /\ \A m, n \in DOMAIN mv : m < n => mv[m].at <= mv[n].at

\* mutateStock: a row with its balance, stamped no earlier than the others, keeps the ledger.
LEMMA BookAppend ==
  ASSUME NEW mv, NEW oh, Book(mv, oh), NEW row \in MoveRow,
         row.balance = oh[row.item] + row.qty, \A m \in DOMAIN mv : mv[m].at <= row.at
  PROVE  Book(Append(mv, row), [oh EXCEPT ![row.item] = row.balance])
<1> DEFINE after == Append(mv, row)
           new == [oh EXCEPT ![row.item] = row.balance]
           d == Len(mv) + 1
<1>1. mv \in Seq(MoveRow) /\ oh \in [Item -> Int] /\ row.item \in Item /\ row.balance \in Int
  BY DEF Book, MoveRow
<1>2. /\ DOMAIN mv = 1 .. Len(mv) /\ DOMAIN after = 1 .. d /\ Len(mv) \in Nat
      /\ \A m \in DOMAIN mv : after[m] = mv[m] /\ mv[m] \in MoveRow
      /\ after[d] = row /\ after \in Seq(MoveRow)
  BY <1>1, Appended
<1>3. \A i \in Item : Of(after, i) = IF row.item = i THEN Of(mv, i) \cup {d} ELSE Of(mv, i)
  BY <1>2 DEF Of
<1>4. \A i : Of(mv, i) \subseteq DOMAIN mv
  BY DEF Of
<1> HIDE DEF after, d
<1>5. \A S \in SUBSET DOMAIN mv : /\ QtySum(mv, S) \in Int /\ QtySum(after, S) = QtySum(mv, S)
                                  /\ QtySum(after, S \cup {d}) = QtySum(mv, S) + row.qty
  BY <1>1, QtyAppend DEF after, d
<1>6. new \in [Item -> Int]
  BY <1>1
<1>7. ASSUME NEW i \in Item PROVE new[i] = QtySum(after, Of(after, i))
  <2>1. oh[i] = QtySum(mv, Of(mv, i))
    BY DEF Book
  <2>2. CASE row.item = i
    <3>1. QtySum(after, Of(after, i)) = QtySum(mv, Of(mv, i)) + row.qty
      BY <1>3, <1>4, <1>5, <2>2
    <3> QED
      BY <1>1, <2>1, <2>2, <3>1
  <2>3. CASE row.item # i
    BY <1>1, <1>3, <1>4, <1>5, <2>1, <2>3
  <2> QED
    BY <2>2, <2>3
<1>8. ASSUME NEW m \in DOMAIN after
      PROVE  after[m].balance = QtySum(after, {n \in Of(after, after[m].item) : n <= m})
  <2>1. CASE m \in DOMAIN mv
    <3> DEFINE S == {n \in Of(mv, mv[m].item) : n <= m}
    <3>1. {n \in Of(after, after[m].item) : n <= m} = S /\ S \subseteq DOMAIN mv /\ after[m] = mv[m]
      BY <1>2, <2>1 DEF Of, d
    <3>2. mv[m].balance = QtySum(mv, S)
      BY <2>1 DEF Book
    <3> QED
      BY <1>5, <3>1, <3>2
  <2>2. CASE m = d
    <3>1. {n \in Of(after, row.item) : n <= d} = Of(mv, row.item) \cup {d}
      BY <1>2, <1>3, <1>1 DEF Of, d
    <3>2. QtySum(after, Of(mv, row.item) \cup {d}) = QtySum(mv, Of(mv, row.item)) + row.qty
      BY <1>4, <1>5
    <3>3. oh[row.item] = QtySum(mv, Of(mv, row.item))
      BY <1>1 DEF Book
    <3> QED
      BY <1>2, <2>2, <3>1, <3>2, <3>3
  <2> QED
    BY <1>2, <2>1, <2>2 DEF d
<1>9. \A m, n \in DOMAIN after : m < n => after[m].at <= after[n].at
  BY <1>2 DEF Book, d
<1> QED
  BY <1>2, <1>6, <1>7, <1>8, <1>9 DEF Book, after

\* The sum over two sets that share nothing.
LEMMA SumDisjoint ==
  ASSUME NEW f, NEW S, NEW R, IsFiniteSet(S), IsFiniteSet(R), S \cap R = {},
         \A x \in S \cup R : f[x] \in Int
  PROVE  SumFunctionOnSet(f, S \cup R) = SumFunctionOnSet(f, S) + SumFunctionOnSet(f, R)
<1> DEFINE T == {t \in SUBSET R :
                   SumFunctionOnSet(f, S \cup t) # SumFunctionOnSet(f, S) + SumFunctionOnSet(f, t)}
<1>0. T \subseteq SUBSET R
  OBVIOUS
<1>1. SUFFICES ASSUME T # {} PROVE FALSE
  OBVIOUS
<1> HIDE DEF T
<1>2. PICK m \in T : \A y \in T : ~(y \subseteq m /\ y # m)
  BY <1>0, <1>1, Smallest
<1> USE DEF T
<1>11. SumFunctionOnSet(f, S \cup m) # SumFunctionOnSet(f, S) + SumFunctionOnSet(f, m)
  BY <1>2
<1>3. SumFunctionOnSet(f, S) \in Int
  BY SumInt
<1>4. m # {}
  <2>1. SUFFICES ASSUME m = {} PROVE FALSE
    OBVIOUS
  <2>2. S \cup m = S
    BY <2>1
  <2>3. SumFunctionOnSet(f, m) = 0
    BY <2>1, SumEmpty
  <2>4. SumFunctionOnSet(f, S \cup m) = SumFunctionOnSet(f, S)
    BY <2>2, Zenon
  <2>5. SumFunctionOnSet(f, S) = SumFunctionOnSet(f, S) + SumFunctionOnSet(f, m)
    BY <1>3, <2>3
  <2> QED
    BY <1>11, <2>4, <2>5, Zenon
<1> DEFINE p == Pick(m)
           k == m \ {p}
<1>5. p \in m /\ k \subseteq R /\ k \subseteq m /\ k # m /\ p \notin S \cup k /\ S \cup m = (S \cup k) \cup {p}
  BY <1>2, <1>4, PickIn
<1>6. IsFiniteSet(m) /\ IsFiniteSet(k) /\ IsFiniteSet(S \cup k)
  <2>1. IsFiniteSet(m) /\ IsFiniteSet(k)
    BY <1>2, <1>5, FS_Subset
  <2> QED
    BY <2>1, FS_Union
<1>7. SumFunctionOnSet(f, S \cup k) = SumFunctionOnSet(f, S) + SumFunctionOnSet(f, k)
  BY <1>2, <1>5
<1>8. SumFunctionOnSet(f, m) = f[p] + SumFunctionOnSet(f, k)
  BY <1>4, <1>6, SumPick
<1>9. SumFunctionOnSet(f, (S \cup k) \cup {p}) = f[p] + SumFunctionOnSet(f, S \cup k)
  <2>1. \A x \in (S \cup k) \cup {p} : f[x] \in Int
    BY <1>2, <1>5
  <2> QED
    BY <1>5, <1>6, <2>1, SumExtend
<1>10. f[p] \in Int /\ SumFunctionOnSet(f, k) \in Int
  BY <1>2, <1>5, <1>6, SumInt
<1>12. SumFunctionOnSet(f, S \cup m) = f[p] + SumFunctionOnSet(f, S \cup k)
  BY <1>5, <1>9, Zenon
<1> DEFINE v == f[p]
           w == SumFunctionOnSet(f, k)
           x == SumFunctionOnSet(f, S)
           y == SumFunctionOnSet(f, S \cup m)
           z == SumFunctionOnSet(f, S \cup k)
           u == SumFunctionOnSet(f, m)
<1>13. /\ v \in Int /\ w \in Int /\ x \in Int
       /\ z = x + w /\ u = v + w /\ y = v + z /\ y # x + u
  BY <1>3, <1>7, <1>8, <1>10, <1>11, <1>12, Zenon
<1> HIDE DEF T, k, p, u, v, w, x, y, z
<1> QED
  BY <1>13

-----------------------------------------------------------------------------
(* The rows a movement creates *)

ItemRow == [live : BOOLEAN, onHand : Int, reserved : Nat, born : Nat]

DeadZero(its) == \A i \in Item : ~its[i].live => its[i].onHand = 0 /\ its[i].reserved = 0

Right(its) == LiveItems(its) # {} => product.stock = OnHandSum(its)

Total(its) == SumFunctionOnSet([i \in Item |-> its[i].onHand], Item)

(***************************************************************************)
(* From its to to: rows are created, with nothing on hand or, in the sale  *)
(* location, with the stock from before there were rows.                   *)
(***************************************************************************)
Opened(its, to) ==
  /\ to \in [Item -> ItemRow] /\ DeadZero(to)
  /\ \A k \in Item : to[k].reserved = its[k].reserved /\ (its[k].live => to[k] = its[k])
  /\ \A k \in Item : k # SaleItem => to[k].onHand = its[k].onHand
  /\ to[SaleItem].onHand # its[SaleItem].onHand =>
       ~its[SaleItem].live /\ to[SaleItem].live /\ to[SaleItem].onHand > 0
  /\ Right(its) /\ (LiveItems(its) = {} => product.stock >= 0) =>
       Right(to) /\ (LiveItems(to) = {} => product.stock >= 0)

\* Rows that do not exist add nothing.
LEMMA TotalIsSum ==
  ASSUME NEW its \in [Item -> ItemRow], DeadZero(its)
  PROVE  OnHandSum(its) = Total(its) /\ Total(its) \in Int
<1> DEFINE f == [i \in Item |-> its[i].onHand]
           L == LiveItems(its)
<1>1. \A i \in Item : f[i] \in Int /\ (i \notin L => f[i] = 0)
  BY DEF ItemRow, DeadZero, LiveItems
<1>2. L \subseteq Item /\ IsFiniteSet(L) /\ IsFiniteSet(Item \ L) /\ IsFiniteSet(Item)
  BY StockAssumption, FS_Subset DEF LiveItems
<1> HIDE DEF f, L
<1>3. L \cup (Item \ L) = Item /\ L \cap (Item \ L) = {}
  BY <1>2
<1>4. SumFunctionOnSet(f, L \cup (Item \ L)) = SumFunctionOnSet(f, L) + SumFunctionOnSet(f, Item \ L)
  BY <1>1, <1>2, <1>3, SumDisjoint
<1>5. SumFunctionOnSet(f, Item \ L) = 0
  BY <1>1, <1>2, SumZero
<1>6. SumFunctionOnSet(f, L) \in Int
  BY <1>1, <1>2, SumInt
<1>7. SumFunctionOnSet(f, Item) = SumFunctionOnSet(f, L)
  <2>1. SumFunctionOnSet(f, Item) = SumFunctionOnSet(f, L) + 0
    BY <1>3, <1>4, <1>5, Zenon
  <2> QED
    BY <1>6, <2>1
<1>8. OnHandSum(its) = SumFunctionOnSet(f, L) /\ Total(its) = SumFunctionOnSet(f, Item)
  BY DEF OnHandSum, Total, f, L
<1> QED
  BY <1>6, <1>7, <1>8

\* One row's quantity changes.
LEMMA TotalChange ==
  ASSUME NEW its \in [Item -> ItemRow], NEW to \in [Item -> ItemRow], NEW d \in Item,
         \A k \in Item : k # d => to[k].onHand = its[k].onHand
  PROVE  Total(to) = Total(its) + (to[d].onHand - its[d].onHand)
<1> DEFINE f == [i \in Item |-> its[i].onHand]
           g == [i \in Item |-> to[i].onHand]
<1>1. \A i \in Item : f[i] \in Int /\ g[i] \in Int /\ (i # d => g[i] = f[i])
  BY DEF ItemRow
<1>2. f[d] = its[d].onHand /\ g[d] = to[d].onHand
  OBVIOUS
<1> HIDE DEF f, g
<1>3. SumFunctionOnSet(g, Item) = SumFunctionOnSet(f, Item) + (g[d] - f[d])
  BY <1>1, StockAssumption, SumChange
<1> QED
  BY <1>2, <1>3 DEF Total, f, g

\* ensureItem: the row is there, with at most the stock that predates the rows.
LEMMA EnsuredOpens ==
  ASSUME NEW its \in [Item -> ItemRow], DeadZero(its), product \in [stock : Int, version : Nat],
         NEW i \in Item, NEW at \in Nat
  PROVE  Opened(its, Ensured(its, i, at)) /\ Ensured(its, i, at)[i].live
<1> DEFINE gap == product.stock - OnHandSum(its)
           opened == IF gap > 0 /\ ~its[SaleItem].live
                     THEN [its EXCEPT ![SaleItem] = NewItem(gap, at)] ELSE its
           to == Ensured(its, i, at)
<1>1. SaleItem \in Item
  BY StockAssumption
<1>2. OnHandSum(its) = Total(its) /\ Total(its) \in Int /\ gap \in Int
  BY TotalIsSum
<1>3. \A q \in Int : NewItem(q, at) \in ItemRow
  BY DEF NewItem, ItemRow
<1>4. opened \in [Item -> ItemRow] /\ \A k \in Item : k # SaleItem => opened[k] = its[k]
  BY <1>1, <1>2, <1>3
<1>5. to = IF its[i].live THEN its ELSE IF opened[i].live THEN opened
           ELSE [opened EXCEPT ![i] = NewItem(0, at)]
  BY DEF Ensured
<1> SUFFICES Opened(its, to) /\ to[i].live
  OBVIOUS
<1> HIDE DEF to
<1>6. CASE its[i].live
  BY <1>5, <1>6 DEF Opened
<1>7. CASE ~its[i].live /\ gap > 0 /\ ~its[SaleItem].live
  <2>1. opened = [its EXCEPT ![SaleItem] = NewItem(gap, at)]
    BY <1>7
  <2> HIDE DEF opened, gap
  <2>2. opened[SaleItem] = NewItem(gap, at)
    BY <1>1, <2>1
  <2>3. to = IF i = SaleItem THEN opened ELSE [opened EXCEPT ![i] = NewItem(0, at)]
    BY <1>4, <1>5, <1>7, <2>2 DEF NewItem
  <2>4. /\ to \in [Item -> ItemRow] /\ to[SaleItem] = NewItem(gap, at) /\ to[i].live
        /\ \A k \in Item \ {SaleItem} : to[k] = IF k = i THEN NewItem(0, at) ELSE its[k]
    <3>1. NewItem(gap, at).live /\ NewItem(0, at).live /\ NewItem(0, at) \in ItemRow
      BY <1>3 DEF NewItem
    <3>2. CASE i = SaleItem
      BY <1>1, <1>4, <2>2, <2>3, <3>1, <3>2
    <3>3. CASE i # SaleItem
      <4>1. to = [opened EXCEPT ![i] = NewItem(0, at)]
        BY <2>3, <3>3
      <4> QED
        BY <1>1, <1>4, <2>2, <3>1, <3>3, <4>1
    <3> QED
      BY <3>2, <3>3
  <2>5. /\ NewItem(gap, at).live /\ NewItem(gap, at).onHand = gap /\ NewItem(gap, at).reserved = 0
        /\ NewItem(0, at).live /\ NewItem(0, at).onHand = 0 /\ NewItem(0, at).reserved = 0
    BY DEF NewItem
  <2>6. its[i].onHand = 0 /\ its[i].reserved = 0 /\ its[SaleItem].onHand = 0 /\ its[SaleItem].reserved = 0
    BY <1>1, <1>7 DEF DeadZero
  <2>7. DeadZero(to)
    BY <2>4, <2>5 DEF DeadZero
  <2>8. \A k \in Item : k # SaleItem => to[k].onHand = its[k].onHand
    BY <2>4, <2>5, <2>6
  <2>9. Total(to) = Total(its) + gap
    BY <1>1, <1>2, <2>4, <2>5, <2>6, <2>8, TotalChange
  <2>10. product.stock = OnHandSum(to)
    BY <1>2, <2>4, <2>7, <2>9, TotalIsSum DEF gap
  <2>11. SaleItem \in LiveItems(to)
    BY <1>1, <2>4, <2>5 DEF LiveItems
  <2>12. \A k \in Item : to[k].reserved = its[k].reserved /\ (its[k].live => to[k] = its[k])
    BY <1>7, <2>4, <2>5, <2>6
  <2> QED
    BY <1>7, <2>4, <2>5, <2>7, <2>8, <2>10, <2>11, <2>12 DEF Opened, Right
<1>8. CASE ~its[i].live /\ ~(gap > 0 /\ ~its[SaleItem].live)
  <2>1. to = [its EXCEPT ![i] = NewItem(0, at)]
    BY <1>5, <1>8
  <2>2. /\ to \in [Item -> ItemRow] /\ to[i] = NewItem(0, at) /\ \A k \in Item : k # i => to[k] = its[k]
    BY <1>3, <2>1
  <2>3. NewItem(0, at).live /\ NewItem(0, at).onHand = 0 /\ NewItem(0, at).reserved = 0
    BY DEF NewItem
  <2>4. its[i].onHand = 0 /\ its[i].reserved = 0
    BY <1>8 DEF DeadZero
  <2>5. DeadZero(to)
    BY <2>2, <2>3 DEF DeadZero
  <2>6. \A k \in Item : to[k].onHand = its[k].onHand /\ to[k].reserved = its[k].reserved
    BY <2>2, <2>3, <2>4
  <2>7. Total(to) = Total(its)
    <3>1. Total(to) = Total(its) + (to[i].onHand - its[i].onHand)
      BY <2>2, <2>6, TotalChange
    <3> QED
      BY <1>2, <2>2, <2>3, <2>4, <3>1
  <2>8. OnHandSum(to) = Total(its)
    BY <2>2, <2>5, <2>7, TotalIsSum
  <2>9. ASSUME Right(its), LiveItems(its) = {} => product.stock >= 0 PROVE product.stock = OnHandSum(to)
    <3>1. CASE LiveItems(its) # {}
      BY <1>2, <2>8, <2>9, <3>1 DEF Right
    <3>2. CASE LiveItems(its) = {}
      <4>1. OnHandSum(its) = 0
        BY <3>2, SumEmpty DEF OnHandSum
      <4>2. ~its[SaleItem].live
        BY <1>1, <3>2 DEF LiveItems
      <4>3. ~(gap > 0) /\ product.stock >= 0
        BY <1>8, <2>9, <3>2, <4>2
      <4> QED
        BY <1>2, <2>8, <4>1, <4>3
    <3> QED
      BY <3>1, <3>2
  <2>10. i \in LiveItems(to)
    BY <2>2, <2>3 DEF LiveItems
  <2>11. \A k \in Item : its[k].live => to[k] = its[k]
    BY <1>8, <2>2
  <2> QED
    BY <1>1, <2>2, <2>3, <2>5, <2>6, <2>9, <2>10, <2>11 DEF Opened, Right
<1> QED
  BY <1>6, <1>7, <1>8 DEF to

\* Rows are created twice.
LEMMA OpenedTwice ==
  ASSUME NEW a, NEW b, NEW d, Opened(a, b), Opened(b, d)
  PROVE  Opened(a, d)
BY StockAssumption DEF Opened

\* One movement, or two of different rows.
IsSteps(steps) ==
  \/ \E i \in Item : \E q \in Int : steps = <<[item |-> i, qty |-> q]>>
  \/ \E i, j \in Item : \E p, q \in Int :
       i # j /\ steps = <<[item |-> i, qty |-> p], [item |-> j, qty |-> q]>>

\* The rows the movements need are there.
LEMMA PlacedOpens ==
  ASSUME ItemsTyped, DeadZero(items), product \in [stock : Int, version : Nat],
         NEW steps, IsSteps(steps), NEW at \in Nat
  PROVE  /\ Opened(items, Placed(steps, at))
         /\ \A n \in DOMAIN steps : Placed(steps, at)[steps[n].item].live
<1>0. items \in [Item -> ItemRow]
  BY DEF ItemsTyped, ItemRow
<1>1. CASE \E i \in Item : \E q \in Int : steps = <<[item |-> i, qty |-> q]>>
  <2>1. PICK i \in Item, q \in Int : steps = <<[item |-> i, qty |-> q]>>
    BY <1>1
  <2>2. Len(steps) = 1 /\ DOMAIN steps = {1} /\ steps[1].item = i
    BY <2>1
  <2>3. Placed(steps, at) = Ensured(items, i, at)
    BY <2>2 DEF Placed
  <2> QED
    BY <1>0, <2>2, <2>3, EnsuredOpens
<1>2. CASE \E i, j \in Item : \E p, q \in Int :
             i # j /\ steps = <<[item |-> i, qty |-> p], [item |-> j, qty |-> q]>>
  <2>1. PICK i \in Item, j \in Item, p \in Int, q \in Int :
          steps = <<[item |-> i, qty |-> p], [item |-> j, qty |-> q]>>
    BY <1>2
  <2>2. Len(steps) = 2 /\ DOMAIN steps = {1, 2} /\ steps[1].item = i /\ steps[2].item = j
    BY <2>1
  <2> DEFINE first == Ensured(items, i, at)
  <2>3. Placed(steps, at) = Ensured(first, j, at)
    BY <2>2 DEF Placed
  <2>4. Opened(items, first) /\ first[i].live
    BY <1>0, EnsuredOpens
  <2> HIDE DEF first
  <2>5. first \in [Item -> ItemRow] /\ DeadZero(first)
    BY <2>4 DEF Opened
  <2>6. Opened(first, Ensured(first, j, at)) /\ Ensured(first, j, at)[j].live
    BY <2>5, EnsuredOpens
  <2>7. Ensured(first, j, at)[i].live
    BY <2>4, <2>6 DEF Opened
  <2>8. Opened(items, Ensured(first, j, at))
    BY <2>4, <2>6, OpenedTwice
  <2> QED
    BY <2>2, <2>3, <2>6, <2>7, <2>8
<1> QED
  BY <1>1, <1>2 DEF IsSteps

-----------------------------------------------------------------------------
(* The stock ledger, row by row *)

\* MovedOncePerKey of a ledger.
OnceIn(mv) ==
  /\ \A m, n \in DOMAIN mv :
       (/\ m # n /\ mv[m].key # 0 /\ mv[m].key = mv[n].key
        /\ mv[m].kind # "count" /\ mv[m].kind = mv[n].kind)
         => mv[m].kind = "transfer" /\ mv[m].item # mv[n].item
  /\ \A i \in Item : Cardinality({m \in Of(mv, i) : mv[m].kind \in {"opening", "import"}}) <= 1
  /\ \A i \in Item : \A m \in {m \in Of(mv, i) : mv[m].kind = "import"} : \A n \in Of(mv, i) : m <= n

\* Nothing in the ledger stands against the row.
FreshRow(mv, row) ==
  /\ row.key # 0 /\ row.kind # "count" =>
       \A m \in DOMAIN mv : mv[m].key = row.key /\ mv[m].kind = row.kind =>
         row.kind = "transfer" /\ mv[m].item # row.item
  /\ row.kind \in {"opening", "import"} =>
       \A m \in Of(mv, row.item) : mv[m].kind \notin {"opening", "import"}
  /\ row.kind = "import" => Of(mv, row.item) = {}

\* A row whose key and opening are new keeps every key and every opening single.
LEMMA OnceAppend ==
  ASSUME NEW mv \in Seq(MoveRow), OnceIn(mv), NEW row \in MoveRow, FreshRow(mv, row)
  PROVE  OnceIn(Append(mv, row))
<1> DEFINE after == Append(mv, row)
           d == Len(mv) + 1
<1>1. /\ DOMAIN mv = 1 .. Len(mv) /\ DOMAIN after = 1 .. d /\ Len(mv) \in Nat
      /\ \A m \in DOMAIN mv : after[m] = mv[m]
      /\ after[d] = row
  BY Appended
<1> HIDE DEF after
<1>2. \A m \in DOMAIN after : m \in DOMAIN mv \/ m = d
  BY <1>1
<1>3. \A m \in DOMAIN mv : m \in DOMAIN after /\ m < d /\ m # d
  BY <1>1
<1>4. ASSUME NEW m \in DOMAIN after, NEW n \in DOMAIN after,
             m # n, after[m].key # 0, after[m].key = after[n].key,
             after[m].kind # "count", after[m].kind = after[n].kind
      PROVE  after[m].kind = "transfer" /\ after[m].item # after[n].item
  <2>1. CASE m \in DOMAIN mv /\ n \in DOMAIN mv
    BY <1>1, <1>4, <2>1 DEF OnceIn
  <2>2. CASE m = d /\ n \in DOMAIN mv
    BY <1>1, <1>4, <2>2 DEF FreshRow
  <2>3. CASE m \in DOMAIN mv /\ n = d
    BY <1>1, <1>4, <2>3 DEF FreshRow
  <2> QED
    BY <1>2, <1>4, <2>1, <2>2, <2>3
<1>5. ASSUME NEW i \in Item
      PROVE  Cardinality({m \in Of(after, i) : after[m].kind \in {"opening", "import"}}) <= 1
  <2> DEFINE S == {m \in Of(mv, i) : mv[m].kind \in {"opening", "import"}}
             T == {m \in Of(after, i) : after[m].kind \in {"opening", "import"}}
  <2>1. Cardinality(S) <= 1
    BY DEF OnceIn
  <2>2. CASE row.item = i /\ row.kind \in {"opening", "import"}
    <3>1. S = {}
      BY <2>2 DEF FreshRow
    <3>2. T = S \cup {d}
      BY <1>1, <1>2, <1>3, <2>2 DEF Of
    <3>3. T = {d}
      BY <3>1, <3>2
    <3>4. Cardinality({d}) = 1
      BY FS_Singleton
    <3>5. Cardinality(T) = 1
      BY <3>3, <3>4, Zenon
    <3> HIDE DEF T
    <3>6. Cardinality(T) <= 1
      BY <3>5
    <3> QED
      BY <3>6 DEF T
  <2>3. CASE ~(row.item = i /\ row.kind \in {"opening", "import"})
    <3>1. T = S
      BY <1>1, <1>2, <1>3, <2>3 DEF Of
    <3> QED
      BY <2>1, <3>1
  <2> QED
    BY <2>2, <2>3
<1>6. ASSUME NEW i \in Item, NEW m \in Of(after, i), after[m].kind = "import", NEW n \in Of(after, i)
      PROVE  m <= n
  <2>1. m \in DOMAIN after /\ n \in DOMAIN after /\ after[m].item = i /\ after[n].item = i
    BY DEF Of
  <2>2. CASE m \in DOMAIN mv /\ n \in DOMAIN mv
    BY <1>1, <1>6, <2>1, <2>2 DEF OnceIn, Of
  <2>3. CASE m \in DOMAIN mv /\ n = d
    BY <1>1, <2>3
  <2>4. CASE m = d /\ n = d
    BY <1>1, <2>4
  <2>5. CASE m = d /\ n \in DOMAIN mv
    BY <1>1, <1>6, <2>1, <2>5 DEF FreshRow, Of
  <2> QED
    BY <1>2, <2>1, <2>2, <2>3, <2>4, <2>5
<1> QED
  BY <1>4, <1>5, <1>6 DEF OnceIn, after

\* The sessions ss expect what the ledger says.
SessIn(mv, oh, ss) ==
  \A s \in DOMAIN ss : oh[ss[s].item] = ss[s].expected + Since(mv, ss[s].item, ss[s].startedAt)

Ledger(mv, oh, ss) == Book(mv, oh) /\ OnceIn(mv) /\ SessIn(mv, oh, ss)

\* A row whose balance is right and whose stamp is new.
FitsRow(mv, oh, ss, row) ==
  /\ row \in MoveRow /\ row.balance = oh[row.item] + row.qty
  /\ \A m \in DOMAIN mv : mv[m].at <= row.at
  /\ \A s \in DOMAIN ss : ss[s].startedAt < row.at
  /\ FreshRow(mv, row)

\* A row that continues the balances, the times and the keys keeps the whole ledger right.
LEMMA LedgerAppend ==
  ASSUME NEW mv, NEW oh, NEW ss \in Seq(SessionRow), Ledger(mv, oh, ss),
         NEW row, FitsRow(mv, oh, ss, row)
  PROVE  Ledger(Append(mv, row), [oh EXCEPT ![row.item] = row.balance], ss)
<1> DEFINE new == [oh EXCEPT ![row.item] = row.balance]
<1>1. /\ mv \in Seq(MoveRow) /\ oh \in [Item -> Int] /\ row \in MoveRow
      /\ row.item \in Item /\ row.balance \in Int /\ row.qty \in Int /\ row.at \in Nat
  BY DEF Ledger, Book, FitsRow, MoveRow
<1>2. Book(Append(mv, row), new)
  BY BookAppend DEF Ledger, FitsRow
<1>3. OnceIn(Append(mv, row))
  BY <1>1, OnceAppend DEF Ledger, FitsRow
<1>4. ASSUME NEW s \in DOMAIN ss
      PROVE  new[ss[s].item] = ss[s].expected + Since(Append(mv, row), ss[s].item, ss[s].startedAt)
  <2>1. ss[s] \in SessionRow
    OBVIOUS
  <2> DEFINE i == ss[s].item
             t == ss[s].startedAt
  <2>2. i \in Item /\ t \in Int /\ ss[s].expected \in Int
    BY <2>1 DEF SessionRow
  <2>3. oh[i] = ss[s].expected + Since(mv, i, t) /\ t < row.at
    BY DEF Ledger, SessIn, FitsRow
  <2>4. row.balance = oh[row.item] + row.qty
    BY DEF FitsRow
  <2> HIDE DEF i, t, new
  <2>5. /\ Since(mv, i, t) \in Int
        /\ row.item = i /\ t < row.at => Since(Append(mv, row), i, t) = Since(mv, i, t) + row.qty
        /\ ~(row.item = i /\ t < row.at) => Since(Append(mv, row), i, t) = Since(mv, i, t)
    BY <1>1, <2>2, SinceAppend
  <2>6. new[i] = IF row.item = i THEN row.balance ELSE oh[i]
    BY <1>1, <2>2 DEF new
  <2>7. new[i] = ss[s].expected + Since(Append(mv, row), i, t)
    BY <1>1, <2>2, <2>3, <2>4, <2>5, <2>6
  <2> QED
    BY <2>7 DEF i, t
<1> QED
  BY <1>2, <1>3, <1>4 DEF Ledger, SessIn

\* The state's own ledger.
OnHandNow == [i \in Item |-> items[i].onHand]

\* The ledger of the lemmas above is the one of the tables.
LEMMA LedgerNow ==
  ASSUME Typed
  PROVE  /\ (MovesInv /\ MovedOncePerKey /\ \A s \in DOMAIN sessions :
               items[sessions[s].item].onHand =
                 sessions[s].expected + MovedSince(sessions[s].item, sessions[s].startedAt))
            <=> Ledger(moves, OnHandNow, sessions) /\ \A m \in DOMAIN moves : moves[m].at <= clock
<1>1. /\ \A S : Added(S) = QtySum(moves, S)
      /\ \A i : MovesOf(i) = Of(moves, i)
      /\ \A i, t : MovedSince(i, t) = Since(moves, i, t)
  BY DEF Added, QtySum, QtyOf, MovesOf, Of, MovedSince, Since
<1>2. MovedOncePerKey <=> OnceIn(moves)
  BY <1>1 DEF MovedOncePerKey, OnceIn, OpeningMoves, ImportedOpening
<1>3. OnHandNow \in [Item -> Int] /\ moves \in Seq(MoveRow) /\ \A i \in Item : OnHandNow[i] = items[i].onHand
  BY DEF OnHandNow, Typed, ItemsTyped
<1>4. LedgerRebuilds <=> Book(moves, OnHandNow)
  BY <1>1, <1>3 DEF LedgerRebuilds, Book
<1>5. \A s \in DOMAIN sessions : sessions[s].item \in Item
  <2>1. \A s \in DOMAIN sessions : sessions[s] \in SessionRow
    BY DEF Typed
  <2> QED
    BY <2>1 DEF SessionRow
<1>6. (\A s \in DOMAIN sessions :
         items[sessions[s].item].onHand =
           sessions[s].expected + MovedSince(sessions[s].item, sessions[s].startedAt))
      <=> SessIn(moves, OnHandNow, sessions)
  BY <1>1, <1>3, <1>5 DEF SessIn
<1> QED
  BY <1>2, <1>4, <1>6 DEF MovesInv, Ledger

-----------------------------------------------------------------------------
(* mutateStock *)

\* A tuple of elements is a sequence.
LEMMA OfLength ==
  ASSUME NEW T, NEW n \in Nat, NEW s \in [1 .. n -> T]
  PROVE  s \in Seq(T) /\ Len(s) = n
OBVIOUS

\* A sequence of one or two rows behind another.
LEMMA BehindOne ==
  ASSUME NEW T, NEW s \in Seq(T), NEW t \in Seq(T), Len(t) = 1
  PROVE  s \o t = Append(s, t[1]) /\ t[1] \in T
<1>1. t = <<t[1]>> /\ t[1] \in T
  OBVIOUS
<1> QED
  BY <1>1, AppendIsConcat

\* Two rows behind a sequence are two appended to it.
LEMMA BehindTwo ==
  ASSUME NEW T, NEW s \in Seq(T), NEW t \in Seq(T), Len(t) = 2
  PROVE  s \o t = Append(Append(s, t[1]), t[2]) /\ t[1] \in T /\ t[2] \in T
<1>1. t[1] \in T /\ t[2] \in T
  OBVIOUS
<1>2. t = <<t[1]>> \o <<t[2]>> /\ <<t[1]>> \in Seq(T) /\ <<t[2]>> \in Seq(T)
  BY <1>1
<1>3. s \o t = (s \o <<t[1]>>) \o <<t[2]>>
  <2>1. (s \o <<t[1]>>) \o <<t[2]>> = s \o (<<t[1]>> \o <<t[2]>>)
    BY <1>2, ConcatAssociative
  <2> QED
    BY <1>2, <2>1, Zenon
<1>4. s \o <<t[1]>> = Append(s, t[1]) /\ Append(s, t[1]) \in Seq(T)
  BY <1>1, AppendIsConcat, AppendProperties
<1> QED
  BY <1>1, <1>3, <1>4, AppendIsConcat

BootRow(to, at) == Row(SaleItem, to[SaleItem].onHand, "bootstrap", 0, at, to[SaleItem].onHand)

\* A row opens with legacy stock, or every quantity stays.
LEMMA BootShape ==
  ASSUME DeadZero(items), NEW to, Opened(items, to), NEW at
  PROVE  \/ BootstrapRows(to, at) = <<>> /\ \A k \in Item : to[k].onHand = items[k].onHand
         \/ /\ BootstrapRows(to, at) = <<BootRow(to, at)>>
            /\ ~items[SaleItem].live /\ items[SaleItem].onHand = 0
<1>1. SaleItem \in Item
  BY StockAssumption
<1>2. CASE ~items[SaleItem].live /\ to[SaleItem].live /\ to[SaleItem].onHand > 0
  <2>1. BootstrapRows(to, at) = <<BootRow(to, at)>>
    BY <1>2 DEF BootstrapRows, BootRow
  <2> QED
    BY <1>1, <1>2, <2>1 DEF DeadZero
<1>3. CASE ~(~items[SaleItem].live /\ to[SaleItem].live /\ to[SaleItem].onHand > 0)
  <2>1. BootstrapRows(to, at) = <<>>
    BY <1>3 DEF BootstrapRows
  <2>2. to[SaleItem].onHand = items[SaleItem].onHand
    BY <1>3 DEF Opened
  <2> QED
    BY <2>1, <2>2 DEF Opened
<1> QED
  BY <1>2, <1>3

HandOf(its) == [i \in Item |-> its[i].onHand]

\* mv is the stock ledger with, at most, the opening of the sale location's row.
Booted(mv, at) ==
  /\ mv \in Seq(MoveRow) /\ DOMAIN moves \subseteq DOMAIN mv
  /\ \A m \in DOMAIN moves : mv[m] = moves[m]
  /\ \A m \in DOMAIN mv : \/ m \in DOMAIN moves /\ mv[m] = moves[m]
                          \/ mv[m].kind = "bootstrap" /\ mv[m].key = 0
  /\ \A m \in DOMAIN mv : mv[m].at <= at
  /\ items[SaleItem].live => mv = moves

\* ensureItem keeps the ledger.
LEMMA BootLedger ==
  ASSUME Typed, DeadZero(items), Ledger(moves, OnHandNow, sessions),
         NEW to, Opened(items, to), NEW at \in Nat,
         \A m \in DOMAIN moves : moves[m].at <= at,
         \A s \in DOMAIN sessions : sessions[s].startedAt < at
  PROVE  /\ Ledger(moves \o BootstrapRows(to, at), HandOf(to), sessions)
         /\ Booted(moves \o BootstrapRows(to, at), at)
<1>1. /\ moves \in Seq(MoveRow) /\ sessions \in Seq(SessionRow) /\ SaleItem \in Item
      /\ to \in [Item -> ItemRow] /\ OnHandNow \in [Item -> Int] /\ HandOf(to) \in [Item -> Int]
  <2>1. to \in [Item -> ItemRow] /\ SaleItem \in Item
    BY StockAssumption DEF Opened
  <2>2. HandOf(to) \in [Item -> Int]
    BY <2>1 DEF HandOf, ItemRow
  <2>3. OnHandNow \in [Item -> Int]
    BY DEF OnHandNow, Typed, ItemsTyped
  <2> QED
    BY <2>1, <2>2, <2>3 DEF Typed
<1>2. CASE BootstrapRows(to, at) = <<>> /\ \A k \in Item : to[k].onHand = items[k].onHand
  <2>1. moves \o BootstrapRows(to, at) = moves
    BY <1>1, <1>2
  <2>2. HandOf(to) = OnHandNow
    BY <1>2 DEF HandOf, OnHandNow
  <2> QED
    BY <1>1, <2>1, <2>2 DEF Booted
<1>3. CASE /\ BootstrapRows(to, at) = <<BootRow(to, at)>>
           /\ ~items[SaleItem].live /\ items[SaleItem].onHand = 0
  <2> DEFINE row == BootRow(to, at)
  <2>1. /\ row.item = SaleItem /\ row.qty = to[SaleItem].onHand /\ row.kind = "bootstrap"
        /\ row.key = 0 /\ row.at = at /\ row.balance = to[SaleItem].onHand
    BY DEF BootRow, Row
  <2>2. row \in MoveRow
    BY <1>1 DEF BootRow, Row, MoveRow, ItemRow
  <2> HIDE DEF row
  <2>3. moves \o BootstrapRows(to, at) = Append(moves, row)
    BY <1>1, <1>3, <2>2, AppendIsConcat DEF row
  <2>4. OnHandNow[SaleItem] = 0 /\ to[SaleItem].onHand \in Int
    BY <1>1, <1>3 DEF OnHandNow, ItemRow
  <2>5. FitsRow(moves, OnHandNow, sessions, row)
    BY <2>1, <2>2, <2>4 DEF FitsRow, FreshRow
  <2>6. Ledger(Append(moves, row), [OnHandNow EXCEPT ![row.item] = row.balance], sessions)
    BY <1>1, <2>5, LedgerAppend
  <2>7. [OnHandNow EXCEPT ![row.item] = row.balance] = HandOf(to)
    <3>1. \A k \in Item : k # SaleItem => to[k].onHand = items[k].onHand
      BY DEF Opened
    <3> QED
      BY <1>1, <2>1, <3>1 DEF OnHandNow, HandOf
  <2>8. /\ Append(moves, row) \in Seq(MoveRow) /\ Len(moves) \in Nat
        /\ DOMAIN moves = 1 .. Len(moves) /\ DOMAIN Append(moves, row) = 1 .. (Len(moves) + 1)
        /\ \A m \in DOMAIN moves : Append(moves, row)[m] = moves[m]
        /\ Append(moves, row)[Len(moves) + 1] = row
    BY <1>1, <2>2, Appended
  <2>9. \A m \in DOMAIN Append(moves, row) : m \in DOMAIN moves \/ m = Len(moves) + 1
    BY <2>8
  <2>10. Booted(Append(moves, row), at)
    <3>1. DOMAIN moves \subseteq DOMAIN Append(moves, row)
      BY <2>8
    <3>2. \A m \in DOMAIN Append(moves, row) : Append(moves, row)[m].at <= at
      BY <2>1, <2>8, <2>9
    <3>3. \A m \in DOMAIN Append(moves, row) :
            \/ m \in DOMAIN moves /\ Append(moves, row)[m] = moves[m]
            \/ Append(moves, row)[m].kind = "bootstrap" /\ Append(moves, row)[m].key = 0
      BY <2>1, <2>8, <2>9
    <3> QED
      BY <1>3, <2>8, <3>1, <3>2, <3>3 DEF Booted
  <2> QED
    BY <2>3, <2>6, <2>7, <2>10
<1> QED
  BY <1>2, <1>3, BootShape

\* What the movements add to a row, and all together.
LEMMA StepSums ==
  ASSUME NEW i \in Item, NEW q \in Int, NEW steps, steps = <<[item |-> i, qty |-> q]>>
  PROVE  /\ DOMAIN steps = {1} /\ Len(steps) = 1
         /\ \A k \in Item : Net(steps, k) = IF k = i THEN q ELSE 0
         /\ SumFunction([n \in DOMAIN steps |-> steps[n].qty]) = q
<1> DEFINE f == [n \in DOMAIN steps |-> steps[n].qty]
<1>1. DOMAIN steps = {1} /\ Len(steps) = 1 /\ steps[1].item = i /\ steps[1].qty = q
  OBVIOUS
<1>2. DOMAIN f = {1} /\ f[1] = q
  BY <1>1
<1>3. \A k \in Item : {n \in DOMAIN steps : steps[n].item = k} = IF k = i THEN {1} ELSE {}
  BY <1>1
<1> HIDE DEF f
<1>4. SumFunctionOnSet(f, {1}) = q /\ SumFunctionOnSet(f, {}) = 0
  BY <1>2, SumOne, SumEmpty
<1>5. \A k \in Item : Net(steps, k) = IF k = i THEN q ELSE 0
  <2> SUFFICES ASSUME NEW k \in Item PROVE Net(steps, k) = IF k = i THEN q ELSE 0
    OBVIOUS
  <2>1. Net(steps, k) = SumFunctionOnSet(f, IF k = i THEN {1} ELSE {})
    BY <1>3 DEF Net, f
  <2> QED
    BY <1>4, <2>1
<1>6. SumFunction(f) = q
  BY <1>2, <1>4 DEF SumFunction
<1> QED
  BY <1>1, <1>5, <1>6 DEF f

\* The same for the two movements of a transfer.
LEMMA StepSumsTwo ==
  ASSUME NEW i \in Item, NEW j \in Item, i # j, NEW p \in Int, NEW q \in Int,
         NEW steps, steps = <<[item |-> i, qty |-> p], [item |-> j, qty |-> q]>>
  PROVE  /\ DOMAIN steps = {1, 2} /\ Len(steps) = 2
         /\ \A k \in Item : Net(steps, k) = IF k = i THEN p ELSE IF k = j THEN q ELSE 0
         /\ SumFunction([n \in DOMAIN steps |-> steps[n].qty]) = p + q
<1> DEFINE f == [n \in DOMAIN steps |-> steps[n].qty]
<1>1. /\ DOMAIN steps = {1, 2} /\ Len(steps) = 2
      /\ steps[1].item = i /\ steps[1].qty = p /\ steps[2].item = j /\ steps[2].qty = q
  OBVIOUS
<1>2. DOMAIN f = {1, 2} /\ f[1] = p /\ f[2] = q
  BY <1>1
<1>3. \A k \in Item : {n \in DOMAIN steps : steps[n].item = k}
                        = IF k = i THEN {1} ELSE IF k = j THEN {2} ELSE {}
  BY <1>1
<1> HIDE DEF f
<1>4. /\ SumFunctionOnSet(f, {1}) = p /\ SumFunctionOnSet(f, {2}) = q /\ SumFunctionOnSet(f, {}) = 0
      /\ SumFunctionOnSet(f, {1, 2}) = p + q
  BY <1>2, SumOne, SumTwo, SumEmpty
<1>5. \A k \in Item : Net(steps, k) = IF k = i THEN p ELSE IF k = j THEN q ELSE 0
  <2> SUFFICES ASSUME NEW k \in Item
               PROVE  Net(steps, k) = IF k = i THEN p ELSE IF k = j THEN q ELSE 0
    OBVIOUS
  <2>1. Net(steps, k) = SumFunctionOnSet(f, IF k = i THEN {1} ELSE IF k = j THEN {2} ELSE {})
    BY <1>3 DEF Net, f
  <2> QED
    BY <1>4, <2>1
<1>6. SumFunction(f) = p + q
  BY <1>2, <1>4 DEF SumFunction
<1> QED
  BY <1>1, <1>5, <1>6 DEF f

\* The rows and the aggregate after the movements.
LEMMA MoveItems ==
  ASSUME ItemsTyped, product \in [stock : Int, version : Nat], DeadZero(items),
         \A k \in Item : items[k].reserved <= items[k].onHand,
         NEW steps, IsSteps(steps), NEW kind, NEW key, NEW at \in Nat,
         Enough(steps, at), Move(steps, kind, key, at)
  PROVE  /\ items' \in [Item -> ItemRow] /\ product' \in [stock : Int, version : Nat]
         /\ \A k \in Item : /\ items'[k].onHand = Placed(steps, at)[k].onHand + Net(steps, k)
                            /\ items'[k].reserved = items[k].reserved
                            /\ items'[k].reserved <= items'[k].onHand
                            /\ items[k].live => items'[k].live
                            /\ ~items'[k].live => items'[k].onHand = 0 /\ items'[k].reserved = 0
         /\ LiveItems(items') # {}
         /\ Right(items) /\ (LiveItems(items) = {} => product.stock >= 0) =>
              product'.stock = OnHandSum(items')
         /\ product'.version > product.version
<1> DEFINE placed == Placed(steps, at)
           total == SumFunction([n \in DOMAIN steps |-> steps[n].qty])
           to == [i \in Item |-> [placed[i] EXCEPT !.onHand = placed[i].onHand + Net(steps, i)]]
<1>1. Opened(items, placed) /\ \A n \in DOMAIN steps : placed[steps[n].item].live
  BY PlacedOpens
<1>2. placed \in [Item -> ItemRow] /\ DeadZero(placed) /\ SaleItem \in Item
  BY <1>1, StockAssumption DEF Opened
<1>3. /\ \A k \in Item : Net(steps, k) \in Int /\ (Net(steps, k) # 0 => placed[k].live)
      /\ total \in Int /\ Len(steps) \in Nat /\ Len(steps) > 0
      /\ \E k \in Item : placed[k].live
      /\ \A to2 \in [Item -> ItemRow] :
           (\A k \in Item : to2[k].onHand = placed[k].onHand + Net(steps, k)) =>
             Total(to2) = Total(placed) + total
  <2>1. CASE \E i \in Item : \E q \in Int : steps = <<[item |-> i, qty |-> q]>>
    <3>1. PICK i \in Item, q \in Int : steps = <<[item |-> i, qty |-> q]>>
      BY <2>1
    <3>2. /\ DOMAIN steps = {1} /\ Len(steps) = 1 /\ steps[1].item = i
          /\ \A k \in Item : Net(steps, k) = IF k = i THEN q ELSE 0
          /\ total = q
      BY <3>1, StepSums
    <3>3. placed[i].live
      BY <1>1, <3>2
    <3> HIDE DEF total, placed
    <3>4. ASSUME NEW to2 \in [Item -> ItemRow],
                 \A k \in Item : to2[k].onHand = placed[k].onHand + Net(steps, k)
          PROVE  Total(to2) = Total(placed) + total
      <4>1. \A k \in Item : placed[k].onHand \in Int /\ to2[k].onHand \in Int
        BY <1>2 DEF ItemRow
      <4>2. \A k \in Item : k # i => to2[k].onHand = placed[k].onHand
        BY <3>2, <3>4, <4>1
      <4>3. Total(to2) = Total(placed) + (to2[i].onHand - placed[i].onHand)
        BY <1>2, <4>2, TotalChange
      <4>4. to2[i].onHand - placed[i].onHand = q
        BY <3>2, <3>4, <4>1
      <4> QED
        BY <3>2, <4>3, <4>4
    <3> QED
      BY <3>2, <3>3, <3>4
  <2>2. CASE \E i, j \in Item : \E p, q \in Int :
               i # j /\ steps = <<[item |-> i, qty |-> p], [item |-> j, qty |-> q]>>
    <3>1. PICK i \in Item, j \in Item, p \in Int, q \in Int :
            i # j /\ steps = <<[item |-> i, qty |-> p], [item |-> j, qty |-> q]>>
      BY <2>2
    <3>2. /\ DOMAIN steps = {1, 2} /\ Len(steps) = 2 /\ steps[1].item = i /\ steps[2].item = j
          /\ \A k \in Item : Net(steps, k) = IF k = i THEN p ELSE IF k = j THEN q ELSE 0
          /\ total = p + q
      BY <3>1, StepSumsTwo
    <3>3. placed[i].live /\ placed[j].live
      BY <1>1, <3>2
    <3> HIDE DEF total, placed
    <3>4. ASSUME NEW to2 \in [Item -> ItemRow],
                 \A k \in Item : to2[k].onHand = placed[k].onHand + Net(steps, k)
          PROVE  Total(to2) = Total(placed) + total
      <4> DEFINE mid == [placed EXCEPT ![i].onHand = to2[i].onHand]
      <4>1. \A k \in Item : placed[k].onHand \in Int /\ to2[k].onHand \in Int
        BY <1>2 DEF ItemRow
      <4>2. /\ mid \in [Item -> ItemRow] /\ mid[i].onHand = to2[i].onHand
            /\ \A k \in Item : k # i => mid[k] = placed[k]
        BY <1>2, <4>1 DEF ItemRow
      <4> HIDE DEF mid
      <4>3. Total(mid) = Total(placed) + (to2[i].onHand - placed[i].onHand)
        BY <1>2, <4>2, TotalChange
      <4>4. \A k \in Item : k # j => to2[k].onHand = mid[k].onHand
        BY <3>2, <3>4, <4>1, <4>2
      <4>5. Total(to2) = Total(mid) + (to2[j].onHand - mid[j].onHand)
        BY <4>2, <4>4, TotalChange
      <4>6. to2[i].onHand - placed[i].onHand = p /\ to2[j].onHand - mid[j].onHand = q
        BY <3>1, <3>2, <3>4, <4>1, <4>2
      <4>7. Total(placed) \in Int
        BY <1>2, TotalIsSum
      <4> QED
        BY <3>2, <4>3, <4>5, <4>6, <4>7
    <3> QED
      BY <3>2, <3>3, <3>4
  <2> QED
    BY <2>1, <2>2 DEF IsSteps
<1>4. /\ items' = to
      /\ product' = [stock |-> product.stock + total, version |-> product.version + Len(steps)]
  BY DEF Move
<1> HIDE DEF placed, total
<1>5. \A k \in Item : /\ placed[k].onHand \in Int /\ placed[k].reserved \in Nat
                      /\ placed[k].live \in BOOLEAN /\ placed[k].born \in Nat
                      /\ Net(steps, k) \in Int
  BY <1>2, <1>3 DEF ItemRow
<1>6. \A k \in Item : /\ to[k].onHand = placed[k].onHand + Net(steps, k)
                      /\ to[k].reserved = placed[k].reserved /\ to[k].live = placed[k].live
  BY <1>2 DEF ItemRow
<1>7. to \in [Item -> ItemRow]
  BY <1>2, <1>5 DEF ItemRow
<1> HIDE DEF to
<1>8. \A k \in Item : to[k].reserved = items[k].reserved /\ (items[k].live => to[k].live)
  BY <1>1, <1>6 DEF Opened
<1>9. ASSUME NEW k \in Item, ~to[k].live PROVE to[k].onHand = 0 /\ to[k].reserved = 0
  <2>1. ~placed[k].live
    BY <1>6, <1>9
  <2>2. placed[k].onHand = 0 /\ placed[k].reserved = 0 /\ Net(steps, k) = 0
    BY <1>2, <1>3, <2>1 DEF DeadZero
  <2> QED
    BY <1>6, <2>2
<1>10. ASSUME NEW k \in Item PROVE to[k].reserved <= to[k].onHand
  <2>1. items[k].reserved \in Nat /\ items[k].onHand \in Int /\ items[k].reserved <= items[k].onHand
    BY DEF ItemsTyped
  <2>2. items[k].onHand <= placed[k].onHand
    <3>1. k # SaleItem => placed[k].onHand = items[k].onHand
      BY <1>1 DEF Opened
    <3>2. placed[SaleItem].onHand # items[SaleItem].onHand =>
            ~items[SaleItem].live /\ placed[SaleItem].onHand > 0
      BY <1>1 DEF Opened
    <3>3. ~items[SaleItem].live => items[SaleItem].onHand = 0
      BY <1>2 DEF DeadZero
    <3> QED
      BY <1>5, <2>1, <3>1, <3>2, <3>3
  <2>3. Net(steps, k) < 0 => placed[k].onHand - placed[k].reserved >= -Net(steps, k)
    BY DEF Enough, Available, placed
  <2> QED
    BY <1>5, <1>6, <1>8, <2>1, <2>2, <2>3
<1>11. LiveItems(to) # {}
  BY <1>3, <1>6 DEF LiveItems
<1>12. OnHandSum(to) = Total(placed) + total
  <2>1. DeadZero(to)
    BY <1>9 DEF DeadZero
  <2>2. OnHandSum(to) = Total(to)
    BY <1>7, <2>1, TotalIsSum
  <2> QED
    BY <1>3, <1>6, <1>7, <2>2
<1>13. ASSUME Right(items), LiveItems(items) = {} => product.stock >= 0
       PROVE  product.stock + total = OnHandSum(to)
  <2>1. Right(placed) /\ (LiveItems(placed) = {} => product.stock >= 0)
    BY <1>1, <1>13 DEF Opened
  <2>2. LiveItems(placed) # {}
    BY <1>3 DEF LiveItems
  <2>3. product.stock = Total(placed)
    BY <1>2, <2>1, <2>2, TotalIsSum DEF Right
  <2> QED
    BY <1>12, <2>3
<1>14. product' \in [stock : Int, version : Nat] /\ product'.version > product.version
  BY <1>3, <1>4
<1>15. product'.stock = product.stock + total
  BY <1>4
<1> QED
  BY <1>4, <1>6, <1>7, <1>8, <1>9, <1>10, <1>11, <1>13, <1>14, <1>15 DEF placed

\* Nothing in the ledger stands against the movements.
FreshMove(steps, kind, key) ==
  /\ key # 0 /\ kind # "count" =>
       /\ \A m \in DOMAIN moves : moves[m].key = key => moves[m].kind # kind
       /\ Len(steps) = 2 => kind = "transfer"
  /\ kind \in {"opening", "import"} =>
       /\ Len(steps) = 1 /\ items[steps[1].item].live
       /\ \A m \in Of(moves, steps[1].item) : moves[m].kind \notin {"opening", "import"}
  /\ kind = "import" => steps[1].item = SaleItem /\ Of(moves, SaleItem) = {}

(***************************************************************************)
(* The ledger with its new rows: those of the movements and, at most, the  *)
(* opening of the sale location's row; one movement writes one row.        *)
(***************************************************************************)
Written(steps, kind, key) ==
  /\ Ledger(moves', HandOf(items'), sessions)
  /\ \A m \in DOMAIN moves : m \in DOMAIN moves' /\ moves'[m] = moves[m]
  /\ \A m \in DOMAIN moves' : moves'[m].at <= clock
  /\ \A m \in DOMAIN moves' : m \in DOMAIN moves \/ moves'[m].kind \in {"bootstrap", kind}
  /\ Len(steps) = 1 =>
       \E d : \A m \in DOMAIN moves' : \/ m \in DOMAIN moves \/ moves'[m].kind = "bootstrap"
                                      \/ (m = d /\ moves'[m].key = key)

\* The stock ledger after the movements.
LEMMA MoveRows ==
  ASSUME Typed, DeadZero(items), Ledger(moves, OnHandNow, sessions),
         NEW steps, IsSteps(steps), NEW kind \in Kind, NEW key \in Nat, NEW at \in Nat, Stamped(at),
         FreshMove(steps, kind, key), Move(steps, kind, key, at),
         items' \in [Item -> ItemRow],
         \A k \in Item : items'[k].onHand = Placed(steps, at)[k].onHand + Net(steps, k)
  PROVE  Written(steps, kind, key)
<1> DEFINE placed == Placed(steps, at)
           mv == moves \o BootstrapRows(placed, at)
           oh == HandOf(placed)
           Of1(n) == Row(steps[n].item, steps[n].qty, kind, key, at,
                         placed[steps[n].item].onHand + Net(steps, steps[n].item))
           rows == [n \in DOMAIN steps |-> Of1(n)]
<1>0. ItemsTyped /\ product \in [stock : Int, version : Nat] /\ sessions \in Seq(SessionRow) /\ clock \in Nat
  BY DEF Typed
<1>1. Opened(items, placed)
  BY <1>0, PlacedOpens
<1>2. placed \in [Item -> ItemRow]
  BY <1>1 DEF Opened
<1>3. moves' = mv \o rows
  BY DEF Move
<1>4. \A m \in DOMAIN moves : moves[m].at <= at
  <2>1. \A m \in DOMAIN moves : moves[m] \in MoveRow /\ moves[m].at < at
    BY DEF Typed, Stamped
  <2> QED
    BY <2>1 DEF MoveRow
<1>5. Ledger(mv, oh, sessions) /\ Booted(mv, at)
  BY <1>1, <1>4, BootLedger DEF Stamped
<1>6. \A n \in DOMAIN steps : /\ Of1(n).item = steps[n].item /\ Of1(n).qty = steps[n].qty
                              /\ Of1(n).kind = kind /\ Of1(n).key = key /\ Of1(n).at = at
                              /\ Of1(n).balance = placed[steps[n].item].onHand + Net(steps, steps[n].item)
  BY DEF Row
<1>7. \A k \in Item : oh[k] = placed[k].onHand /\ oh[k] \in Int /\ HandOf(items')[k] = items'[k].onHand
  BY <1>2 DEF HandOf, ItemRow
<1>8. oh \in [Item -> Int] /\ HandOf(items') \in [Item -> Int]
  BY <1>2 DEF HandOf, ItemRow
<1>9. at <= clock /\ \A s \in DOMAIN sessions : sessions[s].startedAt < at
  BY DEF Stamped
<1>10. CASE \E i \in Item : \E q \in Int : steps = <<[item |-> i, qty |-> q]>>
  <2>1. PICK i \in Item, q \in Int : steps = <<[item |-> i, qty |-> q]>>
    BY <1>10
  <2>2. /\ DOMAIN steps = {1} /\ Len(steps) = 1 /\ steps[1].item = i /\ steps[1].qty = q
        /\ \A k \in Item : Net(steps, k) = IF k = i THEN q ELSE 0
    <3>1. /\ DOMAIN steps = {1} /\ Len(steps) = 1
          /\ \A k \in Item : Net(steps, k) = IF k = i THEN q ELSE 0
          /\ SumFunction([n \in DOMAIN steps |-> steps[n].qty]) = q
      BY <2>1, StepSums
    <3>2. steps[1].item = i /\ steps[1].qty = q
      BY <2>1
    <3> QED
      BY <3>1, <3>2
  <2> DEFINE row == Of1(1)
  <2>3. /\ row.item = i /\ row.qty = q /\ row.kind = kind /\ row.key = key /\ row.at = at
        /\ row.balance = oh[i] + q
    BY <1>6, <1>7, <2>2
  <2>4. row \in MoveRow
    <3>1. row = Row(i, q, kind, key, at, placed[i].onHand + Net(steps, i))
      BY <2>2
    <3>2. placed[i].onHand + Net(steps, i) \in Int
      BY <1>7, <2>2
    <3> QED
      BY <3>1, <3>2 DEF Row, MoveRow
  <2>5. rows \in Seq(MoveRow) /\ Len(rows) = 1 /\ rows[1] = row
    <3>1. DOMAIN steps = 1 .. 1
      BY <2>2
    <3>2. rows = [n \in 1 .. 1 |-> Of1(n)] /\ \A n \in 1 .. 1 : Of1(n) \in MoveRow
      BY <2>4, <3>1
    <3> HIDE DEF rows
    <3>3. rows \in [1 .. 1 -> MoveRow] /\ rows[1] = row
      BY <3>2
    <3> QED
      BY <3>3, OfLength
  <2> HIDE DEF row, rows, mv, oh, placed
  <2>6. mv \in Seq(MoveRow)
    BY <1>5 DEF Booted
  <2>7. moves' = Append(mv, row)
    BY <1>3, <2>5, <2>6, BehindOne
  <2>8. FreshRow(mv, row)
    <3>1. \A m \in DOMAIN mv : \/ m \in DOMAIN moves /\ mv[m] = moves[m]
                               \/ mv[m].kind = "bootstrap" /\ mv[m].key = 0
      BY <1>5 DEF Booted
    <3>2. row.key # 0 /\ row.kind # "count" => \A m \in DOMAIN mv : ~(mv[m].key = row.key /\ mv[m].kind = row.kind)
      BY <2>3, <3>1 DEF FreshMove
    <3>3. row.kind \in {"opening", "import"} =>
            \A m \in Of(mv, row.item) : mv[m].kind \notin {"opening", "import"}
      BY <2>2, <2>3, <3>1 DEF FreshMove, Of
    <3>4. row.kind = "import" => Of(mv, row.item) = {}
      <4>1. kind = "import" => i = SaleItem /\ items[SaleItem].live /\ Of(moves, SaleItem) = {}
        BY <2>2 DEF FreshMove
      <4>2. items[SaleItem].live => mv = moves
        BY <1>5 DEF Booted
      <4> QED
        BY <2>3, <4>1, <4>2
    <3> QED
      BY <3>2, <3>3, <3>4 DEF FreshRow
  <2>9. FitsRow(mv, oh, sessions, row)
    BY <1>5, <1>9, <2>3, <2>4, <2>8 DEF FitsRow, Booted
  <2>10. Ledger(Append(mv, row), [oh EXCEPT ![row.item] = row.balance], sessions)
    BY <1>0, <1>5, <2>9, LedgerAppend
  <2>11. HandOf(items') = [oh EXCEPT ![row.item] = row.balance]
    <3>1. \A k \in Item : items'[k].onHand = oh[k] + (IF k = i THEN q ELSE 0)
      BY <1>7, <2>2 DEF placed
    <3>2. \A k \in Item : HandOf(items')[k] = [oh EXCEPT ![row.item] = row.balance][k]
      BY <1>7, <1>8, <2>3, <3>1
    <3> QED
      BY <1>8, <2>3, <3>2
  <2>12. /\ DOMAIN Append(mv, row) = 1 .. (Len(mv) + 1) /\ DOMAIN mv = 1 .. Len(mv) /\ Len(mv) \in Nat
         /\ \A m \in DOMAIN mv : Append(mv, row)[m] = mv[m]
         /\ Append(mv, row)[Len(mv) + 1] = row
    BY <2>4, <2>6, Appended
  <2>13. /\ DOMAIN moves \subseteq DOMAIN moves'
         /\ \A m \in DOMAIN moves : moves'[m] = moves[m]
         /\ \A m \in DOMAIN moves' : (m \in DOMAIN mv /\ moves'[m] = mv[m]) \/ moves'[m] = row
    BY <1>5, <2>7, <2>12 DEF Booted
  <2>14. \A m \in DOMAIN mv : mv[m].at <= clock
    <3>1. \A m \in DOMAIN mv : mv[m] \in MoveRow /\ mv[m].at <= at
      BY <1>5, <2>6 DEF Booted
    <3> QED
      BY <1>0, <1>9, <3>1 DEF MoveRow
  <2>15. \A m \in DOMAIN moves' : moves'[m].at <= clock
    BY <1>9, <2>3, <2>13, <2>14
  <2>16. \A m \in DOMAIN moves' : m \in DOMAIN moves \/ moves'[m].kind \in {"bootstrap", kind}
    BY <1>5, <2>3, <2>13 DEF Booted
  <2>17. \A m \in DOMAIN moves' : \/ m \in DOMAIN moves \/ moves'[m].kind = "bootstrap"
                                 \/ (m = Len(mv) + 1 /\ moves'[m].key = key)
    <3>1. \A m \in DOMAIN moves' : m \in DOMAIN mv \/ m = Len(mv) + 1
      BY <2>7, <2>12
    <3>2. \A m \in DOMAIN mv : moves'[m] = mv[m] /\ (m \in DOMAIN moves \/ mv[m].kind = "bootstrap")
      BY <1>5, <2>7, <2>12 DEF Booted
    <3>3. moves'[Len(mv) + 1].key = key
      BY <2>3, <2>7, <2>12
    <3> QED
      BY <3>1, <3>2, <3>3
  <2> DEFINE last == Len(mv) + 1
  <2>18. \A m \in DOMAIN moves' : \/ m \in DOMAIN moves \/ moves'[m].kind = "bootstrap"
                                 \/ (m = last /\ moves'[m].key = key)
    BY <2>17
  <2> HIDE DEF last
  <2>19. \E d : \A m \in DOMAIN moves' : \/ m \in DOMAIN moves \/ moves'[m].kind = "bootstrap"
                                        \/ (m = d /\ moves'[m].key = key)
    BY <2>18, Zenon
  <2> QED
    BY <2>7, <2>10, <2>11, <2>13, <2>15, <2>16, <2>19 DEF Written
<1>11. CASE \E i, j \in Item : \E p, q \in Int :
              i # j /\ steps = <<[item |-> i, qty |-> p], [item |-> j, qty |-> q]>>
  <2>1. PICK i \in Item, j \in Item, p \in Int, q \in Int :
          i # j /\ steps = <<[item |-> i, qty |-> p], [item |-> j, qty |-> q]>>
    BY <1>11
  <2>2. /\ DOMAIN steps = {1, 2} /\ Len(steps) = 2 /\ steps[1].item = i /\ steps[1].qty = p
        /\ steps[2].item = j /\ steps[2].qty = q
        /\ \A k \in Item : Net(steps, k) = IF k = i THEN p ELSE IF k = j THEN q ELSE 0
    <3>1. /\ DOMAIN steps = {1, 2} /\ Len(steps) = 2
          /\ \A k \in Item : Net(steps, k) = IF k = i THEN p ELSE IF k = j THEN q ELSE 0
          /\ SumFunction([n \in DOMAIN steps |-> steps[n].qty]) = p + q
      BY <2>1, StepSumsTwo
    <3>2. /\ steps[1].item = i /\ steps[1].qty = p /\ steps[2].item = j /\ steps[2].qty = q
      BY <2>1
    <3> QED
      BY <3>1, <3>2
  <2> DEFINE row == Of1(1)
             next == Of1(2)
  <2>3. /\ row.item = i /\ row.qty = p /\ row.kind = kind /\ row.key = key /\ row.at = at
        /\ row.balance = oh[i] + p
        /\ next.item = j /\ next.qty = q /\ next.kind = kind /\ next.key = key /\ next.at = at
        /\ next.balance = oh[j] + q
    BY <1>6, <1>7, <2>1, <2>2
  <2>4. row \in MoveRow /\ next \in MoveRow
    <3>1. /\ row = Row(i, p, kind, key, at, placed[i].onHand + Net(steps, i))
          /\ next = Row(j, q, kind, key, at, placed[j].onHand + Net(steps, j))
      BY <2>2
    <3>2. placed[i].onHand + Net(steps, i) \in Int /\ placed[j].onHand + Net(steps, j) \in Int
      BY <1>7, <2>1, <2>2
    <3> QED
      BY <3>1, <3>2 DEF Row, MoveRow
  <2>5. rows \in Seq(MoveRow) /\ Len(rows) = 2 /\ rows[1] = row /\ rows[2] = next
    <3>1. DOMAIN steps = 1 .. 2
      BY <2>2
    <3>2. rows = [n \in 1 .. 2 |-> Of1(n)] /\ \A n \in 1 .. 2 : Of1(n) \in MoveRow
      BY <2>4, <3>1
    <3> HIDE DEF rows
    <3>3. rows \in [1 .. 2 -> MoveRow] /\ rows[1] = row /\ rows[2] = next
      BY <3>2
    <3> QED
      BY <3>3, OfLength
  <2> HIDE DEF row, next, rows, mv, oh, placed
  <2>6. mv \in Seq(MoveRow)
    BY <1>5 DEF Booted
  <2> DEFINE mw == Append(mv, row)
             ow == [oh EXCEPT ![row.item] = row.balance]
  <2>7. moves' = Append(mw, next)
    BY <1>3, <2>5, <2>6, BehindTwo
  <2>8. kind \notin {"opening", "import"} /\ (key # 0 /\ kind # "count" => kind = "transfer")
    BY <2>2 DEF FreshMove
  <2>9. \A m \in DOMAIN mv : \/ m \in DOMAIN moves /\ mv[m] = moves[m]
                             \/ mv[m].kind = "bootstrap" /\ mv[m].key = 0
    BY <1>5 DEF Booted
  <2>10. key # 0 /\ kind # "count" => \A m \in DOMAIN mv : ~(mv[m].key = key /\ mv[m].kind = kind)
    BY <2>9 DEF FreshMove
  <2>11. FreshRow(mv, row)
    BY <2>3, <2>8, <2>10 DEF FreshRow
  <2>12. FitsRow(mv, oh, sessions, row)
    BY <1>5, <1>9, <2>3, <2>4, <2>11 DEF FitsRow, Booted
  <2>13. Ledger(mw, ow, sessions)
    BY <1>0, <1>5, <2>12, LedgerAppend
  <2>14. /\ DOMAIN mw = 1 .. (Len(mv) + 1) /\ DOMAIN mv = 1 .. Len(mv) /\ Len(mv) \in Nat
         /\ \A m \in DOMAIN mv : mw[m] = mv[m]
         /\ mw[Len(mv) + 1] = row /\ mw \in Seq(MoveRow)
    BY <2>4, <2>6, Appended
  <2> HIDE DEF mw
  <2>15. \A m \in DOMAIN mw : (m \in DOMAIN mv /\ mw[m] = mv[m]) \/ mw[m] = row
    BY <2>14
  <2>16. FreshRow(mw, next)
    <3>1. key # 0 /\ kind # "count" =>
            \A m \in DOMAIN mw : mw[m].key = key /\ mw[m].kind = kind => mw[m].item = i
      BY <2>3, <2>10, <2>15
    <3> QED
      BY <2>1, <2>3, <2>8, <3>1 DEF FreshRow
  <2>17. ow[j] = oh[j]
    BY <1>8, <2>1, <2>3
  <2>18. FitsRow(mw, ow, sessions, next)
    <3>1. \A m \in DOMAIN mw : mw[m].at <= at
      BY <1>5, <2>3, <2>15 DEF Booted
    <3> QED
      BY <1>9, <2>3, <2>4, <2>16, <2>17, <3>1 DEF FitsRow
  <2>19. Ledger(Append(mw, next), [ow EXCEPT ![next.item] = next.balance], sessions)
    BY <1>0, <2>13, <2>18, LedgerAppend
  <2>20. HandOf(items') = [ow EXCEPT ![next.item] = next.balance]
    <3>1. \A k \in Item : items'[k].onHand = oh[k] + (IF k = i THEN p ELSE IF k = j THEN q ELSE 0)
      BY <1>7, <2>2 DEF placed
    <3>2. \A k \in Item : HandOf(items')[k] = [ow EXCEPT ![next.item] = next.balance][k]
      BY <1>7, <1>8, <2>1, <2>3, <3>1
    <3> QED
      BY <1>8, <2>1, <2>3, <3>2
  <2>21. /\ DOMAIN moves' = 1 .. (Len(mw) + 1) /\ DOMAIN mw = 1 .. Len(mw) /\ Len(mw) \in Nat
         /\ \A m \in DOMAIN mw : moves'[m] = mw[m]
         /\ moves'[Len(mw) + 1] = next
    BY <2>4, <2>7, <2>14, Appended
  <2>22. \A m \in DOMAIN moves' : (m \in DOMAIN mv /\ moves'[m] = mv[m]) \/ moves'[m] \in {row, next}
    BY <2>15, <2>21
  <2>23. DOMAIN moves \subseteq DOMAIN moves' /\ \A m \in DOMAIN moves : moves'[m] = moves[m]
    <3>1. DOMAIN moves \subseteq DOMAIN mv /\ \A m \in DOMAIN moves : mv[m] = moves[m]
      BY <1>5 DEF Booted
    <3>2. DOMAIN mv \subseteq DOMAIN mw /\ DOMAIN mw \subseteq DOMAIN moves'
      BY <2>14, <2>21
    <3> QED
      BY <2>14, <2>21, <3>1, <3>2
  <2>24. \A m \in DOMAIN mv : mv[m].at <= clock
    <3>1. \A m \in DOMAIN mv : mv[m] \in MoveRow /\ mv[m].at <= at
      BY <1>5, <2>6 DEF Booted
    <3> QED
      BY <1>0, <1>9, <3>1 DEF MoveRow
  <2>25. \A m \in DOMAIN moves' : moves'[m].at <= clock
    BY <1>9, <2>3, <2>22, <2>24
  <2>26. \A m \in DOMAIN moves' : m \in DOMAIN moves \/ moves'[m].kind \in {"bootstrap", kind}
    BY <1>5, <2>3, <2>22 DEF Booted
  <2> QED
    BY <2>2, <2>7, <2>19, <2>20, <2>23, <2>25, <2>26 DEF Written
<1> QED
  BY <1>10, <1>11 DEF IsSteps


-----------------------------------------------------------------------------
(* Where a client goes next *)

\* The steps of the handlers that follow each other.
Leads(kind, pc, then) ==
  \/ /\ kind \in {"sale", "receipt", "adjust", "opening", "transfer", "import",
                  "reserve", "release", "sweep", "approve"}
     /\ pc = "write" /\ then = "commit"
  \/ /\ kind \in {"sale", "adjust", "opening", "transfer", "import"}
     /\ pc = "commit" /\ then = "sync"
  \/ kind = "sale" /\ pc = "look" /\ then = "cache"
  \/ kind = "sale" /\ pc = "cache" /\ then = "write"
  \/ kind = "import" /\ pc = "ensure" /\ then = "write"
  \/ kind = "reserve" /\ pc = "check" /\ then = "header"
  \/ kind = "reserve" /\ pc = "header" /\ then = "insert"
  \/ kind = "reserve" /\ pc = "insert" /\ then = "write"
  \/ kind = "release" /\ pc = "load" /\ then = "write"
  \/ kind = "sweep" /\ pc = "find" /\ then = "write"
  \/ kind = "count" /\ pc = "load" /\ then = "look"
  \/ kind = "count" /\ pc = "look" /\ then = "save"
  \/ kind = "approve" /\ pc = "read" /\ then = "write"
  \/ kind = "recon" /\ pc = "product" /\ then = "sums"
  \/ kind = "recon" /\ pc = "sums" /\ then = "repair"
  \/ kind = "recon" /\ pc = "repair" /\ then = "redis"
  \/ kind = "recon" /\ pc = "redis" /\ then = "set"

\* Every step has its name once in its path.
LEMMA PathSteps ==
  ASSUME NEW kind, NEW pc, NEW then, Leads(kind, pc, then)
  PROVE  \E n \in Nat : /\ n \in DOMAIN Path(kind) /\ n + 1 \in DOMAIN Path(kind)
                        /\ Path(kind)[n] = pc /\ Path(kind)[n + 1] = then
                        /\ \A m \in DOMAIN Path(kind) : Path(kind)[m] = pc => m = n
<1>1. CASE kind = "sale"
  <2>1. Path(kind) = <<"look", "cache", "write", "commit", "sync">>
    BY <1>1 DEF Path
  <2>2. /\ DOMAIN Path(kind) = 1 .. 5
        /\ Path(kind)[1] = "look" /\ Path(kind)[2] = "cache" /\ Path(kind)[3] = "write"
        /\ Path(kind)[4] = "commit" /\ Path(kind)[5] = "sync"
    BY <2>1
  <2> QED
    BY <1>1, <2>2 DEF Leads
<1>2. CASE kind = "receipt"
  <2>1. Path(kind) = <<"write", "commit">>
    BY <1>2 DEF Path
  <2>2. /\ DOMAIN Path(kind) = 1 .. 2
        /\ Path(kind)[1] = "write" /\ Path(kind)[2] = "commit"
    BY <2>1
  <2> QED
    BY <1>2, <2>2 DEF Leads
<1>3. CASE kind \in {"adjust", "opening", "transfer"}
  <2>1. Path(kind) = <<"write", "commit", "sync">>
    BY <1>3 DEF Path
  <2>2. /\ DOMAIN Path(kind) = 1 .. 3
        /\ Path(kind)[1] = "write" /\ Path(kind)[2] = "commit" /\ Path(kind)[3] = "sync"
    BY <2>1
  <2> QED
    BY <1>3, <2>2 DEF Leads
<1>4. CASE kind = "import"
  <2>1. Path(kind) = <<"ensure", "write", "commit", "sync">>
    BY <1>4 DEF Path
  <2>2. /\ DOMAIN Path(kind) = 1 .. 4
        /\ Path(kind)[1] = "ensure" /\ Path(kind)[2] = "write" /\ Path(kind)[3] = "commit"
        /\ Path(kind)[4] = "sync"
    BY <2>1
  <2> QED
    BY <1>4, <2>2 DEF Leads
<1>5. CASE kind = "reserve"
  <2>1. Path(kind) = <<"check", "header", "insert", "write", "commit">>
    BY <1>5 DEF Path
  <2>2. /\ DOMAIN Path(kind) = 1 .. 5
        /\ Path(kind)[1] = "check" /\ Path(kind)[2] = "header" /\ Path(kind)[3] = "insert"
        /\ Path(kind)[4] = "write" /\ Path(kind)[5] = "commit"
    BY <2>1
  <2> QED
    BY <1>5, <2>2 DEF Leads
<1>6. CASE kind = "release"
  <2>1. Path(kind) = <<"load", "write", "commit">>
    BY <1>6 DEF Path
  <2>2. /\ DOMAIN Path(kind) = 1 .. 3
        /\ Path(kind)[1] = "load" /\ Path(kind)[2] = "write" /\ Path(kind)[3] = "commit"
    BY <2>1
  <2> QED
    BY <1>6, <2>2 DEF Leads
<1>7. CASE kind = "sweep"
  <2>1. Path(kind) = <<"find", "write", "commit">>
    BY <1>7 DEF Path
  <2>2. /\ DOMAIN Path(kind) = 1 .. 3
        /\ Path(kind)[1] = "find" /\ Path(kind)[2] = "write" /\ Path(kind)[3] = "commit"
    BY <2>1
  <2> QED
    BY <1>7, <2>2 DEF Leads
<1>8. CASE kind = "count"
  <2>1. Path(kind) = <<"load", "look", "save">>
    BY <1>8 DEF Path
  <2>2. /\ DOMAIN Path(kind) = 1 .. 3
        /\ Path(kind)[1] = "load" /\ Path(kind)[2] = "look" /\ Path(kind)[3] = "save"
    BY <2>1
  <2> QED
    BY <1>8, <2>2 DEF Leads
<1>9. CASE kind = "approve"
  <2>1. Path(kind) = <<"read", "write", "commit">>
    BY <1>9 DEF Path
  <2>2. /\ DOMAIN Path(kind) = 1 .. 3
        /\ Path(kind)[1] = "read" /\ Path(kind)[2] = "write" /\ Path(kind)[3] = "commit"
    BY <2>1
  <2> QED
    BY <1>9, <2>2 DEF Leads
<1>10. CASE kind = "recon"
  <2>1. Path(kind) = <<"product", "sums", "repair", "redis", "set">>
    BY <1>10 DEF Path
  <2>2. /\ DOMAIN Path(kind) = 1 .. 5
        /\ Path(kind)[1] = "product" /\ Path(kind)[2] = "sums" /\ Path(kind)[3] = "repair"
        /\ Path(kind)[4] = "redis" /\ Path(kind)[5] = "set"
    BY <2>1
  <2> QED
    BY <1>10, <2>2 DEF Leads
<1> QED
  BY <1>1, <1>2, <1>3, <1>4, <1>5, <1>6, <1>7, <1>8, <1>9, <1>10 DEF Leads

\* A step of a handler leads where its path says, which is a step of the path.
LEMMA Goes ==
  ASSUME NEW c, NEW me, Go(c, me), NEW then, Leads(Req(c).kind, me.pc, then)
  PROVE  Becomes(c, [me EXCEPT !.pc = then]) /\ \E n \in DOMAIN Path(Req(c).kind) : Path(Req(c).kind)[n] = then
<1> DEFINE path == Path(Req(c).kind)
           here == CHOOSE n \in DOMAIN path : path[n] = me.pc
<1>1. PICK n \in Nat : /\ n \in DOMAIN path /\ n + 1 \in DOMAIN path
                       /\ path[n] = me.pc /\ path[n + 1] = then
                       /\ \A m \in DOMAIN path : path[m] = me.pc => m = n
  <2> DEFINE pc == me.pc
             kind == Req(c).kind
  <2>1. Leads(kind, pc, then)
    OBVIOUS
  <2> HIDE DEF pc, kind
  <2>2. \E n \in Nat : /\ n \in DOMAIN Path(kind) /\ n + 1 \in DOMAIN Path(kind)
                        /\ Path(kind)[n] = pc /\ Path(kind)[n + 1] = then
                        /\ \A m \in DOMAIN Path(kind) : Path(kind)[m] = pc => m = n
    BY <2>1, PathSteps
  <2> QED
    BY <2>2 DEF pc, kind
<1>2. here \in DOMAIN path /\ path[here] = me.pc
  BY <1>1
<1>3. here = n
  BY <1>1, <1>2
<1>4. Becomes(c, [me EXCEPT !.pc = path[here + 1]])
  BY DEF Go
<1> QED
  BY <1>1, <1>3, <1>4

\* A step of the path: the client stands there, and nothing else of it changes.
LEMMA GoesTyped ==
  ASSUME work \in [Client -> Work], NEW c \in Client, work[c].left # <<>>,
         NEW me \in Work, me.left = work[c].left, Go(c, me),
         NEW then \in Pc, Leads(Req(c).kind, me.pc, then)
  PROVE  /\ work' \in [Client -> Work] /\ work'[c] = [me EXCEPT !.pc = then]
         /\ work'[c].left = work[c].left /\ Req(c)' = Req(c) /\ work'[c].pc = then
         /\ \A o \in Client \ {c} : work'[o] = work[o]
         /\ Steady(c)'
<1>0. Becomes(c, [me EXCEPT !.pc = then])
  BY Goes, Zenon
<1>1. work' = [work EXCEPT ![c] = [me EXCEPT !.pc = then]]
  BY <1>0 DEF Becomes
<1>2. \E n \in DOMAIN Path(Req(c).kind) : Path(Req(c).kind)[n] = then
  BY Goes
<1>3. [me EXCEPT !.pc = then] \in Work /\ [me EXCEPT !.pc = then].left = me.left
      /\ [me EXCEPT !.pc = then].pc = then
  BY DEF Work
<1>4. /\ work' \in [Client -> Work] /\ work'[c] = [me EXCEPT !.pc = then]
      /\ \A o \in Client \ {c} : work'[o] = work[o]
  BY <1>1, <1>3
<1>5. work'[c].left = work[c].left /\ work'[c].pc = then
  BY <1>3, <1>4
<1>6. Req(c)' = Req(c)
  BY <1>5 DEF Req
<1>7. Steady(c)'
  BY <1>2, <1>5, <1>6 DEF Steady
<1> QED
  BY <1>4, <1>5, <1>6, <1>7

\* Where a request begins.
LEMMA Starts ==
  ASSUME NEW kind \in Kind
  PROVE  /\ 1 \in DOMAIN Path(kind) /\ Path(kind)[1] \in Pc
         /\ Path(kind)[1] \notin {"idle", "commit", "sync", "save", "repair", "sums"}
         /\ Path(kind)[1] = "look" => kind = "sale"
         /\ kind \in {"import", "release", "sweep", "approve", "reserve"} => Path(kind)[1] # "write"
<1>1. CASE kind = "sale"
  <2>1. Path(kind) = <<"look", "cache", "write", "commit", "sync">>
    BY <1>1 DEF Path
  <2> QED
    BY <1>1, <2>1 DEF Pc
<1>2. CASE kind = "receipt"
  <2>1. Path(kind) = <<"write", "commit">>
    BY <1>2 DEF Path
  <2> QED
    BY <1>2, <2>1 DEF Pc
<1>3. CASE kind \in {"adjust", "opening", "transfer"}
  <2>1. Path(kind) = <<"write", "commit", "sync">>
    BY <1>3 DEF Path
  <2> QED
    BY <1>3, <2>1 DEF Pc
<1>4. CASE kind = "import"
  <2>1. Path(kind) = <<"ensure", "write", "commit", "sync">>
    BY <1>4 DEF Path
  <2> QED
    BY <1>4, <2>1 DEF Pc
<1>5. CASE kind = "reserve"
  <2>1. Path(kind) = <<"check", "header", "insert", "write", "commit">>
    BY <1>5 DEF Path
  <2> QED
    BY <1>5, <2>1 DEF Pc
<1>6. CASE kind = "release"
  <2>1. Path(kind) = <<"load", "write", "commit">>
    BY <1>6 DEF Path
  <2> QED
    BY <1>6, <2>1 DEF Pc
<1>7. CASE kind = "sweep"
  <2>1. Path(kind) = <<"find", "write", "commit">>
    BY <1>7 DEF Path
  <2> QED
    BY <1>7, <2>1 DEF Pc
<1>8. CASE kind = "count"
  <2>1. Path(kind) = <<"load", "look", "save">>
    BY <1>8 DEF Path
  <2> QED
    BY <1>8, <2>1 DEF Pc
<1>9. CASE kind = "approve"
  <2>1. Path(kind) = <<"read", "write", "commit">>
    BY <1>9 DEF Path
  <2> QED
    BY <1>9, <2>1 DEF Pc
<1>10. CASE kind = "recon"
  <2>1. Path(kind) = <<"product", "sums", "repair", "redis", "set">>
    BY <1>10 DEF Path
  <2> QED
    BY <1>10, <2>1 DEF Pc
<1>11. CASE kind \in {"start", "complete", "ask"}
  <2>1. Path(kind) = <<"once">>
    BY <1>11 DEF Path
  <2> QED
    BY <1>11, <2>1 DEF Pc
<1> QED
  BY <1>1, <1>2, <1>3, <1>4, <1>5, <1>6, <1>7, <1>8, <1>9, <1>10, <1>11 DEF Kind

\* A new request, or none.
LEMMA Begins ==
  ASSUME NEW c \in Client, NEW script \in Seq(Asking), work'[c] = Begin(script)
  PROVE  work'[c] \in Work /\ ~Writing(c)' /\ Steady(c)' /\ Knows(c)'
<1>0. Idle \in Work /\ Idle.left = <<>> /\ Idle.pc = "idle"
  BY DEF Idle, Work, Pc
<1>1. CASE script = <<>>
  <2>1. work'[c] = Idle
    BY <1>1 DEF Begin
  <2> QED
    BY <1>0, <2>1 DEF Writing, Steady, Knows
<1>2. CASE script # <<>>
  <2>1. Head(script) \in Asking /\ Head(script).kind \in Kind
    <3>1. Head(script) \in Asking
      BY <1>2
    <3> QED
      BY <3>1 DEF Asking, Request
  <2>2. work'[c] = [Idle EXCEPT !.left = script, !.pc = Path(Head(script).kind)[1]]
    BY <1>2 DEF Begin
  <2>3. work'[c].left = script /\ work'[c].pc = Path(Head(script).kind)[1] /\ work'[c] \in Work
    <3>1. \A p \in Pc : /\ [Idle EXCEPT !.left = script, !.pc = p] \in Work
                        /\ [Idle EXCEPT !.left = script, !.pc = p].left = script
                        /\ [Idle EXCEPT !.left = script, !.pc = p].pc = p
      BY <1>0 DEF Work
    <3>2. Path(Head(script).kind)[1] \in Pc
      BY <2>1, Starts
    <3> QED
      BY <2>2, <3>1, <3>2
  <2>4. Req(c)' = Head(script)
    BY <2>3 DEF Req
  <2>5. Steady(c)'
    BY <1>2, <2>1, <2>3, <2>4, Starts DEF Steady
  <2> DEFINE pc == Path(Head(script).kind)[1]
             kind == Head(script).kind
  <2>6. /\ pc \notin {"idle", "commit", "sync", "save", "repair", "sums"}
        /\ pc = "look" => kind = "sale"
        /\ kind \in {"import", "release", "sweep", "approve", "reserve"} => pc # "write"
    BY <2>1, Starts
  <2>7. work'[c].pc = pc /\ Req(c)'.kind = kind
    BY <2>3, <2>4
  <2> HIDE DEF pc, kind
  <2>8. ~Writing(c)'
    BY <2>6, <2>7 DEF Writing
  <2>9. KnowsMove(c)'
    BY <2>6, <2>7 DEF KnowsMove
  <2>10. KnowsHold(c)'
    BY <2>6, <2>7 DEF KnowsHold, At, Releasing
  <2>11. KnowsCount(c)'
    BY <2>6, <2>7 DEF KnowsCount, At
  <2>12. KnowsAsk(c)'
    BY <2>6, <2>7 DEF KnowsAsk, At
  <2>13. KnowsDrift(c)'
    BY <2>6, <2>7 DEF KnowsDrift, At
  <2> QED
    BY <2>3, <2>5, <2>8, <2>9, <2>10, <2>11, <2>12, <2>13 DEF Knows
<1> QED
  BY <1>1, <1>2

\* The request is answered.
LEMMA Ends ==
  ASSUME work \in [Client -> Work], NEW c \in Client, work[c].left # <<>>, Done(c)
  PROVE  /\ work' \in [Client -> Work] /\ \A o \in Client \ {c} : work'[o] = work[o]
         /\ ~Writing(c)' /\ Steady(c)' /\ Knows(c)'
<1> DEFINE script == IF Req(c).kind \in Cron THEN work[c].left ELSE Tail(work[c].left)
<1>1. script \in Seq(Asking)
  <2>1. work[c].left \in Seq(Asking)
    BY DEF Work
  <2> QED
    BY <2>1
<1>2. work' = [work EXCEPT ![c] = Begin(script)]
  BY DEF Done, Becomes
<1>3. work'[c] = Begin(script) /\ \A o \in Client \ {c} : work'[o] = work[o]
  BY <1>2
<1> HIDE DEF script
<1>4. Begin(script) \in Work
  BY <1>1, <1>3, Begins
<1> QED
  BY <1>1, <1>2, <1>3, <1>4, Begins

-----------------------------------------------------------------------------
(* What the others do to a client *)

\* Rows, holds, counts and requests stay; under the lock of another, also what it has read.
Grows(o) ==
  /\ \A i \in Item : items[i].live => items'[i].live
  /\ DOMAIN holds \subseteq DOMAIN holds'
  /\ \A s \in DOMAIN sessions :
       /\ s \in DOMAIN sessions' /\ sessions'[s].startedAt = sessions[s].startedAt
       /\ sessions'[s].item = sessions[s].item /\ sessions'[s].expected = sessions[s].expected
  /\ \A a \in DOMAIN asks : a \in DOMAIN asks' /\ asks'[a].session = asks[a].session
  /\ clock' \in Nat /\ clock <= clock'
  /\ product'.version \in Nat /\ product.version <= product'.version
  /\ LiveItems(items) # {} /\ product'.version = product.version =>
       OnHandSum(items') = OnHandSum(items)
  /\ Writing(o) =>
       /\ stock' = stock /\ DOMAIN sessions' = DOMAIN sessions
       /\ \A h \in DOMAIN holds : holds'[h].status = holds[h].status
       /\ \A a \in DOMAIN asks : asks'[a] = asks[a]

\* What a client knows of its movement survives the steps of the others.
LEMMA MoveFrame ==
  ASSUME Typed, NEW o \in Client, work[o].left # <<>>, KnowsMove(o), work'[o] = work[o], Grows(o)
  PROVE  KnowsMove(o)'
<1>1. SaleItem \in Item /\ Req(o)' = Req(o)
  BY StockAssumption DEF Req
<1>2. items[SaleItem].live => items'[SaleItem].live
  BY <1>1 DEF Grows
<1>3. CASE work[o].pc = "commit"
  <2>1. /\ items' = items /\ product' = product /\ moves' = moves /\ DOMAIN sessions' = DOMAIN sessions
        /\ \A s \in DOMAIN sessions : sessions'[s].startedAt = sessions[s].startedAt
        /\ clock' \in Nat /\ clock \in Nat /\ clock <= clock' /\ work[o].at \in Nat
    BY <1>3 DEF Grows, Writing, stock, Typed, Work
  <2>2. Stamped(work[o].at) => Stamped(work[o].at)'
    BY <2>1 DEF Stamped
  <2>3. Keyed(Req(o))' = Keyed(Req(o))
    BY <1>1, <2>1 DEF Keyed
  <2>4. OpeningMoves(Req(o).item)' = OpeningMoves(Req(o).item) /\ MovesOf(SaleItem)' = MovesOf(SaleItem)
    BY <1>1, <2>1 DEF OpeningMoves, MovesOf
  <2>5. Enough(Steps(Req(o)), work[o].at)' <=> Enough(Steps(Req(o)), work[o].at)
    BY <1>1, <2>1 DEF Enough, Placed, Ensured, Available, Net, Steps
  <2> QED
    BY <1>1, <1>2, <2>1, <2>2, <2>3, <2>4, <2>5 DEF KnowsMove
<1>4. CASE work[o].pc # "commit"
  BY <1>1, <1>2, <1>4 DEF KnowsMove
<1> QED
  BY <1>3, <1>4

\* So does what it knows of the holds it releases and of the rows it reserves.
LEMMA HoldFrame ==
  ASSUME Typed, NEW o \in Client, work[o].left # <<>>, KnowsHold(o), work'[o] = work[o], Grows(o)
  PROVE  KnowsHold(o)'
<1>1. Req(o)' = Req(o) /\ DOMAIN holds \subseteq DOMAIN holds'
  BY DEF Req, Grows
<1>2. \A kind, pc : At(o, kind, pc)' <=> At(o, kind, pc)
  BY <1>1 DEF At
<1>3. work[o].pc = "commit" => items' = items /\ \A h \in DOMAIN holds : holds'[h].status = holds[h].status
  BY DEF Grows, Writing, stock
<1>4. \A kind : At(o, kind, "commit") => work[o].pc = "commit"
  BY DEF At
<1> QED
  BY <1>1, <1>2, <1>3, <1>4 DEF KnowsHold, ActiveHold, Available

\* So does what it knows of the session it counts in.
LEMMA CountFrame ==
  ASSUME Typed, NEW o \in Client, work[o].left # <<>>, KnowsCount(o), work'[o] = work[o], Grows(o)
  PROVE  KnowsCount(o)'
<1>1. /\ Req(o)' = Req(o) /\ clock \in Nat /\ clock' \in Nat /\ clock <= clock' /\ work[o].at \in Nat
      /\ \A s \in DOMAIN sessions : s \in DOMAIN sessions' /\ sessions'[s].startedAt = sessions[s].startedAt
  BY DEF Req, Grows, Typed, Work
<1>2. \A kind, pc : At(o, kind, pc)' <=> At(o, kind, pc)
  BY <1>1 DEF At
<1> QED
  BY <1>1, <1>2 DEF KnowsCount

\* So does what it knows of the request it approves.
LEMMA AskFrame ==
  ASSUME Typed, NEW o \in Client, work[o].left # <<>>, KnowsAsk(o), work'[o] = work[o], Grows(o)
  PROVE  KnowsAsk(o)'
<1>1. /\ Req(o)' = Req(o) /\ clock \in Nat /\ clock' \in Nat /\ clock <= clock' /\ work[o].at \in Nat
      /\ \A s \in DOMAIN sessions : sessions'[s].startedAt = sessions[s].startedAt
      /\ \A x, s : CountOf(x, s) => CountOf(x, s)'
      /\ \A a \in DOMAIN asks : a \in DOMAIN asks' /\ asks'[a].session = asks[a].session
  BY DEF Req, Grows, Typed, Work, CountOf
<1>2. \A kind, pc : At(o, kind, pc)' <=> At(o, kind, pc)
  BY <1>1 DEF At
<1>3. CASE At(o, "approve", "commit")
  <2>1. /\ items' = items /\ product' = product /\ moves' = moves /\ DOMAIN sessions' = DOMAIN sessions
        /\ \A a \in DOMAIN asks : asks'[a] = asks[a]
    BY <1>3 DEF Grows, Writing, stock, At
  <2>2. Stamped(work[o].at) => Stamped(work[o].at)'
    BY <1>1, <2>1 DEF Stamped
  <2>3. Squares(o)' <=> Squares(o)
    BY <2>1 DEF Squares, MovedSince, Added, MovesOf, Unseen, Visible
  <2>4. ASSUME NEW a \in DOMAIN asks, NEW d
        PROVE  Enough(Adjusting(a, d), work[o].at)' <=> Enough(Adjusting(a, d), work[o].at)
    <3>1. Adjusting(a, d)' = Adjusting(a, d)
      BY <2>1 DEF Adjusting
    <3>2. \A i : Net(Adjusting(a, d), i)' = Net(Adjusting(a, d), i)
      BY <3>1 DEF Net
    <3>3. Placed(Adjusting(a, d), work[o].at)' = Placed(Adjusting(a, d), work[o].at)
      BY <2>1, <3>1 DEF Placed, Ensured
    <3> QED
      BY <3>2, <3>3 DEF Enough, Available
  <2>5. ~At(o, "approve", "write")
    BY <1>3 DEF At
  <2> QED
    BY <1>1, <1>2, <1>3, <2>1, <2>2, <2>3, <2>4, <2>5 DEF KnowsAsk
<1>4. CASE ~At(o, "approve", "commit")
  BY <1>1, <1>2, <1>4 DEF KnowsAsk
<1> QED
  BY <1>3, <1>4

\* So does what the reconciliation read: a later movement shows in the version.
LEMMA DriftFrame ==
  ASSUME Typed, NEW o \in Client, work[o].left # <<>>, KnowsDrift(o), work'[o] = work[o], Grows(o)
  PROVE  KnowsDrift(o)'
<1>1. /\ Req(o)' = Req(o) /\ product.version \in Nat /\ product'.version \in Nat
      /\ product.version <= product'.version /\ work[o].version \in Nat
  BY DEF Req, Grows, Typed, Work
<1>2. \A kind, pc : At(o, kind, pc)' <=> At(o, kind, pc)
  BY <1>1 DEF At
<1>3. LiveItems(items) # {} => LiveItems(items') # {}
  BY DEF Grows, LiveItems
<1>4. LiveItems(items) # {} /\ product'.version = product.version => OnHandSum(items') = OnHandSum(items)
  BY DEF Grows
<1> QED
  BY <1>1, <1>2, <1>3, <1>4 DEF KnowsDrift

\* So does everything a client knows.
LEMMA Frame ==
  ASSUME Typed, NEW o \in Client, Steady(o), Knows(o), work'[o] = work[o], Grows(o)
  PROVE  Steady(o)' /\ Knows(o)'
<1>1. Steady(o)'
  BY DEF Steady, Req
<1>2. ASSUME work[o].left # <<>> PROVE Knows(o)'
  BY <1>2, MoveFrame, HoldFrame, CountFrame, AskFrame, DriftFrame DEF Knows
<1> QED
  BY <1>1, <1>2 DEF Knows

\* One client moves: it knows what its next step needs, and the others are not disturbed.
LEMMA Together ==
  ASSUME StockInv, NEW c \in Client, Tables', Steady(c)', Knows(c)',
         \A o \in Client \ {c} : work'[o] = work[o] /\ Grows(o),
         Writing(c)' => Writing(c) \/ \A o \in Client \ {c} : ~Writing(o)
  PROVE  StockInv'
<1>1. \A o \in Client : Steady(o)' /\ Knows(o)'
  BY Frame DEF StockInv, Tables
<1>2. OneWriter'
  <2>1. \A o \in Client \ {c} : Writing(o)' <=> Writing(o)
    BY DEF Writing
  <2> QED
    BY <2>1 DEF StockInv, OneWriter
<1> QED
  BY <1>1, <1>2 DEF StockInv

-----------------------------------------------------------------------------
(* Steps that leave the tables alone *)

Still == UNCHANGED <<stock, holds, sessions, asks>>

\* A step that writes none of the tables keeps what is said of them.
LEMMA Quiet ==
  ASSUME Tables, Still, clock' \in Nat, clock <= clock', cache' \in Int \cup {NoValue},
         faults' \in 0 .. MaxFaults, work' \in [Client -> Work]
  PROVE  Tables' /\ \A o \in Client : Grows(o)
<1>1. /\ items' = items /\ product' = product /\ moves' = moves /\ holds' = holds
      /\ sessions' = sessions /\ asks' = asks
  BY DEF Still, stock
<1>2. clock \in Nat /\ Typed
  BY DEF Tables, Typed
<1>3. Typed'
  BY <1>1, <1>2 DEF Typed, ItemsTyped
<1>4. RowsInv'
  BY <1>1 DEF Tables, RowsInv, Agrees
<1>5. LedgerRebuilds'
  BY <1>1 DEF Tables, MovesInv, LedgerRebuilds, Added, MovesOf
<1>6. MovesInv'
  <2>1. \A m \in DOMAIN moves : moves[m].at \in Nat
    <3>1. \A m \in DOMAIN moves : moves[m] \in MoveRow
      BY <1>2 DEF Typed
    <3> QED
      BY <3>1 DEF MoveRow
  <2>2. \A m \in DOMAIN moves : moves[m].at <= clock
    BY DEF Tables, MovesInv
  <2>3. \A m \in DOMAIN moves : moves[m].at <= clock'
    BY <1>2, <2>1, <2>2
  <2> QED
    BY <1>1, <1>5, <2>3 DEF MovesInv
<1>7. HoldsBacked'
  BY <1>1 DEF Tables, HoldsBacked, ActiveHold
<1>8. MovedOncePerKey'
  BY <1>1 DEF Tables, MovedOncePerKey, OpeningMoves, ImportedOpening, MovesOf
<1>9. PostingsInv'
  BY <1>1 DEF Tables, PostingsInv
<1>10. SessionsInv'
  <2>1. \A s \in DOMAIN sessions : sessions[s].startedAt \in Nat /\ sessions[s].countedAt \in Nat
    <3>1. \A s \in DOMAIN sessions : sessions[s] \in SessionRow
      BY <1>2 DEF Typed
    <3> QED
      BY <3>1 DEF SessionRow
  <2>2. \A i, t : MovedSince(i, t)' = MovedSince(i, t)
    BY <1>1 DEF MovedSince, Added, MovesOf
  <2>3. ASSUME NEW s \in DOMAIN sessions
        PROVE  /\ items[sessions[s].item].live /\ sessions[s].startedAt <= clock
               /\ sessions[s].counted # NoValue =>
                    sessions[s].startedAt < sessions[s].countedAt /\ sessions[s].countedAt <= clock
               /\ items[sessions[s].item].onHand =
                    sessions[s].expected + MovedSince(sessions[s].item, sessions[s].startedAt)
    BY DEF Tables, SessionsInv
  <2> QED
    BY <1>1, <1>2, <2>1, <2>2, <2>3 DEF SessionsInv
<1>11. AsksInv'
  BY <1>1 DEF Tables, AsksInv
<1>12. \A o \in Client : Grows(o)
  BY <1>1, <1>2 DEF Grows, stock, Typed
<1> QED
  BY <1>3, <1>4, <1>6, <1>7, <1>8, <1>9, <1>10, <1>11, <1>12 DEF Tables

\* The acting client: it has a request, and knows what its step needs.
LEMMA Acting ==
  ASSUME StockInv, NEW c \in Client, work[c].pc # "idle"
  PROVE  /\ Tables /\ Typed /\ work \in [Client -> Work] /\ work[c] \in Work /\ work[c].left # <<>>
         /\ Req(c) \in Asking /\ Req(c) \in Request
         /\ KnowsMove(c) /\ KnowsHold(c) /\ KnowsCount(c) /\ KnowsAsk(c) /\ KnowsDrift(c)
         /\ clock \in Nat /\ cache \in Int \cup {NoValue} /\ faults \in 0 .. MaxFaults
<1>1. Tables /\ Typed /\ Steady(c) /\ Knows(c)
  BY DEF StockInv, Tables
<1>2. work \in [Client -> Work] /\ work[c] \in Work
  BY <1>1 DEF Typed
<1>3. work[c].left # <<>>
  BY <1>1 DEF Steady
<1>4. work[c].left \in Seq(Asking)
  BY <1>2 DEF Work
<1>5. Req(c) \in Asking
  BY <1>3, <1>4 DEF Req
<1>6. Req(c) \in Request
  BY <1>5 DEF Asking
<1> QED
  BY <1>1, <1>2, <1>3, <1>5, <1>6 DEF Knows, Typed

\* Of what a client knows, one part is about its request.
LEMMA Family ==
  ASSUME NEW c
  PROVE  /\ Req(c)'.kind \in Moving /\ KnowsMove(c)' => Knows(c)'
         /\ Req(c)'.kind \in {"reserve", "release", "sweep"} /\ KnowsHold(c)' => Knows(c)'
         /\ Req(c)'.kind = "count" /\ KnowsCount(c)' => Knows(c)'
         /\ Req(c)'.kind = "approve" /\ KnowsAsk(c)' => Knows(c)'
         /\ Req(c)'.kind = "recon" /\ KnowsDrift(c)' => Knows(c)'
<1>1. Req(c)'.kind \notin Moving => KnowsMove(c)'
  BY DEF KnowsMove, Moving
<1>2. Req(c)'.kind \notin {"reserve", "release", "sweep"} => KnowsHold(c)'
  BY DEF KnowsHold, At, Releasing
<1>3. Req(c)'.kind # "count" => KnowsCount(c)'
  BY DEF KnowsCount, At
<1>4. Req(c)'.kind # "approve" => KnowsAsk(c)'
  BY DEF KnowsAsk, At
<1>5. Req(c)'.kind # "recon" => KnowsDrift(c)'
  BY DEF KnowsDrift, At
<1> QED
  BY <1>1, <1>2, <1>3, <1>4, <1>5 DEF Knows, Moving

\* Steps at which there is nothing to know.
Carefree(kind, pc) ==
  \/ pc \in {"cache", "header", "insert", "redis", "set"}
  \/ pc = "write" /\ kind \in {"sale", "receipt", "adjust", "opening", "transfer", "reserve"}
  \/ pc = "sync" /\ kind # "import"

\* At a step that nothing is known of there is nothing to show.
LEMMA NoCare ==
  ASSUME NEW c, Carefree(Req(c)'.kind, work'[c].pc)
  PROVE  Knows(c)'
<1>1. KnowsMove(c)'
  BY DEF Carefree, KnowsMove
<1>2. KnowsHold(c)'
  BY DEF Carefree, KnowsHold, At, Releasing
<1>3. KnowsCount(c)'
  BY DEF Carefree, KnowsCount, At
<1>4. KnowsAsk(c)'
  BY DEF Carefree, KnowsAsk, At
<1>5. KnowsDrift(c)'
  BY DEF Carefree, KnowsDrift, At
<1> QED
  BY <1>1, <1>2, <1>3, <1>4, <1>5 DEF Knows

Calm ==
  /\ Still /\ clock' \in {clock, clock + 1}
  /\ cache' \in Int \cup {NoValue} /\ faults' \in 0 .. MaxFaults

\* A client that writes no table and takes the lock only when it is free keeps the invariant.
LEMMA QuietStep ==
  ASSUME StockInv, NEW c \in Client, Calm, work' \in [Client -> Work],
         \A o \in Client \ {c} : work'[o] = work[o], Steady(c)', Knows(c)',
         Writing(c)' => Writing(c) \/ \A o \in Client \ {c} : ~Writing(o)
  PROVE  StockInv'
<1>1. Tables /\ clock \in Nat
  BY DEF StockInv, Tables, Typed
<1>2. Still /\ clock' \in Nat /\ clock <= clock' /\ cache' \in Int \cup {NoValue} /\ faults' \in 0 .. MaxFaults
  BY <1>1 DEF Calm
<1>3. Tables' /\ \A o \in Client : Grows(o)
  BY <1>1, <1>2, Quiet
<1> QED
  BY <1>3, Together

\* A step that only ends a request.
LEMMA QuietEnd ==
  ASSUME StockInv, NEW c \in Client, work[c].pc # "idle", Calm, Done(c)
  PROVE  StockInv'
<1>1. work \in [Client -> Work] /\ work[c].left # <<>>
  BY Acting
<1>2. /\ work' \in [Client -> Work] /\ \A o \in Client \ {c} : work'[o] = work[o]
      /\ ~Writing(c)' /\ Steady(c)' /\ Knows(c)'
  BY <1>1, Ends
<1> QED
  BY <1>2, QuietStep

\* A step that only goes on; what has to be known at the next one is known.
LEMMA QuietGo ==
  ASSUME StockInv, NEW c \in Client, work[c].pc # "idle", Calm,
         NEW me \in Work, me.left = work[c].left, me.pc = work[c].pc, Go(c, me),
         NEW then \in Pc, Leads(Req(c).kind, work[c].pc, then),
         work'[c] = [me EXCEPT !.pc = then] /\ work'[c].pc = then /\ Req(c)' = Req(c) => Knows(c)',
         then = "commit" => \A o \in Client \ {c} : ~Writing(o)
  PROVE  StockInv'
<1>1. work \in [Client -> Work] /\ work[c].left # <<>>
  BY Acting
<1>2. /\ work' \in [Client -> Work] /\ work'[c] = [me EXCEPT !.pc = then]
      /\ Req(c)' = Req(c) /\ work'[c].pc = then
      /\ \A o \in Client \ {c} : work'[o] = work[o]
      /\ Steady(c)'
  BY <1>1, GoesTyped
<1>3. Knows(c)'
  BY <1>2
<1>4. Writing(c)' => then = "commit"
  BY <1>2 DEF Writing
<1> QED
  BY <1>2, <1>3, <1>4, QuietStep

\* So it does when it goes on to a step that nothing is known of.
LEMMA QuietCarefree ==
  ASSUME StockInv, NEW c \in Client, work[c].pc # "idle", Calm,
         NEW me \in Work, me.left = work[c].left, me.pc = work[c].pc, Go(c, me),
         NEW then \in Pc, Leads(Req(c).kind, work[c].pc, then), Carefree(Req(c).kind, then)
  PROVE  StockInv'
<1>1. work'[c].pc = then /\ Req(c)' = Req(c) => Knows(c)'
  <2>1. SUFFICES ASSUME work'[c].pc = then, Req(c)' = Req(c) PROVE Knows(c)'
    OBVIOUS
  <2>2. Carefree(Req(c)'.kind, work'[c].pc)
    BY <2>1
  <2> QED
    BY <2>2, NoCare
<1>2. then # "commit"
  BY DEF Carefree
<1> QED
  BY <1>1, <1>2, QuietGo

\* The next entry of a release's or a sweep's list, or the end of it.
LEMMA Passes ==
  ASSUME work \in [Client -> Work], NEW c \in Client, work[c].left # <<>>, Req(c).kind \in Releasing,
         work[c].todo \subseteq DOMAIN holds, DOMAIN holds' = DOMAIN holds, NEW h, Passed(c, h)
  PROVE  /\ work' \in [Client -> Work] /\ \A o \in Client \ {c} : work'[o] = work[o]
         /\ ~Writing(c)' /\ Steady(c)' /\ Knows(c)'
<1>1. CASE work[c].todo = {h}
  <2>1. Done(c)
    BY <1>1 DEF Passed
  <2> QED
    BY <2>1, Ends
<1>2. CASE work[c].todo # {h}
  <2> DEFINE me == [work[c] EXCEPT !.pc = "write", !.todo = @ \ {h}]
  <2>1. work' = [work EXCEPT ![c] = me]
    BY <1>2 DEF Passed, Becomes
  <2>2. work[c] \in Work
    OBVIOUS
  <2>3. me \in Work /\ me.left = work[c].left /\ me.pc = "write" /\ me.todo = work[c].todo \ {h}
    BY <2>2 DEF Work, Pc
  <2> HIDE DEF me
  <2>4. work' \in [Client -> Work] /\ work'[c] = me /\ \A o \in Client \ {c} : work'[o] = work[o]
    BY <2>1, <2>3
  <2>5. Req(c)' = Req(c)
    BY <2>3, <2>4 DEF Req
  <2>6. Leads(Req(c).kind, "write", "commit")
    BY DEF Leads, Releasing
  <2>7. \E n \in DOMAIN Path(Req(c).kind) : Path(Req(c).kind)[n] = "write"
    BY <2>6, PathSteps
  <2>8. Steady(c)'
    BY <2>3, <2>4, <2>5, <2>7 DEF Steady
  <2>9. KnowsHold(c)'
    BY <2>3, <2>4, <2>5 DEF KnowsHold, At, Releasing
  <2>10. Knows(c)'
    BY <2>5, <2>9, Family DEF Releasing
  <2> QED
    BY <2>3, <2>4, <2>8, <2>10 DEF Writing
<1> QED
  BY <1>1, <1>2

\* releaseExpiredReservations: so it does when it passes over a hold.
LEMMA QuietPass ==
  ASSUME StockInv, NEW c \in Client, work[c].pc \in {"write", "commit"}, Req(c).kind \in Releasing,
         Calm, NEW h, Passed(c, h)
  PROVE  StockInv'
<1>1. /\ work \in [Client -> Work] /\ work[c].left # <<>> /\ KnowsHold(c)
  BY Acting
<1>2. work[c].todo \subseteq DOMAIN holds /\ DOMAIN holds' = DOMAIN holds
  BY <1>1 DEF KnowsHold, Calm, Still
<1>3. /\ work' \in [Client -> Work] /\ \A o \in Client \ {c} : work'[o] = work[o]
      /\ ~Writing(c)' /\ Steady(c)' /\ Knows(c)'
  BY <1>1, <1>2, Passes
<1> QED
  BY <1>3, QuietStep

-----------------------------------------------------------------------------
(* Sales look at the stock and at the cache *)

\* loadAvailability of the sale.
LEMMA LookForSaleKeeps ==
  ASSUME StockInv, NEW c \in Client, work[c].pc # "idle", LookForSale(c)
  PROVE  StockInv'
<1>1. work[c] \in Work /\ product.stock \in Int /\ Calm
  BY Acting DEF LookForSale, Calm, Still, Typed
<1>2. CASE Done(c)
  BY <1>1, <1>2, QuietEnd
<1>3. CASE Go(c, [work[c] EXCEPT !.seen = product.stock])
  <2>1. Leads(Req(c).kind, work[c].pc, "cache") /\ Carefree(Req(c).kind, "cache") /\ "cache" \in Pc
    BY DEF LookForSale, At, Leads, Carefree, Pc
  <2> DEFINE me == [work[c] EXCEPT !.seen = product.stock]
  <2>2. me \in Work /\ me.left = work[c].left /\ me.pc = work[c].pc /\ Go(c, me)
    BY <1>1, <1>3 DEF Work
  <2> HIDE DEF me
  <2> QED
    BY <1>1, <2>1, <2>2, QuietCarefree
<1> QED
  BY <1>2, <1>3 DEF LookForSale

\* preCheckStock: only Redis and the client change.
LEMMA PreCheckKeeps ==
  ASSUME StockInv, NEW c \in Client, work[c].pc # "idle", PreCheck(c)
  PROVE  StockInv'
<1> DEFINE ok == cache # NoValue /\ cache >= Req(c).qty
<1>1. /\ work[c] \in Work /\ Req(c) \in Request /\ clock \in Nat /\ cache \in Int \cup {NoValue}
      /\ faults \in 0 .. MaxFaults
  BY Acting
<1>2. Req(c).qty \in Int /\ work[c].seen \in Int /\ ok \in BOOLEAN
  BY <1>1 DEF Request, Work
<1>3. cache' = IF ok THEN cache - Req(c).qty ELSE IF cache = NoValue THEN cache ELSE work[c].seen
  BY DEF PreCheck
<1>4. cache' \in Int \cup {NoValue}
  BY <1>1, <1>2, <1>3
<1>5. Calm
  BY <1>1, <1>4 DEF PreCheck, Calm, Still
<1>6. Go(c, [work[c] EXCEPT !.took = ok])
  BY DEF PreCheck
<1> HIDE DEF ok
<1>7. Leads(Req(c).kind, work[c].pc, "write") /\ Carefree(Req(c).kind, "write") /\ "write" \in Pc
  BY DEF PreCheck, At, Leads, Carefree, Pc
<1> DEFINE me == [work[c] EXCEPT !.took = ok]
<1>8. me \in Work /\ me.left = work[c].left /\ me.pc = work[c].pc /\ Go(c, me)
  BY <1>1, <1>2, <1>6 DEF Work
<1> HIDE DEF me
<1> QED
  BY <1>5, <1>7, <1>8, QuietCarefree

\* syncStock: only Redis changes, and the client is done.
LEMMA SyncCacheKeeps ==
  ASSUME StockInv, NEW c \in Client, work[c].pc # "idle", SyncCache(c)
  PROVE  StockInv'
<1>1. work[c] \in Work /\ faults \in 0 .. MaxFaults
  BY Acting
<1>2. cache' \in Int
  BY <1>1 DEF SyncCache, Work
<1>3. Calm /\ Done(c)
  BY <1>1, <1>2 DEF SyncCache, Calm, Still
<1> QED
  BY <1>3, QuietEnd

-----------------------------------------------------------------------------
(* Reservations before their writes *)

\* What is available is a number for every row.
LEMMA AvailableTyped ==
  ASSUME Typed
  PROVE  AvailableNow \in [Item -> Int]
BY DEF Typed, ItemsTyped, AvailableNow, Available

\* validateAvailabilityOrThrow.
LEMMA CheckAvailabilityKeeps ==
  ASSUME StockInv, NEW c \in Client, work[c].pc # "idle", CheckAvailability(c)
  PROVE  StockInv'
<1>1. work[c] \in Work /\ Calm
  BY Acting DEF CheckAvailability, Calm, Still
<1>2. CASE Done(c)
  BY <1>1, <1>2, QuietEnd
<1>3. CASE Go(c, work[c])
  <2>1. Leads(Req(c).kind, work[c].pc, "header") /\ Carefree(Req(c).kind, "header") /\ "header" \in Pc
    BY DEF CheckAvailability, At, Leads, Carefree, Pc
  <2> QED
    BY <1>1, <1>3, <2>1, QuietCarefree
<1> QED
  BY <1>2, <1>3 DEF CheckAvailability

\* The header of a reservation.
LEMMA WriteHeaderKeeps ==
  ASSUME StockInv, NEW c \in Client, work[c].pc # "idle", WriteHeader(c)
  PROVE  StockInv'
<1>1. work[c] \in Work /\ Calm /\ AvailableNow \in [Item -> Int]
  BY Acting, AvailableTyped DEF WriteHeader, Calm, Still
<1>2. Go(c, [work[c] EXCEPT !.avail = AvailableNow])
  BY DEF WriteHeader
<1>3. Leads(Req(c).kind, work[c].pc, "insert") /\ Carefree(Req(c).kind, "insert") /\ "insert" \in Pc
  BY DEF WriteHeader, At, Leads, Carefree, Pc
<1> DEFINE me == [work[c] EXCEPT !.avail = AvailableNow]
<1>4. me \in Work /\ me.left = work[c].left /\ me.pc = work[c].pc /\ Go(c, me)
  BY <1>1, <1>2 DEF Work
<1> HIDE DEF me
<1> QED
  BY <1>1, <1>3, <1>4, QuietCarefree

\* The line of a reservation, which waits for the writer.
LEMMA InsertLineKeeps ==
  ASSUME StockInv, NEW c \in Client, work[c].pc # "idle", InsertLine(c)
  PROVE  StockInv'
<1> DEFINE seen == IF ServerDefault = "REPEATABLE READ" THEN work[c].avail ELSE AvailableNow
<1>1. work[c] \in Work /\ Calm /\ AvailableNow \in [Item -> Int]
  BY Acting, AvailableTyped DEF InsertLine, Calm, Still
<1>2. Go(c, [work[c] EXCEPT !.avail = seen]) /\ seen \in [Item -> Int]
  BY <1>1 DEF InsertLine, Work
<1> HIDE DEF seen
<1>3. Leads(Req(c).kind, work[c].pc, "write") /\ Carefree(Req(c).kind, "write") /\ "write" \in Pc
  BY DEF InsertLine, At, Leads, Carefree, Pc
<1> DEFINE me == [work[c] EXCEPT !.avail = seen]
<1>4. me \in Work /\ me.left = work[c].left /\ me.pc = work[c].pc /\ Go(c, me)
  BY <1>1, <1>2 DEF Work
<1> HIDE DEF me
<1> QED
  BY <1>1, <1>3, <1>4, QuietCarefree

\* The lines of an allocation: nobody gives what is not there.
LEMMA AllocationTyped ==
  ASSUME NEW avail \in [Item -> Int], NEW qty \in Int
  PROVE  Allocation(avail, qty) \in [Item -> Nat]
<1> DEFINE gives == [i \in Item |-> IF avail[i] > 0 THEN avail[i] ELSE 0]
           before(i) == SumFunctionOnSet(gives, {j \in Item \ {i} : Older(items, j, i)})
           left(i) == IF qty > before(i) THEN qty - before(i) ELSE 0
<1>1. gives \in [Item -> Nat]
  OBVIOUS
<1>2. ASSUME NEW i \in Item PROVE before(i) \in Int
  <2> DEFINE S == {j \in Item \ {i} : Older(items, j, i)}
  <2>1. S \subseteq Item /\ IsFiniteSet(S)
    BY StockAssumption, FS_Subset
  <2>2. \A x \in S : gives[x] \in Int
    BY <1>1, <2>1
  <2> HIDE DEF S, gives
  <2>3. SumFunctionOnSet(gives, S) \in Int
    BY <2>1, <2>2, SumInt
  <2> QED
    BY <2>3 DEF S
<1>3. Allocation(avail, qty) = [i \in Item |-> IF gives[i] < left(i) THEN gives[i] ELSE left(i)]
  BY DEF Allocation
<1> HIDE DEF gives, before
<1>4. \A i \in Item : left(i) \in Nat
  BY <1>2
<1> HIDE DEF left
<1> QED
  BY <1>1, <1>3, <1>4

\* allocateStockFifo: what is allocated is available under the lock.
LEMMA WriteReserveKeeps ==
  ASSUME StockInv, NEW c \in Client, work[c].pc # "idle", WriteReserve(c)
  PROVE  StockInv'
<1> DEFINE alloc == Allocation(work[c].avail, Req(c).qty)
           me == [work[c] EXCEPT !.avail = alloc]
<1>1. work[c] \in Work /\ Req(c) \in Request /\ Calm
  BY Acting DEF WriteReserve, Calm, Still
<1>2. alloc \in [Item -> Nat]
  <2>1. work[c].avail \in [Item -> Int] /\ Req(c).qty \in Int
    BY <1>1 DEF Work, Request
  <2> QED
    BY <2>1, AllocationTyped
<1>3. CASE Done(c)
  BY <1>1, <1>3, QuietEnd
<1>4. CASE MayReserve(alloc, Req(c).qty) /\ Go(c, me)
  <2>1. \A i \in Item : alloc[i] > 0 => Available(items, i) >= alloc[i]
    BY <1>4 DEF MayReserve
  <2> HIDE DEF alloc
  <2>2. alloc \in [Item -> Int]
    BY <1>2
  <2>3. me \in Work /\ me.left = work[c].left /\ me.pc = work[c].pc /\ Go(c, me)
        /\ [me EXCEPT !.pc = "commit"].avail = alloc
    BY <1>1, <1>4, <2>2 DEF Work
  <2> HIDE DEF me
  <2>4. Leads(Req(c).kind, work[c].pc, "commit") /\ "commit" \in Pc /\ Req(c).kind = "reserve"
    BY DEF WriteReserve, At, Leads, Pc
  <2>5. work'[c] = [me EXCEPT !.pc = "commit"] /\ work'[c].pc = "commit" /\ Req(c)' = Req(c) => Knows(c)'
    <3>1. SUFFICES ASSUME work'[c].avail = alloc, Req(c)' = Req(c) PROVE KnowsHold(c)'
      BY <2>3, <2>4, Family
    <3>2. items' = items
      BY DEF WriteReserve, stock
    <3>3. \A i \in Item : alloc[i] > 0 => Available(items', i) >= alloc[i]
      BY <2>1, <3>2 DEF Available
    <3> QED
      BY <1>2, <2>4, <3>1, <3>3 DEF KnowsHold, At, Releasing, Available
  <2>6. \A o \in Client \ {c} : ~Writing(o)
    BY DEF WriteReserve, Unlocked
  <2> QED
    BY <1>1, <2>3, <2>4, <2>5, <2>6, QuietGo
<1> QED
  BY <1>3, <1>4 DEF WriteReserve

-----------------------------------------------------------------------------
(* Releases before their writes *)

\* releaseReservation: what is on the list is a hold.
LEMMA LoadHoldKeeps ==
  ASSUME StockInv, NEW c \in Client, work[c].pc # "idle", LoadHold(c)
  PROVE  StockInv'
<1> DEFINE me == [work[c] EXCEPT !.todo = {Req(c).ref}]
<1>1. work[c] \in Work /\ Typed /\ Calm
  BY Acting DEF LoadHold, Calm, Still
<1>2. CASE Done(c)
  BY <1>1, <1>2, QuietEnd
<1>3. CASE Req(c).ref \in DOMAIN holds /\ Go(c, me)
  <2>1. Req(c).ref \in Nat
    <3>1. Req(c) \in Request
      BY Acting
    <3> QED
      BY <3>1 DEF Request
  <2>2. me \in Work /\ me.left = work[c].left /\ me.pc = work[c].pc /\ Go(c, me)
        /\ [me EXCEPT !.pc = "write"].todo = {Req(c).ref}
    BY <1>1, <1>3, <2>1 DEF Work
  <2> HIDE DEF me
  <2>3. Leads(Req(c).kind, work[c].pc, "write") /\ "write" \in Pc /\ Req(c).kind = "release"
    BY DEF LoadHold, At, Leads, Pc
  <2>4. work'[c] = [me EXCEPT !.pc = "write"] /\ work'[c].pc = "write" /\ Req(c)' = Req(c) => Knows(c)'
    <3>1. SUFFICES ASSUME work'[c].todo = {Req(c).ref}, work'[c].pc = "write", Req(c)' = Req(c)
                   PROVE  KnowsHold(c)'
      BY <2>2, <2>3, Family
    <3>2. holds' = holds
      BY DEF LoadHold
    <3> QED
      BY <1>3, <2>3, <3>1, <3>2 DEF KnowsHold, At
  <2> QED
    BY <1>1, <2>2, <2>3, <2>4, QuietGo
<1> QED
  BY <1>2, <1>3 DEF LoadHold

\* The list of the sweep: what is on it is a hold.
LEMMA FindDueKeeps ==
  ASSUME StockInv, NEW c \in Client, work[c].pc # "idle", FindDue(c)
  PROVE  StockInv'
<1> DEFINE due == {h \in DOMAIN holds : ActiveHold(h) /\ holds[h].due}
           me == [work[c] EXCEPT !.todo = due]
<1>1. work[c] \in Work /\ Typed /\ Calm
  BY Acting DEF FindDue, Calm, Still
<1>2. Go(c, me) /\ holds' = holds
  BY DEF FindDue
<1>3. due \subseteq DOMAIN holds /\ due \subseteq Nat
  <2>1. DOMAIN holds \subseteq Nat
    BY <1>1 DEF Typed
  <2> QED
    BY <2>1
<1> HIDE DEF due
<1>4. me \in Work /\ me.left = work[c].left /\ me.pc = work[c].pc /\ [me EXCEPT !.pc = "write"].todo = due
  BY <1>1, <1>3 DEF Work
<1> HIDE DEF me
<1>5. Leads(Req(c).kind, work[c].pc, "write") /\ "write" \in Pc /\ Req(c).kind = "sweep"
  BY DEF FindDue, At, Leads, Pc
<1>6. work'[c] = [me EXCEPT !.pc = "write"] /\ work'[c].pc = "write" /\ Req(c)' = Req(c) => Knows(c)'
  <2>1. SUFFICES ASSUME work'[c].todo = due, work'[c].pc = "write", Req(c)' = Req(c)
                 PROVE  KnowsHold(c)'
    BY <1>4, <1>5, Family
  <2> QED
    BY <1>2, <1>3, <1>5, <2>1 DEF KnowsHold, At
<1> QED
  BY <1>1, <1>2, <1>4, <1>5, <1>6, QuietGo

\* releaseOne: the hold it goes on with is open under the lock.
LEMMA WriteReleaseKeeps ==
  ASSUME StockInv, NEW c \in Client, work[c].pc # "idle", WriteRelease(c)
  PROVE  StockInv'
<1>1. work[c] \in Work /\ Typed /\ KnowsHold(c) /\ Calm
  BY Acting DEF WriteRelease, Calm, Still
<1>2. /\ Req(c).kind \in Releasing /\ work[c].pc = "write" /\ holds' = holds
      /\ \A o \in Client \ {c} : ~Writing(o)
  BY DEF WriteRelease, Unlocked
<1>3. work[c].todo \subseteq DOMAIN holds /\ work[c].todo \subseteq Nat
  BY <1>1, <1>2 DEF KnowsHold, Work
<1>4. PICK h \in work[c].todo :
        IF StillLocked(h) THEN Go(c, [work[c] EXCEPT !.seen = h]) ELSE Passed(c, h)
  BY DEF WriteRelease
<1>5. CASE Passed(c, h)
  BY <1>1, <1>2, <1>5, QuietPass
<1>6. CASE StillLocked(h) /\ Go(c, [work[c] EXCEPT !.seen = h])
  <2> DEFINE me == [work[c] EXCEPT !.seen = h]
  <2>1. h \in Int
    BY <1>3
  <2>2. me \in Work /\ me.left = work[c].left /\ me.pc = work[c].pc /\ Go(c, me)
        /\ [me EXCEPT !.pc = "commit"].todo = work[c].todo /\ [me EXCEPT !.pc = "commit"].seen = h
    BY <1>1, <1>6, <2>1 DEF Work
  <2> HIDE DEF me
  <2>3. Leads(Req(c).kind, work[c].pc, "commit") /\ "commit" \in Pc
    BY <1>2 DEF Leads, Pc, Releasing
  <2>4. work'[c] = [me EXCEPT !.pc = "commit"] /\ work'[c].pc = "commit" /\ Req(c)' = Req(c) => Knows(c)'
    <3>1. SUFFICES ASSUME work'[c].todo = work[c].todo, work'[c].seen = h, Req(c)' = Req(c)
                   PROVE  KnowsHold(c)'
      BY <1>2, <2>2, Family DEF Releasing
    <3>2. ActiveHold(h)' /\ h \in work[c].todo
      BY <1>2, <1>6 DEF StillLocked, ActiveHold
    <3> QED
      BY <1>2, <1>3, <3>1, <3>2 DEF KnowsHold, At, Releasing, ActiveHold
  <2> QED
    BY <1>1, <1>2, <2>2, <2>3, <2>4, QuietGo
<1> QED
  BY <1>4, <1>5, <1>6

-----------------------------------------------------------------------------
(* Movements before their writes *)

\* The instant of a transaction that has the lock is newer than everything.
LEMMA Stamps ==
  ASSUME Tables, Still, clock' = clock + 1
  PROVE  /\ clock + 1 <= clock'
         /\ \A m \in DOMAIN moves' : moves'[m].at < clock + 1
         /\ \A s \in DOMAIN sessions' : sessions'[s].startedAt < clock + 1
<1>1. Typed /\ clock \in Nat
  BY DEF Tables, Typed
<1>2. \A m \in DOMAIN moves : moves[m].at \in Nat /\ moves[m].at <= clock
  <2>1. \A m \in DOMAIN moves : moves[m] \in MoveRow
    BY <1>1 DEF Typed
  <2> QED
    BY <2>1 DEF Tables, MovesInv, MoveRow
<1>3. \A s \in DOMAIN sessions : sessions[s].startedAt \in Nat /\ sessions[s].startedAt <= clock
  <2>1. \A s \in DOMAIN sessions : sessions[s] \in SessionRow
    BY <1>1 DEF Typed
  <2> QED
    BY <2>1 DEF Tables, SessionsInv, SessionRow
<1>4. \A m \in DOMAIN moves : moves[m].at < clock + 1
  BY <1>1, <1>2
<1>5. \A s \in DOMAIN sessions : sessions[s].startedAt < clock + 1
  BY <1>1, <1>3
<1>6. clock' = clock + 1 /\ clock + 1 \in Nat /\ moves' = moves /\ sessions' = sessions
  BY <1>1 DEF Still, stock
<1> QED
  BY <1>1, <1>4, <1>5, <1>6

\* mutateStock under the lock: stamped, allowed and enough, or turned away.
LEMMA WriteMoveKeeps ==
  ASSUME StockInv, NEW c \in Client, work[c].pc # "idle", WriteMove(c)
  PROVE  StockInv'
<1>1. /\ work[c] \in Work /\ Req(c) \in Request /\ Typed /\ Tables /\ KnowsMove(c) /\ clock \in Nat
      /\ cache \in Int \cup {NoValue} /\ work[c].left # <<>> /\ work \in [Client -> Work]
      /\ faults' \in 0 .. MaxFaults
  BY Acting DEF WriteMove
<1>2. /\ Req(c).kind \in Moving /\ work[c].pc = "write" /\ Still /\ faults' = faults
      /\ \A o \in Client \ {c} : ~Writing(o)
  BY DEF WriteMove, Unlocked, Still
<1>3. CASE Permitted(Req(c)) /\ Tick /\ Go(c, [work[c] EXCEPT !.at = clock + 1]) /\ UNCHANGED cache
  <2> DEFINE now == clock + 1
             me == [work[c] EXCEPT !.at = now]
  <2>0. now \in Nat /\ Go(c, me)
    BY <1>1, <1>3
  <2> HIDE DEF now
  <2>1. me \in Work /\ me.left = work[c].left /\ me.pc = work[c].pc /\ Go(c, me)
        /\ [me EXCEPT !.pc = "commit"].at = now
    BY <1>1, <2>0 DEF Work
  <2> HIDE DEF me
  <2>2. Leads(Req(c).kind, work[c].pc, "commit") /\ "commit" \in Pc
    BY <1>2 DEF Leads, Pc, Moving
  <2>3. Calm /\ clock' = clock + 1
    BY <1>1, <1>2, <1>3 DEF Calm, Tick
  <2>4. work'[c] = [me EXCEPT !.pc = "commit"] /\ work'[c].pc = "commit" /\ Req(c)' = Req(c) => Knows(c)'
    <3>1. SUFFICES ASSUME work'[c].at = clock + 1, Req(c)' = Req(c) PROVE KnowsMove(c)'
      BY <1>2, <2>1, Family DEF now
    <3>2. items' = items /\ product' = product /\ moves' = moves
      BY <1>2 DEF Still, stock
    <3>3. Stamped(work[c].at)'
      <4>1. /\ clock + 1 <= clock'
            /\ \A m \in DOMAIN moves' : moves'[m].at < clock + 1
            /\ \A s \in DOMAIN sessions' : sessions'[s].startedAt < clock + 1
        BY <1>1, <1>2, <2>3, Stamps
      <4> QED
        BY <3>1, <4>1 DEF Stamped
    <3>4. Keyed(Req(c))' = Keyed(Req(c)) /\ Keyed(Req(c)) = {}
      BY <1>3, <3>1, <3>2 DEF Keyed, Permitted
    <3>5. /\ OpeningMoves(Req(c).item)' = OpeningMoves(Req(c).item)
          /\ MovesOf(SaleItem)' = MovesOf(SaleItem)
      BY <3>1, <3>2 DEF OpeningMoves, MovesOf
    <3>6. Enough(Steps(Req(c)), work[c].at)' <=> Enough(Steps(Req(c)), clock + 1)
      BY <3>1, <3>2 DEF Enough, Placed, Ensured, Available, Net, Steps
    <3>7. SaleItem \in Item /\ (Req(c).kind = "import" => items[SaleItem].live)
      BY <1>1, <1>2, StockAssumption DEF KnowsMove
    <3> QED
      BY <1>3, <3>1, <3>2, <3>3, <3>4, <3>5, <3>6, <3>7 DEF KnowsMove, Permitted
  <2> QED
    BY <1>2, <2>1, <2>2, <2>3, <2>4, QuietGo
<1>4. CASE UNCHANGED <<clock, cache>> /\ Req(c).kind \in {"adjust", "opening"}
           /\ Becomes(c, [work[c] EXCEPT !.pc = "sync", !.seen = product.stock])
  <2> DEFINE me == [work[c] EXCEPT !.pc = "sync", !.seen = product.stock]
  <2>1. me \in Work /\ me.left = work[c].left /\ me.pc = "sync"
    <3>1. product.stock \in Int
      BY <1>1 DEF Typed
    <3> QED
      BY <1>1, <3>1 DEF Work, Pc
  <2>2. work' = [work EXCEPT ![c] = me]
    BY <1>4 DEF Becomes
  <2> HIDE DEF me
  <2>3. work' \in [Client -> Work] /\ work'[c] = me /\ \A o \in Client \ {c} : work'[o] = work[o]
    BY <1>1, <2>1, <2>2
  <2>4. Req(c)' = Req(c)
    BY <2>1, <2>3 DEF Req
  <2>5. Steady(c)'
    <3>1. Leads(Req(c).kind, "commit", "sync")
      BY <1>4 DEF Leads
    <3>2. \E n \in DOMAIN Path(Req(c).kind) : Path(Req(c).kind)[n] = "sync"
      BY <3>1, PathSteps
    <3> QED
      BY <1>1, <2>1, <2>3, <2>4, <3>2 DEF Steady
  <2>6. Knows(c)'
    <3>1. Carefree(Req(c)'.kind, work'[c].pc)
      BY <1>4, <2>1, <2>3, <2>4 DEF Carefree
    <3> QED
      BY <3>1, NoCare
  <2>7. Calm
    BY <1>1, <1>2, <1>4 DEF Calm
  <2>8. ~Writing(c)'
    BY <2>1, <2>3 DEF Writing
  <2> QED
    BY <2>3, <2>5, <2>6, <2>7, <2>8, QuietStep
<1>5. CASE clock' = clock /\ cache' \in {cache, Restored(work[c], Req(c))} /\ Done(c)
  <2>1. Restored(work[c], Req(c)) \in Int \cup {NoValue}
    <3>1. Req(c).qty \in Int
      BY <1>1 DEF Request
    <3> QED
      BY <1>1, <3>1 DEF Restored
  <2>2. Calm
    BY <1>1, <1>2, <1>5, <2>1 DEF Calm
  <2> QED
    BY <1>5, <2>2, QuietEnd
<1> QED
  BY <1>3, <1>4, <1>5 DEF WriteMove

-----------------------------------------------------------------------------
(* Counts and requests before their writes *)

\* calculateAndSaveVariance: the session it goes on with exists.
LEMMA LoadSessionKeeps ==
  ASSUME StockInv, NEW c \in Client, work[c].pc # "idle", LoadSession(c)
  PROVE  StockInv'
<1>1. work[c] \in Work /\ Calm
  BY Acting DEF LoadSession, Calm, Still
<1>2. CASE Done(c)
  BY <1>1, <1>2, QuietEnd
<1>3. CASE Req(c).ref \in DOMAIN sessions /\ Go(c, work[c])
  <2>1. Leads(Req(c).kind, work[c].pc, "look") /\ "look" \in Pc /\ Req(c).kind = "count"
    BY DEF LoadSession, At, Leads, Pc
  <2>2. work'[c].pc = "look" /\ Req(c)' = Req(c) => Knows(c)'
    <3>1. SUFFICES ASSUME work'[c].pc = "look", Req(c)' = Req(c) PROVE KnowsCount(c)'
      BY <2>1, Family
    <3>2. sessions' = sessions
      BY DEF LoadSession
    <3> QED
      BY <1>3, <3>1, <3>2 DEF KnowsCount, At
  <2> QED
    BY <1>1, <1>3, <2>1, <2>2, QuietGo
<1> QED
  BY <1>2, <1>3 DEF LoadSession

\* netMovementBetween is a number, and splits what moved since.
LEMMA NetSplits ==
  ASSUME Typed, NEW i, NEW s \in Nat, NEW t \in Int, NEW n \in Int
  PROVE  /\ NetBetween(i, s, t, n) \in Int /\ MovedSince(i, s) \in Int
         /\ t \in Nat /\ s <= t =>
              /\ MovedSince(i, t) \in Int
              /\ MovedSince(i, s) = NetBetween(i, s, t, Len(moves)) + MovedSince(i, t)
<1> DEFINE f == [m \in DOMAIN moves |-> moves[m].qty]
           S == {m \in MovesOf(i) : s < moves[m].at}
           T == {m \in MovesOf(i) : t < moves[m].at}
           B(k) == {m \in MovesOf(i) : m <= k /\ s < moves[m].at /\ moves[m].at <= t}
<1>1. /\ moves \in Seq(MoveRow) /\ DOMAIN moves = 1 .. Len(moves) /\ Len(moves) \in Nat
      /\ \A m \in DOMAIN moves : moves[m] \in MoveRow
  BY DEF Typed
<1>2. \A m \in DOMAIN moves : f[m] \in Int /\ moves[m].at \in Nat
  BY <1>1 DEF MoveRow
<1>3. IsFiniteSet(DOMAIN moves)
  BY <1>1, FS_Interval
<1>4. /\ S \subseteq DOMAIN moves /\ T \subseteq DOMAIN moves
      /\ \A k : B(k) \subseteq DOMAIN moves
  BY DEF MovesOf
<1>5. /\ NetBetween(i, s, t, n) = SumFunctionOnSet(f, B(n))
      /\ NetBetween(i, s, t, Len(moves)) = SumFunctionOnSet(f, B(Len(moves)))
      /\ MovedSince(i, s) = SumFunctionOnSet(f, S) /\ MovedSince(i, t) = SumFunctionOnSet(f, T)
  BY DEF NetBetween, MovedSince, Added
<1>6. t \in Nat /\ s <= t => B(Len(moves)) \cup T = S /\ B(Len(moves)) \cap T = {}
  <2>1. \A m \in MovesOf(i) : m <= Len(moves)
    BY <1>1 DEF MovesOf
  <2>2. \A m \in MovesOf(i) : moves[m].at \in Nat
    BY <1>2 DEF MovesOf
  <2> QED
    BY <2>1, <2>2
<1> HIDE DEF f, S, T, B
<1>7. \A R \in SUBSET DOMAIN moves : IsFiniteSet(R) /\ SumFunctionOnSet(f, R) \in Int
  <2>1. \A R \in SUBSET DOMAIN moves : IsFiniteSet(R)
    BY <1>3, FS_Subset
  <2> QED
    BY <1>2, <2>1, SumInt
<1>8. t \in Nat /\ s <= t =>
        SumFunctionOnSet(f, S) = SumFunctionOnSet(f, B(Len(moves))) + SumFunctionOnSet(f, T)
  <2>1. SUFFICES ASSUME t \in Nat, s <= t
                 PROVE  SumFunctionOnSet(f, S) = SumFunctionOnSet(f, B(Len(moves))) + SumFunctionOnSet(f, T)
    OBVIOUS
  <2>2. \A x \in B(Len(moves)) \cup T : f[x] \in Int
    BY <1>2, <1>4
  <2>3. SumFunctionOnSet(f, B(Len(moves)) \cup T)
          = SumFunctionOnSet(f, B(Len(moves))) + SumFunctionOnSet(f, T)
    BY <1>4, <1>6, <1>7, <2>1, <2>2, SumDisjoint
  <2> QED
    BY <1>6, <2>1, <2>3
<1> QED
  BY <1>4, <1>5, <1>7, <1>8

\* What moved in a window behind the n-th movement of the ledger.
NetAfter(i, s, t, n) == Added({m \in MovesOf(i) : m > n /\ s < moves[m].at /\ moves[m].at <= t})

\* It also splits into the rows up to the n-th and the later ones.
LEMMA NetParts ==
  ASSUME Typed, NEW i, NEW s \in Nat, NEW t \in Int, NEW n \in Int
  PROVE  /\ NetAfter(i, s, t, n) \in Int
         /\ NetBetween(i, s, t, Len(moves)) = NetBetween(i, s, t, n) + NetAfter(i, s, t, n)
<1> DEFINE f == [m \in DOMAIN moves |-> moves[m].qty]
           B(k) == {m \in MovesOf(i) : m <= k /\ s < moves[m].at /\ moves[m].at <= t}
           L == {m \in MovesOf(i) : m > n /\ s < moves[m].at /\ moves[m].at <= t}
<1>1. /\ moves \in Seq(MoveRow) /\ DOMAIN moves = 1 .. Len(moves) /\ Len(moves) \in Nat
      /\ \A m \in DOMAIN moves : moves[m] \in MoveRow
  BY DEF Typed
<1>2. \A m \in DOMAIN moves : f[m] \in Int
  BY <1>1 DEF MoveRow
<1>3. IsFiniteSet(DOMAIN moves)
  BY <1>1, FS_Interval
<1>4. B(n) \subseteq DOMAIN moves /\ L \subseteq DOMAIN moves
  BY DEF MovesOf
<1>5. /\ NetBetween(i, s, t, n) = SumFunctionOnSet(f, B(n))
      /\ NetBetween(i, s, t, Len(moves)) = SumFunctionOnSet(f, B(Len(moves)))
      /\ Added(L) = SumFunctionOnSet(f, L)
  BY DEF NetBetween, Added
<1>6. B(n) \cup L = B(Len(moves)) /\ B(n) \cap L = {}
  <2>1. \A m \in MovesOf(i) : m <= Len(moves) /\ m \in Int
    BY <1>1 DEF MovesOf
  <2> QED
    BY <2>1
<1> HIDE DEF f, L, B
<1>7. \A R \in SUBSET DOMAIN moves : IsFiniteSet(R) /\ SumFunctionOnSet(f, R) \in Int
  <2>1. \A R \in SUBSET DOMAIN moves : IsFiniteSet(R)
    BY <1>3, FS_Subset
  <2> QED
    BY <1>2, <2>1, SumInt
<1>8. SumFunctionOnSet(f, B(n) \cup L) = SumFunctionOnSet(f, B(n)) + SumFunctionOnSet(f, L)
  <2>1. \A x \in B(n) \cup L : f[x] \in Int
    BY <1>2, <1>4
  <2> QED
    BY <1>4, <1>6, <1>7, <2>1, SumDisjoint
<1>9. Added(L) \in Int /\ NetBetween(i, s, t, Len(moves)) = NetBetween(i, s, t, n) + Added(L)
  BY <1>4, <1>5, <1>6, <1>7, <1>8
<1> QED
  BY <1>9 DEF L, NetAfter

\* The variance of a count is a number.
LEMMA VarianceTyped ==
  ASSUME Typed, NEW x \in SessionRow, x.counted # NoValue, NEW n \in Int
  PROVE  CountVariance(x, n) \in Int
<1>1. x.startedAt \in Nat /\ x.countedAt \in Nat /\ x.expected \in Int /\ x.counted \in Int
  BY DEF SessionRow
<1>2. NetBetween(x.item, x.startedAt, x.countedAt, n) \in Int
  <2>1. \A i : \A s \in Nat : \A t \in Int : NetBetween(i, s, t, n) \in Int
    BY NetSplits
  <2> QED
    BY <1>1, <2>1
<1> QED
  BY <1>1, <1>2 DEF CountVariance, ExpectedAt

\* The instant of a count is after the start of its session.
LEMMA LookAtShelfKeeps ==
  ASSUME StockInv, NEW c \in Client, work[c].pc # "idle", LookAtShelf(c)
  PROVE  StockInv'
<1> DEFINE s == Req(c).ref
           counted == [sessions[s] EXCEPT !.counted = Req(c).qty, !.countedAt = clock + 1]
           v == CountVariance(counted, Len(moves))
           now == clock + 1
           me == [work[c] EXCEPT !.at = now, !.seen = v]
<1>1. /\ work[c] \in Work /\ Req(c) \in Request /\ Typed /\ Tables /\ KnowsCount(c) /\ clock \in Nat
  BY Acting
<1>2. At(c, "count", "look") /\ clock' = clock + 1 /\ sessions' = sessions /\ Go(c, me)
  BY DEF LookAtShelf, Tick
<1>3. Calm
  BY Acting DEF LookAtShelf, Calm, Still, Tick
<1>4. s \in DOMAIN sessions
  BY <1>1, <1>2 DEF KnowsCount
<1>5. sessions[s] \in SessionRow /\ sessions[s].startedAt <= clock
  BY <1>1, <1>4 DEF Typed, Tables, SessionsInv
<1>6. v \in Int
  <2>1. Req(c).qty \in Int /\ NoValue \notin Int
    BY <1>1, StockAssumption DEF Request
  <2>2. counted \in SessionRow /\ counted.counted # NoValue
    <3>1. now \in Nat
      BY <1>1
    <3> DEFINE x == sessions[s]
    <3>2. counted = [x EXCEPT !.counted = Req(c).qty, !.countedAt = now] /\ x \in SessionRow
      BY <1>5
    <3> HIDE DEF x, now, counted
    <3> QED
      BY <2>1, <3>1, <3>2 DEF SessionRow
  <2>3. Len(moves) \in Int
    BY <1>1 DEF Typed
  <2> HIDE DEF counted
  <2> QED
    BY <1>1, <2>2, <2>3, VarianceTyped
<1>10. now \in Nat /\ now = clock + 1
  BY <1>1
<1> HIDE DEF v, now
<1>7. me \in Work /\ me.left = work[c].left /\ me.pc = work[c].pc /\ [me EXCEPT !.pc = "save"].at = now
  BY <1>1, <1>6, <1>10 DEF Work
<1> HIDE DEF me
<1>8. Leads(Req(c).kind, work[c].pc, "save") /\ "save" \in Pc /\ Req(c).kind = "count"
  BY <1>2 DEF At, Leads, Pc
<1>9. work'[c] = [me EXCEPT !.pc = "save"] /\ work'[c].pc = "save" /\ Req(c)' = Req(c) => Knows(c)'
  <2>1. SUFFICES ASSUME work'[c].at = clock + 1, work'[c].pc = "save", Req(c)' = Req(c)
                 PROVE  KnowsCount(c)'
    BY <1>7, <1>8, <1>10, Family
  <2>2. sessions[s].startedAt < clock + 1
    <3>1. sessions[s].startedAt \in Nat
      BY <1>5 DEF SessionRow
    <3> QED
      BY <1>1, <1>5, <3>1
  <2> QED
    BY <1>1, <1>2, <1>4, <2>1, <2>2 DEF KnowsCount, At
<1> QED
  BY <1>2, <1>3, <1>7, <1>8, <1>9, QuietGo

\* approveAdjustment: the request it goes on with exists, and its count was taken.
LEMMA ReadAskKeeps ==
  ASSUME StockInv, NEW c \in Client, work[c].pc # "idle", ReadAsk(c)
  PROVE  StockInv'
<1> DEFINE a == Req(c).ref
           n == Len(moves)
           me == [work[c] EXCEPT !.rows = n, !.shot = sessions]
<1>1. work[c] \in Work /\ Typed /\ Tables /\ Calm
  BY Acting DEF ReadAsk, Calm, Still
<1>2. CASE Done(c)
  BY <1>1, <1>2, QuietEnd
<1>3. CASE Pending(a) /\ Go(c, me)
  <2>1. n \in Int /\ sessions \in Seq(SessionRow) /\ Go(c, me)
    BY <1>1, <1>3 DEF Typed
  <2> HIDE DEF n
  <2>2. me \in Work /\ me.left = work[c].left /\ me.pc = work[c].pc /\ [me EXCEPT !.pc = "write"].shot = sessions
    BY <1>1, <2>1 DEF Work
  <2> HIDE DEF me
  <2>3. Leads(Req(c).kind, work[c].pc, "write") /\ "write" \in Pc /\ Req(c).kind = "approve"
    BY DEF ReadAsk, At, Leads, Pc
  <2>4. work'[c] = [me EXCEPT !.pc = "write"] /\ work'[c].pc = "write" /\ Req(c)' = Req(c) => Knows(c)'
    <3>1. SUFFICES ASSUME work'[c].shot = sessions, work'[c].pc = "write", Req(c)' = Req(c)
                   PROVE  KnowsAsk(c)'
      BY <2>2, <2>3, Family
    <3>2. asks' = asks /\ a \in DOMAIN asks
      BY <1>3 DEF ReadAsk, Pending
    <3>3. asks[a].session # 0 =>
            asks[a].session \in DOMAIN sessions /\ CountOf(sessions[asks[a].session], asks[a].session)
      BY <1>1, <3>2 DEF Tables, AsksInv, SessionsInv, CountOf
    <3>4. \A x, u : CountOf(x, u) => CountOf(x, u)'
      BY DEF ReadAsk, CountOf
    <3> QED
      BY <2>3, <3>1, <3>2, <3>3, <3>4 DEF KnowsAsk, At
  <2> QED
    BY <1>1, <2>1, <2>2, <2>3, <2>4, QuietGo
<1> QED
  BY <1>2, <1>3 DEF ReadAsk

\* A count that is posted now squares with the shelf but for the rows that are not seen.
LEMMA CountSquares ==
  ASSUME Tables, NEW s, NEW x \in SessionRow, NEW n \in Int, CountOf(x, s)
  PROVE  items[x.item].onHand + CountVariance(x, n) =
           x.counted + MovedSince(x.item, x.countedAt) + NetAfter(x.item, x.startedAt, x.countedAt, n)
<1> DEFINE i == x.item
           u == x.startedAt
           t == x.countedAt
           later == NetAfter(i, u, t, n)
<1>1. Typed /\ NoValue \notin Int
  BY StockAssumption DEF Tables
<1>2. u < t /\ x.counted # NoValue /\ items[i].onHand = x.expected + MovedSince(i, u)
  BY DEF Tables, SessionsInv, CountOf
<1>3. u \in Nat /\ t \in Nat /\ t \in Int /\ u <= t /\ x.expected \in Int /\ x.counted \in Int
  BY <1>1, <1>2 DEF SessionRow
<1>4. CountVariance(x, n) = x.counted - (x.expected + NetBetween(i, u, t, n))
  BY DEF CountVariance, ExpectedAt
<1>5. /\ NetBetween(i, u, t, n) \in Int /\ MovedSince(i, u) \in Int /\ MovedSince(i, t) \in Int
      /\ MovedSince(i, u) = NetBetween(i, u, t, Len(moves)) + MovedSince(i, t)
  <2> HIDE DEF u, t, i
  <2> QED
    BY <1>1, <1>3, NetSplits
<1>6. later \in Int /\ NetBetween(i, u, t, Len(moves)) = NetBetween(i, u, t, n) + later
  <2>1. \A j : \A a \in Nat : \A b \in Int :
          /\ NetAfter(j, a, b, n) \in Int
          /\ NetBetween(j, a, b, Len(moves)) = NetBetween(j, a, b, n) + NetAfter(j, a, b, n)
    BY <1>1, NetParts
  <2> HIDE DEF u, t, i
  <2> QED
    BY <1>3, <2>1
<1>7. items[i].onHand + CountVariance(x, n) = x.counted + MovedSince(i, t) + later
  <2> HIDE DEF u, t, i, later
  <2> QED
    BY <1>2, <1>3, <1>4, <1>5, <1>6
<1> QED
  BY <1>7

\* What is in a sequence of one at most.
LEMMA AtMostOne ==
  ASSUME NEW P, NEW x, NEW s, s = IF P THEN <<>> ELSE <<x>>, NEW n \in DOMAIN s
  PROVE  ~P /\ s[n] = x
<1>1. CASE P
  <2>1. s = <<>>
    BY <1>1
  <2>2. DOMAIN s = {}
    BY <2>1
  <2> QED
    BY <2>2
<1>2. CASE ~P
  <2>1. s = <<x>>
    BY <1>2
  <2>2. DOMAIN s = {1} /\ s[1] = x
    BY <2>1
  <2> QED
    BY <1>2, <2>2
<1> QED
  BY <1>1, <1>2

\* The claim under the lock: pending, stamped, enough, and its delta squares the count.
LEMMA WriteApprovalKeeps ==
  ASSUME StockInv, NEW c \in Client, work[c].pc # "idle", WriteApproval(c)
  PROVE  StockInv'
<1> DEFINE a == Req(c).ref
           delta == Recomputed(work[c], a)
           now == clock + 1
           shot == IF asks[a].session = 0 THEN <<>> ELSE <<CountSeen(work[c], a)>>
           me == [work[c] EXCEPT !.at = now, !.seen = delta, !.shot = shot]
<1>1. /\ work[c] \in Work /\ Typed /\ Tables /\ KnowsAsk(c) /\ clock \in Nat
      /\ cache \in Int \cup {NoValue} /\ faults \in 0 .. MaxFaults
  BY Acting
<1>2. /\ At(c, "approve", "write") /\ Still /\ faults' = faults /\ cache' = cache
      /\ \A o \in Client \ {c} : ~Writing(o)
  BY DEF WriteApproval, Unlocked, Still
<1>3. CASE Done(c) /\ clock' = clock
  <2>1. Calm
    BY <1>1, <1>2, <1>3 DEF Calm
  <2> QED
    BY <1>2, <1>3, <2>1, QuietEnd
<1>4. CASE /\ StillPending(a) /\ (delta = 0 \/ Enough(Adjusting(a, delta), clock + 1))
           /\ Tick /\ Go(c, me)
  <2>1. Calm /\ clock' = clock + 1 /\ now \in Nat
    BY <1>1, <1>2, <1>4 DEF Calm, Tick
  <2>2. a \in DOMAIN asks /\ asks[a] \in AskRow
    <3>1. a \in DOMAIN asks
      BY <1>1, <1>2 DEF KnowsAsk
    <3>2. asks \in Seq(AskRow)
      BY <1>1 DEF Typed
    <3> QED
      BY <3>1, <3>2
  <2>3. asks[a].session # 0 =>
          /\ asks[a].session \in DOMAIN sessions
          /\ sessions[asks[a].session].item = asks[a].item
          /\ sessions[asks[a].session].counted # NoValue
    BY <1>1, <2>2 DEF Tables, AsksInv
  <2> DEFINE x == CountSeen(work[c], a)
  <2>4. asks[a].session # 0 => x \in SessionRow /\ CountOf(x, asks[a].session) /\ x.counted # NoValue
    <3>1. SUFFICES ASSUME asks[a].session # 0 PROVE x \in SessionRow /\ CountOf(x, asks[a].session)
      BY DEF CountOf
    <3>2. CASE ServerDefault = "REPEATABLE READ"
      <4>1. x = work[c].shot[asks[a].session]
        BY <3>2 DEF CountSeen
      <4>2. /\ asks[a].session \in DOMAIN work[c].shot
            /\ CountOf(work[c].shot[asks[a].session], asks[a].session)
        BY <1>1, <1>2, <3>1, <3>2 DEF KnowsAsk
      <4>3. work[c].shot \in Seq(SessionRow)
        BY <1>1 DEF Work
      <4> QED
        BY <4>1, <4>2, <4>3
    <3>3. CASE ServerDefault # "REPEATABLE READ"
      <4>1. x = sessions[asks[a].session]
        BY <3>3 DEF CountSeen
      <4> QED
        BY <1>1, <2>3, <3>1, <4>1 DEF Typed, Tables, SessionsInv, CountOf
    <3> QED
      BY <3>2, <3>3
  <2>11. Visible(work[c]) \in Int
    <3>1. Len(moves) \in Int
      BY <1>1 DEF Typed
    <3>2. work[c].rows \in Int
      BY <1>1 DEF Work
    <3> QED
      BY <3>1, <3>2 DEF Visible
  <2>5. delta \in Int /\ shot \in Seq(SessionRow)
    <3>1. CASE asks[a].session = 0
      <4>1. delta = asks[a].delta /\ shot = <<>>
        BY <3>1 DEF Recomputed
      <4> QED
        BY <2>2, <4>1 DEF AskRow
    <3>2. CASE asks[a].session # 0
      <4>1. delta = CountVariance(x, Visible(work[c])) /\ shot = <<x>>
        BY <3>2 DEF Recomputed
      <4> HIDE DEF x
      <4> QED
        BY <1>1, <2>4, <2>11, <3>2, <4>1, VarianceTyped
    <3> QED
      BY <3>1, <3>2
  <2>6. \A n \in DOMAIN shot :
          /\ items[shot[n].item].onHand + delta =
               shot[n].counted + MovedSince(shot[n].item, shot[n].countedAt) + Unseen(work[c], shot[n])
          /\ shot[n].item = asks[a].item
    <3> SUFFICES ASSUME NEW n \in DOMAIN shot
                 PROVE  /\ items[shot[n].item].onHand + delta =
                             shot[n].counted + MovedSince(shot[n].item, shot[n].countedAt) + Unseen(work[c], shot[n])
                        /\ shot[n].item = asks[a].item
      OBVIOUS
    <3> HIDE DEF x
    <3>2. asks[a].session # 0 /\ shot[n] = x
      <4>1. shot = IF asks[a].session = 0 THEN <<>> ELSE <<x>>
        BY DEF x
      <4> DEFINE none == asks[a].session = 0
      <4> HIDE DEF shot, none
      <4>2. ~none /\ shot[n] = x
        BY <4>1, AtMostOne DEF none
      <4> QED
        BY <4>2 DEF none
    <3>3. delta = CountVariance(x, Visible(work[c]))
      BY <3>2 DEF Recomputed, x
    <3>4. x.item = asks[a].item
      BY <2>3, <2>4, <3>2 DEF CountOf
    <3>5. items[x.item].onHand + CountVariance(x, Visible(work[c])) =
            x.counted + MovedSince(x.item, x.countedAt) + Unseen(work[c], x)
      BY <1>1, <2>4, <2>11, <3>2, CountSquares DEF Unseen, NetAfter
    <3> QED
      BY <3>2, <3>3, <3>4, <3>5
  <2>7. Go(c, me) /\ now = clock + 1 /\ (delta = 0 \/ Enough(Adjusting(a, delta), now))
    BY <1>4
  <2> HIDE DEF delta, shot, now, x
  <2>8. /\ me \in Work /\ me.left = work[c].left /\ me.pc = work[c].pc
        /\ [me EXCEPT !.pc = "commit"].at = now /\ [me EXCEPT !.pc = "commit"].seen = delta
        /\ [me EXCEPT !.pc = "commit"].shot = shot /\ [me EXCEPT !.pc = "commit"].rows = work[c].rows
    BY <1>1, <2>1, <2>5 DEF Work
  <2> HIDE DEF me
  <2>9. Leads(Req(c).kind, work[c].pc, "commit") /\ "commit" \in Pc /\ Req(c).kind = "approve"
    BY <1>2 DEF At, Leads, Pc
  <2>10. work'[c] = [me EXCEPT !.pc = "commit"] /\ work'[c].pc = "commit" /\ Req(c)' = Req(c) => Knows(c)'
    <3>1. SUFFICES ASSUME work'[c].at = now, work'[c].seen = delta, work'[c].shot = shot,
                          work'[c].rows = work[c].rows, work'[c].pc = "commit", Req(c)' = Req(c)
                   PROVE  KnowsAsk(c)'
      BY <2>8, <2>9, Family
    <3>2. items' = items /\ product' = product /\ moves' = moves /\ asks' = asks
      BY <1>2 DEF Still, stock
    <3>3. Stamped(work[c].at)'
      <4>1. /\ clock + 1 <= clock'
            /\ \A m \in DOMAIN moves' : moves'[m].at < clock + 1
            /\ \A s \in DOMAIN sessions' : sessions'[s].startedAt < clock + 1
        BY <1>1, <1>2, <2>1, Stamps
      <4> QED
        BY <2>7, <3>1, <4>1 DEF Stamped
    <3>4. (work[c].seen # 0 => Enough(Adjusting(a, work[c].seen), work[c].at))'
      <4>1. Adjusting(a, work[c].seen)' = Adjusting(a, delta)
        BY <3>1, <3>2 DEF Adjusting
      <4>2. \A i : Net(Adjusting(a, work[c].seen), i)' = Net(Adjusting(a, delta), i)
        BY <4>1 DEF Net
      <4>3. Placed(Adjusting(a, work[c].seen), work[c].at)' = Placed(Adjusting(a, delta), now)
        BY <3>1, <3>2, <4>1 DEF Placed, Ensured
      <4>4. Enough(Adjusting(a, work[c].seen), work[c].at)' <=> Enough(Adjusting(a, delta), now)
        BY <4>2, <4>3 DEF Enough, Available
      <4> QED
        BY <2>7, <3>1, <4>4
    <3>5. \A i, t : MovedSince(i, t)' = MovedSince(i, t)
      BY <3>2 DEF MovedSince, Added, MovesOf
    <3>9. \A y : Unseen(work[c], y)' = Unseen(work[c], y)
      BY <3>1, <3>2 DEF Unseen, Visible, Added, MovesOf
    <3>6. Squares(c)' /\ \A n \in DOMAIN work'[c].shot : work'[c].shot[n].item = asks'[a].item
      BY <2>6, <3>1, <3>2, <3>5, <3>9 DEF Squares
    <3>7. a \in DOMAIN asks' /\ asks'[a].status = "PENDING_APPROVAL"
      BY <1>4, <2>2, <3>2 DEF StillPending
    <3>8. ~At(c, "approve", "write")'
      BY <3>1 DEF At
    <3> QED
      BY <3>1, <3>3, <3>4, <3>6, <3>7, <3>8 DEF KnowsAsk
  <2> QED
    BY <1>2, <2>1, <2>7, <2>8, <2>9, <2>10, QuietGo DEF At
<1> QED
  BY <1>3, <1>4 DEF WriteApproval

-----------------------------------------------------------------------------
(* The reconciliation before and after its repair *)

\* What the reconciliation reads are numbers.
LEMMA SumTyped ==
  ASSUME Tables
  PROVE  /\ items \in [Item -> ItemRow] /\ DeadZero(items) /\ OnHandSum(items) \in Int
         /\ product.stock \in Int /\ product.version \in Nat
<1>1. Typed /\ RowsInv
  BY DEF Tables
<1>2. items \in [Item -> ItemRow] /\ product.stock \in Int /\ product.version \in Nat
  BY <1>1 DEF Typed, ItemsTyped, ItemRow
<1>3. DeadZero(items)
  BY <1>1 DEF RowsInv, DeadZero
<1> QED
  BY <1>2, <1>3, TotalIsSum

\* The first read of the reconciliation.
LEMMA ReconProductKeeps ==
  ASSUME StockInv, NEW c \in Client, work[c].pc # "idle", ReconProduct(c)
  PROVE  StockInv'
<1> DEFINE q == product.stock
           v == product.version
           me == [work[c] EXCEPT !.seen = q, !.version = v]
<1>1. work[c] \in Work /\ Calm /\ q \in Int /\ v \in Nat /\ Go(c, me)
  BY Acting, SumTyped DEF ReconProduct, Calm, Still
<1> HIDE DEF q, v
<1>2. me \in Work /\ me.left = work[c].left /\ me.pc = work[c].pc /\ [me EXCEPT !.pc = "sums"].version = v
  BY <1>1 DEF Work
<1> HIDE DEF me
<1>3. Leads(Req(c).kind, work[c].pc, "sums") /\ "sums" \in Pc /\ Req(c).kind = "recon"
  BY DEF ReconProduct, At, Leads, Pc
<1>4. work'[c] = [me EXCEPT !.pc = "sums"] /\ work'[c].pc = "sums" /\ Req(c)' = Req(c) => Knows(c)'
  <2>1. SUFFICES ASSUME work'[c].version = v, work'[c].pc = "sums", Req(c)' = Req(c)
                 PROVE  KnowsDrift(c)'
    BY <1>2, <1>3, Family
  <2>2. product' = product /\ v <= product.version
    BY <1>1 DEF ReconProduct, stock, v
  <2> QED
    BY <2>1, <2>2 DEF KnowsDrift, At
<1> QED
  BY <1>1, <1>2, <1>3, <1>4, QuietGo

\* Its second read: at an unmoved version, the sum is the sum of the rows.
LEMMA ReconSumsKeeps ==
  ASSUME StockInv, NEW c \in Client, work[c].pc # "idle", ReconSums(c)
  PROVE  StockInv'
<1> DEFINE sum == OnHandSum(items)
           me == [work[c] EXCEPT !.rows = sum]
           over == [work[c] EXCEPT !.pc = "redis"]
<1>1. /\ work[c] \in Work /\ work[c].left # <<>> /\ work \in [Client -> Work] /\ KnowsDrift(c)
      /\ Calm /\ sum \in Int /\ product.version \in Nat
  BY Acting, SumTyped DEF ReconSums, Calm, Still
<1>2. At(c, "recon", "sums") /\ items' = items /\ product' = product
  BY DEF ReconSums, stock
<1>3. CASE LiveItems(items) # {} /\ Go(c, me)
  <2> HIDE DEF sum
  <2>1. /\ me \in Work /\ me.left = work[c].left /\ me.pc = work[c].pc
        /\ [me EXCEPT !.pc = "repair"].rows = sum /\ [me EXCEPT !.pc = "repair"].version = work[c].version
    BY <1>1 DEF Work
  <2> HIDE DEF me
  <2>2. Leads(Req(c).kind, work[c].pc, "repair") /\ "repair" \in Pc /\ Req(c).kind = "recon"
    BY <1>2 DEF At, Leads, Pc
  <2>3. work'[c] = [me EXCEPT !.pc = "repair"] /\ work'[c].pc = "repair" /\ Req(c)' = Req(c) => Knows(c)'
    <3>1. SUFFICES ASSUME work'[c].rows = sum, work'[c].version = work[c].version,
                          work'[c].pc = "repair", Req(c)' = Req(c)
                   PROVE  KnowsDrift(c)'
      BY <2>1, <2>2, Family
    <3>2. work[c].version <= product.version
      BY <1>1, <1>2 DEF KnowsDrift
    <3>3. LiveItems(items') # {} /\ OnHandSum(items') = sum
      BY <1>2, <1>3 DEF sum
    <3> QED
      BY <1>2, <3>1, <3>2, <3>3 DEF KnowsDrift, At
  <2> QED
    BY <1>1, <1>3, <2>1, <2>2, <2>3, QuietGo
<1>4. CASE Becomes(c, over)
  <2>1. over \in Work /\ over.left = work[c].left /\ over.pc = "redis"
    BY <1>1 DEF Work, Pc
  <2>2. work' = [work EXCEPT ![c] = over]
    BY <1>4 DEF Becomes
  <2> HIDE DEF over
  <2>3. work' \in [Client -> Work] /\ work'[c] = over /\ \A o \in Client \ {c} : work'[o] = work[o]
    BY <1>1, <2>1, <2>2
  <2>4. Req(c)' = Req(c)
    BY <2>1, <2>3 DEF Req
  <2>5. Steady(c)'
    <3>1. Leads(Req(c).kind, "repair", "redis")
      BY <1>2 DEF Leads, At
    <3>2. \E n \in DOMAIN Path(Req(c).kind) : Path(Req(c).kind)[n] = "redis"
      BY <3>1, PathSteps
    <3> QED
      BY <1>1, <2>1, <2>3, <2>4, <3>2 DEF Steady
  <2>6. Knows(c)'
    <3>1. Carefree(Req(c)'.kind, work'[c].pc)
      BY <2>1, <2>3 DEF Carefree
    <3> QED
      BY <3>1, NoCare
  <2>7. ~Writing(c)'
    BY <2>1, <2>3 DEF Writing
  <2> QED
    BY <1>1, <2>3, <2>5, <2>6, <2>7, QuietStep
<1> QED
  BY <1>3, <1>4 DEF ReconSums

\* Its look at Redis.
LEMMA ReconRedisKeeps ==
  ASSUME StockInv, NEW c \in Client, work[c].pc # "idle", ReconRedis(c)
  PROVE  StockInv'
<1>1. work[c] \in Work /\ Calm
  BY Acting DEF ReconRedis, Calm, Still
<1>2. CASE Done(c)
  BY <1>1, <1>2, QuietEnd
<1>3. CASE Go(c, work[c])
  <2>1. Leads(Req(c).kind, work[c].pc, "set") /\ Carefree(Req(c).kind, "set") /\ "set" \in Pc
    BY DEF ReconRedis, At, Leads, Carefree, Pc
  <2> QED
    BY <1>1, <1>3, <2>1, QuietCarefree
<1> QED
  BY <1>2, <1>3 DEF ReconRedis

\* Its write to Redis.
LEMMA ReconSetKeeps ==
  ASSUME StockInv, NEW c \in Client, work[c].pc # "idle", ReconSet(c)
  PROVE  StockInv'
<1>1. work[c] \in Work /\ faults \in 0 .. MaxFaults
  BY Acting
<1>2. cache' \in Int
  BY <1>1 DEF ReconSet, Work
<1>3. Calm /\ Done(c)
  BY <1>1, <1>2 DEF ReconSet, Calm, Still
<1> QED
  BY <1>3, QuietEnd

-----------------------------------------------------------------------------
(* Faults *)

\* The number of faults stays within its bound.
LEMMA FaultTyped ==
  ASSUME Typed, Fault
  PROVE  faults' \in 0 .. MaxFaults
<1>1. faults \in 0 .. MaxFaults /\ MaxFaults \in Nat
  BY ScriptsAssumption DEF Typed
<1> QED
  BY <1>1 DEF Fault

\* A rolled-back transaction starts again and lets the lock go.
LEMMA RetryKeeps ==
  ASSUME StockInv, NEW c \in Client, work[c].pc # "idle", Retry(c)
  PROVE  StockInv'
<1> DEFINE me == [work[c] EXCEPT !.pc = "write"]
<1>1. /\ work[c] \in Work /\ work[c].left # <<>> /\ work \in [Client -> Work] /\ faults' \in 0 .. MaxFaults
      /\ clock \in Nat /\ cache \in Int \cup {NoValue} /\ Req(c).kind \in Retried
  BY Acting, FaultTyped DEF Retry
<1>2. Calm
  BY <1>1 DEF Retry, Calm, Still
<1>3. me \in Work /\ me.left = work[c].left /\ me.pc = "write" /\ work' = [work EXCEPT ![c] = me]
  BY <1>1 DEF Work, Pc, Retry, Becomes
<1> HIDE DEF me
<1>4. work' \in [Client -> Work] /\ work'[c] = me /\ \A o \in Client \ {c} : work'[o] = work[o]
  BY <1>1, <1>3
<1>5. Req(c)' = Req(c)
  BY <1>3, <1>4 DEF Req
<1>6. Steady(c)'
  <2>1. Leads(Req(c).kind, "write", "commit")
    BY <1>1 DEF Leads, Retried
  <2>2. \E n \in DOMAIN Path(Req(c).kind) : Path(Req(c).kind)[n] = "write"
    BY <2>1, PathSteps
  <2> QED
    BY <1>1, <1>3, <1>4, <1>5, <2>2 DEF Steady
<1>7. Knows(c)'
  <2>1. Carefree(Req(c)'.kind, work'[c].pc)
    BY <1>1, <1>3, <1>4, <1>5 DEF Carefree, Retried
  <2> QED
    BY <2>1, NoCare
<1>8. ~Writing(c)'
  BY <1>3, <1>4 DEF Writing
<1> QED
  BY <1>2, <1>4, <1>6, <1>7, <1>8, QuietStep

\* A request ends where it is: nothing of its transaction stays.
LEMMA FailKeeps ==
  ASSUME StockInv, NEW c \in Client, work[c].pc # "idle", Fail(c)
  PROVE  StockInv'
<1>1. /\ work[c] \in Work /\ Req(c) \in Request /\ faults' \in 0 .. MaxFaults
      /\ clock \in Nat /\ cache \in Int \cup {NoValue}
  BY Acting, FaultTyped DEF Fail
<1>2. Restored(work[c], Req(c)) \in Int \cup {NoValue}
  <2>1. Req(c).qty \in Int
    BY <1>1 DEF Request
  <2> QED
    BY <1>1, <2>1 DEF Restored
<1>3. Calm
  BY <1>1, <1>2 DEF Fail, Calm, Still
<1>4. CASE Done(c)
  BY <1>3, <1>4, QuietEnd
<1>5. CASE At(c, "sweep", "commit") /\ Passed(c, work[c].seen)
  <2>1. work[c].pc \in {"write", "commit"} /\ Req(c).kind \in Releasing
    BY <1>5 DEF At, Releasing
  <2> QED
    BY <1>3, <1>5, <2>1, QuietPass
<1> QED
  BY <1>4, <1>5 DEF Fail

\* A deadlock victim is rolled back.
LEMMA VictimKeeps ==
  ASSUME StockInv, NEW c \in Client, work[c].pc # "idle", Victim(c)
  PROVE  StockInv'
<1>1. Calm
  BY Acting DEF Victim, Calm, Still
<1>2. CASE Done(c)
  BY <1>1, <1>2, QuietEnd
<1>3. CASE Req(c).kind = "sweep" /\ \E h \in work[c].todo : Passed(c, h)
  <2>1. work[c].pc \in {"write", "commit"} /\ Req(c).kind \in Releasing
    BY <1>3 DEF Victim, Releasing
  <2> QED
    BY <1>1, <1>3, <2>1, QuietPass
<1> QED
  BY <1>2, <1>3 DEF Victim

\* Nobody moves.
LEMMA Unmoving ==
  ASSUME StockInv, Tables', work' = work, \A o \in Client : Grows(o)
  PROVE  StockInv'
<1>1. \A o \in Client : Steady(o)' /\ Knows(o)'
  BY Frame DEF StockInv, Tables
<1>2. OneWriter'
  BY DEF StockInv, OneWriter, Writing
<1> QED
  BY <1>1, <1>2 DEF StockInv

\* A lost key of Redis.
LEMMA KeyExpiresKeeps ==
  ASSUME StockInv, KeyExpires
  PROVE  StockInv'
<1>1. Tables /\ Typed /\ clock \in Nat /\ work \in [Client -> Work]
  BY DEF StockInv, Tables, Typed
<1>2. Still /\ clock' = clock /\ work' = work /\ cache' \in Int \cup {NoValue} /\ faults' \in 0 .. MaxFaults
  BY <1>1, FaultTyped DEF KeyExpires, Still
<1>3. Tables' /\ \A o \in Client : Grows(o)
  BY <1>1, <1>2, Quiet
<1> QED
  BY <1>2, <1>3, Unmoving

-----------------------------------------------------------------------------
(* Steps that move stock *)

\* What LedgerNow says, of the next state.
LEMMA LedgerThen ==
  ASSUME items' \in [Item -> ItemRow], moves' \in Seq(MoveRow), sessions' \in Seq(SessionRow),
         Ledger(moves', HandOf(items'), sessions')
  PROVE  /\ LedgerRebuilds' /\ MovedOncePerKey'
         /\ \A s \in DOMAIN sessions' :
              items'[sessions'[s].item].onHand =
                sessions'[s].expected + MovedSince(sessions[s].item, sessions[s].startedAt)'
<1>1. /\ \A S : QtySum(moves', S) = SumFunctionOnSet([m \in DOMAIN moves' |-> moves'[m].qty], S)
      /\ \A i : MovesOf(i)' = Of(moves', i)
      /\ \A i, t : MovedSince(i, t)' = Since(moves', i, t)
  BY DEF Added, QtySum, QtyOf, MovesOf, Of, MovedSince, Since
<1>2. MovedOncePerKey'
  BY <1>1 DEF MovedOncePerKey, OnceIn, OpeningMoves, ImportedOpening, Ledger
<1>3. \A i \in Item : HandOf(items')[i] = items'[i].onHand
  BY DEF HandOf
<1>4. LedgerRebuilds'
  BY <1>1, <1>3 DEF LedgerRebuilds, Book, Ledger, Added
<1>5. ASSUME NEW s \in DOMAIN sessions'
      PROVE  items'[sessions'[s].item].onHand =
               sessions'[s].expected + MovedSince(sessions[s].item, sessions[s].startedAt)'
  <2>1. sessions'[s].item \in Item
    <3>1. sessions'[s] \in SessionRow
      OBVIOUS
    <3> QED
      BY <3>1 DEF SessionRow
  <2>2. MovedSince(sessions[s].item, sessions[s].startedAt)'
          = Since(moves', sessions'[s].item, sessions'[s].startedAt)
    BY DEF Added, QtySum, QtyOf, MovesOf, Of, MovedSince, Since
  <2>3. HandOf(items')[sessions'[s].item]
          = sessions'[s].expected + Since(moves', sessions'[s].item, sessions'[s].startedAt)
    BY DEF Ledger, SessIn
  <2> QED
    BY <1>3, <2>1, <2>2, <2>3
<1> QED
  BY <1>2, <1>4, <1>5

\* The tables after a movement of which the ledger and the rows are right.
LEMMA Moved ==
  ASSUME Tables, UNCHANGED <<holds, sessions>>,
         items' \in [Item -> ItemRow], product' \in [stock : Int, version : Nat],
         Ledger(moves', HandOf(items'), sessions),
         \A m \in DOMAIN moves' : moves'[m].at <= clock',
         \A k \in Item : /\ items'[k].reserved = items[k].reserved /\ items'[k].reserved <= items'[k].onHand
                         /\ items[k].live => items'[k].live
                         /\ ~items'[k].live => items'[k].onHand = 0 /\ items'[k].reserved = 0,
         LiveItems(items') # {}, items'[SaleItem].live \/ product'.stock = OnHandSum(items'),
         clock' \in Nat, clock <= clock', cache' \in Int \cup {NoValue}, faults' \in 0 .. MaxFaults,
         work' \in [Client -> Work],
         asks' \in Seq(AskRow), DOMAIN asks' = DOMAIN asks,
         \A a \in DOMAIN asks : asks'[a].session = asks[a].session /\ asks'[a].item = asks[a].item,
         PostingsInv'
  PROVE  Tables'
<1>1. Typed /\ holds' = holds /\ sessions' = sessions /\ holds \in Seq(HoldRow) /\ sessions \in Seq(SessionRow)
      /\ clock \in Nat
  BY DEF Tables, Typed
<1>2. moves' \in Seq(MoveRow)
  BY DEF Ledger, Book
<1>3. Typed'
  BY <1>1, <1>2 DEF Typed, ItemsTyped, ItemRow
<1>4. /\ LedgerRebuilds' /\ MovedOncePerKey'
      /\ \A s \in DOMAIN sessions' :
           items'[sessions'[s].item].onHand =
             sessions'[s].expected + MovedSince(sessions[s].item, sessions[s].startedAt)'
  BY <1>1, <1>2, LedgerThen
<1>5. RowsInv'
  BY DEF RowsInv, Agrees
<1>6. HoldsBacked'
  <2>1. \A i \in Item : items[i].reserved =
          SumFunctionOnSet([h \in DOMAIN holds |-> holds[h].alloc[i]], {h \in DOMAIN holds : ActiveHold(h)})
    BY DEF Tables, HoldsBacked
  <2>2. {h \in DOMAIN holds : ActiveHold(h)}' = {h \in DOMAIN holds : ActiveHold(h)}
    BY <1>1 DEF ActiveHold
  <2> QED
    BY <1>1, <2>1, <2>2 DEF HoldsBacked
<1>7. MovesInv'
  BY <1>4 DEF MovesInv
<1>8. SessionsInv'
  <2>1. ASSUME NEW s \in DOMAIN sessions
        PROVE  /\ sessions[s].item \in Item /\ items[sessions[s].item].live /\ sessions[s].startedAt <= clock
               /\ sessions[s].counted # NoValue =>
                    sessions[s].startedAt < sessions[s].countedAt /\ sessions[s].countedAt <= clock
               /\ sessions[s].startedAt \in Nat /\ sessions[s].countedAt \in Nat
    <3>1. sessions[s] \in SessionRow
      BY <1>1
    <3> QED
      BY <3>1 DEF Tables, SessionsInv, SessionRow
  <2>2. \A s \in DOMAIN sessions : /\ items'[sessions[s].item].live /\ sessions[s].startedAt <= clock'
                                   /\ sessions[s].counted # NoValue => sessions[s].countedAt <= clock'
    BY <1>1, <2>1
  <2> QED
    BY <1>1, <1>4, <2>1, <2>2 DEF SessionsInv
<1>9. AsksInv'
  <2>1. \A a \in DOMAIN asks : asks[a].item \in Item
    <3>1. \A a \in DOMAIN asks : asks[a] \in AskRow
      BY <1>1 DEF Typed
    <3> QED
      BY <3>1 DEF AskRow
  <2> QED
    BY <1>1, <2>1 DEF Tables, AsksInv
<1> QED
  BY <1>3, <1>4, <1>5, <1>6, <1>7, <1>8, <1>9 DEF Tables

\* What the engine needs of the tables.
LEMMA Ready ==
  ASSUME Tables
  PROVE  /\ Typed /\ ItemsTyped /\ product \in [stock : Int, version : Nat] /\ DeadZero(items)
         /\ \A k \in Item : items[k].reserved <= items[k].onHand
         /\ Ledger(moves, OnHandNow, sessions)
         /\ \A m \in DOMAIN moves : moves[m] \in MoveRow /\ moves[m].at <= clock
         /\ sessions \in Seq(SessionRow) /\ clock \in Nat /\ SaleItem \in Item
         /\ LiveItems(items) = {} => product.stock >= 0
         /\ ~items[SaleItem].live => Right(items)
         /\ Agrees <=> Right(items)
<1>1. Typed /\ RowsInv /\ HoldsBacked /\ MovesInv /\ MovedOncePerKey /\ SessionsInv
  BY DEF Tables
<1>2. /\ ItemsTyped /\ product \in [stock : Int, version : Nat] /\ sessions \in Seq(SessionRow)
      /\ clock \in Nat /\ moves \in Seq(MoveRow) /\ SaleItem \in Item
  BY <1>1, StockAssumption DEF Typed
<1>3. Agrees <=> Right(items)
  BY DEF Agrees, Right
<1>4. /\ DeadZero(items) /\ (LiveItems(items) = {} => product.stock >= 0)
      /\ ~items[SaleItem].live => Right(items)
  BY <1>1, <1>3 DEF RowsInv, DeadZero
<1>5. \A k \in Item : items[k].reserved <= items[k].onHand
  BY <1>1 DEF HoldsBacked
<1>6. Ledger(moves, OnHandNow, sessions) /\ \A m \in DOMAIN moves : moves[m].at <= clock
  <2>1. \A s \in DOMAIN sessions :
          items[sessions[s].item].onHand =
            sessions[s].expected + MovedSince(sessions[s].item, sessions[s].startedAt)
    BY <1>1 DEF SessionsInv
  <2> QED
    BY <1>1, <2>1, LedgerNow
<1>7. \A m \in DOMAIN moves : moves[m] \in MoveRow
  BY <1>2
<1> QED
  BY <1>1, <1>2, <1>3, <1>4, <1>5, <1>6, <1>7

\* A new row opens; nothing else moves.
LEMMA EnsureRowKeeps ==
  ASSUME StockInv, NEW c \in Client, work[c].pc # "idle", EnsureRow(c)
  PROVE  StockInv' /\ (Agrees => Agrees')
<1> DEFINE now == clock + 1
           placed == Ensured(items, SaleItem, now)
<1>1. /\ Tables /\ work[c] \in Work /\ work[c].left # <<>> /\ work \in [Client -> Work]
      /\ cache \in Int \cup {NoValue} /\ faults \in 0 .. MaxFaults
  BY Acting
<1>2. /\ Typed /\ items \in [Item -> ItemRow] /\ product \in [stock : Int, version : Nat] /\ DeadZero(items)
      /\ \A k \in Item : items[k].reserved <= items[k].onHand
      /\ Ledger(moves, OnHandNow, sessions) /\ clock \in Nat /\ SaleItem \in Item
      /\ \A m \in DOMAIN moves : moves[m] \in MoveRow /\ moves[m].at <= clock
      /\ LiveItems(items) = {} => product.stock >= 0
      /\ ~items[SaleItem].live => Right(items)
      /\ Agrees <=> Right(items)
  BY <1>1, Ready DEF ItemsTyped, ItemRow
<1>3. /\ items' = placed /\ moves' = moves \o BootstrapRows(placed, now)
      /\ clock' = now /\ UNCHANGED <<product, holds, sessions, asks, cache, faults>>
      /\ Go(c, work[c]) /\ Req(c).kind = "import" /\ work[c].pc = "ensure"
      /\ \A o \in Client \ {c} : ~Writing(o)
  BY DEF EnsureRow, Tick, At, Unlocked
<1>4. now \in Nat /\ clock <= now
  BY <1>2
<1>5. Opened(items, placed) /\ placed[SaleItem].live
  BY <1>2, <1>4, EnsuredOpens
<1>6. \A m \in DOMAIN moves : moves[m].at <= now
  <2>1. \A m \in DOMAIN moves : moves[m].at \in Nat
    BY <1>2 DEF MoveRow
  <2> QED
    BY <1>2, <2>1
<1>7. \A s \in DOMAIN sessions : sessions[s].startedAt < now
  <2>1. \A s \in DOMAIN sessions : sessions[s].startedAt \in Nat /\ sessions[s].startedAt <= clock
    <3>1. \A s \in DOMAIN sessions : sessions[s] \in SessionRow
      BY <1>2 DEF Typed
    <3> QED
      BY <1>1, <3>1 DEF Tables, SessionsInv, SessionRow
  <2> QED
    BY <1>2, <2>1
<1> HIDE DEF now, placed
<1>8. Ledger(moves', HandOf(items'), sessions) /\ Booted(moves', now)
  BY <1>2, <1>3, <1>4, <1>5, <1>6, <1>7, BootLedger
<1>9. Leads(Req(c).kind, work[c].pc, "write") /\ "write" \in Pc
  BY <1>3 DEF Leads, Pc
<1>10. /\ work' \in [Client -> Work] /\ Req(c)' = Req(c) /\ work'[c].pc = "write"
       /\ \A o \in Client \ {c} : work'[o] = work[o]
       /\ Steady(c)'
  BY <1>1, <1>3, <1>9, GoesTyped
<1>11. /\ items' \in [Item -> ItemRow] /\ items'[SaleItem].live /\ LiveItems(items') # {}
       /\ \A k \in Item : /\ items'[k].reserved = items[k].reserved
                          /\ items[k].live => items'[k] = items[k]
                          /\ ~items'[k].live => items'[k].onHand = 0 /\ items'[k].reserved = 0
  BY <1>2, <1>3, <1>5 DEF Opened, DeadZero, LiveItems
<1>12. ASSUME NEW k \in Item PROVE items'[k].reserved <= items'[k].onHand
  <2>1. items[k].reserved \in Nat /\ items[k].onHand \in Int /\ items'[k].onHand \in Int
    BY <1>2, <1>11 DEF ItemRow
  <2>2. items'[k].onHand = items[k].onHand \/ (items[k].reserved = 0 /\ items'[k].onHand > 0)
    BY <1>2, <1>3, <1>5 DEF Opened, DeadZero
  <2> QED
    BY <1>2, <1>11, <2>1, <2>2
<1>13. PostingsInv'
  <2>1. \A m \in DOMAIN moves' : moves'[m].kind = "count" => m \in DOMAIN moves /\ moves'[m] = moves[m]
    BY <1>8 DEF Booted
  <2> QED
    BY <1>1, <1>3, <2>1 DEF Tables, PostingsInv
<1>14. Tables'
  <2>1. \A m \in DOMAIN moves' : moves'[m].at <= clock'
    BY <1>3, <1>8 DEF Booted
  <2>2. asks' \in Seq(AskRow) /\ asks' = asks /\ UNCHANGED <<holds, sessions>>
    BY <1>2, <1>3 DEF Typed
  <2> QED
    BY <1>1, <1>2, <1>3, <1>4, <1>8, <1>10, <1>11, <1>12, <1>13, <2>1, <2>2, Moved
<1>15. /\ Right(items) => Right(items')
       /\ LiveItems(items) # {} => OnHandSum(items') = OnHandSum(items)
  <2>1. Right(items) => Right(items')
    BY <1>2, <1>3, <1>5 DEF Opened
  <2>2. CASE ~items[SaleItem].live
    BY <1>2, <1>11, <2>1, <2>2 DEF Right
  <2>3. CASE items[SaleItem].live
    <3>1. items' = items
      BY <1>3, <2>3 DEF Ensured, placed
    <3> QED
      BY <2>1, <3>1
  <2> QED
    BY <2>1, <2>2, <2>3
<1>16. Agrees => Agrees'
  BY <1>2, <1>3, <1>15 DEF Agrees, Right
<1>17. \A o \in Client \ {c} : Grows(o)
  <2>1. product.version \in Nat /\ product'.version = product.version
    BY <1>2, <1>3
  <2> QED
    BY <1>3, <1>4, <1>11, <1>15, <2>1 DEF Grows
<1>18. Knows(c)'
  <2>1. KnowsMove(c)'
    BY <1>3, <1>10, <1>11 DEF KnowsMove
  <2> QED
    BY <1>3, <1>10, <2>1, Family DEF Moving
<1>19. ~Writing(c)'
  BY <1>10 DEF Writing
<1> QED
  BY <1>10, <1>14, <1>16, <1>17, <1>18, <1>19, Together

\* Whoever writes is alone.
LEMMA Alone ==
  ASSUME StockInv, NEW c \in Client, Writing(c)
  PROVE  \A o \in Client \ {c} : ~Writing(o)
BY DEF StockInv, OneWriter

\* The movements of a transaction that has the lock.
LEMMA Carried ==
  ASSUME Tables, NEW steps, IsSteps(steps), NEW kind \in Kind, NEW key \in Nat, NEW at \in Nat,
         Stamped(at), FreshMove(steps, kind, key), Enough(steps, at), Move(steps, kind, key, at)
  PROVE  /\ items' \in [Item -> ItemRow] /\ product' \in [stock : Int, version : Nat]
         /\ Written(steps, kind, key)
         /\ \A k \in Item : /\ items'[k].onHand = Placed(steps, at)[k].onHand + Net(steps, k)
                            /\ items'[k].reserved = items[k].reserved
                            /\ items'[k].reserved <= items'[k].onHand
                            /\ items[k].live => items'[k].live
                            /\ ~items'[k].live => items'[k].onHand = 0 /\ items'[k].reserved = 0
         /\ LiveItems(items') # {}
         /\ Right(items) => product'.stock = OnHandSum(items')
         /\ product'.version > product.version
<1>1. /\ Typed /\ ItemsTyped /\ product \in [stock : Int, version : Nat] /\ DeadZero(items)
      /\ \A k \in Item : items[k].reserved <= items[k].onHand
      /\ Ledger(moves, OnHandNow, sessions)
      /\ LiveItems(items) = {} => product.stock >= 0
  BY Ready
<1>2. /\ items' \in [Item -> ItemRow] /\ product' \in [stock : Int, version : Nat]
      /\ \A k \in Item : /\ items'[k].onHand = Placed(steps, at)[k].onHand + Net(steps, k)
                         /\ items'[k].reserved = items[k].reserved
                         /\ items'[k].reserved <= items'[k].onHand
                         /\ items[k].live => items'[k].live
                         /\ ~items'[k].live => items'[k].onHand = 0 /\ items'[k].reserved = 0
      /\ LiveItems(items') # {}
      /\ Right(items) /\ (LiveItems(items) = {} => product.stock >= 0) =>
           product'.stock = OnHandSum(items')
      /\ product'.version > product.version
  BY <1>1, MoveItems
<1>3. Written(steps, kind, key)
  <2>1. /\ items' \in [Item -> ItemRow]
        /\ \A k \in Item : items'[k].onHand = Placed(steps, at)[k].onHand + Net(steps, k)
    BY <1>2
  <2>2. Typed /\ DeadZero(items) /\ Ledger(moves, OnHandNow, sessions)
    BY <1>1
  <2> QED
    BY <2>1, <2>2, MoveRows
<1> QED
  BY <1>1, <1>2, <1>3, Zenon

\* A movement leaves the sale location's row, or an aggregate that is right.
LEMMA CarriedRight ==
  ASSUME Tables, \A k \in Item : items[k].live => items'[k].live,
         Right(items) => product'.stock = OnHandSum(items')
  PROVE  /\ items'[SaleItem].live \/ product'.stock = OnHandSum(items')
         /\ Agrees => Agrees'
BY Ready DEF Agrees

\* What a request asks of the engine is one movement, or two of different rows.
LEMMA StepsTyped ==
  ASSUME NEW r \in Asking, r.kind \in Moving
  PROVE  /\ IsSteps(Steps(r)) /\ (r.kind # "transfer" => Len(Steps(r)) = 1)
         /\ r.kind = "opening" => Steps(r)[1].item = r.item
         /\ r.kind = "import" => Steps(r)[1].item = SaleItem
<1>1. /\ r \in Request /\ r.item \in Item /\ r.to \in Item /\ r.qty \in Int /\ -r.qty \in Int
      /\ SaleItem \in Item /\ (r.kind = "transfer" => r.item # r.to)
  BY StockAssumption DEF Asking, Request, Allowed
<1>2. CASE r.kind = "sale"
  <2>1. Steps(r) = <<[item |-> SaleItem, qty |-> -r.qty]>>
    BY <1>2 DEF Steps
  <2> QED
    BY <1>1, <1>2, <2>1 DEF IsSteps
<1>3. CASE r.kind = "import"
  <2>1. Steps(r) = <<[item |-> SaleItem, qty |-> r.qty]>>
    BY <1>3 DEF Steps
  <2> QED
    BY <1>1, <1>3, <2>1 DEF IsSteps
<1>4. CASE r.kind = "transfer"
  <2>1. Steps(r) = <<[item |-> r.item, qty |-> -r.qty], [item |-> r.to, qty |-> r.qty]>>
    BY <1>4 DEF Steps
  <2> QED
    BY <1>1, <1>4, <2>1 DEF IsSteps
<1>5. CASE r.kind \in {"receipt", "adjust", "opening"}
  <2>1. Steps(r) = <<[item |-> r.item, qty |-> r.qty]>>
    BY <1>5 DEF Steps
  <2> QED
    BY <1>1, <1>5, <2>1 DEF IsSteps
<1> QED
  BY <1>2, <1>3, <1>4, <1>5 DEF Moving

\* The client goes on, with whatever it has written down.
LEMMA GoesOn ==
  ASSUME work \in [Client -> Work], NEW c \in Client, work[c].left # <<>>,
         NEW me \in Work, me.left = work[c].left, me.pc = work[c].pc, Go(c, me),
         NEW then \in Pc, Leads(Req(c).kind, work[c].pc, then)
  PROVE  /\ work' \in [Client -> Work] /\ Req(c)' = Req(c) /\ work'[c].pc = then
         /\ \A o \in Client \ {c} : work'[o] = work[o]
         /\ Steady(c)'
<1>1. Leads(Req(c).kind, me.pc, then)
  OBVIOUS
<1>2. /\ work' \in [Client -> Work] /\ work'[c] = [me EXCEPT !.pc = then]
      /\ Req(c)' = Req(c) /\ work'[c].pc = then
      /\ \A o \in Client \ {c} : work'[o] = work[o]
      /\ Steady(c)'
  BY <1>1, GoesTyped
<1> QED
  BY <1>2

\* The client goes on with what the movement left.
LEMMA GoesSeen ==
  ASSUME work \in [Client -> Work], NEW c \in Client, work[c].left # <<>>,
         NEW q \in Int, Go(c, [work[c] EXCEPT !.seen = q]),
         NEW then \in Pc, Leads(Req(c).kind, work[c].pc, then)
  PROVE  /\ work' \in [Client -> Work] /\ Req(c)' = Req(c) /\ work'[c].pc = then
         /\ \A o \in Client \ {c} : work'[o] = work[o]
         /\ Steady(c)'
<1> DEFINE me == [work[c] EXCEPT !.seen = q]
<1>1. work[c] \in Work /\ Go(c, me)
  OBVIOUS
<1>2. me \in Work /\ me.left = work[c].left /\ me.pc = work[c].pc
  BY <1>1 DEF Work
<1> HIDE DEF me
<1> QED
  BY <1>1, <1>2, GoesOn

\* The writes of mutateStock: the rows, the aggregate and the ledger move together.
LEMMA CommitMoveKeeps ==
  ASSUME StockInv, NEW c \in Client, work[c].pc # "idle", CommitMove(c)
  PROVE  StockInv' /\ (Agrees => Agrees')
<1> DEFINE r == Req(c)
           steps == Steps(r)
           at == work[c].at
<1>1. /\ Tables /\ Typed /\ work[c] \in Work /\ work[c].left # <<>> /\ work \in [Client -> Work]
      /\ cache \in Int \cup {NoValue} /\ faults \in 0 .. MaxFaults /\ clock \in Nat
      /\ r \in Asking /\ r \in Request /\ KnowsMove(c) /\ asks \in Seq(AskRow)
  BY Acting DEF Typed
<1>2. /\ r.kind \in Moving /\ work[c].pc = "commit" /\ Move(steps, r.kind, r.key, at)
      /\ UNCHANGED <<holds, sessions, asks, cache, clock, faults>>
  BY DEF CommitMove
<1>3. /\ Stamped(at) /\ Keyed(r) = {} /\ (r.kind = "opening" => items[r.item].live)
      /\ r.kind = "opening" => OpeningMoves(r.item) = {}
      /\ r.kind = "import" => MovesOf(SaleItem) = {} /\ items[SaleItem].live
      /\ Enough(steps, at)
  BY <1>1, <1>2 DEF KnowsMove
<1>4. at \in Nat /\ r.key \in Nat /\ r.kind \in Kind /\ r.qty \in Int
      /\ (r.key # 0 => r.kind \in {"adjust", "opening", "transfer"})
  BY <1>1 DEF Work, Asking, Request, Allowed
<1>5. /\ IsSteps(steps) /\ (r.kind # "transfer" => Len(steps) = 1)
      /\ r.kind = "opening" => steps[1].item = r.item
      /\ r.kind = "import" => steps[1].item = SaleItem
  BY <1>1, <1>2, StepsTyped
<1>6. FreshMove(steps, r.kind, r.key)
  <2>1. r.key # 0 => \A m \in DOMAIN moves : moves[m].key = r.key => moves[m].kind # r.kind
    BY <1>3, <1>4 DEF Keyed
  <2>2. r.key # 0 /\ Len(steps) = 2 => r.kind = "transfer"
    BY <1>5
  <2>3. r.kind = "opening" => \A m \in Of(moves, r.item) : moves[m].kind \notin {"opening", "import"}
    BY <1>3 DEF OpeningMoves, MovesOf, Of
  <2>4. r.kind = "import" => Of(moves, SaleItem) = {}
    BY <1>3 DEF MovesOf, Of
  <2> HIDE DEF steps, r
  <2> QED
    BY <1>3, <1>5, <2>1, <2>2, <2>3, <2>4 DEF FreshMove
<1>7. Writing(c) /\ \A o \in Client \ {c} : ~Writing(o)
  BY <1>2, Alone DEF Writing
<1> HIDE DEF steps, at
<1>8. /\ items' \in [Item -> ItemRow] /\ product' \in [stock : Int, version : Nat]
      /\ Ledger(moves', HandOf(items'), sessions)
      /\ \A k \in Item : /\ items'[k].reserved = items[k].reserved
                         /\ items'[k].reserved <= items'[k].onHand
                         /\ items[k].live => items'[k].live
                         /\ ~items'[k].live => items'[k].onHand = 0 /\ items'[k].reserved = 0
      /\ LiveItems(items') # {}
      /\ Right(items) => product'.stock = OnHandSum(items')
      /\ product'.version > product.version
      /\ \A m \in DOMAIN moves : m \in DOMAIN moves' /\ moves'[m] = moves[m]
      /\ \A m \in DOMAIN moves' : moves'[m].at <= clock
      /\ \A m \in DOMAIN moves' : m \in DOMAIN moves \/ moves'[m].kind \in {"bootstrap", r.kind}
  <2>1. /\ items' \in [Item -> ItemRow] /\ product' \in [stock : Int, version : Nat]
        /\ \A k \in Item : /\ items'[k].reserved = items[k].reserved
                           /\ items'[k].reserved <= items'[k].onHand
                           /\ items[k].live => items'[k].live
                           /\ ~items'[k].live => items'[k].onHand = 0 /\ items'[k].reserved = 0
        /\ LiveItems(items') # {}
        /\ Right(items) => product'.stock = OnHandSum(items')
        /\ product'.version > product.version
        /\ Written(steps, r.kind, r.key)
    BY <1>1, <1>2, <1>3, <1>4, <1>5, <1>6, Carried
  <2> QED
    BY <2>1 DEF Written
<1>9. items'[SaleItem].live \/ product'.stock = OnHandSum(items')
  BY <1>1, <1>8, CarriedRight
<1>10. Agrees => Agrees'
  BY <1>1, <1>8, CarriedRight
<1>11. /\ work' \in [Client -> Work] /\ \A o \in Client \ {c} : work'[o] = work[o]
       /\ Steady(c)' /\ Knows(c)'
  <2>1. CASE r.kind = "receipt"
    <3>1. Done(c)
      BY <2>1 DEF CommitMove
    <3> QED
      BY <1>1, <3>1, Ends
  <2>2. CASE r.kind # "receipt"
    <3>9. product'.stock \in Int /\ Go(c, [work[c] EXCEPT !.seen = product'.stock])
      BY <1>8, <2>2 DEF CommitMove
    <3>1. PICK q \in Int : Go(c, [work[c] EXCEPT !.seen = q])
      BY <3>9
    <3>2. Leads(r.kind, work[c].pc, "sync") /\ "sync" \in Pc
      BY <1>2, <2>2 DEF Leads, Moving, Pc
    <3>4. /\ work' \in [Client -> Work] /\ Req(c)' = Req(c) /\ work'[c].pc = "sync"
          /\ \A o \in Client \ {c} : work'[o] = work[o]
          /\ Steady(c)'
      BY <1>1, <3>1, <3>2, GoesSeen
    <3>5. SaleItem \in Item /\ (r.kind = "import" => items'[SaleItem].live)
      BY <1>3, <1>8, StockAssumption
    <3>6. KnowsMove(c)'
      BY <1>2, <3>4, <3>5 DEF KnowsMove
    <3>7. Knows(c)'
      BY <1>2, <3>4, <3>6, Family
    <3> QED
      BY <3>4, <3>7
  <2> QED
    BY <2>1, <2>2
<1>12. PostingsInv'
  <2>1. \A m \in DOMAIN moves' : moves'[m].kind = "count" => m \in DOMAIN moves /\ moves'[m] = moves[m]
    BY <1>2, <1>8 DEF Moving
  <2> QED
    BY <1>1, <1>2, <2>1 DEF Tables, PostingsInv
<1>13. Tables'
  <2>1. /\ UNCHANGED <<holds, sessions>> /\ asks' = asks /\ clock' = clock /\ cache' = cache /\ faults' = faults
        /\ clock <= clock'
    BY <1>1, <1>2
  <2> QED
    BY <1>1, <1>8, <1>9, <1>11, <1>12, <2>1, Moved
<1>14. \A o \in Client \ {c} : Grows(o)
  <2>1. product.version \in Nat /\ product'.version \in Nat /\ product.version < product'.version
    BY <1>1, <1>8 DEF Typed
  <2> QED
    BY <1>1, <1>2, <1>7, <1>8, <2>1 DEF Grows
<1> QED
  BY <1>7, <1>10, <1>11, <1>13, <1>14, Together
-----------------------------------------------------------------------------
(* The posting of an approved adjustment *)

\* The tables after a step that touches the counts or the requests, and no row.
LEMMA Noted ==
  ASSUME Tables, UNCHANGED <<stock, holds>>, sessions' \in Seq(SessionRow), asks' \in Seq(AskRow),
         clock' \in Nat, clock <= clock', cache' \in Int \cup {NoValue},
         faults' \in 0 .. MaxFaults, work' \in [Client -> Work],
         PostingsInv', SessionsInv', AsksInv'
  PROVE  Tables'
<1>1. /\ items' = items /\ product' = product /\ moves' = moves /\ holds' = holds
  BY DEF stock
<1>2. clock \in Nat /\ Typed
  BY DEF Tables, Typed
<1>3. Typed'
  BY <1>1, <1>2 DEF Typed, ItemsTyped
<1>4. RowsInv'
  BY <1>1 DEF Tables, RowsInv, Agrees
<1>5. LedgerRebuilds'
  BY <1>1 DEF Tables, MovesInv, LedgerRebuilds, Added, MovesOf
<1>6. MovesInv'
  <2>1. \A m \in DOMAIN moves : moves[m].at \in Nat
    <3>1. \A m \in DOMAIN moves : moves[m] \in MoveRow
      BY <1>2 DEF Typed
    <3> QED
      BY <3>1 DEF MoveRow
  <2>2. \A m \in DOMAIN moves : moves[m].at <= clock
    BY DEF Tables, MovesInv
  <2>3. \A m \in DOMAIN moves : moves[m].at <= clock'
    BY <1>2, <2>1, <2>2
  <2> QED
    BY <1>1, <1>5, <2>3 DEF MovesInv
<1>7. HoldsBacked'
  BY <1>1 DEF Tables, HoldsBacked, ActiveHold
<1>8. MovedOncePerKey'
  BY <1>1 DEF Tables, MovedOncePerKey, OpeningMoves, ImportedOpening, MovesOf
<1> QED
  BY <1>3, <1>4, <1>6, <1>7, <1>8 DEF Tables

\* The one movement of an approved request.
LEMMA Adjusts ==
  ASSUME asks \in Seq(AskRow), NEW a \in DOMAIN asks, NEW delta \in Int
  PROVE  /\ asks[a].item \in Item /\ IsSteps(Adjusting(a, delta)) /\ Len(Adjusting(a, delta)) = 1
         /\ \A k \in Item : Net(Adjusting(a, delta), k) = IF k = asks[a].item THEN delta ELSE 0
<1> DEFINE i == asks[a].item
           steps == Adjusting(a, delta)
<1>1. i \in Item
  <2>1. asks[a] \in AskRow
    OBVIOUS
  <2> QED
    BY <2>1 DEF AskRow
<1>2. steps = <<[item |-> i, qty |-> delta]>>
  BY DEF Adjusting
<1> HIDE DEF i, steps
<1>3. /\ DOMAIN steps = {1} /\ Len(steps) = 1
      /\ \A k \in Item : Net(steps, k) = IF k = i THEN delta ELSE 0
      /\ SumFunction([n \in DOMAIN steps |-> steps[n].qty]) = delta
  BY <1>1, <1>2, StepSums
<1>4. IsSteps(steps)
  BY <1>1, <1>2 DEF IsSteps
<1> QED
  BY <1>1, <1>3, <1>4 DEF i, steps

\* A table with one row changed.
LEMMA RowChanged ==
  ASSUME NEW T, NEW s \in Seq(T), NEW n \in DOMAIN s, NEW row \in T, NEW t, t = [s EXCEPT ![n] = row]
  PROVE  /\ t \in Seq(T) /\ DOMAIN t = DOMAIN s /\ Len(t) = Len(s) /\ t[n] = row
         /\ \A m \in DOMAIN s : m # n => t[m] = s[m]
<1>1. s \in [1 .. Len(s) -> T] /\ Len(s) \in Nat
  OBVIOUS
<1>2. t \in [1 .. Len(s) -> T] /\ t[n] = row /\ \A m \in DOMAIN s : m # n => t[m] = s[m]
  BY <1>1
<1>3. t \in Seq(T) /\ Len(t) = Len(s)
  BY <1>1, <1>2, OfLength
<1> QED
  BY <1>1, <1>2, <1>3

\* The row of a request that is posted.
LEMMA AskPosted ==
  ASSUME asks \in Seq(AskRow), NEW a \in DOMAIN asks, NEW delta \in Int,
         asks' = [asks EXCEPT ![a].status = "POSTED", ![a].delta = delta]
  PROVE  \E now \in AskRow : /\ asks' = [asks EXCEPT ![a] = now] /\ now.status = "POSTED"
                             /\ now.session = asks[a].session /\ now.item = asks[a].item
<1>1. asks[a] \in AskRow
  OBVIOUS
<1> DEFINE now == [asks[a] EXCEPT !.status = "POSTED", !.delta = delta]
<1>2. now \in AskRow /\ now.status = "POSTED" /\ now.session = asks[a].session /\ now.item = asks[a].item
  BY <1>1 DEF AskRow
<1>3. asks' = [asks EXCEPT ![a] = now]
  OBVIOUS
<1> HIDE DEF now
<1> QED
  BY <1>2, <1>3

\* A count that joins the ledger is row d, the posting of request a.
OnlyPosts(a, d) ==
  \A m \in DOMAIN moves' :
    \/ m \in DOMAIN moves /\ moves'[m] = moves[m]
    \/ moves'[m].kind # "count"
    \/ m = d /\ moves'[m].key = a

\* The requests stay what they are about.
AsksStand ==
  /\ asks' \in Seq(AskRow) /\ DOMAIN asks' = DOMAIN asks
  /\ \A b \in DOMAIN asks : asks'[b].session = asks[b].session /\ asks'[b].item = asks[b].item

\* The request of a posted count is the only one, and it was open.
LEMMA PostingsPosted ==
  ASSUME PostingsInv, asks \in Seq(AskRow), NEW a \in DOMAIN asks, asks[a].status = "PENDING_APPROVAL",
         NEW now \in AskRow, asks' = [asks EXCEPT ![a] = now], now.status = "POSTED",
         now.session = asks[a].session, now.item = asks[a].item,
         NEW d, OnlyPosts(a, d)
  PROVE  PostingsInv' /\ AsksStand
<1>4. /\ asks' \in Seq(AskRow) /\ DOMAIN asks' = DOMAIN asks /\ asks'[a] = now
      /\ \A b \in DOMAIN asks : b # a => asks'[b] = asks[b]
  BY RowChanged
<1>5. \A b \in DOMAIN asks : /\ asks'[b].session = asks[b].session /\ asks'[b].item = asks[b].item
                             /\ asks[b].status = "POSTED" => asks'[b].status = "POSTED"
  BY <1>4
<1>6. \A m \in DOMAIN moves : moves[m].kind = "count" =>
        moves[m].key \in DOMAIN asks /\ moves[m].key # a /\ asks[moves[m].key].status = "POSTED"
  BY DEF PostingsInv
<1>7. ASSUME NEW m \in DOMAIN moves', moves'[m].kind = "count"
      PROVE  moves'[m].key \in DOMAIN asks' /\ asks'[moves'[m].key].status = "POSTED"
  BY <1>4, <1>5, <1>6, <1>7 DEF OnlyPosts
<1>8. ASSUME NEW m \in DOMAIN moves', NEW n \in DOMAIN moves', moves'[m].kind = "count",
             moves'[n].kind = "count", moves'[m].key = moves'[n].key
      PROVE  m = n
  BY <1>6, <1>8 DEF PostingsInv, OnlyPosts
<1>9. \A x, y \in DOMAIN asks' : asks'[x].session # 0 /\ asks'[x].session = asks'[y].session => x = y
  BY <1>4, <1>5 DEF PostingsInv
<1> QED
  BY <1>4, <1>5, <1>7, <1>8, <1>9 DEF PostingsInv, AsksStand

\* What moved since t is what moved until now.
LEMMA SinceIsBetween ==
  ASSUME Typed, \A m \in DOMAIN moves : moves[m].at <= clock, NEW i, NEW t
  PROVE  NetBetween(i, t, clock, Len(moves)) = MovedSince(i, t)
<1>1. DOMAIN moves = 1 .. Len(moves) /\ Len(moves) \in Nat
  BY DEF Typed
<1>2. \A m \in MovesOf(i) : m <= Len(moves) /\ moves[m].at <= clock
  BY <1>1 DEF MovesOf
<1>3. {m \in MovesOf(i) : m <= Len(moves) /\ t < moves[m].at /\ moves[m].at <= clock}
        = {m \in MovesOf(i) : t < moves[m].at}
  BY <1>2
<1> QED
  BY <1>3 DEF NetBetween, MovedSince

\* The posting leaves the row at what was counted and what moved since.
Exact(c) ==
  work[c].shot # <<>> =>
    LET x == work[c].shot[1] IN
    items'[x.item].onHand =
      x.counted + NetBetween(x.item, x.countedAt, clock, Len(moves)) + Unseen(work[c], x)

\* A posting that squares the count leaves the shelf as counted and what moved since.
LEMMA PostsExactly ==
  ASSUME Tables, NEW c \in Client, work[c] \in Work, Squares(c),
         \A n \in DOMAIN work[c].shot : items'[work[c].shot[n].item].onHand =
                                          items[work[c].shot[n].item].onHand + work[c].seen
  PROVE  Exact(c)
<1> SUFFICES ASSUME work[c].shot # <<>>
             PROVE  LET x == work[c].shot[1] IN
                    items'[x.item].onHand =
                      x.counted + NetBetween(x.item, x.countedAt, clock, Len(moves)) + Unseen(work[c], x)
  BY DEF Exact
<1>1. 1 \in DOMAIN work[c].shot
  <2>1. work[c].shot \in Seq(SessionRow)
    BY DEF Work
  <2> QED
    BY <2>1
<1>2. Typed /\ \A m \in DOMAIN moves : moves[m].at <= clock
  BY DEF Tables, MovesInv
<1> DEFINE x == work[c].shot[1]
<1>3. items[x.item].onHand + work[c].seen =
        x.counted + MovedSince(x.item, x.countedAt) + Unseen(work[c], x)
  BY <1>1 DEF Squares
<1>4. items'[x.item].onHand = items[x.item].onHand + work[c].seen
  BY <1>1
<1>5. NetBetween(x.item, x.countedAt, clock, Len(moves)) = MovedSince(x.item, x.countedAt)
  BY <1>2, SinceIsBetween
<1> QED
  BY <1>3, <1>4, <1>5
\* The rows and the ledger after an approved adjustment of its item's row.
LEMMA Adjusted ==
  ASSUME Tables, NEW a \in DOMAIN asks, NEW delta \in Int, NEW at \in Nat, Stamped(at),
         Enough(Adjusting(a, delta), at), Move(Adjusting(a, delta), "count", a, at)
  PROVE  /\ items' \in [Item -> ItemRow] /\ product' \in [stock : Int, version : Nat]
         /\ Written(Adjusting(a, delta), "count", a) /\ Len(Adjusting(a, delta)) = 1
         /\ \A k \in Item : /\ items'[k].reserved = items[k].reserved
                            /\ items'[k].reserved <= items'[k].onHand
                            /\ items[k].live => items'[k].live
                            /\ ~items'[k].live => items'[k].onHand = 0 /\ items'[k].reserved = 0
         /\ LiveItems(items') # {}
         /\ Right(items) => product'.stock = OnHandSum(items')
         /\ product'.version > product.version
         /\ items'[asks[a].item].onHand = items[asks[a].item].onHand + delta
<1> DEFINE steps == Adjusting(a, delta)
<1>1. Typed /\ ItemsTyped /\ product \in [stock : Int, version : Nat] /\ DeadZero(items)
      /\ asks \in Seq(AskRow) /\ DOMAIN asks \subseteq Nat
  BY Ready DEF Typed
<1>2. /\ asks[a].item \in Item /\ IsSteps(steps) /\ Len(steps) = 1
      /\ \A k \in Item : Net(steps, k) = IF k = asks[a].item THEN delta ELSE 0
  BY <1>1, Adjusts
<1>3. FreshMove(steps, "count", a)
  BY DEF FreshMove
<1>4. items[asks[a].item].live
  BY DEF Tables, AsksInv
<1>5. "count" \in Kind /\ a \in Nat /\ Enough(steps, at) /\ Move(steps, "count", a, at)
  BY <1>1 DEF Kind
<1> HIDE DEF steps
<1>6. /\ items' \in [Item -> ItemRow] /\ product' \in [stock : Int, version : Nat]
      /\ Written(steps, "count", a)
      /\ \A k \in Item : /\ items'[k].onHand = Placed(steps, at)[k].onHand + Net(steps, k)
                         /\ items'[k].reserved = items[k].reserved
                         /\ items'[k].reserved <= items'[k].onHand
                         /\ items[k].live => items'[k].live
                         /\ ~items'[k].live => items'[k].onHand = 0 /\ items'[k].reserved = 0
      /\ LiveItems(items') # {}
      /\ Right(items) => product'.stock = OnHandSum(items')
      /\ product'.version > product.version
  BY <1>2, <1>3, <1>5, Carried
<1>7. Opened(items, Placed(steps, at))
  BY <1>1, <1>2, PlacedOpens
<1>8. Placed(steps, at)[asks[a].item] = items[asks[a].item]
  BY <1>2, <1>4, <1>7 DEF Opened
<1>9. items'[asks[a].item].onHand = items[asks[a].item].onHand + delta
  BY <1>2, <1>6, <1>8
<1> QED
  BY <1>2, <1>6, <1>9 DEF steps

\* The posting of an approved adjustment, and of what it posts.
LEMMA CommitApprovalKeeps ==
  ASSUME StockInv, NEW c \in Client, work[c].pc # "idle", CommitApproval(c)
  PROVE  /\ StockInv' /\ (Agrees => Agrees') /\ Writing(c)
         /\ Exact(c)
<1> DEFINE a == Req(c).ref
           delta == work[c].seen
           at == work[c].at
<1>1. /\ Tables /\ Typed /\ work[c] \in Work /\ work[c].left # <<>> /\ work \in [Client -> Work]
      /\ cache \in Int \cup {NoValue} /\ faults \in 0 .. MaxFaults /\ clock \in Nat
      /\ KnowsAsk(c) /\ asks \in Seq(AskRow) /\ PostingsInv
  BY Acting DEF Typed, Tables
<1>2. /\ At(c, "approve", "commit") /\ Done(c)
      /\ asks' = [asks EXCEPT ![a].status = "POSTED", ![a].delta = delta]
      /\ delta = 0 => UNCHANGED stock
      /\ delta # 0 => Move(Adjusting(a, delta), "count", a, at)
      /\ UNCHANGED <<holds, sessions, cache, clock, faults>>
  BY DEF CommitApproval
<1>3. /\ a \in DOMAIN asks /\ asks[a].status = "PENDING_APPROVAL" /\ Stamped(at)
      /\ delta # 0 => Enough(Adjusting(a, delta), at)
      /\ Squares(c) /\ \A n \in DOMAIN work[c].shot : work[c].shot[n].item = asks[a].item
  BY <1>1, <1>2 DEF KnowsAsk
<1>4. at \in Nat /\ delta \in Int
  BY <1>1 DEF Work
<1>5. Writing(c) /\ \A o \in Client \ {c} : ~Writing(o)
  BY <1>2, Alone DEF Writing, At
<1>6. /\ work' \in [Client -> Work] /\ \A o \in Client \ {c} : work'[o] = work[o]
      /\ ~Writing(c)' /\ Steady(c)' /\ Knows(c)'
  BY <1>1, <1>2, Ends
<1>7. /\ UNCHANGED <<holds, sessions>> /\ clock' \in Nat /\ clock <= clock'
      /\ cache' \in Int \cup {NoValue} /\ faults' \in 0 .. MaxFaults /\ clock' = clock
      /\ holds' = holds /\ sessions' = sessions
  BY <1>1, <1>2
<1>8. PICK now \in AskRow : /\ asks' = [asks EXCEPT ![a] = now] /\ now.status = "POSTED"
                            /\ now.session = asks[a].session /\ now.item = asks[a].item
  <2>1. asks' = [asks EXCEPT ![a].status = "POSTED", ![a].delta = delta]
    BY <1>2
  <2> HIDE DEF a, delta
  <2> QED
    BY <1>1, <1>3, <1>4, <2>1, AskPosted
<1> HIDE DEF a, delta, at
<1>9. CASE delta = 0
  <2>1. UNCHANGED stock /\ items' = items /\ product' = product /\ moves' = moves
    BY <1>2, <1>9 DEF stock
  <2>2. /\ PostingsInv' /\ asks' \in Seq(AskRow) /\ DOMAIN asks' = DOMAIN asks
        /\ \A b \in DOMAIN asks : asks'[b].session = asks[b].session /\ asks'[b].item = asks[b].item
    <3>1. OnlyPosts(a, 0)
      BY <2>1 DEF OnlyPosts
    <3>2. PostingsInv' /\ AsksStand
      BY <1>1, <1>3, <1>8, <3>1, PostingsPosted
    <3> QED
      BY <3>2 DEF AsksStand
  <2>3. SessionsInv'
    <3>1. \A i, t : MovedSince(i, t)' = MovedSince(i, t)
      BY <2>1 DEF MovedSince, Added, MovesOf
    <3> QED
      BY <1>1, <1>7, <2>1, <3>1 DEF Tables, SessionsInv
  <2>4. AsksInv'
    BY <1>1, <1>7, <2>1, <2>2 DEF Tables, AsksInv
  <2>5. Tables'
    <3>1. UNCHANGED <<stock, holds>> /\ sessions' \in Seq(SessionRow)
      BY <1>1, <1>7, <2>1 DEF Typed
    <3> QED
      BY <1>1, <1>6, <1>7, <2>2, <2>3, <2>4, <3>1, Noted
  <2>6. \A o \in Client \ {c} : Grows(o)
    <3>1. product.version \in Nat
      BY <1>1 DEF Typed
    <3> QED
      BY <1>5, <1>7, <2>1, <2>2, <3>1 DEF Grows
  <2>7. StockInv'
    BY <1>6, <2>5, <2>6, Together
  <2>8. Agrees => Agrees'
    BY <2>1 DEF Agrees
  <2>9. Exact(c)
    <3>2. asks[a].item \in Item /\ items[asks[a].item].onHand \in Int
      <4>1. asks[a].item \in Item
        BY <1>1, <1>3, Adjusts, <1>4
      <4> QED
        BY <1>1, <4>1 DEF Typed, ItemsTyped
    <3>3. \A n \in DOMAIN work[c].shot : items'[work[c].shot[n].item].onHand =
                                           items[work[c].shot[n].item].onHand + work[c].seen
      <4> TAKE n \in DOMAIN work[c].shot
      <4> DEFINE i == work[c].shot[n].item
      <4>1. i = asks[a].item /\ work[c].seen = 0 /\ items' = items
        BY <1>3, <1>9, <2>1 DEF delta
      <4> HIDE DEF i
      <4>2. items'[i].onHand = items[i].onHand + work[c].seen
        BY <3>2, <4>1
      <4> QED
        BY <4>2 DEF i
    <3> QED
      BY <1>1, <1>3, <3>3, PostsExactly
  <2> QED
    BY <1>5, <2>7, <2>8, <2>9
<1>10. CASE delta # 0
  <2>1. Enough(Adjusting(a, delta), at) /\ Move(Adjusting(a, delta), "count", a, at)
    BY <1>2, <1>3, <1>10
  <2> DEFINE steps == Adjusting(a, delta)
  <2>2. /\ items' \in [Item -> ItemRow] /\ product' \in [stock : Int, version : Nat]
        /\ Written(steps, "count", a) /\ Len(steps) = 1
        /\ \A k \in Item : /\ items'[k].reserved = items[k].reserved
                           /\ items'[k].reserved <= items'[k].onHand
                           /\ items[k].live => items'[k].live
                           /\ ~items'[k].live => items'[k].onHand = 0 /\ items'[k].reserved = 0
        /\ LiveItems(items') # {}
        /\ Right(items) => product'.stock = OnHandSum(items')
        /\ product'.version > product.version
        /\ items'[asks[a].item].onHand = items[asks[a].item].onHand + delta
    BY <1>1, <1>3, <1>4, <2>1, Adjusted
  <2> HIDE DEF steps
  <2>3. /\ Ledger(moves', HandOf(items'), sessions)
        /\ \A m \in DOMAIN moves : m \in DOMAIN moves' /\ moves'[m] = moves[m]
        /\ \A m \in DOMAIN moves' : moves'[m].at <= clock
        /\ \E d : \A m \in DOMAIN moves' : \/ m \in DOMAIN moves \/ moves'[m].kind = "bootstrap"
                                          \/ (m = d /\ moves'[m].key = a)
    BY <2>2 DEF Written
  <2>4. /\ PostingsInv' /\ asks' \in Seq(AskRow) /\ DOMAIN asks' = DOMAIN asks
        /\ \A b \in DOMAIN asks : asks'[b].session = asks[b].session /\ asks'[b].item = asks[b].item
    <3>1. PICK d : \A m \in DOMAIN moves' : \/ m \in DOMAIN moves \/ moves'[m].kind = "bootstrap"
                                            \/ (m = d /\ moves'[m].key = a)
      BY <2>3
    <3>2. OnlyPosts(a, d)
      BY <2>3, <3>1 DEF OnlyPosts
    <3>3. PostingsInv' /\ AsksStand
      BY <1>1, <1>3, <1>8, <3>2, PostingsPosted
    <3> QED
      BY <3>3 DEF AsksStand
  <2>5. /\ items'[SaleItem].live \/ product'.stock = OnHandSum(items')
        /\ Agrees => Agrees'
    BY <1>1, <2>2, CarriedRight
  <2>6. Tables'
    BY <1>1, <1>6, <1>7, <2>2, <2>3, <2>4, <2>5, Moved
  <2>7. \A o \in Client \ {c} : Grows(o)
    <3>1. product.version \in Nat /\ product'.version \in Nat /\ product.version < product'.version
      BY <1>1, <2>2 DEF Typed
    <3> QED
      BY <1>5, <1>7, <2>2, <2>4, <3>1 DEF Grows
  <2>8. StockInv'
    BY <1>6, <2>6, <2>7, Together
  <2>9. Exact(c)
    <3>2. \A n \in DOMAIN work[c].shot : items'[work[c].shot[n].item].onHand =
                                           items[work[c].shot[n].item].onHand + work[c].seen
      BY <1>3, <2>2 DEF delta
    <3> QED
      BY <1>1, <1>3, <3>2, PostsExactly
  <2> QED
    BY <1>5, <2>5, <2>8, <2>9
<1> QED
  BY <1>9, <1>10

-----------------------------------------------------------------------------
(* Reservations *)

\* What the open reservations of hs hold of an item.
HeldIn(hs, i) ==
  SumFunctionOnSet([h \in DOMAIN hs |-> hs[h].alloc[i]], {h \in DOMAIN hs : hs[h].status = "ALLOCATED"})

\* HoldsBacked, of this state and of the next.
LEMMA HeldNow ==
  /\ HoldsBacked <=> \A i \in Item : items[i].reserved = HeldIn(holds, i) /\ items[i].reserved <= items[i].onHand
  /\ HoldsBacked' <=> \A i \in Item : items'[i].reserved = HeldIn(holds', i) /\ items'[i].reserved <= items'[i].onHand
BY DEF HoldsBacked, HeldIn, ActiveHold

\* A reservation more holds what it allocates.
LEMMA HeldMore ==
  ASSUME NEW hs \in Seq(HoldRow), NEW hold \in HoldRow, hold.status = "ALLOCATED", NEW i \in Item
  PROVE  HeldIn(Append(hs, hold), i) = HeldIn(hs, i) + hold.alloc[i] /\ HeldIn(hs, i) \in Nat
<1> DEFINE after == Append(hs, hold)
           d == Len(hs) + 1
           f == [h \in DOMAIN hs |-> hs[h].alloc[i]]
           g == [h \in DOMAIN after |-> after[h].alloc[i]]
           S == {h \in DOMAIN hs : hs[h].status = "ALLOCATED"}
           T == {h \in DOMAIN after : after[h].status = "ALLOCATED"}
<1>1. /\ DOMAIN hs = 1 .. Len(hs) /\ DOMAIN after = 1 .. d /\ Len(hs) \in Nat
      /\ \A h \in DOMAIN hs : after[h] = hs[h] /\ hs[h] \in HoldRow
      /\ after[d] = hold
  BY Appended
<1> HIDE DEF after
<1>2. IsFiniteSet(S) /\ d \notin S /\ T = S \cup {d}
  <2>1. IsFiniteSet(DOMAIN hs)
    BY <1>1, FS_Interval
  <2>2. IsFiniteSet(S)
    BY <2>1, FS_Subset
  <2> QED
    BY <1>1, <2>2
<1>3. \A h \in S : f[h] \in Nat /\ g[h] = f[h]
  BY <1>1 DEF HoldRow
<1>4. g[d] = hold.alloc[i] /\ g[d] \in Nat
  BY <1>1 DEF HoldRow
<1> HIDE DEF f, g, S, T, d
<1>5. SumFunctionOnSet(f, S) \in Nat
  BY <1>2, <1>3, SumNat
<1>6. SumFunctionOnSet(g, S) = SumFunctionOnSet(f, S)
  BY <1>2, <1>3, SumAgree
<1>7. SumFunctionOnSet(g, S \cup {d}) = g[d] + SumFunctionOnSet(g, S)
  <2>1. \A x \in S \cup {d} : g[x] \in Int
    BY <1>3, <1>4
  <2> QED
    BY <1>2, <2>1, SumExtend
<1>8. HeldIn(hs, i) = SumFunctionOnSet(f, S) /\ HeldIn(after, i) = SumFunctionOnSet(g, T)
  BY DEF HeldIn, f, g, S, T
<1>9. HeldIn(after, i) = HeldIn(hs, i) + hold.alloc[i] /\ HeldIn(hs, i) \in Nat
  BY <1>2, <1>4, <1>5, <1>6, <1>7, <1>8
<1> QED
  BY <1>9 DEF after

\* A reservation that is closed held no more than what all of them hold, and gives it back.
LEMMA HeldLess ==
  ASSUME NEW hs \in Seq(HoldRow), NEW n \in DOMAIN hs, hs[n].status = "ALLOCATED",
         NEW row \in HoldRow, row.status # "ALLOCATED", NEW i \in Item
  PROVE  /\ HeldIn([hs EXCEPT ![n] = row], i) = HeldIn(hs, i) - hs[n].alloc[i]
         /\ HeldIn(hs, i) \in Nat /\ hs[n].alloc[i] \in Nat /\ hs[n].alloc[i] <= HeldIn(hs, i)
<1> DEFINE after == [hs EXCEPT ![n] = row]
           f == [h \in DOMAIN hs |-> hs[h].alloc[i]]
           g == [h \in DOMAIN after |-> after[h].alloc[i]]
           S == {h \in DOMAIN hs : hs[h].status = "ALLOCATED"}
           T == {h \in DOMAIN after : after[h].status = "ALLOCATED"}
<1>1. /\ DOMAIN hs = 1 .. Len(hs) /\ Len(hs) \in Nat /\ \A h \in DOMAIN hs : hs[h] \in HoldRow
      /\ DOMAIN after = DOMAIN hs /\ after[n] = row
      /\ \A h \in DOMAIN hs : h # n => after[h] = hs[h]
  OBVIOUS
<1> HIDE DEF after
<1>2. IsFiniteSet(S) /\ n \in S /\ T = S \ {n}
  <2>1. IsFiniteSet(DOMAIN hs)
    BY <1>1, FS_Interval
  <2>2. IsFiniteSet(S)
    BY <2>1, FS_Subset
  <2> QED
    BY <1>1, <2>2
<1>3. IsFiniteSet(S \ {n})
  BY <1>2, FS_Subset
<1>4. \A h \in S : f[h] \in Nat
  BY <1>1 DEF HoldRow
<1>5. \A h \in S \ {n} : g[h] = f[h]
  BY <1>1
<1>6. f[n] = hs[n].alloc[i]
  OBVIOUS
<1> HIDE DEF f, g, S, T
<1>7. SumFunctionOnSet(g, S \ {n}) = SumFunctionOnSet(f, S \ {n})
  BY <1>3, <1>5, SumAgree
<1>8. /\ SumFunctionOnSet(f, S) = f[n] + SumFunctionOnSet(f, S \ {n})
      /\ SumFunctionOnSet(f, S \ {n}) \in Nat /\ SumFunctionOnSet(f, S) \in Nat
  <2>1. SumFunctionOnSet(f, S \ {n}) \in Nat /\ SumFunctionOnSet(f, S) \in Nat
    BY <1>2, <1>3, <1>4, SumNat
  <2>2. \A x \in S : f[x] \in Int
    BY <1>4
  <2> QED
    BY <1>2, <2>1, <2>2, SumRemove
<1>9. HeldIn(hs, i) = SumFunctionOnSet(f, S) /\ HeldIn(after, i) = SumFunctionOnSet(g, T)
  BY DEF HeldIn, f, g, S, T
<1>10. f[n] \in Nat
  BY <1>2, <1>4
<1>11. /\ HeldIn(after, i) = HeldIn(hs, i) - hs[n].alloc[i]
       /\ HeldIn(hs, i) \in Nat /\ hs[n].alloc[i] \in Nat /\ hs[n].alloc[i] <= HeldIn(hs, i)
  BY <1>2, <1>6, <1>7, <1>8, <1>9, <1>10
<1> QED
  BY <1>11 DEF after

\* The tables after a step that reserves or frees.
LEMMA Reserved ==
  ASSUME Tables, UNCHANGED <<product, moves, sessions, asks, cache, clock>>, faults' \in 0 .. MaxFaults,
         items' \in [Item -> ItemRow],
         \A k \in Item : /\ items'[k].live = items[k].live /\ items'[k].onHand = items[k].onHand
                         /\ ~items'[k].live => items'[k].reserved = 0,
         holds' \in Seq(HoldRow), HoldsBacked', work' \in [Client -> Work]
  PROVE  Tables' /\ LiveItems(items') = LiveItems(items) /\ OnHandSum(items') = OnHandSum(items)
<1>1. /\ product' = product /\ moves' = moves /\ sessions' = sessions /\ asks' = asks
      /\ cache' = cache /\ clock' = clock /\ Typed /\ SaleItem \in Item
  BY StockAssumption DEF Tables
<1>2. LiveItems(items') = LiveItems(items)
  BY DEF LiveItems
<1>3. OnHandSum(items') = OnHandSum(items)
  <2>1. [i \in Item |-> items'[i].onHand] = [i \in Item |-> items[i].onHand]
    OBVIOUS
  <2> QED
    BY <1>2, <2>1 DEF OnHandSum
<1>4. Typed'
  BY <1>1 DEF Typed, ItemsTyped, ItemRow
<1>5. RowsInv'
  BY <1>1, <1>2, <1>3 DEF Tables, RowsInv, Agrees
<1>6. MovesInv'
  <2>1. \A i \in Item : items'[i].onHand = Added(MovesOf(i))'
    <3>1. \A i \in Item : Added(MovesOf(i))' = Added(MovesOf(i))
      BY <1>1 DEF Added, MovesOf
    <3> QED
      BY <3>1 DEF Tables, MovesInv, LedgerRebuilds
  <2>2. \A m \in DOMAIN moves' : moves'[m].balance = Added({n \in MovesOf(moves[m].item) : n <= m})'
    BY <1>1 DEF Tables, MovesInv, LedgerRebuilds, Added, MovesOf
  <2>3. /\ \A m, n \in DOMAIN moves' : m < n => moves'[m].at <= moves'[n].at
        /\ \A m \in DOMAIN moves' : moves'[m].at <= clock'
    BY <1>1 DEF Tables, MovesInv, LedgerRebuilds
  <2>4. LedgerRebuilds'
    BY <2>1, <2>2, <2>3 DEF LedgerRebuilds
  <2> QED
    BY <2>3, <2>4 DEF MovesInv
<1>7. MovedOncePerKey'
  BY <1>1 DEF Tables, MovedOncePerKey, OpeningMoves, ImportedOpening, MovesOf
<1>8. PostingsInv'
  BY <1>1 DEF Tables, PostingsInv
<1>9. SessionsInv'
  <2>1. \A s \in DOMAIN sessions : sessions[s].item \in Item
    <3>1. \A s \in DOMAIN sessions : sessions[s] \in SessionRow
      BY <1>1 DEF Typed
    <3> QED
      BY <3>1 DEF SessionRow
  <2>2. \A i, t : MovedSince(i, t)' = MovedSince(i, t)
    BY <1>1 DEF MovedSince, Added, MovesOf
  <2> QED
    BY <1>1, <2>1, <2>2 DEF Tables, SessionsInv
<1>10. AsksInv'
  <2>1. \A a \in DOMAIN asks : asks[a].item \in Item
    <3>1. \A a \in DOMAIN asks : asks[a] \in AskRow
      BY <1>1 DEF Typed
    <3> QED
      BY <3>1 DEF AskRow
  <2> QED
    BY <1>1, <2>1 DEF Tables, AsksInv
<1> QED
  BY <1>2, <1>3, <1>4, <1>5, <1>6, <1>7, <1>8, <1>9, <1>10 DEF Tables

\* A reservation takes what every row of it has to give.
LEMMA CommitReserveKeeps ==
  ASSUME StockInv, NEW c \in Client, work[c].pc # "idle", CommitReserve(c)
  PROVE  StockInv' /\ (Agrees => Agrees')
<1> DEFINE alloc == work[c].avail
           hold == [status |-> "ALLOCATED", alloc |-> alloc, due |-> FALSE]
<1>1. /\ Tables /\ Typed /\ work[c].left # <<>> /\ work \in [Client -> Work]
      /\ faults \in 0 .. MaxFaults /\ clock \in Nat /\ KnowsHold(c)
      /\ items \in [Item -> ItemRow] /\ holds \in Seq(HoldRow) /\ HoldsBacked /\ DeadZero(items)
      /\ product.version \in Nat
  BY Acting, Ready DEF Typed, ItemsTyped, ItemRow, Tables
<1>2. /\ At(c, "reserve", "commit") /\ Done(c)
      /\ items' = [i \in Item |-> [items[i] EXCEPT !.reserved = @ + alloc[i]]]
      /\ holds' = Append(holds, hold)
      /\ UNCHANGED <<product, moves, sessions, asks, cache, clock, faults>>
  BY DEF CommitReserve, Reserve
<1>3. /\ alloc \in [Item -> Nat]
      /\ \A i \in Item : alloc[i] > 0 => Available(items, i) >= alloc[i]
  BY <1>1, <1>2 DEF KnowsHold
<1>4. Writing(c) /\ \A o \in Client \ {c} : ~Writing(o)
  BY <1>2, Alone DEF Writing, At
<1>5. /\ work' \in [Client -> Work] /\ \A o \in Client \ {c} : work'[o] = work[o]
      /\ ~Writing(c)' /\ Steady(c)' /\ Knows(c)'
  BY <1>1, <1>2, Ends
<1> HIDE DEF alloc
<1>6. hold \in HoldRow /\ hold.status = "ALLOCATED" /\ hold.alloc = alloc
  BY <1>3 DEF HoldRow
<1> HIDE DEF hold
<1>7. ASSUME NEW i \in Item
      PROVE  /\ items'[i] \in ItemRow /\ items'[i].live = items[i].live /\ items'[i].onHand = items[i].onHand
             /\ items'[i].reserved = items[i].reserved + alloc[i]
             /\ items'[i].reserved <= items'[i].onHand
             /\ ~items'[i].live => items'[i].reserved = 0
  <2>1. items[i] \in ItemRow /\ alloc[i] \in Nat
    BY <1>1, <1>3
  <2>2. items'[i] = [items[i] EXCEPT !.reserved = @ + alloc[i]]
    BY <1>2
  <2>3. /\ items'[i] \in ItemRow /\ items'[i].live = items[i].live /\ items'[i].onHand = items[i].onHand
        /\ items'[i].reserved = items[i].reserved + alloc[i]
    BY <2>1, <2>2 DEF ItemRow
  <2>4. /\ items[i].onHand \in Int /\ items[i].reserved \in Nat /\ items[i].reserved <= items[i].onHand
        /\ ~items[i].live => items[i].onHand = 0 /\ items[i].reserved = 0
    BY <1>1, <2>1 DEF ItemRow, HoldsBacked, DeadZero
  <2>5. alloc[i] > 0 => items[i].onHand - items[i].reserved >= alloc[i]
    BY <1>3 DEF Available
  <2>6. items[i].reserved + alloc[i] <= items[i].onHand
    BY <2>1, <2>4, <2>5
  <2>7. ~items[i].live => items[i].reserved + alloc[i] = 0
    BY <2>1, <2>4, <2>5
  <2> QED
    BY <2>3, <2>6, <2>7
<1>8. HoldsBacked'
  <2>1. \A i \in Item : HeldIn(holds', i) = HeldIn(holds, i) + alloc[i]
    BY <1>1, <1>2, <1>6, HeldMore
  <2>2. \A i \in Item : items[i].reserved = HeldIn(holds, i)
    BY <1>1, HeldNow
  <2>3. \A i \in Item : items'[i].reserved = HeldIn(holds', i) /\ items'[i].reserved <= items'[i].onHand
    BY <1>7, <2>1, <2>2
  <2> QED
    BY <2>3, HeldNow
<1>9. items' \in [Item -> ItemRow]
  BY <1>2, <1>7
<1>10. holds' \in Seq(HoldRow) /\ DOMAIN holds \subseteq DOMAIN holds'
  BY <1>1, <1>2, <1>6, Appended
<1>11. Tables' /\ LiveItems(items') = LiveItems(items) /\ OnHandSum(items') = OnHandSum(items)
  BY <1>1, <1>2, <1>5, <1>7, <1>8, <1>9, <1>10, Reserved
<1>12. \A o \in Client \ {c} : Grows(o)
  <2>1. \A i \in Item : items[i].live => items'[i].live
    BY <1>7
  <2> QED
    BY <1>1, <1>2, <1>4, <1>10, <1>11, <2>1 DEF Grows
<1>13. StockInv'
  BY <1>5, <1>11, <1>12, Together
<1>14. Agrees => Agrees'
  BY <1>2, <1>11 DEF Agrees
<1> QED
  BY <1>13, <1>14

\* A release gives back what its reservation held, once.
LEMMA CommitReleaseKeeps ==
  ASSUME StockInv, NEW c \in Client, work[c].pc # "idle", CommitRelease(c)
  PROVE  StockInv' /\ (Agrees => Agrees')
<1> DEFINE h == work[c].seen
           status == IF Req(c).kind = "sweep" THEN "EXPIRED" ELSE "RELEASED"
           row == [holds[h] EXCEPT !.status = status]
<1>1. /\ Tables /\ Typed /\ work[c].left # <<>> /\ work \in [Client -> Work]
      /\ faults \in 0 .. MaxFaults /\ clock \in Nat /\ KnowsHold(c)
      /\ items \in [Item -> ItemRow] /\ holds \in Seq(HoldRow) /\ HoldsBacked /\ DeadZero(items)
      /\ product.version \in Nat
  BY Acting, Ready DEF Typed, ItemsTyped, ItemRow, Tables
<1>2. /\ Req(c).kind \in Releasing /\ work[c].pc = "commit" /\ Passed(c, h) /\ Free(h, status)
      /\ UNCHANGED <<product, moves, sessions, asks, cache, clock, faults>>
  BY DEF CommitRelease
<1>3. h \in work[c].todo /\ work[c].todo \subseteq DOMAIN holds /\ holds[h].status = "ALLOCATED"
  BY <1>1, <1>2 DEF KnowsHold, ActiveHold
<1>4. Writing(c) /\ \A o \in Client \ {c} : ~Writing(o)
  BY <1>2, Alone DEF Writing
<1>5. status \in {"RELEASED", "EXPIRED"}
  OBVIOUS
<1> HIDE DEF h, status
<1>6. holds[h] \in HoldRow /\ h \in DOMAIN holds
  BY <1>1, <1>3
<1>7. row \in HoldRow /\ row.status # "ALLOCATED"
  BY <1>5, <1>6 DEF HoldRow
<1>8. holds' = [holds EXCEPT ![h] = row]
  BY <1>2 DEF Free
<1> HIDE DEF row
<1>9. /\ holds' \in Seq(HoldRow) /\ DOMAIN holds' = DOMAIN holds
  BY <1>1, <1>6, <1>7, <1>8, RowChanged
<1>10. ASSUME NEW i \in Item
       PROVE  /\ HeldIn(holds', i) = HeldIn(holds, i) - holds[h].alloc[i]
              /\ HeldIn(holds, i) = items[i].reserved
              /\ holds[h].alloc[i] \in Nat /\ holds[h].alloc[i] <= items[i].reserved
  <2>1. /\ HeldIn([holds EXCEPT ![h] = row], i) = HeldIn(holds, i) - holds[h].alloc[i]
        /\ HeldIn(holds, i) \in Nat /\ holds[h].alloc[i] \in Nat /\ holds[h].alloc[i] <= HeldIn(holds, i)
    BY <1>1, <1>3, <1>6, <1>7, HeldLess
  <2>2. items[i].reserved = HeldIn(holds, i)
    BY <1>1, HeldNow
  <2> QED
    BY <1>8, <2>1, <2>2
<1>11. ASSUME NEW i \in Item
       PROVE  /\ items'[i] \in ItemRow /\ items'[i].live = items[i].live /\ items'[i].onHand = items[i].onHand
              /\ items'[i].reserved = items[i].reserved - holds[h].alloc[i]
              /\ items'[i].reserved <= items'[i].onHand
              /\ ~items'[i].live => items'[i].reserved = 0
  <2> DEFINE less == items[i].reserved - holds[h].alloc[i]
  <2>1. /\ items[i] \in ItemRow /\ items[i].reserved \in Nat /\ items[i].onHand \in Int
        /\ items[i].reserved <= items[i].onHand /\ (~items[i].live => items[i].reserved = 0)
    BY <1>1 DEF ItemRow, HoldsBacked, DeadZero
  <2>2. less \in Nat /\ less <= items[i].reserved /\ (IF less > 0 THEN less ELSE 0) = less
    BY <1>10, <2>1
  <2>3. items'[i] = [items[i] EXCEPT !.reserved = IF less > 0 THEN less ELSE 0]
    BY <1>2 DEF Free
  <2>4. items'[i] = [items[i] EXCEPT !.reserved = less]
    BY <2>2, <2>3
  <2> HIDE DEF less
  <2>5. /\ items'[i] \in ItemRow /\ items'[i].live = items[i].live /\ items'[i].onHand = items[i].onHand
        /\ items'[i].reserved = less
    BY <2>1, <2>2, <2>4 DEF ItemRow
  <2>6. less <= items[i].onHand /\ (items[i].reserved = 0 => less = 0)
    BY <2>1, <2>2
  <2> QED
    BY <2>1, <2>5, <2>6 DEF less
<1>12. HoldsBacked'
  <2>1. \A i \in Item : items'[i].reserved = HeldIn(holds', i) /\ items'[i].reserved <= items'[i].onHand
    BY <1>10, <1>11
  <2> QED
    BY <2>1, HeldNow
<1>13. items' \in [Item -> ItemRow]
  <2>1. items' = [i \in Item |-> items'[i]]
    BY <1>2 DEF Free
  <2> QED
    BY <1>11, <2>1
<1>14. /\ work' \in [Client -> Work] /\ \A o \in Client \ {c} : work'[o] = work[o]
       /\ ~Writing(c)' /\ Steady(c)' /\ Knows(c)'
  BY <1>1, <1>2, <1>3, <1>9, Passes
<1>15. Tables' /\ LiveItems(items') = LiveItems(items) /\ OnHandSum(items') = OnHandSum(items)
  BY <1>1, <1>2, <1>9, <1>11, <1>12, <1>13, <1>14, Reserved
<1>16. \A o \in Client \ {c} : Grows(o)
  <2>1. \A i \in Item : items[i].live => items'[i].live
    BY <1>11
  <2> QED
    BY <1>1, <1>2, <1>4, <1>9, <1>15, <2>1 DEF Grows
<1>17. StockInv'
  BY <1>14, <1>15, <1>16, Together
<1>18. Agrees => Agrees'
  BY <1>2, <1>15 DEF Agrees
<1> QED
  BY <1>17, <1>18

\* A reservation becomes due; it holds what it held.
LEMMA ExpireKeeps ==
  ASSUME StockInv, NEW h \in DOMAIN holds, Expire(h)
  PROVE  StockInv' /\ (Agrees => Agrees') /\ asks' = asks
<1> DEFINE row == [holds[h] EXCEPT !.due = TRUE]
<1>1. /\ Tables /\ Typed /\ work \in [Client -> Work] /\ faults \in 0 .. MaxFaults /\ clock \in Nat
      /\ items \in [Item -> ItemRow] /\ holds \in Seq(HoldRow) /\ HoldsBacked /\ DeadZero(items)
      /\ product.version \in Nat
  BY Ready DEF StockInv, Typed, ItemsTyped, ItemRow, Tables
<1>2. /\ holds' = [holds EXCEPT ![h] = row] /\ work' = work /\ faults' = faults
      /\ items' = items /\ asks' = asks /\ stock' = stock
      /\ UNCHANGED <<product, moves, sessions, asks, cache, clock>>
  BY DEF Expire, stock
<1>3. holds[h] \in HoldRow
  BY <1>1
<1>4. row \in HoldRow /\ row.status = holds[h].status /\ row.alloc = holds[h].alloc
  BY <1>3 DEF HoldRow
<1> HIDE DEF row
<1>5. /\ holds' \in Seq(HoldRow) /\ DOMAIN holds' = DOMAIN holds /\ holds'[h] = row
      /\ \A n \in DOMAIN holds : n # h => holds'[n] = holds[n]
  BY <1>1, <1>2, <1>4, RowChanged
<1>6. \A n \in DOMAIN holds : holds'[n].status = holds[n].status /\ holds'[n].alloc = holds[n].alloc
  BY <1>4, <1>5
<1>7. HoldsBacked'
  <2>1. ASSUME NEW i \in Item PROVE HeldIn(holds', i) = HeldIn(holds, i)
    <3>1. [n \in DOMAIN holds' |-> holds'[n].alloc[i]] = [n \in DOMAIN holds |-> holds[n].alloc[i]]
      BY <1>5, <1>6
    <3>2. {n \in DOMAIN holds' : holds'[n].status = "ALLOCATED"} = {n \in DOMAIN holds : holds[n].status = "ALLOCATED"}
      BY <1>5, <1>6
    <3> QED
      BY <3>1, <3>2 DEF HeldIn
  <2> QED
    BY <1>1, <1>2, <2>1, HeldNow
<1>8. Tables' /\ LiveItems(items') = LiveItems(items) /\ OnHandSum(items') = OnHandSum(items)
  <2>1. \A k \in Item : /\ items'[k].live = items[k].live /\ items'[k].onHand = items[k].onHand
                        /\ ~items'[k].live => items'[k].reserved = 0
    BY <1>1, <1>2 DEF DeadZero
  <2> QED
    BY <1>1, <1>2, <1>5, <1>7, <2>1, Reserved
<1>9. \A o \in Client : Grows(o)
  BY <1>1, <1>2, <1>5, <1>6 DEF Grows
<1>10. StockInv'
  BY <1>2, <1>8, <1>9, Unmoving
<1> QED
  BY <1>2, <1>10 DEF Agrees

-----------------------------------------------------------------------------
(* Counts and requests *)

\* A session after a step of a count: what it is about stays, and a count is taken after its start.
Recounted(x, y) ==
  /\ y.item = x.item /\ y.startedAt = x.startedAt /\ y.expected = x.expected
  /\ \/ y.counted = x.counted /\ y.countedAt = x.countedAt
     \/ y.counted # NoValue /\ x.startedAt < y.countedAt /\ y.countedAt <= clock

\* A session that starts now.
Started(x) ==
  /\ items[x.item].live /\ x.startedAt = clock + 1 /\ x.counted = NoValue
  /\ x.expected = items[x.item].onHand

\* A step of a count that ends its request.
LEMMA CountStep ==
  ASSUME StockInv, NEW c \in Client, work[c].pc # "idle", Done(c),
         UNCHANGED <<stock, holds, asks, faults>>, cache' = cache,
         sessions' \in Seq(SessionRow), clock' \in {clock, clock + 1},
         \A s \in DOMAIN sessions : s \in DOMAIN sessions' /\ Recounted(sessions[s], sessions'[s]),
         \A s \in DOMAIN sessions' : s \in DOMAIN sessions \/ (Started(sessions'[s]) /\ clock' = clock + 1),
         \A o \in Client \ {c} : Writing(o) => DOMAIN sessions' = DOMAIN sessions
  PROVE  StockInv'
<1>1. /\ Tables /\ Typed /\ work[c].left # <<>> /\ work \in [Client -> Work] /\ clock \in Nat
      /\ cache \in Int \cup {NoValue} /\ faults \in 0 .. MaxFaults /\ SessionsInv /\ AsksInv /\ PostingsInv
      /\ \A m \in DOMAIN moves : moves[m].at <= clock
      /\ product.version \in Nat /\ items \in [Item -> ItemRow] /\ asks \in Seq(AskRow)
      /\ moves \in Seq(MoveRow) /\ sessions \in Seq(SessionRow)
  BY Acting DEF Tables, MovesInv, Typed, ItemsTyped, ItemRow
<1>2. /\ items' = items /\ product' = product /\ moves' = moves /\ holds' = holds /\ asks' = asks
      /\ stock' = stock /\ faults' = faults /\ clock' \in Nat /\ clock <= clock'
  BY <1>1 DEF stock
<1>3. /\ work' \in [Client -> Work] /\ \A o \in Client \ {c} : work'[o] = work[o]
      /\ ~Writing(c)' /\ Steady(c)' /\ Knows(c)'
  BY <1>1, Ends
<1>4. \A i, t : MovedSince(i, t)' = MovedSince(i, t)
  BY <1>2 DEF MovedSince, Added, MovesOf
<1>5. \A i : MovedSince(i, clock + 1) = 0
  <2> TAKE i
  <2>1. \A m \in DOMAIN moves : moves[m].at \in Nat
    <3>1. \A m \in DOMAIN moves : moves[m] \in MoveRow
      BY <1>1
    <3> QED
      BY <3>1 DEF MoveRow
  <2>2. {m \in MovesOf(i) : clock + 1 < moves[m].at} = {}
    BY <1>1, <2>1 DEF MovesOf
  <2> QED
    BY <2>2, SumEmpty DEF MovedSince, Added
<1>6. SessionsInv'
  <2>1. ASSUME NEW s \in DOMAIN sessions'
        PROVE  LET x == sessions'[s] IN
               /\ items'[x.item].live /\ x.startedAt <= clock'
               /\ x.counted # NoValue => x.startedAt < x.countedAt /\ x.countedAt <= clock'
               /\ items'[x.item].onHand = x.expected + MovedSince(sessions[s].item, sessions[s].startedAt)'
    <3>1. CASE s \in DOMAIN sessions
      <4>1. sessions[s] \in SessionRow /\ sessions'[s] \in SessionRow
        <5>1. sessions \in Seq(SessionRow) /\ sessions' \in Seq(SessionRow)
          BY <1>1
        <5>2. \A T : \A t \in Seq(T) : \A n \in DOMAIN t : t[n] \in T
          OBVIOUS
        <5> QED
          BY <3>1, <5>1, <5>2
      <4>2. /\ sessions[s].startedAt \in Nat /\ sessions[s].countedAt \in Nat
            /\ sessions'[s].countedAt \in Nat
        BY <4>1 DEF SessionRow
      <4>3. /\ items[sessions[s].item].live /\ sessions[s].startedAt <= clock
            /\ sessions[s].counted # NoValue =>
                 sessions[s].startedAt < sessions[s].countedAt /\ sessions[s].countedAt <= clock
            /\ items[sessions[s].item].onHand =
                 sessions[s].expected + MovedSince(sessions[s].item, sessions[s].startedAt)
        BY <1>1, <3>1 DEF SessionsInv
      <4>4. Recounted(sessions[s], sessions'[s])
        BY <3>1
      <4>5. MovedSince(sessions[s].item, sessions[s].startedAt)' = MovedSince(sessions'[s].item, sessions'[s].startedAt)
        BY <1>2 DEF MovedSince, Added, MovesOf
      <4> QED
        BY <1>1, <1>2, <4>2, <4>3, <4>4, <4>5 DEF Recounted
    <3>2. CASE s \notin DOMAIN sessions
      <4>1. Started(sessions'[s]) /\ clock' = clock + 1
        BY <3>2
      <4>2. MovedSince(sessions[s].item, sessions[s].startedAt)' = MovedSince(sessions'[s].item, sessions'[s].startedAt)
        BY <1>2 DEF MovedSince, Added, MovesOf
      <4>3. sessions'[s] \in SessionRow
        OBVIOUS
      <4>4. sessions'[s].item \in Item /\ items[sessions'[s].item].onHand \in Int
        <5>1. sessions'[s].item \in Item
          BY <4>3 DEF SessionRow
        <5> QED
          BY <1>1, <5>1 DEF ItemRow
      <4> QED
        BY <1>1, <1>2, <1>5, <4>1, <4>2, <4>4 DEF Started
    <3> QED
      BY <3>1, <3>2
  <2> QED
    BY <2>1 DEF SessionsInv
<1>7. AsksInv'
  <2>1. \A s \in DOMAIN sessions : sessions[s].counted # NoValue => sessions'[s].counted # NoValue
    BY DEF Recounted
  <2>2. \A s \in DOMAIN sessions : sessions'[s].item = sessions[s].item
    BY DEF Recounted
  <2> QED
    BY <1>1, <1>2, <2>1, <2>2 DEF AsksInv
<1>8. PostingsInv'
  BY <1>1, <1>2 DEF PostingsInv
<1>9. Tables'
  <2>1. UNCHANGED <<stock, holds>> /\ asks' \in Seq(AskRow) /\ cache' \in Int \cup {NoValue}
        /\ faults' \in 0 .. MaxFaults
    BY <1>1, <1>2
  <2> QED
    BY <1>1, <1>2, <1>3, <1>6, <1>7, <1>8, <2>1, Noted
<1>10. \A o \in Client \ {c} : Grows(o)
  <2>1. \A s \in DOMAIN sessions :
          /\ s \in DOMAIN sessions' /\ sessions'[s].startedAt = sessions[s].startedAt
          /\ sessions'[s].item = sessions[s].item /\ sessions'[s].expected = sessions[s].expected
    BY DEF Recounted
  <2> QED
    BY <1>1, <1>2, <2>1 DEF Grows
<1> QED
  BY <1>3, <1>9, <1>10, Together

\* startCountSession: what it expects is the row, with no movement in flight.
LEMMA StartCountKeeps ==
  ASSUME StockInv, NEW c \in Client, work[c].pc # "idle", StartCount(c)
  PROVE  StockInv'
<1> DEFINE i == Req(c).item
           new == NewSession(i, clock + 1)
<1>1. /\ Typed /\ clock \in Nat /\ Req(c) \in Request /\ items \in [Item -> ItemRow] /\ sessions \in Seq(SessionRow)
  BY Acting DEF Typed, ItemsTyped, ItemRow
<1>2. /\ Done(c) /\ UNCHANGED <<stock, holds, asks, faults>> /\ cache' = cache
      /\ \A o \in Client \ {c} : ~Writing(o)
      /\ clock' = clock + 1
      /\ sessions' = IF items[i].live THEN Append(sessions, new) ELSE sessions
  BY DEF StartCount, Tick
<1>3. i \in Item /\ items[i].onHand \in Int
  <2>1. i \in Item
    BY <1>1 DEF Request
  <2> QED
    BY <1>1, <2>1 DEF ItemRow
<1>4. new \in SessionRow
  BY <1>1, <1>3 DEF NewSession, SessionRow
<1>5. CASE items[i].live
  <2>1. Started(new)
    BY <1>5 DEF Started, NewSession
  <2> HIDE DEF new, i
  <2>2. sessions' = Append(sessions, new)
    BY <1>2, <1>5
  <2>3. /\ sessions' \in Seq(SessionRow) /\ DOMAIN sessions = 1 .. Len(sessions) /\ Len(sessions) \in Nat
        /\ DOMAIN sessions' = 1 .. (Len(sessions) + 1)
        /\ \A s \in DOMAIN sessions : sessions'[s] = sessions[s]
        /\ sessions'[Len(sessions) + 1] = new
    BY <1>1, <1>4, <2>2, Appended
  <2>4. \A s \in DOMAIN sessions : s \in DOMAIN sessions' /\ Recounted(sessions[s], sessions'[s])
    BY <2>3 DEF Recounted
  <2>5. \A s \in DOMAIN sessions' : s \in DOMAIN sessions \/ s = Len(sessions) + 1
    BY <2>3
  <2>6. \A s \in DOMAIN sessions' : s \in DOMAIN sessions \/ (Started(sessions'[s]) /\ clock' = clock + 1)
    BY <1>2, <2>1, <2>3, <2>5
  <2> QED
    BY <1>2, <2>3, <2>4, <2>6, CountStep
<1>6. CASE ~items[i].live
  <2>1. sessions' = sessions
    BY <1>2, <1>6
  <2>2. \A s \in DOMAIN sessions : s \in DOMAIN sessions' /\ Recounted(sessions[s], sessions'[s])
    BY <2>1 DEF Recounted
  <2> QED
    BY <1>1, <1>2, <2>1, <2>2, CountStep
<1> QED
  BY <1>5, <1>6

\* completeCountSession: only the status changes.
LEMMA CompleteCountKeeps ==
  ASSUME StockInv, NEW c \in Client, work[c].pc # "idle", CompleteCount(c)
  PROVE  StockInv'
<1>1. Typed /\ sessions \in Seq(SessionRow) /\ clock \in Nat
  BY Acting DEF Typed
<1>2. /\ Done(c) /\ UNCHANGED <<stock, holds, asks, faults>> /\ cache' = cache /\ clock' = clock
      /\ sessions' = [s \in DOMAIN sessions |->
                         IF s = Req(c).ref THEN [sessions[s] EXCEPT !.status = "UNDER_REVIEW"] ELSE sessions[s]]
  BY DEF CompleteCount
<1>3. DOMAIN sessions = 1 .. Len(sessions) /\ Len(sessions) \in Nat /\ DOMAIN sessions' = DOMAIN sessions
  BY <1>1, <1>2
<1>4. ASSUME NEW s \in DOMAIN sessions
      PROVE  sessions'[s] \in SessionRow /\ Recounted(sessions[s], sessions'[s])
  <2>1. sessions[s] \in SessionRow
    BY <1>1
  <2>2. CASE s = Req(c).ref
    <3>1. sessions'[s] = [sessions[s] EXCEPT !.status = "UNDER_REVIEW"]
      BY <1>2, <2>2
    <3> QED
      BY <2>1, <3>1 DEF SessionRow, Recounted
  <2>3. CASE s # Req(c).ref
    <3>1. sessions'[s] = sessions[s]
      BY <1>2, <2>3
    <3> QED
      BY <2>1, <3>1 DEF Recounted
  <2> QED
    BY <2>2, <2>3
<1>5. sessions' \in Seq(SessionRow)
  <2>1. sessions' = [s \in 1 .. Len(sessions) |-> sessions'[s]]
    BY <1>2, <1>3
  <2>2. sessions' \in [1 .. Len(sessions) -> SessionRow]
    BY <1>3, <1>4, <2>1
  <2> QED
    BY <1>3, <2>2, OfLength
<1> QED
  BY <1>1, <1>2, <1>3, <1>4, <1>5, CountStep

\* The save of a count: the instant is after the start of the session.
LEMMA SaveCountKeeps ==
  ASSUME StockInv, NEW c \in Client, work[c].pc # "idle", SaveCount(c)
  PROVE  StockInv'
<1> DEFINE n == Req(c).ref
           qty == Req(c).qty
           at == work[c].at
           seen == work[c].seen
           row == [sessions[n] EXCEPT !.counted = qty, !.countedAt = at, !.variance = seen]
<1>1. /\ Typed /\ sessions \in Seq(SessionRow) /\ clock \in Nat /\ work[c] \in Work /\ Req(c) \in Request
      /\ KnowsCount(c)
  BY Acting DEF Typed
<1>2. /\ At(c, "count", "save") /\ Done(c) /\ UNCHANGED <<stock, holds, asks, faults>> /\ cache' = cache
      /\ clock' = clock
      /\ sessions' = [sessions EXCEPT ![n].counted = qty, ![n].countedAt = at, ![n].variance = seen]
  BY DEF SaveCount
<1>3. n \in DOMAIN sessions /\ sessions[n].startedAt < at /\ at <= clock
  BY <1>1, <1>2 DEF KnowsCount
<1>4. qty \in Int /\ at \in Nat /\ seen \in Int /\ qty # NoValue
  BY <1>1, StockAssumption DEF Work, Request
<1>5. sessions[n] \in SessionRow
  BY <1>1, <1>3
<1> HIDE DEF n, qty, at, seen
<1>6. row \in SessionRow /\ Recounted(sessions[n], row)
  BY <1>3, <1>4, <1>5 DEF SessionRow, Recounted
<1>7. sessions' = [sessions EXCEPT ![n] = row]
  BY <1>2, <1>3
<1> HIDE DEF row
<1>8. /\ sessions' \in Seq(SessionRow) /\ DOMAIN sessions' = DOMAIN sessions /\ sessions'[n] = row
      /\ \A s \in DOMAIN sessions : s # n => sessions'[s] = sessions[s]
  <2>1. sessions \in Seq(SessionRow) /\ n \in DOMAIN sessions /\ row \in SessionRow
    BY <1>1, <1>3, <1>6
  <2> QED
    BY <1>7, <2>1, RowChanged
<1>9. \A s \in DOMAIN sessions : Recounted(sessions[s], sessions'[s])
  BY <1>6, <1>8 DEF Recounted
<1> QED
  BY <1>1, <1>2, <1>8, <1>9, CountStep

\* One request, with the delta of its count or of its caller.
LEMMA AskAdjustmentKeeps ==
  ASSUME StockInv, NEW c \in Client, work[c].pc # "idle", AskAdjustment(c)
  PROVE  StockInv' /\ \A a \in DOMAIN asks : asks'[a] = asks[a]
<1> DEFINE r == Req(c)
           new == Asked(r)
<1>1. /\ Tables /\ Typed /\ work[c].left # <<>> /\ work \in [Client -> Work] /\ clock \in Nat
      /\ cache \in Int \cup {NoValue} /\ faults \in 0 .. MaxFaults /\ SessionsInv /\ AsksInv /\ PostingsInv
      /\ product.version \in Nat /\ items \in [Item -> ItemRow] /\ asks \in Seq(AskRow)
      /\ sessions \in Seq(SessionRow) /\ r \in Request /\ moves \in Seq(MoveRow)
  BY Acting DEF Tables, Typed, ItemsTyped, ItemRow
<1>2. /\ Done(c) /\ UNCHANGED <<stock, holds>> /\ sessions' = sessions /\ cache' = cache /\ clock' = clock
      /\ faults' = faults
      /\ asks' = IF MayAsk(r) THEN Append(asks, new) ELSE asks
  BY DEF AskAdjustment
<1>3. /\ items' = items /\ product' = product /\ moves' = moves /\ holds' = holds /\ stock' = stock
  BY <1>2 DEF stock
<1>4. /\ work' \in [Client -> Work] /\ \A o \in Client \ {c} : work'[o] = work[o]
      /\ ~Writing(c)' /\ Steady(c)' /\ Knows(c)'
  BY <1>1, <1>2, Ends
<1>5. SessionsInv'
  <2>1. \A i, t : MovedSince(i, t)' = MovedSince(i, t)
    BY <1>3 DEF MovedSince, Added, MovesOf
  <2> QED
    BY <1>1, <1>2, <1>3, <2>1 DEF SessionsInv
<1>6. /\ AsksInv' /\ PostingsInv' /\ asks' \in Seq(AskRow) /\ DOMAIN asks \subseteq DOMAIN asks'
      /\ \A a \in DOMAIN asks : asks'[a] = asks[a]
  <2>1. CASE ~MayAsk(r)
    <3>1. asks' = asks
      BY <1>2, <2>1
    <3> QED
      BY <1>1, <1>2, <1>3, <3>1 DEF AsksInv, PostingsInv
  <2>2. CASE MayAsk(r)
    <3> DEFINE s == r.ref
    <3>1. /\ s = 0 => items[r.item].live
          /\ s # 0 => /\ s \in DOMAIN sessions /\ sessions[s].counted # NoValue
                      /\ \A a \in DOMAIN asks : asks[a].session # s
      BY <2>2 DEF MayAsk, LiveAsks
    <3>2. /\ new.session = s /\ new.status = "PENDING_APPROVAL" /\ new.by = r.actor
          /\ new.item = IF s = 0 THEN r.item ELSE sessions[s].item
          /\ new.delta = IF s = 0 THEN r.qty ELSE CountVariance(sessions[s], Len(moves))
          /\ new = [session |-> new.session, status |-> new.status, by |-> new.by, item |-> new.item,
                    delta |-> new.delta]
      BY DEF Asked
    <3>3. r.item \in Item /\ r.qty \in Int /\ r.actor \in Actor /\ s \in Nat
      BY <1>1 DEF Request
    <3>4. s # 0 => sessions[s].item \in Item /\ CountVariance(sessions[s], Len(moves)) \in Int
      <4>1. SUFFICES ASSUME s # 0
                     PROVE  sessions[s].item \in Item /\ CountVariance(sessions[s], Len(moves)) \in Int
        OBVIOUS
      <4>2. sessions[s] \in SessionRow /\ sessions[s].counted # NoValue
        BY <1>1, <3>1, <4>1
      <4>3. Len(moves) \in Int
        BY <1>1
      <4>4. sessions[s].item \in Item
        BY <4>2 DEF SessionRow
      <4> QED
        BY <1>1, <4>2, <4>3, <4>4, VarianceTyped
    <3> HIDE DEF new, r, s
    <3>5. new \in AskRow
      BY <3>2, <3>3, <3>4 DEF AskRow
    <3>6. /\ asks' \in Seq(AskRow) /\ DOMAIN asks = 1 .. Len(asks) /\ Len(asks) \in Nat
          /\ DOMAIN asks' = 1 .. (Len(asks) + 1)
          /\ \A a \in DOMAIN asks : asks'[a] = asks[a]
          /\ asks'[Len(asks) + 1] = new
      BY <1>1, <1>2, <2>2, <3>5, Appended
    <3>7. \A a \in DOMAIN asks' : a \in DOMAIN asks \/ a = Len(asks) + 1
      BY <3>6
    <3>8. AsksInv'
      <4>1. /\ items[new.item].live
            /\ s # 0 => /\ s \in DOMAIN sessions /\ sessions[s].item = new.item
                        /\ sessions[s].counted # NoValue
        BY <1>1, <3>1, <3>2 DEF SessionsInv
      <4> QED
        BY <1>1, <1>2, <1>3, <3>2, <3>6, <3>7, <4>1 DEF AsksInv
    <3>9. PostingsInv'
      <4>1. \A m \in DOMAIN moves' : moves'[m].kind = "count" =>
              moves'[m].key \in DOMAIN asks' /\ asks'[moves'[m].key].status = "POSTED"
        BY <1>1, <1>3, <3>6 DEF PostingsInv
      <4>2. \A m, n \in DOMAIN moves' :
              moves'[m].kind = "count" /\ moves'[n].kind = "count" /\ moves'[m].key = moves'[n].key => m = n
        BY <1>1, <1>3 DEF PostingsInv
      <4>3. \A a, b \in DOMAIN asks' : asks'[a].session # 0 /\ asks'[a].session = asks'[b].session => a = b
        BY <1>1, <3>1, <3>2, <3>6, <3>7 DEF PostingsInv
      <4> QED
        BY <4>1, <4>2, <4>3 DEF PostingsInv
    <3> QED
      BY <3>6, <3>8, <3>9
  <2> QED
    BY <2>1, <2>2
<1>7. Tables'
  <2>1. /\ sessions' \in Seq(SessionRow) /\ clock' \in Nat /\ clock <= clock' /\ cache' \in Int \cup {NoValue}
        /\ faults' \in 0 .. MaxFaults
    BY <1>1, <1>2
  <2> QED
    BY <1>1, <1>2, <1>4, <1>5, <1>6, <2>1, Noted
<1>8. \A o \in Client \ {c} : Grows(o)
  BY <1>1, <1>2, <1>3, <1>6 DEF Grows
<1>9. StockInv'
  BY <1>4, <1>7, <1>8, Together
<1> QED
  BY <1>6, <1>9

-----------------------------------------------------------------------------
(* The repair of the aggregate *)

\* The tables after a step that writes the product only.
LEMMA Repaired ==
  ASSUME Tables, UNCHANGED <<items, moves, holds, sessions, asks, cache, clock, faults>>,
         product' \in [stock : Int, version : Nat], LiveItems(items) # {}, product'.stock = OnHandSum(items),
         work' \in [Client -> Work]
  PROVE  Tables'
<1>1. /\ items' = items /\ moves' = moves /\ holds' = holds /\ sessions' = sessions /\ asks' = asks
      /\ cache' = cache /\ clock' = clock /\ faults' = faults
  OBVIOUS
<1>2. Typed'
  BY <1>1 DEF Tables, Typed, ItemsTyped
<1>3. RowsInv'
  BY <1>1 DEF Tables, RowsInv, Agrees
<1>4. MovesInv'
  BY <1>1 DEF Tables, MovesInv, LedgerRebuilds, Added, MovesOf
<1>5. HoldsBacked'
  BY <1>1 DEF Tables, HoldsBacked, ActiveHold
<1>6. MovedOncePerKey'
  BY <1>1 DEF Tables, MovedOncePerKey, OpeningMoves, ImportedOpening, MovesOf
<1>7. PostingsInv'
  BY <1>1 DEF Tables, PostingsInv
<1>8. SessionsInv'
  BY <1>1 DEF Tables, SessionsInv, MovedSince, Added, MovesOf
<1>9. AsksInv'
  BY <1>1 DEF Tables, AsksInv
<1> QED
  BY <1>2, <1>3, <1>4, <1>5, <1>6, <1>7, <1>8, <1>9 DEF Tables

\* The nightly repair writes the sum of the rows, or nothing.
LEMMA ReconRepairKeeps ==
  ASSUME StockInv, NEW c \in Client, work[c].pc # "idle", ReconRepair(c)
  PROVE  StockInv' /\ (Agrees => Agrees')
<1> DEFINE rows == work[c].rows
           me == [work[c] EXCEPT !.seen = rows]
<1>1. /\ Tables /\ Typed /\ work[c] \in Work /\ work[c].left # <<>> /\ work \in [Client -> Work] /\ clock \in Nat
      /\ cache \in Int \cup {NoValue} /\ faults \in 0 .. MaxFaults /\ KnowsDrift(c)
      /\ product \in [stock : Int, version : Nat] /\ product.version \in Nat /\ rows \in Int
  BY Acting DEF Typed, Work
<1>2. /\ At(c, "recon", "repair") /\ \A o \in Client \ {c} : ~Writing(o)
      /\ UNCHANGED <<items, moves, holds, sessions, asks, cache, clock, faults>>
  BY DEF ReconRepair, Unlocked
<1>3. Leads(Req(c).kind, work[c].pc, "redis") /\ Carefree(Req(c).kind, "redis") /\ "redis" \in Pc
  BY <1>2 DEF At, Leads, Carefree, Pc
<1>4. CASE ~Unmoved(work[c])
  <2>1. product' = product /\ Go(c, work[c])
    BY <1>4 DEF ReconRepair
  <2>2. Calm
    BY <1>1, <1>2, <2>1 DEF Calm, Still, stock
  <2>3. StockInv'
    BY <1>1, <1>3, <2>1, <2>2, QuietCarefree
  <2> QED
    BY <1>2, <2>1, <2>3 DEF Agrees
<1>5. CASE Unmoved(work[c])
  <2>1. product' = [stock |-> rows, version |-> product.version + 1] /\ Go(c, me)
    BY <1>5 DEF ReconRepair
  <2>2. LiveItems(items) # {} /\ rows = OnHandSum(items)
    BY <1>1, <1>2, <1>5 DEF KnowsDrift, Unmoved
  <2>3. /\ product' \in [stock : Int, version : Nat] /\ product'.stock = OnHandSum(items)
        /\ product'.version = product.version + 1
    BY <1>1, <2>1, <2>2
  <2> HIDE DEF rows
  <2>4. me \in Work /\ me.left = work[c].left /\ me.pc = work[c].pc
    BY <1>1 DEF Work
  <2> HIDE DEF me
  <2>5. /\ work' \in [Client -> Work] /\ Req(c)' = Req(c) /\ work'[c].pc = "redis"
        /\ \A o \in Client \ {c} : work'[o] = work[o]
        /\ Steady(c)'
    BY <1>1, <1>3, <2>1, <2>4, GoesOn
  <2>6. Knows(c)' /\ ~Writing(c)'
    <3>1. Carefree(Req(c)'.kind, work'[c].pc)
      BY <1>3, <2>5
    <3> QED
      BY <2>5, <3>1, NoCare DEF Writing
  <2>7. Tables'
    BY <1>1, <1>2, <2>2, <2>3, <2>5, Repaired
  <2>8. \A o \in Client \ {c} : Grows(o)
    BY <1>1, <1>2, <2>3 DEF Grows
  <2>9. StockInv'
    BY <2>5, <2>6, <2>7, <2>8, Together
  <2>10. Agrees'
    BY <1>2, <2>3 DEF Agrees
  <2> QED
    BY <2>9, <2>10
<1> QED
  BY <1>4, <1>5

-----------------------------------------------------------------------------
(* The first state *)

\* What Begins says, of the state itself.
LEMMA BeginsNow ==
  ASSUME NEW c \in Client, NEW script \in Seq(Asking), work[c] = Begin(script)
  PROVE  work[c] \in Work /\ ~Writing(c) /\ Steady(c) /\ Knows(c)
<1>0. Idle \in Work /\ Idle.left = <<>> /\ Idle.pc = "idle"
  BY DEF Idle, Work, Pc
<1>1. CASE script = <<>>
  <2>1. work[c] = Idle
    BY <1>1 DEF Begin
  <2> QED
    BY <1>0, <2>1 DEF Writing, Steady, Knows
<1>2. CASE script # <<>>
  <2>1. Head(script) \in Asking /\ Head(script).kind \in Kind
    <3>1. Head(script) \in Asking
      BY <1>2
    <3> QED
      BY <3>1 DEF Asking, Request
  <2>2. work[c] = [Idle EXCEPT !.left = script, !.pc = Path(Head(script).kind)[1]]
    BY <1>2 DEF Begin
  <2>3. work[c].left = script /\ work[c].pc = Path(Head(script).kind)[1] /\ work[c] \in Work
    <3>1. \A p \in Pc : /\ [Idle EXCEPT !.left = script, !.pc = p] \in Work
                        /\ [Idle EXCEPT !.left = script, !.pc = p].left = script
                        /\ [Idle EXCEPT !.left = script, !.pc = p].pc = p
      BY <1>0 DEF Work
    <3>2. Path(Head(script).kind)[1] \in Pc
      BY <2>1, Starts
    <3> QED
      BY <2>2, <3>1, <3>2
  <2>4. Req(c) = Head(script)
    BY <2>3 DEF Req
  <2>5. Steady(c)
    BY <1>2, <2>1, <2>3, <2>4, Starts DEF Steady
  <2> DEFINE pc == Path(Head(script).kind)[1]
             kind == Head(script).kind
  <2>6. /\ pc \notin {"idle", "commit", "sync", "save", "repair", "sums"}
        /\ pc = "look" => kind = "sale"
        /\ kind \in {"import", "release", "sweep", "approve", "reserve"} => pc # "write"
    BY <2>1, Starts
  <2>7. work[c].pc = pc /\ Req(c).kind = kind
    BY <2>3, <2>4
  <2> HIDE DEF pc, kind
  <2>8. ~Writing(c)
    BY <2>6, <2>7 DEF Writing
  <2>9. KnowsMove(c)
    BY <2>6, <2>7 DEF KnowsMove
  <2>10. KnowsHold(c)
    BY <2>6, <2>7 DEF KnowsHold, At, Releasing
  <2>11. KnowsCount(c)
    BY <2>6, <2>7 DEF KnowsCount, At
  <2>12. KnowsAsk(c)
    BY <2>6, <2>7 DEF KnowsAsk, At
  <2>13. KnowsDrift(c)
    BY <2>6, <2>7 DEF KnowsDrift, At
  <2> QED
    BY <2>3, <2>5, <2>8, <2>9, <2>10, <2>11, <2>12, <2>13 DEF Knows
<1> QED
  BY <1>1, <1>2


\* The ledger of a product without rows, or with the one that opened its sale location.
LEMMA FirstRows ==
  ASSUME InitStock
  PROVE  /\ items \in [Item -> ItemRow] /\ product \in [stock : Int, version : Nat] /\ moves \in Seq(MoveRow)
         /\ \A i \in Item : items[i].reserved = 0 /\ items[i].onHand >= 0
         /\ \A i \in Item : ~items[i].live => items[i].onHand = 0
         /\ items[SaleItem].live \/ (LiveItems(items) = {} /\ product.stock >= 0)
         /\ LiveItems(items) = {} => product.stock >= 0
         /\ \A i \in Item : items[i].onHand = Added(MovesOf(i))
         /\ \A m \in DOMAIN moves : m = 1 /\ moves[m].kind = "bootstrap" /\ moves[m].key = 0 /\ moves[m].at = 0
         /\ \A m \in DOMAIN moves : moves[m].balance = Added({n \in MovesOf(moves[m].item) : n <= m})
<1>1. SaleItem \in Item /\ Legacy \in Nat
  BY StockAssumption
<1>2. CASE /\ items = [i \in Item |-> NoItem] /\ moves = <<>>
           /\ product = [stock |-> Legacy, version |-> 0]
  <2>1. NoItem \in ItemRow /\ NoItem.live = FALSE /\ NoItem.onHand = 0 /\ NoItem.reserved = 0
    BY DEF NoItem, ItemRow
  <2>2. \A i \in Item : items[i] = NoItem
    BY <1>2
  <2>3. items \in [Item -> ItemRow] /\ LiveItems(items) = {}
    BY <1>2, <2>1, <2>2 DEF LiveItems
  <2>4. DOMAIN moves = {} /\ moves \in Seq(MoveRow)
    BY <1>2
  <2>5. \A i \in Item : Added(MovesOf(i)) = 0
    <3>1. \A i \in Item : MovesOf(i) = {}
      BY <2>4 DEF MovesOf
    <3> QED
      BY <3>1, SumEmpty DEF Added
  <2>6. product \in [stock : Int, version : Nat] /\ product.stock >= 0
    BY <1>1, <1>2
  <2> QED
    BY <2>1, <2>2, <2>3, <2>4, <2>5, <2>6
<1>3. CASE /\ items = [[i \in Item |-> NoItem] EXCEPT ![SaleItem] = NewItem(Legacy, 0)]
           /\ moves = <<Row(SaleItem, Legacy, "bootstrap", 0, 0, Legacy)>>
           /\ product \in [stock : {Legacy, Legacy + 1}, version : {0}]
  <2> DEFINE row == Row(SaleItem, Legacy, "bootstrap", 0, 0, Legacy)
  <2>1. /\ NoItem \in ItemRow /\ NoItem.live = FALSE /\ NoItem.onHand = 0 /\ NoItem.reserved = 0
        /\ NewItem(Legacy, 0) \in ItemRow /\ NewItem(Legacy, 0).live = TRUE
        /\ NewItem(Legacy, 0).onHand = Legacy /\ NewItem(Legacy, 0).reserved = 0
    BY <1>1 DEF NoItem, NewItem, ItemRow
  <2>2. /\ items[SaleItem] = NewItem(Legacy, 0)
        /\ \A i \in Item : i # SaleItem => items[i] = NoItem
    BY <1>1, <1>3
  <2>3. items \in [Item -> ItemRow] /\ SaleItem \in LiveItems(items)
    BY <1>1, <1>3, <2>1, <2>2 DEF LiveItems
  <2>4. /\ row \in MoveRow /\ row.item = SaleItem /\ row.qty = Legacy /\ row.kind = "bootstrap"
        /\ row.key = 0 /\ row.at = 0 /\ row.balance = Legacy
    BY <1>1 DEF Row, MoveRow
  <2> HIDE DEF row
  <2>5. moves \in Seq(MoveRow) /\ DOMAIN moves = {1} /\ moves[1] = row
    <3>1. moves = <<row>>
      BY <1>3 DEF row
    <3> QED
      BY <2>4, <3>1
  <2>6. Added({1}) = Legacy /\ Added({}) = 0
    <3> DEFINE f == [m \in DOMAIN moves |-> moves[m].qty]
    <3>1. f[1] = Legacy /\ Legacy \in Int
      BY <1>1, <2>4, <2>5
    <3> HIDE DEF f
    <3>2. SumFunctionOnSet(f, {1}) = Legacy /\ SumFunctionOnSet(f, {}) = 0
      BY <3>1, SumOne, SumEmpty
    <3> QED
      BY <3>2 DEF Added, f
  <2>7. MovesOf(SaleItem) = {1} /\ \A i \in Item : i # SaleItem => MovesOf(i) = {}
    BY <2>4, <2>5 DEF MovesOf
  <2>8. \A i \in Item : items[i].onHand = Added(MovesOf(i))
    BY <2>1, <2>2, <2>6, <2>7
  <2>9. \A m \in DOMAIN moves : moves[m].balance = Added({n \in MovesOf(moves[m].item) : n <= m})
    <3>1. {n \in MovesOf(moves[1].item) : n <= 1} = {1}
      BY <2>4, <2>5, <2>7
    <3> QED
      BY <2>4, <2>5, <2>6, <3>1
  <2>10. product \in [stock : Int, version : Nat]
    BY <1>1, <1>3
  <2> QED
    BY <1>1, <2>1, <2>2, <2>3, <2>4, <2>5, <2>8, <2>9, <2>10
<1> QED
  BY <1>2, <1>3 DEF InitStock

\* Every way the day begins satisfies the invariant.
LEMMA InitKeeps == Init => StockInv
<1> SUFFICES ASSUME Init PROVE StockInv
  OBVIOUS
<1>1. /\ items \in [Item -> ItemRow] /\ product \in [stock : Int, version : Nat] /\ moves \in Seq(MoveRow)
      /\ \A i \in Item : items[i].reserved = 0 /\ items[i].onHand >= 0
      /\ \A i \in Item : ~items[i].live => items[i].onHand = 0
      /\ items[SaleItem].live \/ (LiveItems(items) = {} /\ product.stock >= 0)
      /\ LiveItems(items) = {} => product.stock >= 0
      /\ \A i \in Item : items[i].onHand = Added(MovesOf(i))
      /\ \A m \in DOMAIN moves : m = 1 /\ moves[m].kind = "bootstrap" /\ moves[m].key = 0 /\ moves[m].at = 0
      /\ \A m \in DOMAIN moves : moves[m].balance = Added({n \in MovesOf(moves[m].item) : n <= m})
  BY FirstRows DEF Init
<1>2. /\ holds = <<>> /\ sessions = <<>> /\ asks = <<>> /\ cache = Legacy /\ clock = 0 /\ faults = 0
      /\ Legacy \in Nat /\ MaxFaults \in Nat
  BY StockAssumption, ScriptsAssumption DEF Init, InitStock
<1>3. DOMAIN holds = {} /\ DOMAIN sessions = {} /\ DOMAIN asks = {}
  BY <1>2
<1>4. /\ work \in [Client -> Work]
      /\ \A c \in Client : ~Writing(c) /\ Steady(c) /\ Knows(c)
  <2>1. PICK s \in Scripts : work = [c \in Client |-> Begin(s[c])]
    BY DEF Init
  <2>2. \A c \in Client : s[c] \in Seq(Asking)
    BY <2>1, ScriptsAssumption DEF Asking
  <2>3. \A c \in Client : work[c] = Begin(s[c])
    BY <2>1
  <2>4. \A c \in Client : work[c] \in Work /\ ~Writing(c) /\ Steady(c) /\ Knows(c)
    BY <2>2, <2>3, BeginsNow
  <2> QED
    BY <2>1, <2>4
<1>5. Typed
  BY <1>1, <1>2, <1>4 DEF Typed, ItemsTyped, ItemRow
<1>6. RowsInv
  BY <1>1 DEF RowsInv, Agrees
<1>7. MovesInv
  <2>1. \A m, n \in DOMAIN moves : m < n => moves[m].at <= moves[n].at
    BY <1>1
  <2>2. \A m \in DOMAIN moves : moves[m].at <= clock
    BY <1>1, <1>2
  <2> QED
    BY <1>1, <2>1, <2>2 DEF MovesInv, LedgerRebuilds
<1>8. HoldsBacked
  <2>1. \A i \in Item :
          SumFunctionOnSet([h \in DOMAIN holds |-> holds[h].alloc[i]], {h \in DOMAIN holds : ActiveHold(h)}) = 0
    <3>1. {h \in DOMAIN holds : ActiveHold(h)} = {}
      BY <1>3
    <3> QED
      BY <3>1, SumEmpty
  <2> QED
    BY <1>1, <2>1 DEF HoldsBacked
<1>9. MovedOncePerKey
  <2>1. \A i \in Item : OpeningMoves(i) = {} /\ ImportedOpening(i) = {}
    BY <1>1 DEF OpeningMoves, ImportedOpening, MovesOf
  <2>2. \A i \in Item : Cardinality(OpeningMoves(i)) <= 1
    <3>1. Cardinality({}) = 0
      BY FS_EmptySet
    <3>2. \A i \in Item : Cardinality(OpeningMoves(i)) = 0
      BY <2>1, <3>1
    <3> QED
      BY <3>2
  <2> QED
    BY <1>1, <2>1, <2>2 DEF MovedOncePerKey
<1>10. PostingsInv
  BY <1>1, <1>3 DEF PostingsInv
<1>11. SessionsInv /\ AsksInv
  BY <1>3 DEF SessionsInv, AsksInv
<1>12. OneWriter
  BY <1>4 DEF OneWriter
<1> QED
  BY <1>4, <1>5, <1>6, <1>7, <1>8, <1>9, <1>10, <1>11, <1>12 DEF StockInv, Tables
-----------------------------------------------------------------------------
(* Every step *)

\* A step that leaves the rows and the aggregate alone leaves them in agreement.
LEMMA StaysTrue ==
  ASSUME items' = items, product' = product
  PROVE  Agrees => Agrees'
BY DEF Agrees

\* A request for an adjustment changes only where it is posted.
AsksKept == \A a \in DOMAIN asks : asks'[a] = asks[a]

\* The posting of a count is the step of the client that has the lock, and exact.
Posts(c) == Writing(c) /\ Exact(c)

\* Every step of a handler keeps the invariant, the aggregate and the requests.
LEMMA StepKeeps ==
  ASSUME StockInv, NEW c \in Client, work[c].pc # "idle", Step(c)
  PROVE  StockInv' /\ (Agrees => Agrees') /\ (AsksKept \/ Posts(c))
<1> DEFINE Goal == StockInv' /\ (Agrees => Agrees') /\ (AsksKept \/ Posts(c))
<1>1. CASE LookForSale(c)
  <2>1. StockInv'
    BY <1>1, LookForSaleKeeps
  <2>2. items' = items /\ product' = product /\ asks' = asks
    BY <1>1 DEF LookForSale, stock
  <2> QED
    BY <2>1, <2>2, StaysTrue DEF AsksKept
<1>2. CASE PreCheck(c)
  <2>1. StockInv'
    BY <1>2, PreCheckKeeps
  <2>2. items' = items /\ product' = product /\ asks' = asks
    BY <1>2 DEF PreCheck, stock
  <2> QED
    BY <2>1, <2>2, StaysTrue DEF AsksKept
<1>3. CASE EnsureRow(c)
  <2>1. StockInv' /\ (Agrees => Agrees')
    BY <1>3, EnsureRowKeeps
  <2>2. asks' = asks
    BY <1>3 DEF EnsureRow
  <2> QED
    BY <2>1, <2>2 DEF AsksKept
<1>4. CASE WriteMove(c)
  <2>1. StockInv'
    BY <1>4, WriteMoveKeeps
  <2>2. items' = items /\ product' = product /\ asks' = asks
    BY <1>4 DEF WriteMove, stock
  <2> QED
    BY <2>1, <2>2, StaysTrue DEF AsksKept
<1>5. CASE CommitMove(c)
  <2>1. StockInv' /\ (Agrees => Agrees')
    BY <1>5, CommitMoveKeeps
  <2>2. asks' = asks
    BY <1>5 DEF CommitMove
  <2> QED
    BY <2>1, <2>2 DEF AsksKept
<1>6. CASE SyncCache(c)
  <2>1. StockInv'
    BY <1>6, SyncCacheKeeps
  <2>2. items' = items /\ product' = product /\ asks' = asks
    BY <1>6 DEF SyncCache, stock
  <2> QED
    BY <2>1, <2>2, StaysTrue DEF AsksKept
<1>7. CASE CheckAvailability(c)
  <2>1. StockInv'
    BY <1>7, CheckAvailabilityKeeps
  <2>2. items' = items /\ product' = product /\ asks' = asks
    BY <1>7 DEF CheckAvailability, stock
  <2> QED
    BY <2>1, <2>2, StaysTrue DEF AsksKept
<1>8. CASE WriteHeader(c)
  <2>1. StockInv'
    BY <1>8, WriteHeaderKeeps
  <2>2. items' = items /\ product' = product /\ asks' = asks
    BY <1>8 DEF WriteHeader, stock
  <2> QED
    BY <2>1, <2>2, StaysTrue DEF AsksKept
<1>9. CASE InsertLine(c)
  <2>1. StockInv'
    BY <1>9, InsertLineKeeps
  <2>2. items' = items /\ product' = product /\ asks' = asks
    BY <1>9 DEF InsertLine, stock
  <2> QED
    BY <2>1, <2>2, StaysTrue DEF AsksKept
<1>10. CASE WriteReserve(c)
  <2>1. StockInv'
    BY <1>10, WriteReserveKeeps
  <2>2. items' = items /\ product' = product /\ asks' = asks
    BY <1>10 DEF WriteReserve, stock
  <2> QED
    BY <2>1, <2>2, StaysTrue DEF AsksKept
<1>11. CASE CommitReserve(c)
  <2>1. StockInv' /\ (Agrees => Agrees')
    BY <1>11, CommitReserveKeeps
  <2>2. asks' = asks
    BY <1>11 DEF CommitReserve
  <2> QED
    BY <2>1, <2>2 DEF AsksKept
<1>12. CASE LoadHold(c)
  <2>1. StockInv'
    BY <1>12, LoadHoldKeeps
  <2>2. items' = items /\ product' = product /\ asks' = asks
    BY <1>12 DEF LoadHold, stock
  <2> QED
    BY <2>1, <2>2, StaysTrue DEF AsksKept
<1>13. CASE FindDue(c)
  <2>1. StockInv'
    BY <1>13, FindDueKeeps
  <2>2. items' = items /\ product' = product /\ asks' = asks
    BY <1>13 DEF FindDue, stock
  <2> QED
    BY <2>1, <2>2, StaysTrue DEF AsksKept
<1>14. CASE WriteRelease(c)
  <2>1. StockInv'
    BY <1>14, WriteReleaseKeeps
  <2>2. items' = items /\ product' = product /\ asks' = asks
    BY <1>14 DEF WriteRelease, stock
  <2> QED
    BY <2>1, <2>2, StaysTrue DEF AsksKept
<1>15. CASE CommitRelease(c)
  <2>1. StockInv' /\ (Agrees => Agrees')
    BY <1>15, CommitReleaseKeeps
  <2>2. asks' = asks
    BY <1>15 DEF CommitRelease
  <2> QED
    BY <2>1, <2>2 DEF AsksKept
<1>16. CASE StartCount(c)
  <2>1. StockInv'
    BY <1>16, StartCountKeeps
  <2>2. items' = items /\ product' = product /\ asks' = asks
    BY <1>16 DEF StartCount, stock
  <2> QED
    BY <2>1, <2>2, StaysTrue DEF AsksKept
<1>17. CASE CompleteCount(c)
  <2>1. StockInv'
    BY <1>17, CompleteCountKeeps
  <2>2. items' = items /\ product' = product /\ asks' = asks
    BY <1>17 DEF CompleteCount, stock
  <2> QED
    BY <2>1, <2>2, StaysTrue DEF AsksKept
<1>18. CASE LoadSession(c)
  <2>1. StockInv'
    BY <1>18, LoadSessionKeeps
  <2>2. items' = items /\ product' = product /\ asks' = asks
    BY <1>18 DEF LoadSession, stock
  <2> QED
    BY <2>1, <2>2, StaysTrue DEF AsksKept
<1>19. CASE LookAtShelf(c)
  <2>1. StockInv'
    BY <1>19, LookAtShelfKeeps
  <2>2. items' = items /\ product' = product /\ asks' = asks
    BY <1>19 DEF LookAtShelf, stock
  <2> QED
    BY <2>1, <2>2, StaysTrue DEF AsksKept
<1>20. CASE SaveCount(c)
  <2>1. StockInv'
    BY <1>20, SaveCountKeeps
  <2>2. items' = items /\ product' = product /\ asks' = asks
    BY <1>20 DEF SaveCount, stock
  <2> QED
    BY <2>1, <2>2, StaysTrue DEF AsksKept
<1>21. CASE AskAdjustment(c)
  <2>1. StockInv' /\ AsksKept
    BY <1>21, AskAdjustmentKeeps DEF AsksKept
  <2>2. items' = items /\ product' = product
    BY <1>21 DEF AskAdjustment, stock
  <2> QED
    BY <2>1, <2>2, StaysTrue DEF AsksKept
<1>22. CASE ReadAsk(c)
  <2>1. StockInv'
    BY <1>22, ReadAskKeeps
  <2>2. items' = items /\ product' = product /\ asks' = asks
    BY <1>22 DEF ReadAsk, stock
  <2> QED
    BY <2>1, <2>2, StaysTrue DEF AsksKept
<1>23. CASE WriteApproval(c)
  <2>1. StockInv'
    BY <1>23, WriteApprovalKeeps
  <2>2. items' = items /\ product' = product /\ asks' = asks
    BY <1>23 DEF WriteApproval, stock
  <2> QED
    BY <2>1, <2>2, StaysTrue DEF AsksKept
<1>24. CASE CommitApproval(c)
  <2>1. StockInv' /\ (Agrees => Agrees') /\ Posts(c)
    BY <1>24, CommitApprovalKeeps DEF Posts
  <2> QED
    BY <2>1
<1>25. CASE ReconProduct(c)
  <2>1. StockInv'
    BY <1>25, ReconProductKeeps
  <2>2. items' = items /\ product' = product /\ asks' = asks
    BY <1>25 DEF ReconProduct, stock
  <2> QED
    BY <2>1, <2>2, StaysTrue DEF AsksKept
<1>26. CASE ReconSums(c)
  <2>1. StockInv'
    BY <1>26, ReconSumsKeeps
  <2>2. items' = items /\ product' = product /\ asks' = asks
    BY <1>26 DEF ReconSums, stock
  <2> QED
    BY <2>1, <2>2, StaysTrue DEF AsksKept
<1>27. CASE ReconRepair(c)
  <2>1. StockInv' /\ (Agrees => Agrees')
    BY <1>27, ReconRepairKeeps
  <2>2. asks' = asks
    BY <1>27 DEF ReconRepair
  <2> QED
    BY <2>1, <2>2 DEF AsksKept
<1>28. CASE ReconRedis(c)
  <2>1. StockInv'
    BY <1>28, ReconRedisKeeps
  <2>2. items' = items /\ product' = product /\ asks' = asks
    BY <1>28 DEF ReconRedis, stock
  <2> QED
    BY <2>1, <2>2, StaysTrue DEF AsksKept
<1>29. CASE ReconSet(c)
  <2>1. StockInv'
    BY <1>29, ReconSetKeeps
  <2>2. items' = items /\ product' = product /\ asks' = asks
    BY <1>29 DEF ReconSet, stock
  <2> QED
    BY <2>1, <2>2, StaysTrue DEF AsksKept
<1>30. CASE Victim(c)
  <2>1. StockInv'
    BY <1>30, VictimKeeps
  <2>2. items' = items /\ product' = product /\ asks' = asks
    BY <1>30 DEF Victim, stock
  <2> QED
    BY <2>1, <2>2, StaysTrue DEF AsksKept
<1> QED
    BY <1>1, <1>2, <1>3, <1>4, <1>5, <1>6, <1>7, <1>8, <1>9, <1>10, <1>11, <1>12, <1>13, <1>14,
     <1>15, <1>16, <1>17, <1>18, <1>19, <1>20, <1>21, <1>22, <1>23, <1>24, <1>25, <1>26, <1>27,
     <1>28, <1>29, <1>30 DEF Step

\* Every step of the room keeps the invariant, and only the writer posts a count.
LEMMA NextKeeps ==
  ASSUME StockInv, [Next]_vars
  PROVE  /\ StockInv' /\ (Agrees => Agrees')
         /\ AsksKept \/ \E o \in Client : Posts(o)
<1>1. ASSUME NEW c \in Client, work[c].pc # "idle", Step(c)
      PROVE  StockInv' /\ (Agrees => Agrees') /\ (AsksKept \/ Posts(c))
  BY <1>1, StepKeeps
<1>2. ASSUME NEW c \in Client, work[c].pc # "idle", Retry(c) \/ Fail(c)
      PROVE  StockInv' /\ (Agrees => Agrees') /\ AsksKept
  <2>1. StockInv'
    BY <1>2, RetryKeeps, FailKeeps
  <2>2. items' = items /\ product' = product /\ asks' = asks
    BY <1>2 DEF Retry, Fail, stock
  <2> QED
    BY <2>1, <2>2, StaysTrue DEF AsksKept
<1>3. ASSUME NEW h \in DOMAIN holds, Expire(h)
      PROVE  StockInv' /\ (Agrees => Agrees') /\ AsksKept
  BY <1>3, ExpireKeeps DEF AsksKept
<1>4. CASE KeyExpires
  <2>1. items' = items /\ product' = product /\ asks' = asks
    BY <1>4 DEF KeyExpires, stock
  <2> QED
    BY <1>4, <2>1, KeyExpiresKeeps, StaysTrue DEF AsksKept
<1>5. CASE UNCHANGED vars
  <2>1. Still /\ clock' = clock /\ cache' = cache /\ faults' = faults /\ work' = work
    BY <1>5 DEF vars, Still
  <2>2. /\ Tables /\ clock \in Nat /\ cache \in Int \cup {NoValue} /\ faults \in 0 .. MaxFaults
        /\ work \in [Client -> Work]
    BY DEF StockInv, Tables, Typed
  <2>3. Tables' /\ \A o \in Client : Grows(o)
    BY <2>1, <2>2, Quiet
  <2>4. items' = items /\ product' = product /\ asks' = asks
    BY <1>5 DEF vars, stock
  <2> QED
    BY <2>1, <2>3, <2>4, Unmoving, StaysTrue DEF AsksKept
<1> QED
  BY <1>1, <1>2, <1>3, <1>4, <1>5 DEF Next

-----------------------------------------------------------------------------
(* What the invariant says *)

\* Of two postings of counts, neither the requests nor the sessions are the same.
LEMMA PostedOnce ==
  ASSUME PostingsInv
  PROVE  CountPostedOnce
<1> SUFFICES ASSUME NEW m \in DOMAIN moves, NEW n \in DOMAIN moves,
                    m # n, moves[m].kind = "count", moves[n].kind = "count"
             PROVE  /\ moves[m].key # moves[n].key
                    /\ asks[moves[m].key].session # 0 =>
                         asks[moves[m].key].session # asks[moves[n].key].session
  BY DEF CountPostedOnce
<1>1. moves[m].key # moves[n].key
  BY DEF PostingsInv
<1>2. moves[m].key \in DOMAIN asks /\ moves[n].key \in DOMAIN asks
  BY DEF PostingsInv
<1> QED
  BY <1>1, <1>2 DEF PostingsInv

\* At most one transaction holds the Product row.
LEMMA OneCommit ==
  ASSUME OneWriter
  PROVE  Cardinality({c \in Client : work[c].pc = "commit"}) <= 1
<1> DEFINE W == {c \in Client : work[c].pc = "commit"}
<1>1. CASE W = {}
  BY <1>1, FS_EmptySet
<1>2. ASSUME NEW c \in W
      PROVE  Cardinality(W) <= 1
  <2>1. W = {c}
    BY DEF OneWriter, Writing
  <2> HIDE DEF W
  <2> QED
    BY <2>1, FS_Singleton
<1> QED
  BY <1>1, <1>2

\* The inductive invariant is stronger than what the runs check.
LEMMA InvSound == StockInv => StockSound
<1> SUFFICES ASSUME StockInv PROVE StockSound
  OBVIOUS
<1>1. /\ Typed /\ HoldsBacked /\ MovesInv /\ MovedOncePerKey /\ PostingsInv /\ OneWriter
  BY DEF StockInv, Tables
<1>2. ASSUME NEW m \in DOMAIN moves
      PROVE  moves[m].item \in Item /\ moves[m].at <= clock
  <2>1. moves[m] \in MoveRow
    BY <1>1 DEF Typed
  <2> QED
    BY <1>1, <2>1 DEF MoveRow, MovesInv
<1>3. ASSUME NEW h \in DOMAIN holds
      PROVE  holds[h].alloc \in [Item -> Nat]
  <2>1. holds[h] \in HoldRow
    BY <1>1 DEF Typed
  <2> QED
    BY <2>1 DEF HoldRow
<1>4. TypeOK
  BY <1>1, <1>2, <1>3, OneCommit DEF Typed, ItemsTyped, TypeOK
<1>5. CountPostedOnce
  BY <1>1, PostedOnce
<1> QED
  BY <1>1, <1>4, <1>5 DEF StockSound, MovesInv

\* Where a count is posted by the writer, the row is left at what was on the shelf.
LEMMA PostingExact ==
  ASSUME StockInv, AsksKept \/ \E o \in Client : Posts(o),
         NEW c \in Client, At(c, "approve", "commit"), work[c].shot # <<>>,
         asks'[Req(c).ref] # asks[Req(c).ref]
  PROVE  LET x == work[c].shot[1] IN
         items'[x.item].onHand =
           x.counted + NetBetween(x.item, x.countedAt, clock, Len(moves)) + Unseen(work[c], x)
<1>1. work[c].left # <<>>
  BY Acting DEF At
<1>2. Req(c).ref \in DOMAIN asks
  BY <1>1 DEF StockInv, Knows, KnowsAsk
<1>3. PICK o \in Client : Posts(o)
  BY <1>2 DEF AsksKept
<1>4. o = c
  BY <1>3 DEF Posts, Writing, At, StockInv, OneWriter
<1> QED
  BY <1>3, <1>4 DEF Posts, Exact

(***************************************************************************)
(* The rows, the ledger, the holds and the postings of a product agree in  *)
(* every state: for any locations, clients and scripts, at both isolation  *)
(* levels and with any number of rollbacks, deadlock victims and crashes,  *)
(* reserved is what the open holds have, the ledger rebuilds every row in  *)
(* the order of its balances, a key moves stock once and a count is posted *)
(* once.                                                                   *)
(***************************************************************************)
THEOREM RoomStaysSound == Spec => []StockSound
<1>1. Init => StockInv
  BY InitKeeps
<1>2. StockInv /\ [Next]_vars => StockInv'
  BY NextKeeps
<1> QED
  BY <1>1, <1>2, InvSound, PTL DEF Spec

(***************************************************************************)
(* Product.currentStock, once it is the sum of its rows, stays the sum:    *)
(* every movement changes both by the same amount, and the nightly job     *)
(* writes the sum it read only if no movement came in between.             *)
(***************************************************************************)
THEOREM AggregateStaysTrue == Spec => StockStaysTrue
<1>1. Init => StockInv
  BY InitKeeps
<1>2. StockInv /\ [Next]_vars => StockInv' /\ [Agrees => Agrees']_vars
  BY NextKeeps
<1> QED
  BY <1>1, <1>2, PTL DEF Spec, StockStaysTrue

(***************************************************************************)
(* At either isolation level the posting of a count leaves the shelf as    *)
(* counted plus what moved since, whatever was in flight at the count or   *)
(* at its approval, and but for the movements from before the count that   *)
(* the approving transaction does not see: none where a statement sees     *)
(* every commit, and where there is a snapshot those committed after it.   *)
(***************************************************************************)
THEOREM CountsStayExact == Spec => CountsExact
<1> DEFINE AsCounted(c) ==
             (At(c, "approve", "commit") /\ work[c].shot # <<>> /\ asks'[Req(c).ref] # asks[Req(c).ref]) =>
               LET x == work[c].shot[1] IN
               items'[x.item].onHand =
                 x.counted + NetBetween(x.item, x.countedAt, clock, Len(moves)) + Unseen(work[c], x)
<1>1. Init => StockInv
  BY InitKeeps
<1>2. StockInv /\ [Next]_vars => StockInv' /\ [\A c \in Client : AsCounted(c)]_vars
  <2> SUFFICES ASSUME StockInv, [Next]_vars PROVE StockInv' /\ \A c \in Client : AsCounted(c)
    OBVIOUS
  <2> QED
    BY NextKeeps, PostingExact
<1> QED
  BY <1>1, <1>2, PTL DEF Spec, CountsExact
=============================================================================
