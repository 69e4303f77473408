------------------------------ MODULE StockRoom ------------------------------
(***************************************************************************)
(* Everything that moves or holds the stock of one product, at the same    *)
(* time: the POS sale with its Redis pre-check, goods receipts, stock      *)
(* adjustments, opening stock, transfers, reservations and their expiry    *)
(* sweep, stock counts with their adjustment requests, and the nightly     *)
(* inventory reconciliation.                                               *)
(*                                                                         *)
(* A client sends the requests of its script one after the other.  A       *)
(* transaction that moves stock takes the exclusive lock of the Product    *)
(* row at "write", where it also reads, decides and stamps its ledger      *)
(* rows, and its writes become visible at "commit", which lets the lock    *)
(* go.  What it read under the lock cannot change in between.              *)
(***************************************************************************)
EXTENDS StockBooks

CONSTANTS Client,
          Scripts,        \* what the clients may do: functions from Client to sequences of requests
          ServerDefault,  \* the isolation level of a transaction that names none
          MaxFaults       \* bound: rollbacks, crashes and lost cache keys in one run

\* A transfer between one location and itself is refused; these requests carry a key of the ledger's.
Allowed(r) ==
  /\ r.kind = "transfer" => r.item # r.to
  /\ r.key # 0 => r.kind \in {"adjust", "opening", "transfer"}

ASSUME ScriptsAssumption ==
  /\ \A s \in Scripts : DOMAIN s = Client /\ \A c \in Client : s[c] \in Seq({r \in Request : Allowed(r)})
  /\ ServerDefault \in {"READ COMMITTED", "REPEATABLE READ"}
  /\ MaxFaults \in Nat

VARIABLES work,           \* what each client is doing
          faults

vars == <<stock, holds, sessions, asks, cache, clock, work, faults>>

-----------------------------------------------------------------------------
(* The steps of a handler *)

Path(kind) ==
  CASE kind = "sale"     -> <<"look", "cache", "write", "commit", "sync">>
    [] kind = "receipt"  -> <<"write", "commit">>
    [] kind \in {"adjust", "opening", "transfer"} -> <<"write", "commit", "sync">>
    [] kind = "import"   -> <<"ensure", "write", "commit", "sync">>
    [] kind = "reserve"  -> <<"check", "header", "insert", "write", "commit">>
    [] kind = "release"  -> <<"load", "write", "commit">>
    [] kind = "sweep"    -> <<"find", "write", "commit">>
    [] kind = "count"    -> <<"load", "look", "save">>
    [] kind = "approve"  -> <<"read", "write", "commit">>
    [] kind = "recon"    -> <<"product", "sums", "repair", "redis", "set">>
    [] OTHER             -> <<"once">>            \* start, complete, ask

\* The jobs the scheduler starts again and again.
Cron == {"sweep", "recon"}

Idle == [left |-> <<>>, pc |-> "idle", at |-> 0, seen |-> 0, version |-> 0, took |-> FALSE,
         avail |-> [i \in Item |-> 0], rows |-> 0, shot |-> <<>>, todo |-> {}]

Begin(script) ==
  IF script = <<>> THEN Idle
  ELSE [Idle EXCEPT !.left = script, !.pc = Path(Head(script).kind)[1]]

Init == InitStock /\ faults = 0 /\ \E s \in Scripts : work = [c \in Client |-> Begin(s[c])]

Req(c) == Head(work[c].left)

At(c, kind, pc) == work[c].pc = pc /\ Req(c).kind = kind

Becomes(c, me) == work' = [work EXCEPT ![c] = me]

Go(c, me) ==
  LET path == Path(Req(c).kind)
      here == CHOOSE n \in DOMAIN path : path[n] = me.pc
  IN  Becomes(c, [me EXCEPT !.pc = path[here + 1]])

\* The answer is sent; a cron job waits for its next tick.
Done(c) ==
  Becomes(c, Begin(IF Req(c).kind \in Cron THEN work[c].left ELSE Tail(work[c].left)))

-----------------------------------------------------------------------------
(* The Product row lock *)

\* Mutant of Writing: the lock is taken and let go before the writes.
WritingUnlocked(c) == FALSE

\* A transaction holds the Product row exclusively.
Writing(c) == work[c].pc = "commit"

\* The foreign key of its inserted line gives a reservation the shared lock.
Shares(c) == work[c].pc = "write" /\ Req(c).kind = "reserve"

Unlocked(c) == \A o \in Client \ {c} : ~Writing(o) /\ ~Shares(o)

\* What a statement of a transaction that names no isolation level sees of the stock ledger.
Visible(me) == IF ServerDefault = "REPEATABLE READ" THEN me.rows ELSE Len(moves)

Tick == clock' = clock + 1

-----------------------------------------------------------------------------
(* InventoryCacheService *)

\* RESTORE_LUA: an existing key only.
Restored(me, r) == IF me.took /\ cache # NoValue THEN cache + r.qty ELSE cache

\* DECREMENT_LUA, and the repair of a cache that says less than the database.
PreCheck(c) ==
  LET r == Req(c)
      ok == cache # NoValue /\ cache >= r.qty
  IN
  /\ At(c, "sale", "cache")
  /\ cache' = IF ok THEN cache - r.qty ELSE IF cache = NoValue THEN cache ELSE work[c].seen
  /\ Go(c, [work[c] EXCEPT !.took = ok])
  /\ UNCHANGED <<stock, holds, sessions, asks, clock, faults>>

\* syncStock with the aggregate the transaction left.
SyncCache(c) ==
  /\ work[c].pc = "sync"
  /\ cache' = work[c].seen
  /\ Done(c)
  /\ UNCHANGED <<stock, holds, sessions, asks, clock, faults>>

-----------------------------------------------------------------------------
(* Sales, receipts, adjustments, transfers, opening stock *)

\* loadAvailability
ForSale ==
  IF items[SaleItem].live THEN Available(items, SaleItem)
  ELSE IF LiveItems(items) = {} THEN product.stock ELSE 0

LookForSale(c) ==
  /\ At(c, "sale", "look")
  /\ IF ForSale < Req(c).qty THEN Done(c) ELSE Go(c, [work[c] EXCEPT !.seen = product.stock])
  /\ UNCHANGED <<stock, holds, sessions, asks, cache, clock, faults>>

\* ensureInventoryItem in a transaction of its own.
EnsureRow(c) ==
  LET placed == Ensured(items, SaleItem, clock + 1) IN
  /\ At(c, "import", "ensure") /\ Unlocked(c)
  /\ items' = placed
  /\ moves' = moves \o BootstrapRows(placed, clock + 1)
  /\ Tick /\ Go(c, work[c])
  /\ UNCHANGED <<product, holds, sessions, asks, cache, faults>>

Moving == {"sale", "receipt", "adjust", "opening", "transfer", "import"}

\* The movement is in the stock ledger already, as it is asked for now.
Replayed(r) ==
  CASE r.kind \in {"adjust", "opening"} ->
         \E m \in Keyed(r) : moves[m].item = r.item /\ moves[m].qty \in {r.qty, -r.qty}
    [] r.kind = "transfer" ->
         /\ \E m \in Keyed(r) : moves[m].item = r.item /\ moves[m].qty = -r.qty
         /\ \E m \in Keyed(r) : moves[m].item = r.to /\ moves[m].qty = r.qty
    [] r.kind = "import" -> \E m \in ImportedOpening(SaleItem) : moves[m].qty = r.qty
    [] OTHER -> FALSE

\* Mutant of Permitted: an opening balance looks only for imported ones.
PermittedOpening(r) ==
  /\ Keyed(r) = {}
  /\ r.kind \in {"adjust", "opening"} => items[r.item].live
  /\ r.kind = "opening" => ImportedOpening(r.item) = {}
  /\ r.kind = "import" => MovesOf(SaleItem) = {}
  /\ Enough(Steps(r), clock + 1)

\* What a movement requires of the rows it reads under the lock.
Permitted(r) ==
  /\ Keyed(r) = {}
  /\ r.kind \in {"adjust", "opening"} => items[r.item].live
  /\ r.kind = "opening" => OpeningMoves(r.item) = {}
  /\ r.kind = "import" => MovesOf(SaleItem) = {}
  /\ Enough(Steps(r), clock + 1)

\* A replayed adjustment still refreshes the cache; a replayed transfer or import does not.
WriteMove(c) ==
  LET r == Req(c) IN
  /\ r.kind \in Moving /\ work[c].pc = "write" /\ Unlocked(c)
  /\ \/ Permitted(r) /\ Tick /\ Go(c, [work[c] EXCEPT !.at = clock + 1]) /\ UNCHANGED cache
     \/ /\ Replayed(r) /\ UNCHANGED <<clock, cache>>
        /\ IF r.kind \in {"adjust", "opening"}
           THEN Becomes(c, [work[c] EXCEPT !.pc = "sync", !.seen = product.stock])
           ELSE Done(c)
     \/ /\ ~Permitted(r) /\ ~Replayed(r)
        /\ cache' = Restored(work[c], r) /\ Done(c) /\ UNCHANGED clock
  /\ UNCHANGED <<stock, holds, sessions, asks, faults>>

CommitMove(c) ==
  LET r == Req(c) IN
  /\ r.kind \in Moving /\ work[c].pc = "commit"
  /\ Move(Steps(r), r.kind, r.key, work[c].at)
  /\ IF r.kind = "receipt" THEN Done(c)
     ELSE Go(c, [work[c] EXCEPT !.seen = product'.stock])
  /\ UNCHANGED <<holds, sessions, asks, cache, clock, faults>>

-----------------------------------------------------------------------------
(* Reservations *)

AvailableNow == [i \in Item |-> Available(items, i)]

\* validateAvailabilityOrThrow, before the transaction.
CheckAvailability(c) ==
  /\ At(c, "reserve", "check")
  /\ IF SumFunctionOnSet(AvailableNow, LiveItems(items)) < Req(c).qty
     THEN Done(c) ELSE Go(c, work[c])
  /\ UNCHANGED <<stock, holds, sessions, asks, cache, clock, faults>>

\* The header; its read gives the transaction its snapshot, where it has one.
WriteHeader(c) ==
  /\ At(c, "reserve", "header")
  /\ Go(c, [work[c] EXCEPT !.avail = AvailableNow])
  /\ UNCHANGED <<stock, holds, sessions, asks, cache, clock, faults>>

\* The line, and the availability allocateStockFifo reads.
InsertLine(c) ==
  /\ At(c, "reserve", "insert") /\ \A o \in Client \ {c} : ~Writing(o)
  /\ Go(c, [work[c] EXCEPT
              !.avail = IF ServerDefault = "REPEATABLE READ" THEN @ ELSE AvailableNow])
  /\ UNCHANGED <<stock, holds, sessions, asks, cache, clock, faults>>

\* Everything is allocated, and the conditional UPDATE of every row agrees.
MayReserve(alloc, qty) ==
  /\ Allocated(alloc) = qty
  /\ \A i \in Item : alloc[i] > 0 => Available(items, i) >= alloc[i]

WriteReserve(c) ==
  LET alloc == Allocation(work[c].avail, Req(c).qty) IN
  /\ At(c, "reserve", "write") /\ Unlocked(c)
  /\ IF MayReserve(alloc, Req(c).qty) THEN Go(c, [work[c] EXCEPT !.avail = alloc]) ELSE Done(c)
  /\ UNCHANGED <<stock, holds, sessions, asks, cache, clock, faults>>

CommitReserve(c) ==
  /\ At(c, "reserve", "commit")
  /\ Reserve(work[c].avail)
  /\ Done(c)
  /\ UNCHANGED <<product, moves, sessions, asks, cache, clock, faults>>

\* expiresAt passes.
Expire(h) ==
  /\ ActiveHold(h) /\ ~holds[h].due
  /\ holds' = [holds EXCEPT ![h].due = TRUE]
  /\ UNCHANGED <<stock, sessions, asks, cache, clock, work, faults>>

\* releaseReservation: the route's look at the reservation.
LoadHold(c) ==
  LET h == Req(c).ref IN
  /\ At(c, "release", "load")
  /\ IF h \in DOMAIN holds /\ ActiveHold(h) THEN Go(c, [work[c] EXCEPT !.todo = {h}]) ELSE Done(c)
  /\ UNCHANGED <<stock, holds, sessions, asks, cache, clock, faults>>

\* Mutant of FindDue: the sweep asks for RESERVED reservations only.
FindDueReserved(c) ==
  LET due == {h \in DOMAIN holds : holds[h].status = "RESERVED" /\ holds[h].due} IN
  /\ At(c, "sweep", "find") /\ due # {}
  /\ Go(c, [work[c] EXCEPT !.todo = due])
  /\ UNCHANGED <<stock, holds, sessions, asks, cache, clock, faults>>

\* releaseExpiredReservations: the sweep's list.
FindDue(c) ==
  LET due == {h \in DOMAIN holds : ActiveHold(h) /\ holds[h].due} IN
  /\ At(c, "sweep", "find") /\ due # {}
  /\ Go(c, [work[c] EXCEPT !.todo = due])
  /\ UNCHANGED <<stock, holds, sessions, asks, cache, clock, faults>>

Releasing == {"release", "sweep"}

\* The list without h, or the end of it.
Passed(c, h) ==
  IF work[c].todo = {h} THEN Done(c)
  ELSE Becomes(c, [work[c] EXCEPT !.pc = "write", !.todo = @ \ {h}])

\* Mutant of StillLocked: what the list said is trusted.
StillLockedAsRead(h) == TRUE

\* The status guards of releaseOne.
StillLocked(h) == ActiveHold(h)

\* releaseOne: a hold that somebody else closed is left alone.
WriteRelease(c) ==
  /\ Req(c).kind \in Releasing /\ work[c].pc = "write" /\ Unlocked(c)
  /\ \E h \in work[c].todo :
       IF StillLocked(h) THEN Go(c, [work[c] EXCEPT !.seen = h]) ELSE Passed(c, h)
  /\ UNCHANGED <<stock, holds, sessions, asks, cache, clock, faults>>

CommitRelease(c) ==
  LET h == work[c].seen IN
  /\ Req(c).kind \in Releasing /\ work[c].pc = "commit"
  /\ Free(h, IF Req(c).kind = "sweep" THEN "EXPIRED" ELSE "RELEASED")
  /\ Passed(c, h)
  /\ UNCHANGED <<product, moves, sessions, asks, cache, clock, faults>>

-----------------------------------------------------------------------------
(* Stock counts *)

\* Mutant of StartCount: the rows are read without the shared lock.
StartCountUnlocked(c) ==
  LET i == Req(c).item IN
  /\ At(c, "start", "once")
  /\ sessions' = IF items[i].live THEN Append(sessions, NewSession(i, clock + 1)) ELSE sessions
  /\ Tick /\ Done(c)
  /\ UNCHANGED <<stock, holds, asks, cache, faults>>

(***************************************************************************)
(* startCountSession reads the rows under a shared lock, so a movement in  *)
(* flight commits first; the instant is taken after the read.  A row that  *)
(* does not exist is not part of the session.                              *)
(***************************************************************************)
StartCount(c) ==
  LET i == Req(c).item IN
  /\ At(c, "start", "once") /\ \A o \in Client \ {c} : ~Writing(o)
  /\ sessions' = IF items[i].live THEN Append(sessions, NewSession(i, clock + 1)) ELSE sessions
  /\ Tick /\ Done(c)
  /\ UNCHANGED <<stock, holds, asks, cache, faults>>

CompleteCount(c) ==
  /\ At(c, "complete", "once")
  /\ sessions' = [s \in DOMAIN sessions |->
                    IF s = Req(c).ref THEN [sessions[s] EXCEPT !.status = "UNDER_REVIEW"]
                    ELSE sessions[s]]
  /\ Done(c)
  /\ UNCHANGED <<stock, holds, asks, cache, clock, faults>>

\* calculateAndSaveVariance: the session, the variance at this instant, the count's row.
LoadSession(c) ==
  LET s == Req(c).ref IN
  /\ At(c, "count", "load")
  /\ IF s \in DOMAIN sessions /\ sessions[s].status = "IN_PROGRESS" THEN Go(c, work[c]) ELSE Done(c)
  /\ UNCHANGED <<stock, holds, sessions, asks, cache, clock, faults>>

LookAtShelf(c) ==
  LET counted == [sessions[Req(c).ref] EXCEPT !.counted = Req(c).qty, !.countedAt = clock + 1] IN
  /\ At(c, "count", "look")
  /\ Tick
  /\ Go(c, [work[c] EXCEPT !.at = clock + 1, !.seen = CountVariance(counted, Len(moves))])
  /\ UNCHANGED <<stock, holds, sessions, asks, cache, faults>>

SaveCount(c) ==
  /\ At(c, "count", "save")
  /\ sessions' = [sessions EXCEPT ![Req(c).ref].counted = Req(c).qty,
                                  ![Req(c).ref].countedAt = work[c].at,
                                  ![Req(c).ref].variance = work[c].seen]
  /\ Done(c)
  /\ UNCHANGED <<stock, holds, asks, cache, clock, faults>>

(***************************************************************************)
(* requestAdjustment, all of it under the lock of the count's row.  ref 0  *)
(* is a request without a count: its delta comes from the caller.          *)
(***************************************************************************)
MayAsk(r) ==
  IF r.ref = 0 THEN r.qty # 0 /\ items[r.item].live
  ELSE /\ r.ref \in DOMAIN sessions /\ sessions[r.ref].counted # NoValue
       /\ LiveAsks(r.ref) = {}
       /\ CountVariance(sessions[r.ref], Len(moves)) # 0

Asked(r) ==
  [session |-> r.ref, status |-> "PENDING_APPROVAL", by |-> r.actor,
   item |-> IF r.ref = 0 THEN r.item ELSE sessions[r.ref].item,
   delta |-> IF r.ref = 0 THEN r.qty ELSE CountVariance(sessions[r.ref], Len(moves))]

AskAdjustment(c) ==
  /\ At(c, "ask", "once")
  /\ asks' = IF MayAsk(Req(c)) THEN Append(asks, Asked(Req(c))) ELSE asks
  /\ Done(c)
  /\ UNCHANGED <<stock, holds, sessions, cache, clock, faults>>

Pending(a) == a \in DOMAIN asks /\ asks[a].status = "PENDING_APPROVAL"

\* approveAdjustment reads the request; the snapshot, where there is one, is taken here.
ReadAsk(c) ==
  LET a == Req(c).ref IN
  /\ At(c, "approve", "read")
  /\ IF Pending(a) /\ asks[a].by # Req(c).actor
     THEN Go(c, [work[c] EXCEPT !.rows = Len(moves), !.shot = sessions]) ELSE Done(c)
  /\ UNCHANGED <<stock, holds, sessions, asks, cache, clock, faults>>

\* The count as the approving transaction sees it.
CountSeen(me, a) ==
  (IF ServerDefault = "REPEATABLE READ" THEN me.shot ELSE sessions)[asks[a].session]

\* The delta recomputed under the product lock.
Recomputed(me, a) ==
  IF asks[a].session = 0 THEN asks[a].delta ELSE CountVariance(CountSeen(me, a), Visible(me))

\* Mutant of StillPending: the claim does not look at the status.
StillPendingAsRead(a) == TRUE

\* The status-guarded claim.
StillPending(a) == asks[a].status = "PENDING_APPROVAL"

Adjusting(a, delta) == <<[item |-> asks[a].item, qty |-> delta]>>

WriteApproval(c) ==
  LET a == Req(c).ref
      delta == Recomputed(work[c], a)
      allowed == StillPending(a) /\ (delta = 0 \/ Enough(Adjusting(a, delta), clock + 1))
  IN
  /\ At(c, "approve", "write") /\ Unlocked(c)
  /\ \/ /\ allowed /\ Tick
        /\ Go(c, [work[c] EXCEPT
                    !.at = clock + 1, !.seen = delta,
                    !.shot = IF asks[a].session = 0 THEN <<>> ELSE <<CountSeen(work[c], a)>>])
     \/ ~allowed /\ Done(c) /\ UNCHANGED clock
  /\ UNCHANGED <<stock, holds, sessions, asks, cache, faults>>

\* postApprovedAdjustment; a delta of zero posts nothing.
CommitApproval(c) ==
  LET a == Req(c).ref
      delta == work[c].seen
  IN
  /\ At(c, "approve", "commit")
  /\ asks' = [asks EXCEPT ![a].status = "POSTED", ![a].delta = delta]
  /\ IF delta = 0 THEN UNCHANGED stock ELSE Move(Adjusting(a, delta), "count", a, work[c].at)
  /\ Done(c)
  /\ UNCHANGED <<holds, sessions, cache, clock, faults>>

-----------------------------------------------------------------------------
(* The inventory reconciliation *)

ReconProduct(c) ==
  /\ At(c, "recon", "product")
  /\ Go(c, [work[c] EXCEPT !.seen = product.stock, !.version = product.version])
  /\ UNCHANGED <<stock, holds, sessions, asks, cache, clock, faults>>

\* The sums come from a second query; a product without rows is skipped.
ReconSums(c) ==
  LET sum == OnHandSum(items) IN
  /\ At(c, "recon", "sums")
  /\ IF LiveItems(items) = {} \/ sum = work[c].seen
     THEN Becomes(c, [work[c] EXCEPT !.pc = "redis"])
     ELSE Go(c, [work[c] EXCEPT !.rows = sum])
  /\ UNCHANGED <<stock, holds, sessions, asks, cache, clock, faults>>

\* Mutant of Unmoved: the repair does not compare the version.
UnmovedUnchecked(me) == TRUE

\* The compare-and-swap on stockVersion.
Unmoved(me) == product.version = me.version

ReconRepair(c) ==
  /\ At(c, "recon", "repair") /\ Unlocked(c)
  /\ IF Unmoved(work[c])
     THEN /\ product' = [stock |-> work[c].rows, version |-> product.version + 1]
          /\ Go(c, [work[c] EXCEPT !.seen = work[c].rows])
     ELSE UNCHANGED product /\ Go(c, work[c])
  /\ UNCHANGED <<items, moves, holds, sessions, asks, cache, clock, faults>>

\* Mutant of Drifted: a key that is too high is left alone.
DriftedLow(me) == cache # NoValue /\ cache < me.seen

Drifted(me) == cache # NoValue /\ cache # me.seen

ReconRedis(c) ==
  /\ At(c, "recon", "redis")
  /\ IF Drifted(work[c]) THEN Go(c, work[c]) ELSE Done(c)
  /\ UNCHANGED <<stock, holds, sessions, asks, cache, clock, faults>>

ReconSet(c) ==
  /\ At(c, "recon", "set")
  /\ cache' = work[c].seen
  /\ Done(c)
  /\ UNCHANGED <<stock, holds, sessions, asks, clock, faults>>

-----------------------------------------------------------------------------
(* Faults *)

\* Flows the database's rollbacks are retried for, from the start of the transaction.
Retried == {"sale", "adjust", "opening", "transfer"}

Fault == faults < MaxFaults /\ faults' = faults + 1

\* Every key has a TTL, and Redis may lose it.
KeyExpires ==
  /\ cache # NoValue /\ cache' = NoValue
  /\ Fault
  /\ UNCHANGED <<stock, holds, sessions, asks, clock, work>>

\* A rolled-back transaction that is run again.
Retry(c) ==
  /\ work[c].pc = "commit" /\ Req(c).kind \in Retried
  /\ Fault
  /\ Becomes(c, [work[c] EXCEPT !.pc = "write"])
  /\ UNCHANGED <<stock, holds, sessions, asks, cache, clock>>

(***************************************************************************)
(* The request ends where it is: an error, after which the sale gives its  *)
(* Redis decrement back, or a crash, after which nobody does.  A sweep     *)
(* goes on with the next hold after an error; the scheduler starts a       *)
(* crashed job again.                                                      *)
(***************************************************************************)
Fail(c) ==
  /\ work[c].pc # "idle"
  /\ Fault
  /\ cache' \in {cache, IF work[c].pc = "sync" THEN cache ELSE Restored(work[c], Req(c))}
  /\ \/ Done(c)
     \/ At(c, "sweep", "commit") /\ Passed(c, work[c].seen)
  /\ UNCHANGED <<stock, holds, sessions, asks, clock>>

(***************************************************************************)
(* A reservation that turns its shared lock into the exclusive one while   *)
(* another transaction waits for the row is a deadlock: the database rolls *)
(* one of the two back.  A retried flow only waits again.                  *)
(***************************************************************************)
Victim(c) ==
  /\ work[c].pc = "write" /\ Req(c).kind \notin Retried
  /\ \E o \in Client \ {c} : work[o].pc = "write" /\ (Shares(c) \/ Shares(o))
  /\ \/ Req(c).kind # "sweep" /\ Done(c)
     \/ Req(c).kind = "sweep" /\ \E h \in work[c].todo : Passed(c, h)
  /\ UNCHANGED <<stock, holds, sessions, asks, cache, clock, faults>>

-----------------------------------------------------------------------------
Step(c) ==
  \/ LookForSale(c) \/ PreCheck(c) \/ EnsureRow(c) \/ WriteMove(c) \/ CommitMove(c) \/ SyncCache(c)
  \/ CheckAvailability(c) \/ WriteHeader(c) \/ InsertLine(c) \/ WriteReserve(c) \/ CommitReserve(c)
  \/ LoadHold(c) \/ FindDue(c) \/ WriteRelease(c) \/ CommitRelease(c)
  \/ StartCount(c) \/ CompleteCount(c) \/ LoadSession(c) \/ LookAtShelf(c) \/ SaveCount(c)
  \/ AskAdjustment(c) \/ ReadAsk(c) \/ WriteApproval(c) \/ CommitApproval(c)
  \/ ReconProduct(c) \/ ReconSums(c) \/ ReconRepair(c) \/ ReconRedis(c) \/ ReconSet(c)
  \/ Victim(c)

Next ==
  \/ \E c \in Client : work[c].pc # "idle" /\ (Step(c) \/ Retry(c) \/ Fail(c))
  \/ \E h \in DOMAIN holds : Expire(h)
  \/ KeyExpires

Spec == Init /\ [][Next]_vars

\* Every request in flight goes on, and the scheduler starts its jobs; nothing makes a key expire.
FairSpec == Spec /\ \A c \in Client : WF_vars(work[c].pc # "idle" /\ Step(c))

-----------------------------------------------------------------------------
(* Properties *)

(***************************************************************************)
(* Types.  Also: what a client still has to do is the rest of its script,  *)
(* and at most one transaction holds the Product row.                      *)
(***************************************************************************)
TypeOK ==
  /\ items \in [Item -> [live : BOOLEAN, onHand : Int, reserved : Nat, born : Nat]]
  /\ product \in [stock : Int, version : Nat]
  /\ \A m \in DOMAIN moves : moves[m].item \in Item /\ moves[m].at <= clock
  /\ \A h \in DOMAIN holds : holds[h].alloc \in [Item -> Nat]
  /\ cache \in Int \cup {NoValue}
  /\ faults \in 0..MaxFaults
  /\ Cardinality({c \in Client : work[c].pc = "commit"}) <= 1

Agrees == LiveItems(items) # {} => product.stock = OnHandSum(items)

(***************************************************************************)
(* Product.currentStock is the sum of the live rows and stays it: sales,   *)
(* receipts, transfers, the legacy bootstrap and the nightly job, with its *)
(* two reads and its write at different moments, in any order.             *)
(***************************************************************************)
StockStaysTrue == [][Agrees => Agrees']_vars

(***************************************************************************)
(* reserved is what the open reservations hold, and no row has sold, moved *)
(* or adjusted away what is held: two releases of one reservation free it  *)
(* once, and a sale cannot take held stock.                                *)
(***************************************************************************)
HoldsBacked ==
  \A i \in Item :
    /\ items[i].reserved =
         SumFunctionOnSet([h \in DOMAIN holds |-> holds[h].alloc[i]], {h \in DOMAIN holds : ActiveHold(h)})
    /\ items[i].reserved <= items[i].onHand

(***************************************************************************)
(* The stock ledger rebuilds every row: its quantities add up to onHand,   *)
(* each balanceAfter is the sum so far, and the ledger's times are in the  *)
(* order of its balances, as the comment at the insert says.               *)
(***************************************************************************)
LedgerRebuilds ==
  /\ \A i \in Item : items[i].onHand = Added(MovesOf(i))
  /\ \A m \in DOMAIN moves :
       moves[m].balance = Added({n \in MovesOf(moves[m].item) : n <= m})
  /\ \A m, n \in DOMAIN moves : m < n => moves[m].at <= moves[n].at

(***************************************************************************)
(* A retried request moves stock once: one adjustment per key, one pair of *)
(* movements per transfer key, one opening per row, and nothing before an  *)
(* imported opening.                                                       *)
(***************************************************************************)
MovedOncePerKey ==
  /\ \A m, n \in DOMAIN moves :
       (/\ m # n /\ moves[m].key # 0 /\ moves[m].key = moves[n].key
        /\ moves[m].kind # "count" /\ moves[m].kind = moves[n].kind)
         => moves[m].kind = "transfer" /\ moves[m].item # moves[n].item
  /\ \A i \in Item : Cardinality(OpeningMoves(i)) <= 1
  /\ \A i \in Item : \A m \in ImportedOpening(i) : \A n \in MovesOf(i) : m <= n

(***************************************************************************)
(* However many managers approve it at once, a count is posted at most     *)
(* once.                                                                   *)
(***************************************************************************)
CountPostedOnce ==
  \A m, n \in DOMAIN moves :
    (m # n /\ moves[m].kind = "count" /\ moves[n].kind = "count")
      => /\ moves[m].key # moves[n].key
         /\ asks[moves[m].key].session # 0 => asks[moves[m].key].session # asks[moves[n].key].session

\* What moved between a session's snapshot and its count, and the transaction does not see.
Unseen(me, x) ==
  Added({m \in MovesOf(x.item) :
           m > Visible(me) /\ x.startedAt < moves[m].at /\ moves[m].at <= x.countedAt})

(***************************************************************************)
(* The posting of a count leaves the row at what was on the shelf when it  *)
(* was counted, plus everything that moved since: a sale in flight during  *)
(* the count is neither lost nor subtracted twice.  A transaction with a   *)
(* snapshot is exact but for the movements from before the count that      *)
(* committed after the snapshot: those, and no others, are posted twice.   *)
(***************************************************************************)
CountsExact ==
  [][\A c \in Client :
       (At(c, "approve", "commit") /\ work[c].shot # <<>> /\ asks'[Req(c).ref] # asks[Req(c).ref]) =>
         LET x == work[c].shot[1] IN
         items'[x.item].onHand =
           x.counted + NetBetween(x.item, x.countedAt, clock, Len(moves)) + Unseen(work[c], x)]_vars

Due(h) == h \in DOMAIN holds /\ holds[h].due /\ ActiveHold(h)

(***************************************************************************)
(* The stock of an expired reservation is given back, also when a sweep    *)
(* loses it to a deadlock, a rollback or a crash.  (Bound: no script       *)
(* reserves more than twice.)                                              *)
(***************************************************************************)
DueHoldsFreed == \A h \in 1..2 : Due(h) ~> ~Due(h)

Scheduled(kind) == \E c \in Client : work[c].left # <<>> /\ Req(c).kind = kind

(***************************************************************************)
(* Where the nightly job runs, the aggregate and Redis agree with the rows *)
(* in the end, whatever drift the day began with and whatever decrements,  *)
(* syncs and compensations crossed each other; no key has to expire.       *)
(***************************************************************************)
CachesConverge ==
  Scheduled("recon") => <>[](Agrees /\ cache \in {NoValue, product.stock})

(***************************************************************************)
(* The rows of stock, holds, movements and counts agree with each other at *)
(* every moment between two commits.                                       *)
(***************************************************************************)
StockSound == TypeOK /\ HoldsBacked /\ LedgerRebuilds /\ MovedOncePerKey /\ CountPostedOnce
=============================================================================
