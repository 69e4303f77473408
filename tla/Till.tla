-------------------------------- MODULE Till --------------------------------
(***************************************************************************)
(* The point-of-sale page in one browser tab: the cart store with its held *)
(* carts and request key (persisted per shop in sessionStorage), the       *)
(* barcode scanner, the payment panel and its POST /billing/invoice, over  *)
(* a network that loses requests and answers.  The checkout itself is      *)
(* PosBilling's; here it saves or refuses a bill, once per key.  Goods are *)
(* single pieces, so that billing one of them twice can be seen.           *)
(***************************************************************************)
EXTENDS Naturals, FiniteSets, Sequences

CONSTANTS Pieces,        \* the goods the customers bring to the counter
          Product,         \* what each of them is
          Snapshot,        \* stockSnapshot of every product
          MaxAttempts,     \* how often Pay is confirmed
          MaxLost,         \* how many requests or answers the network loses
          MaxReloads       \* how often the page is reloaded

ASSUME TillAssumption ==
  /\ Snapshot \in [{Product[p] : p \in Pieces} -> Nat]
  /\ MaxAttempts \in Nat /\ MaxLost \in Nat /\ MaxReloads \in Nat

VARIABLES pos,       \* the store on screen: lines, heldCarts, idempotencyKey, keyAttempted
          stored,    \* the shop's copy in sessionStorage, while the page does not know its shop
          scoped,    \* usePosScope: the page knows its shop
          panel,     \* paymentOpen
          waiting,   \* the attempt whose answer handleSubmit awaits, 0 when none
          queue,     \* pendingScansRef
          lookups,   \* scanned pieces whose barcode lookup is in flight
          hand,      \* pieces the cashier has still to ring up
          putBack,   \* pieces the cashier removed, cleared or deleted
          told,      \* pieces the page cleared as billed
          wire,      \* the requests on their way to the server, in sending order
          answers,   \* the server's answers on their way back
          invoices,  \* the bills saved, by key
          attempts, keys, lost, reloads,
          astray,    \* keys freed or dropped while a request with them could still be billed
          slipped    \* pieces that came onto the cart while the answer to its bill was awaited

store == <<pos, stored, scoped>>
page == <<panel, waiting, queue, lookups>>
goods == <<hand, putBack, told>>
net == <<wire, answers, invoices>>
counts == <<attempts, keys, lost, reloads>>
aside == <<astray, slipped>>
vars == <<store, page, goods, net, counts, aside>>

\* A key nobody has sent yet is like none: the hook that generates it ahead of time
\* is left to the checkout (ensureIdempotencyKey).
NoKey == 0
EmptyPos == [lines |-> {}, held |-> {}, key |-> NoKey, attempted |-> FALSE]

Init ==
  /\ pos = EmptyPos /\ stored = EmptyPos /\ scoped = FALSE
  /\ panel = FALSE /\ waiting = 0 /\ queue = <<>> /\ lookups = {}
  /\ hand = Pieces /\ putBack = {} /\ told = {}
  /\ wire = <<>> /\ answers = {} /\ invoices = {}
  /\ attempts = 0 /\ keys = 0 /\ lost = 0 /\ reloads = 0
  /\ astray = {} /\ slipped = {}

-----------------------------------------------------------------------------
(* The cart.                                                               *)

\* validateQuantity: never more of a product than its stock when it was rung up.
Accepts(lines, p) ==
  Cardinality({q \in lines : Product[q] = Product[p]}) < Snapshot[Product[p]]

\* The piece is told to the cashier instead: it is still to ring up.
Refused(p) == hand' = hand \cup {p} /\ UNCHANGED <<pos, slipped>>

\* addProduct: the piece is on the cart, whatever goes on around it, or refused.
Added(p) ==
  IF Accepts(pos.lines, p)
  THEN /\ pos' = [pos EXCEPT !.lines = @ \cup {p}] /\ hand' = hand \ {p}
       /\ slipped' = IF waiting = 0 THEN slipped ELSE slipped \cup {p}
  ELSE Refused(p)

\* A tap on a product tile: the panels cover the tiles.
Ring(p) ==
  /\ ~panel /\ p \in hand
  /\ Added(p)
  /\ UNCHANGED <<stored, scoped, page, putBack, told, net, counts, astray>>

\* handleScan: queued before the shop is known, refused under an open panel, else
\* looked up.
Scan(p) ==
  /\ p \in hand
  /\ \/ ~scoped /\ queue' = Append(queue, p) /\ hand' = hand \ {p} /\ UNCHANGED lookups
     \/ scoped /\ ~panel /\ lookups' = lookups \cup {p} /\ hand' = hand \ {p} /\ UNCHANGED queue
  /\ UNCHANGED <<store, panel, waiting, putBack, told, net, counts, aside>>

\* Mutant: a failed lookup ends the loop, and the scans behind it are gone.
DrainStopping ==
  /\ scoped /\ queue # <<>>
  /\ \/ Added(Head(queue)) /\ queue' = Tail(queue)
     \/ Refused(Head(queue)) /\ queue' = <<>>
  /\ UNCHANGED <<stored, scoped, panel, waiting, lookups, putBack, told, net, counts, astray>>

\* The scans that waited for the shop are looked up one after the other, in the scan
\* handler of the render that knew the shop: it saw no open panel, and never will.
Drain ==
  /\ scoped /\ queue # <<>> /\ queue' = Tail(queue)
  /\ Added(Head(queue)) \/ Refused(Head(queue))
  /\ UNCHANGED <<stored, scoped, panel, waiting, lookups, putBack, told, net, counts, astray>>

\* The lookup answers, whatever the page shows by then: the piece is added, or the
\* cashier is told that it is unknown, ambiguous or out of stock.
Found(p) ==
  /\ p \in lookups /\ lookups' = lookups \ {p}
  /\ Added(p) \/ Refused(p)
  /\ UNCHANGED <<stored, scoped, panel, waiting, queue, putBack, told, net, counts, astray>>

RemoveLine(p) ==
  /\ ~panel /\ p \in pos.lines
  /\ pos' = [pos EXCEPT !.lines = @ \ {p}]
  /\ putBack' = putBack \cup {p}
  /\ UNCHANGED <<stored, scoped, page, hand, told, net, counts, aside>>

\* clearCart keeps the key, attempted or not: the page warns of an unanswered attempt,
\* and the next cart is billed under its key.
ClearCart ==
  /\ ~panel /\ pos.lines # {}
  /\ pos' = [pos EXCEPT !.lines = {}]
  /\ putBack' = putBack \cup pos.lines
  /\ UNCHANGED <<stored, scoped, page, hand, told, net, counts, aside>>

-----------------------------------------------------------------------------
(* Held carts.                                                             *)

\* The key of an unanswered attempt stays with its cart.
Parked == [lines |-> pos.lines, key |-> IF pos.attempted THEN pos.key ELSE NoKey]

\* Mutant: the key stays at the counter when its cart is held.
HoldKeepingKey ==
  [pos EXCEPT !.held = @ \cup {Parked}, !.lines = {}]

Hold ==
  [pos EXCEPT !.held = @ \cup {Parked}, !.lines = {},
              !.key = IF pos.attempted THEN NoKey ELSE @, !.attempted = FALSE]

HoldCart ==
  /\ ~panel /\ pos.lines # {}
  /\ pos' = Hold
  /\ UNCHANGED <<stored, scoped, page, goods, net, counts, aside>>

\* The cart on screen is held first; the resumed one is billed under its own
\* unanswered key, else under the counter's when that is free, else a fresh one.
Resume(h) ==
  [lines |-> h.lines,
   held |-> (pos.held \ {h}) \cup (IF pos.lines = {} THEN {} ELSE {Parked}),
   key |-> IF h.key # NoKey THEN h.key ELSE IF pos.attempted THEN NoKey ELSE pos.key,
   attempted |-> h.key # NoKey]

ResumeHeldCart(h) ==
  /\ ~panel /\ h \in pos.held
  /\ pos' = Resume(h)
  /\ UNCHANGED <<stored, scoped, page, goods, net, counts, aside>>

DeleteHeldCart(h) ==
  /\ ~panel /\ h \in pos.held
  /\ pos' = [pos EXCEPT !.held = @ \ {h}]
  /\ putBack' = putBack \cup h.lines
  /\ UNCHANGED <<stored, scoped, page, hand, told, net, counts, aside>>

-----------------------------------------------------------------------------
(* Payment.                                                                *)

OpenPayment ==
  /\ ~panel /\ pos.lines # {}
  /\ panel' = TRUE
  /\ UNCHANGED <<store, waiting, queue, lookups, goods, net, counts, aside>>

ClosePayment ==
  /\ panel /\ waiting = 0
  /\ panel' = FALSE
  /\ UNCHANGED <<store, waiting, queue, lookups, goods, net, counts, aside>>

\* handleSubmit: from here until an answer settles it, the key belongs to the cart.
Submit ==
  LET key == IF pos.key = NoKey THEN keys + 1 ELSE pos.key
  IN /\ panel /\ waiting = 0 /\ pos.lines # {} /\ attempts < MaxAttempts
     /\ pos' = [pos EXCEPT !.key = key, !.attempted = TRUE]
     /\ keys' = IF pos.key = NoKey THEN keys + 1 ELSE keys
     /\ attempts' = attempts + 1
     /\ waiting' = attempts + 1
     /\ wire' = Append(wire, [id |-> attempts + 1, key |-> key, lines |-> pos.lines])
     /\ UNCHANGED <<stored, scoped, panel, queue, lookups, goods, answers, invoices, lost, reloads, aside>>

\* The request hash: the same goods, whichever pieces they are.
SameBill(a, b) ==
  \A g \in DOMAIN Snapshot :
    Cardinality({p \in a : Product[p] = g}) = Cardinality({p \in b : Product[p] = g})

Without(s, i) == SubSeq(s, 1, i - 1) \o SubSeq(s, i + 1, Len(s))

\* Mutant: a key seen before is billed like any other.
RepliesAnyKey(r) ==
  { [id |-> r.id, kind |-> k, bill |-> r.lines] :
      k \in IF \E i \in invoices : i.key = r.key THEN {"saved"} ELSE {"saved", "refused"} }

\* createInvoice: a key that has its bill replays it, or refuses another one with
\* it (replayOrReject); otherwise the bill is saved or refused.
Replies(r) ==
  LET known == {i \in invoices : i.key = r.key}
  IN IF known = {}
     THEN { [id |-> r.id, kind |-> k, bill |-> r.lines] : k \in {"saved", "refused"} }
     ELSE { [id |-> r.id, kind |-> IF SameBill(i.lines, r.lines) THEN "replayed" ELSE "reused",
             bill |-> i.lines] : i \in known }

\* The requests arrive in any order: a retry may overtake the attempt it retries.
Serve(i) ==
  /\ i \in DOMAIN wire
  /\ \E a \in Replies(wire[i]) :
       /\ answers' = answers \cup {a}
       /\ invoices' = IF a.kind = "saved"
                      THEN invoices \cup {[key |-> wire[i].key, lines |-> wire[i].lines]} ELSE invoices
  /\ wire' = Without(wire, i)
  /\ UNCHANGED <<store, page, goods, counts, aside>>

\* A request that never arrives.
LoseRequest(i) ==
  /\ i \in DOMAIN wire /\ lost < MaxLost
  /\ lost' = lost + 1 /\ wire' = Without(wire, i)
  /\ UNCHANGED <<store, page, goods, answers, invoices, attempts, keys, reloads, aside>>

\* No answer in time, or a 5xx in its place: the panel stays, key and attempt too.
NoAnswer ==
  /\ waiting # 0 /\ lost < MaxLost
  /\ lost' = lost + 1 /\ waiting' = 0
  /\ UNCHANGED <<store, panel, queue, lookups, goods, net, attempts, keys, reloads, aside>>

\* consumeIdempotencyKey and clearCart.
Consumed == [pos EXCEPT !.lines = {}, !.key = NoKey, !.attempted = FALSE]

\* A saved bill, new or replayed: the page clears what is on the cart by now.
AnswerSaved(a) ==
  /\ a.kind \in {"saved", "replayed"}
  /\ pos' = Consumed /\ panel' = FALSE
  /\ told' = told \cup pos.lines
  /\ UNCHANGED <<hand, astray>>

\* IDEMPOTENCY_KEY_REUSED (showSavedBill): the earlier bill is shown and the cashier
\* rings up anything not on it as a new sale.
AnswerReused(a) ==
  /\ a.kind = "reused"
  /\ pos' = Consumed /\ panel' = FALSE
  /\ told' = told \cup (pos.lines \cap a.bill)
  /\ hand' = hand \cup (pos.lines \ a.bill)
  /\ UNCHANGED astray

\* Requests with the key of the cart on screen that are billed or may still be.
Outstanding == {i \in DOMAIN wire : wire[i].key = pos.key} # {}
                 \/ \E i \in invoices : i.key = pos.key

\* A refusal settles the attempt and keeps the key, also when an earlier attempt
\* with it is still on its way; the panel stays open unless the stock ran out.
AnswerRefused(a) ==
  /\ a.kind = "refused"
  /\ pos' = [pos EXCEPT !.attempted = FALSE]
  /\ panel' \in BOOLEAN
  /\ astray' = IF Outstanding THEN astray \cup {pos.key} ELSE astray
  /\ UNCHANGED <<hand, told>>

Answer(a) ==
  /\ a \in answers /\ answers' = answers \ {a}
  /\ \/ a.id = waiting /\ waiting' = 0 /\ (AnswerSaved(a) \/ AnswerReused(a) \/ AnswerRefused(a))
     \/ a.id # waiting /\ UNCHANGED <<waiting, pos, panel, told, hand, astray>>
  /\ UNCHANGED <<stored, scoped, queue, lookups, putBack, wire, invoices, counts, slipped>>

-----------------------------------------------------------------------------
(* Reload and the shop's scope.                                            *)

\* Mutant: the attempt is forgotten when the page is reloaded.
PersistedUnmarked == [pos EXCEPT !.attempted = FALSE]

\* What sessionStorage keeps (partialize).
Persisted == pos

\* Everything but the persisted store is gone; queued and looked-up scans are
\* scanned again, and the answer of a running submit reaches nobody.
Reload ==
  /\ reloads < MaxReloads /\ reloads' = reloads + 1
  /\ panel' = FALSE /\ waiting' = 0 /\ queue' = <<>> /\ lookups' = {}
  /\ hand' = hand \cup lookups \cup {queue[i] : i \in DOMAIN queue}
  /\ scoped' = FALSE
  /\ IF scoped THEN stored' = Persisted /\ pos' = EmptyPos
               ELSE pos' = Persisted /\ UNCHANGED stored
  /\ UNCHANGED <<putBack, told, net, attempts, keys, lost, aside>>

\* Mutant: held carts of the page that did not know its shop replace the shop's.
ScopedOver ==
  IF stored.lines = {} /\ pos.lines # {} THEN pos ELSE [stored EXCEPT !.held = pos.held]

\* scopePosStoreToShop: the shop's own cart wins, else the one built meanwhile is
\* carried over; the held carts of both are kept.
Scoped ==
  LET held == stored.held \cup pos.held
  IN IF stored.lines = {} /\ pos.lines # {} THEN [pos EXCEPT !.held = held]
                                             ELSE [stored EXCEPT !.held = held]

\* The cart built before the shop was known gives way to the shop's own.
GivesWay == pos.lines # {} /\ stored.lines # {}

\* Its key is dropped, and the answer it still awaits will be taken for the other's.
Dropped == (IF pos.attempted THEN {pos.key} ELSE {})
             \cup (IF waiting # 0 /\ stored.attempted THEN {stored.key} ELSE {})

\* GET /shops/me answers (it is retried until it does).  The queued scans wait for
\* their lookups, or, under an open panel, are refused.
LoadShop ==
  /\ ~scoped /\ scoped' = TRUE
  /\ pos' = Scoped /\ stored' = EmptyPos
  /\ queue' = IF panel THEN <<>> ELSE queue
  /\ hand' = hand \cup (pos.lines \ Scoped.lines)
               \cup (IF panel THEN {queue[i] : i \in DOMAIN queue} ELSE {})
  /\ astray' = IF GivesWay THEN astray \cup Dropped ELSE astray
  /\ slipped' = IF GivesWay /\ waiting # 0 THEN slipped \cup stored.lines ELSE slipped
  /\ UNCHANGED <<panel, waiting, lookups, putBack, told, net, counts>>

-----------------------------------------------------------------------------

Cashier ==
  \/ \E p \in Pieces : Ring(p) \/ Scan(p) \/ RemoveLine(p)
  \/ ClearCart \/ HoldCart
  \/ \E h \in pos.held : ResumeHeldCart(h) \/ DeleteHeldCart(h)
  \/ OpenPayment \/ ClosePayment \/ Submit

Next ==
  \/ Cashier
  \/ Drain \/ \E p \in Pieces : Found(p)
  \/ \E i \in DOMAIN wire : Serve(i) \/ LoseRequest(i)
  \/ NoAnswer \/ \E a \in answers : Answer(a)
  \/ Reload \/ LoadShop

Spec == Init /\ [][Next]_vars

-----------------------------------------------------------------------------
(* Properties.                                                             *)

Carts == {[lines |-> pos.lines, key |-> IF pos.attempted THEN pos.key ELSE NoKey]}
           \cup {[lines |-> stored.lines, key |-> IF stored.attempted THEN stored.key ELSE NoKey]}
           \cup pos.held \cup stored.held

Places == << hand, putBack, told, lookups, {queue[i] : i \in DOMAIN queue}, pos.lines, stored.lines,
             UNION {h.lines : h \in pos.held}, UNION {h.lines : h \in stored.held} >>

\* The store keeps its shape, and every piece is in exactly one place: no hold,
\* resume, reload, late lookup or change of scope loses one or shows it twice.
TypeOK ==
  /\ pos.key \in 0..keys /\ pos.attempted \in BOOLEAN /\ (pos.attempted => pos.key # NoKey)
  /\ scoped \in BOOLEAN /\ (scoped => stored = EmptyPos)
  /\ panel \in BOOLEAN /\ waiting \in 0..attempts /\ (waiting # 0 => panel)
  /\ \A p \in Pieces : Cardinality({i \in DOMAIN Places : p \in Places[i]}) = 1
  /\ \A h, g \in pos.held : h # g => h.lines \cap g.lines = {}

\* A lost answer, a retry, a held cart and a reload never bill a piece twice ("your
\* cart and request key are kept, so retrying will not create a duplicate bill"), but
\* where a key went astray.
BilledOnce ==
  \A i, j \in invoices :
    i # j /\ {i.key, j.key} \cap astray = {} => i.lines \cap j.lines = {}

\* The key of an unanswered attempt is in one cart at a time, on screen, held or
\* stored: a cart put aside takes it along, and the counter bills under another.
AttemptedKeyOnce ==
  \A c, d \in Carts : c # d /\ c.key # NoKey => c.key # d.key

\* A cart on screen, held or stored that could be billed under a fresh key (its
\* attempt was refused, or it has none) holds nothing that is on a bill already, but
\* for bills whose key went astray.
FreeCartsUnbilled ==
  \A c \in Carts : c.key = NoKey =>
    \A i \in invoices : i.key \notin astray => i.lines \cap c.lines = {}

\* No customer leaves with more than was billed: what the page cleared as billed, a
\* replay or a shown bill included, is on bills, product by product, but for what
\* came onto the cart while its answer was awaited.
GoodsLeaveBilled ==
  \A g \in DOMAIN Snapshot :
    Cardinality({p \in told \ slipped : Product[p] = g})
      <= Cardinality({b \in invoices \X Pieces : b[2] \in b[1].lines /\ Product[b[2]] = g})

\* The till and its API together: every piece is in one place and on one bill at
\* most, the key of an unanswered attempt stays with its cart, and what leaves the
\* shop is on a bill.
TillSound == TypeOK /\ BilledOnce /\ AttemptedKeyOnce /\ FreeCartsUnbilled /\ GoodsLeaveBilled
==============================================================================
