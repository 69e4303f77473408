--------------------------- MODULE PurchaseEvents ---------------------------
(***************************************************************************)
(* The purchase-events outbox: the second consumer of OutboxClaimService.  *)
(* Its worker delivers an event to the listeners and the webhook queue,    *)
(* schedules a retry when that fails and writes a dead letter once the     *)
(* retries are spent; managers hand dead letters back.                     *)
(*                                                                         *)
(* The queue may deliver a job it was given at any time, any number of     *)
(* times or never: more than BullMQ does, so what holds here holds there.  *)
(* One relay takes one row at a time; several relays are Outbox's subject. *)
(***************************************************************************)
EXTENDS OutboxRow, Sequences, FiniteSets

CONSTANTS Event,                \* OutboxEvent ids of the purchase family
          Worker,               \* consumers of the purchase-events queue
          MaxOperatorRetries    \* bound on the operators' retries of one row

ASSUME PurchaseAssumption ==
  Event # {} /\ IsFiniteSet(Worker) /\ MaxOperatorRetries \in Nat

VARIABLES row,              \* the OutboxEvent table
          relay,            \* the claim the relay has not enqueued or released yet
          queue,            \* claims the queue was given a job for
          worker,           \* what each worker is doing
          sweep,            \* stale claims a sweep has read and not handled yet
          delivered,        \* claims under which an event was delivered in full
          letters,          \* PurchaseDeadLetter rows
          asked,            \* letters an operator has read as ACTIVE and is retrying
          operatorRetries   \* how often operators retried a row

vars == <<row, relay, queue, worker, sweep, delivered, letters, asked, operatorRetries>>

Claim == [event : Event, retryCount : Nat]

ClaimOf(e) == [event |-> e, retryCount |-> row[e].retryCount]

IdleWorker == [pc |-> "idle", claim |-> [event |-> CHOOSE e \in Event : TRUE, retryCount |-> 0]]

Init ==
  /\ row = [e \in Event |-> NoRow]
  /\ relay = {} /\ queue = {} /\ sweep = {} /\ delivered = {}
  /\ worker = [w \in Worker |-> IdleWorker]
  /\ letters = <<>> /\ asked = {}
  /\ operatorRetries = [e \in Event |-> 0]

-----------------------------------------------------------------------------
(* The relay *)

StageEvent(e) ==
  /\ row[e].status = "ABSENT"
  /\ row' = [row EXCEPT ![e] = NewRow]
  /\ UNCHANGED <<relay, queue, worker, sweep, delivered, letters, asked, operatorRetries>>

\* isProcessing: the relay does not start again before it is done.
RelayClaim(e) ==
  /\ relay = {}
  /\ row[e].status = "PENDING"
  /\ row' = [row EXCEPT ![e] = ClaimRow(@)]
  /\ relay' = relay \cup {[claim |-> ClaimOf(e), pc |-> "enqueue"]}
  /\ UNCHANGED <<queue, worker, sweep, delivered, letters, asked, operatorRetries>>

RelayEnqueue(h) ==
  /\ h.pc = "enqueue"
  /\ queue' = queue \cup {h.claim}
  /\ relay' = relay \ {h}
  /\ UNCHANGED <<row, worker, sweep, delivered, letters, asked, operatorRetries>>

\* addBulk throws, with or without having added the job.
RelayEnqueueFails(h) ==
  /\ h.pc = "enqueue"
  /\ queue' \in {queue, queue \cup {h.claim}}
  /\ relay' = (relay \ {h}) \cup {[h EXCEPT !.pc = "release"]}
  /\ UNCHANGED <<row, worker, sweep, delivered, letters, asked, operatorRetries>>

RelayRelease(h) ==
  /\ h.pc = "release"
  /\ row' = [row EXCEPT ![h.claim.event] = ReleaseRow(@)]
  /\ relay' = relay \ {h}
  /\ UNCHANGED <<queue, worker, sweep, delivered, letters, asked, operatorRetries>>

RelayCrash(h) ==
  /\ relay' = relay \ {h}
  /\ UNCHANGED <<row, queue, worker, sweep, delivered, letters, asked, operatorRetries>>

-----------------------------------------------------------------------------
(* The worker *)

Goto(w, pc) == worker' = [worker EXCEPT ![w].pc = pc]

TakeJob(w) ==
  /\ worker[w].pc = "idle"
  /\ \E c \in queue : worker' = [worker EXCEPT ![w] = [pc |-> "load", claim |-> c]]
  /\ UNCHANGED <<row, relay, queue, sweep, delivered, letters, asked, operatorRetries>>

\* Only a row still claimed under the claim of the job is the job's to run.
LoadRow(w) ==
  LET c == worker[w].claim IN
  /\ worker[w].pc = "load"
  /\ Goto(w, IF SettleWhere(row[c.event], c.retryCount) THEN "deliver" ELSE "idle")
  /\ UNCHANGED <<row, relay, queue, sweep, delivered, letters, asked, operatorRetries>>

\* routeInternalEvent and dispatchWebhooksForEvent both return.
DeliverEvent(w) ==
  /\ worker[w].pc = "deliver"
  /\ delivered' = delivered \cup {worker[w].claim}
  /\ Goto(w, "markDone")
  /\ UNCHANGED <<row, relay, queue, sweep, letters, asked, operatorRetries>>

DeliveryFails(w) ==
  /\ worker[w].pc = "deliver"
  /\ Goto(w, "readRetry")
  /\ UNCHANGED <<row, relay, queue, sweep, delivered, letters, asked, operatorRetries>>

Done(w) ==
  LET c == worker[w].claim IN
  /\ worker[w].pc = "markDone"
  /\ row' = [row EXCEPT ![c.event] = MarkDone(@, c.retryCount)]
  /\ Goto(w, "idle")
  /\ UNCHANGED <<relay, queue, sweep, delivered, letters, asked, operatorRetries>>

\* markDone is inside the try: its failure, also of the answer alone, is retried.
DoneThrows(w) ==
  LET c == worker[w].claim IN
  /\ worker[w].pc = "markDone"
  /\ row' \in {row, [row EXCEPT ![c.event] = MarkDone(@, c.retryCount)]}
  /\ Goto(w, "readRetry")
  /\ UNCHANGED <<relay, queue, sweep, delivered, letters, asked, operatorRetries>>

\* scheduleRetry's first statement.
ReadForRetry(w) ==
  LET c == worker[w].claim IN
  /\ worker[w].pc = "readRetry"
  /\ Goto(w, IF SettleWhere(row[c.event], c.retryCount) THEN "writeRetry" ELSE "idle")
  /\ UNCHANGED <<row, relay, queue, sweep, delivered, letters, asked, operatorRetries>>

\* Mutant of WriteRetry: FAILED is answered whether or not the UPDATE changed the row.
WriteRetryUncounted(w) ==
  LET c == worker[w].claim IN
  /\ worker[w].pc = "writeRetry"
  /\ row' = [row EXCEPT ![c.event] = ScheduleRetry(@, c.retryCount)]
  /\ Goto(w, IF Exhausted(c.retryCount) THEN "deadLetter" ELSE "idle")
  /\ UNCHANGED <<relay, queue, sweep, delivered, letters, asked, operatorRetries>>

\* scheduleRetry's second statement; FAILED is answered only if it changed the row.
WriteRetry(w) ==
  LET c == worker[w].claim IN
  /\ worker[w].pc = "writeRetry"
  /\ row' = [row EXCEPT ![c.event] = ScheduleRetry(@, c.retryCount)]
  /\ Goto(w, IF SettleWhere(row[c.event], c.retryCount) /\ Exhausted(c.retryCount)
             THEN "deadLetter" ELSE "idle")
  /\ UNCHANGED <<relay, queue, sweep, delivered, letters, asked, operatorRetries>>

\* The letter and the row in one transaction; the row by its id alone.
MoveToDeadLetter(w) ==
  LET e == worker[w].claim.event IN
  /\ worker[w].pc = "deadLetter"
  /\ letters' = Append(letters, [event |-> e, status |-> "ACTIVE"])
  /\ row' = [row EXCEPT ![e].status = "FAILED", ![e].stale = FALSE]
  /\ Goto(w, "idle")
  /\ UNCHANGED <<relay, queue, sweep, delivered, asked, operatorRetries>>

\* The pod dies, or a statement throws and BullMQ runs the job again or gives it up.
WorkerStops(w) ==
  /\ worker[w].pc # "idle"
  /\ Goto(w, "idle")
  /\ UNCHANGED <<row, relay, queue, sweep, delivered, letters, asked, operatorRetries>>

-----------------------------------------------------------------------------
(* The sweep and the operators *)

ClaimGoesStale(e) ==
  /\ IsClaimed(row[e]) /\ ~row[e].stale
  /\ row' = [row EXCEPT ![e].stale = TRUE]
  /\ UNCHANGED <<relay, queue, worker, sweep, delivered, letters, asked, operatorRetries>>

ReapSelect ==
  /\ sweep = {}
  /\ sweep' = {ClaimOf(e) : e \in {x \in Event : IsClaimed(row[x]) /\ row[x].stale}}
  /\ UNCHANGED <<row, relay, queue, worker, delivered, letters, asked, operatorRetries>>

ReapRow(c) ==
  /\ row' = [row EXCEPT ![c.event] =
       IF Exhausted(c.retryCount) THEN ReapFailed(@) ELSE ReapBack(@, c.retryCount)]
  /\ sweep' = sweep \ {c}
  /\ UNCHANGED <<relay, queue, worker, delivered, letters, asked, operatorRetries>>

ReapEnds ==
  /\ sweep # {} /\ sweep' = {}
  /\ UNCHANGED <<row, relay, queue, worker, delivered, letters, asked, operatorRetries>>

CountRetry(e) ==
  /\ operatorRetries[e] < MaxOperatorRetries
  /\ operatorRetries' = [operatorRetries EXCEPT ![e] = @ + 1]

\* POST /sales/events/retry, which takes rows of every family.
RetryEvent(e) ==
  /\ row[e].status = "FAILED"
  /\ row' = [row EXCEPT ![e] = RetryFailed(@)]
  /\ CountRetry(e)
  /\ UNCHANGED <<relay, queue, worker, sweep, delivered, letters, asked>>

\* retryDeadLetter looks at the letter before its transaction.
AskRetry(l) ==
  /\ letters[l].status = "ACTIVE"
  /\ asked' = asked \cup {l}
  /\ UNCHANGED <<row, relay, queue, worker, sweep, delivered, letters, operatorRetries>>

\* Another operator may have read the letter as ACTIVE as well: the transaction does not.
RetryDeadLetter(l) ==
  LET e == letters[l].event IN
  /\ row[e].status = "FAILED"
  /\ row' = [row EXCEPT ![e] = RetryFailed(@)]
  /\ letters' = [letters EXCEPT ![l].status = "RESOLVED"]
  /\ asked' \in {asked, asked \ {l}}
  /\ CountRetry(e)
  /\ UNCHANGED <<relay, queue, worker, sweep, delivered>>

\* 409: the row behind the letter is not FAILED any more.
RetryRefused(l) ==
  /\ row[letters[l].event].status # "FAILED"
  /\ asked' = asked \ {l}
  /\ UNCHANGED <<row, relay, queue, worker, sweep, delivered, letters, operatorRetries>>

-----------------------------------------------------------------------------
EventNext == \E e \in Event : \/ StageEvent(e) \/ RelayClaim(e) \/ ClaimGoesStale(e)
                              \/ RetryEvent(e)

RelayNext == \E h \in relay : \/ RelayEnqueue(h) \/ RelayEnqueueFails(h)
                              \/ RelayRelease(h) \/ RelayCrash(h)

WorkerNext ==
  \E w \in Worker : \/ TakeJob(w) \/ LoadRow(w) \/ DeliverEvent(w) \/ DeliveryFails(w)
                    \/ Done(w) \/ DoneThrows(w) \/ ReadForRetry(w) \/ WriteRetry(w)
                    \/ MoveToDeadLetter(w) \/ WorkerStops(w)

SweepNext == ReapSelect \/ ReapEnds \/ \E c \in sweep : ReapRow(c)

LetterNext == \/ \E l \in DOMAIN letters : AskRetry(l)
              \/ \E l \in asked : RetryDeadLetter(l) \/ RetryRefused(l)

Next == EventNext \/ RelayNext \/ WorkerNext \/ SweepNext \/ LetterNext

Spec == Init /\ [][Next]_vars

-----------------------------------------------------------------------------
(***************************************************************************)
(* Every piece of state has its type.                                      *)
(***************************************************************************)
TypeOK ==
  /\ row \in [Event -> RowType]
  /\ relay \subseteq [claim : Claim, pc : {"enqueue", "release"}]
  /\ queue \subseteq Claim /\ sweep \subseteq Claim /\ delivered \subseteq Claim
  /\ worker \in [Worker -> [pc : {"idle", "load", "deliver", "markDone", "readRetry",
                                  "writeRetry", "deadLetter"}, claim : Claim]]
  /\ letters \in Seq([event : Event, status : {"ACTIVE", "RESOLVED"}])
  /\ asked \subseteq DOMAIN letters
  /\ operatorRetries \in [Event -> Nat]

(***************************************************************************)
(* A row is DONE only under a claim whose worker delivered the event in    *)
(* full: a worker that lost its claim to a sweep, or whose delivery failed *)
(* half-way, never ends the row another worker is busy with.               *)
(***************************************************************************)
DoneDelivered == \A e \in Event : row[e].status = "DONE" => ClaimOf(e) \in delivered

LettersOf(e) == {l \in DOMAIN letters : letters[l].event = e}

(***************************************************************************)
(* An event is dead-lettered once for each time its retries ran out: the   *)
(* first time, and once more for each retry an operator granted it, though *)
(* several workers may give up on the same event.                          *)
(***************************************************************************)
OneLetterPerFailure ==
  \A e \in Event : Cardinality(LettersOf(e)) <= 1 + operatorRetries[e]

-----------------------------------------------------------------------------
(***************************************************************************)
(* What DoneDelivered and OneLetterPerFailure rest on.                     *)
(***************************************************************************)

\* markDone comes after the delivery.
DeliveredFirst ==
  \A w \in Worker : worker[w].pc = "markDone" => worker[w].claim \in delivered

\* Workers that made the row FAILED and have not written its letter yet.
GivingUp(e) == {w \in Worker : worker[w].pc = "deadLetter" /\ worker[w].claim.event = e}

LetterBudget ==
  \A e \in Event :
    Cardinality(GivingUp(e)) + Cardinality(LettersOf(e))
      <= operatorRetries[e] + IF row[e].status = "FAILED" THEN 1 ELSE 0
=============================================================================
