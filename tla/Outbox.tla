------------------------------- MODULE Outbox -------------------------------
(***************************************************************************)
(* The system-events outbox: rows staged by the billing transactions,      *)
(* relays on several pods that claim rows and enqueue BullMQ jobs, workers *)
(* that apply an event's effects and settle its row, the stale-claim       *)
(* reaper, and the operator who retries a FAILED row.                      *)
(*                                                                         *)
(* Every await is a place where another actor may run or this one may      *)
(* crash, so each database statement or transaction and each Redis call is *)
(* a step of its own.                                                      *)
(***************************************************************************)
EXTENDS OutboxRow, FiniteSets

CONSTANTS Row,                  \* OutboxEvent ids of the system-events family
          Relay,                \* pods running EventsOutboxRelayService
          Worker,               \* consumers of the system-events queue
          Reaper,               \* sweeps of OutboxReaperService
          MaxAttempts,          \* attempts of a system-events job
          MaxOperatorRetries,   \* bound on the operator's retries of one row
          NoWorker              \* "nobody": a job no worker holds

ASSUME OutboxAssumption ==
  /\ MaxAttempts \in Nat \ {0}
  /\ MaxOperatorRetries \in Nat
  /\ NoWorker \notin Worker
  /\ Row # {}

VARIABLES row,              \* the OutboxEvent table
          marker,           \* rows whose idempotency marker is committed
          effects,          \* how often an event's effects were committed
          jobs,             \* the jobs Redis holds
          relay,            \* what each relay is doing
          worker,           \* what each worker is doing
          reaper,           \* what each sweep is doing
          operatorRetries   \* how often the operator retried a row

vars == <<row, marker, effects, jobs, relay, worker, reaper, operatorRetries>>

-----------------------------------------------------------------------------
(* A claim is a row id with the retryCount it was claimed under: the job id *)
Claim == [row : Row, retryCount : Nat]

\* A job waits, is held by a worker, or is finished and retained for a while.
Job == [id : Claim, state : {"waiting", "active", "kept"},
        attemptsMade : Nat, holder : Worker \cup {NoWorker}]

RelayType == [pc : {"idle", "enqueue", "release"}, batch : SUBSET Claim]

Outcome == {"none", "done", "failed", "retry"}

WorkerType ==
  [pc : {"idle", "lookup", "insert", "inTx", "settle", "finish"},
   claim : Claim, attemptsMade : Nat, outcome : Outcome]

ReaperType == [pc : {"idle", "fail", "handBack"}, stale : SUBSET Claim]

IdleRelay == [pc |-> "idle", batch |-> {}]

IdleReaper == [pc |-> "idle", stale |-> {}]

\* An idle worker keeps no claim; its record still needs one of the right type.
IdleWorker == [pc |-> "idle", claim |-> [row |-> CHOOSE r \in Row : TRUE, retryCount |-> 0],
               attemptsMade |-> 0, outcome |-> "none"]

ClaimOf(r) == [row |-> r, retryCount |-> row[r].retryCount]

\* The marker insert holds its primary key until the transaction ends.
InTx(r) == \E w \in Worker : worker[w].pc = "inTx" /\ worker[w].claim.row = r

Init ==
  /\ row \in [Row -> {NoRow, LegacyRow}]
  /\ marker = {}
  /\ effects = [r \in Row |-> 0]
  /\ jobs = {}
  /\ relay = [p \in Relay |-> IdleRelay]
  /\ worker = [w \in Worker |-> IdleWorker]
  /\ reaper = [s \in Reaper |-> IdleReaper]
  /\ operatorRetries = [r \in Row |-> 0]

-----------------------------------------------------------------------------
(* Billing and the relay *)

\* A billing transaction commits together with the row of its event.
StageEvent(r) ==
  /\ row[r].status = "ABSENT"
  /\ row' = [row EXCEPT ![r] = NewRow]
  /\ UNCHANGED <<marker, effects, jobs, relay, worker, reaper, operatorRetries>>

(***************************************************************************)
(* claim: one transaction takes PENDING rows that are due and that no      *)
(* other relay has locked (SKIP LOCKED), up to the batch size.             *)
(***************************************************************************)
RelayClaim(p) ==
  /\ relay[p].pc = "idle"
  /\ \E taken \in SUBSET {r \in Row : row[r].status = "PENDING"} :
       /\ taken # {}
       /\ row' = [r \in Row |-> IF r \in taken THEN ClaimRow(row[r]) ELSE row[r]]
       /\ relay' = [relay EXCEPT ![p] =
            [pc |-> "enqueue", batch |-> {ClaimOf(r) : r \in taken}]]
  /\ UNCHANGED <<marker, effects, jobs, worker, reaper, operatorRetries>>

(***************************************************************************)
(* addBulk under the ids jobIdFor gives: BullMQ ignores a job whose id it  *)
(* still holds in any state.                                               *)
(***************************************************************************)
AddBulk(batch) ==
  jobs \cup {[id |-> c, state |-> "waiting", attemptsMade |-> 0, holder |-> NoWorker] :
               c \in {b \in batch : \A j \in jobs : j.id # b}}

RelayEnqueue(p) ==
  /\ relay[p].pc = "enqueue"
  /\ jobs' = AddBulk(relay[p].batch)
  /\ relay' = [relay EXCEPT ![p] = IdleRelay]
  /\ UNCHANGED <<row, marker, effects, worker, reaper, operatorRetries>>

\* addBulk throws: nothing was added, or everything was and the answer got lost.
RelayEnqueueFails(p) ==
  /\ relay[p].pc = "enqueue"
  /\ jobs' \in {jobs, AddBulk(relay[p].batch)}
  /\ relay' = [relay EXCEPT ![p].pc = "release"]
  /\ UNCHANGED <<row, marker, effects, worker, reaper, operatorRetries>>

RelayRelease(p) ==
  /\ relay[p].pc = "release"
  /\ row' = [r \in Row |-> IF \E c \in relay[p].batch : c.row = r
                           THEN ReleaseRow(row[r]) ELSE row[r]]
  /\ relay' = [relay EXCEPT ![p] = IdleRelay]
  /\ UNCHANGED <<marker, effects, jobs, worker, reaper, operatorRetries>>

\* The pod dies, or release itself throws and is only logged.
RelayCrash(p) ==
  /\ relay[p].pc # "idle"
  /\ relay' = [relay EXCEPT ![p] = IdleRelay]
  /\ UNCHANGED <<row, marker, effects, jobs, worker, reaper, operatorRetries>>

-----------------------------------------------------------------------------
(* The queue (BullMQ) *)

Deliver(w) ==
  /\ worker[w].pc = "idle"
  /\ \E j \in jobs :
       /\ j.state = "waiting"
       /\ jobs' = (jobs \ {j}) \cup {[j EXCEPT !.state = "active", !.holder = w]}
       /\ worker' = [worker EXCEPT ![w] =
            [pc |-> "lookup", claim |-> j.id, attemptsMade |-> j.attemptsMade,
             outcome |-> "none"]]
  /\ UNCHANGED <<row, marker, effects, relay, reaper, operatorRetries>>

(***************************************************************************)
(* A job whose lock expired is delivered again or, stalled too often,      *)
(* failed.  Its worker may be dead, or only slow and still running.        *)
(***************************************************************************)
JobStalls ==
  /\ \E j \in jobs, to \in {"waiting", "kept"} :
       /\ j.state = "active"
       /\ jobs' = (jobs \ {j}) \cup {[j EXCEPT !.state = to, !.holder = NoWorker]}
  /\ UNCHANGED <<row, marker, effects, relay, worker, reaper, operatorRetries>>

\* removeOnComplete / removeOnFail: a finished job is dropped, at once or by age and count.
DropFinishedJob ==
  /\ \E j \in jobs : j.state = "kept" /\ jobs' = jobs \ {j}
  /\ UNCHANGED <<row, marker, effects, relay, worker, reaper, operatorRetries>>

-----------------------------------------------------------------------------
(* The worker: process and handle *)

Goto(w, pc, outcome) ==
  worker' = [worker EXCEPT ![w].pc = pc, ![w].outcome = outcome]

\* The transaction's first read: a marker already there means somebody handled the event.
FindMarker(w) ==
  /\ worker[w].pc = "lookup"
  /\ IF worker[w].claim.row \in marker THEN Goto(w, "settle", "done")
                                       ELSE Goto(w, "insert", "none")
  /\ UNCHANGED <<row, marker, effects, jobs, relay, reaper, operatorRetries>>

\* Mutant of InsertMarker: the marker has no primary key to collide on.
InsertMarkerFreely(w) ==
  /\ worker[w].pc = "insert"
  /\ Goto(w, "inTx", "none")
  /\ UNCHANGED <<row, marker, effects, jobs, relay, reaper, operatorRetries>>

\* Mutant of InsertMarker: another worker's open transaction counts as a duplicate.
InsertMarkerNoWait(w) ==
  /\ worker[w].pc = "insert"
  /\ IF worker[w].claim.row \in marker \/ InTx(worker[w].claim.row)
     THEN Goto(w, "settle", "done") ELSE Goto(w, "inTx", "none")
  /\ UNCHANGED <<row, marker, effects, jobs, relay, reaper, operatorRetries>>

\* The insert waits for a transaction that holds the key; P2002 means it committed.
InsertMarker(w) ==
  /\ worker[w].pc = "insert"
  /\ ~InTx(worker[w].claim.row)
  /\ IF worker[w].claim.row \in marker THEN Goto(w, "settle", "done")
                                       ELSE Goto(w, "inTx", "none")
  /\ UNCHANGED <<row, marker, effects, jobs, relay, reaper, operatorRetries>>

\* The effects of the event and its marker become visible together.
CommitEffects(w) ==
  /\ worker[w].pc = "inTx"
  /\ marker' = marker \cup {worker[w].claim.row}
  /\ effects' = [effects EXCEPT ![worker[w].claim.row] = @ + 1]
  /\ Goto(w, "settle", "done")
  /\ UNCHANGED <<row, jobs, relay, reaper, operatorRetries>>

\* The outcome process gives an error: permanent, transient, or the last transient one.
OutcomeOf(transient, attemptsMade) ==
  IF transient /\ attemptsMade + 1 < MaxAttempts THEN "retry" ELSE "failed"

\* No shop, a broken payload, or any error in the transaction, which rolls back.
HandleFails(w) ==
  /\ worker[w].pc \in {"lookup", "insert", "inTx"}
  /\ \E transient \in BOOLEAN :
       Goto(w, "settle", OutcomeOf(transient, worker[w].attemptsMade))
  /\ UNCHANGED <<row, marker, effects, jobs, relay, reaper, operatorRetries>>

\* settle: markDone, markFailed, or recordTransientError, which leaves the row's state alone.
SettledRow(old, claim, outcome) ==
  CASE outcome = "done"   -> MarkDone(old, claim)
    [] outcome = "failed" -> MarkFailed(old, claim)
    [] OTHER              -> old

Settle(w) ==
  LET c == worker[w].claim IN
  /\ worker[w].pc = "settle"
  /\ row' = [row EXCEPT ![c.row] = SettledRow(@, c.retryCount, worker[w].outcome)]
  /\ worker' = [worker EXCEPT ![w].pc = "finish"]
  /\ UNCHANGED <<marker, effects, jobs, relay, reaper, operatorRetries>>

\* The settle statement throws: settle logs it and the job ends all the same.
SettleThrows(w) ==
  /\ worker[w].pc = "settle"
  /\ worker' = [worker EXCEPT ![w].pc = "finish"]
  /\ UNCHANGED <<row, marker, effects, jobs, relay, reaper, operatorRetries>>

(***************************************************************************)
(* process returns or throws: BullMQ completes, fails or retries the job,  *)
(* unless the worker lost it to a stall.                                   *)
(***************************************************************************)
FinishedJob(j, outcome) ==
  IF outcome = "retry"
  THEN [j EXCEPT !.state = "waiting", !.attemptsMade = @ + 1, !.holder = NoWorker]
  ELSE [j EXCEPT !.state = "kept", !.holder = NoWorker]

FinishJob(w) ==
  /\ worker[w].pc = "finish"
  /\ jobs' = {IF j.id = worker[w].claim /\ j.state = "active" /\ j.holder = w
              THEN FinishedJob(j, worker[w].outcome) ELSE j : j \in jobs}
  /\ worker' = [worker EXCEPT ![w] = IdleWorker]
  /\ UNCHANGED <<row, marker, effects, relay, reaper, operatorRetries>>

\* The pod dies: an open transaction rolls back and the job stays active until it stalls.
WorkerCrash(w) ==
  /\ worker[w].pc # "idle"
  /\ worker' = [worker EXCEPT ![w] = IdleWorker]
  /\ UNCHANGED <<row, marker, effects, jobs, relay, reaper, operatorRetries>>

-----------------------------------------------------------------------------
(* The reaper and the operator *)

\* A claim gets older than the stale window.
ClaimGoesStale(r) ==
  /\ IsClaimed(row[r]) /\ ~row[r].stale
  /\ row' = [row EXCEPT ![r].stale = TRUE]
  /\ UNCHANGED <<marker, effects, jobs, relay, worker, reaper, operatorRetries>>

\* Mutant of StaleRows: the rows an older release left in PROCESSING are forgotten.
StaleRowsClaimedOnly == {r \in Row : row[r].status = "CLAIMED" /\ row[r].stale}

StaleRows == {r \in Row : IsClaimed(row[r]) /\ row[r].stale}

\* reapBatch's SELECT; the UPDATEs below use what it read.
ReapSelect(s) ==
  /\ reaper[s].pc = "idle"
  /\ StaleRows # {}
  /\ reaper' = [reaper EXCEPT ![s] =
       [pc |-> "fail", stale |-> {ClaimOf(r) : r \in StaleRows}]]
  /\ UNCHANGED <<row, marker, effects, jobs, relay, worker, operatorRetries>>

\* One UPDATE for all the rows whose retries are spent.
ReapExhausted(s) ==
  LET spent == {c \in reaper[s].stale : Exhausted(c.retryCount)} IN
  /\ reaper[s].pc = "fail"
  /\ row' = [r \in Row |-> IF \E c \in spent : c.row = r
                           THEN ReapFailed(row[r]) ELSE row[r]]
  /\ reaper' = [reaper EXCEPT ![s] =
       [pc |-> "handBack", stale |-> reaper[s].stale \ spent]]
  /\ UNCHANGED <<marker, effects, jobs, relay, worker, operatorRetries>>

\* One UPDATE per remaining row.
ReapHandBack(s) ==
  /\ reaper[s].pc = "handBack"
  /\ \E c \in reaper[s].stale :
       /\ row' = [row EXCEPT ![c.row] = ReapBack(@, c.retryCount)]
       /\ reaper' = [reaper EXCEPT ![s].stale = @ \ {c}]
  /\ UNCHANGED <<marker, effects, jobs, relay, worker, operatorRetries>>

\* The sweep ends: nothing left of its batch, or the pod died or the database failed.
ReapEnds(s) ==
  /\ reaper[s].pc # "idle"
  /\ reaper' = [reaper EXCEPT ![s] = IdleReaper]
  /\ UNCHANGED <<row, marker, effects, jobs, relay, worker, operatorRetries>>

\* POST /sales/events/retry on a FAILED row.
OperatorRetry(r) ==
  /\ row[r].status = "FAILED"
  /\ operatorRetries[r] < MaxOperatorRetries
  /\ row' = [row EXCEPT ![r] = RetryFailed(@)]
  /\ operatorRetries' = [operatorRetries EXCEPT ![r] = @ + 1]
  /\ UNCHANGED <<marker, effects, jobs, relay, worker, reaper>>

-----------------------------------------------------------------------------
RowNext == \E r \in Row : StageEvent(r) \/ ClaimGoesStale(r) \/ OperatorRetry(r)

RelayNext ==
  \E p \in Relay : \/ RelayClaim(p) \/ RelayEnqueue(p) \/ RelayEnqueueFails(p)
                   \/ RelayRelease(p) \/ RelayCrash(p)

WorkerNext ==
  \E w \in Worker : \/ Deliver(w) \/ FindMarker(w) \/ InsertMarker(w)
                    \/ CommitEffects(w) \/ HandleFails(w) \/ Settle(w)
                    \/ SettleThrows(w) \/ FinishJob(w) \/ WorkerCrash(w)

ReaperNext ==
  \E s \in Reaper : ReapSelect(s) \/ ReapExhausted(s) \/ ReapHandBack(s) \/ ReapEnds(s)

Next == RowNext \/ RelayNext \/ WorkerNext \/ ReaperNext \/ JobStalls \/ DropFinishedJob

Spec == Init /\ [][Next]_vars

(***************************************************************************)
(* Fairness: the relay and the reaper are crons, so an idle one runs       *)
(* again; claims grow old; Redis and MySQL outages end, so a call that is  *)
(* attempted again and again succeeds in the end (strong fairness of the   *)
(* calls that can fail).  Nothing is assumed of the workers: a dead or     *)
(* stuck worker is the reaper's case.                                      *)
(***************************************************************************)
Fairness ==
  /\ \A r \in Row : WF_vars(ClaimGoesStale(r))
  /\ \A p \in Relay : /\ WF_vars(RelayClaim(p))
                      /\ SF_vars(RelayEnqueue(p))
                      /\ WF_vars(RelayRelease(p))
  /\ \A s \in Reaper : /\ WF_vars(ReapSelect(s))
                       /\ SF_vars(ReapExhausted(s))
                       /\ SF_vars(ReapHandBack(s))
                       /\ WF_vars(reaper[s].stale = {} /\ ReapEnds(s))

FairSpec == Spec /\ Fairness

-----------------------------------------------------------------------------
(***************************************************************************)
(* Every piece of state has its type.                                      *)
(***************************************************************************)
TypeOK ==
  /\ row \in [Row -> RowType]
  /\ marker \subseteq Row
  /\ effects \in [Row -> Nat]
  /\ jobs \subseteq Job
  /\ relay \in [Relay -> RelayType]
  /\ worker \in [Worker -> WorkerType]
  /\ reaper \in [Reaper -> ReaperType]
  /\ operatorRetries \in [Row -> Nat]

(***************************************************************************)
(* handle applies an event's effects at most once, however often its job   *)
(* is delivered and however many workers run it at the same time, and the  *)
(* marker is there exactly when they were applied.                         *)
(***************************************************************************)
EffectsOnce ==
  \A r \in Row : effects[r] = IF r \in marker THEN 1 ELSE 0

(***************************************************************************)
(* A row is DONE only when its event's effects are committed: neither the  *)
(* relay, the reaper nor a worker that failed can end it that way.         *)
(***************************************************************************)
DoneMeansHandled ==
  \A r \in Row : row[r].status = "DONE" => effects[r] = 1

(***************************************************************************)
(* The automatic retries are bounded: a row waits for or holds its n-th    *)
(* attempt only for n below MaxRetries plus what operators added, whatever *)
(* the reaper and the workers do to the same row.                          *)
(***************************************************************************)
RetryBudget ==
  \A r \in Row :
    LET granted == MaxRetries + 2 * operatorRetries[r] IN
    IF row[r].status = "FAILED" THEN row[r].retryCount <= granted
                                ELSE row[r].retryCount < granted

(***************************************************************************)
(* Nothing that happens later, a replayed job, a worker that outlived the  *)
(* stale window, a slow sweep or a late release, changes a DONE row.       *)
(***************************************************************************)
DoneIsFinal ==
  [][\A r \in Row : row[r].status = "DONE" => row'[r] = row[r]]_vars

(***************************************************************************)
(* Every staged event ends DONE or FAILED: no crash of a relay, a worker   *)
(* or a sweep, and no lost job, leaves its row claimed or pending for good. *)
(***************************************************************************)
Unsettled(r) == row[r].status \in {"PENDING"} \cup ClaimedStatuses

EventuallySettled ==
  \A r \in Row : Unsettled(r) ~> ~Unsettled(r)

(***************************************************************************)
(* The pipeline keeps the contract of EventContract: a row that waits or   *)
(* is claimed is an open event, and the committed effects of handle are    *)
(* its applied effects.                                                    *)
(***************************************************************************)
ContractState(status) ==
  CASE status = "ABSENT" -> "none"
    [] status = "DONE"   -> "done"
    [] status = "FAILED" -> "failed"
    [] OTHER             -> "open"

Contract == INSTANCE EventContract
  WITH Event   <- Row,
       state   <- [r \in Row |-> ContractState(row[r].status)],
       applied <- [r \in Row |-> effects[r] > 0]

KeepsContract == Contract!Spec

-----------------------------------------------------------------------------
(***************************************************************************)
(* What EffectsOnce, DoneMeansHandled and RetryBudget rest on.             *)
(***************************************************************************)

\* One transaction at a time holds an event's marker, and only while it is not committed.
MarkerIsLock ==
  \A w \in Worker : worker[w].pc = "inTx" =>
    /\ worker[w].claim.row \notin marker
    /\ \A v \in Worker : worker[v].pc = "inTx" /\ worker[v].claim.row = worker[w].claim.row
                           => v = w

\* A worker about to write DONE, or past it, found or committed the marker.
DoneOutcome ==
  \A w \in Worker : worker[w].outcome = "done" => worker[w].claim.row \in marker

\* What the sweep hands back was read with retries left.
HandBackBudget ==
  \A s \in Reaper : reaper[s].pc = "handBack" =>
    \A c \in reaper[s].stale : ~Exhausted(c.retryCount)

DoneMarked == \A r \in Row : row[r].status = "DONE" => r \in marker
=============================================================================
