---------------------------- MODULE OutboxProofs ----------------------------
(***************************************************************************)
(* Proofs about Outbox, for any number of events, relays, workers and      *)
(* sweeps and any retry budget; and about the lock its sweep runs under,   *)
(* for any set of pods and any TTL: a lease that is extended in time       *)
(* excludes every other.                                                   *)
(***************************************************************************)
EXTENDS Outbox, CronLock, TLAPS

(***************************************************************************)
(* Statements on a row keep its type, whatever the row was.                *)
(***************************************************************************)
LEMMA RowOperatorsType ==
  ASSUME NEW x \in RowType, NEW n \in Nat
  PROVE  /\ ClaimRow(x) \in RowType
         /\ ReleaseRow(x) \in RowType
         /\ MarkDone(x, n) \in RowType
         /\ MarkFailed(x, n) \in RowType
         /\ RetryFailed(x) \in RowType
         /\ ReapFailed(x) \in RowType
         /\ ReapBack(x, n) \in RowType
  BY DEF RowType, Status, MoveTo, ClaimRow, ReleaseRow, MarkDone, MarkFailed,
         RetryFailed, ReapFailed, ReapBack

(***************************************************************************)
(* The idle states have their types, and so has the claim a row is under.  *)
(***************************************************************************)
LEMMA IdleTypes ==
  /\ IdleRelay \in RelayType
  /\ IdleReaper \in ReaperType
  /\ IdleWorker \in WorkerType
  BY OutboxAssumption DEF IdleRelay, IdleReaper, IdleWorker, RelayType, ReaperType,
                         WorkerType, Claim, Outcome

\* The claim read off a row (jobIdFor) is a claim of the right type.
LEMMA ClaimOfType ==
  ASSUME TypeOK, NEW r \in Row
  PROVE  ClaimOf(r) \in Claim
  BY DEF TypeOK, RowType, ClaimOf, Claim

(***************************************************************************)
(* Every step keeps the types.                                             *)
(***************************************************************************)
LEMMA TypeInit == Init => TypeOK
<1> SUFFICES ASSUME Init PROVE TypeOK
  OBVIOUS
<1>1. NoRow \in RowType /\ LegacyRow \in RowType
  BY DEF NoRow, LegacyRow, RowType, Status
<1>2. row \in [Row -> RowType]
  BY <1>1 DEF Init
<1> QED BY <1>2, IdleTypes DEF Init, TypeOK

\* Staging, ageing and the operator's retry keep every piece of state typed.
LEMMA TypeRowNext == TypeOK /\ RowNext => TypeOK'
<1> SUFFICES ASSUME TypeOK, NEW r \in Row,
                    StageEvent(r) \/ ClaimGoesStale(r) \/ OperatorRetry(r)
             PROVE  TypeOK'
  BY DEF RowNext
<1>1. CASE StageEvent(r)
  <2>1. NewRow \in RowType
    BY DEF NewRow, RowType, Status
  <2> QED BY <1>1, <2>1 DEF StageEvent, TypeOK
<1>2. CASE ClaimGoesStale(r)
  <2>1. [row[r] EXCEPT !.stale = TRUE] \in RowType
    BY DEF TypeOK, RowType
  <2> QED BY <1>2, <2>1 DEF ClaimGoesStale, TypeOK
<1>3. CASE OperatorRetry(r)
  <2>1. RetryFailed(row[r]) \in RowType
    BY RowOperatorsType DEF TypeOK
  <2> QED BY <1>3, <2>1 DEF OperatorRetry, TypeOK
<1> QED BY <1>1, <1>2, <1>3

\* addBulk of typed claims leaves typed jobs.
LEMMA TypeAddBulk ==
  ASSUME TypeOK, NEW batch \in SUBSET Claim
  PROVE  AddBulk(batch) \subseteq Job
  BY DEF TypeOK, AddBulk, Job

\* No step of a relay leaves the types.
LEMMA TypeRelayNext == TypeOK /\ RelayNext => TypeOK'
<1> SUFFICES ASSUME TypeOK, NEW p \in Relay,
                    \/ RelayClaim(p) \/ RelayEnqueue(p) \/ RelayEnqueueFails(p)
                    \/ RelayRelease(p) \/ RelayCrash(p)
             PROVE  TypeOK'
  BY DEF RelayNext
<1>1. CASE RelayClaim(p)
  <2>1. PICK taken \in SUBSET {r \in Row : row[r].status = "PENDING"} :
          /\ row' = [r \in Row |-> IF r \in taken THEN ClaimRow(row[r]) ELSE row[r]]
          /\ relay' = [relay EXCEPT ![p] =
               [pc |-> "enqueue", batch |-> {ClaimOf(r) : r \in taken}]]
    BY <1>1 DEF RelayClaim
  <2>2. row' \in [Row -> RowType]
    BY <2>1, RowOperatorsType DEF TypeOK
  <2>3. {ClaimOf(r) : r \in taken} \in SUBSET Claim
    BY ClaimOfType
  <2>4. relay' \in [Relay -> RelayType]
    BY <2>1, <2>3 DEF TypeOK, RelayType
  <2> QED BY <1>1, <2>2, <2>4 DEF RelayClaim, TypeOK
<1>2. CASE RelayEnqueue(p) \/ RelayEnqueueFails(p)
  <2>1. relay[p].batch \in SUBSET Claim
    BY DEF TypeOK, RelayType
  <2>2. jobs' \subseteq Job
    BY <1>2, <2>1, TypeAddBulk DEF RelayEnqueue, RelayEnqueueFails, TypeOK
  <2>3. relay' \in [Relay -> RelayType]
    BY <1>2, IdleTypes DEF RelayEnqueue, RelayEnqueueFails, TypeOK, RelayType
  <2> QED BY <1>2, <2>2, <2>3 DEF RelayEnqueue, RelayEnqueueFails, TypeOK
<1>3. CASE RelayRelease(p)
  <2>1. row' \in [Row -> RowType]
    BY <1>3, RowOperatorsType DEF RelayRelease, TypeOK
  <2> QED BY <1>3, <2>1, IdleTypes DEF RelayRelease, TypeOK
<1>4. CASE RelayCrash(p)
  BY <1>4, IdleTypes DEF RelayCrash, TypeOK
<1> QED BY <1>1, <1>2, <1>3, <1>4

\* Moving a worker to another step and outcome keeps its record typed.
LEMMA TypeGoto ==
  ASSUME TypeOK, NEW w \in Worker, NEW outcome \in Outcome,
         NEW pc \in {"idle", "lookup", "insert", "inTx", "settle", "finish"},
         Goto(w, pc, outcome)
  PROVE  worker' \in [Worker -> WorkerType]
  BY DEF TypeOK, WorkerType, Goto

\* No step of process, handle or settle leaves the types.
LEMMA TypeWorkerNext == TypeOK /\ WorkerNext => TypeOK'
<1> SUFFICES ASSUME TypeOK, NEW w \in Worker,
                    \/ Deliver(w) \/ FindMarker(w) \/ InsertMarker(w)
                    \/ CommitEffects(w) \/ HandleFails(w) \/ Settle(w)
                    \/ SettleThrows(w) \/ FinishJob(w) \/ WorkerCrash(w)
             PROVE  TypeOK'
  BY DEF WorkerNext
<1>0. worker[w] \in WorkerType
  BY DEF TypeOK
<1>1. CASE Deliver(w)
  <2>1. PICK j \in jobs :
          /\ jobs' = (jobs \ {j}) \cup {[j EXCEPT !.state = "active", !.holder = w]}
          /\ worker' = [worker EXCEPT ![w] =
               [pc |-> "lookup", claim |-> j.id, attemptsMade |-> j.attemptsMade,
                outcome |-> "none"]]
    BY <1>1 DEF Deliver
  <2>2. jobs' \subseteq Job
    BY <2>1 DEF TypeOK, Job
  <2>3. worker' \in [Worker -> WorkerType]
    BY <2>1 DEF TypeOK, Job, WorkerType, Outcome
  <2> QED BY <1>1, <2>2, <2>3 DEF Deliver, TypeOK
<1>2. CASE FindMarker(w)
  <2>1. worker' \in [Worker -> WorkerType]
    BY <1>2, TypeGoto DEF FindMarker, Outcome
  <2> QED BY <1>2, <2>1 DEF FindMarker, TypeOK
<1>3. CASE InsertMarker(w)
  <2>1. worker' \in [Worker -> WorkerType]
    BY <1>3, TypeGoto DEF InsertMarker, Outcome
  <2> QED BY <1>3, <2>1 DEF InsertMarker, TypeOK
<1>4. CASE CommitEffects(w)
  <2>1. worker' \in [Worker -> WorkerType]
    BY <1>4, TypeGoto DEF CommitEffects, Outcome
  <2>2. worker[w].claim.row \in Row
    BY <1>0 DEF WorkerType, Claim
  <2> QED BY <1>4, <2>1, <2>2 DEF CommitEffects, TypeOK
<1>5. CASE HandleFails(w)
  <2>1. PICK transient \in BOOLEAN : Goto(w, "settle", OutcomeOf(transient, worker[w].attemptsMade))
    BY <1>5 DEF HandleFails
  <2>2. OutcomeOf(transient, worker[w].attemptsMade) \in Outcome
    BY DEF OutcomeOf, Outcome
  <2>3. worker' \in [Worker -> WorkerType]
    BY <2>1, <2>2, TypeGoto
  <2> QED BY <1>5, <2>3 DEF HandleFails, TypeOK
<1>6. CASE Settle(w)
  <2>1. worker[w].claim.row \in Row /\ worker[w].claim.retryCount \in Nat
    BY <1>0 DEF WorkerType, Claim
  <2>2. SettledRow(row[worker[w].claim.row], worker[w].claim.retryCount, worker[w].outcome) \in RowType
    BY <2>1, RowOperatorsType DEF SettledRow, TypeOK
  <2>3. row' \in [Row -> RowType]
    BY <1>6, <2>1, <2>2 DEF Settle, TypeOK
  <2>4. worker' \in [Worker -> WorkerType]
    BY <1>6 DEF Settle, TypeOK, WorkerType
  <2> QED BY <1>6, <2>3, <2>4 DEF Settle, TypeOK
<1>7. CASE SettleThrows(w)
  <2>1. worker' \in [Worker -> WorkerType]
    BY <1>7 DEF SettleThrows, TypeOK, WorkerType
  <2> QED BY <1>7, <2>1 DEF SettleThrows, TypeOK
<1>8. CASE FinishJob(w)
  <2>1. ASSUME NEW j \in Job, NEW o \in Outcome PROVE FinishedJob(j, o) \in Job
    <3>0. j.attemptsMade + 1 \in Nat
      BY DEF Job
    <3>1. [j EXCEPT !.state = "waiting", !.attemptsMade = @ + 1, !.holder = NoWorker] \in Job
      BY <3>0 DEF Job
    <3>2. [j EXCEPT !.state = "kept", !.holder = NoWorker] \in Job
      BY DEF Job
    <3> QED BY <3>1, <3>2 DEF FinishedJob
  <2>2. worker[w].outcome \in Outcome
    BY <1>0 DEF WorkerType
  <2>3. jobs' \subseteq Job
    BY <1>8, <2>1, <2>2 DEF FinishJob, TypeOK
  <2> QED BY <1>8, <2>3, IdleTypes DEF FinishJob, TypeOK
<1>9. CASE WorkerCrash(w)
  BY <1>9, IdleTypes DEF WorkerCrash, TypeOK
<1> QED BY <1>1, <1>2, <1>3, <1>4, <1>5, <1>6, <1>7, <1>8, <1>9

\* No statement of reapBatch leaves the types.
LEMMA TypeReaperNext == TypeOK /\ ReaperNext => TypeOK'
<1> SUFFICES ASSUME TypeOK, NEW s \in Reaper,
                    ReapSelect(s) \/ ReapExhausted(s) \/ ReapHandBack(s) \/ ReapEnds(s)
             PROVE  TypeOK'
  BY DEF ReaperNext
<1>0. reaper[s].stale \in SUBSET Claim
  BY DEF TypeOK, ReaperType
<1>1. CASE ReapSelect(s)
  <2>1. {ClaimOf(r) : r \in StaleRows} \in SUBSET Claim
    BY ClaimOfType DEF StaleRows
  <2>2. reaper' \in [Reaper -> ReaperType]
    BY <1>1, <2>1 DEF ReapSelect, TypeOK, ReaperType
  <2> QED BY <1>1, <2>2 DEF ReapSelect, TypeOK
<1>2. CASE ReapExhausted(s)
  <2>1. row' \in [Row -> RowType]
    BY <1>2, RowOperatorsType DEF ReapExhausted, TypeOK
  <2>2. reaper' \in [Reaper -> ReaperType]
    BY <1>0, <1>2 DEF ReapExhausted, TypeOK, ReaperType
  <2> QED BY <1>2, <2>1, <2>2 DEF ReapExhausted, TypeOK
<1>3. CASE ReapHandBack(s)
  <2>1. PICK c \in reaper[s].stale :
          /\ row' = [row EXCEPT ![c.row] = ReapBack(@, c.retryCount)]
          /\ reaper' = [reaper EXCEPT ![s].stale = @ \ {c}]
    BY <1>3 DEF ReapHandBack
  <2>2. c.row \in Row /\ c.retryCount \in Nat
    BY <1>0, <2>1 DEF Claim
  <2>3. row' \in [Row -> RowType]
    BY <2>1, <2>2, RowOperatorsType DEF TypeOK
  <2>4. reaper' \in [Reaper -> ReaperType]
    BY <1>0, <2>1 DEF TypeOK, ReaperType
  <2> QED BY <1>3, <2>3, <2>4 DEF ReapHandBack, TypeOK
<1>4. CASE ReapEnds(s)
  BY <1>4, IdleTypes DEF ReapEnds, TypeOK
<1> QED BY <1>1, <1>2, <1>3, <1>4

\* BullMQ's own steps leave typed jobs.
LEMMA TypeJobs == TypeOK /\ (JobStalls \/ DropFinishedJob) => TypeOK'
<1>1. ASSUME TypeOK, JobStalls PROVE TypeOK'
  <2>1. jobs' \subseteq Job
    BY <1>1 DEF JobStalls, TypeOK, Job
  <2> QED BY <1>1, <2>1 DEF JobStalls, TypeOK
<1>2. ASSUME TypeOK, DropFinishedJob PROVE TypeOK'
  BY <1>2 DEF DropFinishedJob, TypeOK
<1> QED BY <1>1, <1>2

\* Every step keeps the types.
LEMMA TypeStep == TypeOK /\ [Next]_vars => TypeOK'
<1>1. TypeOK /\ UNCHANGED vars => TypeOK'
  BY DEF vars, TypeOK
<1> QED BY <1>1, TypeRowNext, TypeRelayNext, TypeWorkerNext, TypeReaperNext, TypeJobs DEF Next

(***************************************************************************)
(* Every state of the outbox pipeline has the types TypeOK states.         *)
(***************************************************************************)
THEOREM OutboxTypes == Spec => []TypeOK
  BY TypeInit, TypeStep, PTL DEF Spec

-----------------------------------------------------------------------------
(***************************************************************************)
(* The marker invariants: who holds the lock, who may write DONE.          *)
(***************************************************************************)
MarkerInv == EffectsOnce /\ MarkerIsLock /\ DoneOutcome /\ DoneMarked

\* Nothing the marker invariants speak of is written.
LEMMA MarkerFrame ==
  ASSUME MarkerInv, marker' = marker, effects' = effects, worker' = worker,
         \A r \in Row : row'[r].status = "DONE" => row[r].status = "DONE"
  PROVE  MarkerInv'
  BY DEF MarkerInv, EffectsOnce, MarkerIsLock, DoneOutcome, DoneMarked

\* Staging, ageing and the operator's retry write no DONE and touch no marker.
LEMMA MarkerRowNext == TypeOK /\ MarkerInv /\ RowNext => MarkerInv'
<1> SUFFICES ASSUME TypeOK, MarkerInv, NEW q \in Row,
                    StageEvent(q) \/ ClaimGoesStale(q) \/ OperatorRetry(q)
             PROVE  MarkerInv'
  BY DEF RowNext
<1>1. \A r \in Row : row'[r].status = "DONE" => row[r].status = "DONE"
  BY DEF StageEvent, ClaimGoesStale, OperatorRetry, NewRow, RetryFailed, MoveTo, TypeOK, RowType
<1> QED BY <1>1, MarkerFrame DEF StageEvent, ClaimGoesStale, OperatorRetry

\* Claiming, enqueueing and releasing write no DONE and touch no marker.
LEMMA MarkerRelayNext == TypeOK /\ MarkerInv /\ RelayNext => MarkerInv'
<1> SUFFICES ASSUME TypeOK, MarkerInv, NEW p \in Relay,
                    \/ RelayClaim(p) \/ RelayEnqueue(p) \/ RelayEnqueueFails(p)
                    \/ RelayRelease(p) \/ RelayCrash(p)
             PROVE  MarkerInv'
  BY DEF RelayNext
<1>1. \A r \in Row : row'[r].status = "DONE" => row[r].status = "DONE"
  BY DEF RelayClaim, RelayEnqueue, RelayEnqueueFails, RelayRelease, RelayCrash,
         ClaimRow, ReleaseRow, MoveTo
<1> QED BY <1>1, MarkerFrame
        DEF RelayClaim, RelayEnqueue, RelayEnqueueFails, RelayRelease, RelayCrash

\* The sweep's two UPDATEs write FAILED or PENDING, never DONE.
LEMMA MarkerReaperNext == TypeOK /\ MarkerInv /\ ReaperNext => MarkerInv'
<1> SUFFICES ASSUME TypeOK, MarkerInv, NEW s \in Reaper,
                    ReapSelect(s) \/ ReapExhausted(s) \/ ReapHandBack(s) \/ ReapEnds(s)
             PROVE  MarkerInv'
  BY DEF ReaperNext
<1>1. ASSUME NEW r \in Row, row'[r].status = "DONE"
      PROVE  row[r].status = "DONE"
  <2>1. CASE ReapSelect(s) \/ ReapEnds(s)
    BY <1>1, <2>1 DEF ReapSelect, ReapEnds
  <2>2. CASE ReapExhausted(s)
    BY <1>1, <2>2 DEF ReapExhausted, ReapFailed, MoveTo
  <2>3. CASE ReapHandBack(s)
    <3>1. PICK c \in reaper[s].stale : row' = [row EXCEPT ![c.row] = ReapBack(@, c.retryCount)]
      BY <2>3 DEF ReapHandBack
    <3>2. row'[r] = row[r] \/ row'[r] = ReapBack(row[r], c.retryCount)
      BY <3>1 DEF TypeOK
    <3> QED BY <1>1, <3>2 DEF ReapBack, MoveTo
  <2> QED BY <2>1, <2>2, <2>3
<1> QED BY <1>1, MarkerFrame DEF ReapSelect, ReapExhausted, ReapHandBack, ReapEnds

(***************************************************************************)
(* A worker that moves to a place outside the transaction, without writing *)
(* the marker, keeps the invariants if it may claim the outcome it claims. *)
(***************************************************************************)
LEMMA MarkerWorkerLeaves ==
  ASSUME TypeOK, MarkerInv, NEW w \in Worker,
         marker' = marker, effects' = effects,
         \A v \in Worker \ {w} : worker'[v] = worker[v],
         worker'[w].pc # "inTx",
         worker'[w].outcome = "done" => worker'[w].claim.row \in marker,
         \A r \in Row : row'[r].status = "DONE" => row[r].status = "DONE" \/ r \in marker
  PROVE  MarkerInv'
  BY DEF MarkerInv, EffectsOnce, MarkerIsLock, DoneOutcome, DoneMarked

\* handle commits effects and marker together, and settle writes DONE only with the marker there.
LEMMA MarkerWorkerNext == TypeOK /\ MarkerInv /\ WorkerNext => MarkerInv'
<1> SUFFICES ASSUME TypeOK, MarkerInv, NEW w \in Worker,
                    \/ Deliver(w) \/ FindMarker(w) \/ InsertMarker(w)
                    \/ CommitEffects(w) \/ HandleFails(w) \/ Settle(w)
                    \/ SettleThrows(w) \/ FinishJob(w) \/ WorkerCrash(w)
             PROVE  MarkerInv'
  BY DEF WorkerNext
<1>0. /\ worker[w] \in WorkerType
      /\ worker[w].claim.row \in Row
      /\ worker[w].outcome = "done" => worker[w].claim.row \in marker
  BY DEF TypeOK, WorkerType, Claim, MarkerInv, DoneOutcome
<1>1. CASE Deliver(w)
  <2>1. /\ \A v \in Worker \ {w} : worker'[v] = worker[v]
        /\ worker'[w].pc = "lookup" /\ worker'[w].outcome = "none"
    <3>1. PICK j \in jobs : worker' = [worker EXCEPT ![w] =
            [pc |-> "lookup", claim |-> j.id, attemptsMade |-> j.attemptsMade,
             outcome |-> "none"]]
      BY <1>1 DEF Deliver
    <3> QED BY <3>1 DEF TypeOK
  <2> QED BY <1>1, <2>1, MarkerWorkerLeaves DEF Deliver
<1>2. CASE FindMarker(w)
  <2>1. /\ \A v \in Worker \ {w} : worker'[v] = worker[v]
        /\ worker'[w].pc \in {"settle", "insert"}
        /\ worker'[w].claim = worker[w].claim
        /\ worker'[w].outcome = "done" => worker[w].claim.row \in marker
    BY <1>2 DEF FindMarker, Goto, TypeOK, WorkerType
  <2> QED BY <1>2, <2>1, MarkerWorkerLeaves DEF FindMarker
<1>3. CASE InsertMarker(w)
  <2>1. CASE worker[w].claim.row \in marker
    <3>1. /\ \A v \in Worker \ {w} : worker'[v] = worker[v]
          /\ worker'[w].pc = "settle"
          /\ worker'[w].claim = worker[w].claim
      BY <1>3, <2>1 DEF InsertMarker, Goto, TypeOK, WorkerType
    <3> QED BY <1>3, <2>1, <3>1, MarkerWorkerLeaves DEF InsertMarker
  <2>2. CASE worker[w].claim.row \notin marker
    <3>1. /\ \A v \in Worker \ {w} : worker'[v] = worker[v]
          /\ worker'[w].pc = "inTx"
          /\ worker'[w].claim = worker[w].claim
          /\ worker'[w].outcome = "none"
      BY <1>3, <2>2 DEF InsertMarker, Goto, TypeOK, WorkerType
    <3>2. MarkerIsLock'
      BY <1>3, <2>2, <3>1 DEF InsertMarker, InTx, MarkerInv, MarkerIsLock
    <3>3. (EffectsOnce /\ DoneOutcome /\ DoneMarked)'
      BY <1>3, <3>1 DEF InsertMarker, MarkerInv, EffectsOnce, DoneOutcome, DoneMarked
    <3> QED BY <3>2, <3>3 DEF MarkerInv
  <2> QED BY <2>1, <2>2
<1>4. CASE CommitEffects(w)
  <2>1. /\ \A v \in Worker \ {w} : worker'[v] = worker[v]
        /\ worker'[w].pc = "settle"
        /\ worker'[w].claim = worker[w].claim
        /\ worker'[w].outcome = "done"
    BY <1>4 DEF CommitEffects, Goto, TypeOK, WorkerType
  <2>2. worker[w].claim.row \notin marker
    BY <1>4 DEF CommitEffects, MarkerInv, MarkerIsLock
  <2>3. EffectsOnce'
    BY <1>0, <1>4, <2>2 DEF CommitEffects, TypeOK, MarkerInv, EffectsOnce
  <2>4. MarkerIsLock'
    BY <1>4, <2>1 DEF CommitEffects, MarkerInv, MarkerIsLock
  <2>5. DoneOutcome' /\ DoneMarked'
    BY <1>4, <2>1 DEF CommitEffects, MarkerInv, DoneOutcome, DoneMarked
  <2> QED BY <2>3, <2>4, <2>5 DEF MarkerInv
<1>5. CASE HandleFails(w)
  <2>1. /\ \A v \in Worker \ {w} : worker'[v] = worker[v]
        /\ worker'[w].pc = "settle"
        /\ worker'[w].outcome # "done"
    BY <1>5 DEF HandleFails, Goto, OutcomeOf, TypeOK, WorkerType
  <2> QED BY <1>5, <2>1, MarkerWorkerLeaves DEF HandleFails
<1>6. CASE Settle(w)
  <2>1. /\ \A v \in Worker \ {w} : worker'[v] = worker[v]
        /\ worker'[w].pc = "finish"
        /\ worker'[w].claim = worker[w].claim
        /\ worker'[w].outcome = worker[w].outcome
    BY <1>6 DEF Settle, TypeOK, WorkerType
  <2>2. ASSUME NEW r \in Row, row'[r].status = "DONE", row[r].status # "DONE"
        PROVE  r \in marker
    BY <1>0, <1>6, <2>2 DEF Settle, SettledRow, MarkDone, MarkFailed, MoveTo, TypeOK
  <2> QED BY <1>0, <1>6, <2>1, <2>2, MarkerWorkerLeaves DEF Settle
<1>7. CASE SettleThrows(w)
  <2>1. /\ \A v \in Worker \ {w} : worker'[v] = worker[v]
        /\ worker'[w].pc = "finish"
        /\ worker'[w].claim = worker[w].claim
        /\ worker'[w].outcome = worker[w].outcome
    BY <1>7 DEF SettleThrows, TypeOK, WorkerType
  <2> QED BY <1>0, <1>7, <2>1, MarkerWorkerLeaves DEF SettleThrows
<1>8. CASE FinishJob(w) \/ WorkerCrash(w)
  <2>1. /\ \A v \in Worker \ {w} : worker'[v] = worker[v]
        /\ worker'[w].pc = "idle" /\ worker'[w].outcome = "none"
    BY <1>8 DEF FinishJob, WorkerCrash, IdleWorker, TypeOK
  <2> QED BY <1>8, <2>1, MarkerWorkerLeaves DEF FinishJob, WorkerCrash
<1> QED BY <1>1, <1>2, <1>3, <1>4, <1>5, <1>6, <1>7, <1>8

\* Every step keeps the marker invariants.
LEMMA MarkerStep == TypeOK /\ MarkerInv /\ [Next]_vars => MarkerInv'
<1>1. MarkerInv /\ UNCHANGED vars => MarkerInv'
  BY MarkerFrame DEF vars
<1>2. MarkerInv /\ (JobStalls \/ DropFinishedJob) => MarkerInv'
  BY MarkerFrame DEF JobStalls, DropFinishedJob
<1> QED BY <1>1, <1>2, MarkerRowNext, MarkerRelayNext, MarkerWorkerNext, MarkerReaperNext DEF Next

\* The marker invariants hold before anything is staged.
LEMMA MarkerInit == Init => MarkerInv
  BY DEF Init, MarkerInv, EffectsOnce, MarkerIsLock, DoneOutcome, DoneMarked,
         IdleWorker, NoRow, LegacyRow

(***************************************************************************)
(* The effects of an event are applied at most once and its marker records *)
(* exactly that, for any number of workers and redeliveries.               *)
(***************************************************************************)
THEOREM OutboxEffectsOnce == Spec => []EffectsOnce
<1>1. MarkerInv => EffectsOnce
  BY DEF MarkerInv
<1> QED BY <1>1, MarkerInit, MarkerStep, OutboxTypes, PTL DEF Spec

(***************************************************************************)
(* A DONE row's event has been handled.                                    *)
(***************************************************************************)
THEOREM OutboxDoneMeansHandled == Spec => []DoneMeansHandled
<1>1. MarkerInv => DoneMeansHandled
  BY DEF MarkerInv, DoneMarked, EffectsOnce, DoneMeansHandled
<1> QED BY <1>1, MarkerInit, MarkerStep, OutboxTypes, PTL DEF Spec

-----------------------------------------------------------------------------
(***************************************************************************)
(* The retry budget.                                                       *)
(***************************************************************************)
Granted(r) == MaxRetries + 2 * operatorRetries[r]

\* The budget of one row as a formula of the row and of what it was granted.
WithinBudget(x, granted) ==
  IF x.status = "FAILED" THEN x.retryCount <= granted ELSE x.retryCount < granted

\* RetryBudget, one row at a time.
LEMMA BudgetOfRows == RetryBudget <=> \A r \in Row : WithinBudget(row[r], Granted(r))
  BY DEF RetryBudget, WithinBudget, Granted

\* No statement on a row takes it past its budget, as long as what it writes was read with retries left.
LEMMA BudgetOperators ==
  ASSUME NEW x \in RowType, NEW n \in Nat, NEW g \in Nat, WithinBudget(x, g)
  PROVE  /\ WithinBudget(ClaimRow(x), g)
         /\ WithinBudget(ReleaseRow(x), g)
         /\ WithinBudget(MarkDone(x, n), g)
         /\ WithinBudget(MarkFailed(x, n), g)
         /\ WithinBudget(ReapFailed(x), g)
         /\ n + 1 < g => WithinBudget(ReapBack(x, n), g)
         /\ WithinBudget(RetryFailed(x), g + 2)
         /\ WithinBudget([x EXCEPT !.stale = TRUE], g)
  BY DEF WithinBudget, RowType, Status, MoveTo, ClaimRow, ReleaseRow, MarkDone, MarkFailed,
         RetryFailed, ReapFailed, ReapBack, IsClaimed, SettleWhere, ClaimedStatuses

\* What a row is granted is a number.
LEMMA GrantedNat ==
  ASSUME TypeOK, NEW r \in Row
  PROVE  Granted(r) \in Nat /\ MaxRetries <= Granted(r)
  BY MaxRetriesAssumption DEF TypeOK, Granted

BudgetInv == RetryBudget /\ HandBackBudget

\* A step that changes neither the sweeps nor what the operator granted, and keeps each row within its budget.
LEMMA BudgetFrame ==
  ASSUME BudgetInv, reaper' = reaper, operatorRetries' = operatorRetries,
         \A r \in Row : WithinBudget(row[r], Granted(r)) => WithinBudget(row'[r], Granted(r))
  PROVE  BudgetInv'
  BY DEF BudgetInv, RetryBudget, HandBackBudget, WithinBudget, Granted

\* Every step keeps every row within its budget.
LEMMA BudgetStep == TypeOK /\ BudgetInv /\ [Next]_vars => BudgetInv'
<1> SUFFICES ASSUME TypeOK, BudgetInv, [Next]_vars PROVE BudgetInv'
  OBVIOUS
<1>0. \A r \in Row : WithinBudget(row[r], Granted(r)) /\ Granted(r) \in Nat /\ row[r] \in RowType
  BY BudgetOfRows, GrantedNat DEF BudgetInv, TypeOK
<1>1. CASE UNCHANGED vars
  BY <1>1, BudgetFrame DEF vars
<1>2. CASE JobStalls \/ DropFinishedJob
  BY <1>2, BudgetFrame DEF JobStalls, DropFinishedJob
<1>3. ASSUME NEW r \in Row, StageEvent(r) PROVE BudgetInv'
  <2>1. WithinBudget(NewRow, Granted(r))
    BY GrantedNat, MaxRetriesAssumption DEF WithinBudget, NewRow
  <2> QED BY <1>3, <2>1, BudgetFrame DEF StageEvent, TypeOK
<1>4. ASSUME NEW r \in Row, ClaimGoesStale(r) PROVE BudgetInv'
  <2>1. \A q \in Row : row'[q] = row[q] \/ row'[q] = [row[q] EXCEPT !.stale = TRUE]
    BY <1>4 DEF ClaimGoesStale, TypeOK
  <2> QED BY <1>0, <1>4, <2>1, BudgetOperators, BudgetFrame DEF ClaimGoesStale
<1>5. ASSUME NEW r \in Row, OperatorRetry(r) PROVE BudgetInv'
  <2>1. \A q \in Row : WithinBudget(row'[q], Granted(q)')
    <3>1. ASSUME NEW q \in Row, q # r PROVE row'[q] = row[q] /\ Granted(q)' = Granted(q)
      BY <1>5, <3>1 DEF OperatorRetry, TypeOK, Granted
    <3>2. row'[r] = RetryFailed(row[r]) /\ Granted(r)' = Granted(r) + 2
      BY <1>5, MaxRetriesAssumption DEF OperatorRetry, TypeOK, Granted
    <3> QED BY <1>0, <3>1, <3>2, BudgetOperators
  <2>2. RetryBudget'
    BY <2>1 DEF RetryBudget, WithinBudget, Granted
  <2> QED BY <1>5, <2>2 DEF OperatorRetry, BudgetInv, HandBackBudget
<1>6. ASSUME NEW p \in Relay,
             \/ RelayClaim(p) \/ RelayEnqueue(p) \/ RelayEnqueueFails(p)
             \/ RelayRelease(p) \/ RelayCrash(p)
      PROVE BudgetInv'
  <2>1. \A q \in Row : \/ row'[q] = row[q]
                       \/ row'[q] = ClaimRow(row[q])
                       \/ row'[q] = ReleaseRow(row[q])
    BY <1>6 DEF RelayClaim, RelayEnqueue, RelayEnqueueFails, RelayRelease, RelayCrash
  <2>2. reaper' = reaper /\ operatorRetries' = operatorRetries
    BY <1>6 DEF RelayClaim, RelayEnqueue, RelayEnqueueFails, RelayRelease, RelayCrash
  <2> QED BY <1>0, <2>1, <2>2, BudgetOperators, BudgetFrame
<1>7. ASSUME NEW w \in Worker, Settle(w) PROVE BudgetInv'
  <2>1. worker[w].claim.row \in Row /\ worker[w].claim.retryCount \in Nat
    BY DEF TypeOK, WorkerType, Claim
  <2>2. \A q \in Row : \/ row'[q] = row[q]
                       \/ row'[q] = MarkDone(row[q], worker[w].claim.retryCount)
                       \/ row'[q] = MarkFailed(row[q], worker[w].claim.retryCount)
    BY <1>7, <2>1 DEF Settle, SettledRow, TypeOK
  <2> QED BY <1>0, <1>7, <2>1, <2>2, BudgetOperators, BudgetFrame DEF Settle
<1>8. ASSUME NEW w \in Worker,
             \/ Deliver(w) \/ FindMarker(w) \/ InsertMarker(w) \/ CommitEffects(w)
             \/ HandleFails(w) \/ SettleThrows(w) \/ FinishJob(w) \/ WorkerCrash(w)
      PROVE BudgetInv'
  <2>1. row' = row /\ reaper' = reaper /\ operatorRetries' = operatorRetries
    BY <1>8 DEF Deliver, FindMarker, InsertMarker, CommitEffects, HandleFails,
                SettleThrows, FinishJob, WorkerCrash
  <2> QED BY <2>1, BudgetFrame
<1>9. ASSUME NEW s \in Reaper, ReapSelect(s) \/ ReapEnds(s) PROVE BudgetInv'
  <2>1. row' = row /\ operatorRetries' = operatorRetries
    BY <1>9 DEF ReapSelect, ReapEnds
  <2>2. /\ reaper'[s].pc # "handBack"
        /\ \A t \in Reaper \ {s} : reaper'[t] = reaper[t]
    BY <1>9 DEF ReapSelect, ReapEnds, IdleReaper, TypeOK
  <2> QED BY <2>1, <2>2 DEF BudgetInv, RetryBudget, HandBackBudget
<1>10. ASSUME NEW s \in Reaper, ReapExhausted(s) PROVE BudgetInv'
  <2>1. \A q \in Row : row'[q] = row[q] \/ row'[q] = ReapFailed(row[q])
    BY <1>10 DEF ReapExhausted
  <2>2. \A q \in Row : WithinBudget(row'[q], Granted(q)) /\ Granted(q)' = Granted(q)
    BY <1>0, <1>10, <2>1, BudgetOperators DEF ReapExhausted, Granted
  <2>3. RetryBudget'
    BY <2>2 DEF RetryBudget, WithinBudget, Granted
  <2>4. /\ \A c \in reaper'[s].stale : ~Exhausted(c.retryCount)
        /\ \A t \in Reaper \ {s} : reaper'[t] = reaper[t]
    BY <1>10 DEF ReapExhausted, TypeOK
  <2> QED BY <2>3, <2>4 DEF BudgetInv, HandBackBudget
<1>11. ASSUME NEW s \in Reaper, ReapHandBack(s) PROVE BudgetInv'
  <2>1. PICK c \in reaper[s].stale :
          /\ row' = [row EXCEPT ![c.row] = ReapBack(@, c.retryCount)]
          /\ reaper' = [reaper EXCEPT ![s].stale = @ \ {c}]
    BY <1>11 DEF ReapHandBack
  <2>2. c.row \in Row /\ c.retryCount \in Nat /\ ~Exhausted(c.retryCount)
    BY <1>11, <2>1 DEF ReapHandBack, TypeOK, ReaperType, Claim, BudgetInv, HandBackBudget
  <2>3. c.retryCount + 1 < MaxRetries
    BY <2>2, MaxRetriesAssumption DEF Exhausted
  <2>4. \A q \in Row : row'[q] = row[q] \/ row'[q] = ReapBack(row[q], c.retryCount)
    BY <2>1, <2>2 DEF TypeOK
  <2>5. \A q \in Row : c.retryCount + 1 < Granted(q)
    BY <2>2, <2>3, GrantedNat, MaxRetriesAssumption
  <2>6. /\ \A q \in Row : WithinBudget(row'[q], Granted(q))
        /\ operatorRetries' = operatorRetries
    <3>1. ASSUME NEW q \in Row PROVE WithinBudget(row'[q], Granted(q))
      <4>1. WithinBudget(ReapBack(row[q], c.retryCount), Granted(q))
        BY <1>0, <2>2, <2>5, BudgetOperators
      <4> QED BY <1>0, <2>4, <4>1
    <3> QED BY <1>11, <3>1 DEF ReapHandBack
  <2>7. RetryBudget'
    BY <2>6 DEF RetryBudget, WithinBudget, Granted
  <2>8. /\ reaper'[s].stale = reaper[s].stale \ {c} /\ reaper'[s].pc = reaper[s].pc
        /\ \A t \in Reaper \ {s} : reaper'[t] = reaper[t]
    BY <2>1 DEF TypeOK, ReaperType
  <2>9. HandBackBudget'
    BY <2>8 DEF BudgetInv, HandBackBudget
  <2> QED BY <2>7, <2>9 DEF BudgetInv
<1> QED BY <1>1, <1>2, <1>3, <1>4, <1>5, <1>6, <1>7, <1>8, <1>9, <1>10, <1>11
        DEF Next, RowNext, RelayNext, WorkerNext, ReaperNext

\* No row is past its budget before anything is staged.
LEMMA BudgetInit == Init => BudgetInv
<1> SUFFICES ASSUME Init PROVE BudgetInv
  OBVIOUS
<1>1. \A r \in Row : row[r].status # "FAILED" /\ row[r].retryCount = 0 /\ operatorRetries[r] = 0
  BY DEF Init, NoRow, LegacyRow
<1>2. RetryBudget
  BY <1>1, MaxRetriesAssumption DEF RetryBudget
<1>3. HandBackBudget
  BY DEF Init, HandBackBudget, IdleReaper
<1> QED BY <1>2, <1>3 DEF BudgetInv

(***************************************************************************)
(* The automatic retries of a row never exceed the configured budget plus  *)
(* what operators granted, although the reaper writes a retryCount it read *)
(* earlier.                                                                *)
(***************************************************************************)
THEOREM OutboxRetryBudget == Spec => []RetryBudget
<1>1. BudgetInv => RetryBudget
  BY DEF BudgetInv
<1> QED BY <1>1, BudgetInit, BudgetStep, OutboxTypes, PTL DEF Spec

-----------------------------------------------------------------------------
(***************************************************************************)
(* What a step may do to the status of a row.                              *)
(***************************************************************************)
LEMMA StatusOperators ==
  ASSUME NEW x \in RowType, NEW n \in Nat
  PROVE  /\ ClaimRow(x) = x \/ (x.status = "PENDING" /\ ClaimRow(x).status = "CLAIMED")
         /\ ReleaseRow(x) = x \/ (x.status = "CLAIMED" /\ ReleaseRow(x).status = "PENDING")
         /\ MarkDone(x, n) = x \/ (x.status \in ClaimedStatuses /\ MarkDone(x, n).status = "DONE")
         /\ MarkFailed(x, n) = x \/ (x.status \in ClaimedStatuses /\ MarkFailed(x, n).status = "FAILED")
         /\ ReapFailed(x) = x \/ (x.status \in ClaimedStatuses /\ ReapFailed(x).status = "FAILED")
         /\ ReapBack(x, n) = x \/ (x.status \in ClaimedStatuses /\ ReapBack(x, n).status = "PENDING")
         /\ RetryFailed(x) = x \/ (x.status = "FAILED" /\ RetryFailed(x).status = "PENDING")
         /\ [x EXCEPT !.stale = TRUE].status = x.status
  BY DEF RowType, MoveTo, ClaimRow, ReleaseRow, MarkDone, MarkFailed, ReapFailed, ReapBack,
         RetryFailed, IsClaimed, SettleWhere

(***************************************************************************)
(* A DONE row is never written again.                                      *)
(***************************************************************************)
LEMMA DoneStep ==
  ASSUME TypeOK, [Next]_vars, NEW r \in Row, row[r].status = "DONE"
  PROVE  row'[r] = row[r]
<1>0. row[r] \in RowType
  BY DEF TypeOK
<1>1. CASE row' = row
  BY <1>1
<1>2. ASSUME NEW q \in Row, StageEvent(q) \/ ClaimGoesStale(q) \/ OperatorRetry(q)
      PROVE row'[r] = row[r]
  BY <1>2 DEF StageEvent, ClaimGoesStale, OperatorRetry, IsClaimed, ClaimedStatuses, TypeOK
<1>3. ASSUME NEW p \in Relay, RelayClaim(p) \/ RelayRelease(p) PROVE row'[r] = row[r]
  BY <1>3 DEF RelayClaim, RelayRelease, ClaimRow, ReleaseRow
<1>4. ASSUME NEW w \in Worker, Settle(w) PROVE row'[r] = row[r]
  <2>1. worker[w].claim.row \in Row
    BY DEF TypeOK, WorkerType, Claim
  <2> QED BY <1>4, <2>1 DEF Settle, SettledRow, MarkDone, MarkFailed, SettleWhere, IsClaimed,
                            ClaimedStatuses, TypeOK
<1>5. ASSUME NEW s \in Reaper, ReapExhausted(s) \/ ReapHandBack(s) PROVE row'[r] = row[r]
  <2>1. CASE ReapExhausted(s)
    BY <2>1 DEF ReapExhausted, ReapFailed, IsClaimed, ClaimedStatuses
  <2>2. CASE ReapHandBack(s)
    <3>1. PICK c \in reaper[s].stale : row' = [row EXCEPT ![c.row] = ReapBack(@, c.retryCount)]
      BY <2>2 DEF ReapHandBack
    <3>2. row'[r] = row[r] \/ row'[r] = ReapBack(row[r], c.retryCount)
      BY <3>1 DEF TypeOK
    <3> QED BY <3>2 DEF ReapBack, IsClaimed, ClaimedStatuses
  <2> QED BY <1>5, <2>1, <2>2
<1>6. \/ row' = row
      \/ \E q \in Row : StageEvent(q) \/ ClaimGoesStale(q) \/ OperatorRetry(q)
      \/ \E p \in Relay : RelayClaim(p) \/ RelayRelease(p)
      \/ \E w \in Worker : Settle(w)
      \/ \E s \in Reaper : ReapExhausted(s) \/ ReapHandBack(s)
  BY DEF Next, vars, RowNext, RelayNext, WorkerNext, ReaperNext, RelayEnqueue, RelayEnqueueFails,
         RelayCrash, Deliver, FindMarker, InsertMarker, CommitEffects, HandleFails, SettleThrows,
         FinishJob, WorkerCrash, ReapSelect, ReapEnds, JobStalls, DropFinishedJob
<1> QED BY <1>1, <1>2, <1>3, <1>4, <1>5, <1>6

(***************************************************************************)
(* DONE is final: no replayed job, late release or slow sweep changes it.  *)
(***************************************************************************)
THEOREM OutboxDoneIsFinal == Spec => DoneIsFinal
<1>1. TypeOK /\ [Next]_vars => [\A r \in Row : row[r].status = "DONE" => row'[r] = row[r]]_vars
  BY DoneStep
<1> QED BY <1>1, OutboxTypes, PTL DEF Spec, DoneIsFinal

-----------------------------------------------------------------------------
(***************************************************************************)
(* The contract.  Applying the effects of an event needs it published,     *)
(* which holds because every claim in a batch, a job or a worker's hands   *)
(* was read off a staged row.                                              *)
(***************************************************************************)
ClaimsStaged ==
  /\ \A j \in jobs : row[j.id.row].status # "ABSENT"
  /\ \A p \in Relay : \A c \in relay[p].batch : row[c.row].status # "ABSENT"
  /\ \A w \in Worker : worker[w].pc # "idle" => row[worker[w].claim.row].status # "ABSENT"

\* A staged row stays staged: no statement writes ABSENT.
LEMMA StagedStays ==
  ASSUME TypeOK, [Next]_vars, NEW r \in Row, row[r].status # "ABSENT"
  PROVE  row'[r].status # "ABSENT"
<1>0. row[r] \in RowType
  BY DEF TypeOK
<1>1. CASE row' = row
  BY <1>1
<1>2. ASSUME NEW q \in Row, StageEvent(q) \/ ClaimGoesStale(q) \/ OperatorRetry(q)
      PROVE  row'[r].status # "ABSENT"
  BY <1>0, <1>2 DEF StageEvent, ClaimGoesStale, OperatorRetry, RetryFailed, MoveTo, TypeOK, RowType
<1>3. ASSUME NEW p \in Relay, RelayClaim(p) \/ RelayRelease(p) PROVE row'[r].status # "ABSENT"
  BY <1>3 DEF RelayClaim, RelayRelease, ClaimRow, ReleaseRow, MoveTo
<1>4. ASSUME NEW w \in Worker, Settle(w) PROVE row'[r].status # "ABSENT"
  BY <1>4 DEF Settle, SettledRow, MarkDone, MarkFailed, MoveTo, TypeOK
<1>5. ASSUME NEW s \in Reaper, ReapExhausted(s) \/ ReapHandBack(s) PROVE row'[r].status # "ABSENT"
  <2>1. CASE ReapExhausted(s)
    BY <2>1 DEF ReapExhausted, ReapFailed, MoveTo
  <2>2. CASE ReapHandBack(s)
    <3>1. PICK c \in reaper[s].stale : row' = [row EXCEPT ![c.row] = ReapBack(@, c.retryCount)]
      BY <2>2 DEF ReapHandBack
    <3>2. row'[r] = row[r] \/ row'[r] = ReapBack(row[r], c.retryCount)
      BY <3>1 DEF TypeOK
    <3> QED BY <3>2 DEF ReapBack, MoveTo
  <2> QED BY <1>5, <2>1, <2>2
<1>6. \/ row' = row
      \/ \E q \in Row : StageEvent(q) \/ ClaimGoesStale(q) \/ OperatorRetry(q)
      \/ \E p \in Relay : RelayClaim(p) \/ RelayRelease(p)
      \/ \E w \in Worker : Settle(w)
      \/ \E s \in Reaper : ReapExhausted(s) \/ ReapHandBack(s)
  BY DEF Next, vars, RowNext, RelayNext, WorkerNext, ReaperNext, RelayEnqueue, RelayEnqueueFails,
         RelayCrash, Deliver, FindMarker, InsertMarker, CommitEffects, HandleFails, SettleThrows,
         FinishJob, WorkerCrash, ReapSelect, ReapEnds, JobStalls, DropFinishedJob
<1> QED BY <1>1, <1>2, <1>3, <1>4, <1>5, <1>6

\* Claims travel from rows to batches, jobs and workers, and only rows that are PENDING are claimed.
LEMMA ClaimsStep ==
  ASSUME TypeOK, ClaimsStaged, [Next]_vars
  PROVE  ClaimsStaged'
<1>0. \A c \in Claim : row[c.row].status # "ABSENT" => row'[c.row].status # "ABSENT"
  BY StagedStays DEF Claim
<1>1. /\ \A j \in jobs : j.id \in Claim /\ row'[j.id.row].status # "ABSENT"
      /\ \A p \in Relay : \A c \in relay[p].batch : c \in Claim /\ row'[c.row].status # "ABSENT"
      /\ \A w \in Worker : worker[w].pc # "idle" => row'[worker[w].claim.row].status # "ABSENT"
  BY <1>0 DEF ClaimsStaged, TypeOK, Job, RelayType, WorkerType
<1>2. \A j \in jobs' : row'[j.id.row].status # "ABSENT"
  <2>1. CASE jobs' = jobs
    BY <1>1, <2>1
  <2>2. ASSUME NEW p \in Relay, jobs' = AddBulk(relay[p].batch) PROVE \A j \in jobs' : row'[j.id.row].status # "ABSENT"
    BY <1>1, <2>2 DEF AddBulk
  <2>3. ASSUME NEW w \in Worker, Deliver(w) \/ FinishJob(w) PROVE \A j \in jobs' : row'[j.id.row].status # "ABSENT"
    <3>1. \A k \in jobs' : \E j \in jobs : k.id = j.id
      <4>1. CASE Deliver(w)
        BY <4>1 DEF Deliver, TypeOK, Job
      <4>2. CASE FinishJob(w)
        <5>1. \A j \in jobs : FinishedJob(j, worker[w].outcome).id = j.id
          BY DEF FinishedJob, TypeOK, Job
        <5> QED BY <4>2, <5>1 DEF FinishJob
      <4> QED BY <2>3, <4>1, <4>2
    <3> QED BY <1>1, <3>1
  <2>4. CASE JobStalls \/ DropFinishedJob
    <3>1. \A k \in jobs' : \E j \in jobs : k.id = j.id
      BY <2>4 DEF JobStalls, DropFinishedJob, TypeOK, Job
    <3> QED BY <1>1, <3>1
  <2>5. \/ jobs' = jobs
        \/ \E p \in Relay : jobs' = AddBulk(relay[p].batch)
        \/ \E w \in Worker : Deliver(w) \/ FinishJob(w)
        \/ JobStalls \/ DropFinishedJob
    BY DEF Next, vars, RowNext, RelayNext, WorkerNext, ReaperNext, StageEvent, ClaimGoesStale,
           OperatorRetry, RelayClaim, RelayEnqueue, RelayEnqueueFails, RelayRelease, RelayCrash,
           FindMarker, InsertMarker, CommitEffects, HandleFails, Settle, SettleThrows, WorkerCrash,
           ReapSelect, ReapExhausted, ReapHandBack, ReapEnds
  <2> QED BY <2>1, <2>2, <2>3, <2>4, <2>5
<1>3. \A p \in Relay : \A c \in relay'[p].batch : row'[c.row].status # "ABSENT"
  <2>1. CASE relay' = relay
    BY <1>1, <2>1
  <2>2. ASSUME NEW p \in Relay, RelayClaim(p) PROVE \A q \in Relay : \A c \in relay'[q].batch : row'[c.row].status # "ABSENT"
    <3>1. PICK taken \in SUBSET {r \in Row : row[r].status = "PENDING"} :
            relay' = [relay EXCEPT ![p] = [pc |-> "enqueue", batch |-> {ClaimOf(r) : r \in taken}]]
      BY <2>2 DEF RelayClaim
    <3>2. \A r \in taken : ClaimOf(r) \in Claim /\ row[ClaimOf(r).row].status # "ABSENT"
      BY ClaimOfType DEF ClaimOf
    <3> QED BY <1>0, <1>1, <3>1, <3>2 DEF TypeOK
  <2>3. ASSUME NEW p \in Relay,
               RelayEnqueue(p) \/ RelayEnqueueFails(p) \/ RelayRelease(p) \/ RelayCrash(p)
        PROVE  \A q \in Relay : \A c \in relay'[q].batch : row'[c.row].status # "ABSENT"
    <3>1. \A q \in Relay : relay'[q].batch \subseteq relay[q].batch
      BY <2>3 DEF RelayEnqueue, RelayEnqueueFails, RelayRelease, RelayCrash, IdleRelay, TypeOK, RelayType
    <3> QED BY <1>1, <3>1
  <2>4. \/ relay' = relay
        \/ \E p \in Relay : \/ RelayClaim(p) \/ RelayEnqueue(p) \/ RelayEnqueueFails(p)
                            \/ RelayRelease(p) \/ RelayCrash(p)
    BY DEF Next, vars, RowNext, RelayNext, WorkerNext, ReaperNext, StageEvent, ClaimGoesStale,
           OperatorRetry, Deliver, FindMarker, InsertMarker, CommitEffects, HandleFails, Settle,
           SettleThrows, FinishJob, WorkerCrash, ReapSelect, ReapExhausted, ReapHandBack, ReapEnds,
           JobStalls, DropFinishedJob
  <2> QED BY <2>1, <2>2, <2>3, <2>4
<1>4. \A w \in Worker : worker'[w].pc # "idle" => row'[worker'[w].claim.row].status # "ABSENT"
  <2>1. CASE worker' = worker
    BY <1>1, <2>1
  <2>2. ASSUME NEW w \in Worker, Deliver(w)
        PROVE  \A v \in Worker : worker'[v].pc # "idle" => row'[worker'[v].claim.row].status # "ABSENT"
    <3>1. PICK j \in jobs : worker' = [worker EXCEPT ![w] =
            [pc |-> "lookup", claim |-> j.id, attemptsMade |-> j.attemptsMade, outcome |-> "none"]]
      BY <2>2 DEF Deliver
    <3> QED BY <1>1, <3>1 DEF TypeOK
  <2>3. ASSUME NEW w \in Worker,
               \/ FindMarker(w) \/ InsertMarker(w) \/ CommitEffects(w) \/ HandleFails(w)
               \/ Settle(w) \/ SettleThrows(w) \/ FinishJob(w) \/ WorkerCrash(w)
        PROVE  \A v \in Worker : worker'[v].pc # "idle" => row'[worker'[v].claim.row].status # "ABSENT"
    <3>1. \A v \in Worker : worker'[v].pc # "idle" =>
            worker[v].pc # "idle" /\ worker'[v].claim = worker[v].claim
      BY <2>3 DEF FindMarker, InsertMarker, CommitEffects, HandleFails, Settle, SettleThrows,
                  FinishJob, WorkerCrash, Goto, IdleWorker, TypeOK, WorkerType
    <3> QED BY <1>1, <3>1
  <2>4. \/ worker' = worker
        \/ \E w \in Worker : \/ Deliver(w) \/ FindMarker(w) \/ InsertMarker(w) \/ CommitEffects(w)
                             \/ HandleFails(w) \/ Settle(w) \/ SettleThrows(w) \/ FinishJob(w)
                             \/ WorkerCrash(w)
    BY DEF Next, vars, RowNext, RelayNext, WorkerNext, ReaperNext, StageEvent, ClaimGoesStale,
           OperatorRetry, RelayClaim, RelayEnqueue, RelayEnqueueFails, RelayRelease, RelayCrash,
           ReapSelect, ReapExhausted, ReapHandBack, ReapEnds, JobStalls, DropFinishedJob
  <2> QED BY <2>1, <2>2, <2>3, <2>4
<1> QED BY <1>2, <1>3, <1>4 DEF ClaimsStaged

\* At the start nothing is claimed.
LEMMA ClaimsInit == Init => ClaimsStaged
  BY DEF Init, ClaimsStaged, IdleRelay, IdleWorker

\* The state of the contract a row's status stands for.
LEMMA ContractStates ==
  /\ ContractState("ABSENT") = "none" /\ ContractState("DONE") = "done"
  /\ ContractState("FAILED") = "failed" /\ ContractState("PENDING") = "open"
  /\ ContractState("CLAIMED") = "open" /\ ContractState("PROCESSING") = "open"
  BY DEF ContractState

\* A step that moves no event from one of the contract's states to another is none of its steps.
LEMMA ContractStutters ==
  ASSUME \A r \in Row : ContractState(row'[r].status) = ContractState(row[r].status),
         effects' = effects
  PROVE  UNCHANGED Contract!vars
  BY DEF Contract!vars

\* A step of the pipeline is a step of the contract, or none.
LEMMA ContractStep ==
  ASSUME TypeOK, MarkerInv, ClaimsStaged, [Next]_vars
  PROVE  [Contract!Next]_(Contract!vars)
<1> DEFINE state == [r \in Row |-> ContractState(row[r].status)]
           applied == [r \in Row |-> effects[r] > 0]
<1>0. \A r \in Row : row[r] \in RowType
  BY DEF TypeOK
<1>1. CASE UNCHANGED <<row, effects>>
  BY <1>1, ContractStutters
<1>2. ASSUME NEW r \in Row, StageEvent(r) PROVE Contract!Next
  <2>1. state[r] = "none" /\ state' = [state EXCEPT ![r] = "open"]
    BY <1>2, ContractStates DEF StageEvent, NewRow, TypeOK
  <2>2. applied' = applied
    BY <1>2 DEF StageEvent
  <2>3. Contract!Publish(r)
    BY <2>1, <2>2 DEF Contract!Publish
  <2> QED BY <2>3 DEF Contract!Next
<1>3. ASSUME NEW r \in Row, OperatorRetry(r) PROVE Contract!Next
  <2>1. state[r] = "failed" /\ state' = [state EXCEPT ![r] = "open"]
    BY <1>3, ContractStates DEF OperatorRetry, RetryFailed, MoveTo, TypeOK
  <2>2. applied' = applied
    BY <1>3 DEF OperatorRetry
  <2>3. Contract!Reopen(r)
    BY <2>1, <2>2 DEF Contract!Reopen
  <2> QED BY <2>3 DEF Contract!Next
<1>4. ASSUME NEW r \in Row, ClaimGoesStale(r) PROVE UNCHANGED Contract!vars
  <2>1. \A q \in Row : row'[q].status = row[q].status
    BY <1>0, <1>4 DEF ClaimGoesStale, RowType, TypeOK
  <2> QED BY <1>4, <2>1, ContractStutters DEF ClaimGoesStale
<1>5. ASSUME NEW p \in Relay, RelayClaim(p) \/ RelayRelease(p) PROVE UNCHANGED Contract!vars
  <2>1. ASSUME NEW q \in Row PROVE ContractState(row'[q].status) = ContractState(row[q].status)
    <3>1. row'[q] \in {row[q], ClaimRow(row[q]), ReleaseRow(row[q])}
      BY <1>5 DEF RelayClaim, RelayRelease
    <3>2. \/ row'[q].status = row[q].status
          \/ row[q].status \in {"PENDING", "CLAIMED"} /\ row'[q].status \in {"PENDING", "CLAIMED"}
      BY <1>0, <3>1, StatusOperators
    <3> QED BY <3>2, ContractStates
  <2> QED BY <1>5, <2>1, ContractStutters DEF RelayClaim, RelayRelease
<1>6. ASSUME NEW w \in Worker, CommitEffects(w) PROVE Contract!Next
  <2>1. PICK r \in Row : r = worker[w].claim.row
    BY DEF TypeOK, WorkerType, Claim
  <2>2. r \notin marker /\ row[r].status # "ABSENT"
    BY <1>6, <2>1 DEF CommitEffects, MarkerInv, MarkerIsLock, ClaimsStaged
  <2>3. effects[r] = 0 /\ row[r].status \in Status \ {"ABSENT", "DONE"}
    BY <1>0, <2>2 DEF MarkerInv, EffectsOnce, DoneMarked, RowType
  <2>4. effects' = [effects EXCEPT ![r] = 1] /\ row' = row
    BY <1>6, <2>1, <2>3 DEF CommitEffects, TypeOK
  <2>5. state[r] \in {"open", "failed"} /\ state' = state
    BY <2>3, <2>4, ContractStates DEF Status
  <2>6. ~applied[r]
    <3>1. ~(effects[r] > 0)
      BY <2>3
    <3> QED BY <3>1, Zenon
  <2>7. applied' = [applied EXCEPT ![r] = TRUE]
    <3>1. \A q \in Row : IF q = r THEN effects'[q] > 0 ELSE effects'[q] = effects[q]
      BY <2>4 DEF TypeOK
    <3>2. applied' = [q \in Row |-> IF q = r THEN TRUE ELSE effects[q] > 0]
      BY <3>1, Zenon
    <3>3. [applied EXCEPT ![r] = TRUE] = [q \in Row |-> IF q = r THEN TRUE ELSE effects[q] > 0]
      BY Zenon
    <3> QED BY <3>2, <3>3
  <2>8. Contract!Apply(r)
    BY <2>5, <2>6, <2>7 DEF Contract!Apply
  <2> QED BY <2>8 DEF Contract!Next
<1>7. ASSUME NEW w \in Worker, Settle(w) PROVE [Contract!Next]_(Contract!vars)
  <2>0. PICK r \in Row, n \in Nat : r = worker[w].claim.row /\ n = worker[w].claim.retryCount
    BY DEF TypeOK, WorkerType, Claim
  <2>1. /\ row' = [row EXCEPT ![r] = SettledRow(row[r], n, worker[w].outcome)]
        /\ effects' = effects /\ applied' = applied
    BY <1>7, <2>0 DEF Settle
  <2>2. row'[r] = SettledRow(row[r], n, worker[w].outcome)
    BY <2>1 DEF TypeOK
  <2>3. CASE row'[r] = row[r]
    <3>1. row' = row
      BY <2>1, <2>2, <2>3 DEF TypeOK
    <3> QED BY <2>1, <3>1, ContractStutters
  <2>4. CASE row'[r] # row[r] /\ worker[w].outcome = "done"
    <3>1. row'[r] = MarkDone(row[r], n)
      BY <2>2, <2>4 DEF SettledRow
    <3>2. row[r].status \in ClaimedStatuses /\ row'[r].status = "DONE"
      BY <1>0, <2>4, <3>1, StatusOperators
    <3>3. state[r] = "open" /\ state' = [state EXCEPT ![r] = "done"]
      BY <2>1, <2>2, <3>2, ContractStates DEF ClaimedStatuses, TypeOK
    <3>4. effects[r] = 1
      BY <2>0, <2>4 DEF MarkerInv, DoneOutcome, EffectsOnce
    <3>5. applied[r]
      <4>1. effects[r] > 0
        BY <3>4
      <4> QED BY <4>1, Zenon
    <3>6. Contract!Close(r)
      BY <2>1, <3>3, <3>5 DEF Contract!Close
    <3> QED BY <3>6 DEF Contract!Next
  <2>5. CASE row'[r] # row[r] /\ worker[w].outcome # "done"
    <3>1. row'[r] = MarkFailed(row[r], n)
      BY <2>2, <2>5 DEF SettledRow
    <3>2. row[r].status \in ClaimedStatuses /\ row'[r].status = "FAILED"
      BY <1>0, <2>5, <3>1, StatusOperators
    <3>3. \A e \in {r} : state[e] = "open"
      BY <3>2, ContractStates DEF ClaimedStatuses
    <3>4. state' = [e \in Row |-> IF e \in {r} THEN "failed" ELSE state[e]]
      BY <2>1, <2>2, <3>2, ContractStates DEF TypeOK
    <3>5. Contract!GiveUp({r})
      BY <2>1, <3>3, <3>4 DEF Contract!GiveUp
    <3> QED BY <3>5 DEF Contract!Next
  <2> QED BY <2>3, <2>4, <2>5
<1>8. ASSUME NEW s \in Reaper, ReapExhausted(s) PROVE Contract!Next
  <2> DEFINE E == {e \in Row : row'[e] # row[e]}
  <2>1. \A e \in Row : row'[e] = row[e] \/ row'[e] = ReapFailed(row[e])
    BY <1>8 DEF ReapExhausted
  <2>2. \A e \in E : row[e].status \in ClaimedStatuses /\ row'[e].status = "FAILED"
    BY <1>0, <2>1, StatusOperators
  <2>3. \A e \in E : state[e] = "open"
    BY <2>2, ContractStates DEF ClaimedStatuses
  <2>4. state' = [e \in Row |-> IF e \in E THEN "failed" ELSE state[e]]
    BY <2>2, ContractStates
  <2>5. applied' = applied
    BY <1>8 DEF ReapExhausted
  <2>6. Contract!GiveUp(E)
    BY <2>3, <2>4, <2>5 DEF Contract!GiveUp
  <2>7. E \in SUBSET Row
    OBVIOUS
  <2> HIDE DEF E
  <2> QED BY <2>6, <2>7 DEF Contract!Next
<1>9. ASSUME NEW s \in Reaper, ReapHandBack(s) PROVE UNCHANGED Contract!vars
  <2>1. PICK c \in reaper[s].stale : row' = [row EXCEPT ![c.row] = ReapBack(@, c.retryCount)]
    BY <1>9 DEF ReapHandBack
  <2>2. c.retryCount \in Nat
    BY <2>1 DEF TypeOK, ReaperType, Claim
  <2>3. \A q \in Row : row'[q] = row[q] \/ row'[q] = ReapBack(row[q], c.retryCount)
    BY <2>1 DEF TypeOK
  <2>4. \A q \in Row : ContractState(row'[q].status) = ContractState(row[q].status)
    BY <1>0, <2>2, <2>3, StatusOperators, ContractStates DEF ClaimedStatuses
  <2> QED BY <1>9, <2>4, ContractStutters DEF ReapHandBack
<1>10. \/ UNCHANGED <<row, effects>>
       \/ \E r \in Row : StageEvent(r) \/ ClaimGoesStale(r) \/ OperatorRetry(r)
       \/ \E p \in Relay : RelayClaim(p) \/ RelayRelease(p)
       \/ \E w \in Worker : CommitEffects(w) \/ Settle(w)
       \/ \E s \in Reaper : ReapExhausted(s) \/ ReapHandBack(s)
  BY DEF Next, vars, RowNext, RelayNext, WorkerNext, ReaperNext, RelayEnqueue, RelayEnqueueFails,
         RelayCrash, Deliver, FindMarker, InsertMarker, HandleFails, SettleThrows, FinishJob,
         WorkerCrash, ReapSelect, ReapEnds, JobStalls, DropFinishedJob
<1> QED BY <1>1, <1>2, <1>3, <1>4, <1>5, <1>6, <1>7, <1>8, <1>9, <1>10

\* Nothing is applied at the start, and every row is absent or claimed by an older release.
LEMMA ContractInit == Init => Contract!Init
<1> SUFFICES ASSUME Init PROVE Contract!Init
  OBVIOUS
<1>1. \A r \in Row : ContractState(row[r].status) \in {"none", "open"} /\ ~(effects[r] > 0)
  BY DEF Init, NoRow, LegacyRow, ContractState
<1>2. [r \in Row |-> ContractState(row[r].status)] \in [Row -> {"none", "open"}]
  BY <1>1
<1>3. [r \in Row |-> effects[r] > 0] = [r \in Row |-> FALSE]
  <2>1. \A r \in Row : (effects[r] > 0) = FALSE
    BY <1>1
  <2> QED BY <2>1, Zenon
<1> QED BY <1>2, <1>3 DEF Contract!Init

(***************************************************************************)
(* The pipeline keeps its contract, for any number of events, relays,      *)
(* workers and sweeps: an event is closed only after its effects were      *)
(* applied, applied once at most, and only the operator reopens it.        *)
(***************************************************************************)
THEOREM OutboxKeepsContract == Spec => KeepsContract
<1>1. TypeOK /\ MarkerInv /\ ClaimsStaged /\ [Next]_vars => [Contract!Next]_(Contract!vars)
  BY ContractStep
<1>2. TypeOK /\ ClaimsStaged /\ [Next]_vars => ClaimsStaged'
  BY ClaimsStep
<1> QED BY <1>1, <1>2, ClaimsInit, ContractInit, MarkerInit, MarkerStep, OutboxTypes, PTL
        DEF Spec, KeepsContract, Contract!Spec

-----------------------------------------------------------------------------
(* The lock OutboxReaperService.reap takes, as the other crons do *)

\* withLock: the key, the pods and the tokens keep their types under every step.
THEOREM CronLockTypes == LockSpec => []LockTypeOK
<1>1. LockInit => LockTypeOK
  BY CronLockAssumption DEF LockInit, LockTypeOK, NoKey, Idle
<1>2. LockTypeOK /\ [LockNext]_lockVars => LockTypeOK'
  <2> SUFFICES ASSUME LockTypeOK, [LockNext]_lockVars PROVE LockTypeOK'
    OBVIOUS
  <2> USE CronLockAssumption
  <2>1. CASE Tick
    BY <2>1 DEF LockTypeOK, Tick, NoKey
  <2>2. ASSUME NEW p \in Pod, Acquire(p) PROVE LockTypeOK'
    BY <2>2 DEF LockTypeOK, Acquire, SetNx, Running, Idle
  <2>3. ASSUME NEW p \in Pod, AcquireFails(p) PROVE LockTypeOK'
    BY <2>3 DEF LockTypeOK, AcquireFails, SetNx, Running, Idle
  <2>4. ASSUME NEW p \in Pod, Extend(p) PROVE LockTypeOK'
    BY <2>4 DEF LockTypeOK, Extend, Extended
  <2>5. ASSUME NEW p \in Pod, ExtendFails(p) PROVE LockTypeOK'
    BY <2>5 DEF LockTypeOK, ExtendFails, Extended
  <2>6. ASSUME NEW p \in Pod, Finish(p) PROVE LockTypeOK'
    BY <2>6 DEF LockTypeOK, Finish, Idle
  <2>7. ASSUME NEW p \in Pod, Release(p) PROVE LockTypeOK'
    BY <2>7 DEF LockTypeOK, Release, Released, NoKey, Idle
  <2>8. ASSUME NEW p \in Pod, Abandon(p) PROVE LockTypeOK'
    BY <2>8 DEF LockTypeOK, Abandon, Idle
  <2>9. CASE UNCHANGED lockVars
    BY <2>9 DEF LockTypeOK, lockVars
  <2> QED
    BY <2>1, <2>2, <2>3, <2>4, <2>5, <2>6, <2>7, <2>8, <2>9 DEF LockNext
<1> QED
  BY <1>1, <1>2, PTL DEF LockSpec

\* The inductive invariant: leases in time are the key's, and tokens are nobody else's.
LeaseInv == TokensUnique /\ LeaseIsKey

\* What withLock and the Redis scripts do preserves the invariant, step by step.
LEMMA LeaseInvStep ==
  ASSUME LockTypeOK, LeaseInv, [LockNext]_lockVars
  PROVE  LeaseInv'
<1> USE CronLockAssumption
<1>1. CASE Tick
  <2>1. TokensUnique'
    BY <1>1 DEF Tick, LockTypeOK, LeaseInv, TokensUnique, NoKey
  <2>2. ASSUME NEW p \in Pod, HasLease(p)'
        PROVE  key'.token = pod'[p].token /\ key'.ttl >= Ttl - pod'[p].age
    <3>1. HasLease(p) /\ pod'[p].age = pod[p].age + 1 /\ pod'[p].token = pod[p].token
      BY <1>1, <2>2 DEF Tick, HasLease, LockTypeOK
    <3>2. key.token = pod[p].token /\ key.ttl >= Ttl - pod[p].age /\ pod[p].age + 1 < Ttl
      BY <3>1, <2>2 DEF LeaseInv, LeaseIsKey, HasLease
    <3> QED
      BY <1>1, <3>1, <3>2 DEF Tick, LockTypeOK
  <2> QED
    BY <2>1, <2>2 DEF LeaseInv, LeaseIsKey
<1>2. ASSUME NEW p \in Pod, Acquire(p) PROVE LeaseInv'
  <2>1. TokensUnique'
    BY <1>2 DEF Acquire, SetNx, LockTypeOK, LeaseInv, TokensUnique, Running, Idle
  <2>2. ASSUME NEW q \in Pod, HasLease(q)'
        PROVE  key'.token = pod'[q].token /\ key'.ttl >= Ttl - pod'[q].age
    <3>1. CASE q = p
      BY <1>2, <2>2, <3>1 DEF Acquire, SetNx, LockTypeOK, HasLease, Running, Idle
    <3>2. CASE q # p
      <4>1. HasLease(q) /\ pod'[q] = pod[q]
        BY <1>2, <2>2, <3>2 DEF Acquire, LockTypeOK, HasLease
      <4>2. key.token # 0 /\ key.token = pod[q].token /\ key.ttl >= Ttl - pod[q].age
        BY <4>1 DEF LeaseInv, LeaseIsKey, HasLease
      <4> QED
        BY <1>2, <4>1, <4>2 DEF Acquire, SetNx
    <3> QED
      BY <3>1, <3>2
  <2> QED
    BY <2>1, <2>2 DEF LeaseInv, LeaseIsKey
<1>3. ASSUME NEW p \in Pod, AcquireFails(p) PROVE LeaseInv'
  <2>1. TokensUnique'
    BY <1>3 DEF AcquireFails, SetNx, LockTypeOK, LeaseInv, TokensUnique, Running, Idle
  <2>2. ASSUME NEW q \in Pod, HasLease(q)'
        PROVE  key'.token = pod'[q].token /\ key'.ttl >= Ttl - pod'[q].age
    <3>1. HasLease(q) /\ pod'[q] = pod[q]
      BY <1>3, <2>2 DEF AcquireFails, LockTypeOK, HasLease, Running, Idle
    <3>2. key.token # 0 /\ key.token = pod[q].token /\ key.ttl >= Ttl - pod[q].age
      BY <3>1 DEF LeaseInv, LeaseIsKey, HasLease
    <3> QED
      BY <1>3, <3>1, <3>2 DEF AcquireFails, SetNx
  <2> QED
    BY <2>1, <2>2 DEF LeaseInv, LeaseIsKey
<1>4. ASSUME NEW p \in Pod, Extend(p) PROVE LeaseInv'
  BY <1>4 DEF Extend, Extended, IsOurs, LockTypeOK, LeaseInv, TokensUnique, LeaseIsKey, HasLease
<1>5. ASSUME NEW p \in Pod, ExtendFails(p) PROVE LeaseInv'
  BY <1>5 DEF ExtendFails, Extended, IsOurs, LockTypeOK, LeaseInv, TokensUnique, LeaseIsKey, HasLease
<1>6. ASSUME NEW p \in Pod, Finish(p) PROVE LeaseInv'
  BY <1>6 DEF Finish, Idle, LockTypeOK, LeaseInv, TokensUnique, LeaseIsKey, HasLease
<1>7. ASSUME NEW p \in Pod, Release(p) PROVE LeaseInv'
  <2>1. TokensUnique'
    BY <1>7 DEF Release, Released, LockTypeOK, LeaseInv, TokensUnique, Idle, NoKey
  <2>2. ASSUME NEW q \in Pod, HasLease(q)'
        PROVE  key'.token = pod'[q].token /\ key'.ttl >= Ttl - pod'[q].age
    <3>1. q # p /\ HasLease(q) /\ pod'[q] = pod[q]
      BY <1>7, <2>2 DEF Release, LockTypeOK, HasLease, Idle
    <3>2. key.token = pod[q].token /\ key.ttl >= Ttl - pod[q].age /\ ~IsOurs(p)
      BY <3>1 DEF LeaseInv, LeaseIsKey, TokensUnique, HasLease, IsOurs
    <3> QED
      BY <1>7, <3>1, <3>2 DEF Release, Released
  <2> QED
    BY <2>1, <2>2 DEF LeaseInv, LeaseIsKey
<1>8. ASSUME NEW p \in Pod, Abandon(p) PROVE LeaseInv'
  BY <1>8 DEF Abandon, Idle, LockTypeOK, LeaseInv, TokensUnique, LeaseIsKey, HasLease
<1>9. CASE UNCHANGED lockVars
  BY <1>9 DEF lockVars, LeaseInv, TokensUnique, LeaseIsKey, HasLease
<1> QED
  BY <1>1, <1>2, <1>3, <1>4, <1>5, <1>6, <1>7, <1>8, <1>9 DEF LockNext

(***************************************************************************)
(* withLock keeps its promise for every number of pods and every TTL: the  *)
(* key never outlives its TTL, and a cron whose lease is extended in time  *)
(* runs alone under the lock, since neither a late extension nor a late    *)
(* release of another pod touches the key that holds its token.            *)
(***************************************************************************)
THEOREM CronLockSafe == LockSpec => []LeaseSafe
<1>1. LockInit => LeaseInv
  BY CronLockAssumption
  DEF LockInit, LeaseInv, TokensUnique, LeaseIsKey, HasLease, NoKey, Idle
<1>2. LockTypeOK /\ LeaseInv /\ [LockNext]_lockVars => LeaseInv'
  BY LeaseInvStep
<1>3. LockTypeOK /\ LeaseInv => LeaseSafe
  BY DEF LeaseInv, TokensUnique, LeaseIsKey, LeaseSafe, LeaseExcludes, HasLease
<1> QED
  BY <1>1, <1>2, <1>3, CronLockTypes, PTL DEF LockSpec
=============================================================================
