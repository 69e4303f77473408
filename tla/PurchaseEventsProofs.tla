------------------------ MODULE PurchaseEventsProofs ------------------------
(***************************************************************************)
(* Theorems about the purchase-events outbox for any set of events, any    *)
(* finite set of workers and any retry limits.                             *)
(***************************************************************************)
EXTENDS PurchaseEvents, FiniteSetTheorems, SequenceTheorems, TLAPS

WorkerType ==
  [pc : {"idle", "load", "deliver", "markDone", "readRetry", "writeRetry", "deadLetter"},
   claim : Claim]

\* The statements of OutboxClaimService and the reaper keep a row's type.
LEMMA RowStatementsType ==
  ASSUME NEW x \in RowType, NEW n \in Nat
  PROVE  /\ ClaimRow(x) \in RowType /\ ReleaseRow(x) \in RowType
         /\ MarkDone(x, n) \in RowType /\ RetryFailed(x) \in RowType
         /\ ScheduleRetry(x, n) \in RowType
         /\ ReapFailed(x) \in RowType /\ ReapBack(x, n) \in RowType
  BY DEF RowType, Status, ClaimRow, ReleaseRow, MarkDone, RetryFailed, ScheduleRetry,
         ReapFailed, ReapBack, MoveTo

\* The claim read off a row (jobIdFor) is a claim of the right type.
LEMMA ClaimOfType ==
  ASSUME TypeOK, NEW e \in Event
  PROVE  ClaimOf(e) \in Claim
  BY DEF TypeOK, RowType, ClaimOf, Claim

\* No step of staging, claiming, ageing or an operator's retry of a row leaves the types.
LEMMA TypeEventNext == TypeOK /\ EventNext => TypeOK'
<1> SUFFICES ASSUME TypeOK, NEW e \in Event,
                    StageEvent(e) \/ RelayClaim(e) \/ ClaimGoesStale(e) \/ RetryEvent(e)
             PROVE  TypeOK'
  BY DEF EventNext
<1>0. row[e] \in RowType /\ ClaimRow(row[e]) \in RowType /\ RetryFailed(row[e]) \in RowType
  BY RowStatementsType DEF TypeOK
<1>1. CASE StageEvent(e)
  <2>1. NewRow \in RowType
    BY DEF NewRow, RowType, Status
  <2> QED
    BY <1>1, <2>1 DEF StageEvent, TypeOK
<1>2. CASE RelayClaim(e)
  BY <1>0, <1>2, ClaimOfType DEF RelayClaim, TypeOK
<1>3. CASE ClaimGoesStale(e)
  BY <1>0, <1>3 DEF ClaimGoesStale, TypeOK, RowType
<1>4. CASE RetryEvent(e)
  BY <1>0, <1>4 DEF RetryEvent, CountRetry, TypeOK
<1> QED
  BY <1>1, <1>2, <1>3, <1>4

\* No step of the relay leaves the types.
LEMMA TypeRelayNext == TypeOK /\ RelayNext => TypeOK'
<1> SUFFICES ASSUME TypeOK, NEW h \in relay,
                    \/ RelayEnqueue(h) \/ RelayEnqueueFails(h)
                    \/ RelayRelease(h) \/ RelayCrash(h)
             PROVE  TypeOK'
  BY DEF RelayNext
<1>0. /\ h \in [claim : Claim, pc : {"enqueue", "release"}]
      /\ h.claim \in Claim /\ h.claim.event \in Event
  BY DEF TypeOK, Claim
<1>1. CASE RelayEnqueue(h)
  BY <1>0, <1>1 DEF RelayEnqueue, TypeOK
<1>2. CASE RelayEnqueueFails(h)
  <2>1. [h EXCEPT !.pc = "release"] \in [claim : Claim, pc : {"enqueue", "release"}]
    BY <1>0
  <2> QED
    BY <1>0, <1>2, <2>1 DEF RelayEnqueueFails, TypeOK
<1>3. CASE RelayRelease(h)
  <2>1. ReleaseRow(row[h.claim.event]) \in RowType
    BY <1>0, RowStatementsType DEF TypeOK
  <2> QED
    BY <1>0, <1>3, <2>1 DEF RelayRelease, TypeOK
<1>4. CASE RelayCrash(h)
  BY <1>4 DEF RelayCrash, TypeOK
<1> QED
  BY <1>1, <1>2, <1>3, <1>4

\* A worker's next step has a program counter of the right type.
LEMMA TypeGoto ==
  ASSUME TypeOK, NEW w \in Worker,
         NEW pc \in {"idle", "load", "deliver", "markDone", "readRetry", "writeRetry",
                     "deadLetter"},
         Goto(w, pc)
  PROVE  worker' \in [Worker -> WorkerType]
  BY DEF TypeOK, WorkerType, Goto

\* No step of processAsSystem, scheduleRetry or moveToDeadLetter leaves the types.
LEMMA TypeWorkerNext == TypeOK /\ WorkerNext => TypeOK'
<1> SUFFICES ASSUME TypeOK, NEW w \in Worker,
                    \/ TakeJob(w) \/ LoadRow(w) \/ DeliverEvent(w) \/ DeliveryFails(w)
                    \/ Done(w) \/ DoneThrows(w) \/ ReadForRetry(w) \/ WriteRetry(w)
                    \/ MoveToDeadLetter(w) \/ WorkerStops(w)
             PROVE  TypeOK'
  BY DEF WorkerNext
<1> DEFINE c == worker[w].claim
<1>0. /\ c \in Claim /\ c.event \in Event /\ c.retryCount \in Nat
      /\ row[c.event] \in RowType
  BY DEF TypeOK, Claim
<1>a. /\ MarkDone(row[c.event], c.retryCount) \in RowType
      /\ ScheduleRetry(row[c.event], c.retryCount) \in RowType
  BY <1>0, RowStatementsType
<1>1. CASE TakeJob(w)
  BY <1>1 DEF TakeJob, TypeOK
<1>2. CASE LoadRow(w)
  BY <1>2, TypeGoto DEF LoadRow, TypeOK, WorkerType
<1>3. CASE DeliverEvent(w)
  BY <1>0, <1>3, TypeGoto DEF DeliverEvent, TypeOK, WorkerType
<1>4. CASE DeliveryFails(w)
  BY <1>4, TypeGoto DEF DeliveryFails, TypeOK, WorkerType
<1>5. CASE Done(w)
  BY <1>0, <1>a, <1>5, TypeGoto DEF Done, TypeOK, WorkerType
<1>6. CASE DoneThrows(w)
  BY <1>0, <1>a, <1>6, TypeGoto DEF DoneThrows, TypeOK, WorkerType
<1>7. CASE ReadForRetry(w)
  BY <1>7, TypeGoto DEF ReadForRetry, TypeOK, WorkerType
<1>8. CASE WriteRetry(w)
  BY <1>0, <1>a, <1>8, TypeGoto DEF WriteRetry, TypeOK, WorkerType
<1>9. CASE MoveToDeadLetter(w)
  <2>1. row' \in [Event -> RowType]
    BY <1>0, <1>9 DEF MoveToDeadLetter, TypeOK, RowType, Status
  <2>2. /\ letters' \in Seq([event : Event, status : {"ACTIVE", "RESOLVED"}])
        /\ DOMAIN letters \subseteq DOMAIN letters'
    BY <1>0, <1>9 DEF MoveToDeadLetter, TypeOK
  <2> QED
    BY <1>9, <2>1, <2>2, TypeGoto DEF MoveToDeadLetter, TypeOK, WorkerType
<1>10. CASE WorkerStops(w)
  BY <1>10, TypeGoto DEF WorkerStops, TypeOK, WorkerType
<1> QED
  BY <1>1, <1>2, <1>3, <1>4, <1>5, <1>6, <1>7, <1>8, <1>9, <1>10

\* No step of a sweep leaves the types.
LEMMA TypeSweepNext == TypeOK /\ SweepNext => TypeOK'
<1> SUFFICES ASSUME TypeOK, SweepNext PROVE TypeOK'
  OBVIOUS
<1>1. CASE ReapSelect
  BY <1>1, ClaimOfType DEF ReapSelect, TypeOK
<1>2. CASE ReapEnds
  BY <1>2 DEF ReapEnds, TypeOK
<1>3. ASSUME NEW c \in sweep, ReapRow(c) PROVE TypeOK'
  <2>1. c.event \in Event /\ c.retryCount \in Nat
    BY DEF TypeOK, Claim
  <2>2. /\ ReapFailed(row[c.event]) \in RowType
        /\ ReapBack(row[c.event], c.retryCount) \in RowType
    BY <2>1, RowStatementsType DEF TypeOK
  <2> QED
    BY <1>3, <2>1, <2>2 DEF ReapRow, TypeOK
<1> QED
  BY <1>1, <1>2, <1>3 DEF SweepNext

\* The letter an operator is retrying is one of the letters.
LEMMA LetterType ==
  ASSUME TypeOK, NEW l \in asked
  PROVE  /\ l \in DOMAIN letters /\ l \in 1 .. Len(letters)
         /\ letters[l] \in [event : Event, status : {"ACTIVE", "RESOLVED"}]
         /\ letters[l].event \in Event
<1> DEFINE Letter == [event : Event, status : {"ACTIVE", "RESOLVED"}]
<1>1. letters \in Seq(Letter) /\ l \in DOMAIN letters
  BY DEF TypeOK
<1>2. l \in 1 .. Len(letters) /\ letters[l] \in Letter
  <2> HIDE DEF Letter
  <2> QED
    BY <1>1, LenProperties, ElementOfSeq
<1> QED
  BY <1>1, <1>2

\* No step of retryDeadLetter leaves the types.
LEMMA TypeLetterNext == TypeOK /\ LetterNext => TypeOK'
<1> SUFFICES ASSUME TypeOK, LetterNext PROVE TypeOK'
  OBVIOUS
<1>1. ASSUME NEW l \in DOMAIN letters, AskRetry(l) PROVE TypeOK'
  BY <1>1 DEF AskRetry, TypeOK
<1>2. ASSUME NEW l \in asked, RetryDeadLetter(l) PROVE TypeOK'
  <2> DEFINE Letter == [event : Event, status : {"ACTIVE", "RESOLVED"}]
  <2>0. letters \in Seq(Letter) /\ l \in 1 .. Len(letters)
    BY LetterType DEF TypeOK
  <2>1. l \in DOMAIN letters /\ letters[l] \in Letter /\ letters[l].event \in Event
    BY LetterType
  <2>2. RetryFailed(row[letters[l].event]) \in RowType
    BY <2>1, RowStatementsType DEF TypeOK
  <2>3. /\ letters' \in Seq([event : Event, status : {"ACTIVE", "RESOLVED"}])
        /\ DOMAIN letters' = DOMAIN letters
    <3>1. [letters[l] EXCEPT !.status = "RESOLVED"] \in Letter
      BY <2>1
    <3>2. letters' = [letters EXCEPT ![l] = [letters[l] EXCEPT !.status = "RESOLVED"]]
      BY <1>2 DEF RetryDeadLetter
    <3> HIDE DEF Letter
    <3>3. letters' \in Seq(Letter) /\ Len(letters') = Len(letters)
      BY <2>0, <3>1, <3>2, ExceptSeq
    <3> QED
      BY <2>0, <3>3 DEF Letter
  <2> QED
    BY <1>2, <2>1, <2>2, <2>3 DEF RetryDeadLetter, CountRetry, TypeOK
<1>3. ASSUME NEW l \in asked, RetryRefused(l) PROVE TypeOK'
  BY <1>3 DEF RetryRefused, TypeOK
<1> QED
  BY <1>1, <1>2, <1>3 DEF LetterNext

\* Every step keeps the types.
LEMMA TypeStep == TypeOK /\ [Next]_vars => TypeOK'
<1>1. TypeOK /\ UNCHANGED vars => TypeOK'
  BY DEF vars, TypeOK
<1> QED
  BY <1>1, TypeEventNext, TypeRelayNext, TypeWorkerNext, TypeSweepNext, TypeLetterNext DEF Next

\* Every state of the purchase-events pipeline has the types TypeOK states.
THEOREM PurchaseTypes == Spec => []TypeOK
<1>1. Init => TypeOK
  <2> SUFFICES ASSUME Init PROVE TypeOK
    OBVIOUS
  <2>1. IdleWorker \in WorkerType /\ NoRow \in RowType
    BY PurchaseAssumption DEF IdleWorker, WorkerType, Claim, NoRow, RowType, Status
  <2>2. worker \in [Worker -> WorkerType] /\ row \in [Event -> RowType]
    BY <2>1 DEF Init
  <2> QED
    BY <2>2 DEF Init, TypeOK, WorkerType
<1> QED
  BY <1>1, TypeStep, PTL DEF Spec

-----------------------------------------------------------------------------
\* A step that writes one row keeps DoneDelivered if it leaves that row undone or delivered.
LEMMA OneRowDone ==
  ASSUME TypeOK, DoneDelivered, NEW e \in Event, NEW r \in RowType,
         row' = [row EXCEPT ![e] = r], delivered' = delivered,
         \/ r.status # "DONE"
         \/ r = row[e]
         \/ [event |-> e, retryCount |-> r.retryCount] \in delivered
  PROVE  DoneDelivered'
<1> SUFFICES ASSUME NEW x \in Event, row'[x].status = "DONE"
             PROVE  [event |-> x, retryCount |-> row'[x].retryCount] \in delivered
  BY DEF DoneDelivered, ClaimOf
<1>1. CASE x = e
  BY <1>1 DEF TypeOK, DoneDelivered, ClaimOf
<1>2. CASE x # e
  <2>1. row'[x] = row[x]
    BY <1>2 DEF TypeOK
  <2> QED
    BY <2>1 DEF DoneDelivered, ClaimOf
<1> QED
  BY <1>1, <1>2

\* A step that writes no row and forgets no delivery keeps DoneDelivered.
LEMMA NoRowDone ==
  ASSUME DoneDelivered, row' = row, delivered \subseteq delivered'
  PROVE  DoneDelivered'
  BY DEF DoneDelivered, ClaimOf

\* Only markDone makes a row DONE.
LEMMA UndoneStatements ==
  ASSUME NEW x \in RowType, NEW n \in Nat
  PROVE  /\ ClaimRow(x).status # "DONE" \/ ClaimRow(x) = x
         /\ ReleaseRow(x).status # "DONE" \/ ReleaseRow(x) = x
         /\ RetryFailed(x).status # "DONE" \/ RetryFailed(x) = x
         /\ ScheduleRetry(x, n).status # "DONE" \/ ScheduleRetry(x, n) = x
         /\ ReapFailed(x).status # "DONE" \/ ReapFailed(x) = x
         /\ ReapBack(x, n).status # "DONE" \/ ReapBack(x, n) = x
  BY DEF ClaimRow, ReleaseRow, RetryFailed, ScheduleRetry, ReapFailed, ReapBack, MoveTo

\* A row becomes DONE by markDone under the claim it carries, and stays DONE.
LEMMA DoneStep ==
  ASSUME TypeOK, DeliveredFirst, DoneDelivered, [Next]_vars
  PROVE  DeliveredFirst' /\ DoneDelivered'
<1>1. ASSUME NEW e \in Event,
             StageEvent(e) \/ RelayClaim(e) \/ ClaimGoesStale(e) \/ RetryEvent(e)
      PROVE  DeliveredFirst' /\ DoneDelivered'
  <2>1. DeliveredFirst'
    BY <1>1 DEF DeliveredFirst, StageEvent, RelayClaim, ClaimGoesStale, RetryEvent
  <2>2. PICK r \in RowType : /\ row' = [row EXCEPT ![e] = r]
                             /\ r.status # "DONE" \/ r = row[e]
    <3>1. CASE StageEvent(e)
      <4>1. NewRow \in RowType /\ NewRow.status # "DONE"
        BY DEF NewRow, RowType, Status
      <4> QED
        BY <3>1, <4>1 DEF StageEvent
    <3>2. CASE RelayClaim(e)
      BY <3>2, RowStatementsType, UndoneStatements DEF RelayClaim, TypeOK
    <3>3. CASE ClaimGoesStale(e)
      <4> DEFINE r == [row[e] EXCEPT !.stale = TRUE]
      <4>1. r \in RowType /\ r.status # "DONE"
        BY <3>3 DEF ClaimGoesStale, TypeOK, RowType, IsClaimed, ClaimedStatuses
      <4> QED
        BY <3>3, <4>1 DEF ClaimGoesStale
    <3>4. CASE RetryEvent(e)
      BY <3>4, RowStatementsType, UndoneStatements DEF RetryEvent, TypeOK
    <3> QED
      BY <1>1, <3>1, <3>2, <3>3, <3>4
  <2>3. delivered' = delivered
    BY <1>1 DEF StageEvent, RelayClaim, ClaimGoesStale, RetryEvent
  <2> QED
    BY <2>1, <2>2, <2>3, OneRowDone
<1>2. ASSUME NEW h \in relay, \/ RelayEnqueue(h) \/ RelayEnqueueFails(h)
                              \/ RelayRelease(h) \/ RelayCrash(h)
      PROVE  DeliveredFirst' /\ DoneDelivered'
  <2>1. DeliveredFirst' /\ delivered' = delivered
    BY <1>2 DEF DeliveredFirst, RelayEnqueue, RelayEnqueueFails, RelayRelease, RelayCrash
  <2>2. CASE RelayRelease(h)
    <3>1. h.claim.event \in Event /\ row[h.claim.event] \in RowType
      BY DEF TypeOK, Claim
    <3>2. row' = [row EXCEPT ![h.claim.event] = ReleaseRow(row[h.claim.event])]
      BY <2>2 DEF RelayRelease
    <3> QED
      BY <2>1, <3>1, <3>2, RowStatementsType, UndoneStatements, OneRowDone
  <2>3. CASE ~RelayRelease(h)
    BY <1>2, <2>1, <2>3, NoRowDone DEF RelayEnqueue, RelayEnqueueFails, RelayCrash
  <2> QED
    BY <2>1, <2>2, <2>3
<1>3. ASSUME NEW w \in Worker,
             \/ TakeJob(w) \/ LoadRow(w) \/ DeliverEvent(w) \/ DeliveryFails(w)
             \/ Done(w) \/ DoneThrows(w) \/ ReadForRetry(w) \/ WriteRetry(w)
             \/ MoveToDeadLetter(w) \/ WorkerStops(w)
      PROVE  DeliveredFirst' /\ DoneDelivered'
  <2> DEFINE c == worker[w].claim
  <2>0. /\ c \in Claim /\ c.event \in Event /\ c.retryCount \in Nat
        /\ row[c.event] \in RowType
        /\ c = [event |-> c.event, retryCount |-> c.retryCount]
    BY DEF TypeOK, Claim
  <2>1. DeliveredFirst'
    <3>1. CASE DeliverEvent(w)
      BY <3>1 DEF DeliverEvent, Goto, DeliveredFirst, TypeOK
    <3>2. CASE TakeJob(w)
      BY <3>2 DEF TakeJob, DeliveredFirst, TypeOK
    <3>3. CASE ~DeliverEvent(w) /\ ~TakeJob(w)
      <4>1. PICK pc : pc # "markDone" /\ Goto(w, pc) /\ delivered' = delivered
        BY <1>3, <3>3 DEF LoadRow, DeliveryFails, Done, DoneThrows, ReadForRetry, WriteRetry,
                          MoveToDeadLetter, WorkerStops
      <4> QED
        BY <4>1 DEF Goto, DeliveredFirst, TypeOK
    <3> QED
      BY <3>1, <3>2, <3>3
  <2>2. CASE row' = row
    BY <1>3, <2>2, NoRowDone, <2>1
       DEF TakeJob, LoadRow, DeliverEvent, DeliveryFails, Done, DoneThrows, ReadForRetry,
           WriteRetry, MoveToDeadLetter, WorkerStops
  <2>3. CASE row' # row /\ (Done(w) \/ DoneThrows(w))
    <3>1. c \in delivered /\ delivered' = delivered
      BY <2>3 DEF Done, DoneThrows, DeliveredFirst
    <3>2. row' = [row EXCEPT ![c.event] = MarkDone(row[c.event], c.retryCount)]
      BY <2>3 DEF Done, DoneThrows
    <3>3. \/ MarkDone(row[c.event], c.retryCount) = row[c.event]
          \/ MarkDone(row[c.event], c.retryCount).retryCount = c.retryCount
      BY DEF MarkDone, SettleWhere, MoveTo
    <3> QED
      BY <2>0, <2>1, <3>1, <3>2, <3>3, RowStatementsType, OneRowDone
  <2>4. CASE WriteRetry(w)
    <3>1. /\ row' = [row EXCEPT ![c.event] = ScheduleRetry(row[c.event], c.retryCount)]
          /\ delivered' = delivered
      BY <2>4 DEF WriteRetry
    <3> QED
      BY <2>0, <2>1, <3>1, RowStatementsType, UndoneStatements, OneRowDone
  <2>5. CASE MoveToDeadLetter(w)
    <3> DEFINE r == [row[c.event] EXCEPT !.status = "FAILED", !.stale = FALSE]
    <3>1. r \in RowType /\ r.status # "DONE"
      BY <2>0 DEF RowType, Status
    <3>2. row' = [row EXCEPT ![c.event] = r] /\ delivered' = delivered
      BY <2>0, <2>5 DEF MoveToDeadLetter, TypeOK
    <3> QED
      BY <2>0, <2>1, <3>1, <3>2, OneRowDone
  <2>6. CASE row' # row /\ ~(Done(w) \/ DoneThrows(w) \/ WriteRetry(w) \/ MoveToDeadLetter(w))
    BY <1>3, <2>6 DEF TakeJob, LoadRow, DeliverEvent, DeliveryFails, ReadForRetry, WorkerStops
  <2> QED
    BY <2>2, <2>3, <2>4, <2>5, <2>6
<1>4. CASE SweepNext
  <2>1. DeliveredFirst' /\ delivered' = delivered
    BY <1>4 DEF DeliveredFirst, SweepNext, ReapSelect, ReapEnds, ReapRow
  <2>2. ASSUME NEW c \in sweep, ReapRow(c) PROVE DoneDelivered'
    <3>1. c.event \in Event /\ c.retryCount \in Nat /\ row[c.event] \in RowType
      BY DEF TypeOK, Claim
    <3>2. \/ row' = [row EXCEPT ![c.event] = ReapFailed(row[c.event])]
          \/ row' = [row EXCEPT ![c.event] = ReapBack(row[c.event], c.retryCount)]
      BY <2>2 DEF ReapRow
    <3> QED
      BY <2>1, <3>1, <3>2, RowStatementsType, UndoneStatements, OneRowDone
  <2>3. CASE ReapSelect \/ ReapEnds
    BY <2>1, <2>3, NoRowDone DEF ReapSelect, ReapEnds
  <2> QED
    BY <1>4, <2>1, <2>2, <2>3 DEF SweepNext
<1>5. CASE LetterNext
  <2>1. DeliveredFirst' /\ delivered' = delivered
    BY <1>5 DEF DeliveredFirst, LetterNext, AskRetry, RetryDeadLetter, RetryRefused
  <2>2. ASSUME NEW l \in asked, RetryDeadLetter(l) PROVE DoneDelivered'
    <3>1. letters[l].event \in Event /\ row[letters[l].event] \in RowType
      BY LetterType DEF TypeOK
    <3>2. row' = [row EXCEPT ![letters[l].event] = RetryFailed(row[letters[l].event])]
      BY <2>2 DEF RetryDeadLetter
    <3> QED
      BY <2>1, <3>1, <3>2, RowStatementsType, UndoneStatements, OneRowDone
  <2>3. CASE row' = row
    BY <2>1, <2>3, NoRowDone
  <2> QED
    BY <1>5, <2>1, <2>2, <2>3 DEF LetterNext, AskRetry, RetryRefused
<1>6. CASE UNCHANGED vars
  BY <1>6 DEF vars, DeliveredFirst, DoneDelivered, ClaimOf
<1> QED
  BY <1>1, <1>2, <1>3, <1>4, <1>5, <1>6 DEF Next, EventNext, RelayNext, WorkerNext

(***************************************************************************)
(* However workers, sweeps and operators interleave, a row is DONE only if *)
(* its event was delivered in full under the claim the row carries.        *)
(***************************************************************************)
THEOREM PurchaseDoneDelivered == Spec => []DoneDelivered
<1>1. Init => DeliveredFirst /\ DoneDelivered
  BY DEF Init, DeliveredFirst, DoneDelivered, NoRow, IdleWorker
<1>2. TypeOK /\ DeliveredFirst /\ DoneDelivered /\ [Next]_vars
        => DeliveredFirst' /\ DoneDelivered'
  BY DoneStep
<1> QED
  BY <1>1, <1>2, PurchaseTypes, PTL DEF Spec

-----------------------------------------------------------------------------
\* The workers giving up on an event and its letters can be counted.
LEMMA CountedSets ==
  ASSUME TypeOK, NEW e \in Event
  PROVE  /\ IsFiniteSet(GivingUp(e)) /\ Cardinality(GivingUp(e)) \in Nat
         /\ IsFiniteSet(LettersOf(e)) /\ Cardinality(LettersOf(e)) \in Nat
<1>1. IsFiniteSet(GivingUp(e))
  BY PurchaseAssumption, FS_Subset DEF GivingUp
<1>2. IsFiniteSet(LettersOf(e))
  <2>1. Len(letters) \in Nat /\ DOMAIN letters = 1 .. Len(letters)
    BY LenProperties DEF TypeOK
  <2>2. IsFiniteSet(DOMAIN letters)
    BY <2>1, FS_Interval
  <2> QED
    BY <2>2, FS_Subset DEF LettersOf
<1> QED
  BY <1>1, <1>2, FS_CardinalityType

\* What LetterBudget grants one event.
Budget(e) == operatorRetries[e] + IF row[e].status = "FAILED" THEN 1 ELSE 0

\* A step that sends no worker to the dead letters, writes none and takes no budget.
LEMMA QuietStep ==
  ASSUME TypeOK, TypeOK', LetterBudget, NEW e \in Event,
         GivingUp(e)' \subseteq GivingUp(e), LettersOf(e)' = LettersOf(e),
         Budget(e)' >= Budget(e)
  PROVE  Cardinality(GivingUp(e))' + Cardinality(LettersOf(e))' <= Budget(e)'
<1>1. /\ Cardinality(GivingUp(e)) \in Nat /\ Cardinality(LettersOf(e)) \in Nat
      /\ IsFiniteSet(GivingUp(e))
  BY CountedSets
<1>2. Cardinality(GivingUp(e)') <= Cardinality(GivingUp(e)) /\ Cardinality(GivingUp(e)') \in Nat
  BY <1>1, FS_Subset, FS_CardinalityType
<1>3. Budget(e) \in Nat /\ Budget(e)' \in Nat
  BY DEF Budget, TypeOK
<1>4. Cardinality(GivingUp(e)) + Cardinality(LettersOf(e)) <= Budget(e)
  BY DEF LetterBudget, Budget
<1> QED
  BY <1>1, <1>2, <1>3, <1>4

\* LetterBudget, restated with Budget.
LEMMA BudgetPrime ==
  ASSUME \A e \in Event : Cardinality(GivingUp(e))' + Cardinality(LettersOf(e))' <= Budget(e)'
  PROVE  LetterBudget'
  BY DEF LetterBudget, Budget

\* One more element adds at most one.
LEMMA OneMore ==
  ASSUME NEW S, IsFiniteSet(S), NEW x
  PROVE  /\ IsFiniteSet(S \cup {x}) /\ Cardinality(S \cup {x}) \in Nat
         /\ Cardinality(S \cup {x}) <= Cardinality(S) + 1
<1>1. Cardinality(S) \in Nat
  BY FS_CardinalityType
<1>2. /\ IsFiniteSet(S \cup {x})
      /\ Cardinality(S \cup {x}) = IF x \in S THEN Cardinality(S) ELSE Cardinality(S) + 1
  BY FS_AddElement
<1>3. CASE x \in S
  BY <1>1, <1>2, <1>3
<1>4. CASE x \notin S
  BY <1>1, <1>2, <1>4
<1> QED
  BY <1>3, <1>4

\* Only an operator's retry takes a row out of FAILED.
LEMMA FailedStays ==
  ASSUME NEW x \in RowType, x.status = "FAILED", NEW n
  PROVE  /\ ClaimRow(x) = x /\ ReleaseRow(x) = x /\ MarkDone(x, n) = x
         /\ ScheduleRetry(x, n) = x /\ ReapFailed(x) = x /\ ReapBack(x, n) = x
  BY DEF ClaimRow, ReleaseRow, MarkDone, ScheduleRetry, ReapFailed, ReapBack, SettleWhere,
         IsClaimed, ClaimedStatuses

\* A step that leaves the retries alone and no row less FAILED takes no budget.
LEMMA BudgetKept ==
  ASSUME TypeOK, NEW x \in Event, operatorRetries' = operatorRetries,
         row[x].status = "FAILED" => row'[x].status = "FAILED"
  PROVE  Budget(x)' >= Budget(x)
  BY DEF Budget, TypeOK

\* An operator's retry of a FAILED row pays for the FAILED it takes away.
LEMMA BudgetPaid ==
  ASSUME TypeOK, NEW e \in Event, NEW x \in Event, row[e].status = "FAILED",
         row' = [row EXCEPT ![e] = RetryFailed(@)], CountRetry(e)
  PROVE  Budget(x)' >= Budget(x)
<1>1. CASE x = e
  BY <1>1 DEF Budget, TypeOK, CountRetry
<1>2. CASE x # e
  <2>1. row'[x] = row[x] /\ operatorRetries'[x] = operatorRetries[x]
    BY <1>2 DEF TypeOK, CountRetry
  <2> QED
    BY <2>1 DEF Budget, TypeOK
<1> QED
  BY <1>1, <1>2

\* Steps of everyone but the workers write no letter and send no worker to write one.
LEMMA BudgetOthers ==
  ASSUME TypeOK, TypeOK', LetterBudget, NEW x \in Event,
         EventNext \/ RelayNext \/ SweepNext \/ LetterNext
  PROVE  Cardinality(GivingUp(x))' + Cardinality(LettersOf(x))' <= Budget(x)'
<1>1. CASE EventNext
  <2>1. PICK e \in Event : StageEvent(e) \/ RelayClaim(e) \/ ClaimGoesStale(e) \/ RetryEvent(e)
    BY <1>1 DEF EventNext
  <2>2. GivingUp(x)' = GivingUp(x) /\ LettersOf(x)' = LettersOf(x)
    BY <2>1 DEF GivingUp, LettersOf, StageEvent, RelayClaim, ClaimGoesStale, RetryEvent
  <2>3. Budget(x)' >= Budget(x)
    <3>1. CASE RetryEvent(e)
      BY <3>1, BudgetPaid DEF RetryEvent
    <3>2. CASE ~RetryEvent(e)
      <4>1. operatorRetries' = operatorRetries
        BY <2>1, <3>2 DEF StageEvent, RelayClaim, ClaimGoesStale
      <4>2. row[e].status # "FAILED" /\ \A y \in Event : y # e => row'[y] = row[y]
        BY <2>1, <3>2 DEF StageEvent, RelayClaim, ClaimGoesStale, IsClaimed, ClaimedStatuses,
                          TypeOK
      <4> QED
        BY <4>1, <4>2, BudgetKept
    <3> QED
      BY <3>1, <3>2
  <2> QED
    BY <2>2, <2>3, QuietStep
<1>2. CASE RelayNext
  <2>1. PICK h \in relay : \/ RelayEnqueue(h) \/ RelayEnqueueFails(h)
                           \/ RelayRelease(h) \/ RelayCrash(h)
    BY <1>2 DEF RelayNext
  <2>2. /\ GivingUp(x)' = GivingUp(x) /\ LettersOf(x)' = LettersOf(x)
        /\ operatorRetries' = operatorRetries
    BY <2>1 DEF GivingUp, LettersOf, RelayEnqueue, RelayEnqueueFails, RelayRelease, RelayCrash
  <2>3. row[x].status = "FAILED" => row'[x] = row[x]
    <3>1. row' = row \/ row' = [row EXCEPT ![h.claim.event] = ReleaseRow(@)]
      BY <2>1 DEF RelayEnqueue, RelayEnqueueFails, RelayRelease, RelayCrash
    <3>2. row \in [Event -> RowType]
      BY DEF TypeOK
    <3>3. row[x].status = "FAILED" => ReleaseRow(row[x]) = row[x]
      BY <3>2, FailedStays
    <3> QED
      BY <3>1, <3>2, <3>3
  <2> QED
    BY <2>2, <2>3, BudgetKept, QuietStep
<1>3. CASE SweepNext
  <2>1. /\ GivingUp(x)' = GivingUp(x) /\ LettersOf(x)' = LettersOf(x)
        /\ operatorRetries' = operatorRetries
    BY <1>3 DEF GivingUp, LettersOf, SweepNext, ReapSelect, ReapEnds, ReapRow
  <2>2. row[x].status = "FAILED" => row'[x] = row[x]
    <3>1. CASE ReapSelect \/ ReapEnds
      BY <3>1 DEF ReapSelect, ReapEnds
    <3>2. ASSUME NEW c \in sweep, ReapRow(c)
          PROVE  row[x].status = "FAILED" => row'[x] = row[x]
      BY <3>2, FailedStays DEF ReapRow, TypeOK
    <3> QED
      BY <1>3, <3>1, <3>2 DEF SweepNext
  <2> QED
    BY <2>1, <2>2, BudgetKept, QuietStep
<1>4. ASSUME NEW l \in asked, RetryDeadLetter(l)
      PROVE  Cardinality(GivingUp(x))' + Cardinality(LettersOf(x))' <= Budget(x)'
  <2>1. l \in DOMAIN letters /\ letters[l].event \in Event
        /\ letters[l] \in [event : Event, status : {"ACTIVE", "RESOLVED"}]
    BY LetterType
  <2>2. GivingUp(x)' = GivingUp(x)
    BY <1>4 DEF GivingUp, RetryDeadLetter
  <2>3. LettersOf(x)' = LettersOf(x)
    <3>1. letters' = [letters EXCEPT ![l] = [letters[l] EXCEPT !.status = "RESOLVED"]]
      BY <1>4 DEF RetryDeadLetter
    <3>2. DOMAIN letters' = DOMAIN letters
      BY <3>1
    <3>3. \A m \in DOMAIN letters : letters'[m].event = letters[m].event
      BY <2>1, <3>1
    <3> QED
      BY <3>2, <3>3 DEF LettersOf
  <2>4. Budget(x)' >= Budget(x)
    BY <1>4, <2>1, BudgetPaid DEF RetryDeadLetter
  <2> QED
    BY <2>2, <2>3, <2>4, QuietStep
<1>5. ASSUME NEW l, AskRetry(l) \/ RetryRefused(l)
      PROVE  Cardinality(GivingUp(x))' + Cardinality(LettersOf(x))' <= Budget(x)'
  <2>1. /\ GivingUp(x)' = GivingUp(x) /\ LettersOf(x)' = LettersOf(x)
        /\ operatorRetries' = operatorRetries /\ row' = row
    BY <1>5 DEF GivingUp, LettersOf, AskRetry, RetryRefused
  <2> QED
    BY <2>1, BudgetKept, QuietStep
<1> QED
  BY <1>1, <1>2, <1>3, <1>4, <1>5 DEF LetterNext

\* A worker's step: scheduleRetry spends the FAILED it writes, moveToDeadLetter trades.
LEMMA BudgetWorkers ==
  ASSUME TypeOK, TypeOK', LetterBudget, NEW x \in Event, WorkerNext
  PROVE  Cardinality(GivingUp(x))' + Cardinality(LettersOf(x))' <= Budget(x)'
<1>1. PICK w \in Worker :
        \/ TakeJob(w) \/ LoadRow(w) \/ DeliverEvent(w) \/ DeliveryFails(w)
        \/ Done(w) \/ DoneThrows(w) \/ ReadForRetry(w) \/ WriteRetry(w)
        \/ MoveToDeadLetter(w) \/ WorkerStops(w)
  BY DEF WorkerNext
<1> DEFINE c == worker[w].claim
<1>2. /\ c \in Claim /\ c.event \in Event /\ c.retryCount \in Nat
      /\ row[c.event] \in RowType /\ row \in [Event -> RowType]
  BY DEF TypeOK, Claim
<1>3. operatorRetries' = operatorRetries
  BY <1>1 DEF TakeJob, LoadRow, DeliverEvent, DeliveryFails, Done, DoneThrows, ReadForRetry,
              WriteRetry, MoveToDeadLetter, WorkerStops
<1>4. CASE WriteRetry(w)
  <2>1. row' = [row EXCEPT ![c.event] = ScheduleRetry(row[c.event], c.retryCount)]
    BY <1>4 DEF WriteRetry
  <2>2. row[x].status = "FAILED" => row'[x] = row[x]
    BY <1>2, <2>1, FailedStays
  <2>3. LettersOf(x)' = LettersOf(x)
    BY <1>4 DEF WriteRetry, LettersOf
  <2>4. CASE x = c.event /\ SettleWhere(row[c.event], c.retryCount) /\ Exhausted(c.retryCount)
    <3>1. row[x].status # "FAILED" /\ row'[x].status = "FAILED"
      BY <1>2, <2>1, <2>4 DEF ScheduleRetry, SettleWhere, IsClaimed, ClaimedStatuses, MoveTo
    <3>2. GivingUp(x)' \subseteq GivingUp(x) \cup {w}
      BY <1>4 DEF WriteRetry, Goto, GivingUp, TypeOK
    <3>3. /\ Cardinality(GivingUp(x)') <= Cardinality(GivingUp(x)) + 1
          /\ Cardinality(GivingUp(x)') \in Nat
      <4>1. IsFiniteSet(GivingUp(x)) /\ Cardinality(GivingUp(x)) \in Nat
        BY CountedSets
      <4>2. /\ IsFiniteSet(GivingUp(x) \cup {w})
            /\ Cardinality(GivingUp(x) \cup {w}) <= Cardinality(GivingUp(x)) + 1
            /\ Cardinality(GivingUp(x) \cup {w}) \in Nat
        BY <4>1, OneMore
      <4>3. /\ IsFiniteSet(GivingUp(x)')
            /\ Cardinality(GivingUp(x)') <= Cardinality(GivingUp(x) \cup {w})
        BY <3>2, <4>2, FS_Subset
      <4>4. Cardinality(GivingUp(x)') \in Nat
        BY <4>3, FS_CardinalityType
      <4> QED
        BY <4>1, <4>2, <4>3, <4>4
    <3>4. Budget(x)' = Budget(x) + 1 /\ Budget(x) \in Nat
      BY <1>3, <3>1 DEF Budget, TypeOK
    <3>5. /\ Cardinality(GivingUp(x)) + Cardinality(LettersOf(x)) <= Budget(x)
          /\ Cardinality(GivingUp(x)) \in Nat /\ Cardinality(LettersOf(x)) \in Nat
      BY CountedSets DEF LetterBudget, Budget
    <3> QED
      BY <2>3, <3>3, <3>4, <3>5
  <2>5. CASE ~(x = c.event /\ SettleWhere(row[c.event], c.retryCount) /\ Exhausted(c.retryCount))
    <3>1. GivingUp(x)' \subseteq GivingUp(x)
      BY <1>4, <2>5 DEF WriteRetry, Goto, GivingUp, TypeOK
    <3> QED
      BY <1>3, <2>2, <2>3, <3>1, BudgetKept, QuietStep
  <2> QED
    BY <2>4, <2>5
<1>5. CASE MoveToDeadLetter(w)
  <2>1. row[x].status = "FAILED" => row'[x].status = "FAILED"
    BY <1>2, <1>5 DEF MoveToDeadLetter, RowType
  <2>2. CASE x # c.event
    <3>1. GivingUp(x)' \subseteq GivingUp(x)
      BY <1>5 DEF MoveToDeadLetter, Goto, GivingUp, TypeOK
    <3>2. LettersOf(x)' = LettersOf(x)
      BY <1>2, <1>5, <2>2 DEF MoveToDeadLetter, LettersOf, TypeOK
    <3> QED
      BY <1>3, <2>1, <3>1, <3>2, BudgetKept, QuietStep
  <2>3. CASE x = c.event
    <3>1. w \in GivingUp(x) /\ GivingUp(x)' = GivingUp(x) \ {w}
      BY <1>5, <2>3 DEF MoveToDeadLetter, Goto, GivingUp, TypeOK
    <3>2. LettersOf(x)' = LettersOf(x) \cup {Len(letters) + 1}
      BY <1>2, <1>5, <2>3 DEF MoveToDeadLetter, LettersOf, TypeOK
    <3>3. /\ IsFiniteSet(GivingUp(x)) /\ Cardinality(GivingUp(x)) \in Nat
          /\ IsFiniteSet(LettersOf(x)) /\ Cardinality(LettersOf(x)) \in Nat
      BY CountedSets
    <3>4. Cardinality(GivingUp(x)') = Cardinality(GivingUp(x)) - 1
      BY <3>1, <3>3, FS_RemoveElement
    <3>5. /\ Cardinality(LettersOf(x)') <= Cardinality(LettersOf(x)) + 1
          /\ Cardinality(LettersOf(x)') \in Nat
      BY <3>2, <3>3, OneMore
    <3>6. Budget(x)' >= Budget(x) /\ Budget(x) \in Nat /\ Budget(x)' \in Nat
      BY <1>3, <2>1, BudgetKept DEF Budget, TypeOK
    <3>7. Cardinality(GivingUp(x)) + Cardinality(LettersOf(x)) <= Budget(x)
      BY DEF LetterBudget, Budget
    <3> QED
      BY <3>3, <3>4, <3>5, <3>6, <3>7
  <2> QED
    BY <2>2, <2>3
<1>6. CASE ~WriteRetry(w) /\ ~MoveToDeadLetter(w)
  <2>1. LettersOf(x)' = LettersOf(x)
    BY <1>1, <1>6 DEF LettersOf, TakeJob, LoadRow, DeliverEvent, DeliveryFails, Done,
                      DoneThrows, ReadForRetry, WorkerStops
  <2>2. GivingUp(x)' \subseteq GivingUp(x)
    <3>1. CASE TakeJob(w)
      BY <3>1 DEF TakeJob, GivingUp, TypeOK
    <3>2. CASE ~TakeJob(w)
      <4>1. PICK pc : pc # "deadLetter" /\ Goto(w, pc)
        BY <1>1, <1>6, <3>2 DEF LoadRow, DeliverEvent, DeliveryFails, Done, DoneThrows,
                                ReadForRetry, WorkerStops
      <4> QED
        BY <4>1 DEF Goto, GivingUp, TypeOK
    <3> QED
      BY <3>1, <3>2
  <2>3. row[x].status = "FAILED" => row'[x] = row[x]
    <3>1. row' = row \/ row' = [row EXCEPT ![c.event] = MarkDone(row[c.event], c.retryCount)]
      BY <1>1, <1>6 DEF TakeJob, LoadRow, DeliverEvent, DeliveryFails, Done, DoneThrows,
                        ReadForRetry, WorkerStops
    <3> QED
      BY <1>2, <3>1, FailedStays
  <2> QED
    BY <1>3, <2>1, <2>2, <2>3, BudgetKept, QuietStep
<1> QED
  BY <1>4, <1>5, <1>6

(***************************************************************************)
(* However many workers give up on an event, it is dead-lettered once for  *)
(* its own failure and at most once more for each retry of an operator:    *)
(* each letter is paid for by one step into FAILED (LetterBudget).         *)
(***************************************************************************)
THEOREM PurchaseOneLetter == Spec => []OneLetterPerFailure
<1>1. Init => LetterBudget
  <2> SUFFICES ASSUME Init, NEW e \in Event
               PROVE  Cardinality(GivingUp(e)) + Cardinality(LettersOf(e))
                        <= operatorRetries[e] + IF row[e].status = "FAILED" THEN 1 ELSE 0
    BY DEF LetterBudget
  <2>1. GivingUp(e) = {} /\ LettersOf(e) = {}
    BY DEF Init, GivingUp, LettersOf, IdleWorker
  <2>2. row[e].status = "ABSENT" /\ operatorRetries[e] = 0
    BY DEF Init, NoRow
  <2> QED
    BY <2>1, <2>2, FS_EmptySet
<1>2. TypeOK /\ TypeOK' /\ LetterBudget /\ [Next]_vars => LetterBudget'
  <2>1. ASSUME TypeOK, TypeOK', LetterBudget, Next PROVE LetterBudget'
    BY <2>1, BudgetOthers, BudgetWorkers, BudgetPrime DEF Next
  <2>2. LetterBudget /\ UNCHANGED vars => LetterBudget'
    BY DEF LetterBudget, GivingUp, LettersOf, vars
  <2> QED
    BY <2>1, <2>2
<1>3. TypeOK /\ LetterBudget => OneLetterPerFailure
  <2> SUFFICES ASSUME TypeOK, LetterBudget, NEW e \in Event
               PROVE  Cardinality(LettersOf(e)) <= 1 + operatorRetries[e]
    BY DEF OneLetterPerFailure
  <2>1. Cardinality(GivingUp(e)) + Cardinality(LettersOf(e))
          <= operatorRetries[e] + IF row[e].status = "FAILED" THEN 1 ELSE 0
    BY DEF LetterBudget
  <2>2. /\ Cardinality(GivingUp(e)) \in Nat /\ Cardinality(LettersOf(e)) \in Nat
        /\ operatorRetries[e] \in Nat
    BY CountedSets DEF TypeOK
  <2> QED
    BY <2>1, <2>2
<1> QED
  BY <1>1, <1>2, <1>3, PurchaseTypes, PTL DEF Spec
=============================================================================
