------------------------------ MODULE Imports ------------------------------
(***************************************************************************)
(* The onboarding imports of a shop: an upload, or the application of a    *)
(* finished dry run, creates an ImportJob row and hands it to the queue; a *)
(* worker plans the file's rows against the shop and applies them one by   *)
(* one through the services the screens use, reporting in batches.         *)
(*                                                                         *)
(* BullMQ delivers a job again when its worker died or lost its lock, and  *)
(* a worker that lost its lock goes on: two workers may run one job.  Each *)
(* statement or service call is a step of its own.                         *)
(***************************************************************************)
EXTENDS Integers, Sequences, FiniteSets, SequencesExt

CONSTANTS Job,            \* ImportJob ids
          NoJob,
          Worker,         \* consumers of the import-job queue
          Key,            \* phone numbers or SKUs: what a row is matched by
          Value,          \* the other columns of a row; 0: as entered on the screen
          Scenes,         \* the runs to look at: see IsScene
          Batch,          \* REPORT_BATCH
          Attempts,       \* BULL_DEFAULT_ATTEMPTS
          MaxStalls       \* BullMQ's maxStalledCount

Kind == {"PRODUCTS", "CUSTOMERS", "OPENING_STOCK"}

\* A row of a file; opening 0: none given, valid: the validator has no error.
FileRow == [key : Key, value : Value, opening : Nat, valid : BOOLEAN]

\* from: the dry run that is applied; readable: the file parses and has its columns.
Upload == [kind : Kind, mode : {"UPSERT", "CREATE_ONLY", "UPDATE_ONLY"}, dryRun : BOOLEAN,
           rows : Seq(FileRow), readable : BOOLEAN, from : Job \cup {NoJob}]

(***************************************************************************)
(* A run: the uploads of some of the jobs, the keys the shop already has,  *)
(* the keys somebody trades with and enters meanwhile, whether the         *)
(* uploader may lose the role, and the bound on the run's crashes, lost    *)
(* locks, given-up adds and database errors.                               *)
(***************************************************************************)
IsScene(x) ==
  /\ DOMAIN x = {"up", "known", "traded", "entered", "dismissed", "faults"}
  /\ DOMAIN x.up \subseteq Job /\ \A j \in DOMAIN x.up : x.up[j] \in Upload
  /\ x.known \cup x.traded \cup x.entered \subseteq Key
  /\ x.dismissed \in BOOLEAN /\ x.faults \in Nat

ASSUME ImportsAssumption ==
  /\ NoJob \notin Job
  /\ \A x \in Scenes : IsScene(x)
  /\ Batch \in Nat \ {0} /\ Attempts \in Nat \ {0} /\ MaxStalls \in Nat

VARIABLES scene,
          shop,       \* the customers or products by their key
          openings,   \* the opening postings of each, in the order of their commits
          api,        \* how far the request of each job is
          row,        \* ImportJob rows: status and counters
          report,     \* ImportJobRow rows of each job, in the order of their inserts
          file,       \* jobs whose stored file is still there
          queue,      \* the BullMQ job of each import job
          work,       \* what each worker is doing
          manager,    \* the user who uploads is an active manager
          overlap,    \* jobs that two workers ran at the same time, or that a request gave up on
          faults

vars == <<scene, shop, openings, api, row, report, file, queue, work, manager, overlap, faults>>

data == <<shop, openings>>

up == scene.up

-----------------------------------------------------------------------------
(* Planning *)

RowAction == {"CREATE", "UPDATE", "UNCHANGED", "SKIP"}

\* ERROR stands for a row without an action.
Outcome == RowAction \cup {"ERROR"}

NoCounts == [o \in Outcome |-> 0]

Recorded(k) == openings[k] # <<>>

\* A later row with the key of an earlier valid one: refuseRepeats.
Repeats(rows, n) ==
  \E m \in 1..n - 1 : rows[m].valid /\ rows[n].valid /\ rows[m].key = rows[n].key

PlanProduct(r) ==
  IF ~shop[r.key].there THEN "CREATE"
  ELSE IF shop[r.key].value # r.value THEN "UPDATE" ELSE "UNCHANGED"

\* Mutant of OpeningRefused: any opening there is refuses the row.
OpeningRefusedAgain(r) == Recorded(r.key) \/ shop[r.key].used

\* Another amount is recorded, or the customer's udhar or the product's stock already moved.
OpeningRefused(r) ==
  \/ Recorded(r.key) /\ openings[r.key][1] # r.opening
  \/ ~Recorded(r.key) /\ shop[r.key].used

\* Mutant of OpeningDue: an opening comes with a new customer alone.
OpeningDueOnCreate(r) == r.opening # 0 /\ ~shop[r.key].there

\* Whether the row still brings an opening balance.
OpeningDue(r) == r.opening # 0 /\ ~Recorded(r.key)

PlanCustomer(r) ==
  IF ~shop[r.key].there THEN "CREATE"
  ELSE IF r.opening # 0 /\ OpeningRefused(r) THEN "ERROR"
  ELSE IF shop[r.key].value # r.value \/ OpeningDue(r) THEN "UPDATE" ELSE "UNCHANGED"

PlanStock(r) ==
  IF ~shop[r.key].there THEN "ERROR"
  ELSE IF r.opening = 0 THEN "SKIP"
  ELSE IF OpeningRefused(r) THEN "ERROR"
  ELSE IF Recorded(r.key) THEN "UNCHANGED" ELSE "CREATE"

\* applyMode
InMode(mode, act) ==
  IF (mode = "CREATE_ONLY" /\ act = "UPDATE") \/ (mode = "UPDATE_ONLY" /\ act = "CREATE")
  THEN "SKIP" ELSE act

PlanRow(u, n) ==
  LET r == u.rows[n] IN
  IF ~r.valid \/ Repeats(u.rows, n) THEN "ERROR"
  ELSE InMode(u.mode, CASE u.kind = "PRODUCTS"  -> PlanProduct(r)
                        [] u.kind = "CUSTOMERS" -> PlanCustomer(r)
                        [] OTHER                -> PlanStock(r))

\* The service calls that apply a planned row, in their order.
Calls(u, n, act) ==
  LET r == u.rows[n]
      opening == IF r.opening # 0 THEN <<"opening">> ELSE <<>>
  IN
  CASE u.dryRun \/ act \notin {"CREATE", "UPDATE"} -> <<>>
    [] u.kind = "OPENING_STOCK" -> <<"opening">>
    [] u.kind = "PRODUCTS"      -> <<IF act = "CREATE" THEN "create" ELSE "update">>
    [] act = "CREATE"           -> <<"create">> \o opening
    [] OTHER -> (IF shop[r.key].value # r.value THEN <<"update">> ELSE <<>>)
                  \o (IF OpeningDue(r) THEN <<"opening">> ELSE <<>>)

\* The plan of a whole file; calls says what apply will do, from what was read now.
PlanOf(u) ==
  [n \in DOMAIN u.rows |->
     LET act == PlanRow(u, n) IN [act |-> act, calls |-> Calls(u, n, act)]]

-----------------------------------------------------------------------------
(* Requests and the queue *)

Finished(status) == status \in {"COMPLETED", "PARTIAL_SUCCESS", "FAILED"}

NotThere == [there |-> FALSE, value |-> 0, used |-> FALSE]

\* A customer or product as somebody typed it in.
Entered == [there |-> TRUE, value |-> 0, used |-> FALSE]

NewJobRow == [status |-> "PENDING", counts |-> NoCounts]

NoQueueJob == [state |-> "none", holder |-> {}, attempts |-> Attempts, stalls |-> 0]

IdleWorker == [pc |-> "idle", job |-> NoJob, plan |-> <<>>, at |-> 0, called |-> 0,
               done |-> <<>>, pending |-> <<>>, counts |-> NoCounts]

Init ==
  /\ scene \in Scenes
  /\ shop = [k \in Key |-> IF k \in scene.known THEN Entered ELSE NotThere]
  /\ openings = [k \in Key |-> <<>>]
  /\ api = [j \in Job |-> "none"]
  /\ row = [j \in Job |-> [status |-> "none", counts |-> NoCounts]]
  /\ report = [j \in Job |-> <<>>]
  /\ file = {}
  /\ queue = [j \in Job |-> NoQueueJob]
  /\ work = [w \in Worker |-> IdleWorker]
  /\ manager = TRUE
  /\ overlap = {}
  /\ faults = 0

\* queueUpload: the file is stored and the job row created.
QueueUpload(j) ==
  /\ j \in DOMAIN up /\ api[j] = "none" /\ up[j].from = NoJob
  /\ api' = [api EXCEPT ![j] = "queue"]
  /\ row' = [row EXCEPT ![j] = NewJobRow]
  /\ file' = file \cup {j}
  /\ UNCHANGED <<scene, data, report, queue, work, manager, overlap, faults>>

\* applyDryRun: a new job on the same stored file.
ApplyDryRun(j) ==
  /\ j \in DOMAIN up /\ api[j] = "none" /\ up[j].from # NoJob
  /\ up[up[j].from].dryRun
  /\ row[up[j].from].status \in {"COMPLETED", "PARTIAL_SUCCESS"}
  /\ api' = [api EXCEPT ![j] = "queue"]
  /\ row' = [row EXCEPT ![j] = NewJobRow]
  /\ UNCHANGED <<scene, data, report, file, queue, work, manager, overlap, faults>>

\* The add takes effect in Redis: before its answer, or after nobody waits for it any more.
Land(j) ==
  /\ api[j] # "none" /\ queue[j].state = "none"
  /\ queue' = [queue EXCEPT ![j].state = "waiting"]
  /\ UNCHANGED <<scene, data, api, row, report, file, work, manager, overlap, faults>>

Queued(j) ==
  /\ api[j] = "queue" /\ queue[j].state # "none"
  /\ api' = [api EXCEPT ![j] = "answered"]
  /\ UNCHANGED <<scene, data, row, report, file, queue, work, manager, overlap, faults>>

\* enqueueOrGiveUp: the add failed or took too long; the row is closed, then its report and file.
GiveUp(j) ==
  /\ api[j] = "queue" /\ faults < scene.faults
  /\ api' = [api EXCEPT ![j] = "close"]
  /\ overlap' = overlap \cup {j}
  /\ faults' = faults + 1
  /\ UNCHANGED <<scene, data, row, report, file, queue, work, manager>>

CloseRow(j) ==
  /\ api[j] = "close"
  /\ row' = [row EXCEPT ![j].status = "FAILED"]
  /\ api' = [api EXCEPT ![j] = "explain"]
  /\ UNCHANGED <<scene, data, report, file, queue, work, manager, overlap, faults>>

\* Row 0 of a report is about the file.
WithFileRow(j) == [report EXCEPT ![j] = Append(@, [row |-> 0, outcome |-> "ERROR"])]

Explain(j) ==
  /\ api[j] = "explain"
  /\ report' = WithFileRow(j)
  /\ file' = file \ {j}
  /\ api' = [api EXCEPT ![j] = "refused"]
  /\ UNCHANGED <<scene, data, row, queue, work, manager, overlap, faults>>

\* The pod that took the request dies.
ApiCrash(j) ==
  /\ api[j] \in {"queue", "close", "explain"} /\ faults < scene.faults
  /\ api' = [api EXCEPT ![j] = "dead"]
  /\ faults' = faults + 1
  /\ UNCHANGED <<scene, data, row, report, file, queue, work, manager, overlap>>

-----------------------------------------------------------------------------
(* A worker *)

At(w, pc) == work[w].pc = pc

JobOf(w) == work[w].job

UpOf(w) == up[JobOf(w)]

Becomes(w, me) == work' = [work EXCEPT ![w] = me]

GoTo(w, pc) == Becomes(w, [work[w] EXCEPT !.pc = pc])

Holds(w) == queue[JobOf(w)].holder = {w}

\* The processor returns: BullMQ takes it from the worker that holds the job's lock.
Return(w) ==
  /\ Becomes(w, IdleWorker)
  /\ queue' = IF Holds(w) THEN [queue EXCEPT ![JobOf(w)].state = "done"] ELSE queue

\* The processor throws: another attempt, while there are some left.
Throw(w) ==
  LET left == queue[JobOf(w)].attempts - 1 IN
  /\ Becomes(w, IdleWorker)
  /\ queue' = IF Holds(w)
              THEN [queue EXCEPT ![JobOf(w)] = [@ EXCEPT
                      !.state = IF left > 0 THEN "waiting" ELSE "failed",
                      !.holder = {}, !.attempts = left]]
              ELSE queue

(***************************************************************************)
(* The job is delivered, and actorFor looks whether the uploader is still  *)
(* an active manager.                                                      *)
(***************************************************************************)
Deliver(w, j) ==
  /\ At(w, "idle") /\ queue[j].state = "waiting"
  /\ queue' = [queue EXCEPT ![j].state = "active", ![j].holder = {w}]
  /\ Becomes(w, [IdleWorker EXCEPT !.pc = IF manager THEN "load" ELSE "stopRow", !.job = j])
  /\ overlap' = IF \E v \in Worker : JobOf(v) = j THEN overlap \cup {j} ELSE overlap
  /\ UNCHANGED <<scene, data, api, row, report, file, manager, faults>>

\* processJob's look at the row: a finished job is not run again.
LoadJob(w) ==
  /\ At(w, "load")
  /\ IF Finished(row[JobOf(w)].status) THEN Return(w) ELSE GoTo(w, "mark") /\ UNCHANGED queue
  /\ UNCHANGED <<scene, data, api, row, report, file, manager, overlap, faults>>

\* The update names the id alone.
MarkProcessing(w) ==
  /\ At(w, "mark")
  /\ row' = [row EXCEPT ![JobOf(w)].status = "PROCESSING"]
  /\ GoTo(w, "plan")
  /\ UNCHANGED <<scene, data, api, report, file, queue, manager, overlap, faults>>

\* The stored file of a job, which the application of a dry run shares.
FileOf(j) == IF up[j].from = NoJob THEN j ELSE up[j].from

\* parseFile, shapeRows and the importer's plan.
PlanFile(w) ==
  /\ At(w, "plan")
  /\ IF FileOf(JobOf(w)) \in file /\ UpOf(w).readable
     THEN Becomes(w, [work[w] EXCEPT !.pc = "resume", !.plan = PlanOf(UpOf(w))])
     ELSE GoTo(w, "fileRow")
  /\ UNCHANGED <<scene, data, api, row, report, file, queue, manager, overlap, faults>>

\* finishWithFileError
WriteFileRow(w) ==
  /\ At(w, "fileRow")
  /\ report' = WithFileRow(JobOf(w))
  /\ GoTo(w, "fileStatus")
  /\ UNCHANGED <<scene, data, api, row, file, queue, manager, overlap, faults>>

FailFile(w) ==
  /\ At(w, "fileStatus")
  /\ row' = [row EXCEPT ![JobOf(w)].status = "FAILED"]
  /\ Return(w)
  /\ UNCHANGED <<scene, data, api, report, file, manager, overlap, faults>>

\* Mutant of Reported: every delivery starts from the first row.
ReportedNever(j) == <<>>

\* The rows of the file that are reported already and the outcome of each.
Reported(j) ==
  LET rows == SelectSeq(report[j], LAMBDA x : x.row > 0) IN
  [n \in {x.row : x \in Range(rows)} |->
     rows[SelectLastInSeq(rows, LAMBDA x : x.row = n)].outcome]

(***************************************************************************)
(* The worker moves past the rows that were reported before, counting      *)
(* them, to the next row to work on or to the last flush.                  *)
(***************************************************************************)
Onward(me) ==
  LET next == CHOOSE n \in me.at + 1..Len(me.plan) + 1 :
                /\ n \notin DOMAIN me.done
                /\ \A m \in me.at + 1..n - 1 : m \in DOMAIN me.done
      passed(o) == {m \in me.at + 1..next - 1 : me.done[m] = o}
  IN  [me EXCEPT !.pc = IF next > Len(me.plan) THEN "flush" ELSE "row", !.at = next - 1,
                 !.called = 0, !.counts = [o \in Outcome |-> me.counts[o] + Cardinality(passed(o))]]

Resume(w) ==
  /\ At(w, "resume")
  /\ Becomes(w, Onward([work[w] EXCEPT !.done = Reported(JobOf(w))]))
  /\ UNCHANGED <<scene, data, api, row, report, file, queue, manager, overlap, faults>>

Full(pending) == Len(pending) >= Batch

\* The result of a row joins the counters and the next batch of the report.
Noted(me, o) ==
  LET noted == [me EXCEPT !.at = @ + 1, !.counts[o] = @ + 1,
                          !.pending = Append(@, [row |-> me.at + 1, outcome |-> o])]
  IN  IF Full(noted.pending) THEN [noted EXCEPT !.pc = "flush", !.called = 0] ELSE Onward(noted)

PlannedRow(me) == me.plan[me.at + 1]

\* A row with nothing to write.
NoteRow(w) ==
  /\ At(w, "row") /\ PlannedRow(work[w]).calls = <<>>
  /\ Becomes(w, Noted(work[w], PlannedRow(work[w]).act))
  /\ UNCHANGED <<scene, data, api, row, report, file, queue, manager, overlap, faults>>

\* The next call of the row's apply.
Calling(w, call) ==
  LET me == work[w] IN
  /\ At(w, "row") /\ PlannedRow(me).calls # <<>>
  /\ PlannedRow(me).calls[me.called + 1] = call

RowAt(w) == UpOf(w).rows[work[w].at + 1]

\* A call did its work: the next one follows, or the row ends with outcome o.
Applied(me, o) ==
  IF me.called + 1 = Len(PlannedRow(me).calls) THEN Noted(me, o)
  ELSE [me EXCEPT !.pc = "row", !.called = @ + 1]

\* Mutant of Caught: the row is reported as planned.
CaughtQuietly(me) == Noted(me, PlannedRow(me).act)

\* A call that throws ends its row: reported as an error, and the run goes on.
Caught(me) == Noted(me, "ERROR")

\* create, guarded by the unique key, and update of a customer or a product.
CallCreate(w) ==
  LET r == RowAt(w) IN
  /\ Calling(w, "create")
  /\ IF shop[r.key].there THEN Becomes(w, Caught(work[w])) /\ UNCHANGED shop
     ELSE /\ shop' = [shop EXCEPT ![r.key] = [there |-> TRUE, value |-> r.value, used |-> FALSE]]
          /\ Becomes(w, Applied(work[w], "CREATE"))
  /\ UNCHANGED <<scene, openings, api, row, report, file, queue, manager, overlap, faults>>

CallUpdate(w) ==
  /\ Calling(w, "update")
  /\ shop' = [shop EXCEPT ![RowAt(w).key].value = RowAt(w).value]
  /\ Becomes(w, Applied(work[w], "UPDATE"))
  /\ UNCHANGED <<scene, openings, api, row, report, file, queue, manager, overlap, faults>>

\* Mutant of MayOpen: what the plan read is trusted.
MayOpenAsPlanned(k) == TRUE

\* What recordOpeningBalance and recordOpeningStock check under their row lock.
MayOpen(k) == ~Recorded(k) /\ ~shop[k].used

\* An opening that is there already with the same amount: a row that brought only it is unchanged.
OpenAlready(me) ==
  IF PlannedRow(me).calls = <<"opening">> THEN "UNCHANGED" ELSE PlannedRow(me).act

\* Mutant of Locked: the posting reads without a lock.
LockedNever(k) == FALSE

\* The customer's or product's row, which every sale and movement locks as well.
Locked(k) == \E w \in Worker : At(w, "opening") /\ RowAt(w).key = k

\* The posting locks the row and looks under the lock: it ends there, or goes on to write.
CallOpening(w) ==
  LET r == RowAt(w)
      me == work[w]
  IN
  /\ Calling(w, "opening") /\ ~Locked(r.key)
  /\ Becomes(w, IF MayOpen(r.key) THEN [me EXCEPT !.pc = "opening"]
                ELSE IF Recorded(r.key) /\ openings[r.key][1] = r.opening
                     THEN Applied(me, OpenAlready(me)) ELSE Caught(me))
  /\ UNCHANGED <<scene, data, api, row, report, file, queue, manager, overlap, faults>>

\* The opening's entry and its posting commit.
RecordOpening(w) ==
  LET r == RowAt(w) IN
  /\ At(w, "opening")
  /\ openings' = [openings EXCEPT ![r.key] = Append(@, r.opening)]
  /\ Becomes(w, Applied(work[w], PlannedRow(work[w]).act))
  /\ UNCHANGED <<scene, shop, api, row, report, file, queue, manager, overlap, faults>>

\* flush: the batch, then the counters.
InsertReport(w) ==
  /\ At(w, "flush")
  /\ report' = [report EXCEPT ![JobOf(w)] = @ \o work[w].pending]
  /\ Becomes(w, [work[w] EXCEPT !.pc = "counters", !.pending = <<>>])
  /\ UNCHANGED <<scene, data, api, row, file, queue, manager, overlap, faults>>

WriteCounters(w) ==
  LET me == work[w] IN
  /\ At(w, "counters")
  /\ row' = [row EXCEPT ![me.job].counts = me.counts]
  /\ Becomes(w, IF me.at = Len(me.plan) THEN [me EXCEPT !.pc = "finish"] ELSE Onward(me))
  /\ UNCHANGED <<scene, data, api, report, file, queue, manager, overlap, faults>>

EndStatus(counts) ==
  IF counts["ERROR"] = 0 THEN "COMPLETED"
  ELSE IF \E o \in RowAction : counts[o] > 0 THEN "PARTIAL_SUCCESS" ELSE "FAILED"

FinishJob(w) ==
  /\ At(w, "finish")
  /\ row' = [row EXCEPT ![JobOf(w)] = [status |-> EndStatus(work[w].counts), counts |-> work[w].counts]]
  /\ GoTo(w, "audit")
  /\ UNCHANGED <<scene, data, api, report, file, queue, manager, overlap, faults>>

\* The audit entry of an applied import; caches are dropped.
Audit(w) ==
  /\ At(w, "audit")
  /\ Return(w)
  /\ UNCHANGED <<scene, data, api, row, report, file, manager, overlap, faults>>

\* refuse, and the catch of processJob: row 0, then FAILED.
StopRow(w) ==
  /\ At(w, "stopRow")
  /\ report' = WithFileRow(JobOf(w))
  /\ GoTo(w, "stopStatus")
  /\ UNCHANGED <<scene, data, api, row, file, queue, manager, overlap, faults>>

\* Mutant of StopJob: the catch only reports.
StopJobReported(w) ==
  /\ At(w, "stopStatus")
  /\ Return(w)
  /\ UNCHANGED <<scene, data, api, row, report, file, manager, overlap, faults>>

StopJob(w) ==
  /\ At(w, "stopStatus")
  /\ row' = [row EXCEPT ![JobOf(w)].status = "FAILED"]
  /\ Return(w)
  /\ UNCHANGED <<scene, data, api, report, file, manager, overlap, faults>>

-----------------------------------------------------------------------------
(* Faults and everybody else *)

Fault == faults < scene.faults /\ faults' = faults + 1

(***************************************************************************)
(* The database fails a statement: inside run's try the catch takes over,  *)
(* a row's apply is reported as an error of the row, and anywhere else the *)
(* processor throws.                                                       *)
(***************************************************************************)
DatabaseFails(w) ==
  /\ Fault
  /\ \/ /\ work[w].pc \in {"plan", "fileRow", "fileStatus", "resume", "flush", "counters", "finish", "audit"}
        /\ Becomes(w, [work[w] EXCEPT !.pc = "stopRow"]) /\ UNCHANGED queue
     \/ /\ At(w, "opening") \/ (At(w, "row") /\ PlannedRow(work[w]).calls # <<>>)
        /\ Becomes(w, Caught(work[w])) /\ UNCHANGED queue
     \/ work[w].pc \in {"load", "mark", "stopRow", "stopStatus"} /\ Throw(w)
  /\ UNCHANGED <<scene, data, api, row, report, file, manager, overlap>>

WorkerCrash(w) ==
  /\ ~At(w, "idle") /\ Fault
  /\ Becomes(w, IdleWorker)
  /\ queue' = IF Holds(w) THEN [queue EXCEPT ![JobOf(w)].holder = {}] ELSE queue
  /\ UNCHANGED <<scene, data, api, row, report, file, manager, overlap>>

\* BullMQ takes a job without a lock back, so many times.
TakenBack(q) ==
  IF q.stalls < MaxStalls
  THEN [q EXCEPT !.state = "waiting", !.holder = {}, !.stalls = @ + 1]
  ELSE [q EXCEPT !.state = "failed", !.holder = {}]

Stalled(j) ==
  /\ queue[j].state = "active" /\ queue[j].holder = {}
  /\ queue' = [queue EXCEPT ![j] = TakenBack(@)]
  /\ UNCHANGED <<scene, data, api, row, report, file, work, manager, overlap, faults>>

\* The worker is alive but did not renew its lock in time.
LockLost(j) ==
  /\ queue[j].state = "active" /\ queue[j].holder # {} /\ Fault
  /\ queue' = [queue EXCEPT ![j] = TakenBack(@)]
  /\ UNCHANGED <<scene, data, api, row, report, file, work, manager, overlap>>

\* A credit sale or a stock movement.
Trade(k) ==
  /\ k \in scene.traded /\ shop[k].there /\ ~shop[k].used /\ ~Locked(k)
  /\ shop' = [shop EXCEPT ![k].used = TRUE]
  /\ UNCHANGED <<scene, openings, api, row, report, file, queue, work, manager, overlap, faults>>

\* Somebody enters the same customer or product on the screen.
Enter(k) ==
  /\ k \in scene.entered /\ ~shop[k].there
  /\ shop' = [shop EXCEPT ![k] = Entered]
  /\ UNCHANGED <<scene, openings, api, row, report, file, queue, work, manager, overlap, faults>>

\* The uploader is suspended or loses the role.
Dismiss ==
  /\ scene.dismissed /\ manager /\ manager' = FALSE
  /\ UNCHANGED <<scene, data, api, row, report, file, queue, work, overlap, faults>>

-----------------------------------------------------------------------------
Request(j) ==
  \/ QueueUpload(j) \/ ApplyDryRun(j) \/ Land(j) \/ Queued(j)
  \/ GiveUp(j) \/ CloseRow(j) \/ Explain(j) \/ ApiCrash(j)

Step(w) ==
  \/ LoadJob(w) \/ MarkProcessing(w) \/ PlanFile(w) \/ WriteFileRow(w) \/ FailFile(w)
  \/ Resume(w) \/ NoteRow(w) \/ CallCreate(w) \/ CallUpdate(w) \/ CallOpening(w)
  \/ RecordOpening(w)
  \/ InsertReport(w) \/ WriteCounters(w) \/ FinishJob(w) \/ Audit(w) \/ StopRow(w) \/ StopJob(w)

Next ==
  \/ \E j \in Job : Request(j) \/ Stalled(j) \/ LockLost(j)
  \/ \E w \in Worker : \/ \E j \in Job : Deliver(w, j)
                       \/ Step(w) \/ DatabaseFails(w) \/ WorkerCrash(w)
  \/ \E k \in Key : Trade(k) \/ Enter(k)
  \/ Dismiss

Spec == Init /\ [][Next]_vars

\* Workers go on and take what waits; the queue's stall check runs again and again.
FairSpec ==
  /\ Spec
  /\ \A w \in Worker : WF_vars(Step(w)) /\ WF_vars(\E j \in Job : Deliver(w, j))
  /\ \A j \in Job : WF_vars(Stalled(j))

-----------------------------------------------------------------------------
(* Properties *)

(***************************************************************************)
(* Types.  Also: a worker never holds back more than one batch of its      *)
(* report, and only the worker at work on a job holds its lock.            *)
(***************************************************************************)
TypeOK ==
  /\ shop \in [Key -> [there : BOOLEAN, value : Value, used : BOOLEAN]]
  /\ openings \in [Key -> Seq(Nat \ {0})]
  /\ row \in [Job -> [status : {"none", "PENDING", "PROCESSING", "COMPLETED", "PARTIAL_SUCCESS", "FAILED"},
                      counts : [Outcome -> Nat]]]
  /\ \A j \in Job : /\ queue[j].attempts \in 0..Attempts /\ queue[j].stalls \in 0..MaxStalls
                    /\ \A w \in queue[j].holder : queue[j].state = "active" => JobOf(w) = j
  /\ \A w \in Worker : Len(work[w].pending) <= Batch /\ work[w].at <= Len(work[w].plan)
  /\ faults \in 0..scene.faults

(***************************************************************************)
(* Whatever is delivered twice, runs twice at the same time or is planned  *)
(* against a shop that has moved on, whoever posts or trades between a     *)
(* posting's look and its write: an opening is recorded at most once, and  *)
(* never after the first sale or movement.                                 *)
(***************************************************************************)
OpeningsOnce ==
  [][\A k \in Key : openings'[k] # openings[k] => openings[k] = <<>> /\ ~shop[k].used]_vars

Real(j) == ~up[j].dryRun /\ up[j].mode = "UPSERT"

(***************************************************************************)
(* COMPLETED means imported: every row's customer or product is there, and *)
(* its opening is recorded as the file says, also when the run was cut     *)
(* short between the two calls of a row and began again.                   *)
(***************************************************************************)
CompletedLanded ==
  \A j \in DOMAIN up : Real(j) /\ row[j].status = "COMPLETED" =>
    \A n \in DOMAIN up[j].rows :
      LET r == up[j].rows[n] IN
      /\ shop[r.key].there
      /\ r.opening # 0 /\ up[j].kind # "PRODUCTS" => openings[r.key] = <<r.opening>>

(***************************************************************************)
(* The report of a job that ran to its end names every row once and its    *)
(* counters count it, across redeliveries, where no two workers ran the    *)
(* job at the same time.                                                   *)
(***************************************************************************)
ReportTellsAll ==
  \A j \in DOMAIN up : row[j].status \in {"COMPLETED", "PARTIAL_SUCCESS"} /\ j \notin overlap =>
    LET named(n) == SelectSeq(report[j], LAMBDA x : x.row = n)
        told(o) == SelectSeq(report[j], LAMBDA x : x.row > 0 /\ x.outcome = o)
    IN  /\ \A n \in DOMAIN up[j].rows : Len(named(n)) = 1
        /\ \A o \in Outcome : row[j].counts[o] = Len(told(o))

(***************************************************************************)
(* "A second job with the same file finds every row UNCHANGED": the plan   *)
(* of a file that another job imported has nothing to create and no error, *)
(* and updates only what the screens changed since.                        *)
(***************************************************************************)
RerunIsQuiet ==
  [][\A w \in Worker : \A j \in DOMAIN up :
       (/\ At(w, "plan") /\ work'[w].pc = "resume"
        /\ Real(j) /\ row[j].status = "COMPLETED"
        /\ up[j].rows = UpOf(w).rows /\ up[j].kind = UpOf(w).kind) =>
         \A n \in DOMAIN UpOf(w).rows :
           LET r == UpOf(w).rows[n] IN
           \/ work'[w].plan[n].act \in {"UNCHANGED", "SKIP"}
           \/ work'[w].plan[n].act = "UPDATE" /\ shop[r.key].value # r.value]_vars

(***************************************************************************)
(* Every job whose upload was answered ends: a worker that dies, loses its *)
(* lock or loses the database leaves no job PENDING or PROCESSING, as long *)
(* as the queue has redeliveries left.                                     *)
(***************************************************************************)
EveryJobEnds ==
  \A j \in Job : api[j] = "answered" ~> Finished(row[j].status)

(***************************************************************************)
(* What a finished job says is so: COMPLETED rows are in the shop, and the *)
(* report and its counters tell of every row.                              *)
(***************************************************************************)
JobsSound == TypeOK /\ CompletedLanded /\ ReportTellsAll
=============================================================================
