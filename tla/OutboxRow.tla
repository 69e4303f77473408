----------------------------- MODULE OutboxRow -----------------------------
(***************************************************************************)
(* The statements OutboxClaimService and OutboxReaperService run on one    *)
(* OutboxEvent row, as functions from a row to a row.  A statement whose   *)
(* WHERE clause does not match leaves the row as it is.                    *)
(*                                                                         *)
(* Of a row the model keeps its status, its retryCount (which names the    *)
(* current claim: it is part of the job id) and whether the claim is older *)
(* than EVENTS_OUTBOX_STALE_CLAIM_MS.  nextAttemptAt only delays a claim,  *)
(* so it is left to the choice of which PENDING rows a claim takes.        *)
(***************************************************************************)
EXTENDS Naturals

CONSTANT MaxRetries     \* EVENTS_OUTBOX_MAX_RETRIES, 1..50 in the configuration

ASSUME MaxRetriesAssumption == MaxRetries \in Nat \ {0}

Status == {"ABSENT", "PENDING", "CLAIMED", "PROCESSING", "DONE", "FAILED"}

\* PROCESSING is written by no current code; rows of an older release carry it.
ClaimedStatuses == {"CLAIMED", "PROCESSING"}

RowType == [status : Status, retryCount : Nat, stale : BOOLEAN]

NoRow == [status |-> "ABSENT", retryCount |-> 0, stale |-> FALSE]

LegacyRow == [status |-> "PROCESSING", retryCount |-> 0, stale |-> FALSE]

\* A row as the transaction that stages an event inserts it.
NewRow == [status |-> "PENDING", retryCount |-> 0, stale |-> FALSE]

IsClaimed(row) == row.status \in ClaimedStatuses

\* Mutant of SettleWhere: any row still under the claim's number, DONE rows included.
SettleWhereAnyStatus(row, claim) == row.retryCount = claim

\* Mutant of SettleWhere: whichever claim holds the row.
SettleWhereAnyClaim(row, claim) == IsClaimed(row)

(***************************************************************************)
(* settleWhere: only a row still claimed, and only under the claim the     *)
(* caller's job was enqueued for.                                          *)
(***************************************************************************)
SettleWhere(row, claim) == IsClaimed(row) /\ row.retryCount = claim

MoveTo(row, status, retryCount) ==
  [status |-> status, retryCount |-> retryCount, stale |-> FALSE]

ClaimRow(row) ==
  IF row.status = "PENDING" THEN MoveTo(row, "CLAIMED", row.retryCount) ELSE row

\* Mutant of ReleaseRow: the UPDATE by id alone.
ReleaseRowById(row) == MoveTo(row, "PENDING", row.retryCount)

ReleaseRow(row) ==
  IF row.status = "CLAIMED" THEN MoveTo(row, "PENDING", row.retryCount) ELSE row

MarkDone(row, claim) ==
  IF SettleWhere(row, claim) THEN MoveTo(row, "DONE", row.retryCount) ELSE row

MarkFailed(row, claim) ==
  IF SettleWhere(row, claim) THEN MoveTo(row, "FAILED", row.retryCount + 1) ELSE row

RetryFailed(row) ==
  IF row.status = "FAILED" THEN MoveTo(row, "PENDING", row.retryCount + 1) ELSE row

\* Mutant of Exhausted: off by one.
ExhaustedLate(retryCount) == retryCount + 1 > MaxRetries

\* Whether the attempt after the one numbered retryCount is past the budget.
Exhausted(retryCount) == retryCount + 1 >= MaxRetries

(***************************************************************************)
(* The second statement of scheduleRetry, guarded by the retryCount its    *)
(* first statement read.                                                   *)
(***************************************************************************)
ScheduleRetry(row, claim) ==
  IF ~SettleWhere(row, claim) THEN row
  ELSE IF Exhausted(claim) THEN MoveTo(row, "FAILED", row.retryCount + 1)
  ELSE MoveTo(row, "PENDING", claim + 1)

\* The reaper's UPDATE of the rows whose retries are spent.
ReapFailed(row) ==
  IF IsClaimed(row) THEN MoveTo(row, "FAILED", row.retryCount + 1) ELSE row

\* Mutant of ReapBack: the retryCount goes down.
ReapBackDown(row, read) ==
  IF IsClaimed(row) THEN MoveTo(row, "PENDING", read - 1) ELSE row

(***************************************************************************)
(* The reaper's UPDATE that hands a stale claim back.  The new retryCount  *)
(* is computed from the one its SELECT read; the WHERE clause checks the   *)
(* status alone.                                                           *)
(***************************************************************************)
ReapBack(row, read) ==
  IF IsClaimed(row) THEN MoveTo(row, "PENDING", read + 1) ELSE row
=============================================================================
