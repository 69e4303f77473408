\* One event and one of every actor, with the crons' and the clock's fairness.
SPECIFICATION FairSpec
CONSTANTS
  Row = {r1}
  Relay = {p1}
  Worker = {w1}
  Reaper = {s1}
  NoWorker = NoWorker
  MaxRetries = 2
  MaxAttempts = 2
  MaxOperatorRetries = 0
INVARIANTS TypeOK RetryBudget
PROPERTIES EventuallySettled KeepsContract
\* The pipeline rests once every event is settled and no job is left.
CHECK_DEADLOCK FALSE
