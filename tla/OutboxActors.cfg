\* One event, two relays of which one may be late, two workers, a sweep and an operator.
SPECIFICATION Spec
CONSTANTS
  Row = {r1}
  Relay = {p1, p2}
  Worker = {w1, w2}
  Reaper = {s1}
  NoWorker = NoWorker
  MaxRetries = 1
  MaxAttempts = 1
  MaxOperatorRetries = 1
SYMMETRY Symmetry
INVARIANTS EffectsOnce DoneMeansHandled
PROPERTY DoneIsFinal
\* The pipeline rests once every event is settled and no job is left.
CHECK_DEADLOCK FALSE
