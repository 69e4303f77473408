\* One event, two workers that may both hold its job, a sweep and operators.
SPECIFICATION Spec
CONSTANTS
  Event = {e1}
  Worker = {w1, w2}
  MaxRetries = 2
  MaxOperatorRetries = 1
SYMMETRY Symmetry
INVARIANTS DoneDelivered OneLetterPerFailure
\* The pipeline rests once every event is settled and no job is left.
CHECK_DEADLOCK FALSE
