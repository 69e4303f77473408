\* Two import jobs, two workers, one fault.
SPECIFICATION FairSpec
CONSTANTS
  j1 = j1
  j2 = j2
  k1 = k1
  k2 = k2
  Job = {j1, j2}
  NoJob = NoJob
  Worker = {w1, w2}
  Key = {k1, k2}
  Value = {0, 1}
  Scenes <- All
  Batch = 1
  Attempts = 2
  MaxStalls = 1
\* The shop rests once its imports are done.
CHECK_DEADLOCK FALSE
INVARIANT JobsSound
PROPERTIES OpeningsOnce RerunIsQuiet EveryJobEnds
