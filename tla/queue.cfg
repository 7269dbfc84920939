SPECIFICATION FairSpec
CONSTANTS
  Submitters = {s1,s2,s3}
  Workers = {w1,w2}
  NoJob = NoJob
  Panics = TRUE
  Leaves = TRUE
CHECK_DEADLOCK FALSE
INVARIANTS DepthExact RunsOnce
PROPERTIES EverySubmitReturns RefusedWhenClosed
