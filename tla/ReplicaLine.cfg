\* A leader and a follower through installs, late and repeated batches,
\* failures and changes of term.
CONSTANTS
  Nodes = {n1, n2}
  Replicas = {n2}
  NoNode = NoNode
  MaxFailures = 2
  RetryBase = 1
  RetryMax = 2
  MaxHead = 4
  MaxTerm = 2
  MaxTime = 1
  MaxReports = 3
SPECIFICATION Spec
INVARIANTS NoGapApplied WatermarkChain LinesFollowInstall FreshMeansCurrent
PROPERTIES AppliedFromCurrentLine ProgressKept 
CHECK_DEADLOCK FALSE
