CONSTANTS
  Tracees = {1, 2, 3}
  Keys = {k1}
  Messages <- MCMessages
  RcvArgs <- MCRcvArgs
  MaxQueues = 1
  MaxSends = 1
  MaxRemovals = 1
  MaxKills = 0
SPECIFICATION Spec
CHECK_DEADLOCK FALSE
INVARIANT RetryQueueValid
