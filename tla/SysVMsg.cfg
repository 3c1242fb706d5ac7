CONSTANTS
  Tracees = {1, 2, 3}
  Keys = {k1}
  Messages <- MCMessages
  RcvArgs <- MCRcvArgs
  MaxQueues = 1
  MaxSends = 2
  MaxRemovals = 1
  MaxKills = 1
SPECIFICATION Spec
CHECK_DEADLOCK FALSE
INVARIANTS TypeOK WaitsCoherent WaitAssertsHold StatsAgree Delivered
