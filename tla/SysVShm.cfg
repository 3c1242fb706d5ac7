CONSTANTS
  Tracees = {1, 2, 3}
  Procs = {"parent", "child"}
  ProcOf <- MCProcOf
  Newborn = {3}
  Attachers = {1, 2}
  MaxShms = 1
  MaxRemovals = 1
  MaxMaps = 2
  MaxKills = 1
SPECIFICATION Spec
CHECK_DEADLOCK FALSE
INVARIANTS SegmentsAreKept ShmWaitsCoherent
