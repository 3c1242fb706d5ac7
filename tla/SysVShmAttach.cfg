CONSTANTS
  Tracees = {1, 2}
  Procs = {"parent", "child"}
  ProcOf <- MCProcOf
  Newborn = {}
  Attachers = {1, 2}
  MaxShms = 2
  MaxRemovals = 0
  MaxMaps = 1
  MaxKills = 0
SPECIFICATION Spec
CHECK_DEADLOCK FALSE
INVARIANT AttachesOwnSegment
