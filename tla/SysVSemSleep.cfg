CONSTANTS
  NumTracees = 3
  Keys = {k1}
  Sops <- MCSops
  SetVals = {1, 3}
  SetSizes = {2}
  MaxSets = 1
  MaxVal = 2
  MaxRemovals = 1
  MaxKills = 0
SPECIFICATION Spec
CHECK_DEADLOCK FALSE
INVARIANT SleepersBlocked
