CONSTANTS
  Procs = {1, 2, 3}
  Calls <- MCCalls
  Signaled = {3}
SPECIFICATION Spec
CHECK_DEADLOCK FALSE
INVARIANT FreedIsRestarted
