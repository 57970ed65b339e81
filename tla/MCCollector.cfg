SPECIFICATION FairSpec
CONSTANTS
  Dispatches = {d1, d2, d3}
  DestroyEarly = FALSE
INVARIANTS ListIsStable HandedWhole SafeOnTimerThread StoppedIsCompleted
PROPERTIES Completes
CHECK_DEADLOCK FALSE
