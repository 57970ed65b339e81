SPECIFICATION FairSpec
CONSTANTS
  N = 3
  Cancellable <- MCCancellable
  NoIndex = 99
  ThreadModes = {TRUE, FALSE}
INVARIANTS
  ResumedOnlyWhenSuspended
  ResultOfFirstOnOneThread
PROPERTIES
  ResultStaysOnOneThread
  OwnerWoken
CHECK_DEADLOCK FALSE
