SPECIFICATION FairSpec
CONSTANTS
  Child = child
  Parent = parent
  NoHandle = NoHandle
  ThreadModes = {TRUE, FALSE}
INVARIANTS
  WokenOnceOnOneThread
  FrameSafe
  ExceptionKeptOnOneThread
PROPERTIES
  ParentWoken
  FrameReclaimedOnOneThread
CHECK_DEADLOCK FALSE
