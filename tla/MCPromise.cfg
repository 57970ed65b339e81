SPECIFICATION FairSpec
CONSTANTS
  Setters = {s1, s2}
  Coroutines = {c1, c2}
  NotifyModes = {TRUE, FALSE}
  SerialSet = TRUE
  SerialAwait = TRUE
  NoHandle = NoHandle
INVARIANTS
  ResumedOnlyWhenSuspended
  ReadsOnlyPublished
  SetterOutlived
PROPERTIES
  AwaiterWoken
  ImplementsFuture
