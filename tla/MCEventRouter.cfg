SPECIFICATION FairSpec
CONSTANTS
  e1 = e1
  e2 = e2
  Events = {e1, e2}
  Awaiters = {a1}
  MaxHandle = 2
  Predicates <- MCPredicates
  EarlyCancel = FALSE
  NoEvent = NoEvent
INVARIANTS
  CalledInOrder
  EventOutlivesUsers
  ResumedOnlyWhenSuspended
  SuspendedIsHeld
  DestroyedIsUnused
PROPERTIES
  DispatchEnds
  DestructorEnds
CHECK_DEADLOCK FALSE
