SPECIFICATION Spec
CONSTANTS
  o1 = o1
  o2 = o2
  o3 = o3
  i1 = i1
  i2 = i2
  Objects <- MCObjects
  Ids <- MCIds
  IdOf <- MCIdOf
  Threads = {t1, t2}
  NoObject = NoObject
  Grace = 2
  StaleStores = FALSE
  StaleRemoves = FALSE
INVARIANTS
  CachedNotQueued
  HeldAlive
PROPERTIES
  ImplementsLifecycle
CHECK_DEADLOCK FALSE
