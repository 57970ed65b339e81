SPECIFICATION FairSpec
CONSTANTS
  Request = request
  Body = body
  Job = job
  NoHandle = NoHandle
  Timed = FALSE
  OutlivesWait = TRUE
PROPERTIES ReturnsOnceSettled
CHECK_DEADLOCK FALSE
