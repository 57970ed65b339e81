SPECIFICATION FairSpec
CONSTANTS
  Request = request
  Body = body
  Job = job
  NoHandle = NoHandle
  Timed = TRUE
  OutlivesWait = TRUE
INVARIANTS AnswerIsOutcome PromiseOutlivesUsers GoneIsNotNotified
PROPERTIES TimedWaitEnds Reclaimed
CHECK_DEADLOCK FALSE
