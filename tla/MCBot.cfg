SPECIFICATION BotFairSpec
CONSTANTS
  Readies = {d1, d2, d3}
  Interactions = {j1, j2}
  Names <- MCNames
  AtOnceModes = {TRUE, FALSE}
INVARIANTS
  RegisteredOnceInTurn
PROPERTY
  ReadyRegisters
CHECK_DEADLOCK FALSE
