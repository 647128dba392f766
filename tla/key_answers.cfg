SPECIFICATION IdemSpec
CONSTANTS
  c1 = c1
  c2 = c2
  c3 = c3
  Clients = {c1, c2, c3}
  Asks <- MCAsks
  NoClient = NoClient
  InFlight = 1
  Retain = 3
  SlowHandlers = FALSE
  MaxLosses = 1
INVARIANTS
  AnswersTheQuestion
CHECK_DEADLOCK FALSE
