SPECIFICATION LiveSpec
CONSTANTS
  k1 = k1
  k2 = k2
  w1 = w1
  w2 = w2
  c1 = c1
  c2 = c2
  c3 = c3
  Keys = {k1, k2}
  Workers = {w1, w2}
  NoWorker = NoWorker
  MAX_ATTEMPTS = 3
  Fenced = FALSE
  ClaimLimit = 2
  CommitDeadline = 2
  RevealDeadline = 5
  Skew = 1
  DiskFails = FALSE
  MaxBuilds = 3
  MaxOutages = 3
  Clients = {c1, c2, c3}
  Asks <- MCAsks
  NoClient = NoClient
  InFlight = 1
  Retain = 3
  SlowHandlers = TRUE
  MaxLosses = 2
  Calls = {1}
  Attempts = 2
  Real = Real
  MaxCrashes = 1
  Operators = {1, 2}
  MinStake = 1
  OnlineWindow = 1
  DegradedWindow = 2
  LookupLimit = 1
  MaxBlocks = 5
  Jobs = {1, 2}
  Reward = 1
  Floor = 2
  Lookback = 2
  DisputeWindow = 0
  MaxHead = 4
  MaxFailures = 1
  Overdue = {1, 2, 3, 4}
  StageOf <- MCStageOf
  DueAt <- MCDueAt
  Classified = {}
  Grace = 1
  MaxTxPerTick = 1
  MaxTime = 3
  MaxThrows = 1
INVARIANTS
  QueueSound
  CommitmentIsKept
  OneAnswerUnlessLost
  DirectoryCatchesUp
PROPERTIES
  EveryJobEnds
  CommitmentIsRevealed
  EveryClientHears
  EveryCallEnds
  RewardsAreCollected
  NobodyLeftBehind
CHECK_DEADLOCK FALSE
