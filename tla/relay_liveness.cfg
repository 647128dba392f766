SPECIFICATION LivenessSpecification
CONSTANTS
  creator = creator
  v1 = v1
  v2 = v2
  operator = operator
  NoAccount = NoAccount
  Accounts = {creator, v1, v2, operator}
  InitialAdmin = operator
  InitialKeeper = operator
  InitialAdjudicator = operator
  MinWindow = 1
  MaxWindow = 2
  MaxDisputeWindow = 2
  MinVerifiers = 2
  MaxVerifiers = 16
  ConflictRateBps = 5000
  ChallengeBondBps = 1000
  ChallengerRewardBps = 1000
  AdjudicatorSplitBps = 5000
  MinBounty = 1
  MinVerifierStake = 0
  KeeperGracePeriod = 1
  AdjudicationWindow = 1
  Uint32Size = 1000
  Uint96Size = 1000
  Creators = {creator}
  Registrants = {v1, v2}
  TaskSpecs <- OneSpec
  Bounties = {45}
  Stakes = {0}
  RewardRates = {0, 10000}
  MaxNonce = 1
  MaxTime = 9
  MaxBalance = 3
  LastClassification = 5
PROPERTIES
  EveryTaskSettles
  EveryoneIsPaid
CHECK_DEADLOCK FALSE
