SPECIFICATION ServicesSpec
CONSTANTS
  wa = wa
  wb = wb
  Wallets = {wa, wb}
  NoWallet = NoWallet
  ChallengeSlots = {1, 2}
  NonceTtl = 1
  SessionTtl = 1
  AuthRetain = 0
  MaxNonces = 2
  MaxClock = 2
  Grants = {1, 2, 3}
  Beneficiary <- MCBeneficiary
  Nobody = 0
  maxPerAddress = 1
  maxTotal = 2
  MaxFaults = 1
  MaxSources = 2
  MaxRedirects = 1
  AllowPrivate = FALSE
  Pages <- MCPages
  Finds <- MCFinds
  MaxFinds = 2
  Claims = {1, 2}
  Sentences <- MCSentences
  Status <- MCStatus
  Scorings <- MCScorings
  Rows <- MCRows
  FactsOf <- MCFactsOf
  SpanFacts <- MCSpanFacts
  Depths = {2, 4}
  supportThreshold = 5
  maxAttempts = 2
  PinnedServes = FALSE
  ManifestClaims = {1, 2}
  requiredAgreement = 2
  minimumConfidence = 55
  minimumEvidenceCoverage = 80
  minimumEvidenceOverlap = 50
  Panels <- MCPanels
  DisputePanels <- MCDisputePanels
  Challengers = {0, 3}
  NamedClaims = {1, 2, 3}
  MaxTicksFailed = 1
  Ids = {1, 2, 3}
  Times = {0, 2, 3}
  Displays = {1, 2}
  Limits = {1}
  MaxWrites = 4
  Verifiers = {1}
  verifierCount = 1
  NoOne = 0
  MaxLogs = 6
  MaxFailures = 1
  MaxSyncs = 1
  RoleFile = ".env.adjudicator"
  FirstKey = 1
  OtherKeys = {2}
  NoKey = 0
  NoRun = NoRun
  MaxEdits = 2
  Requests = {1}
  MaxPasses = 4
  Accounts = {wa, wb}
  NoAccount = NoAccount
  Writes = {"createTask", "claimReward"}
  MaxClicks = 2
  MaxTurns = 1
  Reporters = {1, 2}
  Bodies = {"good", "another task"}
  Evaluators = {1, 2}
  MaxInstants = 3
  MaxEvaluations = 2
  SharedTasks = {1}
  Visitors = {1, 2}
  NoRating = NoRating
  Renumberings <- MCRenumberings
  reportsPerTask = 1
  MAX_ENTRIES = 1
  TTL = 0
  MaxMinutes = 1
  MaxBuilds = 2
  Senders = {1, 2}
  ReadAttempts = 2
  MIN_PRIORITY_FEE = 2
  SuggestedTips = {0, 3}
  MaxBlips = 2
  MaxSends = 2
INVARIANTS
  GrantedToItsOwner
  EvidenceIsFair
  VerdictsAreWeighed
  DissentDoesNotUphold
  ShownIsTrue
  ToldIsTrue
  OneHashPerEvidence
  NeverLostToItself
  NothingAfterPoolEnd
PROPERTIES
  RolesStayHeld
CHECK_DEADLOCK FALSE
