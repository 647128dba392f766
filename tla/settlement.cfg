SPECIFICATION FairSpec
CONSTANTS
  v1 = v1
  v2 = v2
  Verifiers = {v1, v2}
  RevealDeadline = 0
  Grace = 1
  MaxTime = 2
  MaxOutages = 1
  NodesLag = TRUE
  Api = Api
  Absent = Absent
  Keys = {"evaluate", "finalize"}
  Workers = {Api}
  NoWorker = NoWorker
  MAX_ATTEMPTS = 2
  Fenced = FALSE
INVARIANTS
  NothingReadIsIgnored
  JobsAreBacked
PROPERTIES
  ClassifiedOrStranded
CHECK_DEADLOCK FALSE
