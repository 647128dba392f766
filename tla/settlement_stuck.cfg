SPECIFICATION FairSpec
CONSTANTS
  v1 = v1
  v2 = v2
  Verifiers = {v1, v2}
  RevealDeadline = 0
  Grace = 1
  MaxTime = 2
  MaxOutages = 0
  NodesLag = FALSE
  Api = Api
  Absent = Absent
  Keys = {"evaluate", "finalize"}
  Workers = {Api}
  NoWorker = NoWorker
  MAX_ATTEMPTS = 2
  Fenced = FALSE
PROPERTIES
  IncompleteIsRecomputed
CHECK_DEADLOCK FALSE
