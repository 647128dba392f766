SPECIFICATION Spec
CONSTANTS
  k1 = k1
  k2 = k2
  w1 = w1
  w2 = w2
  Keys = {k1}
  Workers = {w1, w2}
  NoWorker = NoWorker
  MAX_ATTEMPTS = 3
  Fenced = FALSE
  ClaimLimit = 2
PROPERTIES
  StaleWriterChangesNothing
CHECK_DEADLOCK FALSE
