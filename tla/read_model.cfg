SPECIFICATION Spec
CONSTANTS
  t1 = t1
  t2 = t2
  t3 = t3
  m1 = m1
  Tasks = {t1, t2, t3}
  Settling = {t1}
  Hashes = {m1}
  ManifestOf <- MCManifestOf
  Nothing = Nothing
  Confirmations = 1
  BatchSize = 2
  NodeLag = 1
  maxAttempts = 2
  MAX_ATTEMPTS = 3
  MaxBlocks = 4
  MaxDrift = 1
  MaxSyncs = 2
  MaxWork = 3
SYMMETRY Symmetric
INVARIANTS
  RowsAreSound
  LedgerIsAReading
  NeverWedged
PROPERTIES
  VerifiedStays
CHECK_DEADLOCK FALSE
