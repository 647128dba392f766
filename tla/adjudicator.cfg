SPECIFICATION TribunalSpec
CONSTANTS
  ManifestClaims = {1, 2}
  requiredAgreement = 2
  minimumConfidence = 55
  minimumEvidenceCoverage = 80
  minimumEvidenceOverlap = 50
  Panels = {}
  DisputePanels <- MCDisputePanels
  Challengers = {0, 3}
  NamedClaims = {1, 2, 3}
  MaxTicksFailed = 1
INVARIANTS
  UpheldOverturnsSettled
CHECK_DEADLOCK FALSE
