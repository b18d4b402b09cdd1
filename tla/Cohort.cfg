CONSTANTS
  Candidates = {k1, k2}
  Jobs = {j1, j2, j3, j4}
  NoJob = NoJob
  Payloads = {p1, p2}
  MaxChanges = 1
SPECIFICATION MCCohortSpec
INVARIANTS
  CohortTypeOK
  EvidenceFirst
  DoneMeansRegistered
  ReadyMembersAgree
  VerdictIsPopulation
  FinalizeIsRepeatable
  FaceIsVerdict
SYMMETRY Symmetry
CHECK_DEADLOCK FALSE
