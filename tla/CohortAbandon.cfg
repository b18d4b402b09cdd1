CONSTANTS
  Candidates = {k1, k2}
  Jobs = {j1, j2}
  NoJob = NoJob
  Payloads = {p1, p2}
  MaxChanges = 1
SPECIFICATION CohortSpec
INVARIANT AbandonUnblocks
CHECK_DEADLOCK FALSE
