CONSTANTS
  Runners = {r1, r2, r3}
  NoRunner = NoRunner
  NoFile = NoFile
  Unreadable = Unreadable
SPECIFICATION ClaimFairSpec
INVARIANTS
  ClaimTypeOK
  OneWriter
PROPERTIES
  NoTheft
  HalfWrittenIsReclaimed
  ImplementsContract
CHECK_DEADLOCK FALSE
