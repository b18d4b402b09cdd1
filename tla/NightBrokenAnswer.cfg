CONSTANTS
  Runs = {r1}
  NoRun = NoRun
  NoOne = NoOne
  MaxRecords = 2
  LateInference = FALSE
  BrokenAnswers = TRUE
SPECIFICATION NightSpec
INVARIANT StopOwesRestore
CHECK_DEADLOCK FALSE
