CONSTANTS
  Runs = {r1}
  NoRun = NoRun
  NoOne = NoOne
  MaxRecords = 2
  LateInference = FALSE
  BrokenAnswers = FALSE
SPECIFICATION NightSpec
INVARIANT LateStopIsCaught
CHECK_DEADLOCK FALSE
