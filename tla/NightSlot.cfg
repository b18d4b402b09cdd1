CONSTANTS
  Runs = {r1, r2}
  NoRun = NoRun
  NoOne = NoOne
  MaxRecords = 2
  LateInference = FALSE
  BrokenAnswers = FALSE
SPECIFICATION NightSpec
INVARIANTS
  NightTypeOK
  OneTraining
  StopOwesRestore
  OnlyARestoreIntrudes
  RestoredInTheMorning
SYMMETRY Symmetry
CHECK_DEADLOCK FALSE
