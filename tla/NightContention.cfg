CONSTANTS
  Runs = {r1, r2}
  NoRun = NoRun
  NoOne = NoOne
  MaxRecords = 2
  LateInference = FALSE
  BrokenAnswers = FALSE
SPECIFICATION NightSpec
INVARIANT TrainingHasTheCard
SYMMETRY Symmetry
CHECK_DEADLOCK FALSE
