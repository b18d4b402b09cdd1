CONSTANTS
  Calls = {c1, c2}
  Predicts = {p1}
  NoOne = NoOne
SPECIFICATION Spec
INVARIANT StoppedIsUnloaded
CHECK_DEADLOCK FALSE
