CONSTANTS
  Calls = {c1, c2}
  Predicts = {p1, p2}
  NoOne = NoOne
SPECIFICATION FairSpec
INVARIANTS
  TypeOK
  SingleFlight
  ServingWhenIdle
PROPERTIES
  StopCompletes
  LateStopIsLogged
  ImplementsContract
CHECK_DEADLOCK FALSE
