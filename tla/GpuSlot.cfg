CONSTANTS
  Runs = {r1, r2, r3}
  NoRun = NoRun
  MaxRecords = 4
SPECIFICATION SlotFairSpec
INVARIANTS
  SlotTypeOK
  OneHolder
  QueueFileIsTruthful
PROPERTIES
  FirstComeFirstServed
  NobodyHangs
  ImplementsContract
CHECK_DEADLOCK FALSE
