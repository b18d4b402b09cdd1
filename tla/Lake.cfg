CONSTANTS
  Datasets = {ohlcv}
  Exporters = {e1, e2}
  Pairs = {p}
  FirstRows <- Tables
  a = a
  Values = {a, b}
  Empty = Empty
  Garbled = Garbled
  NoVersion = NoVersion
  LastDay = 2
  MaxRev = 2
  MaxExports = 3
  MaxEvents = 3
SPECIFICATION LakeSpec
SYMMETRY Interchangeable
INVARIANTS
  LakeTypeOK
  SoloVersionsStayIntact
  ServedRowsAreSourceRows
PROPERTIES
  PublishedNeverChanges
  IncrementalLosesNothing
  SoloExportIsReadNext
CHECK_DEADLOCK FALSE
