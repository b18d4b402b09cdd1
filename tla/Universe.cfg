CONSTANTS
  q = q
  Pairs = {p, q}
  NoPair = NoPair
  Len = 3
  FetchLimit = 1
  ListedAt <- Listings
  EndsAt <- Boundaries
  Unavailable = {q}
  Offers <- Bars
  MaxChunks = 3
  MaxFaults = 1
  StallLimit = 2
  Gates = {g1, g2}
  MissingPercent = 40
  BucketWidth = 2
  MaxGates = 2
  Seedable = {p}
SPECIFICATION UniverseSpec
INVARIANTS
  UniverseTypeOK
  CursorNeverPassesRows
  ReportsAreTrue
  ExportedPairsAreBacked
PROPERTIES
  ScriptEnds
CHECK_DEADLOCK FALSE
