SPECIFICATION Spec
CONSTANTS
  None = None
  Hole = Hole
  f1 = f1
  f2 = f2
  f3 = f3
  Files = {f1}
  Size <- MCSize
  FileName <- OwnFileName
  PartName <- OwnPartName
  EvictName <- OwnEvictName
  Readers = {r1}
  Workers = {w1}
  MaxBytes = 2
  MaxAttempts = 1
  MaxBody = 2
  WebSeedEnabled = TRUE
  SeedSendsWhole = FALSE
  DiskFills = FALSE
  FlakyFs = FALSE
INVARIANTS PayloadComplete
