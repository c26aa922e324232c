SPECIFICATION Spec
CONSTANTS
  None = None
  Hole = Hole
  f1 = f1
  f2 = f2
  f3 = f3
  Files = {f1, f2, f3}
  Size <- MCSize
  FileName <- SharedFileName
  PartName <- SharedPartName
  EvictName <- OwnEvictName
  Readers = {r1}
  Workers = {w1, w2}
  MaxBytes = 0
  MaxAttempts = 1
  MaxBody = 2
  WebSeedEnabled = TRUE
  SeedSendsWhole = TRUE
  DiskFills = FALSE
  FlakyFs = FALSE
SYMMETRY Symmetry
INVARIANTS PayloadBelongs PayloadComplete
