SPECIFICATION FairSpec
CONSTANTS
  None = None
  Hole = Hole
  f1 = f1
  f2 = f2
  f3 = f3
  Files = {f2}
  Size <- MCSize
  FileName <- OwnFileName
  PartName <- OwnPartName
  EvictName <- OwnEvictName
  Readers = {r1, r2}
  Workers = {w1}
  MaxBytes = 2
  MaxAttempts = 2
  MaxBody = 1
  WebSeedEnabled = TRUE
  SeedSendsWhole = FALSE
  DiskFills = TRUE
  FlakyFs = TRUE
INVARIANTS TypeOK InFlightOwned
PROPERTIES StableWhileOpen ImplementsStore ClaimReleased ReadAnswered
