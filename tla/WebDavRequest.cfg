SPECIFICATION FairSpec
CONSTANTS
  None = None
  Open = Open
  Methods = {"OPTIONS", "PROPFIND", "GET", "HEAD", "DELETE"}
  Sizes = {0, 1, 5}
  Numbers <- MCNumbers
  ChunkSize = 2
  MaxAttempts = 2
INVARIANTS RangeHonoured PromiseKept
PROPERTIES RequestEnds
