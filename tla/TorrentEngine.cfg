SPECIFICATION Spec
CONSTANTS
  None = None
  f1 = f1
  f2 = f2
  Files = {f1, f2}
  Size <- MCSize
  Index <- MCIndex
  PieceLength = 9
  InitialWindow = 4
  ReadAhead = 9
  MaxBlock = 10
  Byte = 8
  Cuts = {3, 5, 17}
  Reads <- MCReads
  MaxPushes = 3
  Threads = {t1, t2}
SYMMETRY Symmetry
INVARIANTS QueueAccounted AskedInOrder BlockInFile WireDecodes
CHECK_DEADLOCK FALSE
