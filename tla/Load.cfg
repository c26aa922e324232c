SPECIFICATION Spec
CONSTANTS
  Word = 16
  Gib = 2
  HashBytes = 3
  MaxName = 70
  MaxGigabytes = 17
  NotANumber = NotANumber
  ByteOrder <- MCByteOrder
  Inputs <- MCInputs
INVARIANTS LoadsExactlyTorrents HashOfFile HashPadded FilesTile CacheSizeKept
CHECK_DEADLOCK FALSE
