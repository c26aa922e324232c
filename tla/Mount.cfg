SPECIFICATION FairSpec
CONSTANTS
  FileCount = 2
  MaxCallbacks = 2
INVARIANTS ServedFromLiveSession NothingLeftServing  PayloadKept
PROPERTIES TeardownEnds
