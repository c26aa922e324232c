SPECIFICATION Spec
CONSTANTS
  NoEntry = NoEntry
  Torrents <- MCTorrents
  BaseUrls <- MCBaseUrls
INVARIANTS TreeComplete LookupAgrees SafeNamesResolve FirstNamesResolve ListedHrefsResolve SeedAskedForFile
CHECK_DEADLOCK FALSE
