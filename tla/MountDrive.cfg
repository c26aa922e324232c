SPECIFICATION Spec
CONSTANTS
  FileCount = 2
  MaxCallbacks = 2
INVARIANTS DriveIsProjected
