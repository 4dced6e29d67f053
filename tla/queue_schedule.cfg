SPECIFICATION Spec
CONSTANTS
  c1 = c1 c2 = c2 c3 = c3 k1 = k1 k2 = k2 w1 = w1 w2 = w2
  Cids = {c1, c2}
  Callers = {k1, k2}
  Slots = {w1}
  Paths <- P1
  Batches <- ScheduleBatches
  MaxBatches = 2
  MaxBumps = 3
  StartFiles = {NoFile}
  Calls <- ScheduleCalls
  Faults = {}
  Folders <- MCFolders
  FolderOf <- MCFolderOf
  MovedTo <- MCMovedTo
  NoFile = NoFile
  Torn = Torn
  NoPath = NoPath
  NoOne = NoOne
SYMMETRY Everyone
CHECK_DEADLOCK FALSE
INVARIANTS
  TypeOK
  NobodyOversleeps
  JobsHaveWorkers
PROPERTIES
  CancelSticks
  PreemptedNotFailed
