SPECIFICATION Spec
CONSTANTS
  c1 = c1 c2 = c2 c3 = c3 k1 = k1 k2 = k2 w1 = w1 w2 = w2
  Cids = {c1, c2, c3}
  Callers = {k1, k2}
  Slots = {w1, w2}
  Paths <- P4
  Batches <- FolderBatches
  MaxBatches = 2
  MaxBumps = 2
  StartFiles = {NoFile}
  Calls <- FolderCalls
  Faults = {"copy"}
  Folders <- MCFolders
  FolderOf <- MCFolderOf
  MovedTo <- MCMovedTo
  NoFile = NoFile
  Torn = Torn
  NoPath = NoPath
  NoOne = NoOne
SYMMETRY Everyone
CHECK_DEADLOCK FALSE
INVARIANTS
  PathHasOneOwner
PROPERTIES
  FilesFollowJobs
