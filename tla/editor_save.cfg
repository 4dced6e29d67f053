SPECIFICATION Spec
CONSTANTS
  d1 = d1
  i1 = i1
  None = None
  Contents <- TwoContents
  Drafts <- OneDraft
  Starts <- Cascade
  MaxUndo = 1
  MaxEdits = 2
  MaxSaves = 2
  MaxFaults = 1
INVARIANTS TypeOK CleanMeansSaved InstancesResolve OneName FailedSaveUndone
