SPECIFICATION FairSpec
CONSTANTS
  Games = {g1, g2}
  Builds = {b1}
  Inspects = {g2}
  NoOne = NoOne
CHECK_DEADLOCK FALSE
INVARIANTS
  TypeOK
  UpIsLive
  QuitLeavesNoGame
PROPERTIES
  QuitEnds
