SPECIFICATION FairSpec
CONSTANTS
  game = game other = other c1 = c1 c2 = c2 p1 = p1 w1 = w1 w2 = w2
  Keys = {game, other}
  Cids = {c1, c2}
  Packages = {p1}
  Content <- MCShared
  Chain <- MCChain
  Paths <- MCPaths
  PathOf <- MCPathOf
  Fetches = {w1, w2}
  Nothing = Nothing
  Needs <- MCNeeds
  MaxRuns = 2
INVARIANTS
  TypeOK
  KeptTogether
  CancelSparesOthers
PROPERTIES
  PurgeSparesOthers
  ExitEnds
CHECK_DEADLOCK FALSE
