SPECIFICATION FairSpec
CONSTANTS
  Packages <- MCPackages
  Folders <- MCFolders
  Nodes <- MCNodes
  PkgOf <- MCPkgOf
  Lists <- MCLists
  Snapshots <- Republished
  MaxToggles = 2
INVARIANTS
  TypeOK
  StubsAreShared
PROPERTIES
  SharesArrive
CHECK_DEADLOCK FALSE
