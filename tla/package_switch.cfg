SPECIFICATION Spec
CONSTANTS
  Nodes <- MCNodes
  Names <- MCNames
  Contents <- MCContents
  Claims <- MCClaims
  Refs <- MCRefs
  Versions <- MCVersions
  Others <- MCOthers
  MaxFaults = 2
  Base = Base
  None = None
INVARIANTS
  TypeOK
  LayersServed
  PinsAccounted
PROPERTIES
  DeletesShown
  ContainedStays
