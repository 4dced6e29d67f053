SPECIFICATION Spec
CONSTANTS
  a1 = a1 a2 = a2 a3 = a3 game = game library = library
  Actors = {a1, a2, a3}
  Does <- MCDoes
  Processes <- Alone
  Folders = {s1, d1}
  Sessions = {s1}
  Packages = {game, library}
  PackageOf <- MCPackageOf
  SweepRoots = {{game}}
  CommandRoots = {{library}}
  Inodes = {i1, i2, i3}
  Stuck = FALSE
  NoOne = NoOne
  NoFolder = NoFolder
  NoInode = NoInode
  NoPackage = NoPackage
SYMMETRY Alike
INVARIANTS
  TypeOK
  RuntimeIntact
PROPERTIES
  WipesOnlyUnmounted
  KeepsPromise
