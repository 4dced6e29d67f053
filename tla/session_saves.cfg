SPECIFICATION Spec
CONSTANTS
  Names <- MCNames
  Low <- MCLow
  Packaged <- MCPackaged
  Values <- MCValues
  Shipped = "low"
  Imported = {"high"}
  AtRoot = TRUE
  MaxSaves = 2
  MaxChoices = 2
  MaxFaults = 2
  None = None
PROPERTIES
  DropsOnlyRemoved
  SavesGrow
  TakesGamesChanges
