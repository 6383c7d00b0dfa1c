SPECIFICATION Spec
CONSTANTS
  FlashPages = 8
  RamPages = 4
  FlashVersion = 2
  Model84 = TRUE
  FlashLower = 1
  FlashUpper = 4
  Places <- MCPlaces
  Selects <- MCSelects
  Bounds <- MCBounds
  Chunks <- MCChunks
  MaxOutputs = 3
INVARIANTS
  TypeOK
  MapsAgree
  NoForbiddenCode
PROPERTIES
  SavedMapReturns
  FlagFollowsPage0
