SPECIFICATION FlashSpec
CONSTANTS
  Pages = 8
  HasFastMode = TRUE
  Contents <- MCContents
  Probed <- MCProbed
  Writes <- MCWrites
  MaxChanges = 1
INVARIANTS
  Progress
PROPERTIES
  ChangesAreCommands
  OnlyErasesSet
