SPECIFICATION Spec
CONSTANTS
  Players = {Ann, Bob, Cleo}
  Ann = Ann
  Bob = Bob
  Cleo = Cleo
  NoOne = NoOne
  Inviters = {Ann}
  MaxOpen = 2
  MaxMembers = 3
  MaxIds = 2
  MaxStored = 2
  MaxEntries = 1
SYMMETRY Symmetry
PROPERTIES DissolvedWhenLone
CHECK_DEADLOCK FALSE
