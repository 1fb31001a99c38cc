SPECIFICATION Spec
CONSTANTS
  Players = {Ann, Bob, Cleo, Dora}
  Ann = Ann
  Bob = Bob
  Cleo = Cleo
  Dora = Dora
  NoOne = NoOne
  Inviters = {Ann}
  MaxOpen = 2
  MaxMembers = 3
  MaxIds = 2
  MaxStored = 2
  MaxEntries = 1
SYMMETRY Symmetry
INVARIANTS TypeOK InMemoryOnce RowsStored
PROPERTIES KeepsRegister
CHECK_DEADLOCK FALSE
