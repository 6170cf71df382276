CONSTANTS
  Notes = {n1, n2, n3, n4}
  MaxNotes = 3
  MaxPresets = 3
  RegionRoom = 5
  FactoryCount = 3
  EditedCounts = {0, 2, 4, 5, 6}
  BootIndex = 2
  Programs = {0, 2}
SPECIFICATION PSpec
SYMMETRY Symmetry
INVARIANTS
  GateFollowsStack
  NoStuckNote
  HeldKeyStacked
  PlaysHeldNote
  ReleaseHeard
  PickedIsLoaded
PROPERTIES
  OnlyStrikeOpens
  PedalInBank
