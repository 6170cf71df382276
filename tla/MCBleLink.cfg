CONSTANTS
  Notes = {n1, n2}
  BleCap = 2
  MaxPerPacket = 2
  LedCap = 1
SPECIFICATION LFairSpec
INVARIANTS
  KeysAgree
  LedAgrees
PROPERTIES
  LinkLossSilences
  LedCatchesUp
