CONSTANTS
  NSectors = 2
  AudioCap = 2
  StatusCap = 4
SPECIFICATION FairSpec
INVARIANTS
  TypeOK
  GateExclusion
  NoTouchInRecovery
  GateInv
PROPERTIES
  WriteCompletes
  BootFormatDone
  GateReleases
  ImplementsBus
