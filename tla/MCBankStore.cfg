CONSTANTS
  NSectors = 3
  NPages = 2
  MaxLosses = 3
  ImageBytes = 2
  MaxPulls = 2
SPECIFICATION EFairSpec
INVARIANTS
  ReadyHeaderCurrent
  WholeUnlessTorn
  ImageIsPayload
PROPERTIES
  StaleIsReformatted
  RequestAnswered
  CableFreesTask
