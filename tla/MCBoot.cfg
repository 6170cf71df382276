CONSTANTS
  RingLen = 7
  RegionLen = 15
  BlockLen = 4
  Times <- AllTimes
  MaxBuilds = 3
  MaxSamples = 16
  RxMax = 7
  MaxSck = 100
  Clocks <- AllClocks
SPECIFICATION BSpec
INVARIANTS
  NeverPanics
  OwnEcho
  DelayKept
  FlashReadable
  ClockWithinLimit
  CentredInEye
CHECK_DEADLOCK FALSE
