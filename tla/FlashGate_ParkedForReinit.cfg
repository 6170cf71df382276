CONSTANTS
  NSectors = 2
  AudioCap = 2
  StatusCap = 4
SPECIFICATION Spec
INVARIANT ParkedForReinit
