CONSTANTS
  NSectors = 2
  NPages = 2
  MaxLosses = 1
SPECIFICATION Spec
INVARIANT NewDefaultsPreloaded
