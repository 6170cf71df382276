CONSTANTS
  Slots = {portamento, cutoff}
  Portamento = portamento
  Values = {lo, hi}
  Shapes = {saw, square}
SPECIFICATION Spec
INVARIANT NothingSnapsBack
