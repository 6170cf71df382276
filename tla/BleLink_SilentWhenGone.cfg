CONSTANTS
  Notes = {n1}
  BleCap = 2
SPECIFICATION Spec
INVARIANT SilentWhenGone
