SPECIFICATION Spec
CONSTANTS
  Names = {a, b, c}
  Links <- MCLinks
  MaxNodes = 2
INVARIANT
  ToReachesBack
