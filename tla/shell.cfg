SPECIFICATION Spec
CONSTANTS
  Mode = {m1, m2}
  Calendar = {c1, c2}
  None = None
  MaxDay = 1
  MaxMoves = 6
  MaxFaults = 1
CHECK_DEADLOCK FALSE
INVARIANTS
  ShellInvariant
  VisiblePageTicks
PROPERTIES
  PreviewSettles
