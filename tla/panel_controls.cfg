SPECIFICATION Spec
CONSTANTS
  p1 = p1
  p2 = p2
  Place = {p1, p2}
  Origin = p2
  Reference = {p1, None}
  Unset = Unset
  None = None
  MaxMoves = 3
  MaxFaults = 1
CHECK_DEADLOCK FALSE
INVARIANTS
  PanelInvariant
  SpinShowsSaved
  CommitIsTyped
PROPERTIES
  PairIsCompleted
