SPECIFICATION Spec
CONSTANTS
  Depth = 2
  Policy <- MCPolicy
  Absent = Absent
  Calendar = {c1, c2}
  DefaultCalendar = c1
  None = None
  MaxFaults = 1
  MaxChanges = 4
  MaxDay = 1
CHECK_DEADLOCK FALSE
INVARIANTS
  PresenterInvariant
  WatchesNearest
  HomeAgreesAtRest
PROPERTIES
  HomeSettles
