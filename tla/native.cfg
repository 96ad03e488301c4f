SPECIFICATION SyncFairSpec
CONSTANTS
  Proc = {w1, c1}
  Window = {w1}
  NoProc = NoProc
  Absent = Absent
  Same = Same
  CliEdit <- ClockOption
  Invalid = Invalid
  Nothing = Nothing
  ClockMode = {"standard-24", "standard-12", "standard", "decimal-24h"}
  Seconds = {"hidden"}
  Calendar = {"gregorian"}
  DefaultCalendar = "gregorian"
  Location = {}
  NoLocation = "unset"
  MaxEdits = 3
CHECK_DEADLOCK FALSE
INVARIANTS
  WindowsAgreeAtRest
  DesktopAgreesAtRest
PROPERTIES
  OnlyUnreadModesAreReplaced
  Settles
