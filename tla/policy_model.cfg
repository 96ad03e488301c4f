SPECIFICATION FairSpec
CONSTANTS
  Proc = {p1, p2}
  NoProc = NoProc
  Absent = Absent
  Same = Same
  CliEdit <- CliEdits
  Invalid = Invalid
  Nothing = Nothing
  ClockMode = {"standard-24", "standard-12"}
  Seconds = {"hidden"}
  Calendar = {"gregorian"}
  DefaultCalendar = "gregorian"
  Location = {}
  NoLocation = "unset"
INVARIANTS
  TypeOK
  LockOwnership
  CandidateFresh
PROPERTIES
  PublishedIsDurable
  RefinesRegister
  OperationEnds
