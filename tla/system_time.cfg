SPECIFICATION FairSpec
CONSTANTS
  Zone = {z1, z2}
  Unavailable = Unavailable
  MaxRequests = 2
  MaxChanges = 2
CHECK_DEADLOCK FALSE
INVARIANTS
  TypeOK
  ReferencesExact
  ActiveIsNewest
  ShownIsActual
PROPERTIES
  LateReplyInert
  RequestsEnd
