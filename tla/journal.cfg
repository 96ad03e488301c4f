SPECIFICATION Spec
CONSTANTS
  Gui = {g1, g2}
  Cli = {c1}
  NoProc = NoProc
  Loc = {l1, l2}
  NoLoc = NoLoc
  Absent = Absent
  Unread = Unread
  Zone = {z1, z2}
  NoZone = NoZone
  Missing = Missing
  Corrupt = Corrupt
  Fault = {"io", "late", "crash"}
SYMMETRY PlaceSymmetry
INVARIANTS
  TypeOK
  RollbackExact
  OnlySlipsLoseAPair
PROPERTIES
  MetadataFollowsPolicy
