SPECIFICATION ReconcileFairSpec
CONSTANTS
  Gui = {g1}
  Cli = {}
  NoProc = NoProc
  l1 = l1
  l2 = l2
  z1 = z1
  z2 = z2
  Loc = {l1, l2}
  NoLoc = NoLoc
  Absent = Absent
  Unread = Unread
  Zone = {z1, z2}
  NoZone = NoZone
  Ref <- RefPoints
  Missing = Missing
  Corrupt = Corrupt
  Fault = {}
PROPERTIES
  ReferenceFollowsZone
