SPECIFICATION Spec
CONSTANTS
  k1 = k1
  k2 = k2
  l1 = l1
  l2 = l2
  Commit = {k1, k2}
  CommonCommit = {l1, l2}
  Pin <- MCPin
  Edited = Edited
  None = None
  Half = 16
  Footer = 3
  Length = {1, 5}
  MaxMoves = 2
CHECK_DEADLOCK FALSE
INVARIANTS
  ReleaseInvariant
  AssetIsOneCommit
  CopyInsideFile
  OnlyTestedIsInstalled
