SPECIFICATION Spec
CONSTANTS
  Untypable = {"sidereal"}
  Zone = {z1, z2}
  Clean = Clean
  Absent = Absent
  MaxChanges = 5
  Rejected = Rejected
  Field <- FieldEnds
  Skipped <- DaysOfChange
SYMMETRY DraftSymmetry
CHECK_DEADLOCK FALSE
INVARIANTS
  DraftInvariant
  EditorReadsBack
  OnlySilentChangesStrandADraft
