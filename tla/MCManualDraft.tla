---------------------------- MODULE MCManualDraft ----------------------------
(***************************************************************************)
(* ManualDraft on small instances, and the texts of ManualTime.  Zones are *)
(* interchangeable.                                                        *)
(***************************************************************************)
EXTENDS ManualDraft, TLC

DraftSymmetry == Permutations(Zone)

\* Both ends of every range, and one past them.
FieldEnds == {0, 1, 9, 10, 11, 12, 13, 23, 24, 59, 60, 99}

\* No change that day, one in the small hours, one at midnight, one before it.
DaysOfChange == {[from |-> 0, until |-> 0], [from |-> 7200, until |-> 10800],
                 [from |-> 0, until |-> 3600], [from |-> 84600, until |-> 86400]}
=============================================================================
