------------------------- MODULE MCLocalityJournal --------------------------
(***************************************************************************)
(* LocalityJournal on small instances.                                     *)
(***************************************************************************)
EXTENDS LocalityJournal, TLC

\* Places are interchangeable, and so are windows.
PlaceSymmetry == Permutations(Loc) \cup Permutations(Gui)
=============================================================================
