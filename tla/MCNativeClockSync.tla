------------------------- MODULE MCNativeClockSync --------------------------
(***************************************************************************)
(* NativeClockSync on small instances.                                     *)
(***************************************************************************)
EXTENDS NativeClockSync

\* system-settings-time --clock <mode>
ClockOption == {[NoChange EXCEPT !.clock = m] : m \in ClockMode}
=============================================================================
