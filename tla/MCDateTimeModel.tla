-------------------------- MODULE MCDateTimeModel ---------------------------
(***************************************************************************)
(* DateTimeModel on a small instance.                                      *)
(***************************************************************************)
EXTENDS DateTimeModel

\* One invocation that sets a mode and clears the location.
CliEdits == {[NoChange EXCEPT !.clock = "standard-12", !.location = NoLocation]}
=============================================================================
