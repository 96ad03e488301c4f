--------------------------- MODULE MCHomePresenter ---------------------------
(***************************************************************************)
(* HomePresenter on small instances.  Two contents that differ in clock    *)
(* and calendar stand for all pairs.                                       *)
(***************************************************************************)
EXTENDS HomePresenter

MCPolicy ==
  {[clock |-> "standard", calendar |-> DefaultCalendar]} \cup
  [clock : {"standard-12"}, calendar : Calendar \ {DefaultCalendar}]
=============================================================================
