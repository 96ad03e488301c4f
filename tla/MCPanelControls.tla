-------------------------- MODULE MCPanelControls ---------------------------
(***************************************************************************)
(* PanelControls with two coordinate pairs, one of them the reference      *)
(* point of a time zone, and a zone without a reference point.             *)
(***************************************************************************)
EXTENDS PanelControls

CONSTANTS p1, p2
=============================================================================
