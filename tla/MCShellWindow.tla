--------------------------- MODULE MCShellWindow ----------------------------
(***************************************************************************)
(* ShellWindow with two clock modes and two calendars.                     *)
(***************************************************************************)
EXTENDS ShellWindow
=============================================================================
