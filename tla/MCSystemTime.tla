---------------------------- MODULE MCSystemTime -----------------------------
(***************************************************************************)
(* SystemTime on small instances.                                          *)
(***************************************************************************)
EXTENDS SystemTime
=============================================================================
