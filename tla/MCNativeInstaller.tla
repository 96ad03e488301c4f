-------------------------- MODULE MCNativeInstaller --------------------------
(***************************************************************************)
(* A repository of two commits that pin different commits of Common, on a  *)
(* machine with small words.                                               *)
(***************************************************************************)
EXTENDS NativeInstaller, TLC

CONSTANTS k1, k2, l1, l2

MCPin == k1 :> l1 @@ k2 :> l2
=============================================================================
