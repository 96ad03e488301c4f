------------------------ MODULE MCLocalityReconcile -------------------------
(***************************************************************************)
(* LocalityReconcile on small instances: two zones with different          *)
(* reference points.                                                       *)
(***************************************************************************)
EXTENDS LocalityReconcile

CONSTANTS l1, l2, z1, z2

RefPoints == [z \in {z1, z2} |-> IF z = z1 THEN l1 ELSE l2]
=============================================================================
