--------------------------- MODULE MCJobSettlement ---------------------------
(***************************************************************************)
(* A provision, the deploy and the destroy of one stack, each named after  *)
(* its type.                                                               *)
(***************************************************************************)
EXTENDS JobSettlement

MCKind == [j \in Jobs |-> j]
=============================================================================
