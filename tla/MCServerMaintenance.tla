------------------------- MODULE MCServerMaintenance -------------------------
(***************************************************************************)
(* Two replicas, r1 steady, and the smallest deadlines that can lapse      *)
(* before, during and after every step.                                    *)
(***************************************************************************)
EXTENDS ServerMaintenance
=============================================================================
