----------------------------- MODULE MCJobStore -----------------------------
(***************************************************************************)
(* The job table on a small fleet: "move" relocates from stack S1 on       *)
(* server A1 to S2 on A2; "deploy" shares only the server A1 with it and   *)
(* "destroy", a managed destroy that names no server, only the stack S2.   *)
(***************************************************************************)
EXTENDS JobStore

MCJobs == {"deploy", "move", "destroy"}

MCType == [j \in MCJobs |-> IF j = "move" THEN Relocation ELSE j]

MCTargets ==
    [deploy  |-> {[stack |-> "S3", agent |-> "A1"]},
     move    |-> {[stack |-> "S1", agent |-> "A1"], [stack |-> "S2", agent |-> "A2"]},
     destroy |-> {[stack |-> "S2", agent |-> ""]}]

MCWindows == {"reboot"}

\* The window reboots A2, the server of stack S2.
MCNodeOf == [w \in MCWindows |-> [stack |-> "S2", agent |-> "A2"]]

MCMarked == {"destroy"}
=============================================================================
