--------------------------- MODULE MCJobExecution ---------------------------
(***************************************************************************)
(* Two boots and one or two jobs.  A job's name is its type: "deploy" is a *)
(* deploy of stack S1, "move" the relocation of a workload of S1 to a node *)
(* of S2, "landing" a deploy of S2 on that node, "destroy" a marked managed*)
(* destroy and "provision" a managed provision of S1.                      *)
(***************************************************************************)
EXTENDS JobExecution, TLC

CONSTANTS MCJobs

MCType ==
    [j \in MCJobs |-> CASE j = "move" -> Relocation [] j = "landing" -> "deploy" [] OTHER -> j]

Node1 == [stack |-> "S1", agent |-> "A1"]
Node2 == [stack |-> "S2", agent |-> "A2"]
MCTargets ==
    [j \in MCJobs |-> CASE j = "move" -> {Node1, Node2} [] j = "landing" -> {Node2}
                       [] OTHER -> {Node1}]
MCTargetID == [j \in MCJobs |-> IF j = "landing" THEN "S2" ELSE "S1"]

MCMarked == MCJobs \cap {"destroy"}
MCManaged == MCJobs \cap {"provision"}
MCNodeOf == [w \in {} |-> [stack |-> "", agent |-> ""]]

\* Bounds: at most one job is admitted, and a provision on one boot only; or at most
\* two, whose targets overlap.
Admitted(j) == j \in Jobs /\ row[j].state # "absent"
OneJob ==
    /\ Cardinality({j \in Jobs : Admitted(j)}) <= 1
    /\ Admitted("provision") => Cardinality({p \in Owners : proc[p] # "off"}) <= 1
OneContention ==
    /\ Cardinality({j \in Jobs : Admitted(j)}) <= 2
    /\ \A j, k \in Jobs : Admitted(j) /\ Admitted(k) => Targets[j] \cap Targets[k] # {}

GenSymmetry == Permutations(Gens)
=============================================================================
