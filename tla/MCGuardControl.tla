---------------------------- MODULE MCGuardControl ----------------------------
(***************************************************************************)
(* A state constraint lets one run ask two questions: one command, a       *)
(* mutation or an observation, over crashes and faults of the journal; or  *)
(* two mutations over crashes.                                             *)
(***************************************************************************)
EXTENDS GuardControl, TLC
CONSTANTS m1, m2, r1

Issued == {c \in Commands : row[c].state # "none"}
OneQuestion == Cardinality(Issued) <= 1 \/ (Issued \subseteq Mutating /\ faults = 0)

Symmetric == Permutations(Mutating)
=============================================================================
