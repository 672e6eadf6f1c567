--------------------------- MODULE MCProviderControl ---------------------------
(***************************************************************************)
(* A state constraint lets one run ask two questions: one destroy call and *)
(* one attempt beside two provisions, two graphs, a stalled claim and a    *)
(* second decision; or two destroy calls and up to three attempts beside   *)
(* one provision, one graph and one reconciler at work.                    *)
(***************************************************************************)
EXTENDS ProviderControl, TLC
CONSTANTS p1, p2, w1, w2, h1, h2, k1, k2

ManyAttempts ==
    \/ \E d \in Decommissions : d > 1 /\ head[d] # "none"
    \/ \E k \in Destroyers \ {k1} : decom[k] # NoCandidate \/ resolver[k] # 0
ManyCreators ==
    \/ Cardinality({p \in Provisions : head[p] # "none"}) > 1
    \/ Cardinality(created) > 1 \/ stalls > 0 \/ Len(decisions) > 1
    \/ worker[w1].todo # {} \/ worker[w1].call.st \notin {"idle", "down"}
OneQuestion == ~(ManyAttempts /\ ManyCreators)

\* Provisions and handles are interchangeable in safety properties.
Symmetric == Permutations({p1, p2}) \union Permutations({h1, h2})
=============================================================================
