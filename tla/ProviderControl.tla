---------------------------- MODULE ProviderControl ----------------------------
(***************************************************************************)
(* The provider-control ledger, its coordinator and reconciler, provision  *)
(* resolution and the native decommissioner, for ONE resource generation   *)
(* of one managed lease: at-most-once provision operations, the numbered   *)
(* decommission attempts, execution claims, dispatch guard, discovery      *)
(* observations and decisions, the server tombstone and the capacity slot. *)
(* Every database transaction is one action. A receipt head is its phase:  *)
(* no phase recurs in an operation. Loading a record and the transaction   *)
(* that compares the loaded head are one step, because a head that moved   *)
(* in between only makes the transaction fail without effect.              *)
(***************************************************************************)
EXTENDS Integers, FiniteSets, Sequences

CONSTANTS
    Provisions,     \* provision operations of the generation
    MaxAttempts,    \* bound on the decommission operations opened
    Budget,         \* maxNativeDecommissionAttempts within one window
    Workers,        \* reconcilers of the replicas, and other callers of Advance
    Steady,         \* workers that do not crash
    Destroyers,     \* calls of the native decommissioner: destroy job, recovery loops
    Handles,        \* provider resource graphs a create can leave behind
    MaxRevisions,   \* bound on resolution decisions
    MaxStalls,      \* bound on claims that expire under a living worker
    NoOp, Nobody, Operator, Automatic

ASSUME ProviderAssumption ==
    /\ MaxAttempts \in Nat /\ Budget \in Nat /\ MaxRevisions \in Nat /\ MaxStalls \in Nat
    /\ Steady \subseteq Workers
    /\ NoOp \notin Provisions /\ Nobody \notin Workers
    /\ Operator # Automatic /\ Operator \notin Destroyers /\ Automatic \notin Destroyers
    /\ \A n \in 1 .. MaxAttempts : n \notin Provisions /\ n # NoOp

Decommissions == 1 .. MaxAttempts
Ops == Provisions \union Decommissions

VARIABLES
    head,       \* phase of the head receipt of each operation
    bound,      \* handles recorded for each provision
    targets,    \* sealed target graph of each decommission
    claim,      \* execution claim on the current head of each operation
    guard,      \* the operation holding the generation's dispatch guard
    obs,        \* candidate graphs of the undecided observation, if there is one
    decisions,  \* outcomes of the resolution decisions, in revision order
    cancelled,  \* teardown is requested
    server,     \* lifecycle state of the runtime server
    slot,       \* capacity reservation, or the authority that released it
    recent,     \* failed decommissions charged against the budget
    worker,     \* the reconcile pass of each worker
    queue,      \* the automatic resolver's queue
    resolver,   \* resolution workflows in progress: the revision they decide
    decom,      \* the candidate snapshot of each decommissioner call
    stalls,     \* claims that expired under a living worker
    calls,      \* create calls at the provider, not yet landed or lost
    creates,    \* number of create calls issued
    created,    \* handles the create calls have left behind
    live,       \* handles that exist at the provider
    doomed      \* handles whose deletion the provider has accepted

ops == <<head, bound, targets, claim>>
custody == <<guard, obs, decisions>>
lease == <<cancelled, server, slot, recent>>
actors == <<worker, queue, resolver, decom, stalls>>
provider == <<calls, creates, created, live, doomed>>
vars == <<ops, custody, lease, actors, provider>>

Resolvers == {Operator, Automatic} \union Destroyers
Outcomes == {"no_candidate_observed", "adopted_exact_candidate", "multiple_candidates_quarantined"}
Pending == {"requested", "accepted", "resources_bound", "delete_accepted", "absence_pending"}
Phases == Pending \union {"none", "present", "failed", "absent"}

NoClaim == [state |-> "none", by |-> Nobody, expired |-> FALSE]
Claimed(w) == [state |-> "active", by |-> w, expired |-> FALSE]
Call0 == [st |-> "idle", op |-> NoOp, at |-> "none", res |-> "none", got |-> {}]
NoCandidate == [st |-> "idle", attempts |-> 0, targets |-> {}]

-----------------------------------------------------------------------------
(* What the transactions read. *)

Bound == UNION {bound[p] : p \in Provisions}

\* Provider graphs that carry the correlation of the guarded create.
Candidates == created \intersect live

\* An execution capability whose TTL has not run out.
Live(o) == claim[o].state = "active" /\ ~claim[o].expired

\* Some decision for the current head found no candidate. Every decision is made
\* at the accepted or failed head of the guarded operation, which never recurs.
ZeroDecided(o) ==
    guard = o /\ \E i \in DOMAIN decisions : decisions[i] = "no_candidate_observed"

\* requireNoUnsettledGenerationSideEffectsTx: the TTL is ignored.
Unsettled(o) ==
    /\ head[o] = "accepted" /\ claim[o].state \in {"active", "released"}
    /\ ~ZeroDecided(o)

\* requireResourceFreeGenerationQuiescenceTx
Quiescent ==
    /\ \A o \in Ops : ~Unsettled(o)
    /\ guard # NoOp => ZeroDecided(guard)

Tombstoned == server = "decommissioned"

\* validateLeaseExecutionFenceOperation, without a continuation.
FenceAdmits(o) == IF o \in Provisions THEN ~cancelled /\ ~Tombstoned ELSE cancelled

\* requireExactMutationTargetsTx, and the claim trigger.
ExactTargets(T) ==
    /\ T = Bound /\ T # {}
    /\ \E p \in Provisions : bound[p] = T /\ head[p] \in {"present", "failed"}

\* A decision adopted or quarantined: resolution is closed.
Resolved == \E i \in DOMAIN decisions : decisions[i] # "no_candidate_observed"

\* deriveOperationAutomationState: manual reconcile required.
Guarded(o) == o \in Provisions /\ head[o] = "accepted" /\ guard # NoOp

-----------------------------------------------------------------------------
Init ==
    /\ head = [o \in Ops |-> "none"]
    /\ bound = [p \in Provisions |-> {}]
    /\ targets = [d \in Decommissions |-> {}]
    /\ claim = [o \in Ops |-> NoClaim]
    /\ guard = NoOp /\ obs = {} /\ decisions = <<>>
    /\ cancelled = FALSE /\ server = "provisioning" /\ slot = "reserved" /\ recent = 0
    /\ worker = [w \in Workers |-> [call |-> Call0, todo |-> {}]]
    /\ queue = {}
    /\ resolver = [r \in Resolvers |-> 0]
    /\ decom = [k \in Destroyers |-> NoCandidate]
    /\ stalls = 0
    /\ calls = {} /\ creates = 0 /\ created = {} /\ live = {} /\ doomed = {}

\* Coordinator.Start of a provision: one requested receipt, behind the fence.
StartProvision(p) ==
    /\ head[p] = "none" /\ FenceAdmits(p)
    /\ head' = [head EXCEPT ![p] = "requested"]
    /\ UNCHANGED <<bound, targets, claim, custody, lease, actors, provider>>

-----------------------------------------------------------------------------
(* Resource-free teardown. *)

\* proveResourceFreeTeardownAuthorityTx: some zero-candidate decision for the
\* head and no live claim, or no dispatch custody at all.
TeardownAuthority(p) ==
    \/ ZeroDecided(p) /\ ~Live(p)
    \/ /\ ~ZeroDecided(p) /\ guard # p
       /\ ~(head[p] = "accepted" /\ claim[p].state # "none")

\* What admits FinalizeResourceFreeTeardown, Go code and trigger together.
CanFinalize(p) ==
    /\ head[p] \in {"requested", "accepted"} /\ bound[p] = {}
    /\ cancelled /\ server \in {"provisioning", "failed", "decommissioning"}
    /\ Quiescent /\ Bound = {}
    /\ \A q \in Provisions : ~(head[q] = "failed" /\ bound[q] = {})
    /\ TeardownAuthority(p)
    /\ slot = "reserved"

Tombstone(authority) == server' = "decommissioned" /\ slot' = authority

FinalizeTeardown(p) ==
    /\ CanFinalize(p)
    /\ Tombstone("resource_free")
    /\ UNCHANGED <<ops, custody, cancelled, recent, provider>>

-----------------------------------------------------------------------------
(* One reconcile pass: list, then Advance every listed operation once. *)

\* ListRunnableOperations: the pending heads with the parked provisions left
\* out, and the failed provisions that still hold their slot.
Runnable ==
    {o \in Ops :
        \/ /\ head[o] \in Pending /\ ~(o \in Provisions /\ slot = "resource_free")
           /\ Guarded(o) => ZeroDecided(o) /\ cancelled
        \/ o \in Provisions /\ head[o] = "failed" /\ slot = "reserved"}

ListRunnable(w) ==
    /\ worker[w].call = Call0 /\ worker[w].todo = {} /\ Runnable # {}
    /\ worker' = [worker EXCEPT ![w].todo = Runnable]
    /\ UNCHANGED <<ops, custody, lease, queue, resolver, decom, stalls, provider>>

\* The Advance of a listed operation begins: o leaves the batch.
Takes(w, o) == worker[w].call = Call0 /\ o \in worker[w].todo

Done(w, o) == worker' = [worker EXCEPT ![w].todo = @ \ {o}]

Begins(w, o) ==
    worker' = [worker EXCEPT ![w] =
        [call |-> [Call0 EXCEPT !.st = "claimed", !.op = o, !.at = head[o]], todo |-> @.todo \ {o}]]

AdvanceFinalize(w, p) ==
    /\ Takes(w, p) /\ FinalizeTeardown(p) /\ Done(w, p)
    /\ UNCHANGED <<queue, resolver, decom, stalls>>

\* ErrProvisionManualReconcile, reported to OnParked. Under teardown the
\* finalizer's quiescence error comes first and nothing is reported.
AdvancePark(w, p) ==
    /\ Takes(w, p) /\ Guarded(p) /\ ~cancelled
    /\ queue' = queue \union {p} /\ Done(w, p)
    /\ UNCHANGED <<ops, custody, lease, resolver, decom, stalls, provider>>

AdvanceAccept(w, o) ==
    /\ Takes(w, o) /\ head[o] = "requested" /\ FenceAdmits(o)
    /\ head' = [head EXCEPT ![o] = "accepted"] /\ Done(w, o)
    /\ UNCHANGED <<bound, targets, claim, custody, lease, queue, resolver, decom, stalls, provider>>

\* Mutant: the guard is looked up by operation instead of by generation.
MutCanDispatch(p) == p \in Provisions /\ head[p] = "accepted" /\ FenceAdmits(p) /\ guard # p

\* AcquireProvisionDispatchClaim: the guard row is the generation's, immutable,
\* and inserted with the claim.
CanDispatch(p) == p \in Provisions /\ head[p] = "accepted" /\ FenceAdmits(p) /\ guard = NoOp

AdvanceDispatch(w, p) ==
    /\ Takes(w, p) /\ CanDispatch(p)
    /\ guard' = p /\ claim' = [claim EXCEPT ![p] = Claimed(w)] /\ Begins(w, p)
    /\ UNCHANGED <<head, bound, targets, obs, decisions, lease, queue, resolver, decom, stalls, provider>>

\* acquireExecutionClaimTx and the claim trigger: the delete, the polls.
CanClaim(o) ==
    /\ ~Live(o)
    /\ \/ o \in Provisions /\ head[o] = "resources_bound"
       \/ /\ o \in Decommissions /\ head[o] = "accepted" /\ cancelled
          /\ ExactTargets(targets[o]) /\ \A q \in Ops \ {o} : ~Unsettled(q)
       \/ o \in Decommissions /\ head[o] \in {"delete_accepted", "absence_pending"}

AdvanceClaim(w, o) ==
    /\ Takes(w, o) /\ CanClaim(o)
    /\ claim' = [claim EXCEPT ![o] = Claimed(w)] /\ Begins(w, o)
    /\ UNCHANGED <<head, bound, targets, custody, lease, queue, resolver, decom, stalls, provider>>

\* Every other Advance changes nothing: a head that is terminal or moved on, a
\* fence, a claim held by someone else, a quiescence error.
AdvanceNothing(w, o) ==
    /\ Takes(w, o)
    /\ ~(o \in Provisions /\ CanFinalize(o)) /\ ~(Guarded(o) /\ ~cancelled)
    /\ ~(head[o] = "requested" /\ FenceAdmits(o)) /\ ~CanDispatch(o) /\ ~CanClaim(o)
    /\ Done(w, o)
    /\ UNCHANGED <<ops, custody, lease, queue, resolver, decom, stalls, provider>>

-----------------------------------------------------------------------------
(* The adapter call under the claim, and its receipt. *)

Dispatching(c) == c.op \in Provisions /\ c.at = "accepted"

\* DispatchPreparedProvision reaches the provider.
DispatchCreate(w) ==
    LET c == worker[w].call IN
    /\ c.st = "claimed" /\ Dispatching(c)
    /\ worker' = [worker EXCEPT ![w].call.st = "calling"]
    /\ calls' = calls \union {c.op} /\ creates' = creates + 1
    /\ UNCHANGED <<ops, custody, lease, queue, resolver, decom, stalls, created, live, doomed>>

\* The results the result validators let through. A result that repeats the
\* head is no progress; a rejected result has the same effect. A create may be
\* reported failed, with or without a handle, whatever became of it.
Results(c) ==
    IF Dispatching(c)
      THEN {[res |-> "accepted", got |-> {}], [res |-> "failed", got |-> {}]}
             \union [res : {"resources_bound", "failed"}, got : {{h} : h \in created}]
      ELSE [res : {c.at, "failed"}
                  \union (IF c.at = "resources_bound" /\ bound[c.op] \subseteq live THEN {"present"} ELSE {})
                  \union (IF c.at = "accepted" THEN {"delete_accepted"} ELSE {})
                  \union (IF c.at = "delete_accepted" THEN {"absence_pending"} ELSE {})
                  \union (IF c.at = "absence_pending" /\ targets[c.op] \intersect live = {}
                            THEN {"absent"} ELSE {}),
            got : {{}}]

Answer(w, x) ==
    LET c == worker[w].call
        deletes == c.op \in Decommissions /\ c.at = "accepted" IN
    /\ c.st = IF Dispatching(c) THEN "calling" ELSE "claimed"
    /\ c.op # NoOp /\ x \in Results(c)
    /\ worker' = [worker EXCEPT ![w].call = [@ EXCEPT !.st = "returned", !.res = x.res, !.got = x.got]]
    /\ doomed' \in IF ~deletes THEN {doomed}
                   ELSE {doomed \union targets[c.op]}
                          \union (IF x.res = "delete_accepted" THEN {} ELSE {doomed})
    /\ UNCHANGED <<ops, custody, lease, queue, resolver, decom, stalls, calls, creates, created, live>>

\* Mutant: the append compares the token and not the expiry.
MutHolds(w, o) == claim[o].state = "active" /\ claim[o].by = w

\* AppendClaimedReceipt holds the live claim's token and compares the head.
Holds(w, o) == Live(o) /\ claim[o].by = w

\* What the absent receipt's projection requires.
AbsenceProved(d) ==
    /\ \A o \in Ops \ {d} : ~Unsettled(o)
    /\ targets[d] = Bound /\ server \in {"decommissioning", "decommissioned"} /\ slot = "reserved"

\* Mutant: the budget is counted down.
MutCharged == recent - 1

\* A failed decommission counts against the budget of its window.
Charged == recent + 1

\* projectReceiptLifecycleTx: the receipt, the server and the slot commit together.
Project(o, res) ==
    \/ /\ o \in Provisions /\ ~cancelled /\ res \in {"present", "failed"}
       /\ server' = (IF res = "present" THEN "enrolling" ELSE "failed")
       /\ UNCHANGED <<cancelled, slot, recent>>
    \/ /\ o \in Provisions /\ (cancelled \/ res \notin {"present", "failed"})
       /\ UNCHANGED lease
    \/ /\ o \in Decommissions /\ res = "absent" /\ AbsenceProved(o)
       /\ Tombstone("provider_absence") /\ UNCHANGED <<cancelled, recent>>
    \/ /\ o \in Decommissions /\ res = "failed"
       /\ recent' = Charged /\ UNCHANGED <<cancelled, server, slot>>
    \/ /\ o \in Decommissions /\ res \notin {"absent", "failed"}
       /\ UNCHANGED lease

Appends(w) ==
    LET c == worker[w].call IN
    /\ c.st = "returned" /\ c.res # c.at /\ c.op # NoOp
    /\ Holds(w, c.op) /\ head[c.op] = c.at

AppendReceipt(w) ==
    LET c == worker[w].call IN
    /\ Appends(w) /\ Project(c.op, c.res)
    /\ head' = [head EXCEPT ![c.op] = c.res]
    /\ bound' = (IF Dispatching(c) THEN [bound EXCEPT ![c.op] = c.got] ELSE bound)
    /\ claim' = [claim EXCEPT ![c.op] = NoClaim]
    /\ worker' = [worker EXCEPT ![w].call = Call0]
    /\ UNCHANGED <<targets, custody, queue, resolver, decom, stalls, provider>>

\* The deferred ReleaseExecutionClaim: no progress, a claim that was lost, or a
\* receipt the projection refuses.
ReleaseClaim(w) ==
    LET c == worker[w].call IN
    /\ c.st = "returned" /\ c.op # NoOp
    /\ ~Appends(w) \/ (c.res = "absent" /\ ~AbsenceProved(c.op))
    /\ claim' = (IF Holds(w, c.op) THEN [claim EXCEPT ![c.op].state = "released"] ELSE claim)
    /\ worker' = [worker EXCEPT ![w].call = Call0]
    /\ UNCHANGED <<head, bound, targets, custody, lease, queue, resolver, decom, stalls, provider>>

\* A replica is gone for good, with its batch and whatever call it was in.
Crash(w) ==
    /\ w \notin Steady /\ worker[w].call.st # "down"
    /\ worker' = [worker EXCEPT ![w] = [call |-> [Call0 EXCEPT !.st = "down"], todo |-> {}]]
    /\ UNCHANGED <<ops, custody, lease, queue, resolver, decom, stalls, provider>>

\* The TTL runs out: the heartbeat stopped with its process, or stalled.
ExpireClaim(o) ==
    /\ Live(o)
    /\ LET down == worker[claim[o].by].call.st = "down" IN
       /\ down \/ stalls < MaxStalls
       /\ stalls' = (IF down THEN stalls ELSE stalls + 1)
    /\ claim' = [claim EXCEPT ![o].expired = TRUE]
    /\ UNCHANGED <<head, bound, targets, custody, lease, worker, queue, resolver, decom, provider>>

-----------------------------------------------------------------------------
(* The provider. *)

\* A create lands. A transport retry may leave a second graph behind.
Land(p) ==
    /\ p \in calls /\ calls' = calls \ {p}
    /\ \E H \in SUBSET (Handles \ created) :
         H # {} /\ created' = created \union H /\ live' = live \union H
    /\ UNCHANGED <<ops, custody, lease, actors, creates, doomed>>

Lose(p) ==
    /\ p \in calls /\ calls' = calls \ {p}
    /\ UNCHANGED <<ops, custody, lease, actors, creates, created, live, doomed>>

Vanish(h) ==
    /\ h \in doomed \intersect live /\ live' = live \ {h}
    /\ UNCHANGED <<ops, custody, lease, actors, calls, creates, created, doomed>>

-----------------------------------------------------------------------------
(* Resolution: observe the provider, then decide, each in its transaction. *)

\* Discover: an undecided observation is never replaced, only verified again.
\* A failed head admits only the observation that nothing exists.
CanDiscover ==
    /\ guard # NoOp /\ ~Live(guard) /\ ~Tombstoned
    /\ \/ head[guard] = "accepted"
       \/ head[guard] = "failed" /\ bound[guard] = {} /\ Candidates = {}
    /\ ~Resolved /\ Len(decisions) < MaxRevisions
    /\ obs \subseteq {Candidates}

Discover(r) ==
    /\ resolver[r] = 0 /\ CanDiscover
    /\ r = Automatic => guard \in queue
    /\ r \in Destroyers => decom[r].st = "resolving"
    /\ obs' = {Candidates}
    /\ resolver' = [resolver EXCEPT ![r] = Len(decisions) + 1]
    /\ UNCHANGED <<ops, guard, decisions, lease, worker, queue, decom, stalls, provider>>

\* deriveProvisionResolutionDecision
Outcome(C) ==
    IF C = {} THEN "no_candidate_observed"
    ELSE IF Cardinality(C) = 1 THEN "adopted_exact_candidate"
    ELSE "multiple_candidates_quarantined"

\* The workflow returns to its caller.
Finished(r) ==
    /\ resolver' = [resolver EXCEPT ![r] = 0]
    /\ queue' = (IF r = Automatic THEN queue \ {guard} ELSE queue)
    /\ decom' = (IF r \in Destroyers THEN [decom EXCEPT ![r] = NoCandidate] ELSE decom)

\* Mutant: the decision does not look at the tombstone.
MutCanDecide(r) == resolver[r] = Len(decisions) + 1 /\ obs # {} /\ ~Live(guard) /\ head[guard] = "accepted"

\* The revision is the observed one and no decision settled the head since.
CanDecide(r) ==
    /\ resolver[r] = Len(decisions) + 1 /\ obs # {} /\ ~Live(guard) /\ ~Tombstoned
    /\ \/ head[guard] = "accepted"
       \/ /\ head[guard] = "failed" /\ UNION obs = {} /\ bound[guard] = {}
          /\ cancelled /\ slot = "reserved" /\ Bound = {}
          /\ \A o \in Ops \ {guard} : ~Unsettled(o)

\* CommitProvisionResolution: adoption appends the receipt in the same
\* transaction, a failed head is terminalized in it.
Decide(r) ==
    LET C == UNION obs
        outcome == Outcome(C)
        adopts == outcome = "adopted_exact_candidate" IN
    /\ CanDecide(r)
    /\ decisions' = Append(decisions, outcome) /\ obs' = {}
    /\ head' = (IF adopts THEN [head EXCEPT ![guard] = "resources_bound"] ELSE head)
    /\ bound' = (IF adopts THEN [bound EXCEPT ![guard] = C] ELSE bound)
    /\ claim' = (IF adopts THEN [claim EXCEPT ![guard] = NoClaim] ELSE claim)
    /\ IF head[guard] = "failed" THEN Tombstone("resource_free") ELSE UNCHANGED <<server, slot>>
    /\ Finished(r)
    /\ UNCHANGED <<targets, guard, cancelled, recent, worker, stalls, provider>>

\* A conflict; the operator may also leave a recorded observation undecided.
Refuse(r) ==
    /\ resolver[r] # 0 /\ (r = Operator \/ ~CanDecide(r))
    /\ Finished(r)
    /\ UNCHANGED <<ops, custody, lease, worker, stalls, provider>>

\* A queued operation whose discovery fails is dropped from the queue.
DropQueued(p) ==
    /\ p \in queue /\ resolver[Automatic] = 0 /\ ~(p = guard /\ CanDiscover)
    /\ queue' = queue \ {p}
    /\ UNCHANGED <<ops, custody, lease, worker, resolver, decom, stalls, provider>>

-----------------------------------------------------------------------------
(* The native decommissioner. *)

Started == {p \in Provisions : head[p] # "none"}

\* Mutant: a pending attempt shifts the number too.
MutCountedAttempts == Cardinality({d \in Decommissions : head[d] # "none"})
\* Mutant: every attempt has the first one's key.
MutOneKey == 0

\* loadNativeDecommissionFailedAttemptsTx: the failed ones number the next attempt.
FailedAttempts == Cardinality({d \in Decommissions : head[d] = "failed"})

\* prepareCandidates: intent and snapshot in one transaction. It rolls back
\* when the budget is spent or the generation has not exactly one provision.
Prepare(k) ==
    /\ decom[k].st = "idle" /\ slot = "reserved"
    /\ Cardinality(Started) = 1 /\ recent < Budget
    /\ cancelled' = TRUE
    /\ server' = (IF Tombstoned THEN server ELSE "decommissioning")
    /\ decom' = [decom EXCEPT ![k] = [st |-> "prepared", attempts |-> FailedAttempts, targets |-> Bound]]
    /\ UNCHANGED <<ops, custody, slot, recent, worker, queue, resolver, stalls, provider>>

\* convergeResourceFreeProvision of a pending provision.
ConvergeFinalize(k, p) ==
    /\ decom[k].st = "prepared" /\ decom[k].targets = {} /\ p \in Started
    /\ FinalizeTeardown(p) /\ decom' = [decom EXCEPT ![k] = NoCandidate]
    /\ UNCHANGED <<worker, queue, resolver, stalls>>

\* ... and of a failed one, which the finalizer does not take.
ConvergeResolve(k, p) ==
    /\ decom[k].st = "prepared" /\ decom[k].targets = {} /\ p \in Started
    /\ head[p] = "failed" /\ bound[p] = {} /\ guard = p /\ CanDiscover
    /\ decom' = [decom EXCEPT ![k].st = "resolving"]
    /\ UNCHANGED <<ops, custody, lease, worker, queue, resolver, stalls, provider>>

\* Coordinator.Start of the attempt's operation, with the snapshot's targets.
CanDecommission(k, d) ==
    /\ d = decom[k].attempts + 1 /\ head[d] = "none" /\ FenceAdmits(d)
    /\ \A p \in Started : head[p] # "resources_bound"
    /\ ExactTargets(decom[k].targets) /\ \A o \in Ops : ~Unsettled(o)

StartDecommission(k, d) ==
    /\ decom[k].st = "prepared" /\ CanDecommission(k, d)
    /\ head' = [head EXCEPT ![d] = "requested"]
    /\ targets' = [targets EXCEPT ![d] = decom[k].targets]
    /\ decom' = [decom EXCEPT ![k] = NoCandidate]
    /\ UNCHANGED <<bound, claim, custody, lease, worker, queue, resolver, stalls, provider>>

\* A JobWaitError or an error: the destroy job or the recovery comes again.
ConvergeWait(k) ==
    /\ \/ decom[k].st = "resolving" /\ resolver[k] = 0 /\ ~CanDiscover
       \/ /\ decom[k].st = "prepared" /\ \A d \in Decommissions : ~CanDecommission(k, d)
          /\ \A p \in Started : decom[k].targets = {} =>
               /\ ~CanFinalize(p)
               /\ ~(head[p] = "failed" /\ bound[p] = {} /\ guard = p /\ CanDiscover)
    /\ decom' = [decom EXCEPT ![k] = NoCandidate]
    /\ UNCHANGED <<ops, custody, lease, worker, queue, resolver, stalls, provider>>

\* nativeDecommissionAttemptWindow ends.
WindowPasses ==
    /\ recent > 0 /\ recent' = 0
    /\ UNCHANGED <<ops, custody, cancelled, server, slot, actors, provider>>

-----------------------------------------------------------------------------
Advance(w) ==
    \E o \in Ops :
        \/ o \in Provisions /\ (AdvanceFinalize(w, o) \/ AdvancePark(w, o) \/ AdvanceDispatch(w, o))
        \/ AdvanceAccept(w, o) \/ AdvanceClaim(w, o) \/ AdvanceNothing(w, o)

Results0 == [res : Phases, got : SUBSET Handles]

Progress(w) == \E x \in Results0 : x.res # worker[w].call.at /\ Answer(w, x)

Work(w) ==
    \/ ListRunnable(w) \/ Advance(w) \/ DispatchCreate(w)
    \/ \E x \in Results0 : Answer(w, x)
    \/ AppendReceipt(w) \/ ReleaseClaim(w)

Environment ==
    \/ \E p \in Provisions : Land(p) \/ Lose(p)
    \/ \E h \in Handles : Vanish(h)
    \/ \E o \in Ops : ExpireClaim(o) /\ UNCHANGED stalls

Decommissioner(k) ==
    \/ cancelled /\ Prepare(k)
    \/ \E p \in Provisions : ConvergeFinalize(k, p) \/ ConvergeResolve(k, p)
    \/ \E d \in Decommissions : StartDecommission(k, d)
    \/ ConvergeWait(k)
    \/ Discover(k) \/ Decide(k) \/ Refuse(k)

AutomaticResolver ==
    \/ Discover(Automatic) \/ Decide(Automatic) \/ Refuse(Automatic)
    \/ \E p \in Provisions : DropQueued(p)

Next ==
    \/ \E p \in Provisions : StartProvision(p)
    \/ \E w \in Workers : Work(w) \/ Crash(w)
    \/ Environment
    \/ \E o \in Ops : ExpireClaim(o)
    \/ Discover(Operator) \/ Decide(Operator) \/ Refuse(Operator)
    \/ AutomaticResolver
    \/ \E k \in Destroyers : (~cancelled /\ Prepare(k)) \/ Decommissioner(k)
    \/ WindowPasses

Spec == Init /\ [][Next]_vars

\* A replica that is up keeps reconciling; a provider asked again and again makes
\* progress; calls settle, claims of dead replicas expire; the recovery loops run.
FairSpec ==
    /\ Spec
    /\ \A w \in Workers : WF_vars(Work(w))
    /\ SF_vars(\E w \in Workers : Progress(w))
    /\ \A k \in Destroyers : WF_vars(Decommissioner(k))
    /\ WF_vars(Environment) /\ WF_vars(AutomaticResolver)

-----------------------------------------------------------------------------
(* Properties. *)

\* Type correctness of the ledger, of the actors and of the provider's side.
TypeOK ==
    /\ head \in [Ops -> Phases]
    /\ bound \in [Provisions -> SUBSET Handles]
    /\ targets \in [Decommissions -> SUBSET Handles]
    /\ claim \in [Ops -> [state : {"none", "active", "released"}, by : Workers \union {Nobody},
                          expired : BOOLEAN]]
    /\ guard \in Provisions \union {NoOp}
    /\ obs \in SUBSET SUBSET Handles
    /\ decisions \in Seq(Outcomes)
    /\ cancelled \in BOOLEAN
    /\ server \in {"provisioning", "enrolling", "failed", "decommissioning", "decommissioned"}
    /\ slot \in {"reserved", "resource_free", "provider_absence"}
    /\ recent \in Nat
    /\ worker \in [Workers ->
           [call : [st : {"idle", "claimed", "calling", "returned", "down"}, op : Ops \union {NoOp},
                    at : Phases, res : Phases, got : SUBSET Handles],
            todo : SUBSET Ops]]
    /\ queue \subseteq Provisions
    /\ resolver \in [Resolvers -> Nat]
    /\ decom \in [Destroyers ->
           [st : {"idle", "prepared", "resolving"}, attempts : Nat, targets : SUBSET Handles]]
    /\ stalls \in Nat
    /\ calls \subseteq Provisions /\ creates \in Nat
    /\ created \subseteq Handles /\ live \subseteq Handles /\ doomed \subseteq Handles

\* The provider is asked at most once to create the generation, whichever
\* provision operation asks, over crashes, lost claims, retries and resolution.
DispatchedAtMostOnce == creates <= 1

\* A decommission attempt is opened only when every earlier one has failed: two
\* destroy calls with snapshots of different age never delete under two keys.
AttemptsAreSerial ==
    \A d, e \in Decommissions : e < d /\ head[d] # "none" => head[e] = "failed"

\* A released capacity slot has no recorded handle that is still at the provider.
ReleasedMeansGone == slot # "reserved" => Bound \intersect live = {}

\* The ledger implements the custody it promises.
Custody == INSTANCE RuntimeCustody WITH
    known <- Bound, gone <- created \ live, creates <- creates,
    slot <- IF slot = "reserved" THEN "reserved" ELSE "released"
ImplementsCustody == Custody!CustodySpec

\* Teardown waits for a human: the create is undecided or quarantined, its failed
\* head has a candidate or an outdated observation, or attempts are used up.
NeedsOperator ==
    \/ \E p \in Provisions : Guarded(p) /\ ~ZeroDecided(p)
    \/ /\ guard # NoOp /\ head[guard] = "failed" /\ bound[guard] = {}
       /\ Candidates # {} \/ ~(obs \subseteq {Candidates})
    \/ recent >= Budget \/ \A d \in Decommissions : head[d] = "failed"

\* A requested teardown releases the slot, or ends where only an operator helps.
TeardownConverges == cancelled ~> (slot # "reserved" \/ NeedsOperator)
=============================================================================
