------------------------ MODULE ProviderControl_proofs ------------------------
(***************************************************************************)
(* Proofs about the provider-control ledger, for any operations, workers,  *)
(* handles and bounds.                                                     *)
(***************************************************************************)
EXTENDS ProviderControl, FiniteSetTheorems, TLAPS

\* Everything recorded was left behind by a create call.
HandleInv ==
    /\ live \subseteq created /\ UNION obs \subseteq created
    /\ \A p \in Provisions : bound[p] \subseteq created
    /\ \A d \in Decommissions : targets[d] \subseteq created
    /\ \A w \in Workers : worker[w].call.got \subseteq created
    /\ \A k \in Destroyers : decom[k].targets \subseteq created

\* Handles are recorded when an operation leaves the accepted head.
HeadInv ==
    /\ \A p \in Provisions : head[p] \in {"none", "requested", "accepted"} => bound[p] = {}
    /\ \A d \in Decommissions : head[d] # "none" => cancelled

Calling == {"claimed", "calling", "returned"}

\* The call of a worker is under the head it was claimed at. A create call holds
\* the guard; an answer that a graph is absent stays true.
CallInv(w) ==
    LET c == worker[w].call IN
    /\ c.st \in Calling => c.op \in Ops
    /\ c.st \notin Calling => c.op = NoOp
    /\ c.op \in Provisions => c.at \in {"accepted", "resources_bound"}
    /\ c.op \in Decommissions =>
          /\ c.at \in {"accepted", "delete_accepted", "absence_pending"}
          /\ head[c.op] # "none"
    /\ Dispatching(c) => guard = c.op /\ (c.st = "claimed" => creates = 0)
    /\ c.st = "returned" =>
          /\ c.res # "none"
          /\ c.op \in Provisions /\ ~Dispatching(c) =>
                c.res \in {"resources_bound", "failed", "present"}
          /\ Dispatching(c) => c.res \in {"accepted", "resources_bound", "failed"}
          /\ c.op \in Decommissions /\ c.res = "absent" => targets[c.op] \intersect live = {}

Creating(w) == worker[w].call.st = "claimed" /\ Dispatching(worker[w].call)

\* The guard row is inserted once, with the only claim that may create.
GuardInv ==
    /\ guard = NoOp => creates = 0 /\ obs = {} /\ decisions = <<>>
    /\ guard # NoOp => head[guard] \notin {"none", "requested"}
    /\ creates <= 1
    /\ \A v, w \in Workers : Creating(v) /\ Creating(w) => v = w

\* The claim of the create can still record a handle.
CreateLive == guard # NoOp /\ head[guard] = "accepted" /\ Live(guard)

\* A decision, or the tombstone, ends the claim of the create for good. The slot is
\* released with the tombstone, under a requested teardown.
ReleaseInv ==
    /\ decisions # <<>> => ~CreateLive
    /\ slot # "reserved" <=> Tombstoned
    /\ slot # "reserved" => cancelled /\ ~CreateLive /\ Bound \intersect live = {}

\* Attempts are opened in order, and a snapshot counts attempts that have failed.
AttemptInv ==
    /\ AttemptsAreSerial
    /\ \A k \in Destroyers : \A d \in Decommissions :
          d <= decom[k].attempts => head[d] = "failed"

Inv ==
    /\ TypeOK /\ HandleInv /\ HeadInv /\ \A w \in Workers : CallInv(w)
    /\ GuardInv /\ ReleaseInv /\ AttemptInv

---------------------------------------------------------------------------
\* The passes of the workers

CallType ==
    [st : {"idle", "claimed", "calling", "returned", "down"}, op : Ops \union {NoOp},
     at : Phases, res : Phases, got : SUBSET Handles]
WorkerType == [call : CallType, todo : SUBSET Ops]
ClaimType ==
    [state : {"none", "active", "released"}, by : Workers \union {Nobody}, expired : BOOLEAN]

\* The step is about the pass of w alone.
OnlyWorker(w) ==
    /\ worker' \in [Workers -> WorkerType]
    /\ \A v \in Workers \ {w} : worker'[v] = worker[v]

\* A step that only shortens or fills the batch of a worker leaves its call alone.
LEMMA BatchFacts ==
    ASSUME TypeOK, NEW w \in Workers, NEW T \in SUBSET Ops,
           worker' = [worker EXCEPT ![w].todo = T]
    PROVE  OnlyWorker(w) /\ worker'[w].call = worker[w].call
<1>1. worker \in [Workers -> WorkerType] /\ worker[w] \in WorkerType
  BY DEF TypeOK, WorkerType, CallType
<1> QED BY <1>1 DEF OnlyWorker, WorkerType

\* The Advance of an operation without a call.
LEMMA DoneFacts ==
    ASSUME TypeOK, NEW w \in Workers, NEW o \in Ops, Done(w, o)
    PROVE  OnlyWorker(w) /\ worker'[w].call = worker[w].call
<1>1. worker \in [Workers -> WorkerType] /\ worker[w] \in WorkerType
  BY DEF TypeOK, WorkerType, CallType
<1> QED BY <1>1 DEF Done, OnlyWorker, WorkerType

\* A claim opens a call at the head it was made for.
LEMMA BeginsFacts ==
    ASSUME TypeOK, NEW w \in Workers, NEW o \in Ops, Begins(w, o)
    PROVE  /\ OnlyWorker(w) /\ worker'[w].call \in CallType
           /\ worker'[w].call.st = "claimed" /\ worker'[w].call.op = o
           /\ worker'[w].call.at = head[o] /\ worker'[w].call.got = {}
<1>1. worker \in [Workers -> WorkerType] /\ worker[w] \in WorkerType /\ head[o] \in Phases
  BY DEF TypeOK, WorkerType, CallType
<1> DEFINE c == [Call0 EXCEPT !.st = "claimed", !.op = o, !.at = head[o]]
           r == [call |-> c, todo |-> worker[w].todo \ {o}]
<1>2. /\ c \in CallType /\ c.st = "claimed" /\ c.op = o /\ c.at = head[o] /\ c.got = {}
  BY <1>1 DEF CallType, Call0, Phases
<1>3. worker' = [worker EXCEPT ![w] = r]
  BY <1>1 DEF Begins, WorkerType
<1> HIDE DEF c
<1>4. r \in WorkerType /\ r.call = c
  BY <1>1, <1>2 DEF WorkerType
<1> HIDE DEF r
<1> QED BY <1>1, <1>2, <1>3, <1>4 DEF OnlyWorker

\* A call is replaced.
LEMMA CallFacts ==
    ASSUME TypeOK, NEW w \in Workers, NEW c \in CallType,
           worker' = [worker EXCEPT ![w].call = c]
    PROVE  OnlyWorker(w) /\ worker'[w].call = c
<1>1. worker \in [Workers -> WorkerType] /\ worker[w] \in WorkerType
  BY DEF TypeOK, WorkerType, CallType
<1> QED BY <1>1 DEF OnlyWorker, WorkerType

\* No call, and the call of a crashed worker.
LEMMA IdleCall ==
    /\ Call0 \in CallType /\ Call0.st = "idle" /\ Call0.op = NoOp /\ Call0.got = {}
    /\ LET c == [Call0 EXCEPT !.st = "down"] IN
       c \in CallType /\ c.st = "down" /\ c.op = NoOp /\ c.got = {}
BY DEF Call0, CallType, Phases

\* A worker that goes down loses its call.
LEMMA CrashFacts ==
    ASSUME TypeOK, NEW w \in Workers, Crash(w)
    PROVE  /\ OnlyWorker(w) /\ worker'[w].call.st = "down" /\ worker'[w].call.op = NoOp
           /\ worker'[w].call.got = {}
<1>1. worker \in [Workers -> WorkerType]
  BY DEF TypeOK, WorkerType, CallType
<1> DEFINE c == [Call0 EXCEPT !.st = "down"]
           r == [call |-> c, todo |-> {}]
<1>2. worker' = [worker EXCEPT ![w] = r]
  BY DEF Crash
<1>3. r \in WorkerType /\ r.call = c
  BY IdleCall DEF WorkerType
<1> HIDE DEF r
<1> QED BY <1>1, <1>2, <1>3, IdleCall DEF OnlyWorker

\* The create call goes out.
LEMMA DispatchFacts ==
    ASSUME TypeOK, NEW w \in Workers, DispatchCreate(w)
    PROVE  /\ OnlyWorker(w) /\ worker'[w].call.st = "calling"
           /\ worker'[w].call.op = worker[w].call.op /\ worker'[w].call.at = worker[w].call.at
           /\ worker'[w].call.got = worker[w].call.got
<1>1. worker \in [Workers -> WorkerType] /\ worker[w] \in WorkerType
  BY DEF TypeOK, WorkerType, CallType
<1> DEFINE c == [worker[w].call EXCEPT !.st = "calling"]
<1>2. worker' = [worker EXCEPT ![w].call = c]
  BY <1>1 DEF DispatchCreate, WorkerType
<1>3. /\ c \in CallType /\ c.st = "calling" /\ c.op = worker[w].call.op
      /\ c.at = worker[w].call.at /\ c.got = worker[w].call.got
  BY <1>1 DEF WorkerType, CallType
<1> HIDE DEF c
<1> QED BY <1>2, <1>3, CallFacts

\* The answer of the adapter is kept with the call.
LEMMA AnswerFacts ==
    ASSUME TypeOK, NEW w \in Workers, NEW x \in Results0, Answer(w, x)
    PROVE  /\ OnlyWorker(w) /\ worker'[w].call.st = "returned"
           /\ worker'[w].call.op = worker[w].call.op /\ worker'[w].call.at = worker[w].call.at
           /\ worker'[w].call.res = x.res /\ worker'[w].call.got = x.got
           /\ worker[w].call.op # NoOp /\ x \in Results(worker[w].call)
<1>1. worker \in [Workers -> WorkerType] /\ worker[w] \in WorkerType
  BY DEF TypeOK, WorkerType, CallType
<1> DEFINE c == [worker[w].call EXCEPT !.st = "returned", !.res = x.res, !.got = x.got]
<1>2. worker' = [worker EXCEPT ![w].call = c]
  BY <1>1 DEF Answer, WorkerType
<1>3. /\ c \in CallType /\ c.st = "returned" /\ c.op = worker[w].call.op
      /\ c.at = worker[w].call.at /\ c.res = x.res /\ c.got = x.got
  BY <1>1 DEF WorkerType, CallType, Results0
<1> HIDE DEF c
<1> QED BY <1>2, <1>3, CallFacts DEF Answer

---------------------------------------------------------------------------
\* Types

\* Provisions, decommissions and the empty guard are told apart.
LEMMA OpsFacts ==
    /\ NoOp \notin Ops /\ Provisions \subseteq Ops /\ Decommissions \subseteq Ops
    /\ \A p \in Provisions : p \notin Decommissions
    /\ \A d \in Decommissions : d \in Nat /\ d >= 1 /\ d <= MaxAttempts
BY ProviderAssumption DEF Ops, Decommissions

\* The number of failed attempts is a number.
LEMMA AttemptsCount ==
    /\ IsFiniteSet({d \in Decommissions : head[d] = "failed"})
    /\ FailedAttempts \in Nat
<1>1. IsFiniteSet(Decommissions)
  BY FS_Interval, ProviderAssumption DEF Decommissions
<1>2. {d \in Decommissions : head[d] = "failed"} \in SUBSET Decommissions
  OBVIOUS
<1>3. IsFiniteSet({d \in Decommissions : head[d] = "failed"})
  BY <1>1, <1>2, FS_Subset
<1> QED BY <1>3, FS_CardinalityType DEF FailedAttempts

\* The parts of the type invariant.
OpsType ==
    /\ head \in [Ops -> Phases] /\ bound \in [Provisions -> SUBSET Handles]
    /\ targets \in [Decommissions -> SUBSET Handles] /\ claim \in [Ops -> ClaimType]
CustodyType ==
    /\ guard \in Provisions \union {NoOp} /\ obs \in SUBSET SUBSET Handles
    /\ decisions \in Seq(Outcomes)
LeaseType ==
    /\ cancelled \in BOOLEAN
    /\ server \in {"provisioning", "enrolling", "failed", "decommissioning", "decommissioned"}
    /\ slot \in {"reserved", "resource_free", "provider_absence"}
    /\ recent \in Nat
DecomType == [st : {"idle", "prepared", "resolving"}, attempts : Nat, targets : SUBSET Handles]
ResolverType ==
    /\ queue \subseteq Provisions /\ resolver \in [Resolvers -> Nat]
    /\ decom \in [Destroyers -> DecomType] /\ stalls \in Nat
ProviderType ==
    /\ calls \subseteq Provisions /\ creates \in Nat
    /\ created \subseteq Handles /\ live \subseteq Handles /\ doomed \subseteq Handles

LEMMA TypeParts ==
    TypeOK <=> /\ OpsType /\ CustodyType /\ LeaseType /\ ResolverType /\ ProviderType
               /\ worker \in [Workers -> WorkerType]
BY DEF TypeOK, OpsType, CustodyType, LeaseType, ResolverType, ProviderType, WorkerType,
       CallType, ClaimType, DecomType

LEMMA TypePartsNext ==
    ASSUME OpsType', CustodyType', LeaseType', ResolverType', ProviderType',
           worker' \in [Workers -> WorkerType]
    PROVE  TypeOK'
BY DEF TypeOK, OpsType, CustodyType, LeaseType, ResolverType, ProviderType, WorkerType,
       CallType, ClaimType, DecomType

\* What a step leaves alone keeps its type.
LEMMA TypeFrame ==
    /\ OpsType /\ UNCHANGED ops => OpsType'
    /\ CustodyType /\ UNCHANGED custody => CustodyType'
    /\ LeaseType /\ UNCHANGED lease => LeaseType'
    /\ ProviderType /\ UNCHANGED provider => ProviderType'
BY DEF OpsType, CustodyType, LeaseType, ProviderType, ops, custody, lease, provider

\* A fresh claim, and the end of one.
LEMMA ClaimTypes ==
    /\ NoClaim \in ClaimType
    /\ \A w \in Workers : Claimed(w) \in ClaimType
    /\ \A c \in ClaimType : [c EXCEPT !.expired = TRUE] \in ClaimType
    /\ \A c \in ClaimType : [c EXCEPT !.state = "released"] \in ClaimType
BY DEF NoClaim, Claimed, ClaimType

LEMMA NoCandidateType == NoCandidate \in DecomType
BY DEF NoCandidate, DecomType

\* A step that changes the lease by its tombstone.
LEMMA TombstoneType ==
    ASSUME LeaseType, NEW a \in {"resource_free", "provider_absence"}, Tombstone(a),
           UNCHANGED <<cancelled, recent>>
    PROVE  LeaseType'
BY DEF LeaseType, Tombstone

\* The end of a resolution workflow.
LEMMA FinishedType ==
    ASSUME ResolverType, CustodyType, NEW r \in Resolvers, Finished(r), UNCHANGED stalls
    PROVE  ResolverType'
<1>1. resolver' \in [Resolvers -> Nat] /\ queue' \subseteq Provisions
  BY DEF ResolverType, Finished
<1>2. decom' \in [Destroyers -> DecomType]
  BY NoCandidateType DEF ResolverType, Finished
<1> QED BY <1>1, <1>2 DEF ResolverType

\* The decommissioner's calls change their own snapshot only.
LEMMA DecomType1 ==
    ASSUME ResolverType, NEW k \in Destroyers, NEW r \in DecomType,
           decom' = [decom EXCEPT ![k] = r], UNCHANGED <<queue, resolver, stalls>>
    PROVE  ResolverType'
BY DEF ResolverType

LEMMA ResolverFrame ==
    ASSUME ResolverType, UNCHANGED <<queue, resolver, decom, stalls>>
    PROVE  ResolverType'
BY DEF ResolverType

\* The steps of a worker keep the types.
LEMMA WorkTypes ==
    ASSUME TypeOK, NEW w \in Workers, Work(w) \/ Crash(w)
    PROVE  TypeOK'
<1> USE TypeParts, TypePartsNext
<1>0. OpsType /\ CustodyType /\ LeaseType /\ ResolverType /\ ProviderType
  OBVIOUS
<1>1. CASE ListRunnable(w)
  <2>1. Runnable \in SUBSET Ops
    BY DEF Runnable
  <2>2. worker' \in [Workers -> WorkerType]
    BY <1>1, <2>1, BatchFacts DEF ListRunnable, OnlyWorker
  <2> QED BY <1>0, <1>1, <2>2, TypeFrame, ResolverFrame DEF ListRunnable
<1>2. ASSUME NEW p \in Provisions, AdvanceFinalize(w, p) PROVE TypeOK'
  <2>1. worker' \in [Workers -> WorkerType]
    BY <1>2, DoneFacts, OpsFacts DEF AdvanceFinalize, OnlyWorker
  <2>2. LeaseType'
    BY <1>0, <1>2, TombstoneType DEF AdvanceFinalize, FinalizeTeardown
  <2> QED BY <1>0, <1>2, <2>1, <2>2, TypeFrame, ResolverFrame DEF AdvanceFinalize, FinalizeTeardown
<1>3. ASSUME NEW p \in Provisions, AdvancePark(w, p) PROVE TypeOK'
  <2>1. worker' \in [Workers -> WorkerType]
    BY <1>3, DoneFacts, OpsFacts DEF AdvancePark, OnlyWorker
  <2>2. ResolverType'
    BY <1>0, <1>3 DEF AdvancePark, ResolverType
  <2> QED BY <1>0, <1>3, <2>1, <2>2, TypeFrame DEF AdvancePark
<1>4. ASSUME NEW p \in Provisions, AdvanceDispatch(w, p) PROVE TypeOK'
  <2>1. worker' \in [Workers -> WorkerType]
    BY <1>4, BeginsFacts, OpsFacts DEF AdvanceDispatch, OnlyWorker
  <2>2. OpsType' /\ CustodyType'
    BY <1>0, <1>4, ClaimTypes, OpsFacts DEF AdvanceDispatch, OpsType, CustodyType
  <2> QED BY <1>0, <1>4, <2>1, <2>2, TypeFrame, ResolverFrame DEF AdvanceDispatch
<1>5. ASSUME NEW o \in Ops, AdvanceAccept(w, o) PROVE TypeOK'
  <2>1. worker' \in [Workers -> WorkerType]
    BY <1>5, DoneFacts DEF AdvanceAccept, OnlyWorker
  <2>2. OpsType'
    BY <1>0, <1>5 DEF AdvanceAccept, OpsType, Phases, Pending
  <2> QED BY <1>0, <1>5, <2>1, <2>2, TypeFrame, ResolverFrame DEF AdvanceAccept
<1>6. ASSUME NEW o \in Ops, AdvanceClaim(w, o) PROVE TypeOK'
  <2>1. worker' \in [Workers -> WorkerType]
    BY <1>6, BeginsFacts DEF AdvanceClaim, OnlyWorker
  <2>2. OpsType'
    BY <1>0, <1>6, ClaimTypes DEF AdvanceClaim, OpsType
  <2> QED BY <1>0, <1>6, <2>1, <2>2, TypeFrame, ResolverFrame DEF AdvanceClaim
<1>7. ASSUME NEW o \in Ops, AdvanceNothing(w, o) PROVE TypeOK'
  <2>1. worker' \in [Workers -> WorkerType]
    BY <1>7, DoneFacts DEF AdvanceNothing, OnlyWorker
  <2> QED BY <1>0, <1>7, <2>1, TypeFrame, ResolverFrame DEF AdvanceNothing
<1>8. CASE DispatchCreate(w)
  <2>1. worker' \in [Workers -> WorkerType]
    BY <1>8, DispatchFacts DEF OnlyWorker
  <2>2. ProviderType'
    BY <1>0, <1>8 DEF DispatchCreate, Dispatching, ProviderType
  <2> QED BY <1>0, <1>8, <2>1, <2>2, TypeFrame, ResolverFrame DEF DispatchCreate
<1>9. ASSUME NEW x \in Results0, Answer(w, x) PROVE TypeOK'
  <2>1. worker' \in [Workers -> WorkerType]
    BY <1>9, AnswerFacts DEF OnlyWorker
  <2>2. ProviderType'
    BY <1>0, <1>9 DEF Answer, OpsType, ProviderType
  <2> QED BY <1>0, <1>9, <2>1, <2>2, TypeFrame, ResolverFrame DEF Answer
<1>10. CASE AppendReceipt(w)
  <2> DEFINE c == worker[w].call
  <2>1. worker' \in [Workers -> WorkerType]
    BY <1>10, CallFacts, IdleCall DEF AppendReceipt, OnlyWorker
  <2>2. c \in CallType /\ c.op \in Ops
    BY <1>10 DEF AppendReceipt, Appends, WorkerType, CallType
  <2>3. LeaseType'
    <3>1. CASE UNCHANGED lease
      BY <1>0, <3>1, TypeFrame
    <3>2. CASE Tombstone("provider_absence") /\ UNCHANGED <<cancelled, recent>>
      BY <1>0, <3>2, TombstoneType
    <3>3. CASE ~UNCHANGED lease /\ ~(Tombstone("provider_absence") /\ UNCHANGED <<cancelled, recent>>)
      BY <1>0, <1>10, <3>3 DEF AppendReceipt, Project, LeaseType, Charged
    <3> QED BY <3>1, <3>2, <3>3
  <2>4. OpsType'
    BY <1>0, <1>10, <2>2, ClaimTypes DEF AppendReceipt, OpsType, CallType, Dispatching
  <2> QED BY <1>0, <1>10, <2>1, <2>3, <2>4, TypeFrame, ResolverFrame DEF AppendReceipt
<1>11. CASE ReleaseClaim(w)
  <2>1. worker' \in [Workers -> WorkerType]
    BY <1>11, CallFacts, IdleCall DEF ReleaseClaim, OnlyWorker
  <2>2. worker[w].call.op \in Ops
    BY <1>11 DEF ReleaseClaim, WorkerType, CallType
  <2>3. OpsType'
    BY <1>0, <1>11, <2>2, ClaimTypes DEF ReleaseClaim, OpsType
  <2> QED BY <1>0, <1>11, <2>1, <2>3, TypeFrame, ResolverFrame DEF ReleaseClaim
<1>12. CASE Crash(w)
  <2>1. worker' \in [Workers -> WorkerType]
    BY <1>12, CrashFacts DEF OnlyWorker
  <2> QED BY <1>0, <1>12, <2>1, TypeFrame, ResolverFrame DEF Crash
<1> QED BY <1>1, <1>2, <1>3, <1>4, <1>5, <1>6, <1>7, <1>8, <1>9, <1>10, <1>11, <1>12
        DEF Work, Advance

\* The steps of the environment, of resolution and of the decommissioner keep the types.
LEMMA OtherTypes ==
    ASSUME TypeOK
    PROVE  /\ \A p \in Provisions : StartProvision(p) \/ Land(p) \/ Lose(p) \/ DropQueued(p) => TypeOK'
           /\ \A h \in Handles : Vanish(h) => TypeOK'
           /\ \A o \in Ops : ExpireClaim(o) => TypeOK'
           /\ \A r \in Resolvers : Discover(r) \/ Decide(r) \/ Refuse(r) => TypeOK'
           /\ WindowPasses => TypeOK'
<1> USE TypeParts, TypePartsNext
<1>0. /\ OpsType /\ CustodyType /\ LeaseType /\ ResolverType /\ ProviderType
      /\ worker \in [Workers -> WorkerType]
  OBVIOUS
<1>a. UNCHANGED actors => ResolverType' /\ worker' = worker
  BY <1>0, ResolverFrame DEF actors
<1>1. ASSUME NEW p \in Provisions, StartProvision(p) PROVE TypeOK'
  <2>1. OpsType'
    BY <1>0, <1>1, OpsFacts DEF StartProvision, OpsType, Phases, Pending
  <2> QED BY <1>0, <1>a, <1>1, <2>1, TypeFrame DEF StartProvision
<1>2. ASSUME NEW p \in Provisions, Land(p) PROVE TypeOK'
  <2>1. ProviderType'
    BY <1>0, <1>2 DEF Land, ProviderType
  <2> QED BY <1>0, <1>a, <1>2, <2>1, TypeFrame DEF Land
<1>3. ASSUME NEW p \in Provisions, Lose(p) PROVE TypeOK'
  <2>1. ProviderType'
    BY <1>0, <1>3 DEF Lose, ProviderType
  <2> QED BY <1>0, <1>a, <1>3, <2>1, TypeFrame DEF Lose
<1>4. ASSUME NEW p \in Provisions, DropQueued(p) PROVE TypeOK'
  <2>1. ResolverType'
    BY <1>0, <1>4 DEF DropQueued, ResolverType
  <2> QED BY <1>0, <1>4, <2>1, TypeFrame DEF DropQueued
<1>5. ASSUME NEW h \in Handles, Vanish(h) PROVE TypeOK'
  <2>1. ProviderType'
    BY <1>0, <1>5 DEF Vanish, ProviderType
  <2> QED BY <1>0, <1>a, <1>5, <2>1, TypeFrame DEF Vanish
<1>6. ASSUME NEW o \in Ops, ExpireClaim(o) PROVE TypeOK'
  <2>1. OpsType' /\ ResolverType'
    BY <1>0, <1>6, ClaimTypes DEF ExpireClaim, OpsType, ResolverType
  <2> QED BY <1>0, <1>6, <2>1, TypeFrame DEF ExpireClaim
<1>7. ASSUME NEW r \in Resolvers, Discover(r) PROVE TypeOK'
  <2>1. CustodyType'
    BY <1>0, <1>7 DEF Discover, CustodyType, ProviderType, Candidates
  <2>2. ResolverType'
    BY <1>0, <1>7 DEF Discover, CustodyType, ResolverType
  <2> QED BY <1>0, <1>7, <2>1, <2>2, TypeFrame DEF Discover
<1>8. ASSUME NEW r \in Resolvers, Decide(r) PROVE TypeOK'
  <2> DEFINE out == Outcome(UNION obs)
  <2>1. out \in Outcomes
    BY DEF Outcome, Outcomes
  <2>2. CustodyType'
    <3> HIDE DEF out
    <3>1. decisions' = Append(decisions, out) /\ obs' = {} /\ guard' = guard
      BY <1>8 DEF Decide, out
    <3> QED BY <1>0, <2>1, <3>1 DEF CustodyType
  <2>3. ResolverType'
    BY <1>0, <1>8, FinishedType DEF Decide
  <2>4. LeaseType'
    <3>1. CASE head[guard] = "failed"
      BY <1>0, <1>8, <3>1, TombstoneType DEF Decide
    <3>2. CASE head[guard] # "failed"
      BY <1>0, <1>8, <3>2 DEF Decide, LeaseType
    <3> QED BY <3>1, <3>2
  <2>5. UNION obs \in SUBSET Handles
    BY <1>0 DEF CustodyType
  <2>6. OpsType'
    BY <1>0, <1>8, <2>5, ClaimTypes, OpsFacts DEF Decide, OpsType, Phases, Pending
  <2> QED BY <1>0, <1>8, <2>2, <2>3, <2>4, <2>6, TypeFrame DEF Decide
<1>9. ASSUME NEW r \in Resolvers, Refuse(r) PROVE TypeOK'
  BY <1>0, <1>9, TypeFrame, FinishedType DEF Refuse
<1>10. ASSUME WindowPasses PROVE TypeOK'
  <2>1. LeaseType'
    BY <1>0, <1>10 DEF WindowPasses, LeaseType
  <2> QED BY <1>0, <1>a, <1>10, <2>1, TypeFrame DEF WindowPasses
<1> QED BY <1>1, <1>2, <1>3, <1>4, <1>5, <1>6, <1>7, <1>8, <1>9, <1>10

LEMMA DecommissionerTypes ==
    ASSUME TypeOK, NEW k \in Destroyers
    PROVE  /\ Prepare(k) \/ ConvergeWait(k) => TypeOK'
           /\ \A p \in Provisions : ConvergeFinalize(k, p) \/ ConvergeResolve(k, p) => TypeOK'
           /\ \A d \in Decommissions : StartDecommission(k, d) => TypeOK'
<1> USE TypeParts, TypePartsNext
<1>0. /\ OpsType /\ CustodyType /\ LeaseType /\ ResolverType /\ ProviderType
      /\ worker \in [Workers -> WorkerType] /\ decom[k] \in DecomType
  BY DEF ResolverType
<1>1. ASSUME Prepare(k) PROVE TypeOK'
  <2> DEFINE r == [st |-> "prepared", attempts |-> FailedAttempts, targets |-> Bound]
  <2>1. Bound \in SUBSET Handles
    BY <1>0 DEF Bound, OpsType
  <2>2. r \in DecomType
    BY <2>1, AttemptsCount DEF DecomType
  <2>3. ResolverType'
    BY <1>0, <1>1, <2>2, DecomType1 DEF Prepare
  <2>4. LeaseType'
    BY <1>0, <1>1 DEF Prepare, LeaseType
  <2> QED BY <1>0, <1>1, <2>3, <2>4, TypeFrame DEF Prepare
<1>2. ASSUME ConvergeWait(k) PROVE TypeOK'
  BY <1>0, <1>2, NoCandidateType, DecomType1, TypeFrame DEF ConvergeWait
<1>3. ASSUME NEW p \in Provisions, ConvergeFinalize(k, p) PROVE TypeOK'
  <2>1. LeaseType'
    BY <1>0, <1>3, TombstoneType DEF ConvergeFinalize, FinalizeTeardown
  <2> QED BY <1>0, <1>3, <2>1, NoCandidateType, DecomType1, TypeFrame
          DEF ConvergeFinalize, FinalizeTeardown
<1>4. ASSUME NEW p \in Provisions, ConvergeResolve(k, p) PROVE TypeOK'
  <2>1. [decom[k] EXCEPT !.st = "resolving"] \in DecomType
    BY <1>0 DEF DecomType
  <2>2. decom' = [decom EXCEPT ![k] = [decom[k] EXCEPT !.st = "resolving"]]
    BY <1>4 DEF ConvergeResolve
  <2> QED BY <1>0, <1>4, <2>1, <2>2, DecomType1, TypeFrame DEF ConvergeResolve
<1>5. ASSUME NEW d \in Decommissions, StartDecommission(k, d) PROVE TypeOK'
  <2>1. OpsType'
    BY <1>0, <1>5, OpsFacts DEF StartDecommission, OpsType, DecomType, Phases, Pending
  <2> QED BY <1>0, <1>5, <2>1, NoCandidateType, DecomType1, TypeFrame DEF StartDecommission
<1> QED BY <1>1, <1>2, <1>3, <1>4, <1>5

\* Every step keeps the types.
LEMMA NextTypes ==
    ASSUME TypeOK, [Next]_vars
    PROVE  TypeOK'
<1>1. Operator \in Resolvers /\ Automatic \in Resolvers /\ Destroyers \subseteq Resolvers
  BY DEF Resolvers
<1>2. ASSUME UNCHANGED vars PROVE TypeOK'
  BY <1>2, TypeParts, TypePartsNext, TypeFrame, ResolverFrame DEF vars, actors
<1> QED BY <1>1, <1>2, WorkTypes, OtherTypes, DecommissionerTypes
        DEF Next, Environment, AutomaticResolver, Decommissioner

LEMMA InitTypes == Init => TypeOK
<1> SUFFICES ASSUME Init PROVE TypeOK
  OBVIOUS
<1>1. OpsType
  BY ClaimTypes, OpsFacts DEF Init, OpsType, Phases, Pending
<1>2. CustodyType
  <2>1. <<>> \in Seq(Outcomes)
    OBVIOUS
  <2> QED BY <2>1 DEF Init, CustodyType
<1>5. LeaseType /\ ProviderType
  BY DEF Init, LeaseType, ProviderType
<1>3. ResolverType
  BY NoCandidateType DEF Init, ResolverType
<1>4. worker \in [Workers -> WorkerType]
  BY IdleCall DEF Init, WorkerType
<1> QED BY <1>1, <1>2, <1>3, <1>4, <1>5, TypeParts

---------------------------------------------------------------------------
\* The invariant is inductive

\* The facts the ledger keeps besides its types.
Rest ==
    /\ HandleInv /\ HeadInv /\ \A w \in Workers : CallInv(w)
    /\ GuardInv /\ ReleaseInv /\ AttemptInv

\* The ledger and the provider stand still.
Still ==
    /\ UNCHANGED <<head, bound, targets, guard, obs, decisions>>
    /\ UNCHANGED <<cancelled, server, slot, creates, created, live>>

\* A snapshot is kept or given up.
Snapshots ==
    \A k \in Destroyers :
        /\ decom'[k].targets = decom[k].targets \/ decom'[k].targets = {}
        /\ decom'[k].attempts = decom[k].attempts \/ decom'[k].attempts = 0

\* Snapshots stay good while the handles grow and failed attempts stay failed.
LEMMA SnapshotsKeep ==
    ASSUME Inv, Snapshots, created \subseteq created',
           \A d \in Decommissions : head[d] = "failed" => head'[d] = "failed"
    PROVE  /\ \A k \in Destroyers : decom'[k].targets \subseteq created'
           /\ \A k \in Destroyers : \A d \in Decommissions :
                d <= decom'[k].attempts => head'[d] = "failed"
BY OpsFacts DEF Inv, HandleInv, AttemptInv, Snapshots

\* A step that only ends claims, shortens batches or gives up snapshots.
LEMMA QuietKeeps ==
    ASSUME Inv, Still, Snapshots,
           \A o \in Ops : Live(o)' => Live(o),
           \A v \in Workers : worker'[v].call = worker[v].call
    PROVE  Rest'
<1>1. HandleInv'
  BY SnapshotsKeep DEF Inv, HandleInv, Still
<1>2. HeadInv'
  BY DEF Inv, HeadInv, Still
<1>3. \A w \in Workers : CallInv(w)'
  BY DEF Inv, CallInv, Dispatching, Still
<1>4. GuardInv'
  BY DEF Inv, GuardInv, Creating, Dispatching, Still
<1>5. ReleaseInv'
  <2>1. CreateLive' => CreateLive
    BY OpsFacts DEF Inv, TypeOK, CreateLive, Still
  <2>2. Bound' = Bound
    BY DEF Bound, Still
  <2> QED BY <2>1, <2>2 DEF Inv, ReleaseInv, Still, Tombstoned
<1>6. AttemptInv'
  BY SnapshotsKeep DEF Inv, AttemptInv, AttemptsAreSerial, Still
<1> QED BY <1>1, <1>2, <1>3, <1>4, <1>5, <1>6 DEF Rest

\* A workflow or call that ends gives up its snapshot and no other.
LEMMA GivenUp ==
    ASSUME TypeOK, NEW k \in Destroyers, decom' = [decom EXCEPT ![k] = NoCandidate]
    PROVE  Snapshots
BY DEF TypeOK, Snapshots, NoCandidate

LEMMA FinishedSnapshots ==
    ASSUME TypeOK, NEW r \in Resolvers, Finished(r)
    PROVE  Snapshots
<1>1. CASE r \in Destroyers
  BY <1>1, GivenUp DEF Finished
<1>2. CASE r \notin Destroyers
  BY <1>2 DEF Finished, Snapshots
<1> QED BY <1>1, <1>2

\* The steps that leave the ledger and the provider alone.
LEMMA QuietSteps ==
    ASSUME Inv
    PROVE  /\ \A w \in Workers : ListRunnable(w) => Rest'
           /\ \A w \in Workers, p \in Provisions : AdvancePark(w, p) => Rest'
           /\ \A w \in Workers, o \in Ops : AdvanceNothing(w, o) => Rest'
           /\ \A p \in Provisions : Lose(p) \/ DropQueued(p) => Rest'
           /\ \A o \in Ops : ExpireClaim(o) => Rest'
           /\ \A r \in Resolvers : Refuse(r) => Rest'
           /\ \A k \in Destroyers : ConvergeWait(k) => Rest'
           /\ \A k \in Destroyers, p \in Provisions : ConvergeResolve(k, p) => Rest'
           /\ WindowPasses => Rest'
           /\ UNCHANGED vars => Rest'
<1>0. TypeOK
  BY DEF Inv
<1>a. claim' = claim => \A o \in Ops : Live(o)' => Live(o)
  BY DEF Live
<1>b. decom' = decom => Snapshots
  BY DEF Snapshots
<1>1. ASSUME NEW w \in Workers, ListRunnable(w) PROVE Rest'
  <2>1. Runnable \in SUBSET Ops
    BY DEF Runnable
  <2>2. \A v \in Workers : worker'[v].call = worker[v].call
    BY <1>0, <1>1, <2>1, BatchFacts DEF ListRunnable, OnlyWorker
  <2>3. Still /\ claim' = claim /\ decom' = decom
    BY <1>1 DEF ListRunnable, Still, ops, custody, lease, provider
  <2> QED BY <1>a, <1>b, <2>2, <2>3, QuietKeeps
<1>2. ASSUME NEW w \in Workers, NEW o \in Ops, Done(w, o)
      PROVE  \A v \in Workers : worker'[v].call = worker[v].call
  BY <1>0, <1>2, DoneFacts DEF OnlyWorker
<1>3. ASSUME NEW w \in Workers, NEW p \in Provisions, AdvancePark(w, p) PROVE Rest'
  <2>1. Still /\ claim' = claim /\ decom' = decom /\ Done(w, p)
    BY <1>3 DEF AdvancePark, Still, ops, custody, lease, provider
  <2> QED BY <1>a, <1>b, <1>2, <2>1, QuietKeeps, OpsFacts
<1>4. ASSUME NEW w \in Workers, NEW o \in Ops, AdvanceNothing(w, o) PROVE Rest'
  <2>1. Still /\ claim' = claim /\ decom' = decom /\ Done(w, o)
    BY <1>4 DEF AdvanceNothing, Still, ops, custody, lease, provider
  <2> QED BY <1>a, <1>b, <1>2, <2>1, QuietKeeps
<1>5. ASSUME NEW p \in Provisions, Lose(p) PROVE Rest'
  <2>1. Still /\ claim' = claim /\ decom' = decom /\ worker' = worker
    BY <1>5 DEF Lose, Still, ops, custody, lease, actors
  <2> QED BY <1>a, <1>b, <2>1, QuietKeeps
<1>6. ASSUME NEW p \in Provisions, DropQueued(p) PROVE Rest'
  <2>1. Still /\ claim' = claim /\ decom' = decom /\ worker' = worker
    BY <1>6 DEF DropQueued, Still, ops, custody, lease, provider
  <2> QED BY <1>a, <1>b, <2>1, QuietKeeps
<1>7. ASSUME NEW o \in Ops, ExpireClaim(o) PROVE Rest'
  <2>1. Still /\ decom' = decom /\ worker' = worker
    BY <1>7 DEF ExpireClaim, Still, custody, lease, provider
  <2>2. \A q \in Ops : Live(q)' => Live(q)
    <3>1. claim \in [Ops -> ClaimType] /\ claim' = [claim EXCEPT ![o] = [claim[o] EXCEPT !.expired = TRUE]]
      BY <1>0, <1>7 DEF TypeOK, ExpireClaim, ClaimType
    <3>2. [claim[o] EXCEPT !.expired = TRUE].expired = TRUE
      BY <3>1 DEF ClaimType
    <3> QED BY <3>1, <3>2 DEF Live
  <2> QED BY <1>b, <2>1, <2>2, QuietKeeps
<1>8. ASSUME NEW r \in Resolvers, Refuse(r) PROVE Rest'
  <2>1. Still /\ claim' = claim /\ Snapshots /\ worker' = worker
    BY <1>0, <1>8, FinishedSnapshots DEF Refuse, Still, ops, custody, lease, provider
  <2> QED BY <1>a, <2>1, QuietKeeps
<1>9. ASSUME NEW k \in Destroyers, ConvergeWait(k) PROVE Rest'
  <2>1. Still /\ claim' = claim /\ Snapshots /\ worker' = worker
    BY <1>0, <1>9, GivenUp DEF ConvergeWait, Still, ops, custody, lease, provider
  <2> QED BY <1>a, <2>1, QuietKeeps
<1>10. ASSUME NEW k \in Destroyers, NEW p \in Provisions, ConvergeResolve(k, p) PROVE Rest'
  <2>1. Still /\ claim' = claim /\ worker' = worker
    BY <1>10 DEF ConvergeResolve, Still, ops, custody, lease, provider
  <2>2. Snapshots
    BY <1>0, <1>10 DEF ConvergeResolve, Snapshots, TypeOK
  <2> QED BY <1>a, <2>1, <2>2, QuietKeeps
<1>11. ASSUME WindowPasses PROVE Rest'
  <2>1. Still /\ claim' = claim /\ decom' = decom /\ worker' = worker
    BY <1>11 DEF WindowPasses, Still, ops, custody, actors, provider
  <2> QED BY <1>a, <1>b, <2>1, QuietKeeps
<1>12. ASSUME UNCHANGED vars PROVE Rest'
  <2>1. Still /\ claim' = claim /\ decom' = decom /\ worker' = worker
    BY <1>12 DEF vars, Still, ops, custody, lease, actors, provider
  <2> QED BY <1>a, <1>b, <2>1, QuietKeeps
<1> QED BY <1>1, <1>3, <1>4, <1>5, <1>6, <1>7, <1>8, <1>9, <1>10, <1>11, <1>12

\* What the call of a worker relies on is never taken back by another step.
CallsStand ==
    /\ \A d \in Decommissions : head[d] # "none" =>
          /\ head'[d] # "none" /\ targets'[d] = targets[d]
          /\ targets[d] \intersect live = {} => targets[d] \intersect live' = {}
    /\ guard # NoOp => guard' = guard

LEMMA CallStands ==
    ASSUME Inv, CallsStand, NEW v \in Workers, worker'[v].call = worker[v].call,
           creates' = creates \/ ~Creating(v)
    PROVE  CallInv(v)'
BY OpsFacts DEF Inv, TypeOK, CallInv, CallsStand, Dispatching, Creating

\* Coordinator.Start of a provision.
LEMMA StartProvisionInv ==
    ASSUME Inv, NEW p \in Provisions, StartProvision(p)
    PROVE  Rest'
<1>0. /\ head \in [Ops -> Phases] /\ p \in Ops /\ head[p] = "none" /\ p \notin Decommissions
      /\ head' = [head EXCEPT ![p] = "requested"]
      /\ guard \in Provisions \union {NoOp}
  BY OpsFacts DEF Inv, TypeOK, StartProvision
<1>a. /\ UNCHANGED <<bound, targets, claim, guard, obs, decisions, cancelled, server, slot>>
      /\ UNCHANGED <<worker, decom, creates, created, live>>
  BY DEF StartProvision, custody, lease, actors, provider
<1>1. HandleInv'
  BY <1>a DEF Inv, HandleInv
<1>2. HeadInv'
  BY <1>0, <1>a, OpsFacts DEF Inv, HeadInv
<1>3. \A w \in Workers : CallInv(w)'
  <2>1. CallsStand
    BY <1>0, <1>a, OpsFacts DEF CallsStand
  <2> QED BY <1>a, <2>1, CallStands
<1>4. GuardInv'
  BY <1>0, <1>a, OpsFacts DEF Inv, GuardInv, Creating, Dispatching
<1>5. ReleaseInv'
  <2>1. CreateLive' => CreateLive
    BY <1>0, <1>a, OpsFacts DEF CreateLive, Live
  <2>2. Bound' = Bound
    BY <1>a DEF Bound
  <2> QED BY <1>a, <2>1, <2>2 DEF Inv, ReleaseInv, Tombstoned
<1>6. AttemptInv'
  BY <1>0, <1>a, OpsFacts DEF Inv, AttemptInv, AttemptsAreSerial
<1> QED BY <1>1, <1>2, <1>3, <1>4, <1>5, <1>6 DEF Rest

\* Advance of a requested operation.
LEMMA AcceptInv ==
    ASSUME Inv, NEW w \in Workers, NEW o \in Ops, AdvanceAccept(w, o)
    PROVE  Rest'
<1>0. /\ head \in [Ops -> Phases] /\ head[o] = "requested"
      /\ head' = [head EXCEPT ![o] = "accepted"]
      /\ guard \in Provisions \union {NoOp}
  BY DEF Inv, TypeOK, AdvanceAccept
<1>a. /\ UNCHANGED <<bound, targets, claim, guard, obs, decisions, cancelled, server, slot>>
      /\ UNCHANGED <<decom, creates, created, live>>
  BY DEF AdvanceAccept, custody, lease, provider
<1>b. \A v \in Workers : worker'[v].call = worker[v].call
  BY DoneFacts DEF AdvanceAccept, OnlyWorker, Inv
<1>1. HandleInv'
  BY <1>a, <1>b DEF Inv, HandleInv
<1>2. HeadInv'
  BY <1>0, <1>a, OpsFacts DEF Inv, HeadInv
<1>3. \A v \in Workers : CallInv(v)'
  <2>1. CallsStand
    BY <1>0, <1>a, OpsFacts DEF CallsStand
  <2> QED BY <1>a, <1>b, <2>1, CallStands
<1>4. GuardInv'
  BY <1>0, <1>a, <1>b, OpsFacts DEF Inv, GuardInv, Creating, Dispatching
<1>5. ReleaseInv'
  <2>1. CreateLive' => CreateLive
    BY <1>0, <1>a, OpsFacts DEF CreateLive, Live, Inv, GuardInv
  <2>2. Bound' = Bound
    BY <1>a DEF Bound
  <2> QED BY <1>a, <2>1, <2>2 DEF Inv, ReleaseInv, Tombstoned
<1>6. AttemptInv'
  BY <1>0, <1>a, OpsFacts DEF Inv, AttemptInv, AttemptsAreSerial
<1> QED BY <1>1, <1>2, <1>3, <1>4, <1>5, <1>6 DEF Rest

\* AcquireProvisionDispatchClaim: the guard was free, so nothing was created,
\* observed or decided, and no other worker is about to create.
LEMMA DispatchClaimInv ==
    ASSUME Inv, NEW w \in Workers, NEW p \in Provisions, AdvanceDispatch(w, p)
    PROVE  Rest'
<1>0. /\ p \in Ops /\ p # NoOp /\ head[p] = "accepted" /\ guard = NoOp /\ guard' = p
      /\ ~cancelled /\ ~Tombstoned /\ p \notin Decommissions
  BY OpsFacts DEF Inv, TypeOK, AdvanceDispatch, CanDispatch, FenceAdmits
<1>a. /\ UNCHANGED <<head, bound, targets, obs, decisions, cancelled, server, slot>>
      /\ UNCHANGED <<decom, creates, created, live>>
  BY DEF AdvanceDispatch, lease, provider
<1>b. /\ \A v \in Workers \ {w} : worker'[v] = worker[v]
      /\ worker'[w].call.st = "claimed" /\ worker'[w].call.op = p
      /\ worker'[w].call.at = "accepted" /\ worker'[w].call.got = {}
  BY <1>0, BeginsFacts DEF AdvanceDispatch, OnlyWorker, Inv
<1>1. HandleInv'
  BY <1>a, <1>b DEF Inv, HandleInv
<1>2. HeadInv'
  BY <1>a DEF Inv, HeadInv
<1>c. creates = 0 /\ obs = {} /\ decisions = <<>> /\ creates <= 1
  BY <1>0 DEF Inv, GuardInv
<1>3. \A v \in Workers : CallInv(v)'
  <2>1. CallsStand
    BY <1>0, <1>a DEF CallsStand
  <2>2. \A v \in Workers \ {w} : CallInv(v)'
    BY <1>a, <1>b, <2>1, CallStands
  <2>3. CallInv(w)'
    BY <1>0, <1>a, <1>b, <1>c, OpsFacts DEF CallInv, Dispatching, Calling
  <2> QED BY <2>2, <2>3
<1>4. GuardInv'
  <2>1. \A v \in Workers : ~Creating(v)
    BY <1>0, OpsFacts DEF Inv, CallInv, Creating, Dispatching
  <2>2. \A v \in Workers \ {w} : ~Creating(v)'
    BY <1>b, <2>1 DEF Creating, Dispatching
  <2> QED BY <1>0, <1>a, <1>c, <2>2 DEF GuardInv
<1>5. ReleaseInv'
  BY <1>0, <1>a, <1>c DEF Inv, ReleaseInv, Tombstoned
<1>6. AttemptInv'
  BY <1>a DEF Inv, AttemptInv, AttemptsAreSerial
<1> QED BY <1>1, <1>2, <1>3, <1>4, <1>5, <1>6 DEF Rest

\* acquireExecutionClaimTx: never at the head the create runs under.
LEMMA ClaimInv ==
    ASSUME Inv, NEW w \in Workers, NEW o \in Ops, AdvanceClaim(w, o)
    PROVE  Rest'
<1>0. /\ o \in Provisions => head[o] = "resources_bound"
      /\ o \in Decommissions => head[o] \in {"accepted", "delete_accepted", "absence_pending"}
      /\ claim' = [claim EXCEPT ![o] = Claimed(w)] /\ claim \in [Ops -> ClaimType]
      /\ guard \in Provisions \union {NoOp}
  BY OpsFacts DEF Inv, TypeOK, AdvanceClaim, CanClaim, ClaimType
<1>a. /\ UNCHANGED <<head, bound, targets, guard, obs, decisions, cancelled, server, slot>>
      /\ UNCHANGED <<decom, creates, created, live>>
  BY DEF AdvanceClaim, custody, lease, provider
<1>b. /\ \A v \in Workers \ {w} : worker'[v] = worker[v]
      /\ worker'[w].call.st = "claimed" /\ worker'[w].call.op = o
      /\ worker'[w].call.at = head[o] /\ worker'[w].call.got = {}
  BY BeginsFacts DEF AdvanceClaim, OnlyWorker, Inv
<1>1. HandleInv'
  BY <1>a, <1>b DEF Inv, HandleInv
<1>2. HeadInv'
  BY <1>a DEF Inv, HeadInv
<1>3. \A v \in Workers : CallInv(v)'
  <2>1. CallsStand
    BY <1>0, <1>a DEF CallsStand
  <2>2. \A v \in Workers \ {w} : CallInv(v)'
    BY <1>a, <1>b, <2>1, CallStands
  <2>3. CallInv(w)'
    BY <1>0, <1>a, <1>b, OpsFacts DEF CallInv, Dispatching, Calling
  <2> QED BY <2>2, <2>3
<1>4. GuardInv'
  BY <1>0, <1>a, <1>b, OpsFacts DEF Inv, GuardInv, Creating, Dispatching
<1>5. ReleaseInv'
  <2>1. CreateLive' => CreateLive
    BY <1>0, <1>a, OpsFacts DEF CreateLive, Live
  <2>2. Bound' = Bound
    BY <1>a DEF Bound
  <2> QED BY <1>a, <2>1, <2>2 DEF Inv, ReleaseInv, Tombstoned
<1>6. AttemptInv'
  BY <1>a DEF Inv, AttemptInv, AttemptsAreSerial
<1> QED BY <1>1, <1>2, <1>3, <1>4, <1>5, <1>6 DEF Rest

\* DispatchPreparedProvision: the claim that found the guard free creates once.
LEMMA DispatchInv ==
    ASSUME Inv, NEW w \in Workers, DispatchCreate(w)
    PROVE  Rest'
<1>0. Creating(w) /\ creates = 0 /\ creates' = 1 /\ guard = worker[w].call.op /\ guard # NoOp
  BY OpsFacts DEF Inv, CallInv, DispatchCreate, Creating, Dispatching
<1>a. /\ UNCHANGED <<head, bound, targets, claim, guard, obs, decisions, cancelled, server, slot>>
      /\ UNCHANGED <<decom, created, live>>
  BY DEF DispatchCreate, ops, custody, lease
<1>b. /\ \A v \in Workers \ {w} : worker'[v] = worker[v]
      /\ worker'[w].call.st = "calling" /\ worker'[w].call.op = worker[w].call.op
      /\ worker'[w].call.at = worker[w].call.at /\ worker'[w].call.got = worker[w].call.got
  BY DispatchFacts DEF OnlyWorker, Inv
<1>c. \A v \in Workers \ {w} : ~Creating(v)
  BY <1>0 DEF Inv, GuardInv
<1>1. HandleInv'
  BY <1>a, <1>b DEF Inv, HandleInv
<1>2. HeadInv'
  BY <1>a DEF Inv, HeadInv
<1>3. \A v \in Workers : CallInv(v)'
  <2>1. CallsStand
    BY <1>a DEF CallsStand
  <2>2. \A v \in Workers \ {w} : CallInv(v)'
    BY <1>b, <1>c, <2>1, CallStands
  <2>3. CallInv(w)'
    BY <1>0, <1>a, <1>b, OpsFacts DEF Inv, CallInv, Creating, Dispatching, Calling
  <2> QED BY <2>2, <2>3
<1>4. GuardInv'
  <2>1. \A v \in Workers : ~Creating(v)'
    BY <1>b, <1>c DEF Creating, Dispatching
  <2> QED BY <1>0, <1>a, <2>1 DEF Inv, GuardInv
<1>5. ReleaseInv'
  <2>1. CreateLive' => CreateLive
    BY <1>a DEF CreateLive, Live
  <2>2. Bound' = Bound
    BY <1>a DEF Bound
  <2> QED BY <1>a, <2>1, <2>2 DEF Inv, ReleaseInv, Tombstoned
<1>6. AttemptInv'
  BY <1>a DEF Inv, AttemptInv, AttemptsAreSerial
<1> QED BY <1>1, <1>2, <1>3, <1>4, <1>5, <1>6 DEF Rest

\* What an adapter may answer.
LEMMA ResultFacts ==
    ASSUME Inv, NEW w \in Workers, NEW x, x \in Results(worker[w].call),
           worker[w].call.op \in Ops
    PROVE  LET c == worker[w].call IN
           /\ x.res # "none" /\ x.got \subseteq created
           /\ Dispatching(c) => x.res \in {"accepted", "resources_bound", "failed"}
           /\ c.op \in Provisions /\ ~Dispatching(c) =>
                 x.res \in {"resources_bound", "failed", "present"}
           /\ c.op \in Decommissions /\ x.res = "absent" => targets[c.op] \intersect live = {}
<1> DEFINE c == worker[w].call
<1>1. /\ c.op \in Provisions => c.at \in {"accepted", "resources_bound"}
      /\ c.op \in Decommissions => c.at \in {"accepted", "delete_accepted", "absence_pending"}
      /\ c.op \in Decommissions => c.op \notin Provisions
  BY OpsFacts DEF Inv, CallInv
<1> HIDE DEF c
<1>2. CASE Dispatching(c)
  <2>1. \/ x = [res |-> "accepted", got |-> {}] \/ x = [res |-> "failed", got |-> {}]
        \/ x \in [res : {"resources_bound", "failed"}, got : {{h} : h \in created}]
    BY <1>2 DEF Results, c
  <2>2. x.res \in {"accepted", "resources_bound", "failed"} /\ x.got \subseteq created
    BY <2>1
  <2> QED BY <1>1, <1>2, <2>2 DEF Dispatching, c
<1>3. CASE ~Dispatching(c)
  <2>1. /\ x.got = {}
        /\ \/ x.res \in {c.at, "failed"}
           \/ c.at = "resources_bound" /\ x.res = "present"
           \/ c.at = "accepted" /\ x.res = "delete_accepted"
           \/ c.at = "delete_accepted" /\ x.res = "absence_pending"
           \/ c.at = "absence_pending" /\ targets[c.op] \intersect live = {} /\ x.res = "absent"
    BY <1>3 DEF Results, c
  <2> QED BY <1>1, <1>3, <2>1 DEF Dispatching, Ops, c
<1> QED BY <1>2, <1>3 DEF c

\* The adapter answers.
LEMMA AnswerInv ==
    ASSUME Inv, NEW w \in Workers, NEW x \in Results0, Answer(w, x)
    PROVE  Rest'
<1>a. /\ UNCHANGED <<head, bound, targets, claim, guard, obs, decisions, cancelled, server, slot>>
      /\ UNCHANGED <<decom, creates, created, live>>
  BY DEF Answer, ops, custody, lease
<1>b. /\ \A v \in Workers \ {w} : worker'[v] = worker[v]
      /\ worker'[w].call.st = "returned" /\ worker'[w].call.op = worker[w].call.op
      /\ worker'[w].call.at = worker[w].call.at
      /\ worker'[w].call.res = x.res /\ worker'[w].call.got = x.got
      /\ worker[w].call.op # NoOp /\ x \in Results(worker[w].call)
  BY AnswerFacts DEF OnlyWorker, Inv
<1>c. worker[w].call.op \in Ops
  BY <1>b DEF Inv, CallInv
<1>d. LET c == worker[w].call IN
      /\ x.res # "none" /\ x.got \subseteq created
      /\ Dispatching(c) => x.res \in {"accepted", "resources_bound", "failed"}
      /\ c.op \in Provisions /\ ~Dispatching(c) =>
            x.res \in {"resources_bound", "failed", "present"}
      /\ c.op \in Decommissions /\ x.res = "absent" => targets[c.op] \intersect live = {}
  BY <1>b, <1>c, ResultFacts
<1>1. HandleInv'
  BY <1>a, <1>b, <1>d DEF Inv, HandleInv
<1>2. HeadInv'
  BY <1>a DEF Inv, HeadInv
<1>3. \A v \in Workers : CallInv(v)'
  <2>1. CallsStand
    BY <1>a DEF CallsStand
  <2>2. \A v \in Workers \ {w} : CallInv(v)'
    BY <1>a, <1>b, <2>1, CallStands
  <2>3. CallInv(w)'
    BY <1>a, <1>b, <1>c, <1>d, OpsFacts DEF Inv, CallInv, Dispatching, Calling
  <2> QED BY <2>2, <2>3
<1>4. GuardInv'
  BY <1>a, <1>b DEF Inv, GuardInv, Creating, Dispatching
<1>5. ReleaseInv'
  <2>1. CreateLive' => CreateLive
    BY <1>a DEF CreateLive, Live
  <2>2. Bound' = Bound
    BY <1>a DEF Bound
  <2> QED BY <1>a, <2>1, <2>2 DEF Inv, ReleaseInv, Tombstoned
<1>6. AttemptInv'
  BY <1>a DEF Inv, AttemptInv, AttemptsAreSerial
<1> QED BY <1>1, <1>2, <1>3, <1>4, <1>5, <1>6 DEF Rest

\* A worker without a call, after its release or its crash.
LEMMA CallEnds ==
    ASSUME Inv, NEW w \in Workers, Still, decom' = decom, \A o \in Ops : Live(o)' => Live(o),
           \A v \in Workers \ {w} : worker'[v] = worker[v],
           worker'[w].call.st \in {"idle", "down"}, worker'[w].call.op = NoOp,
           worker'[w].call.got = {}
    PROVE  Rest'
<1>1. HandleInv'
  BY DEF Inv, HandleInv, Still
<1>2. HeadInv'
  BY DEF Inv, HeadInv, Still
<1>3. \A v \in Workers : CallInv(v)'
  <2>1. CallsStand
    BY DEF CallsStand, Still
  <2>2. \A v \in Workers \ {w} : CallInv(v)'
    BY <2>1, CallStands DEF Still
  <2>3. CallInv(w)'
    BY OpsFacts DEF CallInv, Dispatching, Calling
  <2> QED BY <2>2, <2>3
<1>4. GuardInv'
  BY DEF Inv, GuardInv, Creating, Dispatching, Still
<1>5. ReleaseInv'
  <2>1. CreateLive' => CreateLive
    BY OpsFacts DEF Inv, TypeOK, CreateLive, Still
  <2>2. Bound' = Bound
    BY DEF Bound, Still
  <2> QED BY <2>1, <2>2 DEF Inv, ReleaseInv, Still, Tombstoned
<1>6. AttemptInv'
  BY DEF Inv, AttemptInv, AttemptsAreSerial, Still
<1> QED BY <1>1, <1>2, <1>3, <1>4, <1>5, <1>6 DEF Rest

LEMMA ReleaseClaimInv ==
    ASSUME Inv, NEW w \in Workers, ReleaseClaim(w)
    PROVE  Rest'
<1>1. Still /\ decom' = decom
  BY DEF ReleaseClaim, Still, custody, lease, provider
<1>2. OnlyWorker(w) /\ worker'[w].call = Call0
  BY CallFacts, IdleCall DEF ReleaseClaim, Inv
<1>3. \A o \in Ops : Live(o)' => Live(o)
  <2> DEFINE d == worker[w].call.op
             r == [claim[d] EXCEPT !.state = "released"]
  <2>1. /\ claim' = claim \/ claim' = [claim EXCEPT ![d] = r]
        /\ claim \in [Ops -> ClaimType] /\ d \in Ops
    BY DEF ReleaseClaim, Inv, TypeOK, ClaimType
  <2>2. r.state = "released"
    BY <2>1 DEF ClaimType
  <2> HIDE DEF r
  <2> QED BY <2>1, <2>2 DEF Live
<1> QED BY <1>1, <1>2, <1>3, CallEnds, IdleCall DEF OnlyWorker

LEMMA CrashInv ==
    ASSUME Inv, NEW w \in Workers, Crash(w)
    PROVE  Rest'
<1>1. Still /\ decom' = decom /\ claim' = claim
  BY DEF Crash, Still, ops, custody, lease, provider
<1>2. \A o \in Ops : Live(o)' => Live(o)
  BY <1>1 DEF Live
<1> QED BY <1>1, <1>2, CallEnds, CrashFacts DEF OnlyWorker, Inv

\* The provider's own steps: a handle that appears is new, so nothing recorded or
\* proved absent comes back.
LEMMA ProviderInv ==
    ASSUME Inv
    PROVE  /\ \A p \in Provisions : Land(p) => Rest'
           /\ \A h \in Handles : Vanish(h) => Rest'
<1>1. ASSUME created \subseteq created', live' \subseteq created',
             live' \intersect created \subseteq live,
             UNCHANGED <<ops, custody, lease, actors, creates>>
      PROVE  Rest'
  <2>a. /\ UNCHANGED <<head, bound, targets, claim, guard, obs, decisions, cancelled, server, slot>>
        /\ UNCHANGED <<worker, decom, creates>>
    BY <1>1 DEF ops, custody, lease, actors
  <2>1. HandleInv'
    BY <1>1, <2>a DEF Inv, HandleInv
  <2>2. HeadInv'
    BY <2>a DEF Inv, HeadInv
  <2>3. \A w \in Workers : CallInv(w)'
    <3>1. CallsStand
      BY <1>1, <2>a DEF CallsStand, Inv, HandleInv
    <3> QED BY <2>a, <3>1, CallStands
  <2>4. GuardInv'
    BY <2>a DEF Inv, GuardInv, Creating, Dispatching
  <2>5. ReleaseInv'
    <3>1. CreateLive' => CreateLive
      BY <2>a DEF CreateLive, Live
    <3>2. Bound' = Bound /\ Bound \subseteq created
      BY <2>a DEF Bound, Inv, HandleInv
    <3> QED BY <1>1, <2>a, <3>1, <3>2 DEF Inv, ReleaseInv, Tombstoned
  <2>6. AttemptInv'
    BY <2>a DEF Inv, AttemptInv, AttemptsAreSerial
  <2> QED BY <2>1, <2>2, <2>3, <2>4, <2>5, <2>6 DEF Rest
<1>2. ASSUME NEW p \in Provisions, Land(p) PROVE Rest'
  <2>1. live \subseteq created
    BY DEF Inv, HandleInv
  <2> QED BY <1>1, <1>2, <2>1 DEF Land
<1>3. ASSUME NEW h \in Handles, Vanish(h) PROVE Rest'
  <2>1. live \subseteq created
    BY DEF Inv, HandleInv
  <2> QED BY <1>1, <1>3, <2>1 DEF Vanish
<1> QED BY <1>2, <1>3

\* The discovery records what carries the correlation of the create.
LEMMA DiscoverInv ==
    ASSUME Inv, NEW r \in Resolvers, Discover(r)
    PROVE  Rest'
<1>a. /\ UNCHANGED <<head, bound, targets, claim, guard, decisions, cancelled, server, slot>>
      /\ UNCHANGED <<worker, decom, creates, created, live>>
      /\ guard # NoOp /\ UNION obs' \subseteq created
  BY DEF Discover, CanDiscover, Candidates, ops, lease, provider
<1>1. HandleInv'
  BY <1>a DEF Inv, HandleInv
<1>2. HeadInv'
  BY <1>a DEF Inv, HeadInv
<1>3. \A w \in Workers : CallInv(w)'
  <2>1. CallsStand
    BY <1>a DEF CallsStand
  <2> QED BY <1>a, <2>1, CallStands
<1>4. GuardInv'
  BY <1>a DEF Inv, GuardInv, Creating, Dispatching
<1>5. ReleaseInv'
  <2>1. CreateLive' => CreateLive
    BY <1>a DEF CreateLive, Live
  <2>2. Bound' = Bound
    BY <1>a DEF Bound
  <2> QED BY <1>a, <2>1, <2>2 DEF Inv, ReleaseInv, Tombstoned
<1>6. AttemptInv'
  BY <1>a DEF Inv, AttemptInv, AttemptsAreSerial
<1> QED BY <1>1, <1>2, <1>3, <1>4, <1>5, <1>6 DEF Rest

\* Attempts that fail one after the other are exactly the first ones: the number of
\* failed attempts names the last of them.
LEMMA FailedAreFirst ==
    ASSUME AttemptsAreSerial, NEW d \in Decommissions, d <= FailedAttempts
    PROVE  head[d] = "failed"
<1> DEFINE F == {e \in Decommissions : head[e] = "failed"}
<1>1. SUFFICES ASSUME head[d] # "failed" PROVE FALSE
  OBVIOUS
<1>2. F \subseteq 1 .. (d - 1)
  <2> SUFFICES ASSUME NEW e \in F PROVE e \in 1 .. (d - 1)
    OBVIOUS
  <2>1. e \in Decommissions /\ head[e] = "failed" /\ head[e] # "none" /\ e # d
    BY <1>1
  <2>2. ~(d < e)
    BY <1>1, <2>1 DEF AttemptsAreSerial
  <2> QED BY <2>1, <2>2, OpsFacts
<1>3. IsFiniteSet(1 .. (d - 1)) /\ Cardinality(1 .. (d - 1)) <= d - 1
  <2>1. 1 \in Int /\ d - 1 \in Int /\ d >= 1 /\ d \in Nat
    BY OpsFacts
  <2>2. IsFiniteSet(1 .. (d - 1)) /\ Cardinality(1 .. (d - 1)) = IF 1 > d - 1 THEN 0 ELSE d - 1 - 1 + 1
    BY <2>1, FS_Interval
  <2> QED BY <2>1, <2>2
<1>4. Cardinality(F) <= Cardinality(1 .. (d - 1))
  BY <1>2, <1>3, FS_Subset
<1>5. Cardinality(1 .. (d - 1)) \in Nat
  BY <1>3, FS_CardinalityType
<1> HIDE DEF F
<1>6. Cardinality(F) = FailedAttempts /\ FailedAttempts \in Nat
  BY AttemptsCount DEF FailedAttempts, F
<1> QED BY <1>3, <1>4, <1>5, <1>6, OpsFacts

\* prepareCandidates requests the teardown and counts the failed attempts.
LEMMA PrepareInv ==
    ASSUME Inv, NEW k \in Destroyers, Prepare(k)
    PROVE  Rest'
<1> DEFINE r == [st |-> "prepared", attempts |-> FailedAttempts, targets |-> Bound]
<1>a. /\ UNCHANGED <<head, bound, targets, claim, guard, obs, decisions, slot>>
      /\ UNCHANGED <<worker, creates, created, live>>
      /\ cancelled' = TRUE /\ (Tombstoned' <=> Tombstoned)
  BY DEF Prepare, Tombstoned, ops, custody, provider
<1>b. decom' = [decom EXCEPT ![k] = r] /\ DOMAIN decom = Destroyers
  BY DEF Prepare, Inv, TypeOK
<1>c. Bound \subseteq created
  BY DEF Bound, Inv, HandleInv
<1>d. r.attempts = FailedAttempts /\ r.targets = Bound
  OBVIOUS
<1> HIDE DEF r
<1>1. HandleInv'
  BY <1>a, <1>b, <1>c, <1>d DEF Inv, HandleInv
<1>2. HeadInv'
  BY <1>a DEF Inv, HeadInv
<1>3. \A w \in Workers : CallInv(w)'
  <2>1. CallsStand
    BY <1>a DEF CallsStand
  <2> QED BY <1>a, <2>1, CallStands
<1>4. GuardInv'
  BY <1>a DEF Inv, GuardInv, Creating, Dispatching
<1>5. ReleaseInv'
  <2>1. CreateLive' => CreateLive
    BY <1>a DEF CreateLive, Live
  <2>2. Bound' = Bound
    BY <1>a DEF Bound
  <2> QED BY <1>a, <2>1, <2>2 DEF Inv, ReleaseInv
<1>6. AttemptInv'
  <2>1. AttemptsAreSerial
    BY DEF Inv, AttemptInv
  <2>2. \A d \in Decommissions : d <= r.attempts => head[d] = "failed"
    BY <1>d, <2>1, FailedAreFirst
  <2>3. \A j \in Destroyers : \A d \in Decommissions :
          d <= decom'[j].attempts => head'[d] = "failed"
    BY <1>a, <1>b, <2>2 DEF Inv, AttemptInv
  <2> QED BY <1>a, <2>1, <2>3 DEF AttemptInv, AttemptsAreSerial
<1> QED BY <1>1, <1>2, <1>3, <1>4, <1>5, <1>6 DEF Rest

\* Coordinator.Start of the next attempt: a stale snapshot names one that was opened
\* already, so the attempt that is opened follows failed ones only.
LEMMA StartDecommissionInv ==
    ASSUME Inv, NEW k \in Destroyers, NEW d \in Decommissions, StartDecommission(k, d)
    PROVE  Rest'
<1>0. /\ head \in [Ops -> Phases] /\ d \in Ops /\ head[d] = "none" /\ d \notin Provisions
      /\ head' = [head EXCEPT ![d] = "requested"] /\ targets \in [Decommissions -> SUBSET Handles]
      /\ targets' = [targets EXCEPT ![d] = decom[k].targets]
      /\ guard \in Provisions \union {NoOp} /\ cancelled /\ d = decom[k].attempts + 1
      /\ decom[k].attempts \in Nat
  BY OpsFacts DEF Inv, TypeOK, StartDecommission, CanDecommission, FenceAdmits
<1>a. /\ UNCHANGED <<bound, claim, guard, obs, decisions, cancelled, server, slot>>
      /\ UNCHANGED <<worker, creates, created, live>>
  BY DEF StartDecommission, custody, lease, provider
<1>b. Snapshots
  BY GivenUp DEF StartDecommission, Inv
<1>c. \A e \in Decommissions : head[e] = "failed" => head'[e] = "failed"
  BY <1>0, OpsFacts
<1>1. HandleInv'
  BY <1>0, <1>a, <1>b, <1>c, SnapshotsKeep DEF Inv, HandleInv
<1>2. HeadInv'
  BY <1>0, <1>a, OpsFacts DEF Inv, HeadInv
<1>3. \A w \in Workers : CallInv(w)'
  <2>1. CallsStand
    BY <1>0, <1>a, OpsFacts DEF CallsStand
  <2> QED BY <1>a, <2>1, CallStands
<1>4. GuardInv'
  BY <1>0, <1>a, OpsFacts DEF Inv, GuardInv, Creating, Dispatching
<1>5. ReleaseInv'
  <2>1. CreateLive' => CreateLive
    BY <1>0, <1>a, OpsFacts DEF CreateLive, Live
  <2>2. Bound' = Bound
    BY <1>a DEF Bound
  <2> QED BY <1>a, <2>1, <2>2 DEF Inv, ReleaseInv, Tombstoned
<1>6. AttemptInv'
  <2>1. \A e \in Decommissions : e < d => head[e] = "failed"
    BY <1>0, OpsFacts DEF Inv, AttemptInv
  <2>2. AttemptsAreSerial'
    BY <1>0, <1>c, <2>1, OpsFacts DEF Inv, AttemptInv, AttemptsAreSerial
  <2> QED BY <1>a, <1>b, <1>c, <2>2, SnapshotsKeep DEF AttemptInv
<1> QED BY <1>1, <1>2, <1>3, <1>4, <1>5, <1>6 DEF Rest

\* A decision that found nothing is a decision.
LEMMA ZeroIsDecided ==
    ASSUME NEW o, ZeroDecided(o)
    PROVE  decisions # <<>>
<1>1. DOMAIN <<>> = {}
  OBVIOUS
<1> QED BY <1>1 DEF ZeroDecided

\* A settled generation has no create that could still record a handle.
LEMMA SettledCreate ==
    ASSUME Inv, ~Unsettled(guard)
    PROVE  ~CreateLive
<1>1. SUFFICES ASSUME CreateLive PROVE FALSE
  OBVIOUS
<1>2. ZeroDecided(guard)
  BY <1>1 DEF CreateLive, Unsettled, Live
<1> QED BY <1>1, <1>2, ZeroIsDecided DEF Inv, ReleaseInv

\* FinalizeResourceFreeTeardown: nothing is recorded, and the create, if there was
\* one, was decided to have left nothing behind.
LEMMA FinalizeInv ==
    ASSUME Inv, NEW p \in Provisions, FinalizeTeardown(p), Snapshots,
           \A v \in Workers : worker'[v].call = worker[v].call
    PROVE  Rest'
<1>a. /\ UNCHANGED <<head, bound, targets, claim, guard, obs, decisions, cancelled>>
      /\ UNCHANGED <<creates, created, live>>
  BY DEF FinalizeTeardown, ops, custody, provider
<1>1. HandleInv'
  BY <1>a, SnapshotsKeep DEF Inv, HandleInv
<1>2. HeadInv'
  BY <1>a DEF Inv, HeadInv
<1>3. \A w \in Workers : CallInv(w)'
  <2>1. CallsStand
    BY <1>a DEF CallsStand
  <2> QED BY <1>a, <2>1, CallStands
<1>4. GuardInv'
  BY <1>a DEF Inv, GuardInv, Creating, Dispatching
<1>5. ReleaseInv'
  <2>1. CreateLive' => CreateLive
    BY <1>a DEF CreateLive, Live
  <2>2. Bound' = {}
    BY <1>a DEF Bound, FinalizeTeardown, CanFinalize
  <2>3. ~CreateLive
    <3>1. CASE guard = NoOp
      BY <3>1 DEF CreateLive
    <3>2. CASE guard # NoOp
      <4>1. ZeroDecided(guard)
        BY <3>2 DEF FinalizeTeardown, CanFinalize, Quiescent
      <4> QED BY <4>1, ZeroIsDecided DEF Inv, ReleaseInv
    <3> QED BY <3>1, <3>2
  <2>4. cancelled' /\ slot' # "reserved" /\ Tombstoned'
    BY <1>a DEF FinalizeTeardown, CanFinalize, Tombstone, Tombstoned
  <2> QED BY <2>1, <2>2, <2>3, <2>4 DEF ReleaseInv
<1>6. AttemptInv'
  BY <1>a, SnapshotsKeep DEF Inv, AttemptInv, AttemptsAreSerial
<1> QED BY <1>1, <1>2, <1>3, <1>4, <1>5, <1>6 DEF Rest

\* CommitProvisionResolution: the claim of the create is gone when it decides, an
\* adoption is recorded before any tombstone, and a failed head is released only
\* when nothing was observed.
LEMMA DecideInv ==
    ASSUME Inv, NEW r \in Resolvers, Decide(r)
    PROVE  Rest'
<1> DEFINE C == UNION obs
           adopts == Outcome(C) = "adopted_exact_candidate"
<1>0. /\ head \in [Ops -> Phases] /\ bound \in [Provisions -> SUBSET Handles]
      /\ claim \in [Ops -> ClaimType] /\ guard \in Provisions /\ guard \in Ops
      /\ guard # NoOp /\ C \subseteq created
  BY OpsFacts DEF Inv, TypeOK, ClaimType, GuardInv, Decide, CanDecide, HandleInv
<1>a. /\ UNCHANGED <<targets, guard, cancelled, worker, creates, created, live>> /\ obs' = {}
      /\ ~Live(guard) /\ ~Tombstoned
  BY DEF Decide, CanDecide, provider
<1>b. Snapshots
  BY FinishedSnapshots DEF Inv, Decide
<1>c. /\ adopts => /\ head' = [head EXCEPT ![guard] = "resources_bound"]
                   /\ bound' = [bound EXCEPT ![guard] = C] /\ claim' = [claim EXCEPT ![guard] = NoClaim]
      /\ ~adopts => UNCHANGED <<head, bound, claim>>
  BY DEF Decide
<1>d. /\ head[guard] = "failed" =>
            /\ ~adopts /\ Bound = {} /\ cancelled
            /\ server' = "decommissioned" /\ slot' = "resource_free"
      /\ head[guard] # "failed" => UNCHANGED <<server, slot>>
  BY DEF Decide, CanDecide, Outcome, Tombstone
<1> HIDE DEF adopts, C
<1>e. \A d \in Decommissions : head'[d] = head[d]
  BY <1>0, <1>c, OpsFacts
<1>1. HandleInv'
  BY <1>0, <1>a, <1>b, <1>c, <1>e, SnapshotsKeep DEF Inv, HandleInv
<1>2. HeadInv'
  BY <1>0, <1>a, <1>c, <1>e, OpsFacts DEF Inv, HeadInv
<1>3. \A w \in Workers : CallInv(w)'
  <2>1. CallsStand
    BY <1>a, <1>e DEF CallsStand
  <2> QED BY <1>a, <2>1, CallStands
<1>4. GuardInv'
  BY <1>0, <1>a, <1>c DEF Inv, GuardInv, Creating, Dispatching
<1>5. ReleaseInv'
  <2>1. ~CreateLive'
    BY <1>0, <1>a, <1>c DEF CreateLive, Live
  <2>2. CASE head[guard] = "failed"
    <3>1. Bound' = {}
      BY <1>c, <1>d, <2>2 DEF Bound
    <3> QED BY <1>a, <1>d, <2>1, <2>2, <3>1 DEF ReleaseInv, Tombstoned
  <2>3. CASE head[guard] # "failed"
    <3>1. slot' = "reserved" /\ ~Tombstoned'
      BY <1>a, <1>d, <2>3 DEF Inv, ReleaseInv, Tombstoned
    <3> QED BY <2>1, <3>1 DEF ReleaseInv
  <2> QED BY <2>2, <2>3
<1>6. AttemptInv'
  <2>1. AttemptsAreSerial'
    BY <1>e DEF Inv, AttemptInv, AttemptsAreSerial
  <2> QED BY <1>a, <1>b, <1>e, <2>1, SnapshotsKeep DEF AttemptInv
<1> QED BY <1>1, <1>2, <1>3, <1>4, <1>5, <1>6 DEF Rest

\* AppendClaimedReceipt with its projection. The receipt of the create is appended
\* under a live claim, so before any decision and any tombstone; an absent receipt
\* releases the slot when its targets are all that was ever recorded.
LEMMA AppendInv ==
    ASSUME Inv, NEW w \in Workers, AppendReceipt(w)
    PROVE  Rest'
<1> DEFINE c == worker[w].call
<1>0. /\ c.st = "returned" /\ c.res # c.at /\ c.op \in Ops /\ Live(c.op)
      /\ head[c.op] = c.at /\ Project(c.op, c.res)
      /\ c.op \in Provisions \/ c.op \in Decommissions
  BY DEF AppendReceipt, Appends, Holds, Inv, TypeOK, Ops
<1>a. /\ UNCHANGED <<targets, guard, obs, decisions, decom, creates, created, live>>
      /\ head' = [head EXCEPT ![c.op] = c.res]
      /\ bound' = (IF Dispatching(c) THEN [bound EXCEPT ![c.op] = c.got] ELSE bound)
      /\ claim' = [claim EXCEPT ![c.op] = NoClaim]
  BY DEF AppendReceipt, custody, provider
<1>b. /\ \A v \in Workers \ {w} : worker'[v] = worker[v]
      /\ worker'[w].call.st = "idle" /\ worker'[w].call.op = NoOp /\ worker'[w].call.got = {}
  BY CallFacts, IdleCall DEF AppendReceipt, Inv, OnlyWorker
<1>c. /\ head \in [Ops -> Phases] /\ bound \in [Provisions -> SUBSET Handles]
      /\ claim \in [Ops -> ClaimType] /\ guard \in Provisions \union {NoOp} /\ cancelled \in BOOLEAN
  BY DEF Inv, TypeOK, ClaimType
<1>d. /\ c.op \in Provisions => c.at \in {"accepted", "resources_bound"} /\ c.op \notin Decommissions
      /\ c.op \in Decommissions => c.at \in {"accepted", "delete_accepted", "absence_pending"}
      /\ c.res # "none" /\ c.got \subseteq created
      /\ Dispatching(c) => guard = c.op /\ c.res \in {"resources_bound", "failed"} /\ c.op \in Provisions
      /\ c.op \in Provisions /\ ~Dispatching(c) => c.res \in {"resources_bound", "failed", "present"}
      /\ c.op \in Decommissions /\ c.res = "absent" => targets[c.op] \intersect live = {}
  <2>1. CallInv(w)
    BY DEF Inv
  <2> QED BY <1>0, <2>1, OpsFacts DEF Inv, HandleInv, CallInv, Dispatching
<1> HIDE DEF c
<1>1. HandleInv'
  BY <1>a, <1>b, <1>c, <1>d DEF Inv, HandleInv
<1>2. HeadInv'
  <2>1. \A p \in Provisions : head'[p] \in {"none", "requested", "accepted"} => bound'[p] = {}
    <3> SUFFICES ASSUME NEW p \in Provisions, head'[p] \in {"none", "requested", "accepted"}
                 PROVE  bound'[p] = {}
      OBVIOUS
    <3>1. p # c.op
      BY <1>0, <1>a, <1>c, <1>d, OpsFacts DEF Dispatching
    <3> QED BY <1>a, <1>c, <1>d, <3>1, OpsFacts DEF Inv, HeadInv
  <2>2. cancelled' = cancelled
    BY <1>0 DEF Project, lease
  <2>3. \A d \in Decommissions : head'[d] # "none" => cancelled'
    BY <1>0, <1>a, <1>c, <1>d, <2>2, OpsFacts DEF Inv, HeadInv
  <2> QED BY <2>1, <2>3 DEF HeadInv
<1>3. \A v \in Workers : CallInv(v)'
  <2>1. CallsStand
    BY <1>a, <1>c, <1>d, OpsFacts DEF CallsStand
  <2>2. \A v \in Workers \ {w} : CallInv(v)'
    BY <1>a, <1>b, <2>1, CallStands
  <2>3. CallInv(w)'
    BY <1>b, OpsFacts DEF CallInv, Dispatching, Calling
  <2> QED BY <2>2, <2>3
<1>4. GuardInv'
  <2>1. guard # NoOp => head'[guard] \notin {"none", "requested"}
    BY <1>0, <1>a, <1>c, <1>d, OpsFacts DEF Inv, GuardInv, Dispatching
  <2> QED BY <1>a, <1>b, <2>1 DEF Inv, GuardInv, Creating, Dispatching
<1>5. ReleaseInv'
  <2>1. CreateLive' => CreateLive
    BY <1>a, <1>c, OpsFacts DEF CreateLive, Live, NoClaim
  <2>2. CASE Dispatching(c)
    <3>1. CreateLive
      BY <1>0, <1>d, <2>2, OpsFacts DEF CreateLive, Dispatching
    <3>2. slot = "reserved" /\ decisions = <<>> /\ ~Tombstoned
      BY <3>1 DEF Inv, ReleaseInv
    <3>3. slot' = "reserved" /\ ~Tombstoned'
      BY <1>0, <1>d, <2>2, <3>2 DEF Project, Tombstoned, lease
    <3> QED BY <1>a, <3>2, <3>3 DEF ReleaseInv
  <2>3. CASE ~Dispatching(c) /\ c.op \in Provisions
    <3>1. Bound' = Bound
      BY <1>a, <2>3 DEF Bound
    <3>2. slot' = slot /\ cancelled' = cancelled /\ (Tombstoned' <=> Tombstoned)
      BY <1>0, <1>d, <2>3 DEF Project, Tombstoned, lease, Inv, ReleaseInv
    <3> QED BY <1>a, <2>1, <3>1, <3>2 DEF Inv, ReleaseInv
  <2>4. CASE c.op \in Decommissions /\ c.res # "absent"
    <3>1. Bound' = Bound
      BY <1>a, <1>d, <2>4 DEF Bound
    <3>2. UNCHANGED <<slot, cancelled, server>>
      BY <1>0, <1>d, <2>4, OpsFacts DEF Project, lease
    <3> QED BY <1>a, <2>1, <3>1, <3>2 DEF Inv, ReleaseInv, Tombstoned
  <2>5. CASE c.op \in Decommissions /\ c.res = "absent"
    <3>1. Bound' = Bound
      BY <1>a, <1>d, <2>5 DEF Bound
    <3>2. AbsenceProved(c.op) /\ Tombstone("provider_absence") /\ UNCHANGED <<cancelled, recent>>
      BY <1>0, <2>5, OpsFacts DEF Project
    <3>3. slot' = "provider_absence" /\ Tombstoned'
      BY <3>2 DEF Tombstone, Tombstoned
    <3>4. cancelled
      BY <1>0, <1>d, <2>5 DEF Inv, HeadInv
    <3>5. Bound \intersect live = {}
      BY <1>d, <2>5, <3>2 DEF AbsenceProved
    <3>6. ~CreateLive
      <4>1. CASE guard = NoOp
        BY <4>1 DEF CreateLive
      <4>2. CASE guard # NoOp
        <5>1. guard \in Ops \ {c.op}
          BY <1>c, <2>5, <4>2, OpsFacts
        <5> QED BY <3>2, <5>1, SettledCreate DEF AbsenceProved
      <4> QED BY <4>1, <4>2
    <3> QED BY <1>a, <2>1, <3>1, <3>2, <3>3, <3>4, <3>5, <3>6 DEF ReleaseInv
  <2> QED BY <1>0, <2>2, <2>3, <2>4, <2>5
<1>6. AttemptInv'
  <2>1. \A d \in Decommissions : head[d] = "failed" => head'[d] = "failed"
    BY <1>0, <1>a, <1>c, <1>d, OpsFacts
  <2>2. \A d \in Decommissions : head[d] = "none" => head'[d] = "none"
    BY <1>0, <1>a, <1>c, <1>d, OpsFacts
  <2>3. AttemptsAreSerial'
    BY <2>1, <2>2 DEF Inv, AttemptInv, AttemptsAreSerial
  <2> QED BY <1>a, <2>1, <2>3 DEF Inv, AttemptInv
<1> QED BY <1>1, <1>2, <1>3, <1>4, <1>5, <1>6 DEF Rest

---------------------------------------------------------------------------
\* Theorems

LEMMA InitInv == Init => Inv
<1> SUFFICES ASSUME Init PROVE Inv
  OBVIOUS
<1>1. TypeOK
  BY InitTypes
<1>2. \A w \in Workers : worker[w].call = Call0
  BY DEF Init
<1>3. HandleInv
  <2>1. UNION obs = {}
    BY DEF Init
  <2> QED BY <1>2, <2>1, IdleCall DEF Init, HandleInv, NoCandidate
<1>4. HeadInv
  BY OpsFacts DEF Init, HeadInv
<1>5. \A w \in Workers : CallInv(w)
  BY <1>2, IdleCall, OpsFacts DEF CallInv, Calling, Dispatching
<1>6. GuardInv
  BY <1>2, IdleCall DEF Init, GuardInv, Creating
<1>7. ReleaseInv
  BY DEF Init, ReleaseInv, Tombstoned
<1>8. AttemptInv
  BY OpsFacts DEF Init, AttemptInv, AttemptsAreSerial, NoCandidate
<1> QED BY <1>1, <1>3, <1>4, <1>5, <1>6, <1>7, <1>8 DEF Inv

LEMMA NextInv ==
    ASSUME Inv, [Next]_vars
    PROVE  Inv'
<1>1. TypeOK'
  BY NextTypes DEF Inv
<1>2. Operator \in Resolvers /\ Automatic \in Resolvers /\ Destroyers \subseteq Resolvers
  BY DEF Resolvers
<1>3. ASSUME NEW w \in Workers, Work(w) \/ Crash(w) PROVE Rest'
  <2>1. ASSUME NEW p \in Provisions, AdvanceFinalize(w, p) PROVE Rest'
    <3>1. \A v \in Workers : worker'[v].call = worker[v].call
      BY <2>1, DoneFacts, OpsFacts DEF AdvanceFinalize, OnlyWorker, Inv
    <3>2. Snapshots
      BY <2>1 DEF AdvanceFinalize, Snapshots
    <3> QED BY <2>1, <3>1, <3>2, FinalizeInv DEF AdvanceFinalize
  <2> QED BY <1>3, <2>1, QuietSteps, AcceptInv, DispatchClaimInv, ClaimInv, DispatchInv,
             AnswerInv, AppendInv, ReleaseClaimInv, CrashInv DEF Work, Advance
<1>4. ASSUME NEW k \in Destroyers, NEW p \in Provisions, ConvergeFinalize(k, p) PROVE Rest'
  <2>1. Snapshots
    BY <1>4, GivenUp DEF ConvergeFinalize, Inv
  <2> QED BY <1>4, <2>1, FinalizeInv DEF ConvergeFinalize
<1>5. ASSUME NEW k \in Destroyers, Prepare(k) \/ Decommissioner(k) PROVE Rest'
  BY <1>2, <1>4, <1>5, QuietSteps, PrepareInv, StartDecommissionInv, DiscoverInv, DecideInv
  DEF Decommissioner
<1>6. ASSUME Environment \/ AutomaticResolver PROVE Rest'
  BY <1>2, <1>6, QuietSteps, ProviderInv, DiscoverInv, DecideInv DEF Environment, AutomaticResolver
<1>7. Rest'
  BY <1>2, <1>3, <1>5, <1>6, QuietSteps, StartProvisionInv, DiscoverInv, DecideInv DEF Next
<1> QED BY <1>1, <1>7 DEF Inv, Rest

\* The inductive invariant of the ledger.
LEMMA LedgerInvariant == Spec => []Inv
<1> QED BY InitInv, NextInv, PTL DEF Spec

\* Type correctness of the ledger, the actors and the provider's side, for any number
\* of operations, workers, handles and calls.
THEOREM LedgerTypes == Spec => []TypeOK
<1>1. Inv => TypeOK
  BY DEF Inv
<1> QED BY <1>1, LedgerInvariant, PTL

\* The provider is asked at most once to create the generation: the guard row of
\* AcquireProvisionDispatchClaim is inserted once, with the only claim that may
\* create, and is never removed.
THEOREM CreatedOnce == Spec => []DispatchedAtMostOnce
<1>1. Inv => DispatchedAtMostOnce
  BY DEF Inv, GuardInv, DispatchedAtMostOnce
<1> QED BY <1>1, LedgerInvariant, PTL

\* A released slot has no recorded handle left at the provider, whichever of
\* FinalizeResourceFreeTeardown, CommitProvisionResolution and the absent receipt
\* released it, and nothing is recorded afterwards.
THEOREM ReleasedGone == Spec => []ReleasedMeansGone
<1>1. Inv => ReleasedMeansGone
  BY DEF Inv, ReleaseInv, ReleasedMeansGone
<1> QED BY <1>1, LedgerInvariant, PTL

\* Decommission attempts are opened one after the other, whatever snapshot the call
\* of the decommissioner that opens one took (loadNativeDecommissionFailedAttemptsTx).
THEOREM AttemptsSerial == Spec => []AttemptsAreSerial
<1>1. Inv => AttemptsAreSerial
  BY DEF Inv, AttemptInv
<1> QED BY <1>1, LedgerInvariant, PTL

---------------------------------------------------------------------------
\* The refinement

CustodyStep == [Custody!CustodyNext]_(Custody!cvars)

\* A step that records nothing, creates nothing and releases nothing is invisible.
LEMMA CustodyStutter ==
    ASSUME UNCHANGED <<bound, creates, created, live, slot>>
    PROVE  CustodyStep
<1>1. Bound' = Bound
  BY DEF Bound
<1> QED BY <1>1 DEF CustodyStep, Custody!cvars

\* A tombstone of FinalizeResourceFreeTeardown: nothing was ever recorded.
LEMMA FinalizeReleases ==
    ASSUME NEW p \in Provisions, FinalizeTeardown(p)
    PROVE  CustodyStep
<1>1. /\ Bound' = {} /\ Bound = {} /\ slot = "reserved" /\ slot' # "reserved"
      /\ UNCHANGED <<creates, created, live>>
  BY DEF FinalizeTeardown, CanFinalize, Tombstone, Bound, ops, provider
<1> QED BY <1>1 DEF CustodyStep, Custody!CustodyNext, Custody!Release

\* A receipt records handles, releases the slot or is invisible.
LEMMA AppendImplements ==
    ASSUME Inv, NEW w \in Workers, AppendReceipt(w)
    PROVE  CustodyStep
<1> DEFINE c == worker[w].call
<1>0. /\ c.st = "returned" /\ c.op \in Ops /\ Live(c.op) /\ head[c.op] = c.at /\ Project(c.op, c.res)
      /\ UNCHANGED <<creates, created, live>>
      /\ bound' = (IF Dispatching(c) THEN [bound EXCEPT ![c.op] = c.got] ELSE bound)
      /\ bound \in [Provisions -> SUBSET Handles] /\ c.got \subseteq Handles
  BY DEF AppendReceipt, Appends, Holds, Inv, TypeOK, Ops, provider
<1>1. CallInv(w)
  BY DEF Inv
<1>2. CASE Dispatching(c)
  <2>1. CreateLive /\ c.op \in Provisions /\ head[c.op] = "accepted"
    BY <1>0, <1>1, <1>2, OpsFacts DEF CreateLive, Dispatching, CallInv
  <2>2. slot = "reserved" /\ slot' = slot
    <3>1. slot = "reserved"
      BY <2>1 DEF Inv, ReleaseInv
    <3> QED BY <1>0, <2>1, <3>1, OpsFacts DEF Project, lease
  <2>3. bound[c.op] = {}
    BY <2>1 DEF Inv, HeadInv
  <2>4. Bound \subseteq Bound' /\ Bound' \subseteq Handles
    BY <1>0, <1>2, <2>1, <2>3 DEF Bound
  <2> QED BY <1>0, <2>2, <2>4 DEF CustodyStep, Custody!CustodyNext, Custody!Record
<1>3. CASE ~Dispatching(c) /\ slot' = slot
  BY <1>0, <1>3, CustodyStutter
<1>4. CASE ~Dispatching(c) /\ slot' # slot
  <2>1. c.op \in Decommissions /\ c.res = "absent" /\ AbsenceProved(c.op)
        /\ Tombstone("provider_absence")
    BY <1>0, <1>4 DEF Project, lease
  <2>2. slot = "reserved" /\ slot' = "provider_absence" /\ targets[c.op] = Bound
    BY <2>1 DEF AbsenceProved, Tombstone
  <2>3. targets[c.op] \intersect live = {}
    BY <1>0, <1>1, <2>1 DEF CallInv
  <2>4. Bound' = Bound /\ Bound \subseteq created \ live
    <3>1. Bound \subseteq created
      BY DEF Bound, Inv, HandleInv
    <3>2. Bound' = Bound
      BY <1>0, <1>4 DEF Bound
    <3> QED BY <2>2, <2>3, <3>1, <3>2
  <2> QED BY <1>0, <2>2, <2>4 DEF CustodyStep, Custody!CustodyNext, Custody!Release
<1> QED BY <1>2, <1>3, <1>4

\* A decision adopts a graph, releases a failed head or is invisible.
LEMMA DecideImplements ==
    ASSUME Inv, NEW r \in Resolvers, Decide(r)
    PROVE  CustodyStep
<1> DEFINE C == UNION obs
           adopts == Outcome(C) = "adopted_exact_candidate"
<1>0. /\ guard \in Provisions /\ C \subseteq Handles /\ ~Tombstoned
      /\ bound \in [Provisions -> SUBSET Handles] /\ UNCHANGED <<creates, created, live>>
      /\ bound' = (IF adopts THEN [bound EXCEPT ![guard] = C] ELSE bound)
  BY DEF Inv, TypeOK, GuardInv, Decide, CanDecide, provider
<1>1. slot = "reserved"
  BY <1>0 DEF Inv, ReleaseInv
<1>2. CASE head[guard] = "failed"
  <2>1. ~adopts /\ Bound = {} /\ slot' = "resource_free"
    BY <1>2 DEF Decide, CanDecide, Outcome, Tombstone
  <2>2. Bound' = Bound
    BY <1>0, <2>1 DEF Bound
  <2> QED BY <1>0, <1>1, <2>1, <2>2 DEF CustodyStep, Custody!CustodyNext, Custody!Release
<1>3. CASE head[guard] # "failed"
  <2>1. slot' = slot /\ head[guard] = "accepted"
    BY <1>3 DEF Decide, CanDecide
  <2>2. bound[guard] = {}
    BY <1>0, <2>1 DEF Inv, HeadInv
  <2>3. Bound \subseteq Bound' /\ Bound' \subseteq Handles
    <3>1. CASE adopts
      <4>1. bound' = [bound EXCEPT ![guard] = C]
        BY <1>0, <3>1
      <4> HIDE DEF C
      <4> QED BY <1>0, <2>2, <4>1 DEF Bound
    <3>2. CASE ~adopts
      BY <1>0, <3>2 DEF Bound
    <3> QED BY <3>1, <3>2
  <2> QED BY <1>0, <1>1, <2>1, <2>3 DEF CustodyStep, Custody!CustodyNext, Custody!Record
<1> QED BY <1>2, <1>3

\* The create call, and the provider's own steps.
LEMMA ProviderImplements ==
    ASSUME Inv
    PROVE  /\ \A w \in Workers : DispatchCreate(w) => CustodyStep
           /\ \A p \in Provisions : Land(p) => CustodyStep
           /\ \A h \in Handles : Vanish(h) => CustodyStep
<1>0. live \subseteq created /\ created \subseteq Handles
  BY DEF Inv, HandleInv, TypeOK
<1>a. ASSUME UNCHANGED bound PROVE Bound' = Bound
  BY <1>a DEF Bound
<1>1. ASSUME NEW w \in Workers, DispatchCreate(w) PROVE CustodyStep
  <2>1. creates = 0 /\ creates' = 1
    BY <1>1 DEF Inv, CallInv, DispatchCreate, Dispatching
  <2>2. UNCHANGED <<bound, created, live, slot>>
    BY <1>1 DEF DispatchCreate, ops, lease
  <2> QED BY <1>a, <2>1, <2>2 DEF CustodyStep, Custody!CustodyNext, Custody!Create
<1>2. ASSUME NEW p \in Provisions, Land(p) PROVE CustodyStep
  <2>1. UNCHANGED <<bound, creates, slot>>
    BY <1>2 DEF Land, ops, lease
  <2>2. created' \ live' = created \ live
    BY <1>0, <1>2 DEF Land
  <2> QED BY <1>a, <2>1, <2>2 DEF CustodyStep, Custody!cvars
<1>3. ASSUME NEW h \in Handles, Vanish(h) PROVE CustodyStep
  <2>1. UNCHANGED <<bound, creates, slot>>
    BY <1>3 DEF Vanish, ops, lease
  <2>2. created \ live \subseteq created' \ live' /\ created' \ live' \subseteq Handles
    BY <1>0, <1>3 DEF Vanish
  <2> QED BY <1>a, <2>1, <2>2 DEF CustodyStep, Custody!CustodyNext, Custody!Vanish
<1> QED BY <1>1, <1>2, <1>3

\* Every step is a step of the custody or invisible to it.
LEMMA NextImplements ==
    ASSUME Inv, [Next]_vars
    PROVE  CustodyStep
<1> USE DEF ops, custody, lease, actors, provider
<1>1. Operator \in Resolvers /\ Automatic \in Resolvers /\ Destroyers \subseteq Resolvers
  BY DEF Resolvers
<1>2. ASSUME NEW w \in Workers, Work(w) \/ Crash(w) PROVE CustodyStep
  <2>1. CASE ListRunnable(w) \/ ReleaseClaim(w) \/ Crash(w) \/ \E x \in Results0 : Answer(w, x)
    BY <2>1, CustodyStutter DEF ListRunnable, ReleaseClaim, Crash, Answer
  <2>2. ASSUME NEW o \in Ops, AdvanceAccept(w, o) \/ AdvanceClaim(w, o) \/ AdvanceNothing(w, o)
        PROVE  CustodyStep
    BY <2>2, CustodyStutter DEF AdvanceAccept, AdvanceClaim, AdvanceNothing
  <2>3. ASSUME NEW p \in Provisions, AdvancePark(w, p) \/ AdvanceDispatch(w, p) PROVE CustodyStep
    BY <2>3, CustodyStutter DEF AdvancePark, AdvanceDispatch
  <2>4. ASSUME NEW p \in Provisions, AdvanceFinalize(w, p) PROVE CustodyStep
    BY <2>4, FinalizeReleases DEF AdvanceFinalize
  <2> QED BY <1>2, <2>1, <2>2, <2>3, <2>4, AppendImplements, ProviderImplements DEF Work, Advance
<1>3. ASSUME NEW r \in Resolvers, Discover(r) \/ Decide(r) \/ Refuse(r) PROVE CustodyStep
  <2>1. CASE Discover(r) \/ Refuse(r)
    BY <2>1, CustodyStutter DEF Discover, Refuse
  <2> QED BY <1>3, <2>1, DecideImplements
<1>4. ASSUME NEW k \in Destroyers, Prepare(k) \/ Decommissioner(k) PROVE CustodyStep
  <2>1. CASE Prepare(k) \/ ConvergeWait(k)
    BY <2>1, CustodyStutter DEF Prepare, ConvergeWait
  <2>2. ASSUME NEW d \in Decommissions, StartDecommission(k, d) PROVE CustodyStep
    BY <2>2, CustodyStutter DEF StartDecommission
  <2>3. ASSUME NEW p \in Provisions, ConvergeResolve(k, p) PROVE CustodyStep
    BY <2>3, CustodyStutter DEF ConvergeResolve
  <2>4. ASSUME NEW p \in Provisions, ConvergeFinalize(k, p) PROVE CustodyStep
    BY <2>4, FinalizeReleases DEF ConvergeFinalize
  <2> QED BY <1>1, <1>3, <1>4, <2>1, <2>2, <2>3, <2>4 DEF Decommissioner
<1>5. ASSUME NEW p \in Provisions, StartProvision(p) \/ Lose(p) \/ DropQueued(p) PROVE CustodyStep
  BY <1>5, CustodyStutter DEF StartProvision, Lose, DropQueued
<1>6. ASSUME NEW o \in Ops, ExpireClaim(o) PROVE CustodyStep
  BY <1>6, CustodyStutter DEF ExpireClaim
<1>7. ASSUME WindowPasses \/ UNCHANGED vars PROVE CustodyStep
  BY <1>7, CustodyStutter DEF WindowPasses, vars
<1> QED BY <1>1, <1>2, <1>3, <1>4, <1>5, <1>6, <1>7, ProviderImplements
        DEF Next, Environment, AutomaticResolver

\* The ledger implements RuntimeCustody: one create, handles recorded only while the
\* slot is reserved, the slot released only over handles that are gone.
THEOREM CustodyImplemented == Spec => ImplementsCustody
<1>1. Init => Custody!CustodyInit
  BY DEF Init, Custody!CustodyInit, Bound
<1>2. Inv /\ [Next]_vars => [Custody!CustodyNext]_(Custody!cvars)
  BY NextImplements DEF CustodyStep
<1> QED BY <1>1, <1>2, LedgerInvariant, PTL DEF Spec, ImplementsCustody, Custody!CustodySpec
=============================================================================
