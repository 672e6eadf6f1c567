------------------------------ MODULE JobStore ------------------------------
(***************************************************************************)
(* The durable job table of the TechStack control plane                    *)
(* (pkg/controlplane): the rows every replica shares, the execution lease  *)
(* a running row carries, the node fence that keeps two executions off one *)
(* stack or server, and the maintenance windows that share that fence.     *)
(*                                                                         *)
(* Each store operation is one SQL transaction, so each is one action.     *)
(* StartJob, ClaimWorkloadRelocationRecovery and ClaimServerMaintenanceJob *)
(* take the sorted advisory locks of every stack and server they touch     *)
(* before they read for a conflict, which is why reading and writing are   *)
(* one step here.                                                          *)
(*                                                                         *)
(* Time is a countdown: a lease is the number of ticks until its deadline  *)
(* on the DATABASE clock, so no absolute clock is needed.                  *)
(***************************************************************************)
EXTENDS Integers, FiniteSets

CONSTANTS
    Jobs,           \* job identities (one row each)
    Owners,         \* execution owners: one id per boot of a replica
    Gens,           \* execution generations: values of started_at
    Windows,        \* server maintenance jobs (reboot, OS update)
    Type,           \* Type[j]: the job type
    Targets,        \* Targets[j]: the [stack, agent] pairs the job mutates
    NodeOf,         \* NodeOf[w]: the [stack, agent] the window holds
    Marked,         \* managed destroys carrying the recovery marker
    NoGen, NoOwner, NoLease, \* SQL NULL
    NoName,         \* the empty stack or agent id
    TTL,            \* jobExecutionLeaseTTL in ticks
    Grace,          \* silence after which a marked destroy may be reclaimed
    MaxLag,         \* how far past its deadline a lease is tracked
    MaxSkew         \* how far a replica clock may run ahead of the database

Relocation == "workload_relocation"

Lease == (0 - MaxLag)..TTL

ASSUME ConstantsAssumption ==
    /\ TTL \in Nat \ {0} /\ Grace \in 1..TTL
    /\ MaxLag \in Nat /\ MaxSkew \in Nat
    /\ NoGen \notin Gens /\ NoOwner \notin Owners /\ NoLease \notin Lease
    /\ Marked \subseteq Jobs

VARIABLES
    row,    \* row[j]: the jobs table
    cmd,    \* cmd[j]: a mutating node command of j is dispatched and in budget
    maint   \* maint[w]: the server_maintenance_jobs row of window w

vars == <<row, cmd, maint>>

States == {"absent", "pending", "running", "completed", "failed", "cancelled"}
Terminal == {"completed", "failed", "cancelled"}

(***************************************************************************)
(* "outcome" is result_json.workload_relocation.state: "held" stands for   *)
(* the three states that keep the fence after the execution ended,         *)
(* "settled" for moved and aborted.  "step" tells the recovery execution   *)
(* from the handler's.  "wait" is the presence of result_json.job_wait.    *)
(***************************************************************************)
Rows == [state : States, gen : Gens \cup {NoGen}, owner : Owners \cup {NoOwner},
         lease : Lease \cup {NoLease}, outcome : {"none", "held", "settled"},
         step : {"handler", "recovery"}, wait : BOOLEAN]

AbsentRow == [state |-> "absent", gen |-> NoGen, owner |-> NoOwner,
              lease |-> NoLease, outcome |-> "none", step |-> "handler",
              wait |-> FALSE]

(***************************************************************************)
(* A window holds its node while claimed and before its deadline.  "held"  *)
(* has held it since the claim; "lapsed" is claimed but past its deadline; *)
(* "reheld" had its deadline moved forward after it had already lapsed.    *)
(***************************************************************************)
WindowStates == {"none", "queued", "held", "lapsed", "reheld"}

TypeOK ==
    /\ row \in [Jobs -> Rows]
    /\ cmd \in [Jobs -> BOOLEAN]
    /\ maint \in [Windows -> WindowStates]

Init ==
    /\ row = [j \in Jobs |-> AbsentRow]
    /\ cmd = [j \in Jobs |-> FALSE]
    /\ maint = [w \in Windows |-> "none"]

-----------------------------------------------------------------------------
(* The fence: which executions exclude each other.                         *)

Running(j) == row[j].state = "running"

relocationHoldsExecution(j) == Type[j] = Relocation /\ row[j].outcome = "held"

\* A relocation names the two nodes of the move; any other job names one.
Wide(j) == \E a, b \in Targets[j] : a # b

executionTargetsOverlap(j, k) ==
    \E a \in Targets[j], b \in Targets[k] :
        \/ a.stack # NoName /\ a.stack = b.stack
        \/ (Wide(j) \/ Wide(k)) /\ a.agent # NoName /\ a.agent = b.agent

\* Mutant of TargetBusy: a move fences its stacks but not its servers.
TargetBusy_StacksOnly(j) ==
    \E k \in Jobs \ {j} : /\ Running(k) \/ relocationHoldsExecution(k)
                          /\ \E a \in Targets[j], b \in Targets[k] : a.stack = b.stack

\* Mutant of TargetBusy: an unresolved move that does not run is forgotten.
TargetBusy_RunningOnly(j) ==
    \E k \in Jobs \ {j} : Running(k) /\ executionTargetsOverlap(j, k)

\* refuseExecutionTargetConflictTx: another execution runs on, or a move that
\* is not yet resolved still fences, a target of j.
TargetBusy(j) ==
    \E k \in Jobs \ {j} : /\ Running(k) \/ relocationHoldsExecution(k)
                          /\ executionTargetsOverlap(j, k)

\* A window concerns a job that names its server, or that names no server
\* and belongs to its stack.
WindowCovers(w, j) ==
    \E t \in Targets[j] :
        \/ t.agent # NoName /\ t.agent = NodeOf[w].agent
        \/ t.agent = NoName /\ t.stack # NoName /\ t.stack = NodeOf[w].stack

Holds(w) == maint[w] \in {"held", "reheld"}

\* refuseNodeUnderMaintenanceTx
UnderMaintenance(j) == \E w \in Windows : Holds(w) /\ WindowCovers(w, j)

\* refuseBusyNodeTx
NodeBusy(w) ==
    \E j \in Jobs : /\ \/ row[j].state \in {"pending", "running"}
                       \/ relocationHoldsExecution(j)
                    /\ WindowCovers(w, j)

Put(j, r) == row' = [row EXCEPT ![j] = r]

-----------------------------------------------------------------------------
(* Admission of a row.                                                     *)

CreateJob(j) ==
    /\ row[j].state = "absent"
    /\ Put(j, [AbsentRow EXCEPT !.state = "pending"])
    /\ UNCHANGED <<cmd, maint>>

\* Inserts, or overwrites any row that is not running: a cancelled or failed
\* row becomes pending again, and keeps its old generation.
UpsertJob(j, s) ==
    /\ Type[j] # Relocation
    /\ ~Running(j)
    /\ Put(j, [row[j] EXCEPT !.state = s, !.outcome = "none", !.wait = FALSE,
                             !.step = "handler"])
    /\ UNCHANGED <<cmd, maint>>

-----------------------------------------------------------------------------
(* Execution: the claim, its heartbeat and its end.                        *)

StartJob(j, o, g) ==
    /\ row[j].state = "pending"
    /\ ~TargetBusy(j)
    /\ ~UnderMaintenance(j)
    /\ Put(j, [row[j] EXCEPT !.state = "running", !.gen = g, !.owner = o,
                             !.lease = TTL])
    /\ UNCHANGED <<cmd, maint>>

\* Mutant of Projected: a waiting job is stored as it is.
Projected_Identity(observed) == observed

\* The state a local job state is stored as: a waiting job is a pending row.
Projected(observed) == IF observed = "waiting" THEN "pending" ELSE observed

Observable == {"pending", "running", "waiting"} \cup Terminal

\* Mutant of SnapshotAdmitted: the generation is not compared.
SnapshotAdmitted_AnyGeneration(j, observed, g) ==
    /\ row[j].state \in {"pending", "running"}
    /\ observed = "pending" => row[j].state = "pending" \/ g # NoGen
    /\ observed = "running" => Running(j)

\* Mutant of SnapshotAdmitted: a settled row is not closed to snapshots.
SnapshotAdmitted_ReopensSettled(j, observed, g) ==
    /\ row[j].state # "absent"
    /\ row[j].gen = g
    /\ observed = "pending" => row[j].state = "pending" \/ g # NoGen
    /\ observed = "running" => Running(j)

\* The compare-and-swap of SyncJobSnapshot: an open row of this generation,
\* and no running or pending snapshot over a row it cannot have come from.
SnapshotAdmitted(j, observed, g) ==
    /\ row[j].state \in {"pending", "running"}
    /\ row[j].gen = g
    /\ observed = "pending" => row[j].state = "pending" \/ g # NoGen
    /\ observed = "running" => Running(j)

\* Mutant of SyncJobSnapshot: a snapshot that leaves 'running' keeps the lease.
SyncJobSnapshot_KeepsLease(j, observed, g, outcome) ==
    /\ SnapshotAdmitted(j, observed, g)
    /\ Put(j, [row[j] EXCEPT !.state = Projected(observed), !.outcome = outcome,
                             !.step = "handler", !.wait = (observed = "waiting")])
    /\ UNCHANGED <<cmd, maint>>

SyncJobSnapshot(j, observed, g, outcome) ==
    /\ SnapshotAdmitted(j, observed, g)
    /\ Put(j, [row[j] EXCEPT
                 !.state = Projected(observed),
                 !.owner = IF observed = "running" THEN @ ELSE NoOwner,
                 !.lease = IF observed = "running" THEN TTL ELSE NoLease,
                 !.outcome = outcome,
                 !.step = "handler",
                 !.wait = (observed = "waiting")])
    /\ UNCHANGED <<cmd, maint>>

\* What a handler can report of its move: the fence may change only while the
\* move executes or is already fenced, and only a relocation reports one.
Outcomes(j) ==
    IF Type[j] = Relocation /\ (Running(j) \/ relocationHoldsExecution(j))
    THEN {"none", "held", "settled"}
    ELSE {row[j].outcome}

CompleteJob(j) ==
    /\ Running(j)
    /\ Type[j] # Relocation
    /\ Put(j, [row[j] EXCEPT !.state = "completed", !.owner = NoOwner,
                             !.lease = NoLease, !.outcome = "none", !.wait = FALSE])
    /\ UNCHANGED <<cmd, maint>>

FailJob(j) ==
    /\ Running(j)
    /\ Put(j, [row[j] EXCEPT !.state = "failed", !.owner = NoOwner,
                             !.lease = NoLease])
    /\ UNCHANGED <<cmd, maint>>

-----------------------------------------------------------------------------
(* Supersession of rows nobody executes.                                   *)

\* The pending rollouts and destroys of stack s give way to a new destroy.
CancelPendingStackOperations(s) ==
    /\ row' = [j \in Jobs |->
                 IF /\ row[j].state = "pending"
                    /\ Type[j] \in {"provision", "deploy", "destroy"}
                    /\ \E t \in Targets[j] : t.stack = s
                 THEN [row[j] EXCEPT !.state = "cancelled", !.owner = NoOwner,
                                     !.lease = NoLease]
                 ELSE row[j]]
    /\ UNCHANGED <<cmd, maint>>

ClaimWaitingJobResume(j) ==
    /\ row[j].state = "pending"
    /\ row[j].wait
    /\ Put(j, [row[j] EXCEPT !.state = "cancelled"])
    /\ UNCHANGED <<cmd, maint>>

-----------------------------------------------------------------------------
(* Recovery of executions that stopped reporting.  "slack" is how far the  *)
(* caller's cutoff lies ahead of the database clock: the skew of its own   *)
(* clock less the time since it read it.                                   *)

LeaseLapsed(j, slack) == row[j].lease \in Lease /\ row[j].lease <= slack

\* Mutant of ReclaimExpiredJobExecution: trusts the scan that listed the row.
ReclaimExpiredJobExecution_TrustsScan(j, o, slack) ==
    /\ Running(j)
    /\ row[j].owner = o
    /\ ~cmd[j]
    /\ Put(j, [row[j] EXCEPT !.state = "failed", !.owner = NoOwner,
                             !.lease = NoLease])
    /\ UNCHANGED <<cmd, maint>>

ReclaimExpiredJobExecution(j, o, slack) ==
    /\ Running(j)
    /\ LeaseLapsed(j, slack)
    /\ row[j].owner = o
    /\ ~cmd[j]
    /\ Put(j, [row[j] EXCEPT !.state = "failed", !.owner = NoOwner,
                             !.lease = NoLease])
    /\ UNCHANGED <<cmd, maint>>

\* Keeps started_at, so a replica that still holds the wait can adopt it.
ResumeExpiredJobExecution(j, o, slack) ==
    /\ Running(j)
    /\ LeaseLapsed(j, slack)
    /\ row[j].owner = o
    /\ Put(j, [row[j] EXCEPT !.state = "pending", !.owner = NoOwner,
                             !.lease = NoLease])
    /\ UNCHANGED <<cmd, maint>>

\* Mutant of ReclaimStaleManagedDestroyRecovery: ignores updated_at.
ReclaimStaleManagedDestroyRecovery_AnySilence(j, slack) ==
    /\ Running(j)
    /\ j \in Marked
    /\ Put(j, [row[j] EXCEPT !.state = "pending", !.gen = NoGen,
                             !.owner = NoOwner, !.lease = NoLease])
    /\ UNCHANGED <<cmd, maint>>

\* Every write that renews the lease also moves updated_at, so a row that has
\* been silent for Grace ticks has at most TTL - Grace left.
ReclaimStaleManagedDestroyRecovery(j, slack) ==
    /\ Running(j)
    /\ j \in Marked
    /\ row[j].gen # NoGen
    /\ LeaseLapsed(j, TTL - Grace + slack)
    /\ Put(j, [row[j] EXCEPT !.state = "pending", !.gen = NoGen,
                             !.owner = NoOwner, !.lease = NoLease])
    /\ UNCHANGED <<cmd, maint>>

-----------------------------------------------------------------------------
(* Recovery of a move whose outcome is unknown.                            *)

\* Mutant of ClaimWorkloadRelocationRecovery: claims a resolved move as well.
ClaimWorkloadRelocationRecovery_AnyMove(j, o) ==
    /\ row[j].state \notin {"absent", "running"}
    /\ Type[j] = Relocation
    /\ ~TargetBusy(j)
    /\ ~UnderMaintenance(j)
    /\ Put(j, [row[j] EXCEPT !.state = "running", !.step = "recovery",
                             !.owner = o, !.lease = TTL])
    /\ UNCHANGED <<cmd, maint>>

\* Takes the row into 'running' under a new owner and KEEPS started_at.
ClaimWorkloadRelocationRecovery(j, o) ==
    /\ row[j].state \notin {"absent", "running"}
    /\ relocationHoldsExecution(j)
    /\ ~TargetBusy(j)
    /\ ~UnderMaintenance(j)
    /\ Put(j, [row[j] EXCEPT !.state = "running", !.step = "recovery",
                             !.owner = o, !.lease = TTL])
    /\ UNCHANGED <<cmd, maint>>

RecoveringAs(j, o) == Running(j) /\ row[j].step = "recovery" /\ row[j].owner = o

LeaseLive(j) == row[j].lease \in Lease /\ row[j].lease > 0

RenewWorkloadRelocationRecovery(j, o) ==
    /\ RecoveringAs(j, o)
    /\ LeaseLive(j)
    /\ Put(j, [row[j] EXCEPT !.lease = TTL])
    /\ UNCHANGED <<cmd, maint>>

FailWorkloadRelocationRecovery(j, o) ==
    /\ RecoveringAs(j, o)
    /\ Put(j, [row[j] EXCEPT !.state = "failed", !.owner = NoOwner,
                             !.lease = NoLease])
    /\ UNCHANGED <<cmd, maint>>

ResolveWorkloadRelocation(j, o) ==
    /\ row[j].state # "absent"
    /\ Type[j] = Relocation
    /\ Running(j) => RecoveringAs(j, o) /\ LeaseLive(j)
    /\ row[j].outcome \in {"held", "settled"}
    /\ Put(j, [row[j] EXCEPT !.state = "completed", !.outcome = "settled",
                             !.owner = NoOwner, !.lease = NoLease])
    /\ UNCHANGED <<cmd, maint>>

-----------------------------------------------------------------------------
(* Maintenance windows.                                                    *)

\* One active window per server (server_maintenance_jobs_one_active_mutation).
AdmitServerMaintenanceJob(w) ==
    /\ maint[w] = "none"
    /\ \A v \in Windows \ {w} : NodeOf[v].agent = NodeOf[w].agent => maint[v] = "none"
    /\ ~NodeBusy(w)
    /\ maint' = [maint EXCEPT ![w] = "queued"]
    /\ UNCHANGED <<row, cmd>>

\* Mutant of ClaimServerMaintenanceJob: trusts the check made at admission.
ClaimServerMaintenanceJob_TrustsAdmission(w) ==
    /\ maint[w] = "queued"
    /\ maint' = [maint EXCEPT ![w] = "held"]
    /\ UNCHANGED <<row, cmd>>

ClaimServerMaintenanceJob(w) ==
    /\ maint[w] = "queued"
    /\ ~NodeBusy(w)
    /\ maint' = [maint EXCEPT ![w] = "held"]
    /\ UNCHANGED <<row, cmd>>

\* UpdateServerMaintenanceJob to a terminal state, or queued and cancelled.
SettleServerMaintenanceJob(w) ==
    /\ maint[w] # "none"
    /\ maint' = [maint EXCEPT ![w] = "none"]
    /\ UNCHANGED <<row, cmd>>

\* UpdateServerMaintenanceJob with a later deadline: the update compares the
\* state alone, so it is accepted after the old deadline has passed too.
ExtendServerMaintenanceJob(w) ==
    /\ maint[w] = "lapsed"
    /\ maint' = [maint EXCEPT ![w] = "reheld"]
    /\ UNCHANGED <<row, cmd>>

\* deadline_at passes.
WindowDeadline(w) ==
    /\ Holds(w)
    /\ maint' = [maint EXCEPT ![w] = "lapsed"]
    /\ UNCHANGED <<row, cmd>>

-----------------------------------------------------------------------------
(* Node commands and time.                                                 *)

\* typed_agent_commands: the execution dispatches a mutating command ...
DispatchCommand(j) ==
    /\ Running(j) /\ ~cmd[j]
    /\ cmd' = [cmd EXCEPT ![j] = TRUE]
    /\ UNCHANGED <<row, maint>>

\* ... which reports, or outlives its budget.
SettleCommand(j) ==
    /\ cmd[j]
    /\ cmd' = [cmd EXCEPT ![j] = FALSE]
    /\ UNCHANGED <<row, maint>>

Older(r) == IF r.state = "running" /\ r.lease \in Lease /\ r.lease > 0 - MaxLag
            THEN [r EXCEPT !.lease = @ - 1] ELSE r

Tick ==
    /\ row' = [j \in Jobs |-> Older(row[j])]
    /\ UNCHANGED <<cmd, maint>>

-----------------------------------------------------------------------------
Slacks == (0 - MaxLag)..MaxSkew

JobNext(j) ==
    \/ CreateJob(j)
    \/ \E s \in {"pending", "completed"} : UpsertJob(j, s)
    \/ \E o \in Owners, g \in Gens : StartJob(j, o, g)
    \/ \E observed \in Observable, g \in Gens \cup {NoGen}, outcome \in Outcomes(j) :
           SyncJobSnapshot(j, observed, g, outcome)
    \/ CompleteJob(j)
    \/ FailJob(j)
    \/ ClaimWaitingJobResume(j)
    \/ \E o \in Owners, slack \in Slacks : ReclaimExpiredJobExecution(j, o, slack)
    \/ \E o \in Owners, slack \in Slacks : ResumeExpiredJobExecution(j, o, slack)
    \/ \E slack \in Slacks : ReclaimStaleManagedDestroyRecovery(j, slack)
    \/ \E o \in Owners : ClaimWorkloadRelocationRecovery(j, o)
    \/ \E o \in Owners : RenewWorkloadRelocationRecovery(j, o)
    \/ \E o \in Owners : FailWorkloadRelocationRecovery(j, o)
    \/ \E o \in Owners : ResolveWorkloadRelocation(j, o)
    \/ DispatchCommand(j)
    \/ SettleCommand(j)

WindowNext(w) ==
    \/ AdmitServerMaintenanceJob(w)
    \/ ClaimServerMaintenanceJob(w)
    \/ SettleServerMaintenanceJob(w)
    \/ ExtendServerMaintenanceJob(w)
    \/ WindowDeadline(w)

Stacks == UNION {{t.stack : t \in Targets[j]} : j \in Jobs} \ {NoName}

Next ==
    \/ \E j \in Jobs : JobNext(j)
    \/ \E w \in Windows : WindowNext(w)
    \/ \E s \in Stacks : CancelPendingStackOperations(s)
    \/ Tick

Spec == Init /\ [][Next]_vars

-----------------------------------------------------------------------------
(* Properties.                                                             *)

(***************************************************************************)
(* Two running rows never share a target: whatever sequence of claims,     *)
(* snapshots, reclaims, recoveries and supersessions led there, at most    *)
(* one execution owns a stack, and a move owns both of its servers         *)
(* (refuseExecutionTargetConflictTx).                                      *)
(***************************************************************************)
OneExecutionPerTarget ==
    \A j, k \in Jobs : j # k /\ Running(j) /\ Running(k)
                       => ~executionTargetsOverlap(j, k)

(***************************************************************************)
(* A move whose outcome is unresolved fences both of its nodes in every    *)
(* state its row may have - failed by the reclaimer, cancelled, pending -  *)
(* so no other execution runs there until the hold is resolved.            *)
(***************************************************************************)
UnresolvedMoveFences ==
    \A j, k \in Jobs : j # k /\ relocationHoldsExecution(j) /\ Running(k)
                       => ~executionTargetsOverlap(j, k)

(***************************************************************************)
(* A row has an owner and a lease exactly while it runs: every writer that *)
(* leaves 'running' clears both columns, so no running row escapes the     *)
(* lease scan and no idle row is seen by it.                               *)
(***************************************************************************)
LeaseExactlyWhileRunning ==
    \A j \in Jobs : /\ Running(j) <=> row[j].owner # NoOwner
                    /\ Running(j) <=> row[j].lease # NoLease

(***************************************************************************)
(* A maintenance window that has held its node without interruption since  *)
(* the claim never coexists with an execution on that node.                *)
(***************************************************************************)
WindowExcludesExecution ==
    \A w \in Windows, j \in Jobs :
        maint[w] = "held" /\ WindowCovers(w, j) => ~Running(j)

(***************************************************************************)
(* A settled row is never executed again behind the back of its admission: *)
(* a terminal row that starts running without a new admission is the       *)
(* recovery of an unresolved move, and its targets were free.              *)
(***************************************************************************)
SettledRowRestartsOnlyToRecover ==
    [][\A j \in Jobs :
          row[j].state \in Terminal /\ row'[j].state = "running"
          => relocationHoldsExecution(j) /\ row'[j].step = "recovery" /\ ~TargetBusy(j)]_vars

(***************************************************************************)
(* The table implements the lock of ExecutionFence: a job holds it while   *)
(* its row runs and, for a move, while its outcome is unresolved; holds    *)
(* are taken one at a time and never against a conflicting one.            *)
(***************************************************************************)
Held == {j \in Jobs : Running(j) \/ relocationHoldsExecution(j)}

Fence == INSTANCE ExecutionFence WITH held <- Held, Conflict <- executionTargetsOverlap

ImplementsFence == Fence!Spec

=============================================================================
