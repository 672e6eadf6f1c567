---------------------------- MODULE JobSettlement ----------------------------
(***************************************************************************)
(* How the end of a job reaches the rest of the control plane: the progress*)
(* loop stores the terminal snapshot, projects the stack's status once and *)
(* then hands the job to the terminal observers (pkg/orchestrator).  The   *)
(* reclaimer settles and projects the jobs of a replica that went silent,  *)
(* and a graceful shutdown flushes what the loops had not stored.          *)
(*                                                                         *)
(* The jobs belong to one stack.  That at most one of them runs is the     *)
(* fence of JobStore; here a row is its state.                             *)
(***************************************************************************)
EXTENDS Naturals

CONSTANTS
    Jobs,       \* the jobs of one stack
    Kind,       \* Kind[j]: the job type
    Lossy,      \* whether the answer to a committed snapshot may be lost
    Mortal      \* whether the replica may stop, crash or go silent

ASSUME SettlementAssumption == Lossy \in BOOLEAN /\ Mortal \in BOOLEAN

VARIABLES
    row,        \* row[j]: the state of the durable row
    local,      \* local[j]: the state of the queue's entry
    loop,       \* loop[j]: where the progress loop stands
    reclaimer,  \* reclaimer[j]: whether the reclaimer still has to project j
    stack,      \* the stack's status and the job it was projected from
    seen,       \* jobs the terminal observers have accepted
    up          \* the replica is running

vars == <<row, local, loop, reclaimer, stack, seen, up>>

Terminal == {"completed", "failed", "cancelled"}
States == {"pending", "running"} \cup Terminal
NoJob == "none"

\* "retry": the status is projected, the observers have failed before.
LoopStates == {"off", "tick", "stored", "observe", "retry"}

\* completedStackStatusForJobType
completedStackStatus(kind) ==
    CASE kind = "provision" -> "pending"
      [] kind = "deploy" -> "running"
      [] kind = "destroy" -> "stopped"
      [] OTHER -> ""

\* stackStatusForJob
stackStatus(j, state) ==
    CASE state = "completed" -> completedStackStatus(Kind[j])
      [] state = "failed" -> "error"
      [] OTHER -> ""

Statuses == {"new", "pending", "running", "stopped", "error"}

TypeOK ==
    /\ row \in [Jobs -> States] /\ local \in [Jobs -> States]
    /\ loop \in [Jobs -> LoopStates]
    /\ reclaimer \in [Jobs -> BOOLEAN]
    /\ stack \in [status : Statuses, by : Jobs \cup {NoJob}]
    /\ seen \subseteq Jobs /\ up \in BOOLEAN

Init ==
    /\ row = [j \in Jobs |-> "pending"] /\ local = [j \in Jobs |-> "pending"]
    /\ loop = [j \in Jobs |-> "tick"] /\ reclaimer = [j \in Jobs |-> FALSE]
    /\ stack = [status |-> "new", by |-> NoJob]
    /\ seen = {} /\ up = TRUE

Loop(j, pc) == loop' = [loop EXCEPT ![j] = pc]

\* Mutant of Project: a status is written for a cancelled job too.
Project_AnyState(j, state) ==
    stack' = [status |-> stackStatus(j, state), by |-> j]

\* updateStackStatusSnapshot: a failed update is logged and not repeated.
Project(j, state) ==
    \/ stackStatus(j, state) # "" /\ stack' = [status |-> stackStatus(j, state), by |-> j]
    \/ UNCHANGED stack

-----------------------------------------------------------------------------
Start(j) ==
    /\ up /\ row[j] = "pending" /\ local[j] = "pending"
    /\ \A k \in Jobs : row[k] # "running"
    /\ row' = [row EXCEPT ![j] = "running"]
    /\ local' = [local EXCEPT ![j] = "running"]
    /\ UNCHANGED <<loop, reclaimer, stack, seen, up>>

\* The handler returns, or the user cancels the job before or while it runs.
Finish(j, result) ==
    /\ up /\ \/ local[j] = "running"
             \/ local[j] = "pending" /\ result = "cancelled"
    /\ local' = [local EXCEPT ![j] = result]
    /\ UNCHANGED <<row, loop, reclaimer, stack, seen, up>>

\* The entry is over and the loop is about to store it.
Due(j) == up /\ loop[j] \in {"tick", "retry"} /\ local[j] \in Terminal

\* SyncJobSnapshot accepts the snapshot; without its answer the loop tries again.
StoreTerminal(j) ==
    /\ Due(j) /\ row[j] \notin Terminal
    /\ row' = [row EXCEPT ![j] = local[j]]
    /\ Loop(j, "stored") \/ (Lossy /\ UNCHANGED loop)
    /\ UNCHANGED <<local, reclaimer, stack, seen, up>>

\* Mutant of StoreRefused: a refused snapshot counts as stored.
StoreRefused_CountsAsStored(j) ==
    /\ Due(j) /\ row[j] \in Terminal
    /\ Loop(j, "stored")
    /\ UNCHANGED <<row, local, reclaimer, stack, seen, up>>

\* The row is settled, by the reclaimer or by this loop's own last write: the
\* store answers with a conflict and the loop returns.
StoreRefused(j) ==
    /\ Due(j) /\ row[j] \in Terminal
    /\ Loop(j, "off")
    /\ UNCHANGED <<row, local, reclaimer, stack, seen, up>>

ProjectStatus(j) ==
    /\ up /\ loop[j] = "stored"
    /\ Project(j, local[j])
    /\ Loop(j, "observe")
    /\ UNCHANGED <<row, local, reclaimer, seen, up>>

\* observeTerminalJob, every observer in turn.
Observed(j) ==
    /\ up /\ loop[j] = "observe"
    /\ seen' = seen \cup {j}
    /\ Loop(j, "off")
    /\ UNCHANGED <<row, local, reclaimer, stack, up>>

\* The loop continues: the next heartbeat stores the snapshot again first.
ObserverFails(j) ==
    /\ up /\ loop[j] = "observe"
    /\ Loop(j, "retry")
    /\ UNCHANGED <<row, local, reclaimer, stack, seen, up>>

-----------------------------------------------------------------------------
(* The replica goes away, or is silent for longer than its lease.          *)

\* Orchestrator.Stop: loops that can still store a terminal entry do so once and
\* call the observers; none projects a status.
Flushed(j) == local[j] \in Terminal /\ row[j] \notin Terminal /\ loop[j] # "off"

Stop ==
    /\ Mortal /\ up
    /\ up' = FALSE
    /\ \E F \in SUBSET {j \in Jobs : Flushed(j)} :
         /\ row' = [j \in Jobs |-> IF j \in F THEN local[j] ELSE row[j]]
         /\ \E O \in SUBSET F : seen' = seen \cup O
    /\ loop' = [j \in Jobs |-> "off"]
    /\ UNCHANGED <<local, reclaimer, stack>>

\* Mutant of Reclaim: the reclaimer looks at the rows of live replicas only.
Reclaim_LiveReplicasOnly(j) ==
    /\ Mortal /\ up /\ row[j] = "running"
    /\ row' = [row EXCEPT ![j] = "failed"]
    /\ reclaimer' = [reclaimer EXCEPT ![j] = TRUE]
    /\ UNCHANGED <<local, loop, stack, seen, up>>

\* Another replica's reclaimer fails a silent execution and then projects it.
Reclaim(j) ==
    /\ Mortal /\ row[j] = "running"
    /\ row' = [row EXCEPT ![j] = "failed"]
    /\ reclaimer' = [reclaimer EXCEPT ![j] = TRUE]
    /\ UNCHANGED <<local, loop, stack, seen, up>>

ProjectReclaimed(j) ==
    /\ reclaimer[j]
    /\ reclaimer' = [reclaimer EXCEPT ![j] = FALSE]
    /\ Project(j, "failed")
    /\ UNCHANGED <<row, local, loop, seen, up>>

Next ==
    \/ \E j \in Jobs :
         \/ Start(j) \/ \E result \in Terminal : Finish(j, result)
         \/ StoreTerminal(j) \/ StoreRefused(j) \/ ProjectStatus(j)
         \/ Observed(j) \/ ObserverFails(j)
         \/ Reclaim(j) \/ ProjectReclaimed(j)
    \/ Stop

Spec == Init /\ [][Next]_vars

\* The loops of a live replica keep ticking, a dead replica's executions are
\* reclaimed, and an observer that is called again and again succeeds.
Fairness ==
    \A j \in Jobs :
        /\ WF_vars(StoreTerminal(j)) /\ WF_vars(StoreRefused(j))
        /\ WF_vars(ProjectStatus(j))
        /\ SF_vars(Observed(j)) /\ WF_vars(Observed(j) \/ ObserverFails(j))
        /\ WF_vars(~up /\ Reclaim(j)) /\ WF_vars(ProjectReclaimed(j))

FairSpec == Spec /\ Fairness

-----------------------------------------------------------------------------
(* Properties.                                                             *)

(***************************************************************************)
(* The stack shows what its table says: the status was projected from the  *)
(* state the job's row has, although a silent replica's own result, the    *)
(* reclaimer's verdict and a lost answer may disagree                      *)
(* (updateStackStatusSnapshot).                                            *)
(***************************************************************************)
StatusMatchesRow ==
    stack.by # NoJob => stack.status = stackStatus(stack.by, row[stack.by])

(***************************************************************************)
(* An observer receives a job only after its terminal snapshot was accepted*)
(* by the store: what it saw is what the row says                          *)
(* (terminal_job_observer.go).                                             *)
(***************************************************************************)
ObservedIsDurable == \A j \in seen : row[j] \in Terminal /\ row[j] = local[j]

(***************************************************************************)
(* A finished job does not stay 'running' in the table and keep its stack  *)
(* fenced: the loop stores it, or the replica is gone and the reclaimer    *)
(* fails it (flushTerminalJobStateAfterShutdown, ReclaimOnce).             *)
(***************************************************************************)
FinishedJobSettles ==
    \A j \in Jobs : (local[j] \in Terminal /\ row[j] = "running") ~> row[j] \in Terminal
=============================================================================
