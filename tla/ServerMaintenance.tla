-------------------------- MODULE ServerMaintenance --------------------------
(***************************************************************************)
(* One server maintenance job (a reboot or an OS update) and the replicas  *)
(* whose loops advance it (pkg/servermaintenance), down to the durable     *)
(* command it sends to the node's agent (pkg/agentcontrol).                *)
(*                                                                         *)
(* A sweep hands a COPY of the row to a step; the step talks to the hub or *)
(* the node and ends in one compare-and-set on the row's state.  Steps of  *)
(* two replicas interleave freely and every step may be cut short.         *)
(***************************************************************************)
EXTENDS Naturals

CONSTANTS
    Runners,    \* replicas running the maintenance loop
    Steady,     \* replicas that are never stopped and whose writes succeed
    Actions,    \* the mutating actions a job may have been admitted for
    Flaky,      \* whether reading a command's outcome may fail
    Execution, Horizon, Extension, Grace, \* ExecutionTimeout, GuardHorizon +
                \* ReturnWindow, ApplyStillRunningExtension, InFlightExpiryGrace
    Queueing,   \* QueueTimeout
    Return,     \* ReturnWindow
    MaxApply    \* MaxApplyDuration

ASSUME MaintenanceAssumption ==
    /\ Steady \subseteq Runners /\ Actions \subseteq {"reboot", "os_update"}
    /\ Flaky \in BOOLEAN
    /\ {Execution, Horizon, Extension, Grace, Queueing, Return, MaxApply} \subseteq Nat \ {0}

VARIABLES
    job,    \* the server_maintenance_jobs row
    cmd,    \* the typed_agent_commands row of its command
    host,   \* the node: its boot, its connection, a running install unit
    step    \* step[r]: the step of replica r

vars == <<job, cmd, host, step>>

Done == {"completed", "failed", "cancelled"}
JobStates == {"queued", "running", "waiting", "awaiting_node_return"} \cup Done

Longest == CHOOSE n \in {Execution, Horizon, Extension, Grace, Queueing} :
              \A m \in {Execution, Horizon, Extension, Grace, Queueing} : m <= n

\* "left" counts down to deadline_at; "grace" is result.in_flight_expiry_grace;
\* "budget" counts down to created_at + MaxApplyDuration.
Jobs == [action : Actions, state : JobStates, left : 0..Longest, grace : BOOLEAN, budget : 0..MaxApply]

\* "dispatched" until a report is stored; "ok", "running" (exit 4) and "bad" are
\* reported outcomes, "unknown" is one that a later revision ends.
Commands == {"none", "queued", "dispatched", "unknown", "ok", "running", "bad", "withdrawn"}

Hosts == [boot : {"old", "new"}, connected : BOOLEAN, away : 0..Return, unit : BOOLEAN]

\* The row as the sweep read it, and for "write" the update to store.
Steps == [pc : {"idle", "claim", "send", "await", "reattach", "withdraw", "poll",
                "watch", "write"},
          state : JobStates, left : 0..Longest, grace : BOOLEAN, to : JobStates]

Idle == [pc |-> "idle", state |-> "queued", left |-> 0, grace |-> FALSE, to |-> "queued"]

TypeOK ==
    /\ job \in Jobs /\ cmd \in Commands /\ host \in Hosts
    /\ step \in [Runners -> Steps]

Init ==
    /\ \E action \in Actions :
          job = [action |-> action, state |-> "queued", left |-> Queueing, grace |-> FALSE,
                 budget |-> MaxApply]
    /\ cmd = "none"
    /\ host = [boot |-> "old", connected |-> TRUE, away |-> Return, unit |-> FALSE]
    /\ step = [r \in Runners |-> Idle]

Goto(r, s) == step' = [step EXCEPT ![r] = s]
At(r, pc) == step[r].pc = pc
Saw(pc) == [pc |-> pc, state |-> job.state, left |-> job.left, grace |-> job.grace,
            to |-> job.state]

\* r.write: the update the step will store if the row still has its state.
Store(r, to, left, grace) ==
    Goto(r, [step[r] EXCEPT !.pc = "write", !.to = to, !.left = left, !.grace = grace])
Fail(r) == Store(r, "failed", step[r].left, step[r].grace)

extendedApplyDeadline == IF Extension < job.budget THEN Extension ELSE job.budget

-----------------------------------------------------------------------------
(* The loop reads the row and starts a step for it.                        *)

Sweep(r) ==
    /\ At(r, "idle") /\ job.state \notin Done
    /\ Goto(r, CASE job.state = "queued" /\ job.left > 0 -> Saw("claim")
                 [] job.state = "queued" /\ job.left = 0 -> [Saw("write") EXCEPT !.to = "failed"]
                 [] job.state = "running" -> Saw("reattach")
                 [] job.state = "waiting" /\ job.left > 0 -> Saw("poll")
                 [] job.state = "waiting" /\ job.left = 0 -> Saw("withdraw")
                 [] OTHER -> Saw("watch"))
    /\ UNCHANGED <<job, cmd, host>>

\* Mutant of Claim: the claim does not compare the state.
Claim_AnyState(r) ==
    /\ At(r, "claim") /\ job.state \notin Done
    /\ job' = [job EXCEPT !.state = "running", !.left = Execution]
    /\ Goto(r, [Saw("send") EXCEPT !.state = "running", !.left = Execution])
    /\ UNCHANGED <<cmd, host>>

\* ClaimServerMaintenanceJob records the command id; the answer may be lost.
Claim(r) ==
    /\ At(r, "claim") /\ job.state = "queued"
    /\ job' = [job EXCEPT !.state = "running", !.left = Execution]
    /\ \/ Goto(r, [Saw("send") EXCEPT !.state = "running", !.left = Execution])
       \/ Goto(r, Idle)
    /\ UNCHANGED <<cmd, host>>

\* The node is busy, the row moved on, or the reviewed impact changed.
ClaimRefused(r) ==
    /\ At(r, "claim")
    /\ Goto(r, Idle) \/ Fail(r)
    /\ UNCHANGED <<job, cmd, host>>

\* sendDurable inserts the command; a refusal before that fails the job.
Send(r) ==
    /\ At(r, "send")
    /\ \/ cmd' = "queued" /\ Goto(r, [step[r] EXCEPT !.pc = "await"])
       \/ UNCHANGED cmd /\ Fail(r)
    /\ UNCHANGED <<job, host>>

\* The owner cancels a job that was not claimed yet.
CancelQueued ==
    /\ job.state = "queued"
    /\ job' = [job EXCEPT !.state = "cancelled"]
    /\ UNCHANGED <<cmd, host, step>>

-----------------------------------------------------------------------------
(* The outcome of the command, for its sender or for a re-attached step.   *)

\* awaitDurable: the step polls the command's row.
Awaiting(r) == At(r, "await") \/ At(r, "reattach")

\* A command no agent has received will never reach one; a command in flight is
\* reported, never altered.
Withdrawn == IF cmd = "queued" THEN "withdrawn" ELSE cmd
InFlight == cmd \in {"dispatched", "unknown"}

\* Mutant of Outcome: an install that outlived the wait counts as applied.
Outcome_RunningIsApplied(r) ==
    /\ Awaiting(r)
    /\ \/ /\ cmd \in {"ok", "running"} /\ job.action = "os_update"
          /\ Store(r, "completed", step[r].left, step[r].grace)
       \/ /\ cmd = "ok" /\ job.action = "reboot"
          /\ Store(r, "awaiting_node_return", Horizon, step[r].grace)
       \/ cmd \in {"bad", "withdrawn", "none"} /\ Fail(r)
    /\ UNCHANGED <<job, cmd, host>>

\* execute: a command the hub has no row of is a failed dispatch.
Outcome(r) ==
    /\ Awaiting(r)
    /\ \/ /\ cmd = "ok" /\ job.action = "os_update"
          /\ Store(r, "completed", step[r].left, step[r].grace)
       \/ /\ cmd = "running" /\ job.action = "os_update"
          /\ Store(r, "waiting", extendedApplyDeadline, step[r].grace)
       \/ /\ cmd = "ok" /\ job.action = "reboot"
          /\ Store(r, "awaiting_node_return", Horizon, step[r].grace)
       \/ cmd \in {"bad", "withdrawn", "none"} /\ Fail(r)
    /\ UNCHANGED <<job, cmd, host>>

\* Reading the outcome fails: an error that is no timeout fails the job.
ReadError(r) ==
    /\ Flaky
    /\ Awaiting(r)
    /\ Fail(r)
    /\ UNCHANGED <<job, cmd, host>>

\* The sender's budget ends: a command no agent received is withdrawn, best
\* effort, and the job keeps running.
SenderGivesUp(r) ==
    /\ At(r, "await") /\ (cmd = "queued" \/ InFlight)
    /\ cmd' = Withdrawn \/ (Flaky /\ UNCHANGED cmd)
    /\ Goto(r, Idle)
    /\ UNCHANGED <<job, host>>

\* A re-attached step waits no longer than the deadline it read, and then
\* expires the job.
ReattachLapses(r) ==
    /\ At(r, "reattach") /\ (cmd = "queued" \/ InFlight) /\ step[r].left = 0
    /\ Goto(r, [step[r] EXCEPT !.pc = "withdraw"])
    /\ UNCHANGED <<job, cmd, host>>

-----------------------------------------------------------------------------
(* Expiry.                                                                 *)

\* Mutant of Withdraw: the grace is granted again at every expiry.
Withdraw_GraceEveryTime(r) ==
    /\ At(r, "withdraw")
    /\ cmd' = Withdrawn
    /\ IF InFlight THEN Store(r, step[r].state, Grace, TRUE) ELSE Fail(r)
    /\ UNCHANGED <<job, host>>

\* expire: a queued command is withdrawn, one in flight moves the deadline once.
Withdraw(r) ==
    /\ At(r, "withdraw")
    /\ cmd' = Withdrawn
    /\ IF InFlight /\ ~step[r].grace
       THEN Store(r, step[r].state, Grace, TRUE) ELSE Fail(r)
    /\ UNCHANGED <<job, host>>

\* Mutant of Write: the update is not conditional on the state.
Write_Unconditional(r) ==
    /\ At(r, "write")
    /\ job' = [job EXCEPT !.state = step[r].to, !.left = step[r].left, !.grace = step[r].grace]
    /\ Goto(r, Idle)
    /\ UNCHANGED <<cmd, host>>

\* UpdateServerMaintenanceJob compares the state, not the deadline.
Write(r) ==
    /\ At(r, "write")
    /\ job' = IF job.state = step[r].state
              THEN [job EXCEPT !.state = step[r].to, !.left = step[r].left, !.grace = step[r].grace]
              ELSE job
    /\ Goto(r, Idle)
    /\ UNCHANGED <<cmd, host>>

-----------------------------------------------------------------------------
(* An install that outlived the CLI, and a reboot.                         *)

\* pollApply asks the node for a plan, once per interval: the package manager
\* is busy or unsettled, the plan cannot be had, it was refused or shows packages
\* left out, or it is settled and no install unit is active.
Poll(r) ==
    /\ At(r, "poll")
    /\ \/ Goto(r, Idle)
       \/ Store(r, "waiting", extendedApplyDeadline, step[r].grace)
       \/ Store(r, "waiting", step[r].left, step[r].grace)
       \/ Fail(r)
       \/ ~host.unit /\ Store(r, "completed", step[r].left, step[r].grace)
    /\ UNCHANGED <<job, cmd, host>>

\* DecideReboot: connected again, under another boot id.
Rebooted == host.connected /\ host.boot = "new"

\* Stayed up past the guard's horizon, or stayed away past the return window.
RebootLost(r) == IF host.connected THEN step[r].left = 0 ELSE host.away = 0

\* Mutant of Watch: the reason of a lost reboot is stored as its state.
Watch_StoresReason(r) ==
    /\ At(r, "watch")
    /\ \/ Rebooted /\ Store(r, "completed", step[r].left, step[r].grace)
       \/ ~Rebooted /\ RebootLost(r) /\ Store(r, "reboot_abandoned", step[r].left, step[r].grace)
       \/ ~Rebooted /\ ~RebootLost(r) /\ Goto(r, Idle)
    /\ UNCHANGED <<job, cmd, host>>

\* watchReboot; a job that is not decided stays as it is.
Watch(r) ==
    /\ At(r, "watch")
    /\ \/ Rebooted /\ Store(r, "completed", step[r].left, step[r].grace)
       \/ ~Rebooted /\ RebootLost(r) /\ Fail(r)
       \/ ~Rebooted /\ ~RebootLost(r) /\ Goto(r, Idle)
    /\ UNCHANGED <<job, cmd, host>>

\* The server was removed.
ServerRemoved(r) ==
    /\ At(r, "watch")
    /\ Fail(r)
    /\ UNCHANGED <<job, cmd, host>>

\* The process stops, or a call fails, in the middle of a step.
CutShort(r) ==
    /\ r \notin Steady /\ ~At(r, "idle")
    /\ Goto(r, Idle)
    /\ UNCHANGED <<job, cmd, host>>

-----------------------------------------------------------------------------
(* The agent and the node.                                                 *)

\* pollBoundOnce hands a queued command to the agent.
Deliver ==
    /\ cmd = "queued" /\ host.connected
    /\ cmd' = "dispatched"
    /\ UNCHANGED <<job, host, step>>

\* submitReportDurable, first revision; exit 4 leaves the install unit running, and
\* an install whose outcome is unknown may.
Report(outcome) ==
    /\ cmd = "dispatched" /\ host.connected
    /\ outcome = "running" => job.action = "os_update"
    /\ cmd' = outcome
    /\ \E unit \in BOOLEAN :
          /\ outcome = "running" => unit
          /\ unit => job.action = "os_update" /\ outcome \in {"running", "unknown"}
          /\ host' = [host EXCEPT !.unit = unit, !.away = Return]
    /\ UNCHANGED <<job, step>>

\* A later revision settles an unknown outcome as failed, whether the Guard observed
\* the effect or not, or the operator disposed of it; an escalation leaves it open.
ResolveUnknown ==
    /\ cmd = "unknown" /\ cmd' = "bad"
    /\ UNCHANGED <<job, host, step>>

UnitEnds ==
    /\ host.unit
    /\ host' = [host EXCEPT !.unit = FALSE]
    /\ UNCHANGED <<job, cmd, step>>

\* The node goes offline, and comes back under another boot id than the one that was
\* reported with the schedule.
NodeMoves ==
    /\ \/ host.connected /\ host' = [host EXCEPT !.connected = FALSE, !.away = Return]
       \/ ~host.connected /\ host' = [host EXCEPT !.connected = TRUE]
       \/ /\ ~host.connected /\ job.action = "reboot" /\ cmd = "ok"
          /\ host' = [host EXCEPT !.connected = TRUE, !.boot = "new"]
    /\ UNCHANGED <<job, cmd, step>>

Less(n) == IF n = 0 THEN 0 ELSE n - 1

Tick ==
    /\ job.state \notin Done
    /\ job' = [job EXCEPT !.left = Less(@), !.budget = Less(@)]
    /\ host' = [host EXCEPT !.away = IF host.connected THEN @ ELSE Less(@)]
    /\ step' = [r \in Runners |-> [step[r] EXCEPT !.left = Less(@)]]
    /\ UNCHANGED cmd

RunnerNext(r) ==
    \/ Sweep(r) \/ Claim(r) \/ ClaimRefused(r) \/ Send(r) \/ Outcome(r) \/ ReadError(r)
    \/ SenderGivesUp(r) \/ ReattachLapses(r) \/ Withdraw(r) \/ Write(r)
    \/ Poll(r) \/ Watch(r) \/ ServerRemoved(r) \/ CutShort(r)

Next ==
    \/ \E r \in Runners : RunnerNext(r)
    \/ CancelQueued
    \/ Deliver
    \/ \E outcome \in {"ok", "running", "bad", "unknown"} : Report(outcome)
    \/ ResolveUnknown
    \/ UnitEnds \/ NodeMoves \/ Tick

\* A steady replica keeps sweeping and its calls return; time passes.  Nothing
\* is assumed of the node, the agent or the other replicas.
Fairness ==
    /\ WF_vars(Tick)
    /\ \A r \in Steady :
          /\ WF_vars(Sweep(r)) /\ WF_vars(Claim(r) \/ ClaimRefused(r)) /\ WF_vars(Send(r))
          /\ WF_vars(Outcome(r) \/ SenderGivesUp(r) \/ ReattachLapses(r))
          /\ WF_vars(Withdraw(r)) /\ WF_vars(Write(r))
          /\ WF_vars(Poll(r)) /\ WF_vars(Watch(r))

Spec == Init /\ [][Next]_vars

FairSpec == Spec /\ Fairness

-----------------------------------------------------------------------------
(* Properties.                                                             *)

(***************************************************************************)
(* One command per job: whatever replicas sweep, crash and re-attach, a    *)
(* replica that is about to send is the only one that ever sends, and      *)
(* nothing was sent before ("two runners never both dispatch").            *)
(***************************************************************************)
OneSender ==
    \A r \in Runners : At(r, "send") =>
        cmd = "none" /\ \A q \in Runners \ {r} : ~At(q, "send") /\ ~At(q, "await")

(***************************************************************************)
(* A job is completed only by what it asked for: a reboot by a node that   *)
(* came back under another boot id, an update by an install that ended.    *)
(***************************************************************************)
CompletedMeansDone ==
    job.state = "completed" =>
        IF job.action = "reboot" THEN host.boot = "new"
                             ELSE cmd \in {"ok", "running"} /\ ~host.unit

(***************************************************************************)
(* A released node stays released: no write of a stale step - an outcome   *)
(* read before the expiry, an extension, a poll - reopens a settled job.   *)
(***************************************************************************)
SettledForGood == [][job.state \in Done => job'.state = job.state]_vars

(***************************************************************************)
(* A maintenance job holds its node for a bounded time although the agent  *)
(* never answers, the node never returns and replicas die: with one steady *)
(* replica every job is settled, unless the node flaps for ever (expire,   *)
(* extendedApplyDeadline, DecideReboot).                                   *)
(***************************************************************************)
NodeReleased ==
    (<>[]host.connected \/ <>[]~host.connected) => <>(job.state \in Done)
=============================================================================
