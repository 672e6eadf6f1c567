---------------------------- MODULE JobExecution ----------------------------
(***************************************************************************)
(* Replicas executing durable jobs.  Each boot of a replica is one owner   *)
(* id: it keeps process-local entries for the jobs it was offered, claims  *)
(* rows with StartJob, runs handlers, mirrors each entry to its row from a *)
(* progress loop, persists a waiting entry before resuming it, and scans   *)
(* for executions whose lease lapsed.  Boots stop gracefully, crash, and   *)
(* leave requests behind that may still commit.                            *)
(*                                                                         *)
(* The store's operations are the actions of JobStore: this module decides *)
(* who issues them, when, and with which (possibly stale) arguments, so    *)
(* its behaviours are behaviours of the store.                             *)
(***************************************************************************)
EXTENDS JobStore

CONSTANTS
    Steady,     \* boots that are neither stopped nor crash
    Cancels,    \* jobs a user may cancel
    Abandons,   \* jobs whose owner may abandon their execution
    Commanding, \* jobs whose handler dispatches mutating node commands
    Managed,    \* managed provisions, resumed rather than failed when orphaned
    TargetID    \* TargetID[j]: the stack of j in the queue; of a move, its source

ASSUME ExecConstantsAssumption ==
    /\ Steady \subseteq Owners
    /\ Cancels \subseteq Jobs /\ Abandons \subseteq Jobs
    /\ Commanding \subseteq Jobs /\ Managed \subseteq Jobs
    /\ \A j \in Marked \cup Managed : Type[j] # Relocation \* destroys and provisions
    /\ \A j \in Jobs : \E t \in Targets[j] : t.stack = TargetID[j]

VARIABLES
    proc,       \* proc[p]: the lifecycle of boot p
    loc,        \* loc[p][j]: the process-local entry of j
    orphan,     \* orphan[p]: jobs whose detached handler is still unwinding
    sync,       \* sync[p][j]: the progress loop's request
    wait,       \* wait[p][j]: the resume goroutine's, or a move's checkpoint, request
    scan,       \* scan[p]: the running row p has read and will act on, if any
    rec         \* rec[p]: moves whose recovery p is driving

store == <<row, cmd, maint>>
execVars == <<row, cmd, maint, proc, loc, orphan, sync, wait, scan, rec>>

\* "claiming" is a running entry whose durable claim is in flight.
LocalStates == {"none", "pending", "claiming", "running", "waiting"} \cup Terminal
Active == {"claiming", "running"}

AnyGen == Gens \cup {NoGen}
AnyOutcome == {"none", "held", "settled"}

\* "prev" is the generation to restore when the claim in flight fails.
Locals == [st : LocalStates, gen : AnyGen, prev : AnyGen,
           cancel : {"no", "user", "stop"}, outcome : AnyOutcome]

\* No entry, or one whose persistence is suppressed: it can neither write nor
\* execute, and Enqueue may replace it.
NoEntry == [st |-> "none", gen |-> NoGen, prev |-> NoGen, cancel |-> "no",
            outcome |-> "none"]

\* A snapshot request: held back, idle between ticks, sent, or refused by the
\* store's fence; a wait that was accepted is "acked".
Phases == {"off", "deferred", "idle", "sent", "fenced", "acked"}
Requests == [ph : Phases, obs : Observable, gen : AnyGen, outcome : AnyOutcome]
Quiet(ph) == [ph |-> ph, obs |-> "pending", gen |-> NoGen, outcome |-> "none"]

Scans == [job : Jobs, owner : Owners, gen : AnyGen, slack : Slacks,
          act : {"reclaim", "resume", "offer", "abandon"}]

ExecTypeOK ==
    /\ TypeOK
    /\ proc \in [Owners -> {"off", "up", "stopping", "down"}]
    /\ loc \in [Owners -> [Jobs -> Locals]]
    /\ orphan \in [Owners -> SUBSET Jobs]
    /\ sync \in [Owners -> [Jobs -> Requests]]
    /\ wait \in [Owners -> [Jobs -> Requests]]
    /\ scan \in [Owners -> {{}} \cup {{s} : s \in Scans}]
    /\ rec \in [Owners -> SUBSET Jobs]

ExecInit ==
    /\ Init
    /\ proc = [p \in Owners |-> "off"]
    /\ loc = [p \in Owners |-> [j \in Jobs |-> NoEntry]]
    /\ orphan = [p \in Owners |-> {}]
    /\ sync = [p \in Owners |-> [j \in Jobs |-> Quiet("off")]]
    /\ wait = [p \in Owners |-> [j \in Jobs |-> Quiet("off")]]
    /\ scan = [p \in Owners |-> {}]
    /\ rec = [p \in Owners |-> {}]

Alive(p) == proc[p] \in {"up", "stopping"}

SetLoc(p, j, e) == loc' = [loc EXCEPT ![p][j] = e]
SetSync(p, j, r) == sync' = [sync EXCEPT ![p][j] = r]
SetWait(p, j, r) == wait' = [wait EXCEPT ![p][j] = r]

\* time.Now() as a generation: a value nothing refers to any more.
Fresh(g) ==
    /\ \A j \in Jobs : row[j].gen # g
    /\ \A p \in Owners, j \in Jobs :
           g \notin {loc[p][j].gen, loc[p][j].prev, sync[p][j].gen, wait[p][j].gen}

-----------------------------------------------------------------------------
(* Offering a job to the queue.                                            *)

Unknown(p, j) == loc[p][j] = NoEntry /\ sync[p][j].ph = "off" /\ wait[p][j].ph = "off"

\* Queue.Enqueue: the new entry carries the row's result but no StartedAt,
\* whatever started_at the row has.
Offered(j) == [NoEntry EXCEPT !.st = "pending", !.outcome = row[j].outcome]

\* enqueueWithSync for a new job: the row is ensured, then the entry is queued
\* and mirrored.  When the queue is full, or the process dies in between, the
\* row stays behind.
Admit(p, j) ==
    /\ proc[p] = "up" /\ Unknown(p, j)
    /\ CreateJob(j)
    /\ \/ SetLoc(p, j, Offered(j)) /\ SetSync(p, j, Quiet("idle"))
       \/ UNCHANGED <<loc, sync>>
    /\ UNCHANGED <<proc, orphan, wait, scan, rec>>

-----------------------------------------------------------------------------
(* Boot, graceful stop and crash.                                          *)

\* RequeuePendingJobs runs once at boot; a pending row it skips (no payload,
\* too old, superseded, beyond its page) stays pending.
Boot(p) ==
    /\ proc[p] = "off"
    /\ proc' = [proc EXCEPT ![p] = "up"]
    /\ \E S \in SUBSET {j \in Jobs : row[j].state = "pending"} :
         /\ loc' = [loc EXCEPT ![p] = [j \in Jobs |-> IF j \in S THEN Offered(j) ELSE NoEntry]]
         /\ sync' = [sync EXCEPT ![p] = [j \in Jobs |-> Quiet(IF j \in S THEN "idle" ELSE "off")]]
    /\ UNCHANGED <<store, orphan, wait, scan, rec>>

\* A request that has left the process may commit although its caller is gone.
Ghost(r) == IF r.ph = "sent" THEN r ELSE Quiet("off")

\* Queue.Stop: resume goroutines end, idle entries are detached, active ones
\* asked to unwind.
StoppedEntry(e) ==
    CASE e.st \in {"pending", "waiting"} -> NoEntry
      [] e.st \in Active -> [e EXCEPT !.cancel = "stop"]
      [] OTHER -> e

Stop(p) ==
    /\ proc[p] = "up" /\ p \notin Steady
    /\ proc' = [proc EXCEPT ![p] = "stopping"]
    /\ loc' = [loc EXCEPT ![p] = [j \in Jobs |-> StoppedEntry(loc[p][j])]]
    /\ wait' = [wait EXCEPT ![p] = [j \in Jobs |->
                   IF loc[p][j].st \in Active THEN wait[p][j] ELSE Ghost(wait[p][j])]]
    /\ UNCHANGED <<store, orphan, sync, scan, rec>>

Gone(p) ==
    /\ proc' = [proc EXCEPT ![p] = "down"]
    /\ loc' = [loc EXCEPT ![p] = [j \in Jobs |->
                  IF loc[p][j].st = "claiming" THEN loc[p][j] ELSE NoEntry]]
    /\ orphan' = [orphan EXCEPT ![p] = {}]
    /\ sync' = [sync EXCEPT ![p] = [j \in Jobs |-> Ghost(sync[p][j])]]
    /\ wait' = [wait EXCEPT ![p] = [j \in Jobs |-> Ghost(wait[p][j])]]
    /\ scan' = [scan EXCEPT ![p] = {}]
    /\ rec' = [rec EXCEPT ![p] = {}]
    /\ UNCHANGED store

\* Orchestrator.Stop: every handler has unwound; the progress loops have had
\* their chance, and whatever they did not write is lost with the process.
StopDone(p) ==
    /\ proc[p] = "stopping"
    /\ orphan[p] = {} /\ \A j \in Jobs : loc[p][j].st \notin Active
    /\ Gone(p)

Crash(p) ==
    /\ Alive(p) /\ p \notin Steady
    /\ Gone(p)

\* The requests of a dead process are lost after all.
GhostLost(p, j) ==
    /\ proc[p] = "down" /\ ~Unknown(p, j)
    /\ SetLoc(p, j, NoEntry)
    /\ SetSync(p, j, Quiet("off"))
    /\ SetWait(p, j, Quiet("off"))
    /\ UNCHANGED <<store, proc, orphan, scan, rec>>

-----------------------------------------------------------------------------
(* Claiming and running.                                                   *)

\* The queue's key is the job's one target, and not all it mutates: the destination
\* of a move is fenced by the table alone.
SameStack(j, k) == TargetID[j] = TargetID[k]

\* Mutant of TokenFree: detaching a handler gives its token back at once.
TokenFree_ForgetsDetached(p, j) ==
    \A k \in Jobs : SameStack(j, k) => loc[p][k].st \notin Active

\* acquireTargetExecution: one execution per stack in a process, a detached
\* handler that is still unwinding included.
TokenFree(p, j) ==
    \A k \in Jobs : SameStack(j, k) => loc[p][k].st \notin Active /\ k \notin orphan[p]

\* A worker takes a queued entry: a new one, or a waiting one whose wait is
\* durable.  The entry becomes running locally before the claim is made.
BeginJobExecution(p, j, g) ==
    /\ proc[p] = "up"
    /\ loc[p][j].st = "pending" \/ (loc[p][j].st = "waiting" /\ wait[p][j].ph = "acked")
    /\ TokenFree(p, j)
    /\ Fresh(g)
    /\ SetLoc(p, j, [loc[p][j] EXCEPT !.st = "claiming", !.gen = g, !.prev = loc[p][j].gen,
                                      !.cancel = "no"])
    /\ SetWait(p, j, Quiet("off"))
    /\ UNCHANGED <<store, proc, orphan, sync, scan, rec>>

\* restoreUnclaimedExecutionLocked, then cancelJobInternal; a process that is
\* stopping detaches the entry instead.
Restored(e, st) == [e EXCEPT !.st = st, !.gen = e.prev, !.prev = NoGen]

CancelledEntry(e) == IF e.cancel = "stop" THEN NoEntry ELSE Restored(e, "cancelled")

\* deferExecutionClaim: the claim was busy or its answer never came.  The entry
\* waits with its old generation.
DeferExecutionClaim(p, j) ==
    LET e == loc[p][j] IN
    IF e.cancel = "no"
    THEN SetLoc(p, j, Restored(e, "waiting")) /\ SetWait(p, j, Quiet("idle"))
    ELSE SetLoc(p, j, CancelledEntry(e)) /\ UNCHANGED wait

\* claimDurableJobExecution wins; the answer may be lost, and a dead process
\* hears nothing.
ClaimWon(p, j) ==
    /\ loc[p][j].st = "claiming"
    /\ StartJob(j, p, loc[p][j].gen)
    /\ \/ /\ SetLoc(p, j, IF ~Alive(p) THEN NoEntry
                          ELSE [loc[p][j] EXCEPT !.prev = NoGen,
                                  !.st = IF loc[p][j].cancel = "no" THEN "running" ELSE "cancelled"])
          /\ UNCHANGED wait
       \/ Alive(p) /\ DeferExecutionClaim(p, j)
    /\ UNCHANGED <<proc, orphan, sync, scan, rec>>

\* The row is not pending any more: another executor has it, or it settled.
ClaimFenced(p, j) ==
    /\ Alive(p) /\ loc[p][j].st = "claiming" /\ row[j].state # "pending"
    /\ SetLoc(p, j, IF loc[p][j].cancel = "no" THEN NoEntry ELSE CancelledEntry(loc[p][j]))
    /\ UNCHANGED <<store, proc, orphan, sync, wait, scan, rec>>

\* The target is busy or under maintenance, or the database is unavailable.
ClaimDeferred(p, j) ==
    /\ Alive(p) /\ loc[p][j].st = "claiming"
    /\ DeferExecutionClaim(p, j)
    /\ UNCHANGED <<store, proc, orphan, sync, scan, rec>>

\* Before the first drain the handler writes its own snapshot, beside the
\* progress loop: the row must say "transferring".
CheckpointMove(p, j) ==
    /\ Alive(p) /\ loc[p][j].st = "running" /\ Type[j] = Relocation
    /\ loc[p][j].outcome = "none"
    /\ SetLoc(p, j, [loc[p][j] EXCEPT !.outcome = "held"])
    /\ SetWait(p, j, [ph |-> "sent", obs |-> "running", gen |-> loc[p][j].gen,
                      outcome |-> "held"])
    /\ UNCHANGED <<store, proc, orphan, sync, scan, rec>>

Checkpointing(p, j) == wait[p][j].ph = "sent" /\ wait[p][j].obs = "running"

\* The answer did not come, or was a refusal: the move fails before it drains.
PreflightFailed(p, j) ==
    LET e == loc[p][j] IN
    /\ Alive(p)
    /\ SetWait(p, j, Quiet("off"))
    /\ SetLoc(p, j, IF e.st = "running"
                    THEN [e EXCEPT !.outcome = "none",
                                   !.st = IF e.cancel = "no" THEN "failed" ELSE "cancelled"]
                    ELSE e)

\* The checkpoint is written, and the drain begins if the handler hears of it.
CheckpointWritten(p, j) ==
    LET r == wait[p][j] IN
    /\ Checkpointing(p, j)
    /\ SyncJobSnapshot(j, r.obs, r.gen, r.outcome)
    /\ \/ /\ SetWait(p, j, Quiet(IF Alive(p) /\ loc[p][j].st = "running" THEN "acked" ELSE "off"))
          /\ UNCHANGED loc
       \/ PreflightFailed(p, j)
    /\ UNCHANGED <<proc, orphan, sync, scan, rec>>

CheckpointFailed(p, j) ==
    /\ Checkpointing(p, j) /\ PreflightFailed(p, j)
    /\ UNCHANGED <<store, proc, orphan, sync, scan, rec>>

\* The move drained its source and its end is proved: moved, or aborted.
SettleMove(p, j) ==
    /\ Alive(p) /\ loc[p][j].st = "running" /\ Type[j] = Relocation
    /\ wait[p][j].ph = "acked" /\ loc[p][j].outcome = "held"
    /\ SetLoc(p, j, [loc[p][j] EXCEPT !.outcome = "settled"])
    /\ UNCHANGED <<store, proc, orphan, sync, wait, scan, rec>>

\* finishJobExecution: a requested cancellation wins over the result.
HandlerFinish(p, j, result) ==
    /\ Alive(p) /\ loc[p][j].st = "running"
    /\ IF loc[p][j].cancel = "no" THEN result \in {"completed", "failed"}
                                  ELSE result = "cancelled"
    /\ ~Checkpointing(p, j)
    /\ Type[j] = Relocation /\ result = "completed" => loc[p][j].outcome = "settled"
    /\ SetLoc(p, j, [loc[p][j] EXCEPT !.st = result])
    /\ UNCHANGED <<store, proc, orphan, sync, wait, scan, rec>>

\* Mutant of HandlerWaits: the entry may resume before its row says "pending".
HandlerWaits_ResumesAtOnce(p, j) ==
    /\ Alive(p) /\ loc[p][j].st = "running" /\ loc[p][j].cancel = "no"
    /\ Type[j] # Relocation
    /\ SetLoc(p, j, [loc[p][j] EXCEPT !.st = "waiting"])
    /\ SetWait(p, j, Quiet("acked"))
    /\ UNCHANGED <<store, proc, orphan, sync, scan, rec>>

\* waitJob and deferJobRetry: the entry keeps its generation while it waits.
\* A move has one attempt and never waits.
HandlerWaits(p, j) ==
    /\ Alive(p) /\ loc[p][j].st = "running" /\ loc[p][j].cancel = "no"
    /\ Type[j] # Relocation
    /\ SetLoc(p, j, [loc[p][j] EXCEPT !.st = "waiting"])
    /\ SetWait(p, j, Quiet("idle"))
    /\ UNCHANGED <<store, proc, orphan, sync, scan, rec>>

\* A detached handler notices its cancelled context.
OrphanUnwinds(p, j) ==
    /\ Alive(p) /\ j \in orphan[p]
    /\ orphan' = [orphan EXCEPT ![p] = @ \ {j}]
    /\ UNCHANGED <<store, proc, loc, sync, wait, scan, rec>>

\* Queue.Cancel
Cancel(p, j) ==
    /\ proc[p] = "up" /\ j \in Cancels
    /\ \/ /\ loc[p][j].st \in {"pending", "waiting"}
          /\ SetLoc(p, j, [loc[p][j] EXCEPT !.st = "cancelled"])
          /\ SetWait(p, j, Ghost(wait[p][j]))
       \/ /\ loc[p][j].st \in Active /\ loc[p][j].cancel = "no"
          /\ SetLoc(p, j, [loc[p][j] EXCEPT !.cancel = "user"])
          /\ UNCHANGED wait
    /\ UNCHANGED <<store, proc, orphan, sync, scan, rec>>

-----------------------------------------------------------------------------
(* Mirroring an entry to its row.                                          *)

Snapshot(p, j) == [ph |-> "sent", obs |-> loc[p][j].st, gen |-> loc[p][j].gen,
                   outcome |-> loc[p][j].outcome]

\* jobSnapshotFenceAdvanced, executionSnapshotFenceChanged
FenceAdvanced(p, j, r) == loc[p][j].st # r.obs \/ loc[p][j].gen # r.gen

\* Mutant of SyncTick: an entry whose claim is in flight is mirrored as well.
SyncTick_RacesClaim(p, j) ==
    /\ Alive(p) /\ sync[p][j].ph = "idle"
    /\ SetSync(p, j, IF loc[p][j].st = "none" THEN Quiet("off") ELSE Snapshot(p, j))
    /\ UNCHANGED <<store, proc, loc, orphan, wait, scan, rec>>

\* syncJobProgress, one tick: skip an entry whose claim is in flight.
SyncTick(p, j) ==
    /\ Alive(p) /\ sync[p][j].ph = "idle" /\ loc[p][j].st # "claiming"
    /\ SetSync(p, j, IF loc[p][j].st = "none" THEN Quiet("off") ELSE Snapshot(p, j))
    /\ UNCHANGED <<store, proc, loc, orphan, wait, scan, rec>>

\* startRehydratedJobProgressSync: nothing is written before the first claim.
SyncStarts(p, j) ==
    /\ Alive(p) /\ sync[p][j].ph = "deferred"
    /\ ~(loc[p][j].st = "pending" /\ loc[p][j].gen = NoGen)
    /\ SetSync(p, j, Quiet(IF loc[p][j].st = "none" THEN "off" ELSE "idle"))
    /\ UNCHANGED <<store, proc, loc, orphan, wait, scan, rec>>

\* The snapshot is written.  The loop ends with a terminal one, or goes on as
\* it does when the answer is lost.
SyncCommit(p, j) ==
    LET r == sync[p][j] IN
    /\ r.ph = "sent"
    /\ SyncJobSnapshot(j, r.obs, r.gen, r.outcome)
    /\ SetSync(p, j, Quiet(IF r.obs \in Terminal \/ ~Alive(p) THEN "off" ELSE "idle"))
    /\ UNCHANGED <<proc, loc, orphan, wait, scan, rec>>

SyncRefused(p, j) ==
    LET r == sync[p][j] IN
    /\ Alive(p) /\ r.ph = "sent" /\ ~SnapshotAdmitted(j, r.obs, r.gen)
    /\ SetSync(p, j, [r EXCEPT !.ph = "fenced"])
    /\ UNCHANGED <<store, proc, loc, orphan, wait, scan, rec>>

SyncError(p, j) ==
    /\ Alive(p) /\ sync[p][j].ph = "sent"
    /\ SetSync(p, j, Quiet("idle"))
    /\ UNCHANGED <<store, proc, loc, orphan, wait, scan, rec>>

\* Mutant of SyncFenced: a fence stops the reporting and not the handler.
SyncFenced_StopsReporting(p, j) ==
    /\ Alive(p) /\ sync[p][j].ph = "fenced"
    /\ SetSync(p, j, Quiet(IF FenceAdvanced(p, j, sync[p][j]) THEN "idle" ELSE "off"))
    /\ UNCHANGED <<store, proc, loc, orphan, wait, scan, rec>>

\* DetachFencedExecutionIfUnchanged: a fence that still matches the entry
\* detaches it; a running handler is cancelled and keeps unwinding.
SyncFenced(p, j) ==
    /\ Alive(p) /\ sync[p][j].ph = "fenced"
    /\ IF FenceAdvanced(p, j, sync[p][j])
       THEN SetSync(p, j, Quiet("idle")) /\ UNCHANGED <<loc, orphan>>
       ELSE /\ SetSync(p, j, Quiet("off"))
            /\ SetLoc(p, j, IF loc[p][j].st \in Terminal THEN loc[p][j] ELSE NoEntry)
            /\ orphan' = [orphan EXCEPT ![p] =
                             IF loc[p][j].st = "running" THEN @ \cup {j} ELSE @]
    /\ UNCHANGED <<store, proc, wait, scan, rec>>

\* persistWaitingBeforeResume: a waiting entry resumes only once its row says so.
WaitTick(p, j) ==
    /\ Alive(p) /\ wait[p][j].ph = "idle"
    /\ SetWait(p, j, IF loc[p][j].st = "waiting" THEN Snapshot(p, j) ELSE Quiet("off"))
    /\ UNCHANGED <<store, proc, loc, orphan, sync, scan, rec>>

Parking(p, j) == wait[p][j].ph = "sent" /\ wait[p][j].obs = "waiting"

WaitCommit(p, j) ==
    LET r == wait[p][j] IN
    /\ Parking(p, j)
    /\ SyncJobSnapshot(j, r.obs, r.gen, r.outcome)
    /\ SetWait(p, j, Quiet(IF Alive(p) /\ loc[p][j].st = "waiting" THEN "acked" ELSE "off"))
    /\ UNCHANGED <<proc, loc, orphan, sync, scan, rec>>

WaitRefused(p, j) ==
    LET r == wait[p][j] IN
    /\ Alive(p) /\ Parking(p, j) /\ ~SnapshotAdmitted(j, r.obs, r.gen)
    /\ SetWait(p, j, [r EXCEPT !.ph = "fenced"])
    /\ UNCHANGED <<store, proc, loc, orphan, sync, scan, rec>>

WaitError(p, j) ==
    /\ Alive(p) /\ Parking(p, j)
    /\ SetWait(p, j, Quiet("idle"))
    /\ UNCHANGED <<store, proc, loc, orphan, sync, scan, rec>>

WaitFenced(p, j) ==
    /\ Alive(p) /\ wait[p][j].ph = "fenced"
    /\ IF FenceAdvanced(p, j, wait[p][j])
       THEN SetWait(p, j, Quiet("idle")) /\ UNCHANGED loc
       ELSE SetWait(p, j, Quiet("off")) /\ SetLoc(p, j, NoEntry)
    /\ UNCHANGED <<store, proc, orphan, sync, scan, rec>>

-----------------------------------------------------------------------------
(* Recovery by another replica.                                            *)

Noted(j, slack, act) == {[job |-> j, owner |-> row[j].owner, gen |-> row[j].gen,
                          slack |-> slack, act |-> act]}

\* What reclaimOne does with the expired lease of j: a managed provision that
\* waits is resumed; one that runs is, if its handler left a checkpoint.
Acts(j) == IF j \notin Managed THEN {"reclaim"}
           ELSE IF row[j].wait THEN {"resume"} ELSE {"resume", "reclaim"}

\* Mutant of ScanExpired: a replica looks after its own executions only.
ScanExpired_OwnRowsOnly(p, j, skew) ==
    /\ proc[p] = "up" /\ scan[p] = {}
    /\ Running(j) /\ LeaseLapsed(j, skew) /\ j \notin Marked /\ row[j].owner = p
    /\ \E act \in Acts(j) : scan' = [scan EXCEPT ![p] = Noted(j, skew, act)]
    /\ UNCHANGED <<store, proc, loc, orphan, sync, wait, rec>>

\* ReclaimOnce reads its own clock, "skew" ticks ahead of the database, and
\* lists what has expired by it.  Managed destroys are left to their own path.
ScanExpired(p, j, skew) ==
    /\ proc[p] = "up" /\ scan[p] = {}
    /\ Running(j) /\ LeaseLapsed(j, skew) /\ j \notin Marked
    /\ \E act \in Acts(j) : scan' = [scan EXCEPT ![p] = Noted(j, skew, act)]
    /\ UNCHANGED <<store, proc, loc, orphan, sync, wait, rec>>

\* admitStaleJobAbandon: the owner retires a job that looks dead to them; no
\* silence is required.
AdmitAbandon(p, j) ==
    /\ proc[p] = "up" /\ scan[p] = {}
    /\ j \in Abandons /\ Running(j)
    /\ scan' = [scan EXCEPT ![p] = Noted(j, 0, "abandon")]
    /\ UNCHANGED <<store, proc, loc, orphan, sync, wait, rec>>

\* reclaimOne, or the FailJob of AbandonStaleJob, with the facts of the scan.
ReclaimOne(p) ==
    /\ Alive(p)
    /\ \E s \in scan[p] :
         \/ s.act = "reclaim" /\ ReclaimExpiredJobExecution(s.job, s.owner, s.slack)
         \/ s.act = "abandon" /\ FailJob(s.job)
    /\ scan' = [scan EXCEPT ![p] = {}]
    /\ UNCHANGED <<proc, loc, orphan, sync, wait, rec>>

\* ResumeExpiredJobExecution; the local offer is the next step.
ResumeOne(p) ==
    /\ Alive(p)
    /\ \E s \in scan[p] :
         /\ s.act = "resume" /\ ResumeExpiredJobExecution(s.job, s.owner, s.slack)
         /\ scan' = [scan EXCEPT ![p] = {[s EXCEPT !.act = "offer"]}]
    /\ UNCHANGED <<proc, loc, orphan, sync, wait, rec>>

\* The compare-and-set no longer matches, or the pass is cut short.
ScanDropped(p) ==
    /\ Alive(p) /\ scan[p] # {}
    /\ scan' = [scan EXCEPT ![p] = {}]
    /\ UNCHANGED <<store, proc, loc, orphan, sync, wait, rec>>

\* reclaimStaleManagedDestroyRecoveries: back to pending with no generation.
RecoverDestroy(p, j, skew) ==
    /\ proc[p] = "up"
    /\ ReclaimStaleManagedDestroyRecovery(j, skew)
    /\ UNCHANGED <<proc, loc, orphan, sync, wait, scan, rec>>

\* A pending row that a recovery pass offers to this replica: a marked destroy,
\* a managed provision that waits, or the one this pass has just resumed.
Recoverable(p, j) ==
    \/ j \in Marked
    \/ j \in Managed /\ row[j].wait
    \/ \E s \in scan[p] : s.job = j /\ s.act = "offer"

\* rehydrateDueProviderDecommissionJob, rehydrateHostedProviderProvisionWait:
\* the new entry has no generation and its progress loop is held back.
Rehydrate(p, j) ==
    /\ proc[p] = "up" /\ row[j].state = "pending" /\ Unknown(p, j)
    /\ Recoverable(p, j)
    /\ SetLoc(p, j, Offered(j))
    /\ SetSync(p, j, Quiet("deferred"))
    /\ scan' = [scan EXCEPT ![p] = {s \in @ : s.act # "offer"}]
    /\ UNCHANGED <<store, proc, orphan, wait, rec>>

-----------------------------------------------------------------------------
(* Recovery of an unresolved move (InspectWorkloadRelocation).             *)

RecoveryClaim(p, j) ==
    /\ proc[p] = "up" /\ j \notin rec[p]
    /\ ClaimWorkloadRelocationRecovery(j, p)
    /\ rec' = [rec EXCEPT ![p] = @ \cup {j}]
    /\ UNCHANGED <<proc, loc, orphan, sync, wait, scan>>

RecoveryRenew(p, j) ==
    /\ Alive(p) /\ j \in rec[p]
    /\ RenewWorkloadRelocationRecovery(j, p)
    /\ UNCHANGED <<proc, loc, orphan, sync, wait, scan, rec>>

\* Both nodes proved the outcome; else the deferred failure keeps the fence.
RecoveryEnd(p, j) ==
    /\ Alive(p) /\ j \in rec[p]
    /\ \/ ResolveWorkloadRelocation(j, p)
       \/ FailWorkloadRelocationRecovery(j, p)
       \/ ~RecoveringAs(j, p) /\ UNCHANGED store
    /\ rec' = [rec EXCEPT ![p] = @ \ {j}]
    /\ UNCHANGED <<proc, loc, orphan, sync, wait, scan>>

-----------------------------------------------------------------------------
(* Time passes for every lease and for every cutoff already read.          *)
ExecTick ==
    /\ \E j \in Jobs : Running(j)
    /\ Tick
    /\ scan' = [p \in Owners |->
                  {IF s.slack > 0 - MaxLag THEN [s EXCEPT !.slack = @ - 1] ELSE s : s \in scan[p]}]
    /\ UNCHANGED <<proc, loc, orphan, sync, wait, rec>>

\* The mutating node commands an execution dispatches (external).
NodeCommand(j) ==
    /\ \/ /\ DispatchCommand(j) /\ j \in Commanding
          /\ \E p \in Owners : loc[p][j].st = "running" /\ Alive(p)
       \/ SettleCommand(j)
    /\ UNCHANGED <<proc, loc, orphan, sync, wait, scan, rec>>

-----------------------------------------------------------------------------
EntryNext(p, j) ==
    \/ GhostLost(p, j) \/ Admit(p, j)
    \/ \E g \in Gens : BeginJobExecution(p, j, g)
    \/ ClaimWon(p, j) \/ ClaimFenced(p, j) \/ ClaimDeferred(p, j)
    \/ CheckpointMove(p, j) \/ CheckpointWritten(p, j) \/ CheckpointFailed(p, j)
    \/ SettleMove(p, j)
    \/ \E result \in Terminal : HandlerFinish(p, j, result)
    \/ HandlerWaits(p, j) \/ OrphanUnwinds(p, j) \/ Cancel(p, j)
    \/ SyncTick(p, j) \/ SyncStarts(p, j) \/ SyncCommit(p, j)
    \/ SyncRefused(p, j) \/ SyncError(p, j) \/ SyncFenced(p, j)
    \/ WaitTick(p, j) \/ WaitCommit(p, j) \/ WaitRefused(p, j)
    \/ WaitError(p, j) \/ WaitFenced(p, j)
    \/ \E skew \in 0..MaxSkew : ScanExpired(p, j, skew) \/ RecoverDestroy(p, j, skew)
    \/ AdmitAbandon(p, j) \/ Rehydrate(p, j)
    \/ RecoveryClaim(p, j) \/ RecoveryRenew(p, j) \/ RecoveryEnd(p, j)

ProcNext(p) ==
    \/ Boot(p) \/ Stop(p) \/ StopDone(p) \/ Crash(p)
    \/ ReclaimOne(p) \/ ResumeOne(p) \/ ScanDropped(p)

ExecNext ==
    \/ \E p \in Owners, j \in Jobs : EntryNext(p, j)
    \/ \E p \in Owners : ProcNext(p)
    \/ \E j \in Jobs : NodeCommand(j)
    \/ ExecTick

ExecSpec == ExecInit /\ [][ExecNext]_execVars

-----------------------------------------------------------------------------
(* Properties.                                                             *)

\* p's handler runs the execution the row records.
OwnsRow(p, j) == /\ Running(j) /\ row[j].owner = p
                 /\ row[j].gen = loc[p][j].gen /\ row[j].step = "handler"

\* The execution of j has reported within the silence its recovery path allows.
Heard(j) == row[j].lease > (IF j \in Marked THEN TTL - Grace ELSE 0)

\* The owner of the stack has asked for the execution of j to be abandoned.
Abandoned(j) == \E q \in Owners : \E s \in scan[q] : s.job = j /\ s.act = "abandon"

(***************************************************************************)
(* A live execution keeps its row: while a handler runs and was heard from *)
(* in time, nothing but its owner's explicit abandon - no reclaim decided  *)
(* on an older reading, no request of an earlier attempt or of a dead boot,*)
(* no claim of another replica - takes the row away from it (a reclaim     *)
(* "can never touch a live execution", job_execution_lease.go).            *)
(***************************************************************************)
LiveExecutionKeepsRow ==
    [][\A p \in Owners, j \in Jobs :
          /\ loc[p][j].st = "running" /\ loc'[p][j].st = "running"
          /\ OwnsRow(p, j) /\ Heard(j)
          => OwnsRow(p, j)' \/ (row'[j].state = "failed" /\ Abandoned(j))]_execVars

\* A request of p on row j that the database would accept now.
Admissible(p, j) ==
    {r \in {sync[p][j], wait[p][j]} : r.ph = "sent" /\ SnapshotAdmitted(j, r.obs, r.gen)}

(***************************************************************************)
(* Only the owner writes a running row: every snapshot in flight - from a  *)
(* stalled zombie, a dead boot, an earlier attempt - that the store would  *)
(* still accept on a running row comes from the boot that owns it, although*)
(* SyncJobSnapshot compares generations and never the owner ("a fenced     *)
(* projection must never write over the executor that now owns the row",   *)
(* queue.go).  The recovery of a move keeps started_at and is not covered. *)
(***************************************************************************)
OnlyOwnerWritesRunningRow ==
    \A p \in Owners, j \in Jobs :
        Type[j] # Relocation /\ Running(j) /\ Admissible(p, j) # {} => row[j].owner = p

(***************************************************************************)
(* A settled row stays settled: no snapshot of a stalled handler, of a     *)
(* waiting entry or of a dead boot reopens a row that was reclaimed,       *)
(* abandoned, cancelled or finished under the same generation.  Only a move*)
(* whose end was recorded as unknown or proved leaves such a state: to be  *)
(* recovered while it holds the fence, or to be completed as resolved.     *)
(***************************************************************************)
SettledStaysSettled ==
    [][\A j \in Jobs :
          row[j].state \in Terminal /\ row'[j].state # row[j].state
          => \/ /\ relocationHoldsExecution(j)
                /\ row'[j].state = "running" /\ row'[j].step = "recovery"
             \/ /\ Type[j] = Relocation /\ row[j].outcome # "none"
                /\ row'[j].state = "completed" /\ row'[j].outcome = "settled"]_execVars

(***************************************************************************)
(* One process never runs two handlers queued for one stack, a handler that*)
(* was detached and is still unwinding included (acquireTargetExecution).  *)
(* A move is queued for its source.                                        *)
(***************************************************************************)
OneHandlerPerStack ==
    \A p \in Owners, j, k \in Jobs :
        /\ Alive(p) /\ SameStack(j, k)
        /\ loc[p][j].st = "running"
        => k \notin orphan[p] /\ (j # k => loc[p][k].st # "running")

(***************************************************************************)
(* An entry resumes only from a row that says it may: a waiting entry whose*)
(* wait was acknowledged is backed by its own pending row, or by a row some*)
(* other execution has taken over or settled meanwhile.                    *)
(***************************************************************************)
AckedWaitIsDurable ==
    \A p \in Owners, j \in Jobs :
        Alive(p) /\ loc[p][j].st = "waiting" /\ wait[p][j].ph = "acked"
        => \/ row[j].state = "pending" /\ row[j].gen = loc[p][j].gen
           \/ row[j].gen # loc[p][j].gen
           \/ row[j].state \in Terminal

-----------------------------------------------------------------------------
(* Liveness.  A steady boot's loops keep running, its database calls       *)
(* succeed again and again, node commands end within their budget, and     *)
(* time passes.  Nothing is assumed of the other boots.                    *)

Fairness ==
    /\ WF_execVars(ExecTick)
    /\ \A j \in Jobs : WF_execVars(SettleCommand(j) /\ NodeCommand(j))
    /\ \A p \in Steady :
          /\ WF_execVars(Boot(p))
          /\ SF_execVars(ReclaimOne(p)) /\ WF_execVars(ScanDropped(p))
          /\ \A j \in Jobs :
                /\ SF_execVars(ScanExpired(p, j, 0))
                /\ WF_execVars(SyncTick(p, j)) /\ WF_execVars(SyncStarts(p, j))
                /\ SF_execVars(SyncCommit(p, j))
                /\ SF_execVars(SyncRefused(p, j)) /\ WF_execVars(SyncFenced(p, j))

FairSpec == ExecSpec /\ Fairness

(***************************************************************************)
(* The execution of a process that is gone never holds its stack for ever: *)
(* its row leaves 'running' although the process died at any point, with   *)
(* requests in flight that may still renew the lease (ReclaimOnce).        *)
(***************************************************************************)
OrphansReleased ==
    \A p \in Owners, j \in Jobs :
        (proc[p] = "down" /\ Running(j) /\ row[j].owner = p)
            ~> ~(Running(j) /\ row[j].owner = p)

(***************************************************************************)
(* A process whose execution was taken over notices: its handler does not  *)
(* run on for ever beside a row it no longer owns                          *)
(* (DetachFencedExecutionIfUnchanged).                                     *)
(***************************************************************************)
ZombieDetached ==
    \A p \in Steady, j \in Jobs :
        (loc[p][j].st = "running" /\ ~OwnsRow(p, j))
            ~> (loc[p][j].st # "running" \/ OwnsRow(p, j))
=============================================================================
