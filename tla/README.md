# TechStack: a TLA+ model of durable execution

TechStack is a self-hosted control plane: replicas of one Go program share a
PostgreSQL database, execute jobs against stacks and servers (provision, deploy,
destroy, move a workload, reboot or update a host), buy servers from cloud
providers, and send the commands that change a node through an agent on it, the
Guard. Its hardest code keeps two executions off one stack or server, pays for a
server once, and runs a command once, although replicas and Guards crash, stall,
lose answers and disagree about time. This project models that code, checks it
with TLC, and proves its safety properties and refinements with TLAPS.

## Inventory

| Component | State | Operations | Interacts with |
|---|---|---|---|
| Job store (`pkg/controlplane/job_*.go`, `store.go`) | `jobs` rows: state, generation (`started_at`), owner, lease, result | create, upsert, start, snapshot, complete, fail, cancel, reclaim, resume, recover, resolve | called by every replica; shares node locks with maintenance |
| Maintenance rows (`pkg/controlplane/server_maintenance*.go`) | `server_maintenance_jobs` rows with a deadline | admit, claim, update | refused by, and refuses, job rows on its node |
| Queue (`pkg/jobs/queue.go`) | process-local entries, tokens per stack, resume schedules | enqueue, begin, wait, resume, cancel, detach, stop | claims rows through the orchestrator |
| Progress loops (`pkg/orchestrator/orchestrator_sync.go`) | last snapshot written | store snapshot, detach a fenced entry, project the stack status, observe, flush | queue, job store, stack store, observers |
| Recovery (`job_execution_reclaim.go`, `abandon_stale_job.go`, `pending_requeue.go`, `durable_*_resume.go`, `orchestrator_relocation.go`) | none of its own; a reading of a row it will act on | reclaim, resume, requeue at boot, rehydrate, abandon, recover a move | job store, queue |
| Relocation handler (`pkg/jobs/stackkit_relocation.go`) | outcome of the move | checkpoint, drain, settle | writes its row beside the progress loop |
| Maintenance runner (`pkg/servermaintenance`) | a copy of the row per step | claim, send, re-attach, expire, poll, watch | maintenance rows, command hub |
| Command hub (`pkg/agentcontrol`, `pkg/guardbinding`) | `typed_agent_commands` rows and their outcome revisions | send, poll, re-offer, report, await, withdraw, resolve by an operator | Guards on the nodes, through `internal/routes/workers_control.go` |
| Guard journal (`pkg/agent/journal`) | append-only log: intent, dispatched marker, result revisions, acknowledgements, tombstones | admit, mark, record, acknowledge, compact, reopen | the Guard's two loops |
| Guard control (`pkg/agent/httpguard/durable.go`) | recovery state, the command in hand | recover, reconcile, poll, admit, execute, report, redeliver | journal, hub, executors on the host |
| Provider control (`internal/providercontrol`, `internal/providercontroljobs`) | operation ledger with receipts, execution claims, the dispatch guard, observations and decisions; server row; capacity slot | start, advance, dispatch, append a receipt, discover, decide, decommission, finalize | provider adapters; destroy jobs; recovery loops |

Other parts (the workflow engine in `pkg/ril`, the Guard's self-update, leases,
pairing, backups, documents, HTTP, user interfaces) are listed in `PROJECT.json`
with the reason they are not modelled.

What is hard here: claims whose answers are lost; writes of a dead process that
still commit; handlers that outlive their row; recoveries decided on an old
reading; two writers of one row without an order between them; replicas that
sweep one job side by side; deadlines that are moved after they passed;
crashes between the commit of a result and what follows from it; an effect on a
host or a bill at a provider whose answer never arrived; two stores, the hub's
and the Guard's, that must agree on what happened. Each is listed under `hazards`
at the line where it bites.

What makes each component correct: the store never lets two executions share a
target, and no writer leaves a lease behind; only the owner of a running row
writes it, and a live execution keeps it; a settled row stays settled; rows of
dead processes are released, and superseded handlers told; a maintenance job
sends one command, releases its node in bounded time and only claims what
happened; what the rest of the system sees of a finished job is what the table
says; the provider is asked once to create a generation, and a capacity slot is
released only when what was recorded is gone; a mutation runs at most once and
alone on its server, a command reported as not run did not run, and every
dispatched command gets an answer.

## Modules

| Module | Models |
|---|---|
| `ExecutionFence` | the promise: a lock on stacks and servers, taken against no conflicting holder |
| `JobStore` | the job table, one action per SQL transaction, and the maintenance windows that share its node fence |
| `JobStore_proofs` | theorems about `JobStore` |
| `JobExecution` | replicas: who calls the store, when, and with which stale arguments; EXTENDS `JobStore`, so its steps take the store's own actions |
| `JobExecution_proofs` | theorems about `JobExecution`, from those of `JobStore_proofs` |
| `ServerMaintenance` | one maintenance job, its runners, its command, its node |
| `ServerMaintenance_proofs` | theorems about `ServerMaintenance` |
| `JobSettlement` | how the end of a job reaches the stack's status and the observers |
| `JobSettlement_proofs` | theorems about `JobSettlement` |
| `RuntimeCustody` | the promise of provider control: one create, handles recorded under a reserved slot, a release when they are gone |
| `ProviderControl` | the ledger, its reconcilers, resolution and the decommissioner, for one generation of one lease |
| `ProviderControl_proofs` | theorems about `ProviderControl` |
| `CommandOutcome` | the promise of hub and Guard: a mutation is refused without effect, or begins alone, takes effect once and is settled afterwards, until its record is lost with an unlinked log |
| `CommandHub` | the hub's rows of one worker, one operator per transaction |
| `GuardJournal` | the Guard's journal; EXTENDS `CommandHub` for the kinds of reports |
| `GuardControl` | the Guard's control and redelivery loops over journal and hub, with crashes, failing writes and compactions, a full journal and lost messages |
| `GuardControl_proofs` | theorems about `GuardControl`, the hub and the journal |
| `MC*` | instances for TLC |

### How state and actions correspond to the code

**JobStore.** A row is `[state, gen, owner, lease, outcome, step, wait]`.
`gen` is `started_at`, `NoGen` and its kin are SQL NULL, `outcome` is
`result_json.workload_relocation.state` reduced to "no fence / fence / resolved",
`wait` is the presence of `result_json.job_wait`. Transactions that check and
write take the sorted advisory locks of all their targets first, so one action is
one transaction. Time is a countdown: `lease` is the number of ticks to the
deadline on the database clock; a caller's cutoff is `slack`, its skew less the
time since it read its clock. A maintenance window is "held", "lapsed" or
"reheld"; the last stands for a deadline that was moved after it had passed.
Snapshots carry arbitrary arguments here; `JobExecution` supplies the ones the
program sends.

**JobExecution.** One owner id is one boot of a replica. `loc[p][j]` is the
queue's entry, `sync` and `wait` the request in flight of the progress loop and
of the resume goroutine (the second slot also holds the checkpoint of a move,
which never waits), `scan` a reading the recovery pass will act on, `orphan` the
handlers that were detached and are still unwinding, `rec` the moves this boot
recovers. `TargetID` is the queue's key: one stack per job, which of a move is its
source, while `Targets` is all a job mutates and what the table fences. A step of
the code between two awaits is one action; a request and its
commit are two, so anything may happen between them. A dead process's request may
still commit (`Ghost`), or be lost (`GhostLost`).

**ServerMaintenance.** `step[r]` is the copy of the row a sweep handed to replica
`r`, and for "write" the update it will store under a compare-and-set on the
state. `cmd` is the command's row, which an unknown outcome leaves in flight until
a later revision fails it, and `host` the node's connection, boot id and install
unit.

**JobSettlement.** `loop[j]` is where the progress loop of a job stands after its
handler returned; `stack` the projected status and the job it came from; `seen`
the jobs the observers accepted.

**ProviderControl.** `head[o]` is the phase of an operation's last receipt,
`claim[o]` its execution claim, `guard` the generation's row in the dispatch
guard table, `obs` the undecided discovery observation, `decisions` the
resolution revisions. A worker's `call` is one `Advance` between its claim and
its receipt, so a stalled worker acts on a claim that has expired; `todo` is the
listing it works from. `calls`, `created`, `live` and `doomed` are the provider's
side: a create lands late, twice or never, and a deletion takes effect later.
`decom[k]` is a decommissioner's snapshot of the candidate.

**CommandHub, GuardJournal, GuardControl.** `row[c]` is the command's row;
`revs` is the chain of its revisions, each reduced to its kind. A digest covers
the content of a revision and the digest it supersedes, so equal chains stand for
equal digests, and "the repeat of a committed revision" and "supersedes exactly
this evidence" are comparisons of chains. `live[c]` is the command's authority.
`entry[c]` is the journal's entry, its marker, results and acknowledged revision,
or the tombstone; a record is applied to memory after it is written and synced, so
`entry` is memory and the open file at once, and a failed write leaves the store
`denied` until it is opened again. A compaction that fails after its rename leaves
the store on the replaced file: `disk` is then the compacted log in its place, which
is what the next open finds (after a crash of the host it may also be the old one).
`older` is the order of the intents, from which a poll lists the newest `MaxKnown`.
Two variables record what the Guard can no longer speak for: `lost` are the begun
commands the hub waited for when an open did not find their records, `unlisted` the
dispatched commands that a poll had no room for. A command stays in them: nothing
is claimed of it any more. `guard` is the control loop's position with its command, the list
of known commands a poll carries, or the reports it tells directly; `post` is a
delivery of the redelivery loop that was answered and is not yet acknowledged in
the journal. `begun` and `effect` record what happened to the host.

## Runs

| Run | Shows |
|---|---|
| `store_fence` | a deploy, a move, a marked destroy and a reboot window under every store operation with arbitrary arguments: the fence, lease columns, maintenance exclusion, restart rule, and the refinement of `ExecutionFence` |
| `exec_failover` | a deploy on two boots, one of which stops or crashes anywhere: ownership, durability of waits, live executions, settled rows |
| `exec_kinds` | a managed provision (cancelled, abandoned, resumed, with node commands) and a marked destroy on two boots |
| `exec_contention` | a move through checkpoint, reclaim, recovery and resolution, beside a deploy of its source stack, with which it takes the stack's token in turn, or one of its destination stack, for which it holds no token |
| `exec_orphans` | liveness: rows of dead boots are released, superseded handlers are detached |
| `maint_runners` | two replicas and one reboot or update: one sender, truthful completion, settled for good, node released |
| `settle_table` | three jobs of a stack: status and observers follow the table, finished jobs settle |
| `provider_custody` | two provisions of one generation, two reconcilers that stall, crash and act on old listings, both resolvers, a teardown: one create, released means gone, and the refinement of `RuntimeCustody`; or one provision and two destroy calls with snapshots of different age and three attempts: an attempt is opened only when the earlier ones have failed |
| `provider_teardown` | liveness: a requested teardown with two attempts releases the slot or ends where only an operator helps |
| `guard_effects` | two mutations over two crashes, lost polls, reports and answers and a list of one command; or one command, mutation or observation, over two crashes and two faults of the journal (a failing write, a full journal, a compaction that fails after its rename): evidence is held while the hub waits for it, completion is truthful, and the refinement of `CommandOutcome` |
| `guard_answers` | liveness: a mutation over two crashes, two faults and lost messages; once dispatched it is settled or becomes an unknown outcome |
| `guard_operator` | **violation**: an operator's resolution that races the Guard's own escalation never releases the Guard's fence |

The violation is a behaviour of the code that contradicts a comment in it;
`PROJECT.json` quotes the comment under `findings`.

### Bounds and why they are enough

* Generations: two values, recycled when nothing refers to them any more
  (`Fresh`). A row, an entry, its restored generation and the requests in flight
  of one job refer to few at a time; the claims that would need a third are
  disabled, not mis-modelled. Generations are symmetric except where liveness is
  checked.
* Two boots: one to lose an execution and one to take it over. A boot is used
  once, so a restart of a replica is the second boot. After both have gone
  nothing happens any more, which is why these configurations do not check for
  deadlock.
* `TTL = 1`, `MaxLag = 0`: a lease is fresh, or lapsed. A reading whose age
  exceeds `MaxLag` is not tracked further. `MaxSkew = 0`: the replicas' clocks
  agree with the database; `LiveExecutionKeepsRow` does not hold otherwise, since
  the reclaimer compares its own clock with the database's deadline.
* `OneJob` and `OneContention` are state constraints: one configuration covers
  several job types by admitting one of them, or two whose targets overlap.
* Maintenance deadlines are countdowns of one tick (three for the apply limit):
  each may lapse before, during or after every step.
* A request whose live caller has given up is dropped; only the requests of a
  dead process commit late. The requeue at boot is one step. There is one
  progress loop per entry.

* `provider_custody`: two provisions because the dispatch guard is the
  generation's and not the operation's; two workers, one of which may crash, and
  one claim that expires under a living worker; two graphs, since a retried
  transport may create two; two decisions, since a decision that found nothing
  may be followed by another. Provisions and graphs are symmetric in this run,
  as the commands are in `guard_effects`. `provider_teardown` has one provision and two
  attempts within a budget of two. The state constraint
  `OneQuestion` gives the run a second part: two decommissioners, whose snapshots may
  be two failed attempts apart, and a third attempt after the window, beside one
  provision, one graph, one reconciler at work and no stall.
* A released slot and a parked teardown are ends of these instances, so the provider
  configurations do not check for deadlock. The Guard never stops, and its
  configurations do.
* Guard: a request is served while its sender waits or not at all, because the
  handlers work under the request's context and a transaction of an abandoned
  request is rolled back; its answer may be lost. The two sides agree about time.
  A crash kills the executors with the Guard's control group. `not_applied` and
  `observed_converged` are one kind, "observed", since both settle the outcome.
  Every definite answer to a report ends its delivery, whether it acknowledges or
  refuses. Two commands suffice for a fence; two crashes allow one before and one
  after a recovery. Two faults allow a failing compaction and a failing write, or a
  write that fails again after the reopen; a compaction inside an admission that
  fails is a fault of each kind. `MaxKnown = 1` stands for the code's 64, so that two
  commands overflow the list. By the state constraint `OneQuestion` the two
  mutations of `guard_effects` meet no journal faults; `guard_answers` has one
  command. The proofs have no such limits.

### Fairness

* `JobExecution`: time passes; node commands end within their budget; a steady
  boot (never stopped, database reachable again and again) keeps ticking its
  progress loops and its reclaim pass, both driven by tickers. Strong fairness is
  used where a call may fail any number of times but not for ever. Nothing is
  assumed of the other boots, handlers or requests of dead processes.
* `ServerMaintenance`: time passes and a steady replica sweeps and finishes its
  steps; slots of its pool become free because every step is bounded. Nothing is
  assumed of the agent or the node; `NodeReleased` excludes only a node that
  connects and disconnects for ever, which restarts the return window each time.
* `JobSettlement`: loops of a live replica tick, executions of a dead one are
  reclaimed, and an observer that is called again and again succeeds.
* `ProviderControl`: reconcilers that are up keep working; a provider that is
  asked again and again about an operation makes progress; creates land or are
  lost, deletions take effect and claims of dead replicas expire; the recovery
  loops of the decommissioner and the automatic resolver run. Nothing is assumed
  of the human operator.
* `GuardControl`: the control loop keeps running, a crashed Guard is restarted by
  its service manager, an answered delivery is recorded; a journal that is
  reopened again and again opens; polls and deliveries that are repeated for ever
  get through once. Nothing is assumed of callers, the clock or the operator.

## Proofs

Every safety invariant, action property and refinement that a passing run checks
is also a theorem, for every value of the constants; TLC found each inductive
invariant to hold on the instances of the runs as well. The theorems, by module:

| Module | Theorem | States |
|---|---|---|
| `JobStore_proofs` | `TypeCorrect`, `ExecutionsDisjoint`, `MoveFenced`, `LeaseShape`, `WindowExclusive` | `TypeOK`, `OneExecutionPerTarget`, `UnresolvedMoveFences`, `LeaseExactlyWhileRunning`, `WindowExcludesExecution` |
| | `SettledNotRestarted` | `SettledRowRestartsOnlyToRecover` |
| | `FenceImplemented` | `ImplementsFence`: the table refines `ExecutionFence` |
| `JobExecution_proofs` | `ExecTypes`, `OwnerWrites`, `WaitDurable`, `TokenPerStack` | `ExecTypeOK`, `OnlyOwnerWritesRunningRow`, `AckedWaitIsDurable`, `OneHandlerPerStack` |
| | `SettledForGood`, `LiveRow` | `SettledStaysSettled`, `LiveExecutionKeepsRow` |
| | `StoreImplemented`, `ReplicasFenced` | the replicas implement `JobStore`, so its fence holds of them |
| `ServerMaintenance_proofs` | `MaintenanceTyped`, `SingleSender`, `CompletedIsDone` | `TypeOK`, `OneSender`, `CompletedMeansDone` |
| | `NeverReopened` | `SettledForGood` |
| `JobSettlement_proofs` | `SettlementTyped`, `StatusOfRow`, `ObservedDurable` | `TypeOK`, `StatusMatchesRow`, `ObservedIsDurable` |
| `ProviderControl_proofs` | `LedgerTypes`, `CreatedOnce`, `ReleasedGone`, `AttemptsSerial` | `TypeOK`, `DispatchedAtMostOnce`, `ReleasedMeansGone`, `AttemptsAreSerial` |
| | `CustodyImplemented` | `ImplementsCustody`: the ledger refines `RuntimeCustody` |
| `GuardControl_proofs` | `GuardTypes`, `OpenOutcomeHeld`, `CompletedRan` | `TypeOK`, `OpenOutcomeIsHeld`, `CompletedMeansRan` |
| | `OutcomeImplemented` | `ImplementsOutcome`: hub and Guard refine `CommandOutcome` |

**JobStore.** The fence is not inductive in the form a user reads it. Whether two
running rows overlap depends on rows that do not run but hold the fence (an
unresolved move that is later recovered), so the invariant is stated over all
holders: no two of them, running or unresolved, overlap. A claim checks exactly
that, a snapshot can turn a running move into an unresolved one without creating a
new holder, and everything else only shrinks the set. The window invariant needs
the type of the window's state and the fact that a claim of either side checks the
other. The refinement follows the same cases: each operation adds at most one
holder to the lock, and then against no conflicting one. Assumed
(`ConstantsAssumption`): positive lease time, a grace within it, and NULLs that
are not values.

**JobExecution.** The store accepts a snapshot by comparing generations, so what
has to be known is who may carry one. `GenUnique` says that a generation is
referred to by the entry, the restored value and the two requests of one job on
one boot only; `OwnerHolds` that the boot which refers to the generation of a
running row owns the row. All steps but two keep this for one reason: they bring
no new generation into an entry or a row and start nothing (they are "tame"). The
two are `BeginJobExecution`, which draws a generation nobody refers to, and the
claim that was granted, which puts the claimant's generation on the row. The other
parts say what a request in flight can carry: under the generation of a running
handler it reports "running" (`EntryOK`, without which a late snapshot could close
a live row), the outcome of a move needs a generation (`RequestOK`, `RowOK`), an
acknowledged wait is not on a row that runs under its generation (`AckOK`), and a
stack's token has one holder, detached handlers included (`TokenInv`); the token of
a move is its source's, so nothing is proved of a handler on its destination but what
the table's fence gives. Each step
is shown to be an operation of `JobStore` with arguments it allows, which carries
`FenceInv` over. Assumed (`ExecConstantsAssumption`): marked jobs are destroys and
managed ones provisions, hence not moves, and a job is queued for a stack it
mutates. `LiveRow` assumes `MaxSkew = 0`; with a
replica's clock ahead of the database's it is false, as noted under bounds.
`OnlyOwnerWritesRunningRow` leaves moves out: their recovery keeps the generation
under a new owner (see the first observation), and a stalled executor's snapshot
is then accepted. `SettledStaysSettled` lets a settled move be recovered while it
holds its fence, or completed as resolved, and nothing else.

**ServerMaintenance.** `OneSender` is not inductive: a second claim is refused only
because the row is no longer "queued". `SendInv` adds that a job whose command is
being sent or was sent is not queued, that no pending write stores "queued", and
that no step works on a row it read as settled. The last part is also what makes a
settled job final: a write compares the row with a state that is not terminal.
`CompletedMeansDone` speaks of the row; a replica decides on a copy and writes
later, so `DoneInv` says of every step what the row says (what it read, and what it
is about to write, is justified by the node), and `Firm` that the node never takes
such a fact back. Assumed (`MaintenanceAssumption`): durations are positive.

**JobSettlement.** Status and observers are served in a later step than the one
that settled the row. `StoredInv` and `ReclaimedInv` say what those steps may rely
on: a loop past its store has a row that agrees with its entry, and what the
reclaimer has to project is the failure it stored.

**ProviderControl.** `DispatchedAtMostOnce` follows from `GuardInv`: the guard row
is inserted once, with the only claim that may create, and a worker about to create
is the only one. `CallInv` ties each worker's call to the head it was claimed
at, however old, and keeps "absent" true once answered. `ReleasedMeansGone` needs
that nobody can still record a handle: a decision, or the tombstone, ends the
claim of the create for good (`ReleaseInv`), and all handles anywhere were left by
a create (`HandleInv`). `AttemptInv` adds that an old snapshot of a decommissioner
counts attempts that have failed. Assumed (`ProviderAssumption`): the bounds are
numbers and the identifiers of operations, workers and resolvers are distinct.

**GuardControl.** The core is `LinkInv`: while the hub waits for a command that
began, the journal holds its entry and carries on from the hub's chain of
revisions. It is kept because a row has evidence only in certain states (`RowInv`),
an entry grows in a fixed form (`EntryInv`), what a loop read stays true until it
uses it (`ReadInv`, `HandInv`, `PostInv`), and an effect runs only under the control
loop, a mutation's only behind its marker (`EffectInv`). `Exclusive`, one mutation
in flight, gives "begins alone" in the refinement. A log that a failed compaction
left behind holds less than memory does (`DiskInv`), so an open may lose a command
that began: it is then in `lost`, and the other parts are stated for commands that
are not. Where an offer or a failure rests on the list of a poll they exempt
`unlisted` in the same way. The theorems therefore say how far the promise reaches
and not that it always holds: `OpenOutcomeHeld` for every command no open has lost,
`OutcomeImplemented` with a step `Forget` in `CommandOutcome` that ends the promise
for a lost or unlisted mutation and for no other (Observations has both). Assumed (`GuardAssumption`, `MutatingAssumption`): numbers of crashes and
faults, any at all, a list with room for one command, and mutating commands that are
commands.

Only model-checked: the properties under fairness (`OrphansReleased`,
`ZombieDetached`, `NodeReleased`, `FinishedJobSettles`, `TeardownConverges`,
`DispatchedIsAnswered`), since liveness and ENABLED are out of the prover's reach;
and the counterexample of the violating run.

## Observations

Behaviours of the code met while modelling that contradict a comment in it or
deserve a reader's attention. The model has the first four groups and the last, and the
properties are stated so that they do not claim the contrary; the others were seen
in the code only.

* **Recovery of a move keeps the generation.**
  `job_relocation_resolution.go:148` takes the row under a new owner and leaves
  `started_at`, and `SyncJobSnapshot` compares generations only, so the stalled
  executor's snapshot is still accepted. `queue.go:379-380` says a fenced
  projection must never write over the executor that now owns the row.
* **Two unordered writers of a move's row.** `stackkit_relocation.go:376` stores
  the checkpoint while the progress loop may have an older snapshot of the whole
  result in flight; the older one may commit last and erase the outcome that
  fences both nodes (compare lines 369-370).
* **A requeued row can fence itself.** `pending_requeue.go:254` rebuilds a parked
  job without its generation; its first snapshot is refused and the entry
  dropped. **One observer failure ends all retries**: after
  `orchestrator_sync.go:212` the retry stores the terminal snapshot again, the
  closed row refuses it, and the loop ends as fenced.
* **A maintenance command may be delivered after its job failed.** A replica that
  re-attaches between another's claim and its insert (`runner.go:243`), or whose
  read of the outcome fails (`runner.go:302`), fails the job and releases the
  node; `runner.go:117-118` and `loop.go:27-29` describe the job as the node's
  hold.
* **Provider control.** The authority for a teardown without resources
  (`server_resource_projection.go:703-740`) accepts an older decision that found
  nothing although a newer undecided observation names a server. `OnParked` is
  reached only when two workers race, not for every parked create as
  `automatic_provision_resolution.go:11-16` reads. An undecided observation of no
  candidate and a server that lands later make each verification fail
  (`operator_resolution_workflow.go:135-146`). A worker that stalls past its claim
  may still issue its create, which is then the only one. The finalizer does not
  take failed heads, contrary to `coordinator.go:487-503`. A create that lands after
  a decision that found nothing (`operator_resolution_postgres.go:372`) leaves a
  server under a released slot; no row names it, and `ReleasedMeansGone` speaks of
  recorded handles. `prepareCandidates`
  rolls the cancel intent back when the generation has not exactly one provision.
* **Guard and hub.** A journal that cannot be opened at all yields an empty list of
  known commands: a command that ran is offered again and refused as never
  journaled, and the row says that nothing ran. Commands with a RIL proof are
  excluded from re-offer and expiry (`guard_bound.go:311`), so one whose answer
  is lost stays dispatched and fences the worker. A report refused with status
  403 is acknowledged as rejected, like any other definite refusal. A result told
  directly after a failed write settles the row, while the journal later records
  an unknown outcome that an operator cannot resolve, since the row is not open.
* **A command that ran can be taken for one that never started.** The hub concludes
  from a command missing in the Guard's list that "nothing can have started"
  (`guard_bound.go:294-295`). When the sync of the directory fails after the
  compacted log was renamed into place (`journal/store.go:946-950`), the store goes
  on with the replaced file and is not denied, and `redeliverDue` ignores the error
  (`durable.go:998`): the intents, markers and results that follow are gone after
  the next open, and the command is failed as never started or runs twice. When
  more commands wait for the hub than the list has room for (`durable.go:347`,
  `guard_bound.go:110`), the oldest is left out; the journal stops a second run, but
  after its authority the row is failed as never started and its report refused. The
  model has both (`lost`, `unlisted`). `UnlistedNeverStarted` states the hub's
  conclusion: TLC refutes it in `MCGuardControl` with one mutation, one crash and one
  fault, and with two commands, no crash and no fault.

## Not modelled

The contents of results, logs and documents; restore-activation and backup
guards inside `SyncJobSnapshot`; provider evidence that chooses between resuming
and failing an orphan (a choice in the model); the commands of a move on its
nodes; the queue's channel, worker pool and back-off; per-stack admission of
destroys. Of provider control: power, plan and observe operations, adapters that
replay a create, credential custody and the evidence documents. Of the hub: the
legacy contract, observe-only workers, capability refusals, RIL proofs,
predecessor recovery and the in-memory hub. Of the Guard: an identity that was
revoked (`durable.go:395`), hand-off and
decommission of the journal, rebinding, credential generations, executors that
survive their process group, and a journal that cannot be read.

Most of the repository (user interface, HTTP read models, document
transformation, discovery, generated and shared code) holds no concurrent or
durable state of its own; the map therefore covers a small share of all lines and
a large share of the files the modelled components name.

## Plan

1. `JobQueue`: channel, workers, tokens, resume schedules and deferral back-off;
   capacity and lost-wakeup properties.
2. `NodeAdmission`: row lock and sorted advisory locks as separate steps, shown
   to implement the atomic claims of `JobStore`, and free of deadlock.
3. `StackLifecycle`: admission and supersession of destroys, receipts, idempotency.
4. Proofs of the new modules: that `NodeAdmission` implements the claims of
   `JobStore`, and the capacity and token invariants of `JobQueue`. Of what exists,
   the row of a move under two boots: what its recovery still guarantees although it
   keeps the generation.
