----------------------------- MODULE GuardControl -----------------------------
(***************************************************************************)
(* One Guard and the command hub it polls: the control loop that recovers  *)
(* its journal, polls, admits, fences and executes one offered command,    *)
(* and the redelivery loop that reports unacknowledged revisions, over     *)
(* crashes, failed journal writes and compactions, lost requests and lost  *)
(* answers.                                                                *)
(*                                                                         *)
(* A request is served while its sender waits for it or not at all: the    *)
(* handlers work under the request's context, so a request that is         *)
(* abandoned is rolled back. Its answer may still be lost.                 *)
(***************************************************************************)
EXTENDS GuardJournal, FiniteSets

CONSTANTS
    MaxCrashes,     \* bound on Guard crashes
    MaxFaults,      \* bound on failing journal writes and compactions
    MaxKnown,       \* MaxKnownCommands: the commands a poll can list
    NoCommand

ASSUME GuardAssumption ==
    /\ MaxCrashes \in Nat /\ MaxFaults \in Nat /\ MaxKnown \in Nat \ {0}
    /\ NoCommand \notin Commands

VARIABLES
    guard,      \* the control loop: where it is, its command, its poll, its report
    recovered,  \* recoveredFor is the open store
    post,       \* the redelivery loop's report that has been answered
    begun,      \* commands whose dispatched marker was ever durable
    effect,     \* what the executor does to the host
    lost,       \* begun commands the hub waits for whose records an open did not find
    unlisted,   \* dispatched commands a poll had no room to list
    crashes, faults

vars == <<row, live, entry, denied, disk, older, guard, recovered, post, begun, effect,
          lost, unlisted, crashes, faults>>
budget == <<crashes, faults>>
files == <<disk, older, lost, unlisted>>
journal == <<entry, denied, faults, files>>

Idle == [pc |-> "loop", cmd |-> NoCommand, known |-> {}, chain |-> <<>>]
At(pc, c) == [Idle EXCEPT !.pc = pc, !.cmd = c]
Report(cs, chain) == [Idle EXCEPT !.pc = "report", !.known = cs, !.chain = chain]
NoPost == [cmd |-> NoCommand, rev |-> 0]

Init ==
    /\ HubInit /\ JournalInit
    /\ guard = Idle /\ recovered = FALSE /\ post = NoPost
    /\ begun = {} /\ effect = [c \in Commands |-> "no"]
    /\ lost = {} /\ unlisted = {} /\ crashes = 0 /\ faults = 0

\* A journal write succeeds, or fails and leaves the store denied.
Written == ~denied /\ UNCHANGED <<denied, faults>>
WriteFails ==
    /\ denied \/ faults < MaxFaults
    /\ denied' = TRUE /\ faults' = IF denied THEN faults ELSE faults + 1
    /\ UNCHANGED entry

---------------------------------------------------------------------------
\* The control loop

MutInterrupted == {}

Interrupted == {c \in Commands : State(c) = "dispatched"}
Lapsed == {c \in Commands : State(c) = "intent" /\ ~live[c]}

Recovered(done) ==
    entry' = [c \in Commands |->
        IF c \notin done THEN entry[c]
        ELSE [entry[c] EXCEPT !.res = <<IF c \in Interrupted THEN "unknown" ELSE "expired">>]]

\* recoverInterrupted: a marker without a result becomes an unknown outcome; then
\* an intent whose authority is over is refused. A write that fails ends the first
\* half, and in the second half makes the other refusals direct reports.
Recover ==
    /\ guard.pc = "loop" /\ ~recovered /\ ~denied
    /\ \/ /\ Recovered(Interrupted \union Lapsed)
          /\ recovered' = TRUE /\ UNCHANGED <<guard, denied, faults>>
       \/ /\ faults < MaxFaults /\ denied' = TRUE /\ faults' = faults + 1
          /\ \/ /\ \E done \in SUBSET Interrupted : done # Interrupted /\ Recovered(done)
                /\ UNCHANGED <<guard, recovered>>
             \/ \E done \in SUBSET Lapsed :
                   /\ done # Lapsed /\ Recovered(Interrupted \union done)
                   /\ recovered' = TRUE
                   /\ guard' = Report(Lapsed \ done, <<"expired">>)
    /\ UNCHANGED <<hub, post, begun, effect, crashes, files>>

\* Commands that began, that the hub waits for, and of which a log has not the
\* marker and the revisions there were.
Missing(log) ==
    {c \in begun : /\ row[c].state \in InFlight
                   /\ \/ log[c].held # entry[c].held \/ log[c].marked # entry[c].marked
                      \/ log[c].res # entry[c].res}

\* writable opens a denied journal again; the new store is recovered again.
Reopen ==
    /\ guard.pc \in {"loop", "offered", "noticed"} /\ denied
    /\ denied' = FALSE /\ recovered' = FALSE
    /\ Load(IF disk = {} THEN {entry} ELSE disk) /\ lost' = lost \union Missing(entry')
    /\ UNCHANGED <<hub, guard, post, begun, effect, unlisted, budget>>

Oracle(c) == IF c \in Mutating THEN {"observed", "escalated"} ELSE {"observed"}

\* reconcileUnknown: an escalation is recorded once.
Reconcile(c) ==
    /\ guard.pc = "loop" /\ recovered /\ State(c) = "outcome_unknown"
    /\ \E kind \in Oracle(c) :
          /\ kind = "escalated" => Last(Results(c)) # "escalated"
          /\ \/ Written /\ RecordResult(c, kind)
             \/ ~denied /\ WriteFails
    /\ UNCHANGED <<hub, guard, recovered, post, begun, effect, crashes, files>>

Listable ==
    {c \in Commands : State(c) \in {"dispatched", "outcome_unknown", "result_pending"}}

\* The list is filled from the newest intent.
Overflow ==
    {c \in Listable : Cardinality({d \in Listable : c \in older[d]}) >= MaxKnown}

MutKnownCommands ==
    {c \in Listable : Cardinality({d \in Listable : d \in older[c]}) < MaxKnown}

KnownCommands == Listable \ Overflow

\* The poll's first transaction: operator resolutions come before any command.
Poll ==
    /\ guard.pc = "loop" /\ (recovered \/ denied)
    /\ LET notices == OperatorResolutions(KnownCommands)
       IN guard' = [Idle EXCEPT !.pc = IF notices = {} THEN "polling" ELSE "noticed",
                                !.known = IF notices = {} THEN KnownCommands ELSE notices]
    /\ unlisted' = unlisted \union {c \in Overflow : row[c].state = "dispatched"}
    /\ UNCHANGED <<hub, entry, denied, disk, older, recovered, post, begun, effect, lost,
                   budget>>

\* The poll's second transaction: the answer arrives, or is lost.
Offer(c) ==
    /\ guard.pc = "polling"
    /\ Reoffer(c, guard.known) \/ Dispatch(c)
    /\ guard' = At("offered", c)
    /\ UNCHANGED <<journal, recovered, post, begun, effect, crashes>>

LoseOffer(c) ==
    /\ guard.pc = "polling" /\ Dispatch(c)
    /\ guard' = Idle
    /\ UNCHANGED <<journal, recovered, post, begun, effect, crashes>>

PollFailUnstarted(c) ==
    /\ guard.pc = "polling" /\ FailUnstarted(c, guard.known)
    /\ UNCHANGED <<journal, guard, recovered, post, begun, effect, crashes>>

EndPoll ==
    /\ guard.pc = "polling" /\ guard' = Idle
    /\ UNCHANGED <<hub, journal, recovered, post, begun, effect, crashes>>

\* A notice must be the next revision of an outcome the journal holds as open.
Applicable(c) == Open(c) /\ row[c].revs = Append(Results(c), "operator")

\* applyOperatorResolutions records and acknowledges, or ignores, each notice.
ApplyResolution(c) ==
    /\ guard.pc = "noticed" /\ c \in guard.known
    /\ \/ /\ ~Applicable(c)
          /\ guard' = [guard EXCEPT !.known = @ \ {c}] /\ UNCHANGED journal
       \/ /\ Applicable(c) /\ Written
          /\ entry' = [entry EXCEPT ![c].res = row[c].revs, ![c].acked = Len(row[c].revs)]
          /\ guard' = [guard EXCEPT !.known = @ \ {c}]
       \/ /\ Applicable(c) /\ ~denied /\ faults < MaxFaults
          /\ denied' = TRUE /\ faults' = faults + 1
          /\ entry' \in {entry, [entry EXCEPT ![c].res = row[c].revs]}
          /\ guard' = Idle
       \/ denied /\ guard' = Idle /\ UNCHANGED journal
    /\ UNCHANGED <<hub, recovered, post, begun, effect, crashes, files>>

ResolutionsApplied ==
    /\ guard.pc = "noticed" /\ guard.known = {} /\ guard' = Idle
    /\ UNCHANGED <<hub, journal, recovered, post, begun, effect, crashes>>

\* Binding.Validate: a command without an entry needs its authority, and is refused
\* by a report that no journal holds.
Bound(c) == entry[c].held = "entry" \/ live[c]

HandleExpired ==
    /\ guard.pc = "offered" /\ ~Bound(guard.cmd)
    /\ guard' = Report({guard.cmd}, <<"expired">>)
    /\ UNCHANGED <<hub, journal, recovered, post, begun, effect, crashes>>

\* reserveLocked finds no room for the intent; the store is not denied.
Full == ~denied /\ faults < MaxFaults /\ faults' = faults + 1 /\ UNCHANGED <<entry, denied>>

\* An observation runs, and its result is told directly.
RunUnjournaled(c) ==
    guard' = Report({c}, <<"terminal">>) /\ effect' = [effect EXCEPT ![c] = "over"]

\* handleOffered with a journal that cannot take the intent: a mutation is
\* refused, an observation runs without a journal.
HandleUnjournaled ==
    LET c == guard.cmd IN
    /\ guard.pc = "offered" /\ Bound(c)
    /\ (denied \/ State(c) = "no") /\ (WriteFails \/ Full)
    /\ IF c \in Mutating
       THEN guard' = Report({c}, <<"no_journal">>) /\ UNCHANGED effect
       ELSE RunUnjournaled(c)
    /\ UNCHANGED <<hub, recovered, post, begun, crashes, files>>

\* handleOffered: a command that is already beyond its intent is never run again.
Handle ==
    LET c == guard.cmd IN
    /\ guard.pc = "offered" /\ Bound(c) /\ Written
    /\ \/ /\ State(c) = "no"
          /\ Admit(c) /\ guard' = At("admitted", c)
       \/ /\ State(c) = "intent"
          /\ guard' = At("admitted", c) /\ UNCHANGED <<entry, older>>
       \/ /\ State(c) \notin {"no", "intent"}
          /\ guard' = Idle /\ UNCHANGED <<entry, older>>
    /\ UNCHANGED <<hub, recovered, post, begun, effect, crashes, disk, lost, unlisted>>

Unsettled(c) ==
    {d \in Mutating \ {c} : State(d) \in {"dispatched", "outcome_unknown"}}

Refusal(c) ==
    CASE c \in Mutating /\ Unsettled(c) # {} -> {"fenced"}
      [] (c \in Mutating => Unsettled(c) = {}) /\ ~live[c] -> {"expired"}
      [] OTHER -> {}

\* finishRejected: durable, or told directly when the journal fails.
Execute ==
    LET c == guard.cmd IN
    /\ guard.pc = "admitted"
    /\ \/ \E kind \in Refusal(c) :
             /\ \/ Written /\ RecordResult(c, kind) /\ guard' = Idle
                \/ WriteFails /\ guard' = Report({c}, <<kind>>)
             /\ UNCHANGED begun
       \/ /\ Refusal(c) = {} /\ Written
          /\ MarkDispatched(c)
          /\ begun' = begun \union {c} /\ guard' = At("marked", c)
       \/ /\ Refusal(c) = {} /\ WriteFails
          /\ guard' = Report({c}, <<"no_journal">>) /\ UNCHANGED begun
    /\ UNCHANGED <<hub, recovered, post, effect, crashes, files>>

StartEffect ==
    /\ guard.pc = "marked"
    /\ guard' = At("running", guard.cmd)
    /\ effect' = [effect EXCEPT ![guard.cmd] = "running"]
    /\ UNCHANGED <<hub, journal, recovered, post, begun, crashes>>

\* The executor returns a result or is lost; a result the journal cannot take is
\* told directly.
FinishEffect ==
    LET c == guard.cmd IN
    /\ guard.pc = "running"
    /\ effect' = [effect EXCEPT ![c] = "over"]
    /\ \E kind \in Terminals \union {"unknown"} :
          \/ Written /\ RecordResult(c, kind) /\ guard' = Idle
          \/ /\ WriteFails
             /\ guard' = IF kind = "unknown" THEN Idle ELSE Report({c}, <<kind>>)
    /\ UNCHANGED <<hub, recovered, post, begun, crashes, files>>

Told(c) == guard' = IF guard.known = {c} THEN Idle ELSE [guard EXCEPT !.known = @ \ {c}]

\* deliverEphemeral: a report that is in no journal; the retries are bounded.
ReportDirectly(c) ==
    /\ guard.pc = "report" /\ c \in guard.known /\ Told(c)
    /\ SubmitReport(c, guard.chain)
    /\ UNCHANGED <<journal, recovered, post, begun, effect, crashes>>

GiveUpReport(c) ==
    /\ guard.pc = "report" /\ c \in guard.known /\ Told(c)
    /\ UNCHANGED <<hub, journal, recovered, post, begun, effect, crashes>>

---------------------------------------------------------------------------
\* The redelivery loop

\* The lowest unacknowledged revision is posted; any definite answer ends it.
Deliver(c) ==
    /\ guard.pc # "down" /\ post = NoPost /\ Unacked(c)
    /\ SubmitReport(c, NextUnacked(c))
    /\ post' = [cmd |-> c, rev |-> Len(NextUnacked(c))]
    /\ UNCHANGED <<journal, guard, recovered, begun, effect, crashes>>

LoseAnswer(c) ==
    /\ guard.pc # "down" /\ post = NoPost /\ Unacked(c)
    /\ SubmitReport(c, NextUnacked(c))
    /\ UNCHANGED <<journal, guard, recovered, post, begun, effect, crashes>>

\* The answer is for a revision the journal holds, unless it was lost meanwhile.
RecordAck ==
    LET held == entry[post.cmd].held = "entry" /\ post.rev <= Len(Results(post.cmd)) IN
    /\ post # NoPost /\ post' = NoPost
    /\ \/ held /\ Written /\ Ack(post.cmd, post.rev)
       \/ held /\ WriteFails
       \/ ~held /\ UNCHANGED journal
    /\ UNCHANGED <<hub, guard, recovered, begun, effect, crashes, files>>

\* Before its rename a failing compaction changes nothing; after it the caller
\* ignores the error.
CompactJournal ==
    /\ guard.pc # "down" /\ ~denied
    /\ \E old \in SUBSET {c \in Commands : ~live[c]} :
          \/ Compact(old) /\ UNCHANGED faults
          \/ faults < MaxFaults /\ faults' = faults + 1 /\ CompactDetached(old)
    /\ UNCHANGED <<hub, denied, guard, recovered, post, begun, effect, lost, unlisted, crashes>>

---------------------------------------------------------------------------
\* Callers, time, the operator and crashes

Hub(c) ==
    /\ Enqueue(c) \/ Withdraw(c) \/ AuthorityExpires(c) \/ ResolveByOperator(c)
    /\ UNCHANGED <<journal, guard, recovered, post, begun, effect, crashes>>

\* The process and its executors die; the journal stays. A log that was renamed
\* without a sync of its directory is there, or after a crash of the host the one
\* before it.
Crash ==
    /\ guard.pc # "down" /\ crashes < MaxCrashes
    /\ crashes' = crashes + 1
    /\ guard' = [Idle EXCEPT !.pc = "down"] /\ post' = NoPost
    /\ denied' = FALSE /\ recovered' = FALSE
    /\ Load({entry} \union disk) /\ lost' = lost \union Missing(entry')
    /\ effect' = [c \in Commands |-> IF effect[c] = "running" THEN "over" ELSE effect[c]]
    /\ UNCHANGED <<hub, begun, unlisted, faults>>

Restart ==
    /\ guard.pc = "down" /\ guard' = Idle
    /\ UNCHANGED <<hub, journal, recovered, post, begun, effect, crashes>>

ControlLoop ==
    \/ Recover \/ Reopen \/ Poll \/ EndPoll \/ ResolutionsApplied
    \/ HandleExpired \/ HandleUnjournaled \/ Handle \/ Execute \/ StartEffect \/ FinishEffect
    \/ \E c \in Commands : \/ Reconcile(c) \/ Offer(c) \/ LoseOffer(c)
                           \/ PollFailUnstarted(c) \/ ApplyResolution(c)
                           \/ ReportDirectly(c) \/ GiveUpReport(c)

Redelivery ==
    RecordAck \/ CompactJournal \/ \E c \in Commands : Deliver(c) \/ LoseAnswer(c)

Next == ControlLoop \/ Redelivery \/ Crash \/ Restart \/ \E c \in Commands : Hub(c)

Spec == Init /\ [][Next]_vars

\* Both loops keep running and a crashed Guard is restarted; a journal that is
\* reopened over and over opens; a poll and a report that are repeated for ever get
\* through once.
Fairness ==
    /\ WF_vars(ControlLoop) /\ WF_vars(RecordAck \/ Restart) /\ SF_vars(Reopen)
    /\ \A c \in Commands :
          /\ SF_vars(Offer(c) \/ PollFailUnstarted(c)) /\ SF_vars(Deliver(c))

FairSpec == Spec /\ Fairness

---------------------------------------------------------------------------
\* Properties

TypeOK ==
    /\ HubTypeOK /\ JournalTypeOK
    /\ guard \in [pc : {"loop", "polling", "noticed", "offered", "admitted", "marked",
                        "running", "report", "down"},
                  cmd : Commands \union {NoCommand}, known : SUBSET Commands,
                  chain : Seq(Kinds)]
    /\ recovered \in BOOLEAN
    /\ post \in [cmd : Commands \union {NoCommand}, rev : Nat]
    /\ begun \subseteq Commands /\ lost \subseteq begun /\ unlisted \subseteq Commands
    /\ effect \in [Commands -> {"no", "running", "over"}]
    /\ crashes \in 0 .. MaxCrashes /\ faults \in 0 .. MaxFaults

\* The row says that nothing ran: withdrawn, expired before it started, rejected.
NothingRan(c) ==
    row[c].state = "failed" /\
        \/ row[c].cause \in {"withdrawn", "never_started"}
        \/ row[c].cause = "report" /\ Last(row[c].revs) \in Rejections

\* The Guard cannot speak for the command any more: its records went with a file a
\* failed compaction had replaced, or a poll had no room for it.
Forgotten == lost \union unlisted

\* The two stores, the loops and the faults between them implement the promise. It
\* ends for a mutation, and for no other, when the Guard has forgotten it.
Outcome == INSTANCE CommandOutcome WITH
    Mutations <- Mutating,
    effect <- [c \in Mutating |-> IF c \in Forgotten THEN "over" ELSE effect[c]],
    phase <- [c \in Mutating |->
                 IF c \in Forgotten THEN "forgotten"
                 ELSE IF NothingRan(c) THEN "refused"
                 ELSE IF row[c].state \in Settled THEN "settled"
                 ELSE IF c \in begun THEN "open" ELSE "waiting"]
ImplementsOutcome == Outcome!OutcomeSpec

\* While the hub waits for the outcome of a command that began, the journal holds
\* it, unless an open after a failed compaction lost it: its entry extends the hub's
\* chain of revisions and has no acknowledgement the hub did not give, so it is
\* delivered until settled.
OpenOutcomeIsHeld ==
    \A c \in begun \ lost :
        row[c].state \in InFlight =>
            /\ entry[c].held = "entry" /\ IsPrefix(row[c].revs, Results(c))
            /\ entry[c].acked <= Len(row[c].revs)

\* A command reported as completed has run, and its executor is done: only one the
\* Guard has forgotten can be running again.
CompletedMeansRan ==
    \A c \in Commands :
        row[c].state = "completed" =>
            effect[c] # "no" /\ (effect[c] = "running" => c \in Forgotten)

\* What the hub concludes from a poll (Unjournaled): a dispatched mutation it does
\* not list has not started. This fails for a forgotten one, so no run checks it.
UnlistedNeverStarted ==
    \A c \in Mutating :
        guard.pc = "polling" /\ Unjournaled(c, guard.known) => effect[c] = "no"

\* The Guard holds as open an outcome the operator has settled, with evidence of
\* its own that the notice does not supersede.
NoticeIgnored == \E c \in Commands : c \in OperatorResolutions(KnownCommands) /\ ~Applicable(c)

\* A dispatched command is settled or becomes an unknown outcome the operator
\* sees, unless an ignored notice occupies every poll.
DispatchedIsAnswered ==
    \A c \in Commands :
        row[c].state = "dispatched" ~> (row[c].state # "dispatched" \/ NoticeIgnored)

\* A resolution the operator commits reaches the journal and releases its fence.
ResolutionReleasesFence ==
    \A c \in Commands :
        row[c].cause = "operator" ~> State(c) # "outcome_unknown"
=============================================================================
