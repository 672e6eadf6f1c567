------------------------------ MODULE CommandHub ------------------------------
(***************************************************************************)
(* The durable command rows of one worker in the agent command hub: the    *)
(* queue, the dispatch fence, the re-offer of a dispatched command the     *)
(* Guard does not know, the chain of outcome revisions, and the operator's *)
(* resolution. Every operator is one transaction.                          *)
(*                                                                         *)
(* A revision is the kind of its report. The digest of a revision covers   *)
(* its content and the digest it supersedes, so two revisions have the     *)
(* same digest exactly when their chains of kinds are equal: a report is   *)
(* the chain it ends.                                                      *)
(***************************************************************************)
EXTENDS Naturals, Sequences, SequencesExt

CONSTANTS
    Commands,   \* commands enqueued for the worker
    Mutating    \* the ones IsMutatingOperation says change the host

ASSUME MutatingAssumption == Mutating \subseteq Commands

VARIABLES
    row,        \* typed_agent_commands and its revisions
    live        \* the command's authority has not expired

hub == <<row, live>>

Rejections == {"fenced", "expired", "no_journal"}       \* reports of state rejected
Terminals == {"terminal", "invalid"}    \* a result that fits the command, one that does not
Uncertain == {"unknown", "escalated"}   \* ResultRecord.Open
Resolutions == {"observed", "operator"} \* not_applied or observed_converged; a disposition
Kinds == Rejections \union Terminals \union Uncertain \union Resolutions

RowStates ==
    {"none", "queued", "dispatched", "outcome_unknown", "completed", "failed"}
InFlight == {"dispatched", "outcome_unknown"}
Settled == {"completed", "failed"}

HubInit ==
    /\ row = [c \in Commands |->
                 [state |-> "none", revs |-> <<>>, cause |-> "none", fence |-> FALSE]]
    /\ live = [c \in Commands |-> TRUE]

Enqueue(c) ==
    /\ row[c].state = "none"
    /\ row' = [row EXCEPT ![c].state = "queued"]
    /\ UNCHANGED live

\* The caller gives up: only a command no agent has received is failed.
Withdraw(c) ==
    /\ row[c].state = "queued"
    /\ row' = [row EXCEPT ![c].state = "failed", ![c].cause = "withdrawn"]
    /\ UNCHANGED live

AuthorityExpires(c) ==
    /\ row[c].state # "none" /\ live[c]
    /\ live' = [live EXCEPT ![c] = FALSE]
    /\ UNCHANGED row

\* Another mutation of the worker has no settled outcome.
Fenced(c) ==
    \E d \in Commands \ {c} : row[d].fence /\ row[d].state \in InFlight

Dispatch(c) ==
    /\ row[c].state = "queued" /\ live[c]
    /\ c \in Mutating => ~Fenced(c)
    /\ row' = [row EXCEPT ![c].state = "dispatched", ![c].fence = c \in Mutating]
    /\ UNCHANGED live

\* Dispatched, and the Guard's poll does not list it.
Unjournaled(c, known) == row[c].state = "dispatched" /\ c \notin known

Reoffer(c, known) == Unjournaled(c, known) /\ live[c] /\ UNCHANGED hub

FailUnstarted(c, known) ==
    /\ Unjournaled(c, known) /\ ~live[c]
    /\ row' = [row EXCEPT ![c].state = "failed", ![c].cause = "never_started",
                          ![c].fence = FALSE]
    /\ UNCHANGED live

MutNextState(kind) == IF kind \in Uncertain THEN "outcome_unknown" ELSE "completed"

NextState(kind) ==
    CASE kind = "terminal" -> "completed"
      [] kind \in Uncertain -> "outcome_unknown"
      [] OTHER -> "failed"

\* A first revision is the outcome of a dispatched command; a later one supersedes
\* exactly the evidence of an unknown outcome. A report never carries an operator's
\* disposition.
Accepts(c, chain) ==
    /\ Last(chain) # "operator" /\ Front(chain) = row[c].revs
    /\ IF Len(chain) = 1
       THEN row[c].state = "dispatched" /\ Last(chain) \notin Resolutions
       ELSE row[c].state = "outcome_unknown" /\ Last(chain) \notin Rejections

\* A repeat of a committed revision is acknowledged and any other report refused,
\* without a change. A refusal is final for the Guard, as an acknowledgement is.
SubmitReport(c, chain) ==
    /\ row' = IF Accepts(c, chain)
              THEN [row EXCEPT ![c].state = NextState(Last(chain)), ![c].revs = chain,
                               ![c].cause = "report",
                               ![c].fence = @ /\ Last(chain) \in Uncertain]
              ELSE row
    /\ UNCHANGED live

ResolveByOperator(c) ==
    /\ row[c].state = "outcome_unknown"
    /\ row' = [row EXCEPT ![c].state = "failed", ![c].revs = Append(@, "operator"),
                          ![c].cause = "operator", ![c].fence = FALSE]
    /\ UNCHANGED live

\* Operator resolutions of commands the Guard lists as known.
OperatorResolutions(known) ==
    {c \in known : row[c].revs # <<>> /\ Last(row[c].revs) = "operator"}

HubTypeOK ==
    /\ row \in [Commands -> [state : RowStates, revs : Seq(Kinds), fence : BOOLEAN,
                             cause : {"none", "withdrawn", "never_started", "report",
                                      "operator"}]]
    /\ live \in [Commands -> BOOLEAN]
=============================================================================
