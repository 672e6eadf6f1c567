----------------------------- MODULE GuardJournal -----------------------------
(***************************************************************************)
(* The Guard's durable journal: one entry per command from its intent to   *)
(* the acknowledgement of its last revision, and the tombstone that is     *)
(* left of it. A record is applied to memory only after it is written and  *)
(* synced, so memory is what the open file holds; a write that fails       *)
(* refuses every further write until the journal is opened again. One      *)
(* error takes the open file away from the log: a compaction that renames  *)
(* its new file into place and then cannot sync the directory goes on with *)
(* the file it replaced, and what it writes there is gone at the next open.*)
(***************************************************************************)
EXTENDS CommandHub

VARIABLES
    entry,      \* entries and tombstones in memory, and in the open file
    denied,     \* a write failed: the open store refuses to write
    disk,       \* the compacted log in the open file's place; {} when there is none
    older       \* for each entry, the entries with an earlier IntentAt

NoEntry == [held |-> "no", marked |-> FALSE, res |-> <<>>, acked |-> 0]
Tombstone == [NoEntry EXCEPT !.held = "tombstone"]
Intent == [NoEntry EXCEPT !.held = "entry"]

JournalInit ==
    /\ entry = [c \in Commands |-> NoEntry] /\ denied = FALSE /\ disk = {}
    /\ older = [c \in Commands |-> {}]

Results(c) == entry[c].res
Open(c) == Results(c) # <<>> /\ Last(Results(c)) \in Uncertain

\* entryState.recompute
State(c) ==
    CASE entry[c].held # "entry" -> entry[c].held
      [] entry[c].held = "entry" /\ Open(c) -> "outcome_unknown"
      [] entry[c].held = "entry" /\ Results(c) # <<>> /\ ~Open(c) ->
             IF entry[c].acked >= Len(Results(c)) THEN "acked" ELSE "result_pending"
      [] entry[c].held = "entry" /\ Results(c) = <<>> ->
             IF entry[c].marked THEN "dispatched" ELSE "intent"

Admit(c) ==
    /\ entry' = [entry EXCEPT ![c] = Intent]
    /\ older' = [older EXCEPT ![c] = {e \in Commands \ {c} : entry[e].held = "entry"}]

MarkDispatched(c) ==
    State(c) = "intent" /\ entry' = [entry EXCEPT ![c].marked = TRUE]

\* RecordResult: a refusal follows an intent, a first outcome the marker, and a
\* later revision an open one.
Recordable(c, kind) ==
    CASE kind \in Rejections -> State(c) = "intent"
      [] kind \in Terminals \union {"unknown"} -> State(c) = "dispatched"
      [] OTHER -> State(c) = "outcome_unknown"

RecordResult(c, kind) ==
    Recordable(c, kind) /\ entry' = [entry EXCEPT ![c].res = Append(@, kind)]

Unacked(c) == entry[c].held = "entry" /\ entry[c].acked < Len(Results(c))

NextUnacked(c) == SubSeq(Results(c), 1, entry[c].acked + 1)

MutAck(c, rev) == entry' = [entry EXCEPT ![c].acked = @ + rev]

Ack(c, rev) ==
    entry' = [entry EXCEPT ![c].acked = IF @ < rev THEN rev ELSE @]

MutPrunable(c) == entry[c].acked > 0

Prunable(c) == State(c) = "acked"

\* Acknowledged commands shrink to tombstones, which are kept at least for the
\* authority of the command. "old" have passed their horizon.
Compacted(old) ==
    [c \in Commands |->
        IF ~Prunable(c) /\ entry[c].held # "tombstone" THEN entry[c]
        ELSE IF c \in old THEN NoEntry ELSE Tombstone]

OrderOfEntries ==
    older' = [c \in Commands |->
                 {d \in older[c] : entry'[c].held = "entry" /\ entry'[d].held = "entry"}]

Compact(old) == entry' = Compacted(old) /\ disk' = {} /\ OrderOfEntries

\* compactLocked fails after its rename: the store stays as it is, on the old file.
CompactDetached(old) == disk' = {Compacted(old)} /\ UNCHANGED <<entry, older>>

\* Opening the journal reads the log that is there.
Load(logs) == entry' \in logs /\ disk' = {} /\ OrderOfEntries

LogTypeOK(log) ==
    /\ log \in [Commands -> [held : {"no", "entry", "tombstone"}, marked : BOOLEAN,
                             res : Seq(Kinds), acked : Nat]]
    /\ \A c \in Commands : log[c].acked <= Len(log[c].res)

JournalTypeOK ==
    /\ LogTypeOK(entry) /\ \A log \in disk : LogTypeOK(log)
    /\ denied \in BOOLEAN /\ older \in [Commands -> SUBSET Commands]
=============================================================================
