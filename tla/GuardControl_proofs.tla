-------------------------- MODULE GuardControl_proofs --------------------------
(***************************************************************************)
(* Proofs about the Guard and its command hub, for any commands, any       *)
(* number of crashes and any number of faults of the journal.              *)
(***************************************************************************)
EXTENDS GuardControl, SequenceTheorems, TLAPS

\* The revisions t carries on from the revisions s.
Extends(s, t) == Len(s) <= Len(t) /\ \A i \in 1 .. Len(s) : s[i] = t[i]

\* A row has evidence only when its outcome is unknown or settled, and only a
\* command that began gets an unknown outcome; a mutation in flight holds the fence.
RowInv(c) ==
    /\ row[c].state \in {"none", "queued", "dispatched"} => row[c].revs = <<>>
    /\ row[c].state = "outcome_unknown" =>
          row[c].revs # <<>> /\ Last(row[c].revs) \in Uncertain /\ c \in begun
    /\ c \in Mutating /\ row[c].state \in InFlight => row[c].fence
    /\ row[c].state \in {"none", "queued"} => entry[c].held = "no" /\ c \notin begun

\* The record e of a command c: without the marker it has at most a refusal; with it
\* it starts with an outcome of the executor and goes on with observations and
\* dispositions.
Shape(c, e) ==
    e.held = "entry" =>
        /\ e.marked => c \in begun
        /\ e.res # <<>> /\ ~e.marked => Len(e.res) = 1 /\ e.res[1] \in Rejections
        /\ e.res # <<>> /\ e.marked => e.res[1] \in Terminals \union {"unknown"}
        /\ \A i \in 2 .. Len(e.res) : e.res[i] \in {"observed", "escalated", "operator"}

EntryInv(c) == Shape(c, entry[c])

\* While the hub waits for a command that began and was not lost, the journal holds
\* its marker and carries on from the hub's revisions; a refusal is acknowledged only
\* after the hub settled the row.
LinkInv(c) ==
    /\ c \in begun \ lost /\ row[c].state \in InFlight =>
          /\ entry[c].held = "entry" /\ entry[c].marked
          /\ Extends(row[c].revs, Results(c))
          /\ entry[c].acked <= Len(row[c].revs)
          /\ \A i \in 1 .. Len(Results(c)) : Results(c)[i] # "operator"
    /\ c \notin begun /\ entry[c].held = "entry" /\ entry[c].acked >= 1 =>
          row[c].state \in Settled

\* An effect runs only under the control loop, a mutation's only behind its marker,
\* and what is reported as a result of it has run.
EffectInv(c) ==
    /\ effect[c] = "running" => guard.pc = "running" /\ guard.cmd = c
    /\ c \in Mutating /\ c \notin begun => effect[c] = "no"
    /\ entry[c].held = "entry" /\ Results(c) # <<>> /\ Results(c)[1] \in Terminals =>
          effect[c] # "no"
    /\ row[c].state = "completed" => effect[c] # "no"

\* A record of the log that an open would find is in order by itself, and the open
\* file has carried on from it.
LogInv(c, e) ==
    /\ Shape(c, e)
    /\ row[c].state \in {"none", "queued"} => e.held = "no"
    /\ e.held = "entry" =>
          /\ entry[c].held = "entry" /\ e.acked <= entry[c].acked
          /\ Results(c) = <<>> => e.res = <<>>
          /\ c \notin begun /\ e.acked >= 1 => row[c].state \in Settled
          /\ e.res # <<>> /\ e.res[1] \in Terminals => effect[c] # "no"

DiskInv(c) == \A log \in disk : LogInv(c, log[c])

\* What the control loop read stays true until it uses it: a poll lists what the
\* journal marked or answered, and a direct report is about the commands it names.
ReadInv(c) ==
    /\ /\ guard.pc = "polling" /\ row[c].state = "dispatched" /\ c \notin Forgotten
       /\ entry[c].held = "entry" /\ (entry[c].marked \/ Results(c) # <<>>)
       => c \in guard.known
    /\ guard.pc = "report" /\ c \in guard.known =>
          \/ /\ guard.chain[1] \in Rejections
             /\ c \notin begun \/ c \in Forgotten \/ row[c].state \in Settled
          \/ /\ guard.chain[1] \in Terminals /\ effect[c] = "over"
             /\ c \in Mutating => c \in begun

\* A direct report is a first revision.
ChainInv == guard.pc = "report" => Len(guard.chain) = 1

\* The command in the loop's hands has a marker exactly when the loop put it; unless
\* it is forgotten it is still dispatched and began with that marker.
HandInv ==
    LET c == guard.cmd IN
    /\ guard.pc \in {"offered", "admitted", "marked", "running"} =>
          /\ c \in Commands /\ row[c].state \notin {"none", "queued"}
          /\ c \notin Forgotten => row[c].state = "dispatched"
    /\ guard.pc = "offered" /\ c \notin Forgotten =>
          c \notin begun /\ (entry[c].held = "entry" => Results(c) = <<>>)
    /\ guard.pc = "admitted" =>
          /\ entry[c].held = "entry" /\ Results(c) = <<>> /\ ~entry[c].marked
          /\ c \notin Forgotten => c \notin begun
    /\ guard.pc \in {"marked", "running"} =>
          c \in begun /\ entry[c].held = "entry" /\ entry[c].marked /\ Results(c) = <<>>
    /\ guard.pc = "marked" /\ c \in Mutating \ Forgotten => effect[c] = "no"
    /\ guard.pc = "running" => effect[c] = "running"

\* An answered report is about a revision the hub has, or a command it settled.
PostInv ==
    post # NoPost =>
        LET c == post.cmd IN
        /\ c \in Commands
        /\ c \in begun \ lost /\ row[c].state \in InFlight => post.rev <= Len(row[c].revs)
        /\ c \notin begun => row[c].state \in Settled

\* The hub's fence lets one mutation be in flight.
Exclusive ==
    \A c, d \in Mutating :
        row[c].state \in InFlight /\ row[d].state \in InFlight => c = d

CommandInv(c) ==
    RowInv(c) /\ EntryInv(c) /\ LinkInv(c) /\ EffectInv(c) /\ DiskInv(c) /\ ReadInv(c)

Inv ==
    /\ TypeOK /\ \A c \in Commands : CommandInv(c)
    /\ ChainInv /\ HandInv /\ PostInv /\ Exclusive

---------------------------------------------------------------------------
\* Lemmas

\* What each state recompute gives an entry says of its record.
LEMMA StateFacts ==
    ASSUME TypeOK, NEW c \in Commands
    PROVE  /\ State(c) = "no" <=> entry[c].held = "no"
           /\ State(c) = "tombstone" <=> entry[c].held = "tombstone"
           /\ State(c) = "intent" <=>
                 entry[c].held = "entry" /\ Results(c) = <<>> /\ ~entry[c].marked
           /\ State(c) = "dispatched" <=>
                 entry[c].held = "entry" /\ Results(c) = <<>> /\ entry[c].marked
           /\ State(c) = "outcome_unknown" <=> entry[c].held = "entry" /\ Open(c)
           /\ State(c) = "result_pending" <=>
                 /\ entry[c].held = "entry" /\ Results(c) # <<>> /\ ~Open(c)
                 /\ entry[c].acked < Len(Results(c))
           /\ State(c) = "acked" <=>
                 /\ entry[c].held = "entry" /\ Results(c) # <<>> /\ ~Open(c)
                 /\ entry[c].acked >= Len(Results(c))
<1>1. /\ entry[c].held \in {"no", "entry", "tombstone"} /\ entry[c].marked \in BOOLEAN
      /\ entry[c].acked \in Nat /\ Len(Results(c)) \in Nat
  BY DEF TypeOK, JournalTypeOK, LogTypeOK, Results
<1>2. Open(c) => Results(c) # <<>>
  BY DEF Open
<1>3. CASE entry[c].held # "entry"
  BY <1>1, <1>2, <1>3 DEF State
<1>4. CASE entry[c].held = "entry" /\ Open(c)
  BY <1>1, <1>2, <1>4 DEF State
<1>5. CASE entry[c].held = "entry" /\ Results(c) # <<>> /\ ~Open(c)
  BY <1>1, <1>2, <1>5 DEF State
<1>6. CASE entry[c].held = "entry" /\ Results(c) = <<>>
  BY <1>1, <1>2, <1>6 DEF State
<1> QED BY <1>1, <1>3, <1>4, <1>5, <1>6

LoopType ==
    [pc : {"loop", "polling", "noticed", "offered", "admitted", "marked",
           "running", "report", "down"},
     cmd : Commands \union {NoCommand}, known : SUBSET Commands, chain : Seq(Kinds)]

\* The fields of the control loop's records.
LEMMA LoopRecords ==
    /\ /\ Idle \in LoopType /\ Idle.pc = "loop"
       /\ [Idle EXCEPT !.pc = "down"] \in LoopType
       /\ [Idle EXCEPT !.pc = "down"].pc = "down"
    /\ \A pc \in {"offered", "admitted", "marked", "running"}, c \in Commands :
          At(pc, c) \in LoopType /\ At(pc, c).pc = pc /\ At(pc, c).cmd = c
    /\ \A cs \in SUBSET Commands, kind \in Kinds :
          LET r == Report(cs, <<kind>>) IN
          /\ r \in LoopType /\ r.pc = "report" /\ r.known = cs
          /\ Len(r.chain) = 1 /\ r.chain[1] = kind
<1>1. /\ <<>> \in Seq(Kinds)
      /\ \A kind \in Kinds : <<kind>> \in Seq(Kinds) /\ Len(<<kind>>) = 1 /\ <<kind>>[1] = kind
  OBVIOUS
<1>2. /\ Idle \in LoopType /\ Idle.pc = "loop"
      /\ [Idle EXCEPT !.pc = "down"] \in LoopType
      /\ [Idle EXCEPT !.pc = "down"].pc = "down"
  BY <1>1 DEF Idle, LoopType
<1>3. ASSUME NEW pc \in {"offered", "admitted", "marked", "running"}, NEW c \in Commands
      PROVE  At(pc, c) \in LoopType /\ At(pc, c).pc = pc /\ At(pc, c).cmd = c
  BY <1>1 DEF At, Idle, LoopType
<1>4. ASSUME NEW cs \in SUBSET Commands, NEW kind \in Kinds
      PROVE  LET r == Report(cs, <<kind>>) IN
             /\ r \in LoopType /\ r.pc = "report" /\ r.known = cs
             /\ Len(r.chain) = 1 /\ r.chain[1] = kind
  BY <1>1 DEF Report, Idle, LoopType
<1> QED BY <1>2, <1>3, <1>4

\* A report of one revision is not the empty sequence and ends with its first.
LEMMA OneRevision ==
    ASSUME NEW s, Len(s) = 1
    PROVE  s # <<>> /\ Last(s) = s[1]
<1>1. Len(<<>>) = 0
  OBVIOUS
<1>2. s # <<>>
  BY <1>1
<1> QED BY <1>2 DEF Last

\* What a command's row, entry and marker say is about that command alone.
LEMMA UntouchedKeeps ==
    ASSUME NEW d \in Commands, CommandInv(d), row'[d] = row[d], entry'[d] = entry[d],
           (d \in begun') <=> (d \in begun), lost' = lost
    PROVE  RowInv(d)' /\ EntryInv(d)' /\ LinkInv(d)'
BY DEF CommandInv, RowInv, EntryInv, Shape, LinkInv, Results

\* A step after which the open file still carries on from the log of a failed
\* compaction.
LEMMA DiskKept ==
    ASSUME TypeOK, NEW d \in Commands, CommandInv(d), disk' = disk, begun \subseteq begun',
           effect[d] # "no" => effect'[d] # "no",
           row[d].state \in Settled => row'[d].state \in Settled,
           row'[d].state \in {"none", "queued"} => row[d].state \in {"none", "queued"},
           entry[d].held = "entry" =>
              /\ entry'[d].held = "entry" /\ entry'[d].acked \in Nat
              /\ entry[d].acked <= entry'[d].acked
              /\ entry'[d].res = <<>> => entry[d].res = <<>>
    PROVE  DiskInv(d)'
<1> SUFFICES ASSUME NEW log \in disk PROVE LogInv(d, log[d])'
  BY DEF DiskInv
<1> DEFINE e == log[d]
<1>1. LogInv(d, e)
  BY DEF CommandInv, DiskInv
<1>2. e.acked \in Nat /\ entry[d].acked \in Nat
  BY DEF TypeOK, JournalTypeOK, LogTypeOK
<1> HIDE DEF e
<1>3. Shape(d, e)'
  BY <1>1 DEF LogInv, Shape
<1>4. row'[d].state \in {"none", "queued"} => e.held = "no"
  BY <1>1 DEF LogInv
<1>5. ASSUME e.held = "entry"
      PROVE  /\ entry'[d].held = "entry" /\ e.acked <= entry'[d].acked
             /\ entry'[d].res = <<>> => e.res = <<>>
             /\ d \notin begun' /\ e.acked >= 1 => row'[d].state \in Settled
             /\ e.res # <<>> /\ e.res[1] \in Terminals => effect'[d] # "no"
  <2>1. entry[d].held = "entry" /\ e.acked <= entry[d].acked
    BY <1>1, <1>5 DEF LogInv
  <2>2. e.acked <= entry'[d].acked
    BY <1>2, <2>1
  <2> QED BY <1>1, <1>5, <2>1, <2>2 DEF LogInv, Results
<1> QED BY <1>3, <1>4, <1>5 DEF LogInv, Results, e

LEMMA DiskUntouched ==
    ASSUME TypeOK, NEW d \in Commands, CommandInv(d), disk' = disk, begun \subseteq begun',
           row'[d] = row[d], entry'[d] = entry[d], effect[d] # "no" => effect'[d] # "no"
    PROVE  DiskInv(d)'
<1>1. entry[d].acked \in Nat /\ entry[d].acked <= entry[d].acked
  BY DEF TypeOK, JournalTypeOK, LogTypeOK
<1> QED BY <1>1, DiskKept

\* The initial state satisfies the invariant.
LEMMA InitInv == Init => Inv
<1> SUFFICES ASSUME Init PROVE Inv
  OBVIOUS
<1> USE GuardAssumption, MutatingAssumption
<1>1. TypeOK
  <2>1. <<>> \in Seq(Kinds) /\ Len(<<>>) = 0
    OBVIOUS
  <2>2. HubTypeOK
    BY <2>1 DEF Init, HubInit, HubTypeOK, RowStates
  <2>3. NoEntry \in [held : {"no", "entry", "tombstone"}, marked : BOOLEAN,
                     res : Seq(Kinds), acked : Nat]
    BY <2>1 DEF NoEntry
  <2>4. \A c \in Commands : entry[c] = NoEntry
    BY DEF Init, JournalInit
  <2>5. JournalTypeOK
    <3>1. \A c \in Commands : entry[c].acked <= Len(entry[c].res)
      BY <2>1, <2>4 DEF NoEntry
    <3>2. LogTypeOK(entry)
      BY <2>3, <3>1 DEF Init, JournalInit, LogTypeOK
    <3> QED BY <3>2 DEF Init, JournalInit, JournalTypeOK
  <2>6. post \in [cmd : Commands \union {NoCommand}, rev : Nat]
    BY DEF Init, NoPost
  <2>7. guard \in LoopType
    BY LoopRecords DEF Init
  <2>8. effect \in [Commands -> {"no", "running", "over"}]
    BY DEF Init
  <2>9. /\ recovered \in BOOLEAN /\ begun \subseteq Commands
        /\ lost \subseteq begun /\ unlisted \subseteq Commands
    BY DEF Init
  <2>10. crashes \in 0 .. MaxCrashes /\ faults \in 0 .. MaxFaults
    BY DEF Init
  <2> QED BY <2>2, <2>5, <2>6, <2>7, <2>8, <2>9, <2>10 DEF TypeOK, LoopType
<1>2. \A c \in Commands : CommandInv(c)
  <2>1. \A c \in Commands : RowInv(c) /\ EntryInv(c) /\ LinkInv(c)
    BY DEF Init, HubInit, JournalInit, RowInv, EntryInv, Shape, LinkInv, NoEntry, InFlight,
       Settled, Results
  <2>2. \A c \in Commands : EffectInv(c) /\ DiskInv(c) /\ ReadInv(c)
    BY DEF Init, HubInit, JournalInit, EffectInv, DiskInv, ReadInv, Idle, NoEntry, Results
  <2> QED BY <2>1, <2>2 DEF CommandInv
<1>3. ChainInv /\ HandInv /\ PostInv /\ Exclusive
  BY DEF Init, HubInit, ChainInv, HandInv, PostInv, Exclusive, Idle, NoPost, InFlight
<1> QED BY <1>1, <1>2, <1>3 DEF Inv

\* What an open finds is in order: the records of the open file, or those of the log
\* in its place, and a command of which it has not what there was is lost.
LEMMA LoadFacts ==
    ASSUME Inv, NEW logs \in SUBSET ({entry} \union disk), Load(logs),
           lost' = lost \union Missing(entry'), row' = row, begun' = begun,
           \A c \in Commands : effect[c] # "no" => effect'[c] # "no"
    PROVE  /\ LogTypeOK(entry') /\ disk' = {} /\ older' \in [Commands -> SUBSET Commands]
           /\ lost' \subseteq begun
           /\ \A c \in Commands :
                 /\ RowInv(c)' /\ EntryInv(c)' /\ LinkInv(c)' /\ DiskInv(c)'
                 /\ entry'[c].held = "entry" =>
                       /\ entry[c].held = "entry"
                       /\ Results(c) = <<>> => entry'[c].res = <<>>
                       /\ entry'[c].res # <<>> /\ entry'[c].res[1] \in Terminals =>
                             effect'[c] # "no"
<1>1. TypeOK /\ \A c \in Commands : CommandInv(c)
  BY DEF Inv
<1>2. entry' \in {entry} \union disk /\ disk' = {}
  BY DEF Load
<1>3. LogTypeOK(entry) /\ LogTypeOK(entry')
  BY <1>1, <1>2 DEF TypeOK, JournalTypeOK
<1>4. older' \in [Commands -> SUBSET Commands] /\ lost' \subseteq begun
  BY <1>1 DEF Load, OrderOfEntries, Missing, TypeOK, JournalTypeOK
<1>5. ASSUME NEW c \in Commands
      PROVE  /\ Shape(c, entry'[c])
             /\ row[c].state \in {"none", "queued"} => entry'[c].held = "no"
             /\ entry'[c].held = "entry" =>
                   /\ entry[c].held = "entry" /\ entry'[c].acked <= entry[c].acked
                   /\ Results(c) = <<>> => entry'[c].res = <<>>
                   /\ c \notin begun /\ entry'[c].acked >= 1 => row[c].state \in Settled
                   /\ entry'[c].res # <<>> /\ entry'[c].res[1] \in Terminals =>
                         effect[c] # "no"
  <2>1. CASE entry' = entry
    <3>1. entry[c].acked \in Nat
      BY <1>3 DEF LogTypeOK
    <3> QED BY <1>1, <2>1, <3>1
         DEF CommandInv, RowInv, EntryInv, LinkInv, EffectInv, Results
  <2>2. CASE entry' \in disk
    <3>1. LogInv(c, entry'[c])
      BY <1>1, <2>2 DEF CommandInv, DiskInv
    <3> QED BY <3>1 DEF LogInv
  <2> QED BY <1>2, <2>1, <2>2
<1>6. ASSUME NEW c \in Commands PROVE LinkInv(c)'
  <2>1. ASSUME c \in begun \ lost', row[c].state \in InFlight
        PROVE  /\ entry'[c].held = "entry" /\ entry'[c].marked
               /\ Extends(row[c].revs, entry'[c].res)
               /\ entry'[c].acked <= Len(row[c].revs)
               /\ \A i \in 1 .. Len(entry'[c].res) : entry'[c].res[i] # "operator"
    <3>1. c \notin lost /\ c \notin Missing(entry')
      BY <2>1
    <3>2. /\ entry'[c].held = entry[c].held /\ entry'[c].marked = entry[c].marked
          /\ entry'[c].res = entry[c].res
      BY <2>1, <3>1 DEF Missing
    <3>3. /\ entry[c].held = "entry" /\ entry[c].marked
          /\ Extends(row[c].revs, entry[c].res) /\ entry[c].acked <= Len(row[c].revs)
          /\ \A i \in 1 .. Len(entry[c].res) : entry[c].res[i] # "operator"
      BY <1>1, <1>6, <2>1, <3>1 DEF CommandInv, LinkInv, Results
    <3>4. entry'[c].acked <= entry[c].acked
      BY <1>5, <3>2, <3>3
    <3>5. entry'[c].acked \in Nat /\ entry[c].acked \in Nat /\ Len(row[c].revs) \in Nat
      BY <1>1, <1>3 DEF LogTypeOK, TypeOK, HubTypeOK
    <3>6. entry'[c].acked <= Len(row[c].revs)
      BY <3>3, <3>4, <3>5
    <3> QED BY <3>2, <3>3, <3>6
  <2> QED BY <1>5, <2>1 DEF LinkInv, Results
<1>7. ASSUME NEW c \in Commands PROVE RowInv(c)' /\ EntryInv(c)' /\ DiskInv(c)'
  BY <1>1, <1>2, <1>5, <1>7 DEF CommandInv, RowInv, EntryInv, Shape, DiskInv
<1> QED BY <1>2, <1>3, <1>4, <1>5, <1>6, <1>7

\* Reopening a denied journal keeps the invariant.
LEMMA ReopenKeeps == ASSUME Inv, Reopen PROVE Inv'
<1> USE GuardAssumption, MutatingAssumption DEF Inv
<1> DEFINE logs == IF disk = {} THEN {entry} ELSE disk
<1>a. /\ guard.pc \in {"loop", "offered", "noticed"} /\ Load(logs)
      /\ logs \subseteq {entry} \union disk /\ lost' = lost \union Missing(entry')
      /\ denied' \in BOOLEAN /\ recovered' \in BOOLEAN
      /\ UNCHANGED <<row, live, guard, post, begun, effect, unlisted, crashes, faults>>
  BY DEF Reopen, hub, budget
<1> HIDE DEF logs
<1>b. /\ LogTypeOK(entry') /\ disk' = {} /\ older' \in [Commands -> SUBSET Commands]
      /\ lost' \subseteq begun
      /\ \A c \in Commands :
            /\ RowInv(c)' /\ EntryInv(c)' /\ LinkInv(c)' /\ DiskInv(c)'
            /\ entry'[c].held = "entry" =>
                  /\ entry[c].held = "entry"
                  /\ Results(c) = <<>> => entry'[c].res = <<>>
                  /\ entry'[c].res # <<>> /\ entry'[c].res[1] \in Terminals =>
                        effect'[c] # "no"
  BY <1>a, LoadFacts
<1>1. TypeOK'
  BY <1>a, <1>b DEF TypeOK, HubTypeOK, JournalTypeOK
<1>2. ASSUME NEW c \in Commands PROVE CommandInv(c)'
  <2>1. EffectInv(c)'
    BY <1>2, <1>a, <1>b DEF CommandInv, EffectInv, Results
  <2>2. ReadInv(c)'
    BY <1>a DEF ReadInv
  <2> QED BY <1>b, <2>1, <2>2 DEF CommandInv
<1>3. ChainInv' /\ PostInv' /\ Exclusive'
  BY <1>a DEF ChainInv, PostInv, Exclusive
<1>4. HandInv'
  BY <1>a, <1>b DEF HandInv, Results, Forgotten
<1> QED BY <1>1, <1>2, <1>3, <1>4

\* The first transaction of a poll keeps the invariant.
LEMMA PollKeeps == ASSUME Inv, Poll PROVE Inv'
<1> USE GuardAssumption, MutatingAssumption DEF Inv
<1> DEFINE notices == OperatorResolutions(KnownCommands)
<1>a. notices \subseteq Commands /\ KnownCommands \subseteq Commands
  BY DEF OperatorResolutions, KnownCommands, Listable
<1>b. /\ guard' \in LoopType /\ guard'.pc \in {"polling", "noticed"}
      /\ guard'.pc = "polling" => guard'.known = KnownCommands
  <2>1. <<>> \in Seq(Kinds)
    OBVIOUS
  <2> DEFINE p == IF notices = {} THEN "polling" ELSE "noticed"
             k == IF notices = {} THEN KnownCommands ELSE notices
  <2>2. guard' = [Idle EXCEPT !.pc = p, !.known = k]
    BY DEF Poll
  <2>3. p \in {"polling", "noticed"} /\ k \in SUBSET Commands
    BY <1>a
  <2>4. p = "polling" => k = KnownCommands
    OBVIOUS
  <2> HIDE DEF p, k
  <2>5. guard' \in LoopType /\ guard'.pc = p /\ guard'.known = k
    BY <2>1, <2>2, <2>3 DEF Idle, LoopType
  <2> QED BY <2>3, <2>4, <2>5
<1>c. /\ guard.pc = "loop"
      /\ unlisted' = unlisted \union {c \in Overflow : row[c].state = "dispatched"}
      /\ UNCHANGED <<row, live, entry, denied, disk, older, recovered, post, begun, effect,
                     lost, crashes, faults>>
  BY DEF Poll, hub, budget
<1>d. Overflow \subseteq Commands
  BY DEF Overflow, Listable
<1>1. TypeOK'
  BY <1>b, <1>c, <1>d DEF TypeOK, LoopType, HubTypeOK, JournalTypeOK, LogTypeOK
<1>2. ASSUME NEW c \in Commands PROVE CommandInv(c)'
  <2>1. RowInv(c)' /\ EntryInv(c)' /\ LinkInv(c)'
    BY <1>2, <1>c, UntouchedKeeps
  <2>2. EffectInv(c)' /\ DiskInv(c)'
    BY <1>2, <1>c DEF CommandInv, EffectInv, DiskInv, LogInv, Shape, Results
  <2>3. row[c].state = "dispatched" /\ c \notin lost /\ entry[c].held = "entry"
          /\ (entry[c].marked \/ Results(c) # <<>>) => c \in Listable
    <3>1. SUFFICES ASSUME row[c].state = "dispatched", c \notin lost,
                          entry[c].held = "entry",
                          Results(c) # <<>>, ~Open(c), entry[c].acked >= Len(Results(c))
                   PROVE  FALSE
      BY StateFacts DEF Listable, TypeOK, JournalTypeOK, LogTypeOK, Results
    <3>2. entry[c].acked >= 1
      BY <3>1 DEF TypeOK, JournalTypeOK, LogTypeOK, Results
    <3>3. row[c].revs = <<>> /\ Len(<<>>) = 0
      BY <3>1 DEF CommandInv, RowInv
    <3>4. LinkInv(c)
      BY DEF CommandInv
    <3>5. entry[c].acked \in Nat
      BY DEF TypeOK, JournalTypeOK, LogTypeOK
    <3>6. CASE c \in begun
      BY <3>1, <3>2, <3>3, <3>4, <3>5, <3>6 DEF LinkInv, InFlight
    <3>7. CASE c \notin begun
      BY <3>1, <3>2, <3>4, <3>5, <3>7 DEF LinkInv, Settled
    <3> QED BY <3>6, <3>7
  <2>4. ReadInv(c)'
    BY <1>b, <1>c, <2>3 DEF ReadInv, Results, Forgotten, KnownCommands
  <2> QED BY <2>1, <2>2, <2>4 DEF CommandInv
<1>3. ChainInv' /\ HandInv' /\ PostInv' /\ Exclusive'
  BY <1>b, <1>c DEF ChainInv, HandInv, PostInv, Exclusive
<1> QED BY <1>1, <1>2, <1>3

\* The end of a poll keeps the invariant.
LEMMA EndPollKeeps == ASSUME Inv, EndPoll PROVE Inv'
<1> USE GuardAssumption, MutatingAssumption DEF Inv
<1>1. TypeOK'
  BY LoopRecords DEF EndPoll, hub, journal, files, budget, TypeOK, LoopType,
       HubTypeOK, JournalTypeOK, LogTypeOK, Results
<1>2. ASSUME NEW c \in Commands PROVE CommandInv(c)'
  BY <1>2, LoopRecords DEF EndPoll, hub, journal, files, budget, CommandInv, RowInv,
       EntryInv, Shape, LinkInv, EffectInv, ReadInv, Results, Extends,
       InFlight, Settled, Forgotten, DiskInv, LogInv
<1>3. ChainInv' /\ HandInv' /\ PostInv' /\ Exclusive'
  BY LoopRecords DEF EndPoll, hub, journal, files, budget, ChainInv, HandInv, PostInv,
       Exclusive, Results, Forgotten
<1> QED BY <1>1, <1>2, <1>3

\* The end of the notices keeps the invariant.
LEMMA ResolutionsAppliedKeeps == ASSUME Inv, ResolutionsApplied PROVE Inv'
<1> USE GuardAssumption, MutatingAssumption DEF Inv
<1>1. TypeOK'
  BY LoopRecords DEF ResolutionsApplied, hub, journal, files, budget, TypeOK,
       LoopType, HubTypeOK, JournalTypeOK, LogTypeOK, Results
<1>2. ASSUME NEW c \in Commands PROVE CommandInv(c)'
  BY <1>2, LoopRecords DEF ResolutionsApplied, hub, journal, files, budget, CommandInv,
       RowInv, EntryInv, Shape, LinkInv, EffectInv, ReadInv, Results,
       Extends, InFlight, Settled, Forgotten, DiskInv, LogInv
<1>3. ChainInv' /\ HandInv' /\ PostInv' /\ Exclusive'
  BY LoopRecords DEF ResolutionsApplied, hub, journal, files, budget, ChainInv,
       HandInv, PostInv, Exclusive, Results, Forgotten
<1> QED BY <1>1, <1>2, <1>3

\* A restart keeps the invariant.
LEMMA RestartKeeps == ASSUME Inv, Restart PROVE Inv'
<1> USE GuardAssumption, MutatingAssumption DEF Inv
<1>1. TypeOK'
  BY LoopRecords DEF Restart, hub, journal, files, budget, TypeOK, LoopType,
       HubTypeOK, JournalTypeOK, LogTypeOK, Results
<1>2. ASSUME NEW c \in Commands PROVE CommandInv(c)'
  BY <1>2, LoopRecords DEF Restart, hub, journal, files, budget, CommandInv, RowInv,
       EntryInv, Shape, LinkInv, EffectInv, ReadInv, Results, Extends,
       InFlight, Settled, Forgotten, DiskInv, LogInv
<1>3. ChainInv' /\ HandInv' /\ PostInv' /\ Exclusive'
  BY LoopRecords DEF Restart, hub, journal, files, budget, ChainInv, HandInv, PostInv,
       Exclusive, Results, Forgotten
<1> QED BY <1>1, <1>2, <1>3

\* A crash keeps the invariant.
LEMMA CrashKeeps == ASSUME Inv, Crash PROVE Inv'
<1> USE GuardAssumption, MutatingAssumption DEF Inv
<1>a. /\ Load({entry} \union disk) /\ lost' = lost \union Missing(entry')
      /\ denied' \in BOOLEAN /\ recovered' \in BOOLEAN /\ crashes' \in 0 .. MaxCrashes
      /\ guard' \in LoopType /\ guard'.pc = "down" /\ post' = NoPost
      /\ UNCHANGED <<row, live, begun, unlisted, faults>>
  <2>1. guard' \in LoopType /\ guard'.pc = "down"
    BY LoopRecords DEF Crash
  <2>2. crashes' \in 0 .. MaxCrashes
    BY DEF Crash, TypeOK
  <2> QED BY <2>1, <2>2 DEF Crash, hub
<1>b. /\ effect' \in [Commands -> {"no", "running", "over"}]
      /\ \A c \in Commands :
            effect'[c] # "running" /\ (effect[c] = "no" <=> effect'[c] = "no")
  BY DEF Crash, TypeOK
<1>c. /\ LogTypeOK(entry') /\ disk' = {} /\ older' \in [Commands -> SUBSET Commands]
      /\ lost' \subseteq begun
      /\ \A c \in Commands :
            /\ RowInv(c)' /\ EntryInv(c)' /\ LinkInv(c)' /\ DiskInv(c)'
            /\ (/\ entry'[c].held = "entry" /\ entry'[c].res # <<>>
                /\ entry'[c].res[1] \in Terminals) => effect'[c] # "no"
  BY <1>a, <1>b, LoadFacts
<1>1. TypeOK'
  <2>1. post' \in [cmd : Commands \union {NoCommand}, rev : Nat]
    BY <1>a DEF NoPost
  <2> QED BY <1>a, <1>b, <1>c, <2>1 DEF TypeOK, LoopType, HubTypeOK, JournalTypeOK
<1>2. ASSUME NEW c \in Commands PROVE CommandInv(c)'
  <2>1. EffectInv(c)'
    BY <1>2, <1>a, <1>b, <1>c DEF CommandInv, EffectInv, Results
  <2>2. ReadInv(c)'
    BY <1>a DEF ReadInv
  <2> QED BY <1>c, <2>1, <2>2 DEF CommandInv
<1>3. ChainInv' /\ HandInv' /\ PostInv' /\ Exclusive'
  BY <1>a DEF ChainInv, HandInv, PostInv, Exclusive
<1> QED BY <1>1, <1>2, <1>3

\* Starting the executor keeps the invariant.
LEMMA StartEffectKeeps == ASSUME Inv, StartEffect PROVE Inv'
<1> USE GuardAssumption, MutatingAssumption DEF Inv
<1> DEFINE d == guard.cmd
<1>a. /\ guard.pc = "marked" /\ d \in Commands
      /\ guard' \in LoopType /\ guard'.pc = "running" /\ guard'.cmd = d
      /\ effect'[d] = "running" /\ \A c \in Commands \ {d} : effect'[c] = effect[c]
      /\ effect' \in [Commands -> {"no", "running", "over"}]
  BY LoopRecords DEF StartEffect, HandInv, TypeOK, Forgotten
<1>1. TypeOK'
  BY <1>a DEF StartEffect, hub, journal, files, TypeOK, LoopType, HubTypeOK,
       JournalTypeOK, LogTypeOK, Results
<1>2. ASSUME NEW c \in Commands PROVE CommandInv(c)'
  BY <1>2, <1>a DEF StartEffect, hub, journal, files, HandInv, CommandInv, RowInv,
       EntryInv, Shape, LinkInv, EffectInv, ReadInv, Results, Extends,
       InFlight, Settled, Forgotten, DiskInv, LogInv
<1>3. ChainInv' /\ HandInv' /\ PostInv' /\ Exclusive'
  BY <1>a DEF StartEffect, hub, journal, files, ChainInv, HandInv, PostInv,
       Exclusive, Results, Forgotten
<1> QED BY <1>1, <1>2, <1>3

---------------------------------------------------------------------------
\* Steps of the journal

EntryType ==
    [held : {"no", "entry", "tombstone"}, marked : BOOLEAN, res : Seq(Kinds), acked : Nat]

\* The step leaves the entry of d or records one more revision in it.
Recorded(d, kind) == Recordable(d, kind) /\ entry'[d] = [entry[d] EXCEPT !.res = Append(@, kind)]

\* A recorded revision follows the earlier ones and changes nothing else.
LEMMA RecordedFacts ==
    ASSUME TypeOK, NEW d \in Commands, NEW kind \in Kinds, Recorded(d, kind)
    PROVE  /\ entry'[d] \in EntryType
           /\ entry'[d].held = entry[d].held /\ entry'[d].marked = entry[d].marked
           /\ entry'[d].acked = entry[d].acked
           /\ entry'[d].acked <= Len(entry'[d].res)
           /\ entry'[d].res # <<>> /\ Len(entry'[d].res) = Len(entry[d].res) + 1
           /\ \A i \in 1 .. Len(entry[d].res) : entry'[d].res[i] = entry[d].res[i]
           /\ entry'[d].res[Len(entry[d].res) + 1] = kind
           /\ entry[d].held = "entry"
<1>1. entry[d] \in EntryType /\ entry[d].acked <= Len(entry[d].res)
  BY DEF TypeOK, JournalTypeOK, LogTypeOK, EntryType, Results
<1>2. entry'[d].res = Append(entry[d].res, kind)
  BY <1>1 DEF Recorded, EntryType
<1>3. /\ Append(entry[d].res, kind) \in Seq(Kinds) /\ Append(entry[d].res, kind) # <<>>
      /\ Len(Append(entry[d].res, kind)) = Len(entry[d].res) + 1
      /\ \A i \in 1 .. Len(entry[d].res) : Append(entry[d].res, kind)[i] = entry[d].res[i]
      /\ Append(entry[d].res, kind)[Len(entry[d].res) + 1] = kind
  BY <1>1, AppendProperties DEF EntryType
<1>4. /\ entry'[d].held = entry[d].held /\ entry'[d].marked = entry[d].marked
      /\ entry'[d].acked = entry[d].acked /\ entry'[d] \in EntryType
  BY <1>1, <1>3 DEF Recorded, EntryType
<1>5. entry'[d].acked <= Len(entry'[d].res)
  BY <1>1, <1>2, <1>3, <1>4 DEF EntryType
<1>6. entry[d].held = "entry"
  BY StateFacts DEF Recorded, Recordable
<1> QED BY <1>2, <1>3, <1>4, <1>5, <1>6

\* A revision that is recorded where RecordResult allows it keeps what the journal
\* and the hub know of the command.
LEMMA RecordedKeeps ==
    ASSUME Inv, NEW d \in Commands, NEW kind \in Kinds \ {"operator"}, Recorded(d, kind),
           row' = row, begun' = begun, lost' = lost
    PROVE  RowInv(d)' /\ EntryInv(d)' /\ LinkInv(d)'
<1>1. TypeOK /\ RowInv(d) /\ EntryInv(d) /\ LinkInv(d)
  BY DEF Inv, CommandInv
<1> DEFINE s == entry[d].res
           t == entry'[d].res
<1>2. /\ entry'[d] \in EntryType
      /\ entry'[d].held = entry[d].held /\ entry'[d].marked = entry[d].marked
      /\ entry'[d].acked = entry[d].acked
      /\ t # <<>> /\ Len(t) = Len(s) + 1
      /\ \A i \in 1 .. Len(s) : t[i] = s[i]
      /\ t[Len(s) + 1] = kind /\ entry[d].held = "entry"
  BY <1>1, RecordedFacts
<1>3. /\ s \in Seq(Kinds) /\ Len(s) \in Nat /\ (s = <<>> => Len(s) = 0)
      /\ s # <<>> => Len(s) >= 1
  BY <1>1 DEF TypeOK, JournalTypeOK, LogTypeOK
<1>4. RowInv(d)'
  BY <1>1, <1>2 DEF RowInv
<1>5. EntryInv(d)'
  <2>1. CASE kind \in Rejections
    <3>1. s = <<>> /\ ~entry[d].marked
      <4>1. State(d) = "intent"
        BY <2>1 DEF Recorded, Recordable, Rejections, Terminals
      <4> QED BY <1>1, <4>1, StateFacts DEF Results
    <3> QED BY <1>1, <1>2, <1>3, <2>1, <3>1 DEF EntryInv, Shape, Results
  <2>2. CASE kind \in Terminals \union {"unknown"}
    <3>1. s = <<>> /\ entry[d].marked
      BY <1>1, <2>2, StateFacts DEF Recorded, Recordable, Results, Rejections, Terminals
    <3> QED BY <1>1, <1>2, <1>3, <2>2, <3>1 DEF EntryInv, Shape, Results
  <2>3. CASE kind \in {"escalated", "observed"}
    <3>1. s # <<>> /\ Last(s) \in Uncertain
      BY <1>1, <2>3, StateFacts
         DEF Recorded, Recordable, Results, Rejections, Terminals, Open
    <3>2. entry[d].marked
      <4>1. SUFFICES ASSUME ~entry[d].marked PROVE FALSE
        OBVIOUS
      <4>2. Len(s) = 1 /\ s[1] \in Rejections
        BY <1>1, <1>2, <3>1, <4>1 DEF EntryInv, Shape, Results
      <4> QED BY <3>1, <4>2 DEF Last, Uncertain, Rejections
    <3>3. t[1] = s[1]
      BY <1>2, <1>3, <3>1
    <3>4. ASSUME NEW i \in 2 .. Len(t) PROVE t[i] \in {"observed", "escalated", "operator"}
      <4>1. i = Len(s) + 1 \/ i \in 2 .. Len(s)
        BY <1>2, <1>3
      <4>2. i \in 2 .. Len(s) => t[i] = s[i]
        BY <1>2, <1>3
      <4> QED BY <1>1, <1>2, <2>3, <4>1, <4>2 DEF EntryInv, Shape, Results
    <3> QED BY <1>1, <1>2, <3>1, <3>2, <3>3, <3>4 DEF EntryInv, Shape, Results
  <2> QED BY <2>1, <2>2, <2>3 DEF Kinds, Resolutions, Uncertain
<1>6. LinkInv(d)'
  <2>1. \A i \in 1 .. Len(t) : t[i] = IF i = Len(s) + 1 THEN kind ELSE s[i]
    BY <1>2, <1>3, SMTT(30)
  <2>2. row[d].revs \in Seq(Kinds) /\ Len(row[d].revs) \in Nat
    BY <1>1 DEF TypeOK, HubTypeOK
  <2>3. Extends(row[d].revs, s) => Extends(row[d].revs, t)
    <3>1. ASSUME Extends(row[d].revs, s), NEW i \in 1 .. Len(row[d].revs)
          PROVE  row[d].revs[i] = t[i]
      <4>1. i \in 1 .. Len(s)
        BY <1>3, <2>2, <3>1 DEF Extends
      <4> QED BY <1>2, <3>1, <4>1 DEF Extends
    <3>2. Extends(row[d].revs, s) => Len(row[d].revs) <= Len(t)
      BY <1>2, <1>3, <2>2 DEF Extends
    <3> QED BY <3>1, <3>2 DEF Extends
  <2>4. ASSUME d \in begun \ lost, row[d].state \in InFlight
        PROVE  /\ entry'[d].held = "entry" /\ entry'[d].marked /\ Extends(row[d].revs, t)
               /\ entry'[d].acked <= Len(row[d].revs)
               /\ \A i \in 1 .. Len(t) : t[i] # "operator"
    <3>1. /\ entry[d].marked /\ Extends(row[d].revs, s) /\ entry[d].acked <= Len(row[d].revs)
          /\ \A i \in 1 .. Len(s) : s[i] # "operator"
      BY <1>1, <2>4 DEF LinkInv, Results
    <3>2. ASSUME NEW i \in 1 .. Len(t) PROVE t[i] # "operator"
      <4>1. i = Len(s) + 1 \/ i \in 1 .. Len(s)
        BY <1>2, <1>3
      <4> QED BY <1>2, <3>1, <4>1
    <3> QED BY <1>2, <2>3, <3>1, <3>2
  <2> QED BY <1>1, <1>2, <2>4 DEF LinkInv, Results
<1> QED BY <1>4, <1>5, <1>6

\* A journal write that succeeds or fails keeps the types of the fault state.
LEMMA WriteFacts ==
    ASSUME TypeOK, Written \/ WriteFails \/ Full
    PROVE  /\ denied' \in BOOLEAN /\ faults' \in 0 .. MaxFaults
           /\ WriteFails \/ Full => entry' = entry
<1>1. denied' \in BOOLEAN
  BY DEF TypeOK, JournalTypeOK, Written, WriteFails, Full
<1>2. faults' \in 0 .. MaxFaults
  BY GuardAssumption DEF TypeOK, Written, WriteFails, Full
<1> QED BY <1>1, <1>2 DEF WriteFails, Full

\* Every entry is left alone or gets one more revision.
RecordedStep ==
    /\ entry' = [c \in Commands |-> entry'[c]]
    /\ \A c \in Commands :
          entry'[c] = entry[c] \/ \E kind \in Kinds \ {"operator"} : Recorded(c, kind)

\* A step that only records keeps what journal, hub and redelivery agree on.
LEMMA RecordedStepKeeps ==
    ASSUME Inv, RecordedStep, row' = row, begun' = begun, post' = post, disk' = disk,
           lost' = lost, \A c \in Commands : effect[c] # "no" => effect'[c] # "no"
    PROVE  /\ entry' \in [Commands -> EntryType]
           /\ \A c \in Commands :
                 /\ entry'[c].acked <= Len(entry'[c].res)
                 /\ entry'[c].held = entry[c].held
                 /\ entry[c].res # <<>> =>
                       entry'[c].res # <<>> /\ entry'[c].res[1] = entry[c].res[1]
                 /\ RowInv(c)' /\ EntryInv(c)' /\ LinkInv(c)' /\ DiskInv(c)'
           /\ PostInv'
<1>1. TypeOK /\ PostInv /\ \A c \in Commands : CommandInv(c)
  BY DEF Inv
<1>2. /\ entry \in [Commands -> EntryType]
      /\ \A c \in Commands : entry[c].acked <= Len(entry[c].res) /\ Len(entry[c].res) \in Nat
  BY <1>1 DEF TypeOK, JournalTypeOK, LogTypeOK, EntryType, Results
<1>3. ASSUME NEW c \in Commands
      PROVE  /\ entry'[c] \in EntryType /\ entry'[c].acked <= Len(entry'[c].res)
             /\ entry'[c].held = entry[c].held
             /\ entry[c].res # <<>> =>
                   entry'[c].res # <<>> /\ entry'[c].res[1] = entry[c].res[1]
             /\ RowInv(c)' /\ EntryInv(c)' /\ LinkInv(c)' /\ DiskInv(c)'
  <2>1. CASE entry'[c] = entry[c]
    BY <1>1, <1>2, <2>1, UntouchedKeeps, DiskUntouched
  <2>2. CASE \E kind \in Kinds \ {"operator"} : Recorded(c, kind)
    <3>1. PICK kind \in Kinds \ {"operator"} : Recorded(c, kind)
      BY <2>2
    <3>2. entry[c].res # <<>> => 1 \in 1 .. Len(entry[c].res)
      BY <1>2 DEF EntryType
    <3>3. RowInv(c)' /\ EntryInv(c)' /\ LinkInv(c)'
      BY <3>1, RecordedKeeps
    <3>4. /\ entry'[c] \in EntryType /\ entry'[c].acked <= Len(entry'[c].res)
          /\ entry'[c].held = entry[c].held /\ entry'[c].acked = entry[c].acked
          /\ entry'[c].res # <<>>
          /\ entry[c].res # <<>> => entry'[c].res[1] = entry[c].res[1]
      BY <1>1, <3>1, <3>2, RecordedFacts
    <3>5. entry'[c].acked \in Nat /\ entry[c].acked <= entry'[c].acked
      BY <3>4 DEF EntryType
    <3>6. DiskInv(c)'
      BY <1>1, <3>4, <3>5, DiskKept
    <3> QED BY <3>3, <3>4, <3>6
  <2> QED BY <2>1, <2>2 DEF RecordedStep
<1>4. entry' \in [Commands -> EntryType]
  BY <1>3 DEF RecordedStep
<1>5. PostInv'
  BY <1>1 DEF PostInv
<1> QED BY <1>3, <1>4, <1>5

\* RecordResult is such a step.
LEMMA RecordResultIsRecorded ==
    ASSUME TypeOK, NEW d \in Commands, NEW kind \in Kinds \ {"operator"}, RecordResult(d, kind)
    PROVE  /\ RecordedStep /\ \A c \in Commands \ {d} : entry'[c] = entry[c]
           /\ entry[d].res = <<>> => entry'[d].res[1] = kind
<1>1. entry \in [Commands -> EntryType]
  BY DEF TypeOK, JournalTypeOK, LogTypeOK, EntryType
<1>2. Recorded(d, kind) /\ \A c \in Commands \ {d} : entry'[c] = entry[c]
  BY <1>1 DEF RecordResult, Recorded, EntryType
<1>3. entry' = [c \in Commands |-> entry'[c]]
  BY <1>1 DEF RecordResult
<1>4. entry[d].res = <<>> => entry'[d].res[1] = kind
  <2>1. Len(<<>>) = 0 /\ 0 + 1 = 1
    OBVIOUS
  <2> QED BY <1>2, <2>1, RecordedFacts
<1> QED BY <1>2, <1>3, <1>4 DEF RecordedStep

\* An offer the journal cannot take keeps the invariant.
LEMMA HandleUnjournaledKeeps == ASSUME Inv, HandleUnjournaled PROVE Inv'
<1> USE GuardAssumption, MutatingAssumption DEF Inv
<1> DEFINE d == guard.cmd
<1>a. /\ guard.pc = "offered" /\ d \in Commands /\ (d \notin begun \/ d \in Forgotten)
      /\ denied' \in BOOLEAN /\ faults' \in 0 .. MaxFaults /\ entry' = entry
      /\ UNCHANGED <<row, live, recovered, post, begun, crashes, disk, older, lost, unlisted>>
  BY WriteFacts DEF HandleUnjournaled, hub, HandInv, files
<1>b. /\ guard' \in LoopType /\ guard'.pc = "report" /\ guard'.known = {d}
      /\ Len(guard'.chain) = 1
      /\ \/ d \in Mutating /\ guard'.chain[1] \in Rejections /\ effect' = effect
         \/ /\ d \notin Mutating /\ guard'.chain[1] \in Terminals
            /\ effect' = [effect EXCEPT ![d] = "over"]
  <2>1. {d} \in SUBSET Commands /\ {"no_journal", "terminal"} \subseteq Kinds
    BY <1>a DEF Kinds, Rejections, Terminals
  <2>2. CASE d \in Mutating
    BY <2>1, <2>2, LoopRecords DEF HandleUnjournaled, Rejections
  <2>3. CASE d \notin Mutating
    BY <2>1, <2>3, LoopRecords DEF HandleUnjournaled, RunUnjournaled, Terminals
  <2> QED BY <2>2, <2>3
<1>1. TypeOK'
  <2>1. effect' \in [Commands -> {"no", "running", "over"}]
    BY <1>b DEF TypeOK
  <2> QED BY <1>a, <1>b, <2>1 DEF TypeOK, LoopType, HubTypeOK, JournalTypeOK, LogTypeOK, Results
<1>2. ASSUME NEW c \in Commands PROVE CommandInv(c)'
  <2>1. RowInv(c)' /\ EntryInv(c)' /\ LinkInv(c)'
    BY <1>2, <1>a, UntouchedKeeps
  <2>2. effect'[c] = effect[c] \/ (c = d /\ effect'[c] = "over" /\ c \notin Mutating)
    BY <1>a, <1>b DEF TypeOK
  <2>3. EffectInv(c)'
    BY <1>2, <1>a, <2>2 DEF CommandInv, EffectInv, Results
  <2>4. ReadInv(c)'
    BY <1>2, <1>a, <1>b DEF CommandInv, ReadInv, Results, TypeOK, Rejections, Terminals,
       Forgotten
  <2>5. DiskInv(c)'
    BY <1>2, <1>a, <2>2, DiskUntouched
  <2> QED BY <2>1, <2>3, <2>4, <2>5 DEF CommandInv
<1>3. ChainInv' /\ HandInv' /\ PostInv' /\ Exclusive'
  BY <1>a, <1>b DEF ChainInv, HandInv, PostInv, Exclusive, Results, Forgotten
<1> QED BY <1>1, <1>2, <1>3

\* Refusing an offer whose authority is over keeps the invariant.
LEMMA HandleExpiredKeeps == ASSUME Inv, HandleExpired PROVE Inv'
<1> USE GuardAssumption, MutatingAssumption DEF Inv
<1> DEFINE d == guard.cmd
<1>a. /\ guard.pc = "offered" /\ d \in Commands /\ (d \notin begun \/ d \in Forgotten)
      /\ UNCHANGED <<row, live, entry, denied, disk, older, recovered, post, begun, effect,
                     lost, unlisted, crashes, faults>>
  BY DEF HandleExpired, hub, journal, files, HandInv
<1>b. /\ guard' \in LoopType /\ guard'.pc = "report" /\ guard'.known = {d}
      /\ Len(guard'.chain) = 1 /\ guard'.chain[1] \in Rejections
  <2>1. {d} \in SUBSET Commands /\ "expired" \in Kinds /\ "expired" \in Rejections
    BY <1>a DEF Kinds, Rejections
  <2> QED BY <2>1, LoopRecords DEF HandleExpired
<1>1. TypeOK'
  BY <1>a, <1>b DEF TypeOK, LoopType, HubTypeOK, JournalTypeOK, LogTypeOK
<1>2. ASSUME NEW c \in Commands PROVE CommandInv(c)'
  <2>1. RowInv(c)' /\ EntryInv(c)' /\ LinkInv(c)' /\ DiskInv(c)'
    BY <1>2, <1>a, UntouchedKeeps, DiskUntouched
  <2>2. EffectInv(c)'
    BY <1>2, <1>a DEF CommandInv, EffectInv, Results
  <2>3. ReadInv(c)'
    BY <1>a, <1>b DEF ReadInv, Forgotten
  <2> QED BY <2>1, <2>2, <2>3 DEF CommandInv
<1>3. ChainInv' /\ HandInv' /\ PostInv' /\ Exclusive'
  BY <1>a, <1>b DEF ChainInv, HandInv, PostInv, Exclusive
<1> QED BY <1>1, <1>2, <1>3

\* An offer the journal can take keeps the invariant.
LEMMA HandleKeeps == ASSUME Inv, Handle PROVE Inv'
<1> USE GuardAssumption, MutatingAssumption DEF Inv
<1> DEFINE d == guard.cmd
<1>a. /\ guard.pc = "offered" /\ d \in Commands /\ row[d].state \notin {"none", "queued"}
      /\ d \notin Forgotten => row[d].state = "dispatched" /\ d \notin begun
      /\ denied' \in BOOLEAN /\ faults' \in 0 .. MaxFaults
      /\ UNCHANGED <<row, live, recovered, post, begun, effect, crashes, disk, lost, unlisted>>
  BY WriteFacts DEF Handle, hub, HandInv
<1>b. \/ /\ guard' \in LoopType /\ guard'.pc = "admitted" /\ guard'.cmd = d
         /\ \/ entry[d].held = "no" /\ entry' = [entry EXCEPT ![d] = Intent]
            \/ /\ entry[d].held = "entry" /\ Results(d) = <<>> /\ ~entry[d].marked
               /\ entry' = entry
      \/ guard' = Idle /\ entry' = entry
  BY <1>a, StateFacts, LoopRecords DEF Handle, Admit
<1>c. /\ Intent \in EntryType /\ Intent.held = "entry" /\ ~Intent.marked
      /\ Intent.res = <<>> /\ Intent.acked = 0 /\ Len(Intent.res) = 0
  <2>1. <<>> \in Seq(Kinds) /\ Len(<<>>) = 0
    OBVIOUS
  <2> QED BY <2>1 DEF Intent, NoEntry, EntryType
<1>d. ASSUME NEW c \in Commands
      PROVE  \/ entry'[c] = entry[c]
             \/ c = d /\ entry[c].held = "no" /\ entry'[c] = Intent
  BY <1>a, <1>b, <1>d DEF TypeOK, JournalTypeOK, LogTypeOK
<1>1. TypeOK'
  <2>1. entry' \in [Commands -> EntryType]
    <3>1. entry \in [Commands -> EntryType]
      BY DEF TypeOK, JournalTypeOK, LogTypeOK, EntryType
    <3>2. entry' = entry \/ entry' = [entry EXCEPT ![d] = Intent]
      BY <1>b
    <3> QED BY <1>c, <3>1, <3>2
  <2>2. ASSUME NEW c \in Commands PROVE entry'[c].acked <= Len(entry'[c].res)
    <3>1. entry[c].acked <= Len(entry[c].res)
      BY DEF TypeOK, JournalTypeOK, LogTypeOK, Results
    <3>2. Intent.acked <= Len(Intent.res)
      BY <1>c
    <3> QED BY <1>d, <3>1, <3>2
  <2>3. guard' \in LoopType
    BY <1>b, LoopRecords
  <2>4. older' \in [Commands -> SUBSET Commands]
    BY DEF Handle, Admit, TypeOK, JournalTypeOK
  <2>5. LogTypeOK(entry)'
    BY <2>1, <2>2 DEF LogTypeOK, EntryType
  <2> QED BY <1>a, <2>3, <2>4, <2>5 DEF TypeOK, LoopType, HubTypeOK, JournalTypeOK, LogTypeOK
<1>2. ASSUME NEW c \in Commands PROVE CommandInv(c)'
  <2>1. CASE entry'[c] = entry[c]
    <3>1. RowInv(c)' /\ EntryInv(c)' /\ LinkInv(c)' /\ DiskInv(c)'
      BY <1>2, <1>a, <2>1, UntouchedKeeps, DiskUntouched
    <3> QED BY <1>2, <1>a, <1>b, <2>1, <3>1, LoopRecords
         DEF CommandInv, EffectInv, ReadInv, Results, Forgotten
  <2>2. CASE c = d /\ entry[c].held = "no" /\ entry'[c] = Intent
    <3>1. RowInv(c)' /\ EntryInv(c)' /\ LinkInv(c)'
      BY <1>2, <1>a, <1>c, <2>2
         DEF CommandInv, RowInv, EntryInv, Shape, LinkInv, Results
    <3>2. EffectInv(c)' /\ ReadInv(c)'
      BY <1>2, <1>a, <1>b, <1>c, <2>2, LoopRecords DEF CommandInv, EffectInv, ReadInv, Results
    <3>3. DiskInv(c)'
      BY <1>2, <1>a, <2>2, DiskKept
    <3> QED BY <3>1, <3>2, <3>3 DEF CommandInv
  <2> QED BY <1>d, <2>1, <2>2
<1>3. ChainInv' /\ HandInv' /\ Exclusive'
  <2>1. guard'.pc = "admitted" =>
          guard'.cmd = d /\ entry'[d].held = "entry" /\ entry'[d].res = <<>> /\ ~entry'[d].marked
    BY <1>a, <1>b, <1>c, LoopRecords DEF Results, TypeOK, JournalTypeOK, LogTypeOK
  <2> QED BY <1>a, <1>b, <2>1, LoopRecords DEF ChainInv, HandInv, Exclusive, Results, Forgotten
<1>4. PostInv'
  BY <1>a DEF PostInv
<1> QED BY <1>1, <1>2, <1>3, <1>4

\* Refusing or marking an admitted command keeps the invariant.
LEMMA ExecuteKeeps == ASSUME Inv, Execute PROVE Inv'
<1> USE GuardAssumption, MutatingAssumption DEF Inv
<1> DEFINE d == guard.cmd
<1>a. /\ guard.pc = "admitted" /\ d \in Commands /\ row[d].state \notin {"none", "queued"}
      /\ d \notin begun \/ d \in Forgotten
      /\ d \notin Forgotten => row[d].state = "dispatched"
      /\ entry[d].held = "entry" /\ Results(d) = <<>> /\ ~entry[d].marked
      /\ denied' \in BOOLEAN /\ faults' \in 0 .. MaxFaults
      /\ UNCHANGED <<row, live, recovered, post, effect, crashes, disk, older, lost, unlisted>>
  BY WriteFacts DEF Execute, hub, HandInv, files
<1>b. entry[d] \in EntryType /\ entry \in [Commands -> EntryType]
  BY <1>a DEF TypeOK, JournalTypeOK, LogTypeOK, EntryType
<1>c. Refusal(d) \subseteq Rejections
  BY DEF Refusal, Rejections
<1>d. \/ /\ guard' = Idle /\ begun' = begun
         /\ \E kind \in Rejections : RecordResult(d, kind)
      \/ /\ guard'.pc = "report" /\ guard' \in LoopType /\ guard'.known = {d}
         /\ Len(guard'.chain) = 1 /\ guard'.chain[1] \in Rejections
         /\ begun' = begun /\ entry' = entry
      \/ /\ guard'.pc = "marked" /\ guard'.cmd = d /\ guard' \in LoopType
         /\ begun' = begun \union {d} /\ entry' = [entry EXCEPT ![d].marked = TRUE]
  <2>1. {d} \in SUBSET Commands /\ Rejections \subseteq Kinds /\ "no_journal" \in Rejections
    BY <1>a DEF Kinds, Rejections
  <2>2. ASSUME NEW kind \in Rejections, guard' = Report({d}, <<kind>>)
        PROVE  /\ guard'.pc = "report" /\ guard' \in LoopType /\ guard'.known = {d}
               /\ Len(guard'.chain) = 1 /\ guard'.chain[1] \in Rejections
    BY <2>1, <2>2, LoopRecords
  <2>3. CASE \E kind \in Refusal(d) :
               /\ \/ Written /\ RecordResult(d, kind) /\ guard' = Idle
                  \/ WriteFails /\ guard' = Report({d}, <<kind>>)
               /\ UNCHANGED begun
    BY <1>c, <2>2, <2>3, WriteFacts
  <2>4. CASE /\ Refusal(d) = {} /\ Written /\ MarkDispatched(d)
             /\ begun' = begun \union {d} /\ guard' = At("marked", d)
    BY <1>a, <2>4, LoopRecords DEF MarkDispatched
  <2>5. CASE /\ Refusal(d) = {} /\ WriteFails
             /\ guard' = Report({d}, <<"no_journal">>) /\ UNCHANGED begun
    BY <2>1, <2>2, <2>5, WriteFacts
  <2> QED BY <2>3, <2>4, <2>5 DEF Execute
<1>4. CASE /\ guard' = Idle /\ begun' = begun
           /\ \E kind \in Rejections : RecordResult(d, kind)
  <2>1. PICK kind \in Rejections : RecordResult(d, kind)
    BY <1>4
  <2>2. kind \in Kinds \ {"operator"}
    BY DEF Kinds, Rejections
  <2>3. /\ RecordedStep /\ \A c \in Commands \ {d} : entry'[c] = entry[c]
        /\ entry'[d].res[1] = kind
    BY <1>a, <2>1, <2>2, RecordResultIsRecorded DEF Results
  <2>4. TypeOK'
    BY <1>a, <1>4, <2>3, RecordedStepKeeps, LoopRecords
       DEF TypeOK, LoopType, HubTypeOK, JournalTypeOK, LogTypeOK, EntryType,
       Results
  <2>5. ASSUME NEW c \in Commands PROVE CommandInv(c)'
    <3>1. EffectInv(c)' /\ ReadInv(c)'
      BY <1>a, <1>4, <2>1, <2>3, <2>5, LoopRecords
         DEF CommandInv, EffectInv, ReadInv, Results, Rejections, Terminals,
       Forgotten
    <3> QED BY <1>a, <1>4, <2>3, <3>1, RecordedStepKeeps DEF CommandInv
  <2>6. ChainInv' /\ HandInv' /\ Exclusive'
    BY <1>a, <1>4, LoopRecords DEF ChainInv, HandInv, Exclusive, Forgotten
  <2> QED BY <1>a, <1>4, <2>3, <2>4, <2>5, <2>6, RecordedStepKeeps
<1>5. CASE /\ guard'.pc = "report" /\ guard' \in LoopType /\ guard'.known = {d}
           /\ Len(guard'.chain) = 1 /\ guard'.chain[1] \in Rejections
           /\ begun' = begun /\ entry' = entry
  <2>1. TypeOK'
    BY <1>a, <1>5 DEF TypeOK, LoopType, HubTypeOK, JournalTypeOK, LogTypeOK, Results
  <2>2. ASSUME NEW c \in Commands PROVE CommandInv(c)'
    BY <1>a, <1>5, <2>2, UntouchedKeeps, DiskUntouched DEF CommandInv, EffectInv, ReadInv, Results, Forgotten
  <2>3. ChainInv' /\ HandInv' /\ PostInv' /\ Exclusive'
    BY <1>a, <1>5 DEF ChainInv, HandInv, PostInv, Exclusive, Results, Forgotten
  <2> QED BY <2>1, <2>2, <2>3
<1>6. CASE /\ guard'.pc = "marked" /\ guard'.cmd = d /\ guard' \in LoopType
           /\ begun' = begun \union {d} /\ entry' = [entry EXCEPT ![d].marked = TRUE]
  <2>1. \A c \in Commands \ {d} : entry'[c] = entry[c]
    BY <1>b, <1>6
  <2>2. /\ entry'[d].held = "entry" /\ entry'[d].marked /\ entry'[d].res = <<>>
        /\ entry'[d].acked = entry[d].acked /\ entry' \in [Commands -> EntryType]
    BY <1>a, <1>b, <1>6 DEF EntryType, Results
  <2>3. Len(<<>>) = 0 /\ entry[d].acked = 0
    BY <1>a DEF TypeOK, JournalTypeOK, LogTypeOK, Results
  <2>4. TypeOK'
    <3>1. ASSUME NEW c \in Commands PROVE entry'[c].acked <= Len(entry'[c].res)
      <4>1. entry[c].acked <= Len(entry[c].res)
        BY DEF TypeOK, JournalTypeOK, LogTypeOK, Results
      <4> QED BY <2>1, <2>2, <2>3, <4>1
    <3> QED BY <1>a, <1>6, <2>2, <3>1, SMTT(30)
           DEF TypeOK, LoopType, HubTypeOK, JournalTypeOK, LogTypeOK, EntryType,
       Results
  <2>5. ASSUME NEW c \in Commands PROVE CommandInv(c)'
    <3>1. CASE c # d
      BY <1>a, <1>6, <2>1, <2>5, <3>1, UntouchedKeeps, DiskUntouched DEF CommandInv, EffectInv, ReadInv, Results, Forgotten
    <3>2. CASE c = d
      <4>1. d \notin lost /\ row[d].state \in InFlight => row[d].revs = <<>>
        BY <1>a DEF CommandInv, RowInv, LinkInv, InFlight, TypeOK
      <4>2. row[d].revs = <<>> => Extends(row[d].revs, <<>>) /\ Len(row[d].revs) = 0
        BY <2>3 DEF Extends
      <4>3. RowInv(c)' /\ EntryInv(c)' /\ LinkInv(c)'
        BY <1>a, <1>6, <2>2, <2>3, <3>2, <4>1, <4>2
           DEF CommandInv, RowInv, EntryInv, Shape, LinkInv, Results
      <4>4. EffectInv(c)' /\ ReadInv(c)'
        BY <1>a, <1>6, <2>2, <3>2 DEF CommandInv, EffectInv, ReadInv, Results
      <4>5. entry'[d].acked \in Nat /\ entry[d].acked <= entry'[d].acked
        BY <2>2, <2>3
      <4>6. DiskInv(c)'
        BY <1>a, <1>6, <2>2, <3>2, <4>5, DiskKept DEF Results
      <4> QED BY <4>3, <4>4, <4>6 DEF CommandInv
    <3> QED BY <3>1, <3>2
  <2>6. ChainInv' /\ HandInv' /\ Exclusive'
    BY <1>a, <1>6, <2>2 DEF ChainInv, HandInv, Exclusive, Results, CommandInv, EffectInv,
       Forgotten
  <2>7. PostInv'
    BY <1>a, <1>6 DEF PostInv, InFlight, Settled
  <2> QED BY <2>4, <2>5, <2>6, <2>7
<1> QED BY <1>d, <1>4, <1>5, <1>6

\* The end of the executor keeps the invariant.
LEMMA FinishEffectKeeps == ASSUME Inv, FinishEffect PROVE Inv'
<1> USE GuardAssumption, MutatingAssumption DEF Inv
<1> DEFINE d == guard.cmd
<1>a. /\ guard.pc = "running" /\ d \in Commands
      /\ d \in begun /\ entry[d].held = "entry" /\ Results(d) = <<>>
      /\ denied' \in BOOLEAN /\ faults' \in 0 .. MaxFaults
      /\ UNCHANGED <<row, live, recovered, post, begun, crashes, disk, older, lost, unlisted>>
      /\ effect' = [effect EXCEPT ![d] = "over"]
  BY WriteFacts DEF FinishEffect, hub, HandInv, files, Forgotten
<1>b. /\ effect' \in [Commands -> {"no", "running", "over"}] /\ effect'[d] = "over"
      /\ \A c \in Commands \ {d} : effect'[c] = effect[c]
      /\ \A c \in Commands : effect[c] # "no" => effect'[c] # "no"
      /\ entry \in [Commands -> EntryType]
  BY <1>a DEF TypeOK, JournalTypeOK, LogTypeOK, EntryType
<1>c. \/ /\ guard' = Idle /\ entry' = entry
      \/ /\ guard' = Idle
         /\ \E kind \in Terminals \union {"unknown"} : RecordResult(d, kind)
      \/ /\ guard'.pc = "report" /\ guard' \in LoopType /\ guard'.known = {d}
         /\ Len(guard'.chain) = 1 /\ guard'.chain[1] \in Terminals
         /\ entry' = entry
  <2>1. {d} \in SUBSET Commands /\ Terminals \subseteq Kinds
    BY <1>a DEF Kinds
  <2>2. PICK kind \in Terminals \union {"unknown"} :
          \/ Written /\ RecordResult(d, kind) /\ guard' = Idle
          \/ /\ WriteFails
             /\ guard' = IF kind = "unknown" THEN Idle ELSE Report({d}, <<kind>>)
    BY DEF FinishEffect
  <2>3. CASE Written /\ RecordResult(d, kind) /\ guard' = Idle
    BY <2>3
  <2>4. CASE WriteFails /\ kind = "unknown" /\ guard' = Idle
    BY <2>4, WriteFacts
  <2>5. CASE WriteFails /\ kind \in Terminals /\ guard' = Report({d}, <<kind>>)
    BY <2>1, <2>5, WriteFacts, LoopRecords
  <2> QED BY <2>2, <2>3, <2>4, <2>5
<1>4. CASE \/ guard' = Idle /\ entry' = entry
           \/ /\ guard'.pc = "report" /\ guard' \in LoopType /\ guard'.known = {d}
              /\ Len(guard'.chain) = 1 /\ guard'.chain[1] \in Terminals
              /\ entry' = entry
  <2>1. TypeOK'
    <3>1. guard' \in LoopType /\ entry' = entry
      BY <1>4, LoopRecords
    <3> QED BY <1>a, <1>b, <3>1 DEF TypeOK, LoopType, HubTypeOK, JournalTypeOK, LogTypeOK, Results
  <2>2. ASSUME NEW c \in Commands PROVE CommandInv(c)'
    BY <1>a, <1>b, <1>4, <2>2, UntouchedKeeps, DiskUntouched, LoopRecords
       DEF CommandInv, EffectInv, ReadInv, Results, Forgotten
  <2>3. ChainInv' /\ HandInv' /\ PostInv' /\ Exclusive'
    BY <1>a, <1>4, LoopRecords DEF ChainInv, HandInv, PostInv, Exclusive, Results, Forgotten
  <2> QED BY <2>1, <2>2, <2>3
<1>5. CASE /\ guard' = Idle
           /\ \E kind \in Terminals \union {"unknown"} : RecordResult(d, kind)
  <2>1. PICK kind \in Terminals \union {"unknown"} : RecordResult(d, kind)
    BY <1>5
  <2>2. kind \in Kinds \ {"operator"}
    BY DEF Kinds, Terminals, Uncertain
  <2>3. RecordedStep /\ \A c \in Commands \ {d} : entry'[c] = entry[c]
    BY <1>a, <2>1, <2>2, RecordResultIsRecorded
  <2>4. TypeOK'
    BY <1>a, <1>b, <1>5, <2>3, RecordedStepKeeps, LoopRecords
       DEF TypeOK, LoopType, HubTypeOK, JournalTypeOK, LogTypeOK, EntryType,
       Results
  <2>5. ASSUME NEW c \in Commands PROVE CommandInv(c)'
    <3>1. EffectInv(c)' /\ ReadInv(c)'
      BY <1>a, <1>b, <1>5, <2>3, <2>5, LoopRecords
         DEF CommandInv, EffectInv, ReadInv, Results, Forgotten
    <3> QED BY <1>a, <2>3, <3>1, RecordedStepKeeps DEF CommandInv
  <2>6. ChainInv' /\ HandInv' /\ Exclusive'
    BY <1>a, <1>5, LoopRecords DEF ChainInv, HandInv, Exclusive, Forgotten
  <2> QED BY <1>a, <2>3, <2>4, <2>5, <2>6, RecordedStepKeeps
<1> QED BY <1>c, <1>4, <1>5

\* Reconciling an unknown outcome keeps the invariant.
LEMMA ReconcileKeeps == ASSUME Inv, NEW d \in Commands, Reconcile(d) PROVE Inv'
<1> USE GuardAssumption, MutatingAssumption DEF Inv
<1>a. /\ guard.pc = "loop" /\ entry[d].held = "entry" /\ Results(d) # <<>>
      /\ denied' \in BOOLEAN /\ faults' \in 0 .. MaxFaults
      /\ UNCHANGED <<row, live, guard, recovered, post, begun, effect, crashes, disk, older, lost, unlisted>>
  BY WriteFacts, StateFacts DEF Reconcile, hub, Open, files
<1>b. entry' = entry \/ \E kind \in {"observed", "escalated"} : RecordResult(d, kind)
  BY WriteFacts DEF Reconcile, Oracle
<1>c. entry \in [Commands -> EntryType]
  BY DEF TypeOK, JournalTypeOK, LogTypeOK, EntryType
<1>4. CASE entry' = entry
  <2>1. TypeOK'
    BY <1>a, <1>4 DEF TypeOK, HubTypeOK, JournalTypeOK, LogTypeOK, Results
  <2>2. ASSUME NEW c \in Commands PROVE CommandInv(c)'
    BY <1>a, <1>4, <2>2, UntouchedKeeps, DiskUntouched DEF CommandInv, EffectInv, ReadInv, Results, Forgotten
  <2>3. ChainInv' /\ HandInv' /\ PostInv' /\ Exclusive'
    BY <1>a, <1>4 DEF ChainInv, HandInv, PostInv, Exclusive, Results, Forgotten
  <2> QED BY <2>1, <2>2, <2>3
<1>5. CASE \E kind \in {"observed", "escalated"} : RecordResult(d, kind)
  <2>1. PICK kind \in {"observed", "escalated"} : RecordResult(d, kind)
    BY <1>5
  <2>2. kind \in Kinds \ {"operator"}
    BY DEF Kinds, Resolutions, Uncertain
  <2>3. RecordedStep /\ \A c \in Commands \ {d} : entry'[c] = entry[c]
    BY <2>1, <2>2, RecordResultIsRecorded
  <2>4. TypeOK'
    BY <1>a, <2>3, RecordedStepKeeps
       DEF TypeOK, LoopType, HubTypeOK, JournalTypeOK, LogTypeOK, EntryType,
       Results
  <2>5. ASSUME NEW c \in Commands PROVE CommandInv(c)'
    <3>1. EffectInv(c)' /\ ReadInv(c)'
      BY <1>a, <2>3, <2>5, RecordedStepKeeps DEF CommandInv, EffectInv, ReadInv, Results, Forgotten
    <3> QED BY <1>a, <2>3, <3>1, RecordedStepKeeps DEF CommandInv
  <2>6. ChainInv' /\ HandInv' /\ Exclusive'
    BY <1>a DEF ChainInv, HandInv, Exclusive, Forgotten
  <2> QED BY <1>a, <2>3, <2>4, <2>5, <2>6, RecordedStepKeeps
<1> QED BY <1>b, <1>4, <1>5

\* Recovering interrupted and lapsed commands records one revision in each.
LEMMA RecoveredIsRecorded ==
    ASSUME TypeOK, NEW done \in SUBSET (Interrupted \union Lapsed), Recovered(done)
    PROVE  /\ RecordedStep
           /\ \A c \in Commands :
                 entry'[c] = entry[c] \/ entry'[c].res[1] \in {"unknown", "expired"}
<1>1. entry \in [Commands -> EntryType]
  BY DEF TypeOK, JournalTypeOK, LogTypeOK, EntryType
<1>2. entry' = [c \in Commands |-> entry'[c]]
  BY DEF Recovered
<1>3. ASSUME NEW c \in Commands, c \in done
      PROVE  /\ \E kind \in Kinds \ {"operator"} : Recorded(c, kind)
             /\ entry'[c].res[1] \in {"unknown", "expired"}
  <2> DEFINE kind == IF c \in Interrupted THEN "unknown" ELSE "expired"
  <2>1. entry'[c] = [entry[c] EXCEPT !.res = <<kind>>]
    BY <1>3 DEF Recovered
  <2>2. entry[c].res = <<>>
    BY <1>3, StateFacts DEF Interrupted, Lapsed, Results
  <2>3. entry'[c] = [entry[c] EXCEPT !.res = Append(@, kind)]
    <3>1. Append(<<>>, kind) = <<kind>>
      OBVIOUS
    <3> QED BY <1>1, <2>1, <2>2, <3>1
  <2>4. Recordable(c, kind)
    BY <1>3 DEF Recordable, Interrupted, Lapsed, Rejections, Terminals
  <2>5. kind \in Kinds \ {"operator"}
    BY DEF Kinds, Rejections, Uncertain
  <2>6. entry'[c].res[1] = kind
    BY <1>1, <2>1 DEF EntryType
  <2> QED BY <2>3, <2>4, <2>5, <2>6 DEF Recorded
<1>4. ASSUME NEW c \in Commands, c \notin done PROVE entry'[c] = entry[c]
  BY <1>4 DEF Recovered
<1> QED BY <1>2, <1>3, <1>4 DEF RecordedStep

\* Recovering the journal keeps the invariant.
LEMMA RecoverKeeps == ASSUME Inv, Recover PROVE Inv'
<1> USE GuardAssumption, MutatingAssumption DEF Inv
<1>a. /\ guard.pc = "loop" /\ UNCHANGED <<row, live, post, begun, effect, crashes, disk, older, lost, unlisted>>
      /\ denied' \in BOOLEAN /\ faults' \in 0 .. MaxFaults /\ recovered' \in BOOLEAN
  <2>1. guard.pc = "loop" /\ UNCHANGED <<row, live, post, begun, effect, crashes, disk, older, lost, unlisted>>
    BY DEF Recover, hub, files
  <2>2. denied \in BOOLEAN /\ recovered \in BOOLEAN /\ faults \in 0 .. MaxFaults
    BY DEF TypeOK, JournalTypeOK, LogTypeOK
  <2>3. /\ \/ denied' = denied /\ faults' = faults
           \/ denied' = TRUE /\ faults' = faults + 1 /\ faults < MaxFaults
        /\ recovered' = TRUE \/ recovered' = recovered
    BY DEF Recover
  <2>4. faults' \in 0 .. MaxFaults
    BY <2>2, <2>3
  <2> QED BY <2>1, <2>2, <2>3, <2>4
<1>b. \E done \in SUBSET (Interrupted \union Lapsed) : Recovered(done)
  BY DEF Recover
<1>c. \/ guard' = guard
      \/ /\ guard' \in LoopType /\ guard'.pc = "report" /\ guard'.known \subseteq Lapsed
         /\ Len(guard'.chain) = 1 /\ guard'.chain[1] \in Rejections
  <2>1. Lapsed \subseteq Commands /\ "expired" \in Kinds /\ "expired" \in Rejections
    BY DEF Lapsed, Kinds, Rejections
  <2>2. ASSUME NEW done \in SUBSET Lapsed, guard' = Report(Lapsed \ done, <<"expired">>)
        PROVE  /\ guard' \in LoopType /\ guard'.pc = "report" /\ guard'.known \subseteq Lapsed
               /\ Len(guard'.chain) = 1 /\ guard'.chain[1] \in Rejections
    BY <2>1, <2>2, LoopRecords
  <2> QED BY <2>2 DEF Recover
<1>d. ASSUME NEW c \in Lapsed
      PROVE  c \notin begun \/ c \in Forgotten \/ row[c].state \in Settled
  <2>1. c \in Commands /\ ~entry[c].marked
    BY StateFacts DEF Lapsed
  <2> QED BY <2>1 DEF CommandInv, RowInv, LinkInv, InFlight, Settled, Forgotten, TypeOK,
       HubTypeOK, RowStates
<1>e. /\ RecordedStep
      /\ \A c \in Commands :
            entry'[c] = entry[c] \/ entry'[c].res[1] \in {"unknown", "expired"}
  BY <1>b, RecoveredIsRecorded
<1>1. TypeOK'
  <2>1. guard' \in LoopType
    BY <1>c DEF TypeOK, LoopType
  <2> QED BY <1>a, <1>e, <2>1, RecordedStepKeeps
       DEF TypeOK, LoopType, HubTypeOK, JournalTypeOK, LogTypeOK, EntryType,
       Results
<1>2. ASSUME NEW c \in Commands PROVE CommandInv(c)'
  <2>1. EffectInv(c)'
    BY <1>2, <1>a, <1>c, <1>e DEF CommandInv, EffectInv, Results, Terminals
  <2>2. ReadInv(c)'
    BY <1>2, <1>a, <1>c, <1>d, <1>e DEF CommandInv, ReadInv, Results, Forgotten
  <2> QED BY <1>a, <1>e, <2>1, <2>2, RecordedStepKeeps DEF CommandInv
<1>3. ChainInv' /\ HandInv' /\ Exclusive'
  BY <1>a, <1>c DEF ChainInv, HandInv, Exclusive, Forgotten
<1> QED BY <1>a, <1>e, <1>1, <1>2, <1>3, RecordedStepKeeps

\* An answered report is recorded, or its write fails, or its entry is gone.
LEMMA RecordAckKeeps == ASSUME Inv, RecordAck PROVE Inv'
<1> USE GuardAssumption, MutatingAssumption DEF Inv
<1> DEFINE d == post.cmd
<1>a. /\ post # NoPost /\ post' = NoPost
      /\ UNCHANGED <<row, live, guard, recovered, begun, effect, crashes, disk, older, lost, unlisted>>
      /\ denied' \in BOOLEAN /\ faults' \in 0 .. MaxFaults
  BY WriteFacts DEF RecordAck, hub, journal, files, TypeOK, JournalTypeOK, LogTypeOK
<1>b. /\ d \in Commands /\ post.rev \in Nat /\ entry \in [Commands -> EntryType]
      /\ d \in begun \ lost /\ row[d].state \in InFlight => post.rev <= Len(row[d].revs)
      /\ d \notin begun => row[d].state \in Settled
  BY <1>a DEF PostInv, TypeOK, JournalTypeOK, LogTypeOK, EntryType
<1>c. \/ entry' = entry
      \/ entry[d].held = "entry" /\ post.rev <= Len(Results(d)) /\ Ack(d, post.rev)
  BY WriteFacts DEF RecordAck, journal, files
<1>d. /\ entry' \in [Commands -> EntryType]
      /\ \A c \in Commands :
            /\ entry'[c].held = entry[c].held /\ entry'[c].marked = entry[c].marked
            /\ entry'[c].res = entry[c].res
            /\ \/ entry'[c].acked = entry[c].acked
               \/ /\ c = d /\ entry[c].held = "entry" /\ entry'[c].acked = post.rev
                  /\ post.rev <= Len(Results(d)) /\ entry[c].acked < post.rev
  <2>1. CASE entry' = entry
    BY <1>b, <2>1
  <2>2. CASE entry[d].held = "entry" /\ post.rev <= Len(Results(d)) /\ Ack(d, post.rev)
    <3>1. entry[d] \in EntryType /\ \A c \in Commands \ {d} : entry'[c] = entry[c]
      BY <1>b, <2>2 DEF Ack
    <3>2. CASE entry[d].acked < post.rev
      BY <1>b, <2>2, <3>1, <3>2 DEF Ack, EntryType
    <3>3. CASE ~(entry[d].acked < post.rev)
      BY <1>b, <2>2, <3>1, <3>3 DEF Ack, EntryType
    <3> QED BY <3>2, <3>3
  <2> QED BY <1>c, <2>1, <2>2
<1>1. TypeOK'
  <2>1. ASSUME NEW c \in Commands PROVE entry'[c].acked <= Len(entry'[c].res)
    <3>1. entry[c].acked <= Len(entry[c].res)
      BY DEF TypeOK, JournalTypeOK, LogTypeOK, Results
    <3> QED BY <1>d, <3>1 DEF Results
  <2>2. post' \in [cmd : Commands \union {NoCommand}, rev : Nat]
    BY <1>a DEF NoPost
  <2> QED BY <1>a, <1>d, <2>1, <2>2
       DEF TypeOK, LoopType, HubTypeOK, JournalTypeOK, LogTypeOK, EntryType,
       Results
<1>2. ASSUME NEW c \in Commands PROVE CommandInv(c)'
  <2>1. RowInv(c) /\ EntryInv(c) /\ LinkInv(c) /\ EffectInv(c) /\ ReadInv(c)
    BY <1>2 DEF CommandInv
  <2>2. RowInv(c)' /\ EntryInv(c)' /\ EffectInv(c)' /\ ReadInv(c)'
    BY <1>a, <1>d, <2>1 DEF RowInv, EntryInv, Shape, EffectInv, ReadInv, Results, Forgotten
  <2>3. LinkInv(c)'
    BY <1>a, <1>b, <1>d, <2>1 DEF LinkInv, Results
  <2>4. entry'[c].acked \in Nat /\ entry[c].acked <= entry'[c].acked
    <3>1. entry[c].acked \in Nat /\ entry'[c].acked \in Nat
      BY <1>b, <1>d DEF EntryType
    <3>2. entry'[c].acked = entry[c].acked \/ entry[c].acked < entry'[c].acked
      BY <1>d
    <3> QED BY <3>1, <3>2
  <2>5. DiskInv(c)'
    BY <1>2, <1>a, <1>d, <2>4, DiskKept
  <2> QED BY <2>2, <2>3, <2>5 DEF CommandInv
<1>3. ChainInv' /\ HandInv' /\ PostInv' /\ Exclusive'
  BY <1>a, <1>d DEF ChainInv, HandInv, PostInv, Exclusive, Results, Forgotten
<1> QED BY <1>1, <1>2, <1>3

\* A notice that is the next revision of an open outcome is about a settled row
\* of a command that began.
LEMMA ApplicableFacts ==
    ASSUME Inv, NEW d \in Commands, Applicable(d), entry[d].held = "entry"
    PROVE  /\ row[d].state \in Settled /\ d \in begun /\ entry[d].marked
           /\ row[d].revs \in Seq(Kinds) /\ Len(row[d].revs) = Len(entry[d].res) + 1
           /\ Len(entry[d].res) \in Nat /\ Len(entry[d].res) >= 1
           /\ row[d].revs[1] = entry[d].res[1]
           /\ \A i \in 2 .. Len(row[d].revs) :
                 row[d].revs[i] \in {"observed", "escalated", "operator"}
<1> DEFINE s == entry[d].res
           t == row[d].revs
<1>1. /\ TypeOK /\ RowInv(d) /\ EntryInv(d) /\ s \in Seq(Kinds) /\ t \in Seq(Kinds)
      /\ row[d].state \in RowStates
  BY DEF Inv, CommandInv, TypeOK, HubTypeOK, JournalTypeOK, LogTypeOK
<1>2. s # <<>> /\ Last(s) \in Uncertain /\ t = Append(s, "operator")
  BY DEF Applicable, Open, Results
<1>3. Len(s) \in Nat /\ Len(s) >= 1
  BY <1>1, <1>2
<1>4. /\ Len(t) = Len(s) + 1 /\ t # <<>> /\ t[Len(s) + 1] = "operator"
      /\ \A i \in 1 .. Len(s) : t[i] = s[i]
  <2>1. "operator" \in Kinds
    BY DEF Kinds, Resolutions
  <2> QED BY <1>1, <1>2, <2>1, AppendProperties
<1>5. row[d].state \in Settled
  BY <1>1, <1>3, <1>4 DEF RowInv, RowStates, Settled, Uncertain, Last
<1>6. entry[d].marked /\ d \in begun
  <2>1. SUFFICES ASSUME ~entry[d].marked PROVE FALSE
    BY <1>1 DEF EntryInv, Shape
  <2>2. Len(s) = 1 /\ s[1] \in Rejections
    BY <1>1, <1>2, <2>1 DEF EntryInv, Shape, Results
  <2> QED BY <1>2, <2>2 DEF Last, Uncertain, Rejections
<1>7. ASSUME NEW i \in 2 .. Len(t) PROVE t[i] \in {"observed", "escalated", "operator"}
  <2>1. i = Len(s) + 1 \/ (i \in 2 .. Len(s) /\ i \in 1 .. Len(s))
    BY <1>3, <1>4
  <2> QED BY <1>1, <1>4, <2>1 DEF EntryInv, Shape, Results
<1> QED BY <1>1, <1>3, <1>4, <1>5, <1>6, <1>7

\* Recording, acknowledging or ignoring an operator's resolution keeps the invariant.
LEMMA ApplyResolutionKeeps == ASSUME Inv, NEW d \in Commands, ApplyResolution(d) PROVE Inv'
<1> USE GuardAssumption, MutatingAssumption DEF Inv
<1>a. /\ guard.pc = "noticed"
      /\ UNCHANGED <<row, live, recovered, post, begun, effect, crashes, disk, older, lost, unlisted>>
  BY DEF ApplyResolution, hub, files
<1>b. denied' \in BOOLEAN /\ faults' \in 0 .. MaxFaults
  <2>1. denied \in BOOLEAN /\ faults \in 0 .. MaxFaults
    BY DEF TypeOK, JournalTypeOK, LogTypeOK
  <2>2. \/ denied' = denied /\ faults' = faults
        \/ denied' = TRUE /\ faults' = faults + 1 /\ faults < MaxFaults
    BY DEF ApplyResolution, Written, journal, files
  <2>3. faults' \in 0 .. MaxFaults
    BY <2>1, <2>2
  <2> QED BY <2>1, <2>2, <2>3
<1>c. guard' \in LoopType /\ guard'.pc \in {"noticed", "loop"}
  <2>1. guard \in LoopType
    BY DEF TypeOK, LoopType
  <2>2. guard' = Idle \/ guard' = [guard EXCEPT !.known = @ \ {d}]
    BY DEF ApplyResolution
  <2>3. CASE guard' = Idle
    BY <2>3, LoopRecords
  <2>4. CASE guard' = [guard EXCEPT !.known = @ \ {d}]
    BY <1>a, <2>1, <2>4 DEF LoopType
  <2> QED BY <2>2, <2>3, <2>4
<1>d. \/ entry' = entry
      \/ /\ Applicable(d)
         /\ \/ entry' = [entry EXCEPT ![d].res = row[d].revs,
                                      ![d].acked = Len(row[d].revs)]
            \/ entry' = [entry EXCEPT ![d].res = row[d].revs]
  BY DEF ApplyResolution, journal, files
<1>e. entry \in [Commands -> EntryType] /\ row[d].revs \in Seq(Kinds)
  BY DEF TypeOK, HubTypeOK, JournalTypeOK, LogTypeOK, EntryType
<1>3. ChainInv' /\ Exclusive'
  BY <1>a, <1>c DEF ChainInv, Exclusive
<1>4. HandInv'
  BY <1>c DEF HandInv, Forgotten
<1>5. CASE entry' = entry
  <2>1. TypeOK'
    BY <1>a, <1>b, <1>c, <1>5 DEF TypeOK, LoopType, HubTypeOK, JournalTypeOK, LogTypeOK, Results
  <2>2. ASSUME NEW c \in Commands PROVE CommandInv(c)'
    BY <1>a, <1>c, <1>5, <2>2, UntouchedKeeps, DiskUntouched DEF CommandInv, EffectInv, ReadInv, Results, Forgotten
  <2>3. PostInv'
    BY <1>a, <1>5 DEF PostInv, Results
  <2> QED BY <1>3, <1>4, <2>1, <2>2, <2>3
<1>6. CASE /\ Applicable(d)
           /\ \/ entry' = [entry EXCEPT ![d].res = row[d].revs,
                                        ![d].acked = Len(row[d].revs)]
              \/ entry' = [entry EXCEPT ![d].res = row[d].revs]
  <2>1. \A c \in Commands \ {d} : entry'[c] = entry[c]
    BY <1>e, <1>6
  <2>2. /\ entry' \in [Commands -> EntryType]
        /\ entry'[d].held = entry[d].held /\ entry'[d].marked = entry[d].marked
        /\ entry'[d].res = row[d].revs
        /\ entry'[d].acked \in {entry[d].acked, Len(row[d].revs)}
    <3>1. entry[d] \in EntryType /\ Len(row[d].revs) \in Nat
      BY <1>e
    <3>2. CASE entry' = [entry EXCEPT ![d].res = row[d].revs]
      BY <1>e, <3>1, <3>2 DEF EntryType
    <3>3. CASE entry' = [entry EXCEPT ![d].res = row[d].revs, ![d].acked = Len(row[d].revs)]
      <4> DEFINE e == [entry[d] EXCEPT !.res = row[d].revs, !.acked = Len(row[d].revs)]
      <4>1. entry' = [entry EXCEPT ![d] = e]
        BY <1>e, <3>3 DEF EntryType
      <4>2. /\ e \in EntryType /\ e.held = entry[d].held /\ e.marked = entry[d].marked
            /\ e.res = row[d].revs /\ e.acked = Len(row[d].revs)
        BY <1>e, <3>1 DEF EntryType
      <4> QED BY <1>e, <4>1, <4>2
    <3> QED BY <1>6, <3>2, <3>3
  <2>3. entry[d].acked <= Len(entry[d].res) /\ entry[d].acked \in Nat
    BY DEF TypeOK, JournalTypeOK, LogTypeOK, Results
  <2>4. Len(entry[d].res) \in Nat /\ Len(row[d].revs) = Len(entry[d].res) + 1
    BY <1>e, <1>6, AppendProperties DEF Applicable, Results, EntryType, Kinds, Resolutions
  <2>5. TypeOK'
    <3>1. ASSUME NEW c \in Commands PROVE entry'[c].acked <= Len(entry'[c].res)
      <4>1. CASE c = d
        <5>1. entry'[d].acked = entry[d].acked \/ entry'[d].acked = Len(row[d].revs)
          BY <2>2
        <5> QED BY <2>2, <2>3, <2>4, <4>1, <5>1, SMTT(30)
      <4>2. CASE c # d
        BY <2>1, <4>2 DEF TypeOK, JournalTypeOK, LogTypeOK, Results
      <4> QED BY <4>1, <4>2
    <3> QED BY <1>a, <1>b, <1>c, <2>2, <3>1
         DEF TypeOK, LoopType, HubTypeOK, JournalTypeOK, LogTypeOK, EntryType,
       Results
  <2>6. ASSUME NEW c \in Commands PROVE CommandInv(c)'
    <3>1. CASE c # d
      BY <1>a, <1>c, <2>1, <2>6, <3>1, UntouchedKeeps, DiskUntouched
         DEF CommandInv, EffectInv, ReadInv, Results, Forgotten
    <3>2. CASE c = d /\ entry[d].held = "entry"
      <4>1. RowInv(c)' /\ LinkInv(c)'
        BY <1>a, <1>6, <2>2, <3>2, ApplicableFacts
           DEF CommandInv, RowInv, LinkInv, InFlight, Settled
      <4>2. EntryInv(c)'
        BY <1>a, <1>6, <2>2, <3>2, ApplicableFacts, SMTT(30) DEF CommandInv, EntryInv, Shape, Results
      <4>3. EffectInv(c)' /\ ReadInv(c)'
        BY <1>a, <1>c, <1>6, <2>2, <3>2, ApplicableFacts
           DEF CommandInv, EffectInv, ReadInv, Results, Forgotten
      <4>4. /\ entry'[c].acked \in Nat /\ entry[c].acked <= entry'[c].acked
            /\ entry'[c].res # <<>>
        <5>1. entry'[d].acked = entry[d].acked \/ entry'[d].acked = Len(row[d].revs)
          BY <2>2
        <5>2. row[d].revs # <<>>
          BY <1>e, <2>4
        <5> QED BY <2>2, <2>3, <2>4, <3>2, <5>1, <5>2
      <4>5. DiskInv(c)'
        BY <1>a, <2>2, <2>6, <3>2, <4>4, DiskKept
      <4> QED BY <4>1, <4>2, <4>3, <4>5 DEF CommandInv
    <3>3. CASE c = d /\ entry[d].held # "entry"
      <4>1. DiskInv(c)'
        BY <1>a, <2>6, <3>3, DiskKept
      <4> QED BY <1>a, <1>c, <2>2, <2>6, <3>3, <4>1
           DEF CommandInv, RowInv, EntryInv, Shape, LinkInv, EffectInv, ReadInv
    <3> QED BY <3>1, <3>2, <3>3
  <2>7. PostInv'
    BY <1>a DEF PostInv
  <2> QED BY <1>3, <1>4, <2>5, <2>6, <2>7
<1> QED BY <1>d, <1>5, <1>6

\* An entry that was not lost is acknowledged to its last revision only when the hub
\* settled the row.
LEMMA AckedIsSettled ==
    ASSUME Inv, NEW c \in Commands \ lost, State(c) = "acked"
    PROVE  row[c].state \in Settled
<1> DEFINE s == entry[c].res
           t == row[c].revs
<1>1. /\ TypeOK /\ RowInv(c) /\ LinkInv(c) /\ s \in Seq(Kinds) /\ t \in Seq(Kinds)
      /\ row[c].state \in RowStates /\ entry[c].acked \in Nat /\ Len(s) \in Nat
      /\ Len(t) \in Nat
  <2>1. TypeOK /\ RowInv(c) /\ LinkInv(c)
    BY DEF Inv, CommandInv
  <2>2. s \in Seq(Kinds) /\ Len(s) \in Nat /\ entry[c].acked \in Nat
    BY <2>1 DEF TypeOK, JournalTypeOK, LogTypeOK
  <2>3. t \in Seq(Kinds) /\ Len(t) \in Nat /\ row[c].state \in RowStates
    BY <2>1 DEF TypeOK, HubTypeOK
  <2> QED BY <2>1, <2>2, <2>3
<1>2. /\ entry[c].held = "entry" /\ s # <<>> /\ Last(s) \notin Uncertain
      /\ entry[c].acked >= Len(s)
  BY <1>1, StateFacts DEF Open, Results
<1>3. Len(s) >= 1
  BY <1>1, <1>2
<1>4. row[c].state \notin {"none", "queued"}
  BY <1>1, <1>2 DEF RowInv
<1>5. CASE c \notin begun
  BY <1>1, <1>2, <1>3, <1>5 DEF LinkInv
<1>6. CASE c \in begun
  <2>1. SUFFICES ASSUME row[c].state \in InFlight PROVE FALSE
    BY <1>1, <1>4 DEF RowStates, InFlight, Settled
  <2>2. Extends(t, s) /\ entry[c].acked <= Len(t)
    BY <1>1, <1>6, <2>1 DEF LinkInv, Results
  <2>3. Len(t) = Len(s) /\ t[Len(t)] = s[Len(s)]
    <3>1. Len(t) = Len(s)
      BY <1>1, <1>2, <2>2 DEF Extends
    <3>2. Len(t) \in 1 .. Len(t)
      BY <1>1, <1>3, <3>1
    <3> QED BY <2>2, <3>1, <3>2 DEF Extends
  <2>4. t # <<>>
    BY <1>3, <2>3
  <2> QED BY <1>1, <1>2, <2>1, <2>3, <2>4 DEF RowInv, InFlight, Last
<1> QED BY <1>5, <1>6

\* Compaction keeps the invariant.
LEMMA CompactJournalKeeps == ASSUME Inv, CompactJournal PROVE Inv'
<1> USE GuardAssumption, MutatingAssumption DEF Inv
<1>a. /\ UNCHANGED <<row, live, denied, guard, recovered, post, begun, effect, lost, unlisted,
                     crashes>>
      /\ faults' \in 0 .. MaxFaults
  BY DEF CompactJournal, hub, TypeOK
<1>b. entry \in [Commands -> EntryType]
  BY DEF TypeOK, JournalTypeOK, LogTypeOK, EntryType
<1>c. /\ NoEntry \in EntryType /\ Tombstone \in EntryType
      /\ NoEntry.held = "no" /\ Tombstone.held = "tombstone"
      /\ NoEntry.acked = 0 /\ Tombstone.acked = 0
      /\ NoEntry.res = <<>> /\ Tombstone.res = <<>> /\ Len(<<>>) = 0
  <2>1. <<>> \in Seq(Kinds) /\ Len(<<>>) = 0
    OBVIOUS
  <2> QED BY <2>1 DEF NoEntry, Tombstone, EntryType
<1>d. PICK old : \/ Compact(old) /\ UNCHANGED faults
                 \/ faults < MaxFaults /\ faults' = faults + 1 /\ CompactDetached(old)
  BY DEF CompactJournal
<1>g. PICK log : log = Compacted(old)
  OBVIOUS
<1>e. ASSUME NEW c \in Commands
      PROVE  \/ log[c] = entry[c]
             \/ /\ log[c] \in {NoEntry, Tombstone} /\ entry[c].held # "no"
                /\ \/ entry[c].held = "tombstone"
                   \/ /\ row[c].state \in Settled \/ c \in lost
                      /\ entry[c].held = "entry" /\ Results(c) # <<>>
  <2>1. \/ log[c] = entry[c]
        \/ /\ log[c] \in {NoEntry, Tombstone}
           /\ Prunable(c) \/ entry[c].held = "tombstone"
    BY <1>g DEF Compacted
  <2> QED BY <2>1, AckedIsSettled, StateFacts DEF Prunable
<1>f. LogTypeOK(log)
  <2>1. log = [c \in Commands |-> log[c]]
    BY <1>g DEF Compacted
  <2>2. log \in [Commands -> EntryType]
    BY <1>b, <1>c, <1>e, <2>1
  <2>3. ASSUME NEW c \in Commands PROVE log[c].acked <= Len(log[c].res)
    <3>1. entry[c].acked <= Len(entry[c].res)
      BY DEF TypeOK, JournalTypeOK, LogTypeOK
    <3> QED BY <1>c, <1>e, <3>1
  <2> QED BY <2>2, <2>3 DEF LogTypeOK, EntryType
<1>3. ChainInv' /\ PostInv' /\ Exclusive'
  BY <1>a DEF ChainInv, PostInv, Exclusive
<1>4. CASE Compact(old)
  <2>0. entry' = log /\ disk' = {} /\ older' \in [Commands -> SUBSET Commands]
    BY <1>4, <1>g DEF Compact, OrderOfEntries, TypeOK, JournalTypeOK
  <2>1. TypeOK'
    BY <1>a, <1>f, <2>0 DEF TypeOK, HubTypeOK, JournalTypeOK
  <2>2. ASSUME NEW c \in Commands PROVE CommandInv(c)'
    <3>1. DiskInv(c)'
      BY <2>0 DEF DiskInv
    <3>2. CASE log[c] = entry[c]
      <4>1. RowInv(c)' /\ EntryInv(c)' /\ LinkInv(c)'
        BY <1>a, <2>0, <2>2, <3>2, UntouchedKeeps
      <4> QED BY <1>a, <2>0, <2>2, <3>1, <3>2, <4>1
           DEF CommandInv, EffectInv, ReadInv, Results, Forgotten
    <3>3. CASE /\ log[c] \in {NoEntry, Tombstone} /\ entry[c].held # "no"
               /\ entry[c].held = "tombstone" \/ row[c].state \in Settled \/ c \in lost
      <4>1. entry'[c].held # "entry"
        BY <1>c, <2>0, <3>3
      <4>2. RowInv(c)' /\ EntryInv(c)' /\ LinkInv(c)'
        BY <1>a, <2>2, <3>3, <4>1
           DEF CommandInv, RowInv, EntryInv, Shape, LinkInv, InFlight, Settled
      <4> QED BY <1>a, <2>2, <3>1, <4>1, <4>2
           DEF CommandInv, EffectInv, ReadInv, Forgotten
    <3> QED BY <1>e, <3>2, <3>3
  <2>3. HandInv'
    <3>1. SUFFICES ASSUME guard.pc \in {"offered", "admitted", "marked", "running"}
                   PROVE  HandInv'
      BY <1>a DEF HandInv
    <3>2. guard.cmd \in Commands
      BY <3>1 DEF HandInv
    <3>3. \/ entry'[guard.cmd] = entry[guard.cmd]
          \/ /\ entry'[guard.cmd].held # "entry"
             /\ entry[guard.cmd].held # "entry" \/ Results(guard.cmd) # <<>>
      BY <1>c, <1>e, <2>0, <3>2
    <3> QED BY <1>a, <3>1, <3>2, <3>3 DEF HandInv, Results, Forgotten
  <2> QED BY <1>3, <2>1, <2>2, <2>3
<1>5. CASE CompactDetached(old)
  <2>0. disk' = {log} /\ UNCHANGED <<entry, older>>
    BY <1>5, <1>g DEF CompactDetached
  <2>1. TypeOK'
    BY <1>a, <1>f, <2>0 DEF TypeOK, HubTypeOK, JournalTypeOK, LogTypeOK
  <2>2. ASSUME NEW c \in Commands PROVE CommandInv(c)'
    <3>1. RowInv(c)' /\ EntryInv(c)' /\ LinkInv(c)'
      BY <1>a, <2>0, <2>2, UntouchedKeeps
    <3>2. EffectInv(c)' /\ ReadInv(c)'
      BY <1>a, <2>0, <2>2 DEF CommandInv, EffectInv, ReadInv, Results, Forgotten
    <3>3. LogInv(c, log[c])'
      <4>1. CASE log[c] = entry[c]
        <5>1. entry[c].acked \in Nat /\ entry[c].acked <= entry[c].acked
          BY <1>b DEF EntryType
        <5>2. CommandInv(c)
          BY <2>2
        <5> QED BY <1>a, <2>0, <4>1, <5>1, <5>2
             DEF CommandInv, RowInv, EntryInv, Shape, LinkInv, EffectInv, LogInv, Results
      <4>2. CASE log[c] \in {NoEntry, Tombstone} /\ entry[c].held # "no"
        <5>1. log[c].held # "entry"
          BY <1>c, <4>2
        <5>2. row[c].state \notin {"none", "queued"}
          BY <2>2, <4>2 DEF CommandInv, RowInv
        <5> QED BY <1>a, <5>1, <5>2 DEF LogInv, Shape
      <4> QED BY <1>e, <4>1, <4>2
    <3>4. DiskInv(c)'
      BY <2>0, <3>3 DEF DiskInv
    <3> QED BY <3>1, <3>2, <3>4 DEF CommandInv
  <2>3. HandInv'
    BY <1>a, <2>0 DEF HandInv, Results, Forgotten
  <2> QED BY <1>3, <2>1, <2>2, <2>3
<1> QED BY <1>d, <1>4, <1>5

---------------------------------------------------------------------------
\* Steps of the hub

RowType ==
    [state : RowStates, revs : Seq(Kinds), fence : BOOLEAN,
     cause : {"none", "withdrawn", "never_started", "report", "operator"}]

\* One row takes a value that is in order by itself: the command stays settled once
\* it is, gets in flight only through the fence and loses no revision while it is.
LEMMA RowStepKeeps ==
    ASSUME Inv, NEW d \in Commands, NEW r \in RowType, row' = [row EXCEPT ![d] = r],
           entry' = entry, begun' = begun, lost' = lost, disk' = disk, effect' = effect,
           RowInv(d)', LinkInv(d)',
           r.state \in {"none", "queued"} => row[d].state \in {"none", "queued"},
           row[d].state \in Settled => r.state \in Settled,
           r.state \in InFlight /\ d \in Mutating =>
               row[d].state \in InFlight \/ ~Fenced(d),
           r.state \in InFlight => row[d].state \in InFlight \/ d \notin begun,
           r.state \in InFlight => Len(row[d].revs) <= Len(r.revs)
    PROVE  /\ row' \in [Commands -> RowType]
           /\ row'[d] = r /\ \A c \in Commands \ {d} : row'[c] = row[c]
           /\ \A c \in Commands : RowInv(c)' /\ EntryInv(c)' /\ LinkInv(c)' /\ DiskInv(c)'
           /\ Exclusive' /\ (post' = post => PostInv')
<1> USE MutatingAssumption
<1>1. row \in [Commands -> RowType]
  BY DEF Inv, TypeOK, HubTypeOK, RowType
<1>2. /\ row' \in [Commands -> RowType] /\ row'[d] = r
      /\ \A c \in Commands \ {d} : row'[c] = row[c]
  BY <1>1
<1>3. ASSUME NEW c \in Commands PROVE RowInv(c)' /\ EntryInv(c)' /\ LinkInv(c)' /\ DiskInv(c)'
  <2>1. CASE c = d
    <3>1. entry[d].acked \in Nat /\ entry[d].acked <= entry[d].acked
      BY DEF Inv, TypeOK, JournalTypeOK, LogTypeOK
    <3>2. DiskInv(d)'
      BY <1>2, <3>1, DiskKept DEF Inv
    <3> QED BY <2>1, <3>2 DEF Inv, CommandInv, EntryInv, Shape, Results
  <2>2. CASE c # d
    BY <1>2, <1>3, <2>2, UntouchedKeeps, DiskUntouched DEF Inv
  <2> QED BY <2>1, <2>2
<1>4. Exclusive'
  <2>1. SUFFICES ASSUME NEW a \in Mutating, NEW b \in Mutating, a # b,
                        row'[a].state \in InFlight, row'[b].state \in InFlight
                 PROVE  FALSE
    BY DEF Exclusive
  <2>2. ASSUME NEW x \in Mutating, x # d, row[x].state \in InFlight, d \in Mutating,
               r.state \in InFlight
        PROVE  FALSE
    <3>1. row[x].fence
      BY <2>2 DEF Inv, CommandInv, RowInv
    <3>2. Fenced(d)
      BY <2>2, <3>1 DEF Fenced
    <3> QED BY <2>2, <3>2 DEF Inv, Exclusive
  <2> QED BY <1>2, <2>1, <2>2 DEF Inv, Exclusive
<1>5. ASSUME post' = post PROVE PostInv'
  <2>1. SUFFICES ASSUME post # NoPost PROVE PostInv'
    BY <1>5 DEF PostInv
  <2>2. post.cmd \in Commands /\ post.rev \in Nat
    BY <2>1 DEF Inv, PostInv, TypeOK
  <2>3. CASE post.cmd # d
    BY <1>2, <1>5, <2>1, <2>2, <2>3 DEF Inv, PostInv, Results
  <2>4. CASE post.cmd = d
    <3>1. Len(row[d].revs) \in Nat /\ Len(r.revs) \in Nat
      BY <1>1 DEF RowType
    <3> QED BY <1>2, <1>5, <2>1, <2>2, <2>4, <3>1 DEF Inv, PostInv, Results, InFlight, Settled
  <2> QED BY <2>3, <2>4
<1> QED BY <1>2, <1>3, <1>4, <1>5

\* A hub step of a caller, of time or of the operator keeps the invariant.
LEMMA HubKeeps == ASSUME Inv, NEW d \in Commands, Hub(d) PROVE Inv'
<1> USE GuardAssumption, MutatingAssumption DEF Inv
<1>a. /\ UNCHANGED <<entry, denied, faults, guard, recovered, post, begun, effect, crashes, disk, older, lost, unlisted>>
      /\ TypeOK /\ CommandInv(d) /\ row \in [Commands -> RowType] /\ row[d] \in RowType
      /\ live \in [Commands -> BOOLEAN]
  BY DEF Hub, journal, files, TypeOK, HubTypeOK, RowType
<1>b. ASSUME NEW r \in RowType, row' = [row EXCEPT ![d] = r], live' = live,
             RowInv(d)', LinkInv(d)', row[d].state \notin Settled,
             r.state \notin InFlight, row[d].state # "dispatched", r.state # "completed",
             r.state \in {"none", "queued"} => row[d].state = "none"
      PROVE  Inv'
  <2>1. /\ row' \in [Commands -> RowType]
        /\ row'[d] = r /\ \A c \in Commands \ {d} : row'[c] = row[c]
        /\ \A c \in Commands : RowInv(c)' /\ EntryInv(c)' /\ LinkInv(c)' /\ DiskInv(c)'
        /\ Exclusive' /\ PostInv'
    BY <1>a, <1>b, RowStepKeeps
  <2>2. TypeOK'
    BY <1>a, <1>b, <2>1 DEF TypeOK, HubTypeOK, RowType, JournalTypeOK, LogTypeOK, Results
  <2>3. ASSUME NEW c \in Commands PROVE CommandInv(c)'
    BY <1>a, <1>b, <2>1, <2>3 DEF CommandInv, EffectInv, ReadInv, Results, InFlight, Forgotten
  <2>4. ChainInv' /\ HandInv'
    BY <1>a, <1>b, <2>1 DEF ChainInv, HandInv, Results, Forgotten
  <2> QED BY <2>1, <2>2, <2>3, <2>4
<1>1. CASE Enqueue(d)
  <2> DEFINE r == [row[d] EXCEPT !.state = "queued"]
  <2>1. r \in RowType /\ r.state = "queued" /\ r.revs = row[d].revs
    BY <1>a DEF RowType, RowStates
  <2>2. row' = [row EXCEPT ![d] = r] /\ live' = live /\ row[d].state = "none"
    BY <1>1, <1>a DEF Enqueue, RowType
  <2>3. row'[d] = r
    BY <1>a, <2>2
  <2>4. RowInv(d)' /\ LinkInv(d)'
    BY <1>a, <2>1, <2>2, <2>3 DEF CommandInv, RowInv, LinkInv, InFlight, Settled
  <2> QED BY <1>b, <2>1, <2>2, <2>4 DEF InFlight, Settled
<1>2. CASE Withdraw(d)
  <2> DEFINE r == [row[d] EXCEPT !.state = "failed", !.cause = "withdrawn"]
  <2>1. r \in RowType /\ r.state = "failed"
    BY <1>a DEF RowType, RowStates
  <2>2. row' = [row EXCEPT ![d] = r] /\ live' = live /\ row[d].state = "queued"
    BY <1>2, <1>a DEF Withdraw, RowType
  <2>3. row'[d] = r
    BY <1>a, <2>2
  <2>4. RowInv(d)' /\ LinkInv(d)'
    BY <1>a, <2>1, <2>3 DEF RowInv, LinkInv, InFlight, Settled
  <2> QED BY <1>b, <2>1, <2>2, <2>4 DEF InFlight, Settled
<1>3. CASE ResolveByOperator(d)
  <2> DEFINE revs == Append(row[d].revs, "operator")
             r == [row[d] EXCEPT !.state = "failed", !.revs = revs,
                                 !.cause = "operator", !.fence = FALSE]
  <2>1. revs \in Seq(Kinds)
    BY <1>a DEF RowType, Kinds, Resolutions
  <2>2. r \in RowType /\ r.state = "failed"
    BY <1>a, <2>1 DEF RowType, RowStates
  <2>3. row' = [row EXCEPT ![d] = r] /\ live' = live /\ row[d].state = "outcome_unknown"
    BY <1>3, <1>a DEF ResolveByOperator, RowType
  <2>4. row'[d] = r
    BY <1>a, <2>3
  <2>5. RowInv(d)' /\ LinkInv(d)'
    BY <1>a, <2>2, <2>4 DEF RowInv, LinkInv, InFlight, Settled
  <2> QED BY <1>b, <2>2, <2>3, <2>5 DEF InFlight, Settled
<1>4. CASE AuthorityExpires(d)
  <2>1. row' = row /\ live' \in [Commands -> BOOLEAN]
    BY <1>4, <1>a DEF AuthorityExpires
  <2>2. TypeOK'
    BY <1>a, <2>1 DEF TypeOK, HubTypeOK, JournalTypeOK, LogTypeOK, Results
  <2>3. ASSUME NEW c \in Commands PROVE CommandInv(c)'
    BY <1>a, <2>1, <2>3, UntouchedKeeps, DiskUntouched DEF CommandInv, EffectInv, ReadInv, Results, Forgotten
  <2>4. ChainInv' /\ HandInv' /\ PostInv' /\ Exclusive'
    BY <1>a, <2>1 DEF ChainInv, HandInv, PostInv, Exclusive, Results, Forgotten
  <2> QED BY <2>2, <2>3, <2>4
<1> QED BY <1>1, <1>2, <1>3, <1>4 DEF Hub

\* Dispatching a queued command keeps the invariant of its row.
LEMMA DispatchFacts ==
    ASSUME Inv, NEW d \in Commands, Dispatch(d), entry' = entry, begun' = begun, post' = post,
           lost' = lost, disk' = disk, effect' = effect
    PROVE  /\ row' \in [Commands -> RowType] /\ live' = live
           /\ row[d].state = "queued" /\ row'[d].state = "dispatched"
           /\ \A c \in Commands \ {d} : row'[c] = row[c]
           /\ \A c \in Commands : RowInv(c)' /\ EntryInv(c)' /\ LinkInv(c)' /\ DiskInv(c)'
           /\ Exclusive' /\ PostInv'
<1> DEFINE r == [row[d] EXCEPT !.state = "dispatched", !.fence = d \in Mutating]
<1>1. row \in [Commands -> RowType] /\ row[d] \in RowType /\ CommandInv(d)
  BY DEF Inv, TypeOK, HubTypeOK, RowType
<1>2. /\ r \in RowType /\ r.state = "dispatched" /\ r.revs = row[d].revs
      /\ d \in Mutating => r.fence
  <2>1. ASSUME NEW f \in BOOLEAN
        PROVE  LET q == [row[d] EXCEPT !.state = "dispatched", !.fence = f] IN
               /\ q \in RowType /\ q.state = "dispatched" /\ q.revs = row[d].revs
               /\ q.fence = f
    BY <1>1, <2>1 DEF RowType, RowStates
  <2>2. (d \in Mutating) \in BOOLEAN
    OBVIOUS
  <2> QED BY <2>1, <2>2, Zenon
<1>3. row' = [row EXCEPT ![d] = r] /\ row[d].state = "queued" /\ live' = live
  BY <1>1 DEF Dispatch, RowType
<1>4. d \notin begun /\ entry[d].held = "no" /\ row[d].revs = <<>>
  BY <1>1, <1>3 DEF CommandInv, RowInv
<1>5. row'[d] = r
  BY <1>1, <1>3
<1>6. RowInv(d)' /\ LinkInv(d)'
  BY <1>2, <1>4, <1>5 DEF RowInv, LinkInv, InFlight
<1>7. r.state \in InFlight /\ d \in Mutating => ~Fenced(d)
  BY DEF Dispatch
<1>8. Len(row[d].revs) <= Len(r.revs)
  BY <1>1, <1>2 DEF RowType
<1> HIDE DEF r
<1>9. /\ row' \in [Commands -> RowType] /\ \A c \in Commands \ {d} : row'[c] = row[c]
      /\ \A c \in Commands : RowInv(c)' /\ EntryInv(c)' /\ LinkInv(c)' /\ DiskInv(c)'
      /\ Exclusive' /\ PostInv'
  BY <1>2, <1>3, <1>4, <1>6, <1>7, <1>8, RowStepKeeps DEF Settled
<1> QED BY <1>2, <1>3, <1>5, <1>9

\* A dispatched command the poll does not list has no marker and no answer, unless it
\* is forgotten.
LEMMA UnlistedIsUnmarked ==
    ASSUME Inv, NEW d \in Commands \ Forgotten, guard.pc = "polling", row[d].state = "dispatched",
           d \notin guard.known
    PROVE  d \notin begun /\ (entry[d].held = "entry" => Results(d) = <<>>)
BY DEF Inv, CommandInv, EntryInv, Shape, LinkInv, ReadInv, InFlight,
       Forgotten

\* The poll's second transaction, with its answer, keeps the invariant.
LEMMA OfferKeeps == ASSUME Inv, NEW d \in Commands, Offer(d) PROVE Inv'
<1> USE GuardAssumption, MutatingAssumption DEF Inv
<1>a. /\ guard.pc = "polling"
      /\ guard' \in LoopType /\ guard'.pc = "offered" /\ guard'.cmd = d
      /\ UNCHANGED <<entry, denied, faults, recovered, post, begun, effect, crashes, disk, older, lost, unlisted>>
  BY LoopRecords DEF Offer, journal, files
<1>b. /\ row' \in [Commands -> RowType] /\ live' = live /\ row'[d].state = "dispatched"
      /\ d \notin Forgotten => d \notin begun /\ (entry[d].held = "entry" => Results(d) = <<>>)
      /\ \A c \in Commands \ {d} : row'[c] = row[c]
      /\ \A c \in Commands : RowInv(c)' /\ EntryInv(c)' /\ LinkInv(c)' /\ DiskInv(c)'
      /\ Exclusive' /\ PostInv'
  <2>1. CASE Dispatch(d)
    <3>1. row[d].state = "queued"
      BY <2>1 DEF Dispatch
    <3>2. d \notin begun /\ (entry[d].held = "entry" => Results(d) = <<>>)
      BY <3>1 DEF CommandInv, RowInv
    <3> QED BY <1>a, <2>1, <3>2, DispatchFacts
  <2>2. CASE Reoffer(d, guard.known)
    <3>1. row' = row /\ live' = live /\ row[d].state = "dispatched" /\ d \notin guard.known
      BY <2>2 DEF Reoffer, Unjournaled, hub, files
    <3>2. \A c \in Commands : RowInv(c)' /\ EntryInv(c)' /\ LinkInv(c)' /\ DiskInv(c)'
      BY <1>a, <3>1, UntouchedKeeps, DiskUntouched
    <3>3. Exclusive' /\ PostInv'
      BY <1>a, <3>1 DEF Exclusive, PostInv, Results
    <3>4. row' \in [Commands -> RowType]
      BY <3>1 DEF TypeOK, HubTypeOK, RowType
    <3> QED BY <1>a, <3>1, <3>2, <3>3, <3>4, UnlistedIsUnmarked
  <2> QED BY <2>1, <2>2 DEF Offer
<1>1. TypeOK'
  BY <1>a, <1>b DEF TypeOK, LoopType, HubTypeOK, RowType, JournalTypeOK, LogTypeOK,
       Results
<1>2. ASSUME NEW c \in Commands PROVE CommandInv(c)'
  BY <1>a, <1>b, <1>2 DEF CommandInv, EffectInv, ReadInv, Results, Forgotten
<1>3. ChainInv' /\ HandInv'
  BY <1>a, <1>b DEF ChainInv, HandInv, Results, Forgotten
<1> QED BY <1>b, <1>1, <1>2, <1>3

\* A poll whose answer is lost keeps the invariant.
LEMMA LoseOfferKeeps == ASSUME Inv, NEW d \in Commands, LoseOffer(d) PROVE Inv'
<1> USE GuardAssumption, MutatingAssumption DEF Inv
<1>a. /\ guard.pc = "polling" /\ Dispatch(d) /\ guard' \in LoopType /\ guard'.pc = "loop"
      /\ UNCHANGED <<entry, denied, faults, recovered, post, begun, effect, crashes, disk, older, lost, unlisted>>
  BY LoopRecords DEF LoseOffer, journal, files
<1>b. /\ row' \in [Commands -> RowType] /\ live' = live /\ row'[d].state = "dispatched"
      /\ \A c \in Commands \ {d} : row'[c] = row[c]
      /\ \A c \in Commands : RowInv(c)' /\ EntryInv(c)' /\ LinkInv(c)' /\ DiskInv(c)'
      /\ Exclusive' /\ PostInv'
  BY <1>a, DispatchFacts
<1>1. TypeOK'
  BY <1>a, <1>b DEF TypeOK, LoopType, HubTypeOK, RowType, JournalTypeOK, LogTypeOK,
       Results
<1>2. ASSUME NEW c \in Commands PROVE CommandInv(c)'
  BY <1>a, <1>b, <1>2 DEF CommandInv, EffectInv, ReadInv, Results, Forgotten
<1>3. ChainInv' /\ HandInv'
  BY <1>a DEF ChainInv, HandInv, Forgotten
<1> QED BY <1>b, <1>1, <1>2, <1>3

\* Failing an expired command the Guard does not know keeps the invariant.
LEMMA PollFailUnstartedKeeps == ASSUME Inv, NEW d \in Commands, PollFailUnstarted(d) PROVE Inv'
<1> USE GuardAssumption, MutatingAssumption DEF Inv
<1> DEFINE r == [row[d] EXCEPT !.state = "failed", !.cause = "never_started", !.fence = FALSE]
<1>a. /\ guard.pc = "polling" /\ FailUnstarted(d, guard.known)
      /\ UNCHANGED <<entry, denied, faults, guard, recovered, post, begun, effect, crashes, disk, older, lost, unlisted>>
      /\ row \in [Commands -> RowType] /\ row[d] \in RowType
  BY DEF PollFailUnstarted, journal, files, TypeOK, HubTypeOK, RowType
<1>b. r \in RowType /\ r.state = "failed"
  BY <1>a DEF RowType, RowStates
<1>c. row' = [row EXCEPT ![d] = r] /\ live' = live /\ row'[d] = r
  BY <1>a DEF FailUnstarted, RowType
<1>d. RowInv(d)' /\ LinkInv(d)'
  BY <1>b, <1>c DEF RowInv, LinkInv, InFlight, Settled
<1> HIDE DEF r
<1>e. /\ row' \in [Commands -> RowType]
      /\ \A c \in Commands \ {d} : row'[c] = row[c]
      /\ \A c \in Commands : RowInv(c)' /\ EntryInv(c)' /\ LinkInv(c)' /\ DiskInv(c)'
      /\ Exclusive' /\ PostInv'
  BY <1>a, <1>b, <1>c, <1>d, RowStepKeeps DEF InFlight, Settled
<1>1. TypeOK'
  BY <1>a, <1>c, <1>e DEF TypeOK, LoopType, HubTypeOK, RowType, JournalTypeOK, LogTypeOK,
       Results
<1>2. ASSUME NEW c \in Commands PROVE CommandInv(c)'
  BY <1>a, <1>b, <1>c, <1>e, <1>2 DEF CommandInv, EffectInv, ReadInv, Results, Forgotten
<1>3. ChainInv' /\ HandInv'
  BY <1>a DEF ChainInv, HandInv, Forgotten
<1> QED BY <1>e, <1>1, <1>2, <1>3

---------------------------------------------------------------------------
\* Reports

\* A report that is not accepted changes nothing; one that is changes one row in
\* flight.
LEMMA SubmitFacts ==
    ASSUME TypeOK, NEW d \in Commands, NEW chain \in Seq(Kinds), chain # <<>>,
           SubmitReport(d, chain)
    PROVE  /\ live' = live
           /\ ~Accepts(d, chain) => row' = row
           /\ Accepts(d, chain) =>
                 /\ row[d].state \in InFlight
                 /\ \E r \in RowType :
                       /\ row' = [row EXCEPT ![d] = r] /\ row'[d] = r
                       /\ r.state = NextState(Last(chain)) /\ r.revs = chain
                       /\ r.cause = "report"
                       /\ Last(chain) \in Uncertain => r.fence = row[d].fence
<1>1. live' = live /\ (~Accepts(d, chain) => row' = row)
  BY DEF SubmitReport
<1>2. ASSUME Accepts(d, chain)
      PROVE  /\ row[d].state \in InFlight
             /\ \E r \in RowType :
                   /\ row' = [row EXCEPT ![d] = r] /\ row'[d] = r
                   /\ r.state = NextState(Last(chain)) /\ r.revs = chain
                   /\ r.cause = "report"
                   /\ Last(chain) \in Uncertain => r.fence = row[d].fence
  <2>1. row \in [Commands -> RowType] /\ row[d] \in RowType
    BY DEF TypeOK, HubTypeOK, RowType
  <2>2. row[d].state \in InFlight
    BY <1>2 DEF Accepts, InFlight
  <2>3. NextState(Last(chain)) \in RowStates
    BY DEF NextState, RowStates
  <2> DEFINE f == row[d].fence /\ Last(chain) \in Uncertain
             r == [row[d] EXCEPT !.state = NextState(Last(chain)), !.revs = chain,
                                 !.cause = "report", !.fence = f]
  <2>4. f \in BOOLEAN /\ (Last(chain) \in Uncertain => f = row[d].fence)
    <3>1. row[d].fence \in BOOLEAN
      BY <2>1 DEF RowType
    <3> QED BY <3>1, Zenon
  <2>5. row' = [row EXCEPT ![d] = r]
    BY <1>2, <2>1 DEF SubmitReport, RowType
  <2> HIDE DEF f
  <2>6. /\ r \in RowType /\ r.state = NextState(Last(chain)) /\ r.revs = chain
        /\ r.cause = "report" /\ r.fence = f
    BY <2>1, <2>3, <2>4 DEF RowType
  <2>7. row'[d] = r
    BY <2>1, <2>5
  <2> HIDE DEF r
  <2> QED BY <2>2, <2>4, <2>5, <2>6, <2>7
<1> QED BY <1>1, <1>2

\* A report of a settled outcome, or of one the journal holds as open, keeps what
\* hub, journal and redelivery agree on.
LEMMA SubmitKeeps ==
    ASSUME Inv, NEW d \in Commands, NEW chain \in Seq(Kinds), chain # <<>>,
           SubmitReport(d, chain), entry' = entry, begun' = begun, lost' = lost,
           disk' = disk, effect' = effect,
           Accepts(d, chain) /\ Last(chain) \in Uncertain =>
               /\ d \in begun /\ Extends(chain, Results(d))
               /\ entry[d].acked <= Len(chain)
    PROVE  /\ row' \in [Commands -> RowType] /\ live' = live
           /\ \A c \in Commands \ {d} : row'[c] = row[c]
           /\ \/ row' = row /\ ~Accepts(d, chain)
              \/ /\ Accepts(d, chain) /\ row[d].state \in InFlight
                 /\ row'[d].state = NextState(Last(chain)) /\ row'[d].revs = chain
                 /\ row'[d].cause = "report"
           /\ \A c \in Commands : RowInv(c)' /\ EntryInv(c)' /\ LinkInv(c)' /\ DiskInv(c)'
           /\ Exclusive' /\ (post' = post => PostInv')
<1>1. /\ TypeOK /\ live' = live /\ row \in [Commands -> RowType] /\ CommandInv(d)
      /\ row[d] \in RowType
  BY SubmitFacts DEF Inv, TypeOK, HubTypeOK, RowType
<1>2. CASE ~Accepts(d, chain)
  <2>1. row' = row
    BY <1>1, <1>2, SubmitFacts
  <2>2. \A c \in Commands : RowInv(c)' /\ EntryInv(c)' /\ LinkInv(c)' /\ DiskInv(c)'
    BY <2>1, UntouchedKeeps, DiskUntouched DEF Inv
  <2>3. Exclusive' /\ (post' = post => PostInv')
    BY <2>1 DEF Inv, Exclusive, PostInv, Results
  <2> QED BY <1>1, <1>2, <2>1, <2>2, <2>3
<1>3. CASE Accepts(d, chain)
  <2>1. PICK r \in RowType :
           /\ row' = [row EXCEPT ![d] = r] /\ row'[d] = r
           /\ r.state = NextState(Last(chain)) /\ r.revs = chain /\ r.cause = "report"
           /\ Last(chain) \in Uncertain => r.fence = row[d].fence
    BY <1>1, <1>3, SubmitFacts
  <2>2. row[d].state \in InFlight /\ row[d].state \notin Settled
    BY <1>1, <1>3, SubmitFacts DEF InFlight, Settled
  <2>3. r.state \in InFlight =>
           r.state = "outcome_unknown" /\ Last(chain) \in Uncertain
    BY <2>1 DEF NextState, InFlight
  <2>4. r.state \in Settled \/ r.state = "outcome_unknown"
    BY <2>1 DEF NextState, Settled
  <2>5. RowInv(d)'
    BY <1>1, <1>3, <2>1, <2>2, <2>3, <2>4 DEF CommandInv, RowInv, Settled, InFlight
  <2>6. LinkInv(d)'
    <3>1. d \in begun \ lost /\ row[d].state \in InFlight =>
             /\ entry[d].held = "entry" /\ entry[d].marked
             /\ \A i \in 1 .. Len(Results(d)) : Results(d)[i] # "operator"
      BY <1>1 DEF CommandInv, LinkInv
    <3>2. CASE r.state \in Settled
      BY <2>1, <3>2 DEF LinkInv, InFlight, Settled
    <3>3. CASE r.state = "outcome_unknown"
      BY <1>3, <2>1, <2>2, <2>3, <3>1, <3>3 DEF LinkInv, InFlight, Results
    <3> QED BY <2>4, <3>2, <3>3
  <2>7. Len(row[d].revs) <= Len(chain)
    <3>1. SubSeq(chain, 1, Len(chain) - 1) = row[d].revs
      BY <1>3 DEF Accepts, Front
    <3>2. Len(chain) \in Nat /\ Len(chain) >= 1 /\ \A i \in 1 .. Len(chain) - 1 : chain[i] \in Kinds
      OBVIOUS
    <3>3. Len(SubSeq(chain, 1, Len(chain) - 1)) <= Len(chain)
      BY <3>2, SubSeqProperties
    <3> QED BY <3>1, <3>3
  <2>8. /\ row' \in [Commands -> RowType]
        /\ \A c \in Commands \ {d} : row'[c] = row[c]
        /\ \A c \in Commands : RowInv(c)' /\ EntryInv(c)' /\ LinkInv(c)' /\ DiskInv(c)'
        /\ Exclusive' /\ (post' = post => PostInv')
    <3>1. r.state \notin {"none", "queued"}
      BY <2>4 DEF Settled
    <3> QED BY <2>1, <2>2, <2>5, <2>6, <2>7, <3>1, RowStepKeeps
  <2> QED BY <1>1, <1>3, <2>1, <2>2, <2>8
<1> QED BY <1>2, <1>3

\* A direct report, whatever the hub answers, keeps the invariant.
LEMMA ReportDirectlyKeeps == ASSUME Inv, NEW d \in Commands, ReportDirectly(d) PROVE Inv'
<1> USE GuardAssumption, MutatingAssumption DEF Inv
<1> DEFINE chain == guard.chain
<1>a. /\ guard.pc = "report" /\ d \in guard.known /\ Told(d) /\ SubmitReport(d, chain)
      /\ UNCHANGED <<entry, denied, faults, recovered, post, begun, effect, crashes, disk, older, lost, unlisted>>
      /\ chain \in Seq(Kinds) /\ Len(chain) = 1 /\ chain # <<>> /\ guard \in LoopType
  <2>1. chain \in Seq(Kinds) /\ guard \in LoopType
    BY DEF TypeOK, LoopType
  <2>2. guard.pc = "report" /\ Len(chain) = 1
    BY DEF ReportDirectly, ChainInv
  <2>3. chain # <<>>
    BY <2>2, OneRevision
  <2> QED BY <2>1, <2>2, <2>3 DEF ReportDirectly, journal, files
<1>b. /\ guard' \in LoopType
      /\ \/ guard'.pc = "loop"
         \/ /\ guard'.pc = "report" /\ guard'.known \subseteq guard.known
            /\ guard'.chain = guard.chain
  <2>1. CASE guard' = Idle
    BY <2>1, LoopRecords
  <2>2. CASE guard' = [guard EXCEPT !.known = @ \ {d}]
    BY <1>a, <2>2 DEF LoopType
  <2> QED BY <1>a, <2>1, <2>2 DEF Told
<1>c. /\ chain[1] \in Rejections \union Terminals
      /\ chain[1] \in Terminals => effect[d] = "over"
  BY <1>a DEF CommandInv, ReadInv, Rejections, Terminals, Forgotten
<1>d. Last(chain) = chain[1] /\ Last(chain) \notin Uncertain
  BY <1>a, <1>c DEF Last, Uncertain, Rejections, Terminals
<1>e. /\ row' \in [Commands -> RowType] /\ live' = live
      /\ \A c \in Commands \ {d} : row'[c] = row[c]
      /\ \/ row' = row
         \/ row[d].state \in InFlight /\ row'[d].state = NextState(Last(chain))
      /\ \A c \in Commands : RowInv(c)' /\ EntryInv(c)' /\ LinkInv(c)' /\ DiskInv(c)'
      /\ Exclusive' /\ PostInv'
  BY <1>a, <1>d, SubmitKeeps
<1>1. TypeOK'
  BY <1>a, <1>b, <1>e DEF TypeOK, LoopType, HubTypeOK, RowType, JournalTypeOK, LogTypeOK,
       Results
<1>2. ASSUME NEW c \in Commands PROVE CommandInv(c)'
  <2>1. EffectInv(c)'
    BY <1>2, <1>a, <1>c, <1>d, <1>e
       DEF CommandInv, EffectInv, Results, NextState, Terminals, Rejections
  <2>2. ReadInv(c)'
    BY <1>2, <1>a, <1>b, <1>e DEF CommandInv, ReadInv, Forgotten, InFlight, Settled
  <2> QED BY <1>e, <2>1, <2>2 DEF CommandInv
<1>3. ChainInv' /\ HandInv'
  BY <1>a, <1>b DEF ChainInv, HandInv, Forgotten
<1> QED BY <1>e, <1>1, <1>2, <1>3

\* Giving up a direct report keeps the invariant.
LEMMA GiveUpReportKeeps == ASSUME Inv, NEW d \in Commands, GiveUpReport(d) PROVE Inv'
<1> USE GuardAssumption, MutatingAssumption DEF Inv
<1>a. /\ guard.pc = "report" /\ d \in guard.known /\ Told(d) /\ guard \in LoopType
      /\ UNCHANGED <<row, live, entry, denied, faults, recovered, post, begun, effect, crashes, disk, older, lost, unlisted>>
  BY DEF GiveUpReport, hub, journal, files, TypeOK, LoopType
<1>b. /\ guard' \in LoopType
      /\ \/ guard'.pc = "loop"
         \/ /\ guard'.pc = "report" /\ guard'.known \subseteq guard.known
            /\ guard'.chain = guard.chain
  <2>1. CASE guard' = Idle
    BY <2>1, LoopRecords
  <2>2. CASE guard' = [guard EXCEPT !.known = @ \ {d}]
    BY <1>a, <2>2 DEF LoopType
  <2> QED BY <1>a, <2>1, <2>2 DEF Told
<1>1. TypeOK'
  BY <1>a, <1>b DEF TypeOK, LoopType, HubTypeOK, JournalTypeOK, LogTypeOK, Results
<1>2. ASSUME NEW c \in Commands PROVE CommandInv(c)'
  BY <1>2, <1>a, <1>b, UntouchedKeeps, DiskUntouched DEF CommandInv, EffectInv, ReadInv, Results, Forgotten
<1>3. ChainInv' /\ HandInv' /\ PostInv' /\ Exclusive'
  BY <1>a, <1>b DEF ChainInv, HandInv, PostInv, Exclusive, Results, Forgotten
<1> QED BY <1>1, <1>2, <1>3

\* The lowest unacknowledged revision, with the chain it ends.
LEMMA NextUnackedFacts ==
    ASSUME TypeOK, NEW d \in Commands, Unacked(d)
    PROVE  LET s == entry[d].res
               t == NextUnacked(d)
               n == entry[d].acked
           IN /\ n \in Nat /\ Len(s) \in Nat /\ n + 1 <= Len(s) /\ entry[d].held = "entry"
              /\ t \in Seq(Kinds) /\ t # <<>> /\ Len(t) = n + 1
              /\ \A i \in 1 .. n + 1 : t[i] = s[i]
              /\ Last(t) = s[n + 1] /\ Extends(t, s)
<1> DEFINE s == entry[d].res
           t == NextUnacked(d)
           n == entry[d].acked
<1>1. s \in Seq(Kinds) /\ n \in Nat /\ Len(s) \in Nat /\ n < Len(s) /\ entry[d].held = "entry"
  BY DEF Unacked, TypeOK, JournalTypeOK, LogTypeOK, Results
<1>2. \A i \in 1 .. n + 1 : s[i] \in Kinds
  BY <1>1
<1>3. /\ SubSeq(s, 1, n + 1) \in Seq(Kinds) /\ Len(SubSeq(s, 1, n + 1)) = n + 1
      /\ \A i \in 1 .. n + 1 : SubSeq(s, 1, n + 1)[i] = s[i]
  <2>1. 1 \in Nat /\ n + 1 \in Nat /\ n + 1 <= Len(s)
    BY <1>1
  <2> HIDE DEF s, n
  <2> QED BY <1>1, <1>2, <2>1, SubSeqProperties
<1>4. t = SubSeq(s, 1, n + 1)
  BY DEF NextUnacked, Results
<1>5. Len(<<>>) = 0 /\ n + 1 # 0 /\ n + 1 \in 1 .. n + 1 /\ n + 1 <= Len(s)
  BY <1>1
<1> HIDE DEF s, t, n
<1>6. t # <<>>
  BY <1>3, <1>4, <1>5
<1>7. Last(t) = s[n + 1]
  BY <1>3, <1>4, <1>5 DEF Last
<1>8. Extends(t, s)
  BY <1>3, <1>4, <1>5 DEF Extends
<1> QED BY <1>1, <1>3, <1>4, <1>5, <1>6, <1>7, <1>8 DEF s, t, n

\* The hub takes the lowest unacknowledged revision of a command that it waits for,
\* unless it has that revision already, or the command was lost.
LEMMA DeliveredIsTaken ==
    ASSUME Inv, NEW d \in Commands \ lost, Unacked(d), row[d].state \notin Settled
    PROVE  \/ Accepts(d, NextUnacked(d))
           \/ d \in begun /\ entry[d].acked + 1 <= Len(row[d].revs)
<1> DEFINE s == entry[d].res
           t == NextUnacked(d)
           n == entry[d].acked
           v == row[d].revs
<1>1. /\ TypeOK /\ RowInv(d) /\ EntryInv(d) /\ LinkInv(d)
      /\ v \in Seq(Kinds) /\ row[d].state \in RowStates
  BY DEF Inv, CommandInv, TypeOK, HubTypeOK
<1>2. /\ n \in Nat /\ Len(s) \in Nat /\ n + 1 <= Len(s) /\ entry[d].held = "entry"
      /\ t \in Seq(Kinds) /\ t # <<>> /\ Len(t) = n + 1
      /\ \A i \in 1 .. n + 1 : t[i] = s[i]
      /\ Last(t) = s[n + 1]
  BY <1>1, NextUnackedFacts
<1>3. row[d].state \in InFlight /\ s # <<>>
  <2>1. row[d].state \in InFlight
    BY <1>1, <1>2 DEF RowInv, RowStates, InFlight, Settled
  <2>2. Len(<<>>) = 0
    OBVIOUS
  <2> QED BY <1>2, <2>1, <2>2
<1>4. Len(v) \in Nat /\ (v = <<>> => Len(v) = 0) /\ (v # <<>> => Len(v) >= 1)
  BY <1>1
<1>5. CASE d \notin begun
  <2>1. row[d].state = "dispatched" /\ v = <<>>
    BY <1>1, <1>3, <1>5 DEF RowInv, InFlight
  <2>2. n = 0 /\ s[1] \in Rejections
    BY <1>1, <1>2, <1>3, <1>5, <2>1 DEF EntryInv, Shape, LinkInv, Results, Settled
  <2>3. Len(t) = 1 /\ Last(t) \in Rejections
    BY <1>2, <2>2
  <2>4. Front(t) = <<>>
    BY <2>3, SubSeqEmpty DEF Front
  <2> QED BY <2>1, <2>3, <2>4 DEF Accepts, Rejections, Resolutions
<1>6. CASE d \in begun /\ n # Len(v)
  BY <1>1, <1>2, <1>3, <1>4, <1>6 DEF LinkInv
<1>7. CASE d \in begun /\ n = Len(v)
  <2>1. /\ Extends(v, s) /\ entry[d].marked
        /\ \A i \in 1 .. Len(s) : s[i] # "operator"
    BY <1>1, <1>2, <1>3, <1>7 DEF LinkInv, EntryInv, Shape, Results
  <2>2. Front(t) = v
    <3> DEFINE f == SubSeq(t, 1, n)
    <3>1. \A i \in 1 .. n : t[i] \in Kinds /\ t[i] = s[i]
      BY <1>2
    <3>2. f \in Seq(Kinds) /\ Len(f) = n /\ \A i \in 1 .. n : f[i] = t[i]
      BY <1>2, <3>1, SubSeqProperties
    <3>3. \A i \in 1 .. n : f[i] = v[i]
      BY <1>7, <2>1, <3>1, <3>2 DEF Extends
    <3>4. f = v
      BY <1>1, <1>7, <3>2, <3>3, SeqEqual
    <3>5. Front(t) = f
      BY <1>2 DEF Front
    <3> QED BY <3>4, <3>5
  <2>3. Last(t) # "operator"
    BY <1>2, <2>1
  <2>4. CASE n = 0
    <3>1. v = <<>> /\ row[d].state = "dispatched"
      BY <1>1, <1>3, <1>4, <1>7, <2>4 DEF RowInv, InFlight
    <3>2. Last(t) \in Terminals \union {"unknown"} /\ Len(t) = 1
      BY <1>1, <1>2, <1>3, <2>1, <2>4 DEF EntryInv, Shape, Results
    <3> QED BY <2>2, <2>3, <3>1, <3>2 DEF Accepts, Resolutions, Terminals
  <2>5. CASE n # 0
    <3>1. row[d].state = "outcome_unknown"
      BY <1>1, <1>2, <1>3, <1>4, <1>7, <2>5 DEF RowInv, InFlight
    <3>2. Last(t) \in {"observed", "escalated", "operator"} /\ Len(t) # 1
      <4>1. n + 1 \in 2 .. Len(s)
        BY <1>2, <2>5
      <4> QED BY <1>1, <1>2, <4>1 DEF EntryInv, Shape, Results
    <3> QED BY <2>2, <2>3, <3>1, <3>2 DEF Accepts, Rejections
  <2> QED BY <2>4, <2>5
<1> QED BY <1>5, <1>6, <1>7

\* What a delivered report does, whether its answer arrives or not.
LEMMA DeliveryFacts ==
    ASSUME Inv, NEW d \in Commands, Unacked(d), SubmitReport(d, NextUnacked(d)),
           UNCHANGED <<entry, denied, faults, guard, recovered, begun, effect, crashes, disk, older, lost, unlisted>>
    PROVE  /\ row' \in [Commands -> RowType] /\ live' = live
           /\ \A c \in Commands \ {d} : row'[c] = row[c]
           /\ \A c \in Commands : CommandInv(c)'
           /\ ChainInv' /\ HandInv' /\ Exclusive' /\ (post' = post => PostInv')
           /\ d \in begun \ lost /\ row'[d].state \in InFlight =>
                 Len(NextUnacked(d)) <= Len(row'[d].revs)
           /\ d \notin begun => row'[d].state \in Settled
<1> DEFINE t == NextUnacked(d)
<1>1. /\ TypeOK /\ CommandInv(d) /\ HandInv
  BY DEF Inv
<1>2. /\ entry[d].acked \in Nat /\ entry[d].acked + 1 <= Len(entry[d].res)
      /\ Len(entry[d].res) \in Nat
      /\ entry[d].held = "entry" /\ entry[d].res # <<>>
      /\ t \in Seq(Kinds) /\ t # <<>> /\ Len(t) = entry[d].acked + 1
      /\ Last(t) = entry[d].res[entry[d].acked + 1] /\ Extends(t, Results(d))
  <2>1. Len(<<>>) = 0
    OBVIOUS
  <2>2. /\ entry[d].acked \in Nat /\ entry[d].acked + 1 <= Len(entry[d].res)
        /\ Len(entry[d].res) \in Nat
        /\ entry[d].held = "entry"
        /\ t \in Seq(Kinds) /\ t # <<>> /\ Len(t) = entry[d].acked + 1
        /\ Last(t) = entry[d].res[entry[d].acked + 1] /\ Extends(t, Results(d))
    BY <1>1, NextUnackedFacts DEF Results
  <2> QED BY <2>1, <2>2
<1>3. d \notin begun => Last(t) \in Rejections
  BY <1>1, <1>2 DEF CommandInv, EntryInv, Shape, Results
<1>4. Last(t) \in Uncertain =>
        d \in begun /\ Extends(t, Results(d)) /\ entry[d].acked <= Len(t)
  BY <1>2, <1>3 DEF Uncertain, Rejections
<1>5. Last(t) = "terminal" => effect[d] # "no"
  <2>1. CASE entry[d].acked = 0
    BY <1>1, <1>2, <2>1 DEF CommandInv, EffectInv, Terminals, Results
  <2>2. CASE entry[d].acked # 0
    <3>1. entry[d].acked + 1 \in 2 .. Len(entry[d].res)
      BY <1>2, <2>2
    <3> QED BY <1>1, <1>2, <3>1 DEF CommandInv, EntryInv, Shape, Results
  <2> QED BY <2>1, <2>2
<1>6. /\ row' \in [Commands -> RowType] /\ live' = live
      /\ \A c \in Commands \ {d} : row'[c] = row[c]
      /\ \/ row' = row /\ ~Accepts(d, t)
         \/ /\ Accepts(d, t) /\ row[d].state \in InFlight
            /\ row'[d].state = NextState(Last(t)) /\ row'[d].revs = t
            /\ row'[d].cause = "report"
      /\ \A c \in Commands : RowInv(c)' /\ EntryInv(c)' /\ LinkInv(c)' /\ DiskInv(c)'
      /\ Exclusive' /\ (post' = post => PostInv')
  BY <1>2, <1>4, SubmitKeeps
<1>7. ASSUME NEW c \in Commands PROVE CommandInv(c)'
  <2>1. CommandInv(c)
    BY <1>7 DEF Inv
  <2>2. EffectInv(c)'
    BY <1>5, <1>6, <2>1 DEF CommandInv, EffectInv, Results, NextState, Uncertain
  <2>3. row'[c].state = "dispatched" => row'[c] = row[c]
    BY <1>6 DEF NextState
  <2>4. row[c].state \in Settled => row'[c].state \in Settled
    BY <1>6 DEF InFlight, Settled
  <2>5. ReadInv(c)'
    BY <2>1, <2>3, <2>4 DEF CommandInv, ReadInv, Results, Forgotten
  <2> QED BY <1>6, <2>2, <2>5 DEF CommandInv
<1>8. ChainInv'
  BY DEF Inv, ChainInv
<1>9. HandInv'
  <2>1. SUFFICES ASSUME guard.pc \in {"offered", "admitted", "marked", "running"}
                 PROVE  HandInv'
    BY DEF HandInv, Forgotten
  <2>2. CASE guard.cmd # d
    BY <1>1, <1>6, <2>1, <2>2 DEF HandInv, Results, Forgotten
  <2>3. CASE guard.cmd = d
    <3>1. guard.pc = "offered" /\ d \in Forgotten
      BY <1>1, <1>2, <2>1, <2>3 DEF HandInv, Results
    <3>2. row'[d].state \notin {"none", "queued"}
      BY <1>1, <1>6, <2>1, <2>3 DEF HandInv, NextState
    <3> QED BY <2>3, <3>1, <3>2 DEF HandInv, Forgotten
  <2> QED BY <2>2, <2>3
<1>10. ASSUME d \in begun \ lost, row'[d].state \in InFlight PROVE Len(t) <= Len(row'[d].revs)
  <2>1. CASE Accepts(d, t)
    BY <1>2, <1>6, <2>1
  <2>2. CASE ~Accepts(d, t)
    <3>1. row' = row /\ row[d].state \notin Settled
      BY <1>6, <1>10, <2>2 DEF InFlight, Settled
    <3>2. d \in Commands \ lost
      BY <1>10
    <3>3. entry[d].acked + 1 <= Len(row[d].revs)
      BY <2>2, <3>1, <3>2, DeliveredIsTaken
    <3> QED BY <1>2, <3>1, <3>3
  <2> QED BY <2>1, <2>2
<1>11. ASSUME d \notin begun PROVE row'[d].state \in Settled
  <2>1. CASE Accepts(d, t)
    BY <1>3, <1>6, <1>11, <2>1 DEF NextState, Rejections, Uncertain, Settled
  <2>2. CASE ~Accepts(d, t)
    BY <1>1, <1>6, <1>11, <2>2, DeliveredIsTaken DEF TypeOK
  <2> QED BY <2>1, <2>2
<1> QED BY <1>6, <1>7, <1>8, <1>9, <1>10, <1>11

\* A delivered report whose answer arrives keeps the invariant.
LEMMA DeliverKeeps == ASSUME Inv, NEW d \in Commands, Deliver(d) PROVE Inv'
<1>a. /\ Unacked(d) /\ SubmitReport(d, NextUnacked(d))
      /\ UNCHANGED <<entry, denied, faults, guard, recovered, begun, effect, crashes, disk, older, lost, unlisted>>
      /\ post' = [cmd |-> d, rev |-> Len(NextUnacked(d))]
  BY DEF Deliver, journal, files
<1>b. /\ row' \in [Commands -> RowType] /\ live' = live
      /\ \A c \in Commands : CommandInv(c)'
      /\ ChainInv' /\ HandInv' /\ Exclusive'
      /\ d \in begun \ lost /\ row'[d].state \in InFlight =>
            Len(NextUnacked(d)) <= Len(row'[d].revs)
      /\ d \notin begun => row'[d].state \in Settled
  BY <1>a, DeliveryFacts
<1>c. Len(NextUnacked(d)) \in Nat /\ Len(NextUnacked(d)) <= Len(entry[d].res)
  BY <1>a, NextUnackedFacts DEF Inv
<1>1. TypeOK'
  <2>1. post' \in [cmd : Commands \union {NoCommand}, rev : Nat]
    BY <1>a, <1>c
  <2> QED BY <1>a, <1>b, <2>1
       DEF Inv, TypeOK, LoopType, HubTypeOK, RowType, JournalTypeOK,
       LogTypeOK, Results
<1>2. PostInv'
  <2>1. post'.cmd = d /\ post'.rev = Len(NextUnacked(d))
    BY <1>a
  <2> QED BY <1>a, <1>b, <1>c, <2>1 DEF PostInv, Results
<1> QED BY <1>b, <1>1, <1>2 DEF Inv

\* A delivered report whose answer is lost keeps the invariant.
LEMMA LoseAnswerKeeps == ASSUME Inv, NEW d \in Commands, LoseAnswer(d) PROVE Inv'
<1>a. /\ Unacked(d) /\ SubmitReport(d, NextUnacked(d)) /\ post' = post
      /\ UNCHANGED <<entry, denied, faults, guard, recovered, begun, effect, crashes, disk, older, lost, unlisted>>
  BY DEF LoseAnswer, journal, files
<1>b. /\ row' \in [Commands -> RowType] /\ live' = live
      /\ \A c \in Commands : CommandInv(c)'
      /\ ChainInv' /\ HandInv' /\ Exclusive' /\ PostInv'
  BY <1>a, DeliveryFacts
<1>1. TypeOK'
  BY <1>a, <1>b DEF Inv, TypeOK, LoopType, HubTypeOK, RowType, JournalTypeOK,
       LogTypeOK, Results
<1> QED BY <1>b, <1>1 DEF Inv

---------------------------------------------------------------------------
\* The invariant and what follows from it

\* Every step of the Guard, the hub, the operator and the faults keeps the invariant.
LEMMA NextInv == Inv /\ [Next]_vars => Inv'
<1> SUFFICES ASSUME Inv, [Next]_vars PROVE Inv'
  OBVIOUS
<1>1. CASE Recover \/ Reopen \/ Poll \/ EndPoll \/ ResolutionsApplied
  BY <1>1, RecoverKeeps, ReopenKeeps, PollKeeps, EndPollKeeps, ResolutionsAppliedKeeps
<1>2. CASE \/ HandleExpired \/ HandleUnjournaled \/ Handle \/ Execute \/ StartEffect
           \/ FinishEffect
  BY <1>2, HandleExpiredKeeps, HandleUnjournaledKeeps, HandleKeeps, ExecuteKeeps, StartEffectKeeps,
     FinishEffectKeeps
<1>3. ASSUME NEW c \in Commands,
             \/ Reconcile(c) \/ Offer(c) \/ LoseOffer(c) \/ PollFailUnstarted(c)
             \/ ApplyResolution(c) \/ ReportDirectly(c) \/ GiveUpReport(c)
      PROVE  Inv'
  BY <1>3, ReconcileKeeps, OfferKeeps, LoseOfferKeeps, PollFailUnstartedKeeps,
     ApplyResolutionKeeps, ReportDirectlyKeeps, GiveUpReportKeeps
<1>4. ASSUME NEW c \in Commands, Deliver(c) \/ LoseAnswer(c) \/ Hub(c) PROVE Inv'
  BY <1>4, DeliverKeeps, LoseAnswerKeeps, HubKeeps
<1>5. CASE RecordAck \/ CompactJournal \/ Crash \/ Restart
  BY <1>5, RecordAckKeeps, CompactJournalKeeps, CrashKeeps, RestartKeeps
<1>6. CASE UNCHANGED vars
  <2>1. TypeOK'
    BY <1>6 DEF vars, Inv, TypeOK, HubTypeOK, JournalTypeOK, LogTypeOK, Results
  <2>2. ASSUME NEW c \in Commands PROVE CommandInv(c)'
    BY <1>6, <2>2 DEF vars, Inv, CommandInv, RowInv, EntryInv, Shape, LinkInv,
       EffectInv, ReadInv, Results, Forgotten, DiskInv, LogInv
  <2>3. ChainInv' /\ HandInv' /\ PostInv' /\ Exclusive'
    BY <1>6 DEF vars, Inv, ChainInv, HandInv, PostInv, Exclusive, Results,
       Forgotten
  <2> QED BY <2>1, <2>2, <2>3 DEF Inv
<1> QED BY <1>1, <1>2, <1>3, <1>4, <1>5, <1>6 DEF Next, ControlLoop, Redelivery

\* The invariant holds in every reachable state.
LEMMA GuardInvariant == Spec => []Inv
<1> QED BY InitInv, NextInv, PTL DEF Spec

(***************************************************************************)
(* The rows of the hub, the entries of the journal and the state of both   *)
(* loops keep their types; an entry is never acknowledged beyond its last  *)
(* revision (store.Ack).                                                   *)
(***************************************************************************)
THEOREM GuardTypes == Spec => []TypeOK
<1>1. Inv => TypeOK
  BY DEF Inv
<1> QED BY <1>1, GuardInvariant, PTL

(***************************************************************************)
(* While the hub waits for a command that began, the Guard's journal holds *)
(* its entry, and the entry extends the hub's chain of revisions: over     *)
(* crashes, lost answers, failed writes and compactions an outcome is lost *)
(* only when the journal is opened again after a compaction that failed    *)
(* behind its rename (SubmitReport, compactLocked).                        *)
(***************************************************************************)
THEOREM OpenOutcomeHeld == Spec => []OpenOutcomeIsHeld
<1>1. ASSUME Inv, NEW c \in begun \ lost, row[c].state \in InFlight
      PROVE  /\ entry[c].held = "entry" /\ IsPrefix(row[c].revs, Results(c))
             /\ entry[c].acked <= Len(row[c].revs)
  <2> DEFINE s == row[c].revs
             t == Results(c)
  <2>1. c \in Commands
    BY <1>1 DEF Inv, TypeOK
  <2>2. entry[c].held = "entry" /\ Extends(s, t) /\ entry[c].acked <= Len(s)
    BY <1>1, <2>1 DEF Inv, CommandInv, LinkInv
  <2>3. s \in Seq(Kinds) /\ t \in Seq(Kinds) /\ Len(s) \in Nat /\ Len(t) \in Nat
    BY <1>1, <2>1, SMTT(30) DEF Inv, TypeOK, HubTypeOK, JournalTypeOK, LogTypeOK, Results
  <2>4. \A i \in 1 .. Len(s) : s[i] \in Kinds /\ t[i] \in Kinds /\ s[i] = t[i]
    BY <2>2, <2>3 DEF Extends
  <2> DEFINE a == SubSeq(s, 1, Len(s))
             b == SubSeq(t, 1, Len(s))
  <2>5. a \in Seq(Kinds) /\ Len(a) = Len(s) /\ \A i \in 1 .. Len(s) : a[i] = s[i]
    BY <2>3, <2>4, SubSeqProperties
  <2>6. b \in Seq(Kinds) /\ Len(b) = Len(s) /\ \A i \in 1 .. Len(s) : b[i] = t[i]
    BY <2>3, <2>4, SubSeqProperties
  <2>7. a = b
    BY <2>4, <2>5, <2>6, SeqEqual
  <2> QED BY <2>2, <2>7 DEF Extends, IsPrefix
<1>2. Inv => OpenOutcomeIsHeld
  BY <1>1 DEF OpenOutcomeIsHeld
<1> QED BY <1>2, GuardInvariant, PTL

(***************************************************************************)
(* A command the hub reports as completed has run, and its executor is     *)
(* done: neither redelivery nor a direct report completes a command that   *)
(* is refused, interrupted or still running (executionState). Only a       *)
(* command the Guard has forgotten can be running again.                   *)
(***************************************************************************)
THEOREM CompletedRan == Spec => []CompletedMeansRan
<1>1. ASSUME Inv, NEW c \in Commands, row[c].state = "completed"
      PROVE  effect[c] # "no" /\ (effect[c] = "running" => c \in Forgotten)
  BY <1>1 DEF Inv, CommandInv, EffectInv, HandInv
<1>2. Inv => CompletedMeansRan
  BY <1>1 DEF CompletedMeansRan
<1> QED BY <1>2, GuardInvariant, PTL

---------------------------------------------------------------------------
\* The refinement of CommandOutcome

PhaseOf(c) ==
    IF c \in Forgotten THEN "forgotten"
    ELSE IF NothingRan(c) THEN "refused"
    ELSE IF row[c].state \in Settled THEN "settled"
    ELSE IF c \in begun THEN "open" ELSE "waiting"
EffectOf(c) == IF c \in Forgotten THEN "over" ELSE effect[c]

PhaseMap == [c \in Mutating |-> PhaseOf(c)]
EffectMap == [c \in Mutating |-> EffectOf(c)]

\* The phase of a command depends on its own row and marker, and on whether it is
\* forgotten.
LEMMA PhaseKept ==
    ASSUME NEW c \in Commands, row'[c] = row[c], (c \in begun') <=> (c \in begun),
           (c \in Forgotten') <=> (c \in Forgotten)
    PROVE  PhaseOf(c)' = PhaseOf(c)
BY DEF PhaseOf, NothingRan

\* A step that moves the phase of one command as the promise allows, and no effect.
LEMMA PhaseStep ==
    ASSUME NEW d \in Commands, \A c \in Mutating : EffectOf(c)' = EffectOf(c),
           \A c \in Mutating \ {d} : PhaseOf(c)' = PhaseOf(c),
           d \in Mutating =>
              \/ PhaseOf(d)' = PhaseOf(d)
              \/ PhaseOf(d) = "waiting" /\ PhaseOf(d)' = "refused"
              \/ /\ PhaseOf(d) = "waiting" /\ PhaseOf(d)' = "open"
                 /\ \A c \in Mutating : PhaseOf(c) # "open"
              \/ PhaseOf(d) = "open" /\ PhaseOf(d)' = "settled" /\ EffectOf(d) # "running"
    PROVE  [Outcome!OutcomeNext]_(Outcome!ovars)
<1>1. EffectMap' = EffectMap
  BY DEF EffectMap
<1>2. CASE PhaseMap' = PhaseMap
  BY <1>1, <1>2 DEF EffectMap, PhaseMap, PhaseOf, EffectOf, Outcome!ovars
<1>3. CASE d \in Mutating /\ PhaseOf(d)' # PhaseOf(d)
  <2>1. PhaseMap' = [PhaseMap EXCEPT ![d] = PhaseOf(d)']
    BY <1>3 DEF PhaseMap
  <2>2. /\ PhaseMap[d] = PhaseOf(d) /\ EffectMap[d] = EffectOf(d)
        /\ \A c \in Mutating : PhaseMap[c] = PhaseOf(c)
    BY <1>3 DEF PhaseMap, EffectMap
  <2>3. CASE PhaseOf(d) = "waiting" /\ PhaseOf(d)' = "refused"
    <3>1. /\ PhaseMap[d] = "waiting" /\ PhaseMap' = [PhaseMap EXCEPT ![d] = "refused"]
          /\ EffectMap' = EffectMap
      BY <1>1, <2>1, <2>2, <2>3
    <3>2. Outcome!Refuse(d)
      BY <3>1 DEF Outcome!Refuse, Outcome!To, PhaseMap, PhaseOf, EffectMap, EffectOf
    <3> QED BY <1>3, <3>2 DEF Outcome!OutcomeNext
  <2>4. CASE /\ PhaseOf(d) = "waiting" /\ PhaseOf(d)' = "open"
             /\ \A c \in Mutating : PhaseOf(c) # "open"
    <3>1. /\ PhaseMap[d] = "waiting" /\ PhaseMap' = [PhaseMap EXCEPT ![d] = "open"]
          /\ EffectMap' = EffectMap /\ \A c \in Mutating : PhaseMap[c] # "open"
      BY <1>1, <2>1, <2>2, <2>4
    <3>2. Outcome!Begin(d)
      BY <3>1 DEF Outcome!Begin, Outcome!To, PhaseMap, PhaseOf, EffectMap, EffectOf
    <3> QED BY <1>3, <3>2 DEF Outcome!OutcomeNext
  <2>5. CASE PhaseOf(d) = "open" /\ PhaseOf(d)' = "settled" /\ EffectOf(d) # "running"
    <3>1. /\ PhaseMap[d] = "open" /\ PhaseMap' = [PhaseMap EXCEPT ![d] = "settled"]
          /\ EffectMap' = EffectMap /\ EffectMap[d] # "running"
      BY <1>1, <2>1, <2>2, <2>5
    <3>2. Outcome!Settle(d)
      BY <3>1 DEF Outcome!Settle, Outcome!To, PhaseMap, PhaseOf, EffectMap, EffectOf
    <3> QED BY <1>3, <3>2 DEF Outcome!OutcomeNext
  <2> QED BY <1>3, <2>3, <2>4, <2>5
<1>4. CASE d \notin Mutating \/ PhaseOf(d)' = PhaseOf(d)
  <2>1. PhaseMap' = PhaseMap
    BY <1>4 DEF PhaseMap
  <2> QED BY <1>2, <2>1
<1> QED BY <1>3, <1>4

\* A step that starts or ends the effect of one command, and no phase.
LEMMA EffectStep ==
    ASSUME NEW d \in Commands, \A c \in Mutating : PhaseOf(c)' = PhaseOf(c),
           \A c \in Mutating \ {d} : EffectOf(c)' = EffectOf(c),
           d \in Mutating =>
              \/ EffectOf(d)' = EffectOf(d)
              \/ PhaseOf(d) = "open" /\ EffectOf(d) = "no" /\ EffectOf(d)' = "running"
              \/ EffectOf(d) = "running" /\ EffectOf(d)' = "over"
    PROVE  [Outcome!OutcomeNext]_(Outcome!ovars)
<1>1. PhaseMap' = PhaseMap
  BY DEF PhaseMap
<1>2. CASE EffectMap' = EffectMap
  BY <1>1, <1>2 DEF EffectMap, PhaseMap, PhaseOf, EffectOf, Outcome!ovars
<1>3. CASE d \in Mutating /\ EffectOf(d)' # EffectOf(d)
  <2>1. EffectMap' = [EffectMap EXCEPT ![d] = EffectOf(d)']
    BY <1>3 DEF EffectMap
  <2>2. PhaseMap[d] = PhaseOf(d) /\ EffectMap[d] = EffectOf(d)
    BY <1>3 DEF PhaseMap, EffectMap
  <2>3. CASE PhaseOf(d) = "open" /\ EffectOf(d) = "no" /\ EffectOf(d)' = "running"
    <3>1. /\ PhaseMap[d] = "open" /\ EffectMap[d] = "no" /\ PhaseMap' = PhaseMap
          /\ EffectMap' = [EffectMap EXCEPT ![d] = "running"]
      BY <1>1, <2>1, <2>2, <2>3
    <3>2. Outcome!Effect(d)
      BY <3>1 DEF Outcome!Effect, PhaseMap, PhaseOf, EffectMap, EffectOf
    <3> QED BY <1>3, <3>2 DEF Outcome!OutcomeNext
  <2>4. CASE EffectOf(d) = "running" /\ EffectOf(d)' = "over"
    <3>1. /\ EffectMap[d] = "running" /\ PhaseMap' = PhaseMap
          /\ EffectMap' = [EffectMap EXCEPT ![d] = "over"]
      BY <1>1, <2>1, <2>2, <2>4
    <3>2. Outcome!EffectOver(d)
      BY <3>1 DEF Outcome!EffectOver, PhaseMap, PhaseOf, EffectMap, EffectOf
    <3> QED BY <1>3, <3>2 DEF Outcome!OutcomeNext
  <2> QED BY <1>3, <2>3, <2>4
<1>4. CASE d \notin Mutating \/ EffectOf(d)' = EffectOf(d)
  <2>1. EffectMap' = EffectMap
    BY <1>4 DEF EffectMap
  <2> QED BY <1>2, <2>1
<1> QED BY <1>3, <1>4

\* A step that touches no row and no marker, forgets no mutation and has no effect on
\* one that is not forgotten is a stutter.
LEMMA OutcomeStutters ==
    ASSUME row' = row, begun' = begun,
           \A c \in Mutating : (c \in Forgotten') <=> (c \in Forgotten),
           \A c \in Mutating \ Forgotten : effect'[c] = effect[c]
    PROVE  [Outcome!OutcomeNext]_(Outcome!ovars)
<1>1. PhaseMap' = PhaseMap
  BY PhaseKept, MutatingAssumption DEF PhaseMap
<1>2. EffectMap' = EffectMap
  BY DEF EffectMap, EffectOf
<1> QED BY <1>1, <1>2 DEF EffectMap, EffectOf, PhaseMap, PhaseOf, Outcome!ovars

\* A step that forgets commands in flight, and may end the effect that runs. At most
\* one of them is a mutation, and the effect is then its own.
LEMMA ForgetStep ==
    ASSUME Inv, row' = row, begun' = begun, Forgotten \subseteq Forgotten',
           \A c \in Mutating : c \in Forgotten' \ Forgotten => row[c].state \in InFlight,
           \A c \in Mutating :
              effect'[c] = effect[c] \/ (effect[c] = "running" /\ effect'[c] = "over")
    PROVE  [Outcome!OutcomeNext]_(Outcome!ovars)
<1> USE MutatingAssumption
<1>1. ASSUME NEW c \in Mutating \ Forgotten, effect[c] = "running"
      PROVE  guard.cmd = c /\ row[c].state \in InFlight
  BY <1>1 DEF Inv, CommandInv, EffectInv, HandInv, InFlight
<1>2. CASE \E d \in Mutating : d \in Forgotten' \ Forgotten
  <2>1. PICK d \in Mutating : d \in Forgotten' \ Forgotten
    BY <1>2
  <2>2. ASSUME NEW c \in Mutating \ {d}
        PROVE  (c \in Forgotten') <=> (c \in Forgotten)
    BY <2>1, <2>2 DEF Inv, Exclusive
  <2>3. ASSUME NEW c \in Mutating \ {d}
        PROVE  PhaseOf(c)' = PhaseOf(c) /\ EffectOf(c)' = EffectOf(c)
    <3>1. PhaseOf(c)' = PhaseOf(c)
      BY <2>2, <2>3, PhaseKept
    <3>2. c \in Forgotten \/ effect'[c] = effect[c]
      BY <1>1, <2>1, <2>3 DEF Inv, Exclusive
    <3> QED BY <2>2, <2>3, <3>1, <3>2 DEF EffectOf
  <2>4. PhaseOf(d) \in {"waiting", "open"} /\ PhaseOf(d)' = "forgotten" /\ EffectOf(d)' = "over"
    BY <2>1 DEF PhaseOf, EffectOf, NothingRan, InFlight, Settled
  <2>5. /\ PhaseMap[d] \in {"waiting", "open"} /\ PhaseMap' = [PhaseMap EXCEPT ![d] = "forgotten"]
        /\ EffectMap' = [EffectMap EXCEPT ![d] = "over"]
    BY <2>3, <2>4 DEF PhaseMap, EffectMap
  <2>6. Outcome!Forget(d)
    BY <2>5 DEF Outcome!Forget, Outcome!To, PhaseMap, PhaseOf, EffectMap, EffectOf
  <2> QED BY <2>1, <2>6 DEF Outcome!OutcomeNext
<1>3. CASE \A c \in Mutating : (c \in Forgotten') <=> (c \in Forgotten)
  <2>1. ASSUME NEW c \in Mutating PROVE PhaseOf(c)' = PhaseOf(c)
    BY <1>3, <2>1, PhaseKept
  <2>2. ASSUME NEW c \in Mutating
        PROVE  \/ EffectOf(c)' = EffectOf(c)
               \/ EffectOf(c) = "running" /\ EffectOf(c)' = "over" /\ c = guard.cmd
    BY <1>1, <1>3, <2>2 DEF EffectOf
  <2>3. CASE guard.cmd \in Commands
    BY <2>1, <2>2, <2>3, EffectStep
  <2>4. CASE guard.cmd \notin Commands
    <3>1. \A c \in Mutating \ Forgotten : effect'[c] = effect[c]
      BY <1>1, <2>4
    <3> QED BY <1>3, <3>1, OutcomeStutters
  <2> QED BY <2>3, <2>4
<1> QED BY <1>2, <1>3

\* The marker begins a mutation, and the fence says that no other is open.
LEMMA ExecuteRefines == ASSUME Inv, Execute PROVE [Outcome!OutcomeNext]_(Outcome!ovars)
<1> USE MutatingAssumption
<1>1. PICK d \in Commands :
        /\ d = guard.cmd /\ row' = row /\ effect' = effect
        /\ d \notin Forgotten => row[d].state = "dispatched" /\ d \notin begun
  BY DEF Execute, hub, Inv, HandInv
<1>2. begun' = begun \/ begun' = begun \union {d}
  BY <1>1 DEF Execute
<1>3. Forgotten' = Forgotten
  BY DEF Execute, files, Forgotten
<1>4. CASE begun' = begun
  BY <1>1, <1>3, <1>4, OutcomeStutters
<1>5. CASE begun' = begun \union {d}
  <2>1. /\ d \in Forgotten => PhaseOf(d)' = PhaseOf(d)
        /\ d \notin Forgotten => PhaseOf(d) = "waiting" /\ PhaseOf(d)' = "open"
    BY <1>1, <1>3, <1>5 DEF PhaseOf, NothingRan, Settled
  <2>2. ASSUME NEW c \in Mutating \ {d} PROVE PhaseOf(c)' = PhaseOf(c)
    BY <1>1, <1>3, <1>5, <2>2, PhaseKept
  <2>3. ASSUME NEW c \in Mutating, d \in Mutating \ Forgotten PROVE PhaseOf(c) # "open"
    <3>1. SUFFICES ASSUME c \in begun, row[c].state \notin Settled PROVE FALSE
      BY DEF PhaseOf
    <3>2. row[c].state \in RowStates /\ RowInv(c)
      BY DEF Inv, CommandInv, TypeOK, HubTypeOK
    <3>3. row[c].state \in InFlight
      BY <3>1, <3>2 DEF RowInv, RowStates, InFlight, Settled
    <3> QED BY <1>1, <2>3, <3>1, <3>3 DEF Inv, Exclusive, InFlight
  <2>4. \A c \in Mutating : EffectOf(c)' = EffectOf(c)
    BY <1>1, <1>3 DEF EffectOf
  <2> QED BY <1>1, <2>1, <2>2, <2>3, <2>4, PhaseStep
<1> QED BY <1>2, <1>4, <1>5

\* The executor starts and ends behind the marker.
LEMMA EffectRefines ==
    ASSUME Inv, StartEffect \/ FinishEffect
    PROVE  [Outcome!OutcomeNext]_(Outcome!ovars)
<1> USE MutatingAssumption
<1> DEFINE d == guard.cmd
<1>1. /\ row' = row /\ begun' = begun /\ effect \in [Commands -> {"no", "running", "over"}]
      /\ Forgotten' = Forgotten
  BY DEF StartEffect, FinishEffect, journal, files, hub, Inv, TypeOK, Forgotten
<1>2. ASSUME NEW c \in Mutating PROVE PhaseOf(c)' = PhaseOf(c)
  BY <1>1, PhaseKept
<1>3. CASE StartEffect
  <2>1. PICK e \in Commands :
          /\ e = guard.cmd /\ e \in begun
          /\ e \notin Forgotten => row[e].state = "dispatched"
          /\ e \in Mutating \ Forgotten => effect[e] = "no"
    BY <1>3 DEF StartEffect, Inv, HandInv
  <2>2. e \notin Forgotten => PhaseOf(e) = "open"
    BY <2>1 DEF PhaseOf, NothingRan, Settled
  <2>3. effect'[e] = "running" /\ \A c \in Mutating \ {e} : effect'[c] = effect[c]
    BY <1>1, <1>3, <2>1 DEF StartEffect
  <2>4. /\ \A c \in Mutating \ {e} : EffectOf(c)' = EffectOf(c)
        /\ e \in Mutating =>
              \/ EffectOf(e)' = EffectOf(e)
              \/ PhaseOf(e) = "open" /\ EffectOf(e) = "no" /\ EffectOf(e)' = "running"
    BY <1>1, <2>1, <2>2, <2>3 DEF EffectOf
  <2> QED BY <1>2, <2>4, EffectStep
<1>4. CASE FinishEffect
  <2>1. d \in Commands /\ effect[d] = "running"
    BY <1>4 DEF FinishEffect, Inv, HandInv
  <2>2. effect'[d] = "over" /\ \A c \in Mutating \ {d} : effect'[c] = effect[c]
    BY <1>1, <1>4, <2>1 DEF FinishEffect
  <2>3. /\ \A c \in Mutating : c \in Forgotten' \ Forgotten => row[c].state \in InFlight
        /\ Forgotten \subseteq Forgotten'
    BY <1>1
  <2> QED BY <1>1, <2>1, <2>2, <2>3, ForgetStep
<1> QED BY <1>3, <1>4

\* An accepted report refuses a command that never began, or carries on or settles
\* one that did.
LEMMA SubmitRefines ==
    ASSUME Inv, NEW d \in Commands, NEW chain \in Seq(Kinds), chain # <<>>,
           SubmitReport(d, chain), begun' = begun, effect' = effect, lost' = lost,
           unlisted' = unlisted,
           d \in Mutating /\ d \notin begun => Last(chain) \in Rejections,
           d \in begun \ Forgotten /\ row[d].state \notin Settled =>
               Last(chain) \notin Rejections,
           effect[d] # "running"
    PROVE  [Outcome!OutcomeNext]_(Outcome!ovars)
<1> USE MutatingAssumption
<1>1. TypeOK /\ row \in [Commands -> RowType]
  BY DEF Inv, TypeOK, HubTypeOK, RowType
<1>0. /\ Forgotten' = Forgotten /\ \A c \in Mutating : EffectOf(c)' = EffectOf(c)
      /\ EffectOf(d) # "running"
  BY DEF Forgotten, EffectOf
<1>2. CASE ~Accepts(d, chain)
  BY <1>0, <1>1, <1>2, SubmitFacts, OutcomeStutters
<1>3. CASE Accepts(d, chain)
  <2>1. PICK r \in RowType :
           /\ row' = [row EXCEPT ![d] = r] /\ row'[d] = r
           /\ r.state = NextState(Last(chain)) /\ r.revs = chain /\ r.cause = "report"
    BY <1>1, <1>3, SubmitFacts
  <2>2. row[d].state \in InFlight
    BY <1>1, <1>3, SubmitFacts
  <2>3. ASSUME NEW c \in Mutating \ {d} PROVE PhaseOf(c)' = PhaseOf(c)
    <3>1. row'[c] = row[c]
      BY <1>1, <2>1, <2>3
    <3> QED BY <1>0, <3>1, PhaseKept
  <2>4. CASE d \in begun \ Forgotten
    <3>1. PhaseOf(d) = "open" /\ row[d].state \notin Settled
      BY <2>2, <2>4 DEF PhaseOf, NothingRan, InFlight, Settled
    <3>2. PhaseOf(d)' \in {"open", "settled"}
      BY <1>0, <2>1, <2>4, <3>1 DEF PhaseOf, NothingRan
    <3> QED BY <1>0, <2>3, <3>1, <3>2, PhaseStep
  <2>5. CASE d \notin begun /\ d \in Mutating \ Forgotten
    <3>1. PhaseOf(d) = "waiting"
      BY <2>2, <2>5 DEF PhaseOf, NothingRan, InFlight, Settled
    <3>2. r.state = "failed"
      BY <2>1, <2>5 DEF NextState, Rejections, Uncertain
    <3>3. PhaseOf(d)' = "refused"
      BY <1>0, <2>1, <2>5, <3>2 DEF PhaseOf, NothingRan
    <3> QED BY <1>0, <2>3, <3>1, <3>3, PhaseStep
  <2>6. CASE d \notin Mutating \/ d \in Forgotten
    <3>1. d \in Mutating => PhaseOf(d)' = PhaseOf(d)
      BY <1>0, <2>6 DEF PhaseOf
    <3> QED BY <1>0, <2>3, <3>1, PhaseStep
  <2> QED BY <2>4, <2>5, <2>6
<1> QED BY <1>2, <1>3

\* Reports of either loop map to the promise.
LEMMA ReportRefines ==
    ASSUME Inv, NEW d \in Commands, ReportDirectly(d) \/ Deliver(d) \/ LoseAnswer(d)
    PROVE  [Outcome!OutcomeNext]_(Outcome!ovars)
<1>1. /\ begun' = begun /\ effect' = effect /\ lost' = lost /\ unlisted' = unlisted
      /\ TypeOK /\ CommandInv(d) /\ HandInv
  BY DEF ReportDirectly, Deliver, LoseAnswer, Inv, journal, files
<1>2. CASE ReportDirectly(d)
  <2> DEFINE chain == guard.chain
  <2>1. /\ guard.pc = "report" /\ d \in guard.known /\ SubmitReport(d, chain)
        /\ chain \in Seq(Kinds) /\ Len(chain) = 1
    BY <1>2 DEF ReportDirectly, Inv, ChainInv, TypeOK
  <2>2. chain # <<>> /\ Last(chain) = chain[1]
    BY <2>1, OneRevision
  <2>3. /\ d \in Mutating /\ d \notin begun => Last(chain) \in Rejections
        /\ d \in begun \ Forgotten /\ row[d].state \notin Settled =>
              Last(chain) \notin Rejections
    BY <1>1, <2>1, <2>2 DEF CommandInv, ReadInv, Rejections, Terminals
  <2>4. effect[d] # "running"
    BY <1>1, <2>1 DEF CommandInv, EffectInv
  <2> QED BY <1>1, <2>1, <2>2, <2>3, <2>4, SubmitRefines
<1>3. CASE Deliver(d) \/ LoseAnswer(d)
  <2> DEFINE t == NextUnacked(d)
             n == entry[d].acked
  <2>1. Unacked(d) /\ SubmitReport(d, t)
    BY <1>3 DEF Deliver, LoseAnswer
  <2>2. /\ n \in Nat /\ Len(entry[d].res) \in Nat /\ n + 1 <= Len(entry[d].res)
        /\ entry[d].held = "entry" /\ t \in Seq(Kinds) /\ t # <<>>
        /\ Last(t) = entry[d].res[n + 1]
    BY <1>1, <2>1, NextUnackedFacts
  <2>3. entry[d].res # <<>>
    <3>1. Len(<<>>) = 0
      OBVIOUS
    <3> QED BY <2>2, <3>1
  <2>4. d \notin begun => Last(t) \in Rejections
    BY <1>1, <2>2, <2>3 DEF CommandInv, EntryInv, Shape, Results
  <2>5. ASSUME d \in begun \ Forgotten, row[d].state \notin Settled
        PROVE  Last(t) \notin Rejections
    <3>0. entry[d].marked
      BY <1>1, <2>2, <2>5 DEF CommandInv, RowInv, LinkInv, Forgotten, TypeOK, HubTypeOK,
         RowStates, InFlight, Settled
    <3>1. CASE n = 0
      BY <1>1, <2>2, <2>3, <3>0, <3>1
         DEF CommandInv, EntryInv, Shape, Results, Rejections, Terminals
    <3>2. CASE n # 0
      <4>1. n + 1 \in 2 .. Len(entry[d].res)
        BY <2>2, <3>2
      <4> QED BY <1>1, <2>2, <4>1 DEF CommandInv, EntryInv, Shape, Results, Rejections
    <3> QED BY <3>1, <3>2
  <2>6. effect[d] # "running"
    BY <1>1, <2>3 DEF CommandInv, EffectInv, HandInv, Results, Forgotten
  <2> QED BY <1>1, <2>1, <2>2, <2>4, <2>5, <2>6, SubmitRefines
<1> QED BY <1>2, <1>3

\* What the hub does to a row without a report maps to the promise.
LEMMA RowRefines ==
    ASSUME Inv, NEW d \in Commands,
           Offer(d) \/ LoseOffer(d) \/ PollFailUnstarted(d) \/ Hub(d)
    PROVE  [Outcome!OutcomeNext]_(Outcome!ovars)
<1> USE MutatingAssumption
<1>1. /\ begun' = begun /\ effect' = effect /\ lost' = lost /\ unlisted' = unlisted
      /\ row \in [Commands -> RowType]
      /\ row[d] \in RowType /\ RowInv(d) /\ LinkInv(d)
  BY DEF Offer, LoseOffer, PollFailUnstarted, Hub, Inv, CommandInv,
       TypeOK, HubTypeOK, RowType, journal, files
<1>0. Forgotten' = Forgotten /\ \A c \in Mutating : EffectOf(c)' = EffectOf(c)
  BY <1>1 DEF Forgotten, EffectOf
<1>2. CASE row' = row
  BY <1>0, <1>1, <1>2, OutcomeStutters
<1>3. ASSUME \A c \in Commands \ {d} : row'[c] = row[c], NEW c \in Mutating \ {d}
      PROVE  PhaseOf(c)' = PhaseOf(c)
  BY <1>0, <1>1, <1>3, PhaseKept
<1>8. d \in Forgotten => PhaseOf(d)' = PhaseOf(d)
  BY <1>0 DEF PhaseOf
<1>4. CASE Enqueue(d) \/ Dispatch(d)
  <2>1. \A c \in Commands \ {d} : row'[c] = row[c]
    BY <1>1, <1>4 DEF Enqueue, Dispatch
  <2>2. row[d].state \in {"none", "queued"} /\ row'[d].state \in {"queued", "dispatched"}
    BY <1>1, <1>4 DEF Enqueue, Dispatch, RowType
  <2>3. PhaseOf(d)' = PhaseOf(d)
    BY <1>0, <1>1, <2>2 DEF PhaseOf, NothingRan, Settled
  <2> QED BY <1>1, <1>0, <1>3, <1>8, <2>1, <2>3, PhaseStep
<1>5. CASE Withdraw(d)
  <2>1. \A c \in Commands \ {d} : row'[c] = row[c]
    BY <1>1, <1>5 DEF Withdraw
  <2>2. row[d].state = "queued" /\ row'[d].state = "failed" /\ row'[d].cause = "withdrawn"
    BY <1>1, <1>5 DEF Withdraw, RowType
  <2>3. d \notin Forgotten => PhaseOf(d) = "waiting" /\ PhaseOf(d)' = "refused"
    BY <1>0, <1>1, <2>2 DEF PhaseOf, NothingRan, Settled, RowInv
  <2> QED BY <1>1, <1>0, <1>3, <1>8, <2>1, <2>3, PhaseStep
<1>6. CASE guard.pc = "polling" /\ FailUnstarted(d, guard.known)
  <2>1. \A c \in Commands \ {d} : row'[c] = row[c]
    BY <1>1, <1>6 DEF FailUnstarted
  <2>2. /\ row[d].state = "dispatched" /\ d \notin guard.known
        /\ row'[d].state = "failed" /\ row'[d].cause = "never_started"
    BY <1>1, <1>6 DEF FailUnstarted, Unjournaled, RowType
  <2>3. d \notin Forgotten => d \notin begun
    BY <1>6, <2>2, UnlistedIsUnmarked
  <2>4. d \notin Forgotten => PhaseOf(d) = "waiting" /\ PhaseOf(d)' = "refused"
    BY <1>0, <1>1, <2>2, <2>3 DEF PhaseOf, NothingRan, Settled
  <2> QED BY <1>1, <1>0, <1>3, <1>8, <2>1, <2>4, PhaseStep
<1>7. CASE ResolveByOperator(d)
  <2>1. \A c \in Commands \ {d} : row'[c] = row[c]
    BY <1>1, <1>7 DEF ResolveByOperator
  <2>2. /\ row[d].state = "outcome_unknown" /\ row'[d].state = "failed"
        /\ row'[d].cause = "operator"
    BY <1>1, <1>7 DEF ResolveByOperator, RowType
  <2>3. d \in begun /\ row[d].revs # <<>>
    BY <1>1, <2>2 DEF RowInv
  <2>4. d \notin Forgotten => PhaseOf(d) = "open" /\ PhaseOf(d)' = "settled"
    BY <1>0, <1>1, <2>2, <2>3 DEF PhaseOf, NothingRan, Settled
  <2>5. EffectOf(d) # "running"
    <3>1. SUFFICES ASSUME d \notin Forgotten, effect[d] = "running" PROVE FALSE
      BY DEF EffectOf
    <3>2. guard.pc = "running" /\ guard.cmd = d
      BY <3>1 DEF Inv, CommandInv, EffectInv
    <3> QED BY <2>2, <3>1, <3>2 DEF Inv, HandInv
  <2> QED BY <1>1, <1>0, <1>3, <1>8, <2>1, <2>4, <2>5, PhaseStep
<1> QED BY <1>2, <1>4, <1>5, <1>6, <1>7
       DEF Offer, LoseOffer, PollFailUnstarted, Hub, Reoffer,
       AuthorityExpires, hub, files

\* Every step of the system is a step of the promise or a stutter.
LEMMA NextRefines ==
    ASSUME Inv, [Next]_vars PROVE [Outcome!OutcomeNext]_(Outcome!ovars)
<1>1. CASE \/ Recover \/ EndPoll \/ ResolutionsApplied \/ HandleExpired \/ Handle
           \/ RecordAck \/ CompactJournal \/ Restart \/ UNCHANGED vars
  <2>1. row' = row /\ begun' = begun /\ effect' = effect /\ lost' = lost /\ unlisted' = unlisted
    BY <1>1 DEF Recover, EndPoll, ResolutionsApplied, HandleExpired, Handle,
       RecordAck, CompactJournal, Restart, vars, hub, journal, files
  <2> QED BY <2>1, OutcomeStutters DEF Forgotten
<1>2. ASSUME NEW c \in Commands, Reconcile(c) \/ ApplyResolution(c) \/ GiveUpReport(c)
      PROVE  [Outcome!OutcomeNext]_(Outcome!ovars)
  <2>1. row' = row /\ begun' = begun /\ effect' = effect /\ lost' = lost /\ unlisted' = unlisted
    BY <1>2 DEF Reconcile, ApplyResolution, GiveUpReport, hub, journal, files
  <2> QED BY <2>1, OutcomeStutters DEF Forgotten
<1>3. CASE HandleUnjournaled
  <2>1. /\ row' = row /\ begun' = begun /\ lost' = lost /\ unlisted' = unlisted
        /\ \/ effect' = effect
           \/ guard.cmd \notin Mutating /\ effect' = [effect EXCEPT ![guard.cmd] = "over"]
    BY <1>3 DEF HandleUnjournaled, RunUnjournaled, hub, files
  <2>2. \A c \in Mutating : effect'[c] = effect[c]
    BY <2>1, MutatingAssumption DEF Inv, TypeOK
  <2> QED BY <2>1, <2>2, OutcomeStutters DEF Forgotten
<1>4. ASSUME NEW c \in Commands, ReportDirectly(c) \/ Deliver(c) \/ LoseAnswer(c)
      PROVE  [Outcome!OutcomeNext]_(Outcome!ovars)
  BY <1>4, ReportRefines
<1>5. ASSUME NEW c \in Commands, Offer(c) \/ LoseOffer(c) \/ PollFailUnstarted(c) \/ Hub(c)
      PROVE  [Outcome!OutcomeNext]_(Outcome!ovars)
  BY <1>5, RowRefines
<1>6. CASE Poll
  <2>1. /\ row' = row /\ begun' = begun /\ effect' = effect /\ lost' = lost
        /\ unlisted' = unlisted \union {c \in Overflow : row[c].state = "dispatched"}
    BY <1>6 DEF Poll, hub
  <2>2. \A c \in Mutating : c \in Forgotten' \ Forgotten => row[c].state \in InFlight
    BY <2>1 DEF Forgotten, InFlight
  <2>3. Forgotten \subseteq Forgotten'
    BY <2>1 DEF Forgotten
  <2> QED BY <2>1, <2>2, <2>3, ForgetStep
<1>7. CASE Reopen \/ Crash
  <2>1. /\ row' = row /\ begun' = begun /\ unlisted' = unlisted
        /\ lost' = lost \union Missing(entry')
    BY <1>7 DEF Reopen, Crash, hub
  <2>2. \A c \in Mutating : c \in Forgotten' \ Forgotten => row[c].state \in InFlight
    BY <2>1 DEF Forgotten, Missing
  <2>3. Forgotten \subseteq Forgotten'
    BY <2>1 DEF Forgotten
  <2>4. \A c \in Mutating :
           effect'[c] = effect[c] \/ (effect[c] = "running" /\ effect'[c] = "over")
    BY <1>7, MutatingAssumption DEF Reopen, Crash
  <2> QED BY <2>1, <2>2, <2>3, <2>4, ForgetStep
<1> QED BY <1>1, <1>2, <1>3, <1>4, <1>5, <1>6, <1>7, ExecuteRefines, EffectRefines
       DEF Next, ControlLoop, Redelivery

(***************************************************************************)
(* Hub, journal and both loops implement the promise of CommandOutcome: a  *)
(* mutation is refused and never runs, or begins while no other is open,   *)
(* runs at most once, and is settled when its effect is over, through any  *)
(* crash, lost answer, failed write, expiry or operator's disposition. The *)
(* promise ends for a mutation only when an open after a compaction that   *)
(* failed behind its rename does not find its records, or a poll has no    *)
(* room to list it.                                                        *)
(***************************************************************************)
THEOREM OutcomeImplemented == Spec => ImplementsOutcome
<1>1. Init => Outcome!OutcomeInit
  BY MutatingAssumption DEF Init, HubInit, Outcome!OutcomeInit, NothingRan, Settled, Forgotten
<1>2. Inv /\ [Next]_vars => [Outcome!OutcomeNext]_(Outcome!ovars)
  BY NextRefines
<1> QED BY <1>1, <1>2, GuardInvariant, PTL DEF Spec, ImplementsOutcome, Outcome!OutcomeSpec
=============================================================================
