------------------------ MODULE JobExecution_proofs ------------------------
(***************************************************************************)
(* The execution protocol of the replicas, for every set of boots, jobs    *)
(* and generations.                                                        *)
(*                                                                         *)
(* The argument: a generation is drawn fresh by BeginJobExecution and from *)
(* then on lives in the fields of one entry of one boot only - the entry,  *)
(* the value it would restore, and its two requests.  A row that runs took *)
(* its generation from the entry that claimed it, so a snapshot the store  *)
(* admits on a running row comes from its owner, and one that carries the  *)
(* generation of a running handler reports "running".                      *)
(*                                                                         *)
(* Every step of the replicas is also shown to be a step of JobStore, so   *)
(* the fence proved of the table in JobStore_proofs holds here too.        *)
(***************************************************************************)
EXTENDS JobExecution, JobStore_proofs

\* A row that runs has a generation; only a move has an outcome, and only once
\* it was claimed; a move that waits to start was never claimed.
RowOK(j, r) ==
    /\ r.state = "running" => r.gen \in Gens
    /\ r.outcome # "none" => Type[j] = Relocation /\ r.gen \in Gens
    /\ Type[j] = Relocation /\ r.state \in {"absent", "pending"}
       => r.gen = NoGen /\ r.outcome = "none"

\* A request that can be stored without breaking RowOK.
RequestOK(j, r) ==
    /\ r.outcome # "none" => Type[j] = Relocation /\ r.gen \in Gens
    /\ Type[j] = Relocation /\ r.obs \in {"pending", "waiting"} => r.gen = NoGen

\* What the local entry of j says of its own requests, s of the progress loop
\* and w of the resume goroutine.
EntryOK(j, e, s, w) ==
    /\ e.st \in Active => e.gen \in Gens
    /\ e.outcome # "none"
       => Type[j] = Relocation /\ e.gen \in Gens /\ e.st \in {"running"} \cup Terminal
    /\ Type[j] = Relocation => e.prev = NoGen
    /\ Type[j] = Relocation /\ e.st \in {"none", "pending", "waiting"} => e.gen = NoGen
    /\ e.st = "running" /\ s.gen = e.gen => s.obs = "running"
    /\ e.st = "running" /\ w.gen = e.gen => w.obs = "running"
    /\ e.st = "claiming" => s.gen # e.gen /\ w.gen # e.gen
    /\ e.st = "waiting" /\ w.ph = "sent" /\ w.obs = "waiting" => w.gen = e.gen

CellOK(j, e, s, w) == EntryOK(j, e, s, w) /\ RequestOK(j, s) /\ RequestOK(j, w)

\* An acknowledged wait, against the row.
AckOK(r, e, w) ==
    e.st = "waiting" /\ w.ph = "acked" /\ r.gen = e.gen => r.state \notin {"absent", "running"}

\* The generations boot p refers to for job j.
Slots(p, j) == {loc[p][j].gen, loc[p][j].prev, sync[p][j].gen, wait[p][j].gen}

\* A generation belongs to one entry of one boot.
GenUnique ==
    \A p, q \in Owners, j, k \in Jobs : \A g \in Gens :
        g \in Slots(p, j) /\ g \in Slots(q, k) => p = q /\ j = k

\* A boot that refers to the generation of a running row owns the row.
OwnerHolds ==
    \A p \in Owners, j \in Jobs :
        Running(j) /\ Type[j] # Relocation /\ row[j].gen \in Slots(p, j)
        => row[j].owner = p

\* The execution token of a stack is held by one entry or detached handler.
TokenInv ==
    \A p \in Owners, j, k \in Jobs :
        SameStack(j, k) /\ loc[p][j].st \in Active
        => k \notin orphan[p] /\ (j # k => loc[p][k].st \notin Active)

ScanInv == \A p \in Owners : \A s \in scan[p] : s.act = "resume" => s.job \in Managed

\* The types of the replicas' own state.
LocalTypeOK ==
    /\ proc \in [Owners -> {"off", "up", "stopping", "down"}]
    /\ loc \in [Owners -> [Jobs -> Locals]]
    /\ orphan \in [Owners -> SUBSET Jobs]
    /\ sync \in [Owners -> [Jobs -> Requests]]
    /\ wait \in [Owners -> [Jobs -> Requests]]
    /\ scan \in [Owners -> {{}} \cup {{s} : s \in Scans}]
    /\ rec \in [Owners -> SUBSET Jobs]

RowsInv == \A j \in Jobs : RowOK(j, row[j])
CellsInv == \A p \in Owners, j \in Jobs : CellOK(j, loc[p][j], sync[p][j], wait[p][j])
AcksInv == \A p \in Owners, j \in Jobs : AckOK(row[j], loc[p][j], wait[p][j])

\* The inductive invariant.
ExecInv ==
    /\ FenceInv
    /\ LocalTypeOK
    /\ RowsInv
    /\ CellsInv
    /\ AcksInv
    /\ GenUnique
    /\ OwnerHolds
    /\ TokenInv
    /\ ScanInv

-----------------------------------------------------------------------------
(***************************************************************************)
(* How a step may change a cell and a row.  All but the local start of an  *)
(* execution and the claim of its row are "tame".                          *)
(***************************************************************************)

\* No generation is new to the cell, no execution starts, and a running entry
\* keeps its generation.
Tame(e, s, w, f, t, v) ==
    /\ {f.gen, f.prev, t.gen, v.gen} \subseteq {e.gen, e.prev, s.gen, w.gen, NoGen}
    /\ f.st \in Active => e.st \in Active
    /\ e.st = "running" /\ f.st = "running" => f.gen = e.gen

\* No wait is acknowledged.
NoAck(e, w, f, v) ==
    f.st = "waiting" /\ v.ph = "acked" => e.st = "waiting" /\ w.ph = "acked" /\ f.gen = e.gen

TameCell(p, j) ==
    Tame(loc[p][j], sync[p][j], wait[p][j], loc'[p][j], sync'[p][j], wait'[p][j])

TameCells == \A p \in Owners, j \in Jobs : TameCell(p, j)

AckStep ==
    \A p \in Owners, j \in Jobs :
        \/ NoAck(loc[p][j], wait[p][j], loc'[p][j], wait'[p][j])
        \/ row'[j].state = "pending"

\* The row gets no new generation, and runs on as it did; a move may be taken
\* over by its recovery.
RowStep(j, r, q) ==
    /\ q.gen \in {r.gen, NoGen}
    /\ q.state = "running" =>
          \/ r.state = "running" /\ q.gen = r.gen /\ q.owner = r.owner
          \/ Type[j] = Relocation
    /\ q.state = "absent" => q = r

RowSteps == \A j \in Jobs : RowStep(j, row[j], row'[j])

\* A handler joins the detached ones when its entry is given up.
OrphanStep ==
    \A p \in Owners : \A k \in orphan'[p] :
        k \in orphan[p] \/ (loc[p][k].st \in Active /\ loc'[p][k].st \notin Active)

\* Writing one cell.
Cell(p, j, e, s, w) ==
    /\ loc' \in [Owners -> [Jobs -> Locals]]
    /\ sync' \in [Owners -> [Jobs -> Requests]]
    /\ wait' \in [Owners -> [Jobs -> Requests]]
    /\ loc'[p][j] = e /\ sync'[p][j] = s /\ wait'[p][j] = w
    /\ \A q \in Owners, k \in Jobs : q # p \/ k # j =>
          loc'[q][k] = loc[q][k] /\ sync'[q][k] = sync[q][k] /\ wait'[q][k] = wait[q][k]

-----------------------------------------------------------------------------
(***************************************************************************)
(* Lemmas about the invariant.                                             *)
(***************************************************************************)
LEMMA Generations == NoGen \notin Gens
  BY ConstantsAssumption

LEMMA CellTypes ==
    ASSUME LocalTypeOK, NEW p \in Owners, NEW j \in Jobs
    PROVE  loc[p][j] \in Locals /\ sync[p][j] \in Requests /\ wait[p][j] \in Requests
  BY DEF LocalTypeOK

LEMMA TameRefl ==
    ASSUME NEW e, NEW s, NEW w
    PROVE  Tame(e, s, w, e, s, w) /\ NoAck(e, w, e, w)
  BY DEF Tame, NoAck

(***************************************************************************)
(* Tame steps keep the invariant.                                          *)
(***************************************************************************)
LEMMA TameKeepsUnique ==
    ASSUME GenUnique, TameCells
    PROVE  GenUnique'
  <1>1. \A p \in Owners, j \in Jobs : \A g \in Gens : g \in Slots(p, j)' => g \in Slots(p, j)
    BY Generations DEF TameCells, TameCell, Tame, Slots
  <1>. QED  BY <1>1 DEF GenUnique

LEMMA TameKeepsOwner ==
    ASSUME OwnerHolds, TameCells, RowSteps, RowsInv'
    PROVE  OwnerHolds'
  <1>. SUFFICES ASSUME NEW p \in Owners, NEW j \in Jobs, Running(j)', Type[j] # Relocation,
                       row'[j].gen \in Slots(p, j)'
                PROVE  row'[j].owner = p
    BY DEF OwnerHolds
  <1>1. row'[j].gen \in Gens
    BY DEF RowsInv, RowOK, Running
  <1>2. Running(j) /\ row'[j].gen = row[j].gen /\ row'[j].owner = row[j].owner
    BY DEF RowSteps, RowStep, Running
  <1>3. row[j].gen \in Slots(p, j)
    BY <1>1, <1>2, Generations DEF TameCells, TameCell, Tame, Slots
  <1>. QED  BY <1>2, <1>3 DEF OwnerHolds

LEMMA TameKeepsAcks ==
    ASSUME AcksInv, RowSteps, AckStep, RowsInv', CellsInv'
    PROVE  AcksInv'
  <1>. SUFFICES ASSUME NEW p \in Owners, NEW j \in Jobs
                PROVE  AckOK(row'[j], loc'[p][j], wait'[p][j])
    BY DEF AcksInv
  <1>. DEFINE r == row[j]  q == row'[j]  e == loc[p][j]  f == loc'[p][j]
              w == wait[p][j]  v == wait'[p][j]
  <1>1. AckOK(r, e, w) /\ RowStep(j, r, q) /\ RowOK(j, q)
    BY DEF AcksInv, RowSteps, RowsInv
  <1>2. NoAck(e, w, f, v) \/ q.state = "pending"
    BY DEF AckStep
  <1>3. Type[j] = Relocation /\ f.st = "waiting" => f.gen = NoGen
    BY DEF CellsInv, CellOK, EntryOK
  <1>. HIDE DEF r, q, e, f, w, v
  <1>4. AckOK(q, f, v)
    BY <1>1, <1>2, <1>3, Generations DEF AckOK, NoAck, RowStep, RowOK
  <1>. QED  BY <1>4 DEF q, f, v

LEMMA TameKeepsToken ==
    ASSUME TokenInv, TameCells, OrphanStep
    PROVE  TokenInv'
  <1>. SUFFICES ASSUME NEW p \in Owners, NEW j \in Jobs, NEW k \in Jobs,
                       SameStack(j, k), loc'[p][j].st \in Active
                PROVE  k \notin orphan'[p] /\ (j # k => loc'[p][k].st \notin Active)
    BY DEF TokenInv, SameStack
  <1>1. loc[p][j].st \in Active
    BY DEF TameCells, TameCell, Tame
  <1>2. k \notin orphan[p] /\ (j # k => loc[p][k].st \notin Active)
    BY <1>1 DEF TokenInv
  <1>3. loc'[p][k].st \in Active => loc[p][k].st \in Active
    BY DEF TameCells, TameCell, Tame
  <1>4. k \notin orphan'[p]
    BY <1>2 DEF OrphanStep
  <1>. QED  BY <1>2, <1>3, <1>4

LEMMA TameStep ==
    ASSUME ExecInv, FenceInv', LocalTypeOK', RowsInv', CellsInv', ScanInv',
           TameCells, RowSteps, AckStep, OrphanStep
    PROVE  ExecInv'
  <1>1. GenUnique'
    BY TameKeepsUnique DEF ExecInv
  <1>2. OwnerHolds'
    BY TameKeepsOwner DEF ExecInv
  <1>3. AcksInv'
    BY TameKeepsAcks DEF ExecInv
  <1>4. TokenInv'
    BY TameKeepsToken DEF ExecInv, LocalTypeOK
  <1>. QED  BY <1>1, <1>2, <1>3, <1>4 DEF ExecInv

-----------------------------------------------------------------------------
(***************************************************************************)
(* Steps that touch one cell.                                              *)
(***************************************************************************)
LEMMA SetCell ==
    ASSUME LocalTypeOK, NEW p \in Owners, NEW j \in Jobs,
           NEW e \in Locals, NEW s \in Requests, NEW w \in Requests,
           SetLoc(p, j, e) \/ (UNCHANGED loc /\ e = loc[p][j]),
           SetSync(p, j, s) \/ (UNCHANGED sync /\ s = sync[p][j]),
           SetWait(p, j, w) \/ (UNCHANGED wait /\ w = wait[p][j])
    PROVE  Cell(p, j, e, s, w)
  <1>1. /\ loc' \in [Owners -> [Jobs -> Locals]] /\ loc'[p][j] = e
        /\ \A q \in Owners, k \in Jobs : q # p \/ k # j => loc'[q][k] = loc[q][k]
    <2>1. CASE UNCHANGED loc /\ e = loc[p][j]
      BY <2>1 DEF LocalTypeOK
    <2>2. CASE SetLoc(p, j, e)
      <3>. DEFINE h == [loc[p] EXCEPT ![j] = e]
      <3>1. loc \in [Owners -> [Jobs -> Locals]] /\ loc[p] \in [Jobs -> Locals]
        BY DEF LocalTypeOK
      <3>2. loc' = [loc EXCEPT ![p] = h]
        BY <2>2, <3>1 DEF SetLoc
      <3>3. /\ h \in [Jobs -> Locals] /\ h[j] = e
            /\ \A k \in Jobs : k # j => h[k] = loc[p][k]
        BY <3>1
      <3>. HIDE DEF h
      <3>. QED  BY <3>1, <3>2, <3>3
    <2>. QED  BY <2>1, <2>2
  <1>2. /\ sync' \in [Owners -> [Jobs -> Requests]] /\ sync'[p][j] = s
        /\ \A q \in Owners, k \in Jobs : q # p \/ k # j => sync'[q][k] = sync[q][k]
    <2>1. CASE UNCHANGED sync /\ s = sync[p][j]
      BY <2>1 DEF LocalTypeOK
    <2>2. CASE SetSync(p, j, s)
      <3>. DEFINE h == [sync[p] EXCEPT ![j] = s]
      <3>1. sync \in [Owners -> [Jobs -> Requests]] /\ sync[p] \in [Jobs -> Requests]
        BY DEF LocalTypeOK
      <3>2. sync' = [sync EXCEPT ![p] = h]
        BY <2>2, <3>1 DEF SetSync
      <3>3. /\ h \in [Jobs -> Requests] /\ h[j] = s
            /\ \A k \in Jobs : k # j => h[k] = sync[p][k]
        BY <3>1
      <3>. HIDE DEF h
      <3>. QED  BY <3>1, <3>2, <3>3
    <2>. QED  BY <2>1, <2>2
  <1>3. /\ wait' \in [Owners -> [Jobs -> Requests]] /\ wait'[p][j] = w
        /\ \A q \in Owners, k \in Jobs : q # p \/ k # j => wait'[q][k] = wait[q][k]
    <2>1. CASE UNCHANGED wait /\ w = wait[p][j]
      BY <2>1 DEF LocalTypeOK
    <2>2. CASE SetWait(p, j, w)
      <3>. DEFINE h == [wait[p] EXCEPT ![j] = w]
      <3>1. wait \in [Owners -> [Jobs -> Requests]] /\ wait[p] \in [Jobs -> Requests]
        BY DEF LocalTypeOK
      <3>2. wait' = [wait EXCEPT ![p] = h]
        BY <2>2, <3>1 DEF SetWait
      <3>3. /\ h \in [Jobs -> Requests] /\ h[j] = w
            /\ \A k \in Jobs : k # j => h[k] = wait[p][k]
        BY <3>1
      <3>. HIDE DEF h
      <3>. QED  BY <3>1, <3>2, <3>3
    <2>. QED  BY <2>1, <2>2
  <1>. QED  BY <1>1, <1>2, <1>3 DEF Cell

LEMMA CellKeeps ==
    ASSUME ExecInv, NEW p \in Owners, NEW j \in Jobs, NEW e, NEW s, NEW w,
           Cell(p, j, e, s, w), CellOK(j, e, s, w),
           Tame(loc[p][j], sync[p][j], wait[p][j], e, s, w)
    PROVE  /\ CellsInv'
           /\ TameCells
           /\ \A q \in Owners, k \in Jobs : q # p \/ k # j =>
                 NoAck(loc[q][k], wait[q][k], loc'[q][k], wait'[q][k])
  <1>1. SUFFICES ASSUME NEW q \in Owners, NEW k \in Jobs
        PROVE  /\ CellOK(k, loc'[q][k], sync'[q][k], wait'[q][k])
               /\ TameCell(q, k)
               /\ q # p \/ k # j => NoAck(loc[q][k], wait[q][k], loc'[q][k], wait'[q][k])
    BY DEF CellsInv, TameCells
  <1>2. CASE q = p /\ k = j
    BY <1>2 DEF Cell, TameCell
  <1>3. CASE q # p \/ k # j
    <2>1. CellOK(k, loc[q][k], sync[q][k], wait[q][k])
      BY DEF ExecInv, CellsInv
    <2>2. loc'[q][k] = loc[q][k] /\ sync'[q][k] = sync[q][k] /\ wait'[q][k] = wait[q][k]
      BY <1>3 DEF Cell
    <2>. QED  BY <2>1, <2>2, TameRefl DEF TameCell
  <1>. QED  BY <1>2, <1>3

LEMMA SameRows ==
    ASSUME ExecInv, UNCHANGED store
    PROVE  FenceInv' /\ RowsInv' /\ RowSteps
  <1>1. UNCHANGED vars
    BY DEF store, vars
  <1>2. FenceInv'
    BY <1>1, NextFence DEF ExecInv
  <1>3. row' = row
    BY DEF store
  <1>4. RowsInv'
    BY <1>3 DEF ExecInv, RowsInv
  <1>5. RowSteps
    BY <1>3, Generations DEF ExecInv, RowsInv, RowOK, RowSteps, RowStep
  <1>. QED  BY <1>2, <1>4, <1>5

\* A step that writes one cell and acknowledges nothing.
QuietCell(p, j, e, s, w) ==
    /\ CellOK(j, e, s, w)
    /\ Tame(loc[p][j], sync[p][j], wait[p][j], e, s, w)
    /\ NoAck(loc[p][j], wait[p][j], e, w)

LEMMA LocalStep ==
    ASSUME ExecInv, NEW p \in Owners, NEW j \in Jobs, NEW e, NEW s, NEW w,
           Cell(p, j, e, s, w), QuietCell(p, j, e, s, w),
           UNCHANGED store, UNCHANGED <<proc, rec>>,
           scan' \in [Owners -> {{}} \cup {{x} : x \in Scans}], ScanInv',
           orphan' \in [Owners -> SUBSET Jobs], OrphanStep
    PROVE  ExecInv'
  <1>1. CellsInv' /\ TameCells
    BY CellKeeps DEF QuietCell
  <1>2. FenceInv' /\ RowsInv' /\ RowSteps
    BY SameRows
  <1>3. LocalTypeOK'
    BY DEF ExecInv, LocalTypeOK, Cell
  <1>4. AckStep
    <2>. SUFFICES ASSUME NEW q \in Owners, NEW k \in Jobs
                  PROVE  NoAck(loc[q][k], wait[q][k], loc'[q][k], wait'[q][k])
      BY DEF AckStep
    <2>1. CASE q = p /\ k = j
      BY <2>1 DEF Cell, QuietCell
    <2>2. CASE q # p \/ k # j
      BY <2>2, CellKeeps DEF QuietCell
    <2>. QED  BY <2>1, <2>2
  <1>. QED  BY <1>1, <1>2, <1>3, <1>4, TameStep

\* As LocalStep, with nothing but the cell changed.
LEMMA QuietStep ==
    ASSUME ExecInv, NEW p \in Owners, NEW j \in Jobs, NEW e \in Locals,
           NEW s \in Requests, NEW w \in Requests,
           SetLoc(p, j, e) \/ (UNCHANGED loc /\ e = loc[p][j]),
           SetSync(p, j, s) \/ (UNCHANGED sync /\ s = sync[p][j]),
           SetWait(p, j, w) \/ (UNCHANGED wait /\ w = wait[p][j]),
           QuietCell(p, j, e, s, w),
           UNCHANGED store, UNCHANGED <<proc, orphan, scan, rec>>
    PROVE  ExecInv'
  <1>1. Cell(p, j, e, s, w)
    BY SetCell DEF ExecInv
  <1>2. /\ scan' \in [Owners -> {{}} \cup {{x} : x \in Scans}] /\ ScanInv'
        /\ orphan' \in [Owners -> SUBSET Jobs] /\ OrphanStep
    BY DEF ExecInv, LocalTypeOK, ScanInv, OrphanStep
  <1>. QED  BY <1>1, <1>2, LocalStep

LEMMA CellFacts ==
    ASSUME ExecInv, NEW p \in Owners, NEW j \in Jobs
    PROVE  /\ loc[p][j] \in Locals /\ sync[p][j] \in Requests /\ wait[p][j] \in Requests
           /\ CellOK(j, loc[p][j], sync[p][j], wait[p][j])
  BY CellTypes DEF ExecInv, CellsInv

LEMMA QuietRequest ==
    ASSUME NEW ph \in Phases, NEW j
    PROVE  /\ Quiet(ph) \in Requests /\ RequestOK(j, Quiet(ph))
           /\ Quiet(ph).ph = ph /\ Quiet(ph).gen = NoGen /\ Quiet(ph).obs = "pending"
  BY DEF Quiet, Requests, Observable, AnyGen, AnyOutcome, RequestOK

LEMMA EmptyEntry ==
    /\ NoEntry \in Locals
    /\ NoEntry.st = "none" /\ NoEntry.gen = NoGen /\ NoEntry.prev = NoGen
    /\ NoEntry.outcome = "none"
  BY DEF NoEntry, Locals, LocalStates, AnyGen, AnyOutcome

-----------------------------------------------------------------------------
(***************************************************************************)
(* Steps on one cell.                                                      *)
(***************************************************************************)

\* An entry that is given up, with its requests kept or quieted.
LEMMA DropEntry ==
    ASSUME NEW j, NEW e, NEW s, NEW w, CellOK(j, e, s, w),
           NEW t, NEW v, RequestOK(j, t), RequestOK(j, v),
           t.gen \in {s.gen, NoGen}, v.gen \in {w.gen, NoGen}
    PROVE  /\ CellOK(j, NoEntry, t, v)
           /\ Tame(e, s, w, NoEntry, t, v)
           /\ NoAck(e, w, NoEntry, v)
  BY EmptyEntry DEF CellOK, EntryOK, Tame, NoAck, Active, Terminal

\* An entry that is kept, with its requests kept, quieted or refused.
LEMMA KeepEntry ==
    ASSUME NEW j, NEW e, NEW s, NEW w, CellOK(j, e, s, w), NEW t, NEW v,
           \/ t.gen = s.gen /\ t.obs = s.obs /\ t.outcome = s.outcome
           \/ \E ph \in Phases : t = Quiet(ph),
           \/ /\ v.gen = w.gen /\ v.obs = w.obs /\ v.outcome = w.outcome
              /\ v.ph \in {"fenced", w.ph}
           \/ \E ph \in Phases \ {"acked"} : v = Quiet(ph)
    PROVE  /\ CellOK(j, e, t, v)
           /\ Tame(e, s, w, e, t, v)
           /\ NoAck(e, w, e, v)
  <1>1. RequestOK(j, t) /\ RequestOK(j, v)
    BY QuietRequest DEF CellOK, RequestOK
  <1>2. (t.gen = s.gen /\ t.obs = s.obs) \/ (t.gen = NoGen /\ t.obs = "pending")
    BY QuietRequest
  <1>3. \/ v.gen = w.gen /\ v.obs = w.obs /\ (v.ph = "fenced" \/ v.ph = w.ph)
        \/ v.gen = NoGen /\ v.obs = "pending" /\ v.ph # "acked"
    BY QuietRequest DEF Phases
  <1>4. EntryOK(j, e, t, v)
    BY <1>2, <1>3, Generations DEF CellOK, EntryOK, Active
  <1>5. Tame(e, s, w, e, t, v) /\ NoAck(e, w, e, v)
    BY <1>2, <1>3 DEF Tame, NoAck
  <1>. QED  BY <1>1, <1>4, <1>5 DEF CellOK

\* The request the progress loop or the resume goroutine sends for entry e.
LEMMA SnapshotRequest ==
    ASSUME ExecInv, NEW p \in Owners, NEW j \in Jobs,
           loc[p][j].st \notin {"none", "claiming"}
    PROVE  /\ Snapshot(p, j) \in Requests /\ RequestOK(j, Snapshot(p, j))
           /\ Snapshot(p, j).gen = loc[p][j].gen /\ Snapshot(p, j).obs = loc[p][j].st
           /\ Snapshot(p, j).ph = "sent"
  <1>. DEFINE e == loc[p][j]
  <1>1. e \in Locals /\ CellOK(j, e, sync[p][j], wait[p][j])
    BY CellFacts
  <1>2. Snapshot(p, j) = [ph |-> "sent", obs |-> e.st, gen |-> e.gen, outcome |-> e.outcome]
    BY DEF Snapshot
  <1>3. e.st \notin {"none", "claiming"}
    OBVIOUS
  <1>. HIDE DEF e
  <1>4. e.st \in Observable /\ e.gen \in AnyGen /\ e.outcome \in AnyOutcome
    BY <1>1, <1>3 DEF Locals, LocalStates, Observable
  <1>5. Snapshot(p, j) \in Requests
    BY <1>2, <1>4 DEF Requests, Phases
  <1>6. RequestOK(j, Snapshot(p, j))
    BY <1>1, <1>2 DEF RequestOK, CellOK, EntryOK
  <1>. QED  BY <1>2, <1>5, <1>6 DEF e

LEMMA GhostLostKeeps ==
    ASSUME ExecInv, NEW p \in Owners, NEW j \in Jobs, GhostLost(p, j)
    PROVE  ExecInv'
  <1>1. QuietCell(p, j, NoEntry, Quiet("off"), Quiet("off"))
    BY CellFacts, DropEntry, QuietRequest DEF QuietCell, Phases
  <1>. QED  BY <1>1, QuietStep, EmptyEntry, QuietRequest DEF GhostLost, Phases

LEMMA SyncTickKeeps ==
    ASSUME ExecInv, NEW p \in Owners, NEW j \in Jobs, SyncTick(p, j)
    PROVE  ExecInv'
  <1>. DEFINE e == loc[p][j]  s == sync[p][j]  w == wait[p][j]
              t == IF e.st = "none" THEN Quiet("off") ELSE Snapshot(p, j)
  <1>1. e \in Locals /\ w \in Requests /\ CellOK(j, e, s, w)
    BY CellFacts
  <1>2. t \in Requests /\ RequestOK(j, t)
    BY SnapshotRequest, QuietRequest DEF SyncTick, Phases
  <1>3. t.gen = NoGen \/ (t.gen = e.gen /\ t.obs = e.st)
    BY SnapshotRequest, QuietRequest DEF SyncTick, Phases
  <1>4. e.st # "claiming" /\ SetSync(p, j, t)
    BY DEF SyncTick
  <1>5. UNCHANGED <<loc, wait>> /\ UNCHANGED store /\ UNCHANGED <<proc, orphan, scan, rec>>
    BY DEF SyncTick
  <1>6. QuietCell(p, j, e, t, w)
    <2>. HIDE DEF e, s, w, t
    <2>1. CellOK(j, e, t, w)
      BY <1>1, <1>2, <1>3, <1>4, Generations DEF CellOK, EntryOK, Active
    <2>2. Tame(e, s, w, e, t, w) /\ NoAck(e, w, e, w)
      BY <1>3 DEF Tame, NoAck
    <2>. QED  BY <2>1, <2>2 DEF QuietCell, e, s, w
  <1>. HIDE DEF t
  <1>. QED  BY <1>1, <1>2, <1>4, <1>5, <1>6, QuietStep

LEMMA SyncQuietKeeps ==
    ASSUME ExecInv, NEW p \in Owners, NEW j \in Jobs,
           SyncStarts(p, j) \/ SyncRefused(p, j) \/ SyncError(p, j)
    PROVE  ExecInv'
  <1>. DEFINE s == sync[p][j]
  <1>1. PICK t \in Requests :
           /\ SetSync(p, j, t)
           /\ \/ t.gen = s.gen /\ t.obs = s.obs /\ t.outcome = s.outcome
              \/ \E ph \in Phases : t = Quiet(ph)
    <2>1. CASE SyncRefused(p, j)
      <3>1. s \in Requests
        BY CellFacts
      <3>2. SetSync(p, j, [s EXCEPT !.ph = "fenced"])
        BY <2>1 DEF SyncRefused
      <3>. HIDE DEF s
      <3>. QED  BY <3>1, <3>2 DEF Requests, Phases
    <2>2. CASE SyncStarts(p, j) \/ SyncError(p, j)
      BY <2>2, QuietRequest DEF SyncStarts, SyncError, Phases
    <2>. QED  BY <2>1, <2>2
  <1>2. UNCHANGED <<loc, wait>> /\ UNCHANGED store /\ UNCHANGED <<proc, orphan, scan, rec>>
    BY DEF SyncStarts, SyncRefused, SyncError
  <1>3. QuietCell(p, j, loc[p][j], t, wait[p][j])
    BY <1>1, CellFacts, KeepEntry DEF QuietCell
  <1>. QED  BY <1>1, <1>2, <1>3, CellFacts, QuietStep

LEMMA WaitQuietKeeps ==
    ASSUME ExecInv, NEW p \in Owners, NEW j \in Jobs,
           WaitRefused(p, j) \/ WaitError(p, j)
    PROVE  ExecInv'
  <1>. DEFINE w == wait[p][j]
  <1>1. PICK v \in Requests :
           /\ SetWait(p, j, v)
           /\ \/ v.gen = w.gen /\ v.obs = w.obs /\ v.outcome = w.outcome /\ v.ph = "fenced"
              \/ v = Quiet("idle")
    <2>1. CASE WaitRefused(p, j)
      <3>1. w \in Requests
        BY CellFacts
      <3>2. SetWait(p, j, [w EXCEPT !.ph = "fenced"])
        BY <2>1 DEF WaitRefused
      <3>. HIDE DEF w
      <3>. QED  BY <3>1, <3>2 DEF Requests, Phases
    <2>2. CASE WaitError(p, j)
      BY <2>2, QuietRequest DEF WaitError, Phases
    <2>. QED  BY <2>1, <2>2
  <1>2. UNCHANGED <<loc, sync>> /\ UNCHANGED store /\ UNCHANGED <<proc, orphan, scan, rec>>
    BY DEF WaitRefused, WaitError
  <1>3. QuietCell(p, j, loc[p][j], sync[p][j], v)
    BY <1>1, CellFacts, KeepEntry DEF QuietCell, Phases
  <1>. QED  BY <1>1, <1>2, <1>3, CellFacts, QuietStep

LEMMA WaitTickKeeps ==
    ASSUME ExecInv, NEW p \in Owners, NEW j \in Jobs, WaitTick(p, j)
    PROVE  ExecInv'
  <1>. DEFINE e == loc[p][j]  s == sync[p][j]  w == wait[p][j]
              v == IF e.st = "waiting" THEN Snapshot(p, j) ELSE Quiet("off")
  <1>1. e \in Locals /\ s \in Requests /\ CellOK(j, e, s, w)
    BY CellFacts
  <1>2. v \in Requests /\ RequestOK(j, v)
    BY SnapshotRequest, QuietRequest DEF Phases
  <1>3. \/ e.st = "waiting" /\ v.gen = e.gen /\ v.ph = "sent"
        \/ e.st # "waiting" /\ v.gen = NoGen /\ v.ph = "off"
    BY SnapshotRequest, QuietRequest DEF Phases
  <1>4. SetWait(p, j, v)
    BY DEF WaitTick
  <1>5. UNCHANGED <<loc, sync>> /\ UNCHANGED store /\ UNCHANGED <<proc, orphan, scan, rec>>
    BY DEF WaitTick
  <1>6. QuietCell(p, j, e, s, v)
    <2>. HIDE DEF e, s, w, v
    <2>1. CellOK(j, e, s, v)
      BY <1>1, <1>2, <1>3, Generations DEF CellOK, EntryOK, Active
    <2>2. Tame(e, s, w, e, s, v) /\ NoAck(e, w, e, v)
      BY <1>3 DEF Tame, NoAck
    <2>. QED  BY <2>1, <2>2 DEF QuietCell, e, s, w
  <1>. HIDE DEF v
  <1>. QED  BY <1>1, <1>2, <1>4, <1>5, <1>6, QuietStep

LEMMA WaitFencedKeeps ==
    ASSUME ExecInv, NEW p \in Owners, NEW j \in Jobs, WaitFenced(p, j)
    PROVE  ExecInv'
  <1>1. UNCHANGED sync /\ UNCHANGED store /\ UNCHANGED <<proc, orphan, scan, rec>>
    BY DEF WaitFenced
  <1>2. CASE SetWait(p, j, Quiet("idle")) /\ UNCHANGED loc
    <2>1. QuietCell(p, j, loc[p][j], sync[p][j], Quiet("idle"))
      BY CellFacts, KeepEntry DEF QuietCell, Phases
    <2>. QED  BY <1>1, <1>2, <2>1, CellFacts, QuietRequest, QuietStep DEF Phases
  <1>3. CASE SetWait(p, j, Quiet("off")) /\ SetLoc(p, j, NoEntry)
    <2>1. QuietCell(p, j, NoEntry, sync[p][j], Quiet("off"))
      BY CellFacts, DropEntry, QuietRequest DEF QuietCell, CellOK, Phases
    <2>. QED  BY <1>1, <1>3, <2>1, CellFacts, QuietRequest, QuietStep, EmptyEntry DEF Phases
  <1>. QED  BY <1>2, <1>3 DEF WaitFenced

LEMMA RestoredEntry ==
    ASSUME NEW e \in Locals, NEW x \in LocalStates
    PROVE  /\ Restored(e, x) \in Locals /\ Restored(e, x).st = x
           /\ Restored(e, x).gen = e.prev /\ Restored(e, x).prev = NoGen
           /\ Restored(e, x).outcome = e.outcome
  BY DEF Restored, Locals, AnyGen

\* An entry whose claim did not go through: it waits with its old generation,
\* is cancelled, or is given up.
Unclaimed(e, w, f, v) ==
    \/ f = Restored(e, "waiting") /\ v = Quiet("idle")
    \/ f = Restored(e, "cancelled") /\ v = w
    \/ f = NoEntry /\ v = w

LEMMA UnclaimedIsQuiet ==
    ASSUME NEW j, NEW e \in Locals, NEW s \in Requests, NEW w \in Requests,
           CellOK(j, e, s, w), e.st = "claiming", NEW f, NEW v, Unclaimed(e, w, f, v)
    PROVE  /\ f \in Locals /\ v \in Requests
           /\ CellOK(j, f, s, v) /\ Tame(e, s, w, f, s, v) /\ NoAck(e, w, f, v)
  <1>1. CASE f = Restored(e, "waiting") /\ v = Quiet("idle")
    <2>1. /\ v \in Requests /\ RequestOK(j, v) /\ v.ph = "idle" /\ v.gen = NoGen
          /\ v.obs = "pending"
      BY <1>1, QuietRequest DEF Phases
    <2>2. /\ f \in Locals /\ f.st = "waiting" /\ f.gen = e.prev /\ f.prev = NoGen
          /\ f.outcome = e.outcome
      BY <1>1, RestoredEntry DEF LocalStates
    <2>. QED  BY <2>1, <2>2 DEF CellOK, EntryOK, Tame, NoAck, Active, Terminal
  <1>2. CASE f = Restored(e, "cancelled") /\ v = w
    <2>2. /\ f \in Locals /\ f.st = "cancelled" /\ f.gen = e.prev /\ f.prev = NoGen
          /\ f.outcome = e.outcome
      BY <1>2, RestoredEntry DEF LocalStates, Terminal
    <2>. QED  BY <1>2, <2>2 DEF CellOK, EntryOK, Tame, NoAck, Active, Terminal
  <1>3. CASE f = NoEntry /\ v = w
    BY <1>3, DropEntry, EmptyEntry DEF CellOK
  <1>. QED  BY <1>1, <1>2, <1>3 DEF Unclaimed

\* What deferExecutionClaim and a refused claim write.
LEMMA DeferWrites ==
    ASSUME NEW p \in Owners, NEW j \in Jobs, DeferExecutionClaim(p, j)
    PROVE  \E f, v : /\ Unclaimed(loc[p][j], wait[p][j], f, v)
                     /\ SetLoc(p, j, f)
                     /\ SetWait(p, j, v) \/ (UNCHANGED wait /\ v = wait[p][j])
  BY DEF DeferExecutionClaim, CancelledEntry, Unclaimed

LEMMA ClaimEndsKeeps ==
    ASSUME ExecInv, NEW p \in Owners, NEW j \in Jobs, ClaimFenced(p, j) \/ ClaimDeferred(p, j)
    PROVE  ExecInv'
  <1>. DEFINE e == loc[p][j]  s == sync[p][j]  w == wait[p][j]
  <1>1. PICK f, v : /\ Unclaimed(e, w, f, v)
                    /\ SetLoc(p, j, f)
                    /\ SetWait(p, j, v) \/ (UNCHANGED wait /\ v = w)
    BY DeferWrites DEF ClaimFenced, ClaimDeferred, CancelledEntry, Unclaimed
  <1>2. UNCHANGED sync /\ UNCHANGED store /\ UNCHANGED <<proc, orphan, scan, rec>>
    BY DEF ClaimFenced, ClaimDeferred
  <1>3. /\ e \in Locals /\ s \in Requests /\ w \in Requests
        /\ CellOK(j, e, s, w) /\ e.st = "claiming"
    BY CellFacts DEF ClaimFenced, ClaimDeferred
  <1>4. f \in Locals /\ v \in Requests /\ QuietCell(p, j, f, s, v)
    BY <1>1, <1>3, UnclaimedIsQuiet DEF QuietCell
  <1>. QED  BY <1>1, <1>2, <1>3, <1>4, QuietStep

LEMMA CheckpointMoveKeeps ==
    ASSUME ExecInv, NEW p \in Owners, NEW j \in Jobs, CheckpointMove(p, j)
    PROVE  ExecInv'
  <1>. DEFINE e == loc[p][j]  s == sync[p][j]  w == wait[p][j]
              f == [e EXCEPT !.outcome = "held"]
              v == [ph |-> "sent", obs |-> "running", gen |-> e.gen, outcome |-> "held"]
  <1>1. /\ e \in Locals /\ s \in Requests /\ w \in Requests
        /\ CellOK(j, e, s, w) /\ e.st = "running" /\ Type[j] = Relocation
    BY CellFacts DEF CheckpointMove
  <1>2. SetLoc(p, j, f) /\ SetWait(p, j, v)
    BY DEF CheckpointMove
  <1>3. UNCHANGED sync /\ UNCHANGED store /\ UNCHANGED <<proc, orphan, scan, rec>>
    BY DEF CheckpointMove
  <1>4. f \in Locals /\ v \in Requests /\ QuietCell(p, j, f, s, v)
    <2>. HIDE DEF e, s, w
    <2>1. /\ f \in Locals /\ f.st = e.st /\ f.gen = e.gen /\ f.prev = e.prev
          /\ f.outcome = "held"
      BY <1>1 DEF Locals, AnyOutcome
    <2>2. /\ v \in Requests /\ v.gen = e.gen /\ v.obs = "running" /\ v.ph = "sent"
          /\ v.outcome = "held"
      BY <1>1 DEF Requests, Phases, Observable, AnyOutcome, Locals
    <2>. HIDE DEF f, v
    <2>3. CellOK(j, f, s, v) /\ Tame(e, s, w, f, s, v) /\ NoAck(e, w, f, v)
      BY <1>1, <2>1, <2>2 DEF CellOK, EntryOK, RequestOK, Tame, NoAck, Active
    <2>. QED  BY <2>1, <2>2, <2>3 DEF QuietCell, e, s, w
  <1>. HIDE DEF f, v
  <1>. QED  BY <1>1, <1>2, <1>3, <1>4, QuietStep

\* The entry after a preflight whose answer did not come.
LEMMA PreflightIsQuiet ==
    ASSUME ExecInv, NEW p \in Owners, NEW j \in Jobs, PreflightFailed(p, j)
    PROVE  \E f \in Locals : SetLoc(p, j, f) /\ QuietCell(p, j, f, sync[p][j], Quiet("off"))
  <1>. DEFINE e == loc[p][j]  s == sync[p][j]  w == wait[p][j]
              x == IF e.cancel = "no" THEN "failed" ELSE "cancelled"
              f == IF e.st = "running" THEN [e EXCEPT !.outcome = "none", !.st = x] ELSE e
  <1>1. e \in Locals /\ CellOK(j, e, s, w)
    BY CellFacts
  <1>2. SetLoc(p, j, f)
    BY DEF PreflightFailed
  <1>3. f \in Locals /\ QuietCell(p, j, f, s, Quiet("off"))
    <2>1. RequestOK(j, Quiet("off")) /\ Quiet("off").gen = NoGen /\ Quiet("off").ph = "off"
      BY QuietRequest DEF Phases
    <2>. HIDE DEF e, s, w
    <2>2. CASE e.st = "running"
      <3>1. /\ f \in Locals /\ f.st \in Terminal /\ f.gen = e.gen /\ f.prev = e.prev
            /\ f.outcome = "none"
        BY <1>1, <2>2 DEF Locals, LocalStates, Terminal, AnyOutcome
      <3>. HIDE DEF f
      <3>2. CellOK(j, f, s, Quiet("off")) /\ Tame(e, s, w, f, s, Quiet("off"))
        BY <1>1, <2>1, <3>1 DEF CellOK, EntryOK, Tame, Active, Terminal
      <3>3. NoAck(e, w, f, Quiet("off"))
        BY <2>1 DEF NoAck
      <3>. QED  BY <3>1, <3>2, <3>3 DEF QuietCell, e, s, w
    <2>3. CASE e.st # "running"
      <3>1. f = e
        BY <2>3
      <3>. HIDE DEF f
      <3>2. CellOK(j, e, s, Quiet("off")) /\ Tame(e, s, w, e, s, Quiet("off"))
                /\ NoAck(e, w, e, Quiet("off"))
        BY <1>1, KeepEntry DEF Phases
      <3>. QED  BY <1>1, <3>1, <3>2 DEF QuietCell, e, s, w
    <2>. QED  BY <2>2, <2>3
  <1>. HIDE DEF f
  <1>. QED  BY <1>2, <1>3

LEMMA CheckpointFailedKeeps ==
    ASSUME ExecInv, NEW p \in Owners, NEW j \in Jobs, CheckpointFailed(p, j)
    PROVE  ExecInv'
  <1>1. PICK f \in Locals : SetLoc(p, j, f) /\ QuietCell(p, j, f, sync[p][j], Quiet("off"))
    BY PreflightIsQuiet DEF CheckpointFailed
  <1>2. SetWait(p, j, Quiet("off")) /\ UNCHANGED sync /\ UNCHANGED store
        /\ UNCHANGED <<proc, orphan, scan, rec>>
    BY DEF CheckpointFailed, PreflightFailed
  <1>. QED  BY <1>1, <1>2, CellFacts, QuietRequest, QuietStep DEF Phases

LEMMA GhostRequest ==
    ASSUME NEW w \in Requests, NEW j, RequestOK(j, w)
    PROVE  /\ Ghost(w) \in Requests /\ RequestOK(j, Ghost(w))
           /\ Ghost(w).gen \in {w.gen, NoGen}
           /\ (Ghost(w) = w /\ w.ph = "sent") \/ Ghost(w) = Quiet("off")
  BY QuietRequest DEF Ghost, Phases

\* An entry that settles, by its handler or a cancellation.
LEMMA SettleIsQuiet ==
    ASSUME NEW j, NEW e, NEW s, NEW w, CellOK(j, e, s, w), NEW f, NEW v,
           f.st \in Terminal, f.gen = e.gen, f.prev = e.prev, f.outcome = e.outcome,
           RequestOK(j, v), v.gen \in {w.gen, NoGen}
    PROVE  CellOK(j, f, s, v) /\ Tame(e, s, w, f, s, v) /\ NoAck(e, w, f, v)
  BY DEF CellOK, EntryOK, Tame, NoAck, Active, Terminal

\* An entry that goes on, with a cancellation or a proved outcome noted on it.
LEMMA NoteIsQuiet ==
    ASSUME NEW j, NEW e, NEW s, NEW w, CellOK(j, e, s, w), NEW f,
           f.st = e.st, f.gen = e.gen, f.prev = e.prev,
           f.outcome = e.outcome \/ e.outcome # "none"
    PROVE  CellOK(j, f, s, w) /\ Tame(e, s, w, f, s, w) /\ NoAck(e, w, f, w)
  BY DEF CellOK, EntryOK, Tame, NoAck, Active, Terminal

LEMMA SettleMoveKeeps ==
    ASSUME ExecInv, NEW p \in Owners, NEW j \in Jobs, SettleMove(p, j)
    PROVE  ExecInv'
  <1>. DEFINE e == loc[p][j]  f == [e EXCEPT !.outcome = "settled"]
  <1>1. SetLoc(p, j, f) /\ e.outcome = "held"
    BY DEF SettleMove
  <1>2. /\ UNCHANGED <<sync, wait>> /\ UNCHANGED store
        /\ UNCHANGED <<proc, orphan, scan, rec>>
    BY DEF SettleMove
  <1>3. e \in Locals
    BY CellFacts
  <1>4. f \in Locals /\ f.st = e.st /\ f.gen = e.gen /\ f.prev = e.prev
    <2>. HIDE DEF e
    <2>. QED  BY <1>3 DEF Locals, AnyOutcome
  <1>. HIDE DEF f
  <1>5. QuietCell(p, j, f, sync[p][j], wait[p][j])
    BY <1>1, <1>4, CellFacts, NoteIsQuiet DEF QuietCell
  <1>. QED  BY <1>1, <1>2, <1>4, <1>5, CellFacts, QuietStep

LEMMA HandlerFinishKeeps ==
    ASSUME ExecInv, NEW p \in Owners, NEW j \in Jobs, NEW result \in Terminal,
           HandlerFinish(p, j, result)
    PROVE  ExecInv'
  <1>. DEFINE e == loc[p][j]  f == [e EXCEPT !.st = result]
  <1>1. SetLoc(p, j, f)
    BY DEF HandlerFinish
  <1>2. /\ UNCHANGED <<sync, wait>> /\ UNCHANGED store
        /\ UNCHANGED <<proc, orphan, scan, rec>>
    BY DEF HandlerFinish
  <1>3. e \in Locals
    BY CellFacts
  <1>4. /\ f \in Locals /\ f.st = result /\ f.gen = e.gen /\ f.prev = e.prev
        /\ f.outcome = e.outcome
    <2>. HIDE DEF e
    <2>. QED  BY <1>3 DEF Locals, LocalStates
  <1>. HIDE DEF f
  <1>5. QuietCell(p, j, f, sync[p][j], wait[p][j])
    BY <1>4, CellFacts, SettleIsQuiet DEF QuietCell, CellOK
  <1>. QED  BY <1>1, <1>2, <1>4, <1>5, CellFacts, QuietStep

LEMMA HandlerWaitsKeeps ==
    ASSUME ExecInv, NEW p \in Owners, NEW j \in Jobs, HandlerWaits(p, j)
    PROVE  ExecInv'
  <1>. DEFINE e == loc[p][j]  s == sync[p][j]  w == wait[p][j]
              f == [e EXCEPT !.st = "waiting"]  v == Quiet("idle")
  <1>1. SetLoc(p, j, f) /\ SetWait(p, j, v) /\ Type[j] # Relocation
    BY DEF HandlerWaits
  <1>2. UNCHANGED sync /\ UNCHANGED store /\ UNCHANGED <<proc, orphan, scan, rec>>
    BY DEF HandlerWaits
  <1>3. e \in Locals /\ s \in Requests /\ CellOK(j, e, s, w)
    BY CellFacts
  <1>4. v \in Requests /\ RequestOK(j, v) /\ v.gen = NoGen /\ v.ph = "idle"
    BY QuietRequest DEF Phases
  <1>5. f \in Locals /\ QuietCell(p, j, f, s, v)
    <2>. HIDE DEF e, s, w, v
    <2>1. /\ f \in Locals /\ f.st = "waiting" /\ f.gen = e.gen /\ f.prev = e.prev
          /\ f.outcome = e.outcome
      BY <1>3 DEF Locals, LocalStates
    <2>. HIDE DEF f
    <2>2. CellOK(j, f, s, v) /\ Tame(e, s, w, f, s, v) /\ NoAck(e, w, f, v)
      BY <1>1, <1>3, <1>4, <2>1 DEF CellOK, EntryOK, Tame, NoAck, Active
    <2>. QED  BY <2>1, <2>2 DEF QuietCell, e, s, w
  <1>. HIDE DEF f, v
  <1>. QED  BY <1>1, <1>2, <1>3, <1>4, <1>5, QuietStep

LEMMA CancelKeeps ==
    ASSUME ExecInv, NEW p \in Owners, NEW j \in Jobs, Cancel(p, j)
    PROVE  ExecInv'
  <1>. DEFINE e == loc[p][j]  s == sync[p][j]  w == wait[p][j]
  <1>1. UNCHANGED sync /\ UNCHANGED store /\ UNCHANGED <<proc, orphan, scan, rec>>
    BY DEF Cancel
  <1>2. e \in Locals /\ s \in Requests /\ w \in Requests /\ CellOK(j, e, s, w)
    BY CellFacts
  <1>3. CASE SetLoc(p, j, [e EXCEPT !.st = "cancelled"]) /\ SetWait(p, j, Ghost(w))
    <2>. DEFINE f == [e EXCEPT !.st = "cancelled"]
    <2>1. /\ f \in Locals /\ f.st = "cancelled" /\ f.gen = e.gen /\ f.prev = e.prev
          /\ f.outcome = e.outcome
      <3>. HIDE DEF e
      <3>. QED  BY <1>2 DEF Locals, LocalStates, Terminal
    <2>2. Ghost(w) \in Requests /\ RequestOK(j, Ghost(w)) /\ Ghost(w).gen \in {w.gen, NoGen}
      BY <1>2, GhostRequest DEF CellOK
    <2>. HIDE DEF f
    <2>3. QuietCell(p, j, f, s, Ghost(w))
      BY <1>2, <2>1, <2>2, SettleIsQuiet DEF QuietCell, Terminal
    <2>4. SetLoc(p, j, f)
      BY <1>3 DEF f
    <2>. QED  BY <1>1, <1>2, <1>3, <2>1, <2>2, <2>3, <2>4, QuietStep
  <1>4. CASE SetLoc(p, j, [e EXCEPT !.cancel = "user"]) /\ UNCHANGED wait
    <2>. DEFINE f == [e EXCEPT !.cancel = "user"]
    <2>1. /\ f \in Locals /\ f.st = e.st /\ f.gen = e.gen /\ f.prev = e.prev
          /\ f.outcome = e.outcome
      <3>. HIDE DEF e
      <3>. QED  BY <1>2 DEF Locals
    <2>. HIDE DEF f
    <2>2. QuietCell(p, j, f, s, w)
      BY <1>2, <2>1, NoteIsQuiet DEF QuietCell
    <2>3. SetLoc(p, j, f)
      BY <1>4 DEF f
    <2>. QED  BY <1>1, <1>2, <1>4, <2>1, <2>2, <2>3, QuietStep
  <1>. QED  BY <1>3, <1>4 DEF Cancel

-----------------------------------------------------------------------------
(***************************************************************************)
(* Detached handlers, and what the recovery passes remember.               *)
(***************************************************************************)
LEMMA OrphanUnwindsKeeps ==
    ASSUME ExecInv, NEW p \in Owners, NEW j \in Jobs, OrphanUnwinds(p, j)
    PROVE  ExecInv'
  <1>1. orphan' = [orphan EXCEPT ![p] = orphan[p] \ {j}]
    BY DEF OrphanUnwinds
  <1>2. orphan \in [Owners -> SUBSET Jobs]
    BY DEF ExecInv, LocalTypeOK
  <1>3. orphan' \in [Owners -> SUBSET Jobs] /\ \A q \in Owners : orphan'[q] \subseteq orphan[q]
    BY <1>1, <1>2
  <1>4. OrphanStep
    BY <1>3 DEF OrphanStep
  <1>5. UNCHANGED store /\ UNCHANGED <<proc, rec>> /\ UNCHANGED <<loc, sync, wait, scan>>
    BY DEF OrphanUnwinds
  <1>6. Cell(p, j, loc[p][j], sync[p][j], wait[p][j])
    BY <1>5, CellFacts, SetCell DEF ExecInv
  <1>7. QuietCell(p, j, loc[p][j], sync[p][j], wait[p][j])
    BY CellFacts, TameRefl DEF QuietCell
  <1>8. scan' \in [Owners -> {{}} \cup {{x} : x \in Scans}] /\ ScanInv'
    BY <1>5 DEF ExecInv, LocalTypeOK, ScanInv
  <1>. QED  BY <1>3, <1>4, <1>5, <1>6, <1>7, <1>8, LocalStep

LEMMA SyncFencedKeeps ==
    ASSUME ExecInv, NEW p \in Owners, NEW j \in Jobs, SyncFenced(p, j)
    PROVE  ExecInv'
  <1>. DEFINE e == loc[p][j]  s == sync[p][j]  w == wait[p][j]
  <1>1. UNCHANGED wait /\ UNCHANGED store /\ UNCHANGED <<proc, rec>> /\ UNCHANGED scan
    BY DEF SyncFenced
  <1>2. e \in Locals /\ s \in Requests /\ w \in Requests /\ CellOK(j, e, s, w)
    BY CellFacts
  <1>3. CASE FenceAdvanced(p, j, s)
    <2>1. SetSync(p, j, Quiet("idle")) /\ UNCHANGED <<loc, orphan>>
      BY <1>3 DEF SyncFenced
    <2>2. QuietCell(p, j, e, Quiet("idle"), w)
      BY <1>2, KeepEntry DEF QuietCell, Phases
    <2>. QED  BY <1>1, <1>2, <2>1, <2>2, QuietRequest, QuietStep DEF Phases
  <1>4. CASE ~FenceAdvanced(p, j, s)
    <2>. DEFINE f == IF e.st \in Terminal THEN e ELSE NoEntry
    <2>1. SetSync(p, j, Quiet("off")) /\ SetLoc(p, j, f)
      BY <1>4 DEF SyncFenced
    <2>2. orphan' = [orphan EXCEPT ![p] = IF e.st = "running" THEN orphan[p] \cup {j}
                                                              ELSE orphan[p]]
      BY <1>4 DEF SyncFenced
    <2>3. f \in Locals /\ f.st \notin Active
      BY <1>2, EmptyEntry DEF Terminal, Active
    <2>4. Quiet("off") \in Requests /\ RequestOK(j, Quiet("off")) /\ Quiet("off").gen = NoGen
      BY QuietRequest DEF Phases
    <2>5. QuietCell(p, j, f, Quiet("off"), w)
      BY <1>2, <2>4, KeepEntry, DropEntry DEF QuietCell, Phases, CellOK
    <2>. HIDE DEF f
    <2>6. Cell(p, j, f, Quiet("off"), w)
      BY <1>1, <1>2, <2>1, <2>3, <2>4, SetCell DEF ExecInv
    <2>7. orphan \in [Owners -> SUBSET Jobs]
      BY DEF ExecInv, LocalTypeOK
    <2>8. /\ orphan' \in [Owners -> SUBSET Jobs]
          /\ \A q \in Owners : q # p => orphan'[q] = orphan[q]
          /\ \A k \in orphan'[p] : k \in orphan[p] \/ (k = j /\ e.st = "running")
      BY <2>2, <2>7
    <2>9. OrphanStep
      BY <2>3, <2>6, <2>8 DEF OrphanStep, Cell, Active
    <2>10. scan' \in [Owners -> {{}} \cup {{x} : x \in Scans}] /\ ScanInv'
      BY <1>1 DEF ExecInv, LocalTypeOK, ScanInv
    <2>. QED  BY <1>1, <2>5, <2>6, <2>8, <2>9, <2>10, LocalStep
  <1>. QED  BY <1>3, <1>4

-----------------------------------------------------------------------------
(***************************************************************************)
(* Steps on the rows.  Each is a step of JobStore.                         *)
(***************************************************************************)
\* What every step of the replicas does to the table, the claim of an
\* execution excepted.
TableStep == FenceInv' /\ RowsInv' /\ RowSteps

LEMMA RowFacts ==
    ASSUME ExecInv, NEW j \in Jobs
    PROVE  row[j] \in Rows /\ RowOK(j, row[j]) /\ row \in [Jobs -> Rows]
  BY DEF ExecInv, FenceInv, TypeOK, RowsInv

LEMMA RowStepRefl ==
    ASSUME NEW j, NEW r
    PROVE  RowStep(j, r, r)
  BY DEF RowStep

LEMMA OneRow ==
    ASSUME ExecInv, NEW j \in Jobs, NEW r \in Rows, Put(j, r),
           RowOK(j, r), RowStep(j, row[j], r), Next
    PROVE  TableStep
  <1>1. row'[j] = r /\ \A k \in Jobs \ {j} : row'[k] = row[k]
    BY PutRow DEF ExecInv, FenceInv, TypeOK
  <1>2. FenceInv'
    BY NextFence DEF ExecInv
  <1>3. RowsInv'
    BY <1>1 DEF ExecInv, RowsInv
  <1>4. RowSteps
    <2>. SUFFICES ASSUME NEW k \in Jobs
                  PROVE  RowStep(k, row[k], row'[k])
      BY DEF RowSteps
    <2>. QED  BY <1>1, RowStepRefl
  <1>. QED  BY <1>2, <1>3, <1>4 DEF TableStep

LEMMA CreateRow ==
    ASSUME ExecInv, NEW j \in Jobs, CreateJob(j)
    PROVE  TableStep
  <1>. DEFINE r == [AbsentRow EXCEPT !.state = "pending"]
  <1>1. Put(j, r) /\ row[j].state = "absent"
    BY DEF CreateJob
  <1>2. r \in Rows /\ r.state = "pending" /\ r.gen = NoGen /\ r.outcome = "none"
    BY DEF AbsentRow, Rows, States
  <1>. HIDE DEF r
  <1>3. RowOK(j, r) /\ RowStep(j, row[j], r)
    BY <1>2 DEF RowOK, RowStep
  <1>4. Next
    BY DEF Next, JobNext
  <1>. QED  BY <1>1, <1>2, <1>3, <1>4, OneRow

(***************************************************************************)
(* A snapshot that SyncJobSnapshot admits reports an outcome the table     *)
(* expects: a move has none before it is claimed, and no other job has one.*)
(***************************************************************************)
LEMMA SnapshotIsNext ==
    ASSUME ExecInv, NEW j \in Jobs, NEW x \in Requests, RequestOK(j, x),
           SyncJobSnapshot(j, x.obs, x.gen, x.outcome)
    PROVE  Next
  <1>1. row[j] \in Rows /\ RowOK(j, row[j])
    BY RowFacts
  <1>2. row[j].state \in {"pending", "running"} /\ row[j].gen = x.gen
    BY DEF SyncJobSnapshot, SnapshotAdmitted
  <1>3. x.obs \in Observable /\ x.gen \in AnyGen /\ x.outcome \in AnyOutcome
    BY DEF Requests
  <1>4. x.outcome \in Outcomes(j)
    BY <1>1, <1>2, <1>3, Generations
    DEF Outcomes, RequestOK, RowOK, Running, relocationHoldsExecution, AnyOutcome, AnyGen
  <1>5. JobNext(j)
    BY <1>3, <1>4 DEF JobNext, AnyGen
  <1>. QED  BY <1>5 DEF Next

LEMMA SnapshotRow ==
    ASSUME ExecInv, NEW j \in Jobs, NEW x \in Requests, RequestOK(j, x),
           SyncJobSnapshot(j, x.obs, x.gen, x.outcome)
    PROVE  /\ TableStep
           /\ row[j].gen = x.gen /\ row'[j].gen = x.gen
           /\ row'[j].state = Projected(x.obs)
           /\ x.obs = "running" => /\ Running(j) /\ row'[j].owner = row[j].owner
                                   /\ row'[j].step = "handler"
           /\ row[j].state \in {"pending", "running"}
  <1>. DEFINE q == row[j]
              r == [q EXCEPT !.state = Projected(x.obs),
                             !.owner = IF x.obs = "running" THEN q.owner ELSE NoOwner,
                             !.lease = IF x.obs = "running" THEN TTL ELSE NoLease,
                             !.outcome = x.outcome, !.step = "handler",
                             !.wait = (x.obs = "waiting")]
  <1>1. Put(j, r) /\ SnapshotAdmitted(j, x.obs, x.gen)
    BY DEF SyncJobSnapshot
  <1>2. q \in Rows /\ RowOK(j, q) /\ row \in [Jobs -> Rows]
    BY RowFacts
  <1>3. /\ q.state \in {"pending", "running"} /\ q.gen = x.gen
        /\ x.obs = "running" => q.state = "running"
    BY <1>1 DEF SnapshotAdmitted, Running
  <1>4. x.obs \in Observable /\ x.gen \in AnyGen /\ x.outcome \in AnyOutcome
    BY DEF Requests
  <1>6. Next
    BY SnapshotIsNext
  <1>7. /\ Projected(x.obs) \in States \ {"absent"}
        /\ Projected(x.obs) = "running" <=> x.obs = "running"
        /\ Projected(x.obs) = "pending" => x.obs \in {"pending", "waiting"}
    BY <1>4 DEF Projected, Observable, Terminal, States
  <1>. HIDE DEF q
  <1>8. /\ r \in Rows /\ r.state = Projected(x.obs) /\ r.gen = q.gen /\ r.outcome = x.outcome
        /\ r.step = "handler"
        /\ x.obs = "running" => r.owner = q.owner
    <2>1. (x.obs = "waiting") \in BOOLEAN
      OBVIOUS
    <2>. QED  BY <1>2, <1>4, <1>7, <2>1, FullLease DEF Rows, AnyOutcome
  <1>. HIDE DEF r
  <1>9. RowOK(j, r)
    BY <1>2, <1>3, <1>4, <1>7, <1>8, Generations DEF RowOK, RequestOK, AnyGen
  <1>10. RowStep(j, q, r)
    BY <1>3, <1>7, <1>8 DEF RowStep
  <1>11. TableStep
    BY <1>1, <1>6, <1>8, <1>9, <1>10, OneRow DEF q
  <1>12. row'[j] = r
    BY <1>1, <1>2, <1>8, PutRow
  <1>. QED  BY <1>3, <1>8, <1>11, <1>12 DEF q, Running

\* The rows that leave 'running' as failed, or for another attempt.
LEMMA FailRow ==
    ASSUME ExecInv, NEW j \in Jobs, NEW o \in Owners, NEW slack \in Slacks,
           \/ FailJob(j)
           \/ ReclaimExpiredJobExecution(j, o, slack)
           \/ FailWorkloadRelocationRecovery(j, o)
    PROVE  TableStep
  <1>. DEFINE q == row[j]
              r == [q EXCEPT !.state = "failed", !.owner = NoOwner, !.lease = NoLease]
  <1>1. Put(j, r) /\ q.state = "running"
    BY DEF FailJob, ReclaimExpiredJobExecution, FailWorkloadRelocationRecovery,
           RecoveringAs, Running
  <1>2. q \in Rows /\ RowOK(j, q)
    BY RowFacts
  <1>3. Next
    BY DEF Next, JobNext
  <1>4. r \in Rows /\ RowOK(j, r) /\ RowStep(j, q, r)
    <2>. HIDE DEF q
    <2>1. r \in Rows /\ r.state = "failed" /\ r.gen = q.gen /\ r.outcome = q.outcome
      BY <1>2 DEF Rows, States
    <2>. HIDE DEF r
    <2>. QED  BY <1>2, <2>1 DEF RowOK, RowStep
  <1>. HIDE DEF r
  <1>. QED  BY <1>1, <1>3, <1>4, OneRow

LEMMA ResumeRow ==
    ASSUME ExecInv, NEW j \in Jobs, NEW o \in Owners, NEW slack \in Slacks,
           Type[j] # Relocation, ResumeExpiredJobExecution(j, o, slack)
    PROVE  TableStep
  <1>. DEFINE q == row[j]
              r == [q EXCEPT !.state = "pending", !.owner = NoOwner, !.lease = NoLease]
  <1>1. Put(j, r)
    BY DEF ResumeExpiredJobExecution
  <1>2. q \in Rows /\ RowOK(j, q)
    BY RowFacts
  <1>3. Next
    BY DEF Next, JobNext
  <1>4. r \in Rows /\ RowOK(j, r) /\ RowStep(j, q, r)
    <2>. HIDE DEF q
    <2>1. r \in Rows /\ r.state = "pending" /\ r.gen = q.gen /\ r.outcome = q.outcome
      BY <1>2 DEF Rows, States
    <2>. HIDE DEF r
    <2>. QED  BY <1>2, <2>1 DEF RowOK, RowStep
  <1>. HIDE DEF r
  <1>. QED  BY <1>1, <1>3, <1>4, OneRow

LEMMA RecoverDestroyRow ==
    ASSUME ExecInv, NEW j \in Jobs, NEW slack \in Slacks,
           ReclaimStaleManagedDestroyRecovery(j, slack)
    PROVE  TableStep
  <1>. DEFINE q == row[j]
              r == [q EXCEPT !.state = "pending", !.gen = NoGen, !.owner = NoOwner,
                             !.lease = NoLease]
  <1>1. Put(j, r) /\ Type[j] # Relocation
    BY ExecConstantsAssumption DEF ReclaimStaleManagedDestroyRecovery
  <1>2. q \in Rows /\ RowOK(j, q)
    BY RowFacts
  <1>3. Next
    BY DEF Next, JobNext
  <1>4. r \in Rows /\ RowOK(j, r) /\ RowStep(j, q, r)
    <2>. HIDE DEF q
    <2>1. r \in Rows /\ r.state = "pending" /\ r.gen = NoGen /\ r.outcome = q.outcome
      BY <1>2 DEF Rows, States
    <2>. HIDE DEF r
    <2>. QED  BY <1>1, <1>2, <2>1 DEF RowOK, RowStep
  <1>. HIDE DEF r
  <1>. QED  BY <1>1, <1>3, <1>4, OneRow

LEMMA RecoveryClaimRow ==
    ASSUME ExecInv, NEW j \in Jobs, NEW o \in Owners, ClaimWorkloadRelocationRecovery(j, o)
    PROVE  TableStep
  <1>. DEFINE q == row[j]
              r == [q EXCEPT !.state = "running", !.step = "recovery", !.owner = o,
                             !.lease = TTL]
  <1>1. Put(j, r) /\ Type[j] = Relocation /\ q.outcome = "held"
    BY DEF ClaimWorkloadRelocationRecovery, relocationHoldsExecution
  <1>2. q \in Rows /\ RowOK(j, q)
    BY RowFacts
  <1>3. Next
    BY DEF Next, JobNext
  <1>4. r \in Rows /\ RowOK(j, r) /\ RowStep(j, q, r)
    <2>. HIDE DEF q
    <2>1. r \in Rows /\ r.state = "running" /\ r.gen = q.gen /\ r.outcome = q.outcome
      BY <1>2, FullLease DEF Rows, States
    <2>. HIDE DEF r
    <2>. QED  BY <1>1, <1>2, <2>1 DEF RowOK, RowStep
  <1>. HIDE DEF r
  <1>. QED  BY <1>1, <1>3, <1>4, OneRow

LEMMA RecoveryRenewRow ==
    ASSUME ExecInv, NEW j \in Jobs, NEW o \in Owners, RenewWorkloadRelocationRecovery(j, o)
    PROVE  TableStep
  <1>. DEFINE q == row[j]  r == [q EXCEPT !.lease = TTL]
  <1>1. Put(j, r) /\ q.state = "running"
    BY DEF RenewWorkloadRelocationRecovery, RecoveringAs, Running
  <1>2. q \in Rows /\ RowOK(j, q)
    BY RowFacts
  <1>3. Next
    BY DEF Next, JobNext
  <1>4. r \in Rows /\ RowOK(j, r) /\ RowStep(j, q, r)
    <2>. HIDE DEF q
    <2>1. /\ r \in Rows /\ r.state = q.state /\ r.gen = q.gen /\ r.outcome = q.outcome
          /\ r.owner = q.owner
      BY <1>2, FullLease DEF Rows
    <2>. HIDE DEF r
    <2>. QED  BY <1>1, <1>2, <2>1 DEF RowOK, RowStep
  <1>. HIDE DEF r
  <1>. QED  BY <1>1, <1>3, <1>4, OneRow

LEMMA ResolveRow ==
    ASSUME ExecInv, NEW j \in Jobs, NEW o \in Owners, ResolveWorkloadRelocation(j, o)
    PROVE  TableStep
  <1>. DEFINE q == row[j]
              r == [q EXCEPT !.state = "completed", !.outcome = "settled",
                             !.owner = NoOwner, !.lease = NoLease]
  <1>1. Put(j, r) /\ Type[j] = Relocation /\ q.outcome # "none"
    BY DEF ResolveWorkloadRelocation
  <1>2. q \in Rows /\ RowOK(j, q)
    BY RowFacts
  <1>3. Next
    BY DEF Next, JobNext
  <1>4. r \in Rows /\ RowOK(j, r) /\ RowStep(j, q, r)
    <2>. HIDE DEF q
    <2>1. r \in Rows /\ r.state = "completed" /\ r.gen = q.gen /\ r.outcome = "settled"
      BY <1>2 DEF Rows, States
    <2>. HIDE DEF r
    <2>. QED  BY <1>1, <1>2, <2>1 DEF RowOK, RowStep
  <1>. HIDE DEF r
  <1>. QED  BY <1>1, <1>3, <1>4, OneRow

LEMMA OlderRow ==
    ASSUME NEW r \in Rows
    PROVE  /\ Older(r).state = r.state /\ Older(r).gen = r.gen /\ Older(r).owner = r.owner
           /\ Older(r).outcome = r.outcome /\ Older(r).step = r.step
           /\ r.state = "absent" => Older(r) = r
  BY DEF Older, Rows

LEMMA TickRows ==
    ASSUME ExecInv, Tick
    PROVE  TableStep
  <1>1. FenceInv'
    BY NextFence DEF ExecInv, Next
  <1>. SUFFICES ASSUME NEW j \in Jobs
                PROVE  RowOK(j, row'[j]) /\ RowStep(j, row[j], row'[j])
    BY <1>1 DEF TableStep, RowsInv, RowSteps
  <1>2. row'[j] = Older(row[j])
    BY DEF Tick
  <1>3. row[j] \in Rows /\ RowOK(j, row[j])
    BY RowFacts
  <1>4. /\ row'[j].state = row[j].state /\ row'[j].gen = row[j].gen
        /\ row'[j].owner = row[j].owner /\ row'[j].outcome = row[j].outcome
        /\ row[j].state = "absent" => row'[j] = row[j]
    BY <1>2, <1>3, OlderRow
  <1>. QED  BY <1>3, <1>4 DEF RowOK, RowStep

\* A step that leaves every entry and request alone.
LEMMA TableOnly ==
    ASSUME ExecInv, TableStep, UNCHANGED <<proc, loc, orphan, sync, wait>>,
           scan' \in [Owners -> {{}} \cup {{x} : x \in Scans}], ScanInv',
           rec' \in [Owners -> SUBSET Jobs]
    PROVE  ExecInv'
  <1>1. LocalTypeOK'
    BY DEF ExecInv, LocalTypeOK
  <1>2. CellsInv'
    BY DEF ExecInv, CellsInv
  <1>3. TameCells /\ AckStep /\ OrphanStep
    BY TameRefl DEF TameCells, TameCell, AckStep, OrphanStep
  <1>. QED  BY <1>1, <1>2, <1>3, TameStep DEF TableStep

ScanSets == {{}} \cup {{x} : x \in Scans}

LEMMA SetScan ==
    ASSUME ExecInv, NEW p \in Owners, NEW S \in ScanSets, scan' = [scan EXCEPT ![p] = S],
           \A s \in S : s.act = "resume" => s.job \in Managed
    PROVE  scan' \in [Owners -> ScanSets] /\ ScanInv'
  BY DEF ExecInv, LocalTypeOK, ScanInv, ScanSets

LEMMA ScanFacts ==
    ASSUME ExecInv, NEW p \in Owners, NEW s \in scan[p]
    PROVE  /\ s \in Scans /\ scan[p] = {s}
           /\ s.act = "resume" => s.job \in Managed
  <1>1. scan[p] \in ScanSets
    BY DEF ExecInv, LocalTypeOK, ScanSets
  <1>2. PICK x \in Scans : scan[p] = {x}
    BY <1>1 DEF ScanSets
  <1>. QED  BY <1>2 DEF ExecInv, ScanInv

LEMMA SameScan ==
    ASSUME ExecInv, UNCHANGED scan
    PROVE  scan' \in [Owners -> ScanSets] /\ ScanInv'
  BY DEF ExecInv, LocalTypeOK, ScanInv, ScanSets

LEMMA SameRec ==
    ASSUME ExecInv, UNCHANGED rec
    PROVE  rec' \in [Owners -> SUBSET Jobs]
  BY DEF ExecInv, LocalTypeOK

LEMMA SkewIsSlack ==
    /\ 0 \in Slacks
    /\ \A skew \in 0 .. MaxSkew : skew \in Slacks
  BY ConstantsAssumption DEF Slacks

LEMMA SameTable ==
    ASSUME ExecInv, UNCHANGED store
    PROVE  TableStep
  BY SameRows DEF TableStep

LEMMA NotedScan ==
    ASSUME ExecInv, NEW j \in Jobs, Running(j), NEW slack \in Slacks,
           NEW act \in {"reclaim", "resume", "offer", "abandon"}
    PROVE  /\ Noted(j, slack, act) \in ScanSets
           /\ \A s \in Noted(j, slack, act) : s.act = act /\ s.job = j
  <1>1. row[j] \in Rows
    BY RowFacts
  <1>2. row[j].owner \in Owners /\ row[j].gen \in AnyGen
    BY <1>1 DEF ExecInv, FenceInv, LeaseExactlyWhileRunning, Rows, AnyGen
  <1>3. [job |-> j, owner |-> row[j].owner, gen |-> row[j].gen, slack |-> slack, act |-> act]
          \in Scans
    BY <1>2 DEF Scans
  <1>. QED  BY <1>3 DEF Noted, ScanSets

LEMMA ScanExpiredKeeps ==
    ASSUME ExecInv, NEW p \in Owners, NEW j \in Jobs, NEW skew \in 0 .. MaxSkew,
           ScanExpired(p, j, skew)
    PROVE  ExecInv'
  <1>1. PICK act \in Acts(j) : scan' = [scan EXCEPT ![p] = Noted(j, skew, act)]
    BY DEF ScanExpired
  <1>2. act \in {"reclaim", "resume"} /\ (act = "resume" => j \in Managed)
    BY DEF Acts
  <1>3. /\ Noted(j, skew, act) \in ScanSets
        /\ \A s \in Noted(j, skew, act) : s.act = act /\ s.job = j
    BY <1>2, NotedScan, SkewIsSlack DEF ScanExpired
  <1>4. scan' \in [Owners -> ScanSets] /\ ScanInv'
    BY <1>1, <1>2, <1>3, SetScan
  <1>5. UNCHANGED store /\ UNCHANGED <<proc, loc, orphan, sync, wait>> /\ UNCHANGED rec
    BY DEF ScanExpired
  <1>. QED  BY <1>4, <1>5, SameTable, SameRec, TableOnly DEF ScanSets

LEMMA AdmitAbandonKeeps ==
    ASSUME ExecInv, NEW p \in Owners, NEW j \in Jobs, AdmitAbandon(p, j)
    PROVE  ExecInv'
  <1>1. scan' = [scan EXCEPT ![p] = Noted(j, 0, "abandon")]
    BY DEF AdmitAbandon
  <1>2. /\ Noted(j, 0, "abandon") \in ScanSets
        /\ \A s \in Noted(j, 0, "abandon") : s.act = "abandon"
    BY NotedScan, SkewIsSlack DEF AdmitAbandon
  <1>3. scan' \in [Owners -> ScanSets] /\ ScanInv'
    BY <1>1, <1>2, SetScan
  <1>4. UNCHANGED store /\ UNCHANGED <<proc, loc, orphan, sync, wait>> /\ UNCHANGED rec
    BY DEF AdmitAbandon
  <1>. QED  BY <1>3, <1>4, SameTable, SameRec, TableOnly DEF ScanSets

LEMMA ScanClears ==
    ASSUME ExecInv, NEW p \in Owners, scan' = [scan EXCEPT ![p] = {}]
    PROVE  scan' \in [Owners -> ScanSets] /\ ScanInv'
  BY SetScan DEF ScanSets

LEMMA ScanDroppedKeeps ==
    ASSUME ExecInv, NEW p \in Owners, ScanDropped(p)
    PROVE  ExecInv'
  <1>1. scan' \in [Owners -> ScanSets] /\ ScanInv'
    BY ScanClears DEF ScanDropped
  <1>2. UNCHANGED store /\ UNCHANGED <<proc, loc, orphan, sync, wait>> /\ UNCHANGED rec
    BY DEF ScanDropped
  <1>. QED  BY <1>1, <1>2, SameTable, SameRec, TableOnly DEF ScanSets

LEMMA ReclaimOneKeeps ==
    ASSUME ExecInv, NEW p \in Owners, ReclaimOne(p)
    PROVE  ExecInv'
  <1>1. PICK s \in scan[p] : \/ ReclaimExpiredJobExecution(s.job, s.owner, s.slack)
                             \/ FailJob(s.job)
    BY DEF ReclaimOne
  <1>2. s.job \in Jobs /\ s.owner \in Owners /\ s.slack \in Slacks
    BY ScanFacts DEF Scans
  <1>3. TableStep
    BY <1>1, <1>2, FailRow
  <1>4. scan' \in [Owners -> ScanSets] /\ ScanInv'
    BY ScanClears DEF ReclaimOne
  <1>5. UNCHANGED <<proc, loc, orphan, sync, wait>> /\ UNCHANGED rec
    BY DEF ReclaimOne
  <1>. QED  BY <1>3, <1>4, <1>5, SameRec, TableOnly DEF ScanSets

LEMMA ResumeOneKeeps ==
    ASSUME ExecInv, NEW p \in Owners, ResumeOne(p)
    PROVE  ExecInv'
  <1>1. PICK s \in scan[p] :
           /\ s.act = "resume" /\ ResumeExpiredJobExecution(s.job, s.owner, s.slack)
           /\ scan' = [scan EXCEPT ![p] = {[s EXCEPT !.act = "offer"]}]
    BY DEF ResumeOne
  <1>2. s \in Scans /\ s.job \in Managed
    BY <1>1, ScanFacts
  <1>3. s.job \in Jobs /\ s.owner \in Owners /\ s.slack \in Slacks /\ Type[s.job] # Relocation
    BY <1>2, ExecConstantsAssumption DEF Scans
  <1>4. TableStep
    BY <1>1, <1>3, ResumeRow
  <1>. DEFINE x == [s EXCEPT !.act = "offer"]
  <1>5. x \in Scans /\ x.act = "offer"
    BY <1>2 DEF Scans
  <1>6. scan' = [scan EXCEPT ![p] = {x}]
    BY <1>1
  <1>. HIDE DEF x
  <1>7. {x} \in ScanSets
    BY <1>5 DEF ScanSets
  <1>8. scan' \in [Owners -> ScanSets] /\ ScanInv'
    BY <1>5, <1>6, <1>7, SetScan
  <1>9. UNCHANGED <<proc, loc, orphan, sync, wait>> /\ UNCHANGED rec
    BY DEF ResumeOne
  <1>. QED  BY <1>4, <1>8, <1>9, SameRec, TableOnly DEF ScanSets

LEMMA RecoverDestroyKeeps ==
    ASSUME ExecInv, NEW p \in Owners, NEW j \in Jobs, NEW skew \in 0 .. MaxSkew,
           RecoverDestroy(p, j, skew)
    PROVE  ExecInv'
  <1>1. TableStep
    BY RecoverDestroyRow, SkewIsSlack DEF RecoverDestroy
  <1>2. UNCHANGED <<proc, loc, orphan, sync, wait>> /\ UNCHANGED scan /\ UNCHANGED rec
    BY DEF RecoverDestroy
  <1>. QED  BY <1>1, <1>2, SameScan, SameRec, TableOnly DEF ScanSets

LEMMA RecoveryKeeps ==
    ASSUME ExecInv, NEW p \in Owners, NEW j \in Jobs,
           RecoveryClaim(p, j) \/ RecoveryRenew(p, j) \/ RecoveryEnd(p, j)
    PROVE  ExecInv'
  <1>1. TableStep
    BY RecoveryClaimRow, RecoveryRenewRow, ResolveRow, FailRow, SkewIsSlack, SameTable
    DEF RecoveryClaim, RecoveryRenew, RecoveryEnd
  <1>2. rec \in [Owners -> SUBSET Jobs]
    BY DEF ExecInv, LocalTypeOK
  <1>3. rec' \in [Owners -> SUBSET Jobs]
    BY <1>2 DEF RecoveryClaim, RecoveryRenew, RecoveryEnd
  <1>4. UNCHANGED <<proc, loc, orphan, sync, wait>> /\ UNCHANGED scan
    BY DEF RecoveryClaim, RecoveryRenew, RecoveryEnd
  <1>. QED  BY <1>1, <1>3, <1>4, SameScan, TableOnly DEF ScanSets

LEMMA NodeCommandKeeps ==
    ASSUME ExecInv, NEW j \in Jobs, NodeCommand(j)
    PROVE  ExecInv'
  <1>1. Next /\ row' = row
    BY DEF NodeCommand, DispatchCommand, SettleCommand, Next, JobNext
  <1>2. FenceInv'
    BY <1>1, NextFence DEF ExecInv
  <1>3. TableStep
    BY <1>1, <1>2, RowStepRefl DEF TableStep, ExecInv, RowsInv, RowSteps
  <1>4. UNCHANGED <<proc, loc, orphan, sync, wait>> /\ UNCHANGED scan /\ UNCHANGED rec
    BY DEF NodeCommand
  <1>. QED  BY <1>3, <1>4, SameScan, SameRec, TableOnly DEF ScanSets

LEMMA ExecTickKeeps ==
    ASSUME ExecInv, ExecTick
    PROVE  ExecInv'
  <1>. DEFINE old(s) == IF s.slack > 0 - MaxLag THEN [s EXCEPT !.slack = @ - 1] ELSE s
  <1>1. scan' = [p \in Owners |-> {old(s) : s \in scan[p]}]
    BY DEF ExecTick
  <1>2. \A s \in Scans : old(s) \in Scans /\ old(s).act = s.act /\ old(s).job = s.job
    BY ConstantsAssumption DEF Scans, Slacks
  <1>. HIDE DEF old
  <1>3. \A p \in Owners : scan'[p] \in ScanSets
    <2>. SUFFICES ASSUME NEW p \in Owners
                  PROVE  scan'[p] \in ScanSets
      OBVIOUS
    <2>1. scan[p] \in ScanSets
      BY DEF ExecInv, LocalTypeOK, ScanSets
    <2>2. CASE scan[p] = {}
      BY <1>1, <2>2 DEF ScanSets
    <2>3. CASE scan[p] # {}
      <3>1. PICK x \in Scans : scan[p] = {x}
        BY <2>1, <2>3 DEF ScanSets
      <3>2. scan'[p] = {old(x)}
        BY <1>1, <3>1
      <3>. QED  BY <1>2, <3>1, <3>2 DEF ScanSets
    <2>. QED  BY <2>2, <2>3
  <1>4. scan' \in [Owners -> ScanSets]
    BY <1>1, <1>3
  <1>5. ScanInv'
    <2>. SUFFICES ASSUME NEW p \in Owners, NEW s \in scan'[p], s.act = "resume"
                  PROVE  s.job \in Managed
      BY DEF ScanInv
    <2>1. PICK x \in scan[p] : s = old(x)
      BY <1>1
    <2>. QED  BY <1>2, <2>1, ScanFacts
  <1>6. TableStep
    BY TickRows DEF ExecTick
  <1>7. UNCHANGED <<proc, loc, orphan, sync, wait>> /\ UNCHANGED rec
    BY DEF ExecTick
  <1>. QED  BY <1>4, <1>5, <1>6, <1>7, SameRec, TableOnly DEF ScanSets

-----------------------------------------------------------------------------
(***************************************************************************)
(* Steps that write a row and the cell the request came from.              *)
(***************************************************************************)
LEMMA CellAndTable ==
    ASSUME ExecInv, TableStep, NEW p \in Owners, NEW j \in Jobs,
           NEW e \in Locals, NEW s \in Requests, NEW w \in Requests,
           SetLoc(p, j, e) \/ (UNCHANGED loc /\ e = loc[p][j]),
           SetSync(p, j, s) \/ (UNCHANGED sync /\ s = sync[p][j]),
           SetWait(p, j, w) \/ (UNCHANGED wait /\ w = wait[p][j]),
           CellOK(j, e, s, w), Tame(loc[p][j], sync[p][j], wait[p][j], e, s, w),
           NoAck(loc[p][j], wait[p][j], e, w) \/ row'[j].state = "pending",
           UNCHANGED <<proc, orphan, scan, rec>>
    PROVE  ExecInv'
  <1>1. Cell(p, j, e, s, w)
    BY SetCell DEF ExecInv
  <1>2. CellsInv' /\ TameCells
    BY <1>1, CellKeeps
  <1>3. AckStep
    <2>. SUFFICES ASSUME NEW q \in Owners, NEW k \in Jobs
                  PROVE  \/ NoAck(loc[q][k], wait[q][k], loc'[q][k], wait'[q][k])
                         \/ row'[k].state = "pending"
      BY DEF AckStep
    <2>1. CASE q = p /\ k = j
      BY <1>1, <2>1 DEF Cell
    <2>2. CASE q # p \/ k # j
      BY <1>1, <2>2, CellKeeps
    <2>. QED  BY <2>1, <2>2
  <1>4. LocalTypeOK'
    BY <1>1 DEF ExecInv, LocalTypeOK, Cell
  <1>5. ScanInv' /\ OrphanStep
    BY DEF ExecInv, ScanInv, OrphanStep
  <1>. QED  BY <1>2, <1>3, <1>4, <1>5, TameStep DEF TableStep

LEMMA OfferedEntry ==
    ASSUME ExecInv, NEW j \in Jobs, row[j].state \in {"absent", "pending"}
    PROVE  /\ Offered(j) \in Locals /\ Offered(j).st = "pending"
           /\ Offered(j).gen = NoGen /\ Offered(j).prev = NoGen
           /\ Offered(j).outcome = "none"
  <1>1. row[j].outcome = "none"
    BY RowFacts DEF RowOK
  <1>. QED  BY <1>1 DEF Offered, NoEntry, Locals, LocalStates, AnyGen, AnyOutcome

LEMMA OfferIsQuiet ==
    ASSUME ExecInv, NEW j \in Jobs, row[j].state \in {"absent", "pending"},
           NEW e, NEW s, NEW w, CellOK(j, e, s, w), NEW ph \in Phases,
           NEW v, RequestOK(j, v), v.gen \in {w.gen, NoGen}
    PROVE  /\ CellOK(j, Offered(j), Quiet(ph), v)
           /\ Tame(e, s, w, Offered(j), Quiet(ph), v)
           /\ NoAck(e, w, Offered(j), v)
  <1>1. RequestOK(j, Quiet(ph)) /\ Quiet(ph).gen = NoGen
    BY QuietRequest
  <1>2. /\ Offered(j).st = "pending" /\ Offered(j).gen = NoGen
        /\ Offered(j).prev = NoGen /\ Offered(j).outcome = "none"
    BY OfferedEntry
  <1>. QED  BY <1>1, <1>2 DEF CellOK, EntryOK, Tame, NoAck, Active

LEMMA AdmitKeeps ==
    ASSUME ExecInv, NEW p \in Owners, NEW j \in Jobs, Admit(p, j)
    PROVE  ExecInv'
  <1>1. TableStep
    BY CreateRow DEF Admit
  <1>2. UNCHANGED wait /\ UNCHANGED <<proc, orphan, scan, rec>>
    BY DEF Admit
  <1>3. row[j].state \in {"absent", "pending"} /\ loc[p][j] = NoEntry
    BY DEF Admit, CreateJob, Unknown
  <1>4. CASE SetLoc(p, j, Offered(j)) /\ SetSync(p, j, Quiet("idle"))
    <2>1. /\ CellOK(j, Offered(j), Quiet("idle"), wait[p][j])
          /\ Tame(loc[p][j], sync[p][j], wait[p][j], Offered(j), Quiet("idle"), wait[p][j])
          /\ NoAck(loc[p][j], wait[p][j], Offered(j), wait[p][j])
      BY <1>3, CellFacts, OfferIsQuiet, EmptyEntry DEF CellOK, Phases
    <2>2. Offered(j) \in Locals /\ Quiet("idle") \in Requests
      BY <1>3, OfferedEntry, QuietRequest DEF Phases
    <2>. QED  BY <1>1, <1>2, <1>4, <2>1, <2>2, CellFacts, CellAndTable
  <1>5. CASE UNCHANGED <<loc, sync>>
    BY <1>1, <1>2, <1>5, CellFacts, TameRefl, CellAndTable
  <1>. QED  BY <1>4, <1>5 DEF Admit

LEMMA RehydrateKeeps ==
    ASSUME ExecInv, NEW p \in Owners, NEW j \in Jobs, Rehydrate(p, j)
    PROVE  ExecInv'
  <1>1. row[j].state \in {"absent", "pending"} /\ loc[p][j] = NoEntry
    BY DEF Rehydrate, Unknown
  <1>2. QuietCell(p, j, Offered(j), Quiet("deferred"), wait[p][j])
    BY <1>1, CellFacts, OfferIsQuiet, EmptyEntry DEF QuietCell, CellOK, Phases
  <1>3. Offered(j) \in Locals /\ Quiet("deferred") \in Requests
    BY <1>1, OfferedEntry, QuietRequest DEF Phases
  <1>4. /\ SetLoc(p, j, Offered(j)) /\ SetSync(p, j, Quiet("deferred"))
        /\ UNCHANGED wait /\ UNCHANGED store /\ UNCHANGED <<proc, rec>> /\ UNCHANGED orphan
    BY DEF Rehydrate
  <1>5. Cell(p, j, Offered(j), Quiet("deferred"), wait[p][j])
    BY <1>3, <1>4, CellFacts, SetCell DEF ExecInv
  <1>6. scan' \in [Owners -> ScanSets] /\ ScanInv'
    <2>. DEFINE S == {s \in scan[p] : s.act # "offer"}
    <2>1. scan' = [scan EXCEPT ![p] = S]
      BY DEF Rehydrate
    <2>2. scan[p] \in ScanSets
      BY DEF ExecInv, LocalTypeOK, ScanSets
    <2>3. S \in ScanSets
      BY <2>2 DEF ScanSets
    <2>4. \A s \in S : s.act = "resume" => s.job \in Managed
      BY ScanFacts
    <2>. HIDE DEF S
    <2>. QED  BY <2>1, <2>3, <2>4, SetScan
  <1>7. orphan' \in [Owners -> SUBSET Jobs] /\ OrphanStep
    BY <1>4 DEF ExecInv, LocalTypeOK, OrphanStep
  <1>. QED  BY <1>2, <1>4, <1>5, <1>6, <1>7, LocalStep DEF ScanSets

LEMMA SyncCommitKeeps ==
    ASSUME ExecInv, NEW p \in Owners, NEW j \in Jobs, SyncCommit(p, j)
    PROVE  ExecInv'
  <1>1. TableStep
    BY CellFacts, SnapshotRow DEF SyncCommit, CellOK
  <1>2. PICK ph \in Phases : SetSync(p, j, Quiet(ph))
    BY DEF SyncCommit, Phases
  <1>3. UNCHANGED loc /\ UNCHANGED wait /\ UNCHANGED <<proc, orphan, scan, rec>>
    BY DEF SyncCommit
  <1>4. /\ CellOK(j, loc[p][j], Quiet(ph), wait[p][j])
        /\ Tame(loc[p][j], sync[p][j], wait[p][j], loc[p][j], Quiet(ph), wait[p][j])
        /\ NoAck(loc[p][j], wait[p][j], loc[p][j], wait[p][j])
    BY CellFacts, KeepEntry
  <1>. QED  BY <1>1, <1>2, <1>3, <1>4, CellFacts, QuietRequest, CellAndTable

LEMMA QuietWait ==
    ASSUME ExecInv, NEW p \in Owners, NEW j \in Jobs, NEW ph \in Phases
    PROVE  /\ CellOK(j, loc[p][j], sync[p][j], Quiet(ph))
           /\ Tame(loc[p][j], sync[p][j], wait[p][j], loc[p][j], sync[p][j], Quiet(ph))
           /\ NoAck(loc[p][j], wait[p][j], loc[p][j], Quiet(ph))
              \/ (loc[p][j].st = "waiting" /\ ph = "acked")
  <1>. DEFINE e == loc[p][j]  s == sync[p][j]  w == wait[p][j]  v == Quiet(ph)
  <1>1. CellOK(j, e, s, w)
    BY CellFacts
  <1>2. RequestOK(j, v) /\ v.gen = NoGen /\ v.ph = ph /\ v.obs = "pending"
    BY QuietRequest
  <1>. HIDE DEF e, s, w, v
  <1>3. CellOK(j, e, s, v)
    BY <1>1, <1>2, Generations DEF CellOK, EntryOK, Active
  <1>4. Tame(e, s, w, e, s, v) /\ (NoAck(e, w, e, v) \/ (e.st = "waiting" /\ ph = "acked"))
    BY <1>2 DEF Tame, NoAck
  <1>. QED  BY <1>3, <1>4 DEF e, s, w, v

LEMMA WaitCommitKeeps ==
    ASSUME ExecInv, NEW p \in Owners, NEW j \in Jobs, WaitCommit(p, j)
    PROVE  ExecInv'
  <1>1. TableStep /\ row'[j].state = "pending"
    BY CellFacts, SnapshotRow DEF WaitCommit, CellOK, Parking, Projected
  <1>2. PICK ph \in Phases : SetWait(p, j, Quiet(ph))
    BY DEF WaitCommit, Phases
  <1>3. UNCHANGED loc /\ UNCHANGED sync /\ UNCHANGED <<proc, orphan, scan, rec>>
    BY DEF WaitCommit
  <1>. QED  BY <1>1, <1>2, <1>3, QuietWait, CellFacts, QuietRequest, CellAndTable

LEMMA CheckpointWrittenKeeps ==
    ASSUME ExecInv, NEW p \in Owners, NEW j \in Jobs, CheckpointWritten(p, j)
    PROVE  ExecInv'
  <1>1. TableStep
    BY CellFacts, SnapshotRow DEF CheckpointWritten, CellOK
  <1>2. UNCHANGED sync /\ UNCHANGED <<proc, orphan, scan, rec>>
    BY DEF CheckpointWritten
  <1>3. CASE PreflightFailed(p, j)
    <2>1. PICK f \in Locals : SetLoc(p, j, f) /\ QuietCell(p, j, f, sync[p][j], Quiet("off"))
      BY <1>3, PreflightIsQuiet
    <2>2. SetWait(p, j, Quiet("off")) /\ Quiet("off") \in Requests
      BY <1>3, QuietRequest DEF PreflightFailed, Phases
    <2>3. sync[p][j] \in Requests
      BY CellFacts
    <2>4. /\ CellOK(j, f, sync[p][j], Quiet("off"))
          /\ Tame(loc[p][j], sync[p][j], wait[p][j], f, sync[p][j], Quiet("off"))
          /\ NoAck(loc[p][j], wait[p][j], f, Quiet("off"))
      BY <2>1 DEF QuietCell
    <2>. QED  BY <1>1, <1>2, <2>1, <2>2, <2>3, <2>4, CellAndTable
  <1>4. CASE ~PreflightFailed(p, j)
    <2>1. PICK ph \in Phases : /\ SetWait(p, j, Quiet(ph))
                               /\ ph = "acked" => loc[p][j].st = "running"
      BY <1>4 DEF CheckpointWritten, Phases
    <2>2. UNCHANGED loc
      BY <1>4 DEF CheckpointWritten
    <2>. QED  BY <1>1, <1>2, <2>1, <2>2, QuietWait, CellFacts, QuietRequest, CellAndTable
  <1>. QED  BY <1>3, <1>4

-----------------------------------------------------------------------------
(***************************************************************************)
(* The local start of an execution, and the claim of its row.              *)
(***************************************************************************)
LEMMA StackSymmetric ==
    ASSUME NEW j, NEW k, SameStack(j, k)
    PROVE  SameStack(k, j)
  BY DEF SameStack

LEMMA BeginKeeps ==
    ASSUME ExecInv, NEW p \in Owners, NEW j \in Jobs, NEW g \in Gens,
           BeginJobExecution(p, j, g)
    PROVE  ExecInv'
  <1>. DEFINE e == loc[p][j]  s == sync[p][j]  w == wait[p][j]  v == Quiet("off")
              f == [e EXCEPT !.st = "claiming", !.gen = g, !.prev = e.gen, !.cancel = "no"]
  <1>1. /\ e \in Locals /\ s \in Requests /\ w \in Requests /\ CellOK(j, e, s, w)
        /\ e.st \in {"pending", "waiting"}
    BY CellFacts DEF BeginJobExecution
  <1>2. /\ \A k \in Jobs : row[k].gen # g
        /\ \A q \in Owners, k \in Jobs : g \notin Slots(q, k)
    BY DEF BeginJobExecution, Fresh, Slots
  <1>3. g # s.gen
    BY <1>2 DEF Slots
  <1>4. SetLoc(p, j, f) /\ SetWait(p, j, v)
    BY DEF BeginJobExecution
  <1>5. UNCHANGED sync /\ UNCHANGED store /\ UNCHANGED <<proc, orphan, scan, rec>>
    BY DEF BeginJobExecution
  <1>6. v \in Requests /\ RequestOK(j, v) /\ v.gen = NoGen /\ v.ph = "off"
    BY QuietRequest DEF Phases
  <1>7. /\ f \in Locals /\ f.st = "claiming" /\ f.gen = g /\ f.prev = e.gen
        /\ f.outcome = e.outcome
    <2>. HIDE DEF e
    <2>. QED  BY <1>1 DEF Locals, LocalStates, AnyGen
  <1>. HIDE DEF f, v
  <1>8. CellOK(j, f, s, v)
    <2>. HIDE DEF e, s, w
    <2>. QED  BY <1>1, <1>3, <1>6, <1>7, Generations DEF CellOK, EntryOK, Active, Terminal
  <1>9. Cell(p, j, f, s, v)
    BY <1>1, <1>4, <1>5, <1>6, <1>7, SetCell DEF ExecInv
  <1>10. /\ loc'[p][j] = f /\ sync'[p][j] = s /\ wait'[p][j] = v
         /\ \A q \in Owners, k \in Jobs : q # p \/ k # j =>
               loc'[q][k] = loc[q][k] /\ sync'[q][k] = sync[q][k] /\ wait'[q][k] = wait[q][k]
    BY <1>9 DEF Cell
  <1>11. row' = row
    BY <1>5 DEF store
  <1>12. CellsInv'
    <2>. SUFFICES ASSUME NEW q \in Owners, NEW k \in Jobs
                  PROVE  CellOK(k, loc'[q][k], sync'[q][k], wait'[q][k])
      BY DEF CellsInv
    <2>1. CASE q = p /\ k = j
      BY <2>1, <1>8, <1>10
    <2>2. CASE q # p \/ k # j
      <3>1. CellOK(k, loc[q][k], sync[q][k], wait[q][k])
        BY DEF ExecInv, CellsInv
      <3>. QED  BY <2>2, <3>1, <1>10
    <2>. QED  BY <2>1, <2>2
  <1>13. AcksInv'
    <2>. SUFFICES ASSUME NEW q \in Owners, NEW k \in Jobs
                  PROVE  AckOK(row[k], loc'[q][k], wait'[q][k])
      BY <1>11 DEF AcksInv
    <2>1. CASE q = p /\ k = j
      BY <2>1, <1>7, <1>10 DEF AckOK
    <2>2. CASE q # p \/ k # j
      <3>1. AckOK(row[k], loc[q][k], wait[q][k])
        BY DEF ExecInv, AcksInv
      <3>. QED  BY <2>2, <3>1, <1>10
    <2>. QED  BY <2>1, <2>2
  <1>14. /\ \A q \in Owners, k \in Jobs : q # p \/ k # j => Slots(q, k)' = Slots(q, k)
         /\ Slots(p, j)' \subseteq Slots(p, j) \cup {g, NoGen}
    BY <1>6, <1>7, <1>10 DEF Slots
  <1>15. GenUnique'
    BY <1>2, <1>14, Generations DEF ExecInv, GenUnique
  <1>16. OwnerHolds'
    <2>. SUFFICES ASSUME NEW q \in Owners, NEW k \in Jobs, Running(k), Type[k] # Relocation,
                         row[k].gen \in Slots(q, k)'
                  PROVE  row[k].owner = q
      BY <1>11 DEF OwnerHolds, Running
    <2>1. row[k].gen \in Gens
      BY RowFacts DEF RowOK, Running
    <2>2. row[k].gen \in Slots(q, k)
      BY <2>1, <1>2, <1>14, Generations
    <2>. QED  BY <2>2 DEF ExecInv, OwnerHolds
  <1>17. TokenInv'
    <2>. SUFFICES ASSUME NEW q \in Owners, NEW k \in Jobs, NEW l \in Jobs,
                         SameStack(k, l), loc'[q][k].st \in Active
                  PROVE  l \notin orphan[q] /\ (k # l => loc'[q][l].st \notin Active)
      BY <1>5 DEF TokenInv, SameStack
    <2>1. \A m \in Jobs : SameStack(j, m) => loc[p][m].st \notin Active /\ m \notin orphan[p]
      BY DEF BeginJobExecution, TokenFree
    <2>2. CASE q # p
      BY <2>2, <1>10 DEF ExecInv, TokenInv
    <2>3. CASE q = p /\ k = j
      BY <2>1, <2>3, <1>10
    <2>4. CASE q = p /\ k # j
      <3>1. loc[p][k].st \in Active
        BY <2>4, <1>10
      <3>2. l # j
        BY <2>1, <3>1, StackSymmetric
      <3>. QED  BY <2>4, <3>1, <3>2, <1>10 DEF ExecInv, TokenInv
    <2>. QED  BY <2>2, <2>3, <2>4
  <1>18. FenceInv' /\ RowsInv'
    BY <1>5, SameRows
  <1>19. LocalTypeOK' /\ ScanInv'
    BY <1>5, <1>9 DEF ExecInv, LocalTypeOK, Cell, ScanInv
  <1>. QED
    BY <1>12, <1>13, <1>15, <1>16, <1>17, <1>18, <1>19 DEF ExecInv

\* What the claiming boot writes when the claim was made: the answer arrives,
\* is lost, or nobody is left to hear it.
LEMMA ClaimWonCell ==
    ASSUME ExecInv, NEW p \in Owners, NEW j \in Jobs, ClaimWon(p, j)
    PROVE  \E f \in Locals, v \in Requests :
              /\ SetLoc(p, j, f)
              /\ SetWait(p, j, v) \/ (UNCHANGED wait /\ v = wait[p][j])
              /\ QuietCell(p, j, f, sync[p][j], v)
  <1>. DEFINE e == loc[p][j]  s == sync[p][j]  w == wait[p][j]
  <1>1. /\ e \in Locals /\ s \in Requests /\ w \in Requests
        /\ CellOK(j, e, s, w) /\ e.st = "claiming"
    BY CellFacts DEF ClaimWon
  <1>2. CASE DeferExecutionClaim(p, j)
    BY <1>1, <1>2, DeferWrites, UnclaimedIsQuiet, ZenonT(60) DEF QuietCell
  <1>3. CASE SetLoc(p, j, NoEntry) /\ UNCHANGED wait
    BY <1>1, <1>3, DropEntry, EmptyEntry DEF QuietCell, CellOK
  <1>. DEFINE x == IF e.cancel = "no" THEN "running" ELSE "cancelled"
              f == [e EXCEPT !.prev = NoGen, !.st = x]
  <1>4. CASE SetLoc(p, j, f) /\ UNCHANGED wait
    <2>1. f \in Locals /\ CellOK(j, f, s, w) /\ Tame(e, s, w, f, s, w) /\ NoAck(e, w, f, w)
      <3>. HIDE DEF e, s, w
      <3>1. /\ f \in Locals /\ f.st \in {"running", "cancelled"} /\ f.gen = e.gen
            /\ f.prev = NoGen /\ f.outcome = e.outcome
        BY <1>1 DEF Locals, LocalStates, AnyGen, Terminal
      <3>. HIDE DEF f
      <3>. QED  BY <1>1, <3>1 DEF CellOK, EntryOK, Tame, NoAck, Active, Terminal
    <2>. HIDE DEF f
    <2>. QED  BY <1>1, <1>4, <2>1 DEF QuietCell
  <1>. QED  BY <1>2, <1>3, <1>4 DEF ClaimWon

LEMMA ClaimWonKeeps ==
    ASSUME ExecInv, NEW p \in Owners, NEW j \in Jobs, ClaimWon(p, j)
    PROVE  ExecInv'
  <1>. DEFINE e == loc[p][j]  q == row[j]
              r == [q EXCEPT !.state = "running", !.gen = e.gen, !.owner = p, !.lease = TTL]
  <1>1. PICK f \in Locals, v \in Requests :
              /\ SetLoc(p, j, f)
              /\ SetWait(p, j, v) \/ (UNCHANGED wait /\ v = wait[p][j])
              /\ QuietCell(p, j, f, sync[p][j], v)
    BY ClaimWonCell
  <1>2. UNCHANGED sync /\ UNCHANGED <<proc, orphan, scan, rec>> /\ e.st = "claiming"
    BY DEF ClaimWon
  <1>3. Cell(p, j, f, sync[p][j], v)
    BY <1>1, <1>2, CellFacts, SetCell DEF ExecInv
  <1>4. CellsInv' /\ TameCells
    BY <1>1, <1>3, CellKeeps DEF QuietCell
  <1>5. \A o \in Owners, k \in Jobs : NoAck(loc[o][k], wait[o][k], loc'[o][k], wait'[o][k])
    <2>. SUFFICES ASSUME NEW o \in Owners, NEW k \in Jobs
                  PROVE  NoAck(loc[o][k], wait[o][k], loc'[o][k], wait'[o][k])
      OBVIOUS
    <2>1. CASE o = p /\ k = j
      BY <1>1, <1>3, <2>1 DEF Cell, QuietCell
    <2>2. CASE o # p \/ k # j
      BY <1>1, <1>3, <2>2, CellKeeps DEF QuietCell
    <2>. QED  BY <2>1, <2>2
  <1>6. e.gen \in Gens /\ e.gen \in Slots(p, j)
    BY <1>2, CellFacts DEF CellOK, EntryOK, Active, Slots
  <1>7. Put(j, r) /\ StartJob(j, p, e.gen)
    BY DEF ClaimWon, StartJob
  <1>8. q \in Rows /\ RowOK(j, q) /\ row \in [Jobs -> Rows]
    BY RowFacts
  <1>9. /\ r \in Rows /\ r.state = "running" /\ r.gen = e.gen /\ r.owner = p
        /\ r.outcome = q.outcome
    <2>. HIDE DEF e, q
    <2>. QED  BY <1>6, <1>8, FullLease DEF Rows, States
  <1>. HIDE DEF r
  <1>10. row'[j] = r /\ \A k \in Jobs \ {j} : row'[k] = row[k]
    BY <1>7, <1>8, <1>9, PutRow
  <1>11. FenceInv'
    <2>1. Next
      BY <1>6, <1>7 DEF Next, JobNext
    <2>. QED  BY <2>1, NextFence DEF ExecInv
  <1>12. RowsInv'
    <2>1. RowOK(j, r)
      BY <1>6, <1>8, <1>9 DEF RowOK
    <2>. QED  BY <2>1, <1>10 DEF ExecInv, RowsInv
  <1>13. GenUnique'
    BY <1>4, TameKeepsUnique DEF ExecInv
  <1>14. \A o \in Owners, k \in Jobs : \A g \in Gens : g \in Slots(o, k)' => g \in Slots(o, k)
    BY <1>4, Generations DEF TameCells, TameCell, Tame, Slots
  <1>15. OwnerHolds'
    <2>. SUFFICES ASSUME NEW o \in Owners, NEW k \in Jobs, Running(k)', Type[k] # Relocation,
                         row'[k].gen \in Slots(o, k)'
                  PROVE  row'[k].owner = o
      BY DEF OwnerHolds
    <2>1. row'[k].gen \in Gens
      BY <1>12 DEF RowsInv, RowOK, Running
    <2>2. row'[k].gen \in Slots(o, k)
      BY <2>1, <1>14
    <2>3. CASE k = j
      BY <2>2, <2>3, <1>6, <1>9, <1>10 DEF ExecInv, GenUnique
    <2>4. CASE k # j
      BY <2>2, <2>4, <1>10 DEF ExecInv, OwnerHolds, Running
    <2>. QED  BY <2>3, <2>4
  <1>16. AcksInv'
    <2>. SUFFICES ASSUME NEW o \in Owners, NEW k \in Jobs
                  PROVE  AckOK(row'[k], loc'[o][k], wait'[o][k])
      BY DEF AcksInv
    <2>1. NoAck(loc[o][k], wait[o][k], loc'[o][k], wait'[o][k]) /\ AckOK(row[k], loc[o][k], wait[o][k])
      BY <1>5 DEF ExecInv, AcksInv
    <2>2. CASE k # j
      BY <2>1, <2>2, <1>10 DEF AckOK, NoAck
    <2>3. CASE k = j /\ loc[o][j].gen = e.gen
      <3>1. o = p
        BY <2>3, <1>6 DEF Slots, ExecInv, GenUnique
      <3>. QED  BY <2>1, <2>3, <3>1, <1>2 DEF AckOK, NoAck
    <2>4. CASE k = j /\ loc[o][j].gen # e.gen
      BY <2>1, <2>4, <1>9, <1>10 DEF AckOK, NoAck
    <2>. QED  BY <2>2, <2>3, <2>4
  <1>17. OrphanStep
    BY <1>2 DEF OrphanStep
  <1>18. TokenInv'
    BY <1>4, <1>17, TameKeepsToken DEF ExecInv
  <1>19. LocalTypeOK' /\ ScanInv'
    BY <1>2, <1>3 DEF ExecInv, LocalTypeOK, Cell, ScanInv
  <1>. QED
    BY <1>4, <1>11, <1>12, <1>13, <1>15, <1>16, <1>18, <1>19 DEF ExecInv

-----------------------------------------------------------------------------
(***************************************************************************)
(* Steps of a whole boot.                                                  *)
(***************************************************************************)
LEMMA BootStep ==
    ASSUME ExecInv, UNCHANGED store, NEW p \in Owners,
           NEW L \in [Jobs -> Locals], NEW S \in [Jobs -> Requests], NEW W \in [Jobs -> Requests],
           loc' = [loc EXCEPT ![p] = L],
           sync' = [sync EXCEPT ![p] = S],
           wait' = [wait EXCEPT ![p] = W],
           \A k \in Jobs : QuietCell(p, k, L[k], S[k], W[k]),
           proc' \in [Owners -> {"off", "up", "stopping", "down"}],
           orphan' \in [Owners -> SUBSET Jobs], OrphanStep,
           scan' \in [Owners -> ScanSets], ScanInv',
           rec' \in [Owners -> SUBSET Jobs]
    PROVE  ExecInv'
  <1>1. /\ loc \in [Owners -> [Jobs -> Locals]]
        /\ sync \in [Owners -> [Jobs -> Requests]]
        /\ wait \in [Owners -> [Jobs -> Requests]]
    BY DEF ExecInv, LocalTypeOK
  <1>2. /\ loc' \in [Owners -> [Jobs -> Locals]]
        /\ sync' \in [Owners -> [Jobs -> Requests]]
        /\ wait' \in [Owners -> [Jobs -> Requests]]
    BY <1>1
  <1>3. /\ loc'[p] = L /\ sync'[p] = S /\ wait'[p] = W
        /\ \A q \in Owners : q # p => loc'[q] = loc[q] /\ sync'[q] = sync[q] /\ wait'[q] = wait[q]
    BY <1>1
  <1>4. LocalTypeOK'
    BY <1>2 DEF LocalTypeOK, ScanSets
  <1>5. \A q \in Owners, k \in Jobs :
           /\ CellOK(k, loc'[q][k], sync'[q][k], wait'[q][k])
           /\ TameCell(q, k)
           /\ NoAck(loc[q][k], wait[q][k], loc'[q][k], wait'[q][k])
    <2>. SUFFICES ASSUME NEW q \in Owners, NEW k \in Jobs
                  PROVE  /\ CellOK(k, loc'[q][k], sync'[q][k], wait'[q][k])
                         /\ TameCell(q, k)
                         /\ NoAck(loc[q][k], wait[q][k], loc'[q][k], wait'[q][k])
      OBVIOUS
    <2>1. CASE q = p
      BY <1>3, <2>1 DEF QuietCell, TameCell
    <2>2. CASE q # p
      BY <1>3, <2>2, CellFacts, TameRefl DEF TameCell
    <2>. QED  BY <2>1, <2>2
  <1>6. CellsInv' /\ TameCells /\ AckStep
    BY <1>5 DEF CellsInv, TameCells, AckStep
  <1>7. FenceInv' /\ RowsInv' /\ RowSteps
    BY SameRows
  <1>. QED  BY <1>4, <1>6, <1>7, TameStep

LEMMA SameOrphans ==
    ASSUME ExecInv, UNCHANGED orphan
    PROVE  orphan' \in [Owners -> SUBSET Jobs] /\ OrphanStep
  BY DEF ExecInv, LocalTypeOK, OrphanStep

LEMMA SetProc ==
    ASSUME ExecInv, NEW p \in Owners, NEW x \in {"up", "stopping", "down"},
           proc' = [proc EXCEPT ![p] = x]
    PROVE  proc' \in [Owners -> {"off", "up", "stopping", "down"}]
  BY DEF ExecInv, LocalTypeOK

LEMMA BootKeeps ==
    ASSUME ExecInv, NEW p \in Owners, Boot(p)
    PROVE  ExecInv'
  <1>1. PICK T \in SUBSET {j \in Jobs : row[j].state = "pending"} :
         /\ loc' = [loc EXCEPT ![p] = [j \in Jobs |-> IF j \in T THEN Offered(j) ELSE NoEntry]]
         /\ sync' = [sync EXCEPT ![p] = [j \in Jobs |-> Quiet(IF j \in T THEN "idle" ELSE "off")]]
    BY DEF Boot
  <1>. DEFINE L == [j \in Jobs |-> IF j \in T THEN Offered(j) ELSE NoEntry]
              S == [j \in Jobs |-> Quiet(IF j \in T THEN "idle" ELSE "off")]
              W == wait[p]
  <1>2. UNCHANGED store /\ UNCHANGED orphan /\ UNCHANGED wait /\ UNCHANGED scan /\ UNCHANGED rec
        /\ proc' = [proc EXCEPT ![p] = "up"]
    BY DEF Boot
  <1>3. wait \in [Owners -> [Jobs -> Requests]] /\ W \in [Jobs -> Requests]
    BY DEF ExecInv, LocalTypeOK
  <1>4. wait' = [wait EXCEPT ![p] = W]
    BY <1>2, <1>3
  <1>5. \A k \in Jobs : /\ L[k] \in Locals /\ S[k] \in Requests
                        /\ QuietCell(p, k, L[k], S[k], W[k])
    <2>. SUFFICES ASSUME NEW k \in Jobs
                  PROVE  /\ L[k] \in Locals /\ S[k] \in Requests
                         /\ QuietCell(p, k, L[k], S[k], W[k])
      OBVIOUS
    <2>1. CellOK(k, loc[p][k], sync[p][k], wait[p][k]) /\ RequestOK(k, W[k])
      BY CellFacts DEF CellOK
    <2>2. CASE k \in T
      <3>1. L[k] = Offered(k) /\ S[k] = Quiet("idle") /\ row[k].state \in {"absent", "pending"}
        BY <2>2
      <3>. HIDE DEF L, S
      <3>. QED  BY <2>1, <3>1, OfferIsQuiet, OfferedEntry, QuietRequest DEF QuietCell, Phases
    <2>3. CASE k \notin T
      <3>1. L[k] = NoEntry /\ S[k] = Quiet("off")
        BY <2>3
      <3>. HIDE DEF L, S
      <3>. QED  BY <2>1, <3>1, DropEntry, EmptyEntry, QuietRequest DEF QuietCell, Phases
    <2>. QED  BY <2>2, <2>3
  <1>6. L \in [Jobs -> Locals] /\ S \in [Jobs -> Requests]
    BY <1>5
  <1>7. loc' = [loc EXCEPT ![p] = L] /\ sync' = [sync EXCEPT ![p] = S]
    BY <1>1
  <1>8. proc' \in [Owners -> {"off", "up", "stopping", "down"}]
    BY <1>2, SetProc
  <1>9. /\ orphan' \in [Owners -> SUBSET Jobs] /\ OrphanStep
        /\ scan' \in [Owners -> ScanSets] /\ ScanInv'
        /\ rec' \in [Owners -> SUBSET Jobs]
    BY <1>2, SameOrphans, SameScan, SameRec
  <1>. HIDE DEF L, S, W
  <1>. QED  BY <1>2, <1>3, <1>4, <1>5, <1>6, <1>7, <1>8, <1>9, BootStep

LEMMA StoppedIsQuiet ==
    ASSUME NEW j, NEW e \in Locals, NEW s \in Requests, NEW w \in Requests, CellOK(j, e, s, w),
           NEW v, v = IF e.st \in Active THEN w ELSE Ghost(w)
    PROVE  /\ StoppedEntry(e) \in Locals /\ v \in Requests
           /\ CellOK(j, StoppedEntry(e), s, v)
           /\ Tame(e, s, w, StoppedEntry(e), s, v)
           /\ NoAck(e, w, StoppedEntry(e), v)
  <1>1. CASE e.st \in {"pending", "waiting"}
    <2>1. StoppedEntry(e) = NoEntry /\ v = Ghost(w)
      BY <1>1 DEF StoppedEntry, Active
    <2>. QED  BY <2>1, GhostRequest, DropEntry, EmptyEntry DEF CellOK
  <1>2. CASE e.st \in Active
    <2>. DEFINE f == [e EXCEPT !.cancel = "stop"]
    <2>1. StoppedEntry(e) = f /\ v = w
      BY <1>2 DEF StoppedEntry, Active
    <2>2. /\ f \in Locals /\ f.st = e.st /\ f.gen = e.gen /\ f.prev = e.prev
          /\ f.outcome = e.outcome
      BY DEF Locals
    <2>. HIDE DEF f
    <2>. QED  BY <2>1, <2>2, NoteIsQuiet
  <1>3. CASE e.st \notin {"pending", "waiting"} /\ e.st \notin Active
    <2>1. StoppedEntry(e) = e /\ v = Ghost(w)
      BY <1>3 DEF StoppedEntry
    <2>2. Ghost(w) \in Requests /\ (Ghost(w) = w \/ Ghost(w) = Quiet("off"))
      BY GhostRequest DEF CellOK
    <2>. QED  BY <2>1, <2>2, KeepEntry DEF Phases
  <1>. QED  BY <1>1, <1>2, <1>3

LEMMA StopKeeps ==
    ASSUME ExecInv, NEW p \in Owners, Stop(p)
    PROVE  ExecInv'
  <1>. DEFINE L == [j \in Jobs |-> StoppedEntry(loc[p][j])]
              S == sync[p]
              W == [j \in Jobs |-> IF loc[p][j].st \in Active THEN wait[p][j] ELSE Ghost(wait[p][j])]
  <1>1. /\ UNCHANGED store /\ UNCHANGED orphan /\ UNCHANGED sync /\ UNCHANGED scan /\ UNCHANGED rec
        /\ proc' = [proc EXCEPT ![p] = "stopping"]
        /\ loc' = [loc EXCEPT ![p] = L] /\ wait' = [wait EXCEPT ![p] = W]
    BY DEF Stop
  <1>2. sync \in [Owners -> [Jobs -> Requests]] /\ S \in [Jobs -> Requests]
    BY DEF ExecInv, LocalTypeOK
  <1>3. sync' = [sync EXCEPT ![p] = S]
    BY <1>1, <1>2
  <1>4. \A k \in Jobs : /\ L[k] \in Locals /\ W[k] \in Requests
                        /\ QuietCell(p, k, L[k], S[k], W[k])
    BY CellFacts, StoppedIsQuiet DEF QuietCell
  <1>5. L \in [Jobs -> Locals] /\ W \in [Jobs -> Requests]
    BY <1>4
  <1>6. proc' \in [Owners -> {"off", "up", "stopping", "down"}]
    BY <1>1, SetProc
  <1>7. /\ orphan' \in [Owners -> SUBSET Jobs] /\ OrphanStep
        /\ scan' \in [Owners -> ScanSets] /\ ScanInv'
        /\ rec' \in [Owners -> SUBSET Jobs]
    BY <1>1, SameOrphans, SameScan, SameRec
  <1>. HIDE DEF L, S, W
  <1>. QED  BY <1>1, <1>2, <1>3, <1>4, <1>5, <1>6, <1>7, BootStep

LEMMA GoneKeeps ==
    ASSUME ExecInv, NEW p \in Owners, Gone(p)
    PROVE  ExecInv'
  <1>. DEFINE L == [j \in Jobs |-> IF loc[p][j].st = "claiming" THEN loc[p][j] ELSE NoEntry]
              S == [j \in Jobs |-> Ghost(sync[p][j])]
              W == [j \in Jobs |-> Ghost(wait[p][j])]
  <1>1. /\ UNCHANGED store /\ proc' = [proc EXCEPT ![p] = "down"]
        /\ loc' = [loc EXCEPT ![p] = L] /\ sync' = [sync EXCEPT ![p] = S]
        /\ wait' = [wait EXCEPT ![p] = W]
        /\ orphan' = [orphan EXCEPT ![p] = {}] /\ scan' = [scan EXCEPT ![p] = {}]
        /\ rec' = [rec EXCEPT ![p] = {}]
    BY DEF Gone
  <1>2. \A k \in Jobs : /\ L[k] \in Locals /\ S[k] \in Requests /\ W[k] \in Requests
                        /\ QuietCell(p, k, L[k], S[k], W[k])
    <2>. SUFFICES ASSUME NEW k \in Jobs
                  PROVE  /\ L[k] \in Locals /\ S[k] \in Requests /\ W[k] \in Requests
                         /\ QuietCell(p, k, L[k], S[k], W[k])
      OBVIOUS
    <2>. DEFINE e == loc[p][k]  s == sync[p][k]  w == wait[p][k]
    <2>1. e \in Locals /\ s \in Requests /\ w \in Requests /\ CellOK(k, e, s, w)
      BY CellFacts
    <2>2. /\ Ghost(s) \in Requests /\ RequestOK(k, Ghost(s)) /\ Ghost(s).gen \in {s.gen, NoGen}
          /\ Ghost(s) = s \/ Ghost(s) = Quiet("off")
      BY <2>1, GhostRequest DEF CellOK
    <2>3. /\ Ghost(w) \in Requests /\ RequestOK(k, Ghost(w)) /\ Ghost(w).gen \in {w.gen, NoGen}
          /\ Ghost(w) = w \/ Ghost(w) = Quiet("off")
      BY <2>1, GhostRequest DEF CellOK
    <2>4. S[k] = Ghost(s) /\ W[k] = Ghost(w)
      OBVIOUS
    <2>5. CASE e.st = "claiming"
      <3>1. L[k] = e
        BY <2>5
      <3>2. /\ CellOK(k, e, Ghost(s), Ghost(w)) /\ Tame(e, s, w, e, Ghost(s), Ghost(w))
            /\ NoAck(e, w, e, Ghost(w))
        <4>. HIDE DEF e, s, w
        <4>. QED  BY <2>1, <2>2, <2>3, KeepEntry DEF Phases
      <3>. HIDE DEF L, S, W
      <3>. QED  BY <2>1, <2>2, <2>3, <2>4, <3>1, <3>2 DEF QuietCell
    <2>6. CASE e.st # "claiming"
      <3>1. L[k] = NoEntry
        BY <2>6
      <3>. HIDE DEF L, S, W
      <3>. QED  BY <2>1, <2>2, <2>3, <2>4, <3>1, DropEntry, EmptyEntry DEF QuietCell
    <2>. QED  BY <2>5, <2>6
  <1>3. L \in [Jobs -> Locals] /\ S \in [Jobs -> Requests] /\ W \in [Jobs -> Requests]
    BY <1>2
  <1>4. proc' \in [Owners -> {"off", "up", "stopping", "down"}]
    BY <1>1, SetProc
  <1>5. orphan \in [Owners -> SUBSET Jobs] /\ rec \in [Owners -> SUBSET Jobs]
    BY DEF ExecInv, LocalTypeOK
  <1>6. orphan' \in [Owners -> SUBSET Jobs] /\ rec' \in [Owners -> SUBSET Jobs]
    BY <1>1, <1>5
  <1>7. OrphanStep
    BY <1>1, <1>5 DEF OrphanStep
  <1>8. scan' \in [Owners -> ScanSets] /\ ScanInv'
    BY <1>1, ScanClears
  <1>. HIDE DEF L, S, W
  <1>. QED  BY <1>1, <1>2, <1>3, <1>4, <1>6, <1>7, <1>8, BootStep

-----------------------------------------------------------------------------
(***************************************************************************)
(* The invariant.                                                          *)
(***************************************************************************)
LEMMA ExecInitInv == ExecInit => ExecInv
  <1>. SUFFICES ASSUME ExecInit
                PROVE  ExecInv
    OBVIOUS
  <1>1. FenceInv
    BY InitFence DEF ExecInit
  <1>2. \A j \in Jobs : row[j] = AbsentRow
    BY DEF ExecInit, Init
  <1>3. /\ AbsentRow.state = "absent" /\ AbsentRow.gen = NoGen /\ AbsentRow.outcome = "none"
    BY DEF AbsentRow
  <1>4. RowsInv
    BY <1>2, <1>3 DEF RowsInv, RowOK
  <1>5. /\ Quiet("off") \in Requests /\ Quiet("off").gen = NoGen /\ Quiet("off").ph = "off"
        /\ \A j \in Jobs : RequestOK(j, Quiet("off"))
    BY QuietRequest DEF Phases
  <1>6. \A p \in Owners, j \in Jobs :
           loc[p][j] = NoEntry /\ sync[p][j] = Quiet("off") /\ wait[p][j] = Quiet("off")
    BY DEF ExecInit
  <1>7. \A p \in Owners : orphan[p] = {} /\ scan[p] = {} /\ rec[p] = {} /\ proc[p] = "off"
    BY DEF ExecInit
  <1>8. LocalTypeOK
    BY <1>5, EmptyEntry DEF ExecInit, LocalTypeOK
  <1>9. CellsInv /\ AcksInv
    BY <1>5, <1>6, EmptyEntry DEF CellsInv, CellOK, EntryOK, AcksInv, AckOK, Active
  <1>10. \A p \in Owners, j \in Jobs : Slots(p, j) = {NoGen}
    BY <1>5, <1>6, EmptyEntry DEF Slots
  <1>11. GenUnique
    BY <1>10, Generations DEF GenUnique
  <1>12. OwnerHolds
    BY <1>2, <1>3 DEF OwnerHolds, Running
  <1>13. TokenInv /\ ScanInv
    BY <1>6, <1>7, EmptyEntry DEF TokenInv, ScanInv, Active
  <1>. QED  BY <1>1, <1>4, <1>8, <1>9, <1>11, <1>12, <1>13 DEF ExecInv

LEMMA EntryNextKeeps ==
    ASSUME ExecInv, NEW p \in Owners, NEW j \in Jobs, EntryNext(p, j)
    PROVE  ExecInv'
  BY GhostLostKeeps, AdmitKeeps, BeginKeeps, ClaimWonKeeps, ClaimEndsKeeps,
     CheckpointMoveKeeps, CheckpointWrittenKeeps, CheckpointFailedKeeps, SettleMoveKeeps,
     HandlerFinishKeeps, HandlerWaitsKeeps, OrphanUnwindsKeeps, CancelKeeps, SyncTickKeeps,
     SyncQuietKeeps, SyncCommitKeeps, SyncFencedKeeps, WaitTickKeeps, WaitCommitKeeps,
     WaitQuietKeeps, WaitFencedKeeps, ScanExpiredKeeps, RecoverDestroyKeeps,
     AdmitAbandonKeeps, RehydrateKeeps, RecoveryKeeps
  DEF EntryNext

LEMMA ProcNextKeeps ==
    ASSUME ExecInv, NEW p \in Owners, ProcNext(p)
    PROVE  ExecInv'
  BY BootKeeps, StopKeeps, GoneKeeps, ReclaimOneKeeps, ResumeOneKeeps, ScanDroppedKeeps
  DEF ProcNext, StopDone, Crash

LEMMA ExecNextInv == ExecInv /\ [ExecNext]_execVars => ExecInv'
  <1>. SUFFICES ASSUME ExecInv, [ExecNext]_execVars
                PROVE  ExecInv'
    OBVIOUS
  <1>1. CASE UNCHANGED execVars
    <2>1. UNCHANGED store /\ UNCHANGED <<proc, loc, orphan, sync, wait>>
          /\ UNCHANGED scan /\ UNCHANGED rec
      BY <1>1 DEF execVars, store
    <2>. QED  BY <2>1, SameTable, SameScan, SameRec, TableOnly DEF ScanSets
  <1>2. CASE ExecNext
    BY <1>2, EntryNextKeeps, ProcNextKeeps, NodeCommandKeeps, ExecTickKeeps DEF ExecNext
  <1>. QED  BY <1>1, <1>2

(***************************************************************************)
(* The invariant holds of every behaviour of the replicas.                 *)
(***************************************************************************)
THEOREM ExecInvariant == ExecSpec => []ExecInv
  BY ExecInitInv, ExecNextInv, PTL DEF ExecSpec

(***************************************************************************)
(* Every entry, request, scan and row keeps its type.  A scan notes an     *)
(* owner because a running row has one (LeaseExactlyWhileRunning).         *)
(***************************************************************************)
THEOREM ExecTypes == ExecSpec => []ExecTypeOK
  <1>1. ExecInv => ExecTypeOK
    BY DEF ExecInv, FenceInv, LocalTypeOK, ExecTypeOK
  <1>. QED  BY <1>1, ExecInvariant, PTL

(***************************************************************************)
(* A snapshot in flight that the store would accept on a running row comes *)
(* from the boot that owns the row: the generation it carries was drawn by *)
(* one entry of one boot, and that boot made the claim.                    *)
(***************************************************************************)
THEOREM OwnerWrites == ExecSpec => []OnlyOwnerWritesRunningRow
  <1>1. ExecInv => OnlyOwnerWritesRunningRow
    <2>. SUFFICES ASSUME ExecInv, NEW p \in Owners, NEW j \in Jobs, Type[j] # Relocation,
                         Running(j), Admissible(p, j) # {}
                  PROVE  row[j].owner = p
      BY DEF OnlyOwnerWritesRunningRow
    <2>1. PICK r \in {sync[p][j], wait[p][j]} : SnapshotAdmitted(j, r.obs, r.gen)
      BY DEF Admissible
    <2>2. row[j].gen \in Slots(p, j)
      BY <2>1 DEF SnapshotAdmitted, Slots
    <2>. QED  BY <2>2 DEF ExecInv, OwnerHolds
  <1>. QED  BY <1>1, ExecInvariant, PTL

(***************************************************************************)
(* A waiting entry whose wait was acknowledged is backed by its own        *)
(* pending row, or the row was taken over or settled meanwhile.            *)
(***************************************************************************)
THEOREM WaitDurable == ExecSpec => []AckedWaitIsDurable
  <1>1. ExecInv => AckedWaitIsDurable
    <2>. SUFFICES ASSUME ExecInv, NEW p \in Owners, NEW j \in Jobs,
                         loc[p][j].st = "waiting", wait[p][j].ph = "acked",
                         row[j].gen = loc[p][j].gen
                  PROVE  row[j].state = "pending" \/ row[j].state \in Terminal
      BY DEF AckedWaitIsDurable
    <2>1. AckOK(row[j], loc[p][j], wait[p][j])
      BY DEF ExecInv, AcksInv
    <2>2. row[j].state \in States
      BY RowFacts DEF Rows
    <2>. QED  BY <2>1, <2>2 DEF AckOK, States, Terminal
  <1>. QED  BY <1>1, ExecInvariant, PTL

(***************************************************************************)
(* One process never runs two handlers queued for one stack, a detached one*)
(* that still unwinds included: the token is held from the local start on. *)
(* A move holds the token of its source and not of its destination.        *)
(***************************************************************************)
THEOREM TokenPerStack == ExecSpec => []OneHandlerPerStack
  <1>1. ExecInv => OneHandlerPerStack
    BY DEF ExecInv, TokenInv, OneHandlerPerStack, Active
  <1>. QED  BY <1>1, ExecInvariant, PTL

-----------------------------------------------------------------------------
(***************************************************************************)
(* Who writes a row.                                                       *)
(***************************************************************************)
Writer(k) ==
    \/ CreateJob(k)
    \/ \E p \in Owners : loc[p][k].st = "claiming" /\ StartJob(k, p, loc[p][k].gen)
    \/ \E p \in Owners : \E r \in {sync[p][k], wait[p][k]} :
          SyncJobSnapshot(k, r.obs, r.gen, r.outcome)
    \/ \E p \in Owners : \E s \in scan[p] :
          /\ s.job = k
          /\ \/ ReclaimExpiredJobExecution(k, s.owner, s.slack)
             \/ s.act = "abandon" /\ FailJob(k)
             \/ s.act = "resume" /\ ResumeExpiredJobExecution(k, s.owner, s.slack)
    \/ \E skew \in 0 .. MaxSkew : ReclaimStaleManagedDestroyRecovery(k, skew)
    \/ \E p \in Owners : \/ ClaimWorkloadRelocationRecovery(k, p)
                         \/ RenewWorkloadRelocationRecovery(k, p)
                         \/ FailWorkloadRelocationRecovery(k, p)
                         \/ ResolveWorkloadRelocation(k, p)

TableMoves ==
    \/ UNCHANGED store
    \/ Tick
    \/ \E k \in Jobs : Writer(k)
    \/ \E k \in Jobs : DispatchCommand(k) \/ SettleCommand(k)

LEMMA EntryWrites ==
    ASSUME NEW p \in Owners, NEW j \in Jobs, EntryNext(p, j)
    PROVE  UNCHANGED store \/ Writer(j)
  <1>1. CASE Admit(p, j)
    BY <1>1 DEF Admit, Writer
  <1>2. CASE ClaimWon(p, j)
    BY <1>2 DEF ClaimWon, Writer
  <1>3. CASE CheckpointWritten(p, j) \/ SyncCommit(p, j) \/ WaitCommit(p, j)
    BY <1>3 DEF CheckpointWritten, SyncCommit, WaitCommit, Writer
  <1>4. CASE \E skew \in 0 .. MaxSkew : RecoverDestroy(p, j, skew)
    BY <1>4 DEF RecoverDestroy, Writer
  <1>5. CASE RecoveryClaim(p, j) \/ RecoveryRenew(p, j) \/ RecoveryEnd(p, j)
    BY <1>5 DEF RecoveryClaim, RecoveryRenew, RecoveryEnd, Writer
  <1>6. CASE \/ GhostLost(p, j) \/ ClaimFenced(p, j) \/ ClaimDeferred(p, j)
             \/ \E g \in Gens : BeginJobExecution(p, j, g)
             \/ CheckpointMove(p, j) \/ CheckpointFailed(p, j) \/ SettleMove(p, j)
             \/ \E result \in Terminal : HandlerFinish(p, j, result)
             \/ HandlerWaits(p, j) \/ OrphanUnwinds(p, j) \/ Cancel(p, j)
    BY <1>6 DEF GhostLost, ClaimFenced, ClaimDeferred, BeginJobExecution, CheckpointMove,
       CheckpointFailed, SettleMove, HandlerFinish, HandlerWaits, OrphanUnwinds, Cancel
  <1>7. CASE \/ SyncTick(p, j) \/ SyncStarts(p, j) \/ SyncRefused(p, j) \/ SyncError(p, j)
             \/ SyncFenced(p, j) \/ WaitTick(p, j) \/ WaitRefused(p, j) \/ WaitError(p, j)
             \/ WaitFenced(p, j) \/ AdmitAbandon(p, j) \/ Rehydrate(p, j)
             \/ \E skew \in 0 .. MaxSkew : ScanExpired(p, j, skew)
    BY <1>7 DEF SyncTick, SyncStarts, SyncRefused, SyncError, SyncFenced, WaitTick,
       WaitRefused, WaitError, WaitFenced, AdmitAbandon, Rehydrate, ScanExpired
  <1>. QED  BY <1>1, <1>2, <1>3, <1>4, <1>5, <1>6, <1>7 DEF EntryNext

LEMMA ProcWrites ==
    ASSUME ExecInv, NEW p \in Owners, ProcNext(p)
    PROVE  UNCHANGED store \/ \E k \in Jobs : Writer(k)
  <1>1. CASE ReclaimOne(p)
    <2>1. PICK s \in scan[p] : \/ ReclaimExpiredJobExecution(s.job, s.owner, s.slack)
                               \/ s.act = "abandon" /\ FailJob(s.job)
      BY <1>1 DEF ReclaimOne
    <2>2. s.job \in Jobs
      BY ScanFacts DEF Scans
    <2>3. Writer(s.job)
      BY <2>1 DEF Writer
    <2>. QED  BY <2>2, <2>3
  <1>2. CASE ResumeOne(p)
    <2>1. PICK s \in scan[p] :
             s.act = "resume" /\ ResumeExpiredJobExecution(s.job, s.owner, s.slack)
      BY <1>2 DEF ResumeOne
    <2>2. s.job \in Jobs
      BY ScanFacts DEF Scans
    <2>3. Writer(s.job)
      BY <2>1 DEF Writer
    <2>. QED  BY <2>2, <2>3
  <1>3. CASE Boot(p) \/ Stop(p) \/ StopDone(p) \/ Crash(p) \/ ScanDropped(p)
    BY <1>3 DEF Boot, Stop, StopDone, Crash, Gone, ScanDropped
  <1>. QED  BY <1>1, <1>2, <1>3 DEF ProcNext

LEMMA StepMovesTable == ExecInv /\ [ExecNext]_execVars => TableMoves
  <1>. SUFFICES ASSUME ExecInv, [ExecNext]_execVars
                PROVE  TableMoves
    OBVIOUS
  <1>1. CASE UNCHANGED execVars
    BY <1>1 DEF execVars, TableMoves, store
  <1>2. CASE ExecNext
    BY <1>2, EntryWrites, ProcWrites DEF ExecNext, TableMoves, NodeCommand, ExecTick
  <1>. QED  BY <1>1, <1>2

LEMMA WriterAlone ==
    ASSUME ExecInv, NEW k \in Jobs, Writer(k), NEW j \in Jobs, j # k
    PROVE  row'[j] = row[j]
  <1>1. PICK r : row' = [row EXCEPT ![k] = r]
    BY DEF Writer, CreateJob, StartJob, SyncJobSnapshot, ReclaimExpiredJobExecution, FailJob,
           ResumeExpiredJobExecution, ReclaimStaleManagedDestroyRecovery,
           ClaimWorkloadRelocationRecovery, RenewWorkloadRelocationRecovery,
           FailWorkloadRelocationRecovery, ResolveWorkloadRelocation, Put
  <1>. QED  BY <1>1, RowFacts

(***************************************************************************)
(* Each write of a row is one of the operations of JobStore.               *)
(***************************************************************************)
LEMMA WriterIsNext ==
    ASSUME ExecInv, NEW k \in Jobs, Writer(k)
    PROVE  Next
  <1>1. CASE CreateJob(k)
    BY <1>1 DEF Next, JobNext
  <1>2. CASE \E p \in Owners : loc[p][k].st = "claiming" /\ StartJob(k, p, loc[p][k].gen)
    <2>1. PICK p \in Owners : loc[p][k].st = "claiming" /\ StartJob(k, p, loc[p][k].gen)
      BY <1>2
    <2>2. loc[p][k].gen \in Gens
      BY <2>1, CellFacts DEF CellOK, EntryOK, Active
    <2>. QED  BY <2>1, <2>2 DEF Next, JobNext
  <1>3. CASE \E p \in Owners : \E r \in {sync[p][k], wait[p][k]} :
                SyncJobSnapshot(k, r.obs, r.gen, r.outcome)
    <2>1. PICK p \in Owners : \E r \in {sync[p][k], wait[p][k]} :
                SyncJobSnapshot(k, r.obs, r.gen, r.outcome)
      BY <1>3
    <2>2. PICK r \in {sync[p][k], wait[p][k]} : SyncJobSnapshot(k, r.obs, r.gen, r.outcome)
      BY <2>1
    <2>3. r \in Requests /\ RequestOK(k, r)
      BY CellFacts DEF CellOK
    <2>. QED  BY <2>2, <2>3, SnapshotIsNext
  <1>4. CASE \E p \in Owners : \E s \in scan[p] :
          /\ s.job = k
          /\ \/ ReclaimExpiredJobExecution(k, s.owner, s.slack)
             \/ s.act = "abandon" /\ FailJob(k)
             \/ s.act = "resume" /\ ResumeExpiredJobExecution(k, s.owner, s.slack)
    <2>1. PICK p \in Owners : \E s \in scan[p] :
             \/ ReclaimExpiredJobExecution(k, s.owner, s.slack)
             \/ FailJob(k)
             \/ ResumeExpiredJobExecution(k, s.owner, s.slack)
      BY <1>4
    <2>2. PICK s \in scan[p] :
             \/ ReclaimExpiredJobExecution(k, s.owner, s.slack)
             \/ FailJob(k)
             \/ ResumeExpiredJobExecution(k, s.owner, s.slack)
      BY <2>1
    <2>3. s.owner \in Owners /\ s.slack \in Slacks
      BY ScanFacts DEF Scans
    <2>. QED  BY <2>2, <2>3 DEF Next, JobNext
  <1>5. CASE \E skew \in 0 .. MaxSkew : ReclaimStaleManagedDestroyRecovery(k, skew)
    BY <1>5, SkewIsSlack DEF Next, JobNext
  <1>6. CASE \E p \in Owners : \/ ClaimWorkloadRelocationRecovery(k, p)
                               \/ RenewWorkloadRelocationRecovery(k, p)
                               \/ FailWorkloadRelocationRecovery(k, p)
                               \/ ResolveWorkloadRelocation(k, p)
    BY <1>6 DEF Next, JobNext
  <1>. QED  BY <1>1, <1>2, <1>3, <1>4, <1>5, <1>6 DEF Writer

LEMMA StepOfTheStore == ExecInv /\ [ExecNext]_execVars => [Next]_vars
  <1>. SUFFICES ASSUME ExecInv, TableMoves
                PROVE  [Next]_vars
    BY StepMovesTable
  <1>1. CASE UNCHANGED store
    BY <1>1 DEF store, vars
  <1>2. CASE Tick
    BY <1>2 DEF Next
  <1>3. CASE \E k \in Jobs : Writer(k)
    BY <1>3, WriterIsNext
  <1>4. CASE \E k \in Jobs : DispatchCommand(k) \/ SettleCommand(k)
    BY <1>4 DEF Next, JobNext
  <1>. QED  BY <1>1, <1>2, <1>3, <1>4 DEF TableMoves

(***************************************************************************)
(* The replicas implement the job store: whatever requests they send, stale*)
(* or not, each step is an operation of JobStore or leaves the table alone.*)
(* What is proved of the table holds of the running system.                *)
(***************************************************************************)
THEOREM StoreImplemented == ExecSpec => Spec
  <1>1. ExecInit => Init
    BY DEF ExecInit
  <1>. QED  BY <1>1, StepOfTheStore, ExecInvariant, PTL DEF ExecSpec, Spec

(***************************************************************************)
(* Under any interleaving of boots, crashes, stale requests and recoveries *)
(* no two executions run on one target, and an unresolved move keeps both  *)
(* of its nodes fenced.                                                    *)
(***************************************************************************)
THEOREM ReplicasFenced == ExecSpec => [](OneExecutionPerTarget /\ UnresolvedMoveFences)
  <1>1. ExecInv => OneExecutionPerTarget /\ UnresolvedMoveFences
    BY DEF ExecInv, FenceInv
  <1>. QED  BY <1>1, ExecInvariant, PTL

-----------------------------------------------------------------------------
(***************************************************************************)
(* A row that has settled changes its state only by the recovery of a move:*)
(* no snapshot of a stalled handler or of a dead boot reopens it.          *)
(***************************************************************************)
THEOREM SettledForGood == ExecSpec => SettledStaysSettled
  <1>. DEFINE Stays(j) ==
         row[j].state \in Terminal /\ row'[j].state # row[j].state
          => \/ /\ relocationHoldsExecution(j)
                /\ row'[j].state = "running" /\ row'[j].step = "recovery"
             \/ /\ Type[j] = Relocation /\ row[j].outcome # "none"
                /\ row'[j].state = "completed" /\ row'[j].outcome = "settled"
  <1>1. ExecInv /\ [ExecNext]_execVars => \A j \in Jobs : Stays(j)
    <2>. SUFFICES ASSUME ExecInv, TableMoves, NEW j \in Jobs, row[j].state \in Terminal,
                         row'[j].state # row[j].state
                  PROVE  \/ /\ relocationHoldsExecution(j)
                            /\ row'[j].state = "running" /\ row'[j].step = "recovery"
                         \/ /\ Type[j] = Relocation /\ row[j].outcome # "none"
                            /\ row'[j].state = "completed" /\ row'[j].outcome = "settled"
      BY StepMovesTable
    <2>1. row \in [Jobs -> Rows] /\ row[j] \in Rows
      BY RowFacts
    <2>2. ~Tick
      BY <2>1, OlderRow DEF Tick
    <2>3. row' # row
      OBVIOUS
    <2>4. PICK k \in Jobs : Writer(k)
      BY <2>2, <2>3 DEF TableMoves, store, DispatchCommand, SettleCommand
    <2>5. k = j
      BY <2>4, WriterAlone
    <2>6. row[j].state \notin {"absent", "pending", "running"}
      BY DEF Terminal
    <2>7. PICK p \in Owners : ClaimWorkloadRelocationRecovery(j, p) \/ ResolveWorkloadRelocation(j, p)
      BY <2>4, <2>5, <2>6
      DEF Writer, CreateJob, StartJob, SyncJobSnapshot, SnapshotAdmitted,
          ReclaimExpiredJobExecution, FailJob, ResumeExpiredJobExecution,
          ReclaimStaleManagedDestroyRecovery, RenewWorkloadRelocationRecovery,
          FailWorkloadRelocationRecovery, RecoveringAs, Running
    <2>8. CASE ClaimWorkloadRelocationRecovery(j, p)
      <3>1. row' = [row EXCEPT ![j] = [row[j] EXCEPT !.state = "running", !.step = "recovery",
                                                     !.owner = p, !.lease = TTL]]
        BY <2>8 DEF ClaimWorkloadRelocationRecovery, Put
      <3>2. row'[j].state = "running" /\ row'[j].step = "recovery"
        BY <2>1, <3>1 DEF Rows
      <3>. QED  BY <2>8, <3>2 DEF ClaimWorkloadRelocationRecovery
    <2>9. CASE ResolveWorkloadRelocation(j, p)
      <3>1. row' = [row EXCEPT ![j] = [row[j] EXCEPT !.state = "completed", !.outcome = "settled",
                                                     !.owner = NoOwner, !.lease = NoLease]]
        BY <2>9 DEF ResolveWorkloadRelocation, Put
      <3>2. row'[j].state = "completed" /\ row'[j].outcome = "settled"
        BY <2>1, <3>1 DEF Rows
      <3>. QED  BY <2>9, <3>2 DEF ResolveWorkloadRelocation
    <2>. QED  BY <2>7, <2>8, <2>9
  <1>. QED  BY <1>1, ExecInvariant, PTL DEF ExecSpec, SettledStaysSettled

-----------------------------------------------------------------------------
(***************************************************************************)
(* A handler that runs on keeps its generation.                            *)
(***************************************************************************)
LEMMA LocUpdate ==
    ASSUME ExecInv, NEW q \in Owners, NEW k \in Jobs, NEW e, SetLoc(q, k, e),
           NEW p \in Owners, NEW j \in Jobs
    PROVE  /\ q = p /\ k = j => loc'[p][j] = e
           /\ q # p \/ k # j => loc'[p][j] = loc[p][j]
  <1>1. loc \in [Owners -> [Jobs -> Locals]] /\ loc[q] \in [Jobs -> Locals]
    BY DEF ExecInv, LocalTypeOK
  <1>. DEFINE h == [loc[q] EXCEPT ![k] = e]
  <1>2. loc' = [loc EXCEPT ![q] = h]
    BY <1>1 DEF SetLoc
  <1>3. h[k] = e /\ \A l \in Jobs : l # k => h[l] = loc[q][l]
    BY <1>1
  <1>. HIDE DEF h
  <1>4. loc'[q] = h /\ (q # p => loc'[p] = loc[p])
    BY <1>1, <1>2
  <1>. QED  BY <1>3, <1>4

\* The entry e becomes f without a running handler changing its generation.
SameRun(e, f) == e.st = "running" /\ f.st = "running" => f.gen = e.gen

LEMMA EntryRunsOn ==
    ASSUME ExecInv, NEW p \in Owners, NEW j \in Jobs, EntryNext(p, j)
    PROVE  \/ UNCHANGED loc
           \/ \E f : SetLoc(p, j, f) /\ SameRun(loc[p][j], f)
  <1>. DEFINE e == loc[p][j]
  <1>1. e \in Locals
    BY CellFacts
  <1>3. CASE Admit(p, j) \/ GhostLost(p, j) \/ Rehydrate(p, j)
    BY <1>3, EmptyEntry DEF Admit, GhostLost, Rehydrate, Unknown, SameRun
  <1>4. CASE \E g \in Gens : BeginJobExecution(p, j, g)
    BY <1>4 DEF BeginJobExecution, SameRun
  <1>5. CASE ClaimWon(p, j) \/ ClaimFenced(p, j) \/ ClaimDeferred(p, j)
    BY <1>5 DEF ClaimWon, ClaimFenced, ClaimDeferred, DeferExecutionClaim, SameRun
  <1>6. CASE CheckpointMove(p, j) \/ SettleMove(p, j)
    <2>1. PICK x \in AnyOutcome : SetLoc(p, j, [e EXCEPT !.outcome = x])
      BY <1>6 DEF CheckpointMove, SettleMove, AnyOutcome
    <2>2. SameRun(e, [e EXCEPT !.outcome = x])
      <3>. HIDE DEF e
      <3>. QED  BY <1>1 DEF Locals, SameRun
    <2>. QED  BY <2>1, <2>2
  <1>7. CASE PreflightFailed(p, j)
    <2>1. PICK f \in Locals : SetLoc(p, j, f) /\ QuietCell(p, j, f, sync[p][j], Quiet("off"))
      BY <1>7, PreflightIsQuiet
    <2>. QED  BY <2>1 DEF QuietCell, Tame, SameRun
  <1>8. CASE \/ \E result \in Terminal : HandlerFinish(p, j, result)
             \/ HandlerWaits(p, j)
    <2>1. PICK x \in Terminal \cup {"waiting"} : SetLoc(p, j, [e EXCEPT !.st = x])
      BY <1>8 DEF HandlerFinish, HandlerWaits
    <2>2. SameRun(e, [e EXCEPT !.st = x])
      <3>. HIDE DEF e
      <3>. QED  BY <1>1 DEF Locals, SameRun
    <2>. QED  BY <2>1, <2>2
  <1>9. CASE Cancel(p, j)
    <2>1. CASE SetLoc(p, j, [e EXCEPT !.st = "cancelled"])
      <3>1. SameRun(e, [e EXCEPT !.st = "cancelled"])
        <4>. HIDE DEF e
        <4>. QED  BY <1>1 DEF Locals, SameRun
      <3>. QED  BY <2>1, <3>1
    <2>2. CASE SetLoc(p, j, [e EXCEPT !.cancel = "user"])
      <3>1. SameRun(e, [e EXCEPT !.cancel = "user"])
        <4>. HIDE DEF e
        <4>. QED  BY <1>1 DEF Locals, SameRun
      <3>. QED  BY <2>2, <3>1
    <2>. QED  BY <1>9, <2>1, <2>2 DEF Cancel
  <1>10. CASE SyncFenced(p, j) \/ WaitFenced(p, j)
    <2>1. SameRun(e, e) /\ SameRun(e, NoEntry)
      BY EmptyEntry DEF SameRun
    <2>. QED  BY <1>10, <2>1 DEF SyncFenced, WaitFenced
  <1>11. CASE \/ OrphanUnwinds(p, j) \/ SyncTick(p, j) \/ SyncStarts(p, j) \/ SyncCommit(p, j)
              \/ SyncRefused(p, j) \/ SyncError(p, j) \/ WaitTick(p, j) \/ WaitCommit(p, j)
              \/ WaitRefused(p, j) \/ WaitError(p, j)
              \/ CheckpointWritten(p, j) /\ ~PreflightFailed(p, j)
    BY <1>11 DEF OrphanUnwinds, SyncTick, SyncStarts, SyncCommit, SyncRefused, SyncError,
       WaitTick, WaitCommit, WaitRefused, WaitError, CheckpointWritten
  <1>12. CASE \/ \E skew \in 0 .. MaxSkew : ScanExpired(p, j, skew) \/ RecoverDestroy(p, j, skew)
              \/ AdmitAbandon(p, j)
              \/ RecoveryClaim(p, j) \/ RecoveryRenew(p, j) \/ RecoveryEnd(p, j)
    BY <1>12 DEF ScanExpired, RecoverDestroy, AdmitAbandon, RecoveryClaim, RecoveryRenew,
       RecoveryEnd
  <1>. QED
    BY <1>3, <1>4, <1>5, <1>6, <1>7, <1>8, <1>9, <1>10, <1>11, <1>12
    DEF EntryNext, CheckpointFailed

LEMMA BootRunsOn ==
    ASSUME ExecInv, NEW q \in Owners, ProcNext(q), NEW p \in Owners, NEW j \in Jobs
    PROVE  SameRun(loc[p][j], loc'[p][j])
  <1>. DEFINE e == loc[p][j]
  <1>1. loc \in [Owners -> [Jobs -> Locals]] /\ e \in Locals
    BY DEF ExecInv, LocalTypeOK
  <1>2. CASE UNCHANGED loc
    BY <1>2 DEF SameRun
  <1>3. CASE Boot(q)
    <2>1. PICK T \in SUBSET {k \in Jobs : row[k].state = "pending"} :
         loc' = [loc EXCEPT ![q] = [k \in Jobs |-> IF k \in T THEN Offered(k) ELSE NoEntry]]
      BY <1>3 DEF Boot
    <2>2. CASE q # p
      BY <1>1, <2>1, <2>2 DEF SameRun
    <2>3. CASE q = p
      <3>1. loc'[p][j] = IF j \in T THEN Offered(j) ELSE NoEntry
        BY <1>1, <2>1, <2>3
      <3>2. loc'[p][j].st # "running"
        BY <3>1, OfferedEntry, EmptyEntry
      <3>. QED  BY <3>2 DEF SameRun
    <2>. QED  BY <2>2, <2>3
  <1>4. CASE Stop(q)
    <2>1. loc' = [loc EXCEPT ![q] = [k \in Jobs |-> StoppedEntry(loc[q][k])]]
      BY <1>4 DEF Stop
    <2>2. CASE q # p
      BY <1>1, <2>1, <2>2 DEF SameRun
    <2>3. CASE q = p
      <3>1. loc'[p][j] = StoppedEntry(e)
        BY <1>1, <2>1, <2>3
      <3>2. SameRun(e, StoppedEntry(e))
        <4>1. e.st = "running" => StoppedEntry(e) = [e EXCEPT !.cancel = "stop"]
          BY DEF StoppedEntry, Active
        <4>. HIDE DEF e
        <4>. QED  BY <1>1, <4>1 DEF Locals, SameRun
      <3>. QED  BY <3>1, <3>2
    <2>. QED  BY <2>2, <2>3
  <1>5. CASE Gone(q)
    <2>1. loc' = [loc EXCEPT ![q] = [k \in Jobs |->
                    IF loc[q][k].st = "claiming" THEN loc[q][k] ELSE NoEntry]]
      BY <1>5 DEF Gone
    <2>2. CASE q # p
      BY <1>1, <2>1, <2>2 DEF SameRun
    <2>3. CASE q = p
      <3>1. loc'[p][j] = IF e.st = "claiming" THEN e ELSE NoEntry
        BY <1>1, <2>1, <2>3
      <3>. QED  BY <3>1, EmptyEntry DEF SameRun
    <2>. QED  BY <2>2, <2>3
  <1>. QED
    BY <1>2, <1>3, <1>4, <1>5
    DEF ProcNext, StopDone, Crash, ReclaimOne, ResumeOne, ScanDropped

LEMMA RunsOn ==
    ASSUME ExecInv, [ExecNext]_execVars, NEW p \in Owners, NEW j \in Jobs
    PROVE  SameRun(loc[p][j], loc'[p][j])
  <1>1. CASE UNCHANGED loc
    BY <1>1 DEF SameRun
  <1>2. CASE \E q \in Owners, k \in Jobs : EntryNext(q, k)
    <2>1. PICK q \in Owners, k \in Jobs : EntryNext(q, k)
      BY <1>2
    <2>2. CASE ~UNCHANGED loc
      <3>1. PICK f : SetLoc(q, k, f) /\ SameRun(loc[q][k], f)
        BY <2>1, <2>2, EntryRunsOn
      <3>2. CASE q = p /\ k = j
        BY <3>1, <3>2, LocUpdate
      <3>3. CASE q # p \/ k # j
        BY <3>1, <3>3, LocUpdate DEF SameRun
      <3>. QED  BY <3>2, <3>3
    <2>. QED  BY <1>1, <2>2
  <1>3. CASE \E q \in Owners : ProcNext(q)
    BY <1>3, BootRunsOn
  <1>. QED  BY <1>1, <1>2, <1>3 DEF ExecNext, execVars, NodeCommand, ExecTick

(***************************************************************************)
(* With the replicas' clocks not ahead of the database's, a live execution *)
(* keeps its row: while its handler runs and was heard from in time, no    *)
(* reclaim, no stale or late request and no claim takes the row from it,   *)
(* and only an explicit abandon fails it.                                  *)
(***************************************************************************)
THEOREM LiveRow ==
    ASSUME MaxSkew = 0
    PROVE  ExecSpec => LiveExecutionKeepsRow
  <1>. DEFINE Keeps(p, j) ==
          /\ loc[p][j].st = "running" /\ loc'[p][j].st = "running"
          /\ OwnsRow(p, j) /\ Heard(j)
          => OwnsRow(p, j)' \/ (row'[j].state = "failed" /\ Abandoned(j))
  <1>1. ExecInv /\ [ExecNext]_execVars => \A p \in Owners, j \in Jobs : Keeps(p, j)
    <2>. SUFFICES ASSUME ExecInv, [ExecNext]_execVars, NEW p \in Owners, NEW j \in Jobs,
                         loc[p][j].st = "running", loc'[p][j].st = "running",
                         OwnsRow(p, j), Heard(j)
                  PROVE  OwnsRow(p, j)' \/ (row'[j].state = "failed" /\ Abandoned(j))
      OBVIOUS
    <2>1. loc'[p][j].gen = loc[p][j].gen
      BY RunsOn DEF SameRun
    <2>2. /\ row[j].state = "running" /\ row[j].owner = p /\ row[j].gen = loc[p][j].gen
          /\ row[j].step = "handler"
      BY DEF OwnsRow, Running
    <2>3. row \in [Jobs -> Rows] /\ row[j] \in Rows
      BY RowFacts
    <2>4. SUFFICES
            \/ /\ row'[j].state = "running" /\ row'[j].owner = p
               /\ row'[j].gen = row[j].gen /\ row'[j].step = "handler"
            \/ row'[j].state = "failed" /\ Abandoned(j)
      BY <2>1, <2>2 DEF OwnsRow, Running
    <2>5. CASE row'[j] = row[j]
      BY <2>2, <2>5
    <2>6. CASE Tick
      <3>1. row'[j] = Older(row[j])
        BY <2>6 DEF Tick
      <3>. QED  BY <2>2, <2>3, <3>1, OlderRow
    <2>7. CASE Writer(j)
      <3>1. row[j].lease > 0 /\ (j \in Marked => row[j].lease > TTL - Grace)
        <4>1. row[j].lease \in Lease
          BY <2>2, <2>3 DEF ExecInv, FenceInv, LeaseExactlyWhileRunning, Running, Rows
        <4>. QED  BY <4>1, ConstantsAssumption DEF Heard, Lease
      <3>2. row[j].lease \in Int
        BY <2>2, <2>3, ConstantsAssumption
        DEF ExecInv, FenceInv, LeaseExactlyWhileRunning, Running, Rows, Lease
      <3>3. \A slack \in Slacks : ~LeaseLapsed(j, slack)
        BY <3>1, <3>2, ConstantsAssumption DEF LeaseLapsed, Slacks
      <3>4. \A q \in Owners : \A s \in scan[q] : ~LeaseLapsed(j, s.slack)
        BY <3>3, ScanFacts DEF Scans
      <3>5. \A skew \in 0 .. MaxSkew : ~ReclaimStaleManagedDestroyRecovery(j, skew)
        BY <3>1, <3>2, ConstantsAssumption DEF ReclaimStaleManagedDestroyRecovery, LeaseLapsed
      <3>6. CASE \E q \in Owners : \E r \in {sync[q][j], wait[q][j]} :
                    SyncJobSnapshot(j, r.obs, r.gen, r.outcome)
        <4>1. PICK q \in Owners : \E r \in {sync[q][j], wait[q][j]} :
                    SyncJobSnapshot(j, r.obs, r.gen, r.outcome)
          BY <3>6
        <4>2. PICK r \in {sync[q][j], wait[q][j]} : SyncJobSnapshot(j, r.obs, r.gen, r.outcome)
          BY <4>1
        <4>3. r \in Requests /\ RequestOK(j, r)
          BY CellFacts DEF CellOK
        <4>4. row[j].gen = r.gen
          BY <4>2 DEF SyncJobSnapshot, SnapshotAdmitted
        <4>5. r.gen \in Slots(q, j) /\ r.gen \in Slots(p, j) /\ r.gen \in Gens
          BY <2>2, <4>4, CellFacts, ZenonT(60) DEF Slots, CellOK, EntryOK, Active
        <4>6. q = p
          BY <4>5 DEF ExecInv, GenUnique
        <4>7. r.obs = "running"
          <5>1. EntryOK(j, loc[p][j], sync[p][j], wait[p][j])
            BY CellFacts DEF CellOK
          <5>2. r \in {sync[p][j], wait[p][j]} /\ r.gen = loc[p][j].gen
            BY <2>2, <4>4, <4>6
          <5>. QED  BY <5>1, <5>2 DEF EntryOK
        <4>. QED  BY <2>2, <4>2, <4>3, <4>7, SnapshotRow DEF Projected
      <3>7. CASE \E q \in Owners : \E s \in scan[q] :
                    s.job = j /\ s.act = "abandon" /\ FailJob(j)
        <4>1. Abandoned(j) /\ FailJob(j)
          BY <3>7 DEF Abandoned
        <4>2. row' = [row EXCEPT ![j] = [row[j] EXCEPT !.state = "failed", !.owner = NoOwner,
                                                       !.lease = NoLease]]
          BY <4>1 DEF FailJob, Put
        <4>3. row'[j].state = "failed"
          BY <2>3, <4>2 DEF Rows
        <4>. QED  BY <4>1, <4>3
      <3>. QED
        BY <2>2, <2>7, <3>4, <3>5, <3>6, <3>7
        DEF Writer, CreateJob, StartJob, ReclaimExpiredJobExecution, ResumeExpiredJobExecution,
            ClaimWorkloadRelocationRecovery, RenewWorkloadRelocationRecovery,
            FailWorkloadRelocationRecovery, ResolveWorkloadRelocation, RecoveringAs, Running
    <2>8. TableMoves
      BY StepMovesTable
    <2>9. CASE \E k \in Jobs : Writer(k)
      BY <2>5, <2>7, <2>9, WriterAlone
    <2>10. CASE row' = row
      BY <2>5, <2>10
    <2>. QED
      BY <2>6, <2>8, <2>9, <2>10 DEF TableMoves, store, DispatchCommand, SettleCommand
  <1>. QED  BY <1>1, ExecInvariant, PTL DEF ExecSpec, LiveExecutionKeepsRow
=============================================================================
