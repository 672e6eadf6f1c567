------------------------- MODULE JobSettlement_proofs -------------------------
(***************************************************************************)
(* Proofs about JobSettlement, for any set of jobs of any kinds.           *)
(*                                                                         *)
(* StatusMatchesRow and ObservedIsDurable are not inductive: the progress  *)
(* loop and the reclaimer project and report in a later step than the one  *)
(* that settled the row.  The invariant says what they may still rely on   *)
(* when they get there: a row that was settled keeps its state, and a loop *)
(* past its store has a row that agrees with its entry.                    *)
(***************************************************************************)
EXTENDS JobSettlement, TLAPS

\* A loop past its store works on the state the row has.
StoredInv ==
    \A j \in Jobs : loop[j] \in {"stored", "observe", "retry"} =>
        row[j] \in Terminal /\ row[j] = local[j]

\* What the reclaimer has to project is what it stored.
ReclaimedInv == \A j \in Jobs : reclaimer[j] => row[j] = "failed"

Inv == TypeOK /\ StatusMatchesRow /\ ObservedIsDurable /\ StoredInv /\ ReclaimedInv

-----------------------------------------------------------------------------
(* The operators.                                                          *)

(***************************************************************************)
(* A job type has a status to project or none (completedStackStatus).      *)
(***************************************************************************)
LEMMA StatusTyped ==
    ASSUME NEW j \in Jobs, NEW state \in States, stackStatus(j, state) # ""
    PROVE  stackStatus(j, state) \in Statuses
<1>1. completedStackStatus(Kind[j]) \in Statuses \cup {""}
  BY DEF completedStackStatus, Statuses
<1> QED
  BY <1>1 DEF stackStatus, Statuses

(***************************************************************************)
(* Only a completed or failed job has a status (stackStatusForJob).        *)
(***************************************************************************)
LEMMA StatusIsOfSettled ==
    ASSUME NEW j \in Jobs, NEW state \in States, stackStatus(j, state) # ""
    PROVE  state \in Terminal
BY DEF stackStatus, Terminal

(***************************************************************************)
(* A projection writes the status of the state the row has, or nothing.    *)
(***************************************************************************)
LEMMA ProjectFacts ==
    ASSUME NEW j \in Jobs, NEW state \in States, Project(j, state)
    PROVE  \/ stack' = stack
           \/ /\ stack'.by = j /\ stack'.status = stackStatus(j, state)
              /\ stack' \in [status : Statuses, by : Jobs \cup {NoJob}]
<1> DEFINE shown == stackStatus(j, state)
<1>1. UNCHANGED stack \/ (shown # "" /\ stack' = [status |-> shown, by |-> j])
  BY DEF Project
<1>2. shown # "" => shown \in Statuses
  BY StatusTyped
<1> HIDE DEF shown
<1>3. CASE shown # "" /\ stack' = [status |-> shown, by |-> j]
  BY <1>2, <1>3 DEF shown
<1> QED
  BY <1>1, <1>3

(***************************************************************************)
(* While settled rows keep their state, the shown status stays right.      *)
(***************************************************************************)
LEMMA StatusKeeps ==
    ASSUME Inv, UNCHANGED stack, \A j \in Jobs : row[j] \in Terminal => row'[j] = row[j]
    PROVE  StatusMatchesRow'
<1>1. SUFFICES ASSUME stack.by # NoJob
               PROVE  stack.status = stackStatus(stack.by, row'[stack.by])
  BY DEF StatusMatchesRow, stackStatus
<1>2. stack.by \in Jobs /\ stack.status \in Statuses /\ row[stack.by] \in States
  BY <1>1 DEF Inv, TypeOK
<1>3. stack.status = stackStatus(stack.by, row[stack.by])
  BY <1>1 DEF Inv, StatusMatchesRow
<1>4. stack.status # ""
  BY <1>2 DEF Statuses
<1>5. row[stack.by] \in Terminal
  BY <1>2, <1>3, <1>4, StatusIsOfSettled
<1> QED
  BY <1>2, <1>3, <1>5

-----------------------------------------------------------------------------
(* The invariant is inductive.                                             *)

LEMMA InitInv == Init => Inv
<1> SUFFICES ASSUME Init PROVE Inv
  OBVIOUS
<1>1. TypeOK
  BY DEF Init, TypeOK, States, Terminal, LoopStates, Statuses
<1>2. StatusMatchesRow /\ ObservedIsDurable /\ StoredInv /\ ReclaimedInv
  BY DEF Init, StatusMatchesRow, ObservedIsDurable, StoredInv, ReclaimedInv
<1> QED
  BY <1>1, <1>2 DEF Inv

LEMMA NextInv == Inv /\ [Next]_vars => Inv'
<1> SUFFICES ASSUME Inv, [Next]_vars PROVE Inv'
  OBVIOUS
<1>ty. /\ row \in [Jobs -> States] /\ local \in [Jobs -> States] /\ loop \in [Jobs -> LoopStates]
       /\ reclaimer \in [Jobs -> BOOLEAN] /\ seen \subseteq Jobs
       /\ stack \in [status : Statuses, by : Jobs \cup {NoJob}] /\ up \in BOOLEAN
  BY DEF Inv, TypeOK
<1>all. TypeOK /\ StatusMatchesRow /\ ObservedIsDurable /\ StoredInv /\ ReclaimedInv
  BY DEF Inv
<1>1. ASSUME NEW j \in Jobs, Start(j) PROVE Inv'
  <2>1. TypeOK'
    BY <1>1, <1>ty DEF Start, TypeOK, States
  <2>2. StatusMatchesRow'
    BY <1>1, <1>ty, StatusKeeps DEF Start, Terminal
  <2>3. ObservedIsDurable' /\ StoredInv' /\ ReclaimedInv'
    BY <1>1, <1>ty, <1>all DEF Start, ObservedIsDurable, StoredInv, ReclaimedInv, Terminal
  <2> QED
    BY <2>1, <2>2, <2>3 DEF Inv
<1>2. ASSUME NEW j \in Jobs, NEW result \in Terminal, Finish(j, result) PROVE Inv'
  <2>1. TypeOK'
    BY <1>2, <1>ty DEF Finish, TypeOK, States
  <2>2. StatusMatchesRow'
    BY <1>2, StatusKeeps DEF Finish
  <2>3. ObservedIsDurable' /\ StoredInv' /\ ReclaimedInv'
    BY <1>2, <1>ty, <1>all DEF Finish, ObservedIsDurable, StoredInv, ReclaimedInv, Terminal
  <2> QED
    BY <2>1, <2>2, <2>3 DEF Inv
<1>3. ASSUME NEW j \in Jobs, StoreTerminal(j) PROVE Inv'
  <2>1. TypeOK'
    BY <1>3, <1>ty DEF StoreTerminal, Loop, TypeOK, LoopStates
  <2>2. StatusMatchesRow'
    BY <1>3, <1>ty, StatusKeeps DEF StoreTerminal
  <2>3. ObservedIsDurable' /\ ReclaimedInv'
    BY <1>3, <1>ty, <1>all DEF StoreTerminal, ObservedIsDurable, ReclaimedInv, Terminal
  <2>4. StoredInv'
    BY <1>3, <1>ty, <1>all DEF StoreTerminal, Due, Loop, StoredInv, Terminal
  <2> QED
    BY <2>1, <2>2, <2>3, <2>4 DEF Inv
<1>4. ASSUME NEW j \in Jobs, StoreRefused(j) \/ ObserverFails(j) PROVE Inv'
  <2>1. UNCHANGED <<row, local, reclaimer, stack, seen, up>>
        /\ (Loop(j, "off") \/ (loop[j] = "observe" /\ Loop(j, "retry")))
    BY <1>4 DEF StoreRefused, ObserverFails
  <2>2. TypeOK'
    BY <2>1, <1>ty DEF Loop, TypeOK, LoopStates
  <2>3. StatusMatchesRow'
    BY <2>1, StatusKeeps
  <2>4. ObservedIsDurable' /\ StoredInv' /\ ReclaimedInv'
    BY <2>1, <1>ty, <1>all DEF Loop, ObservedIsDurable, StoredInv, ReclaimedInv
  <2> QED
    BY <2>2, <2>3, <2>4 DEF Inv
<1>5. ASSUME NEW j \in Jobs, ProjectStatus(j) PROVE Inv'
  <2>1. row[j] \in Terminal /\ row[j] = local[j]
    BY <1>5, <1>all DEF ProjectStatus, StoredInv
  <2>2. \/ stack' = stack
        \/ /\ stack'.by = j /\ stack'.status = stackStatus(j, row[j])
           /\ stack' \in [status : Statuses, by : Jobs \cup {NoJob}]
    BY <1>5, <1>ty, <2>1, ProjectFacts DEF ProjectStatus
  <2>3. TypeOK'
    BY <1>5, <1>ty, <2>2 DEF ProjectStatus, Loop, TypeOK, LoopStates
  <2>4. StatusMatchesRow'
    BY <1>5, <1>all, <2>2, StatusKeeps DEF ProjectStatus, StatusMatchesRow, stackStatus
  <2>5. ObservedIsDurable' /\ StoredInv' /\ ReclaimedInv'
    BY <1>5, <1>ty, <1>all DEF ProjectStatus, Loop, ObservedIsDurable, StoredInv, ReclaimedInv
  <2> QED
    BY <2>3, <2>4, <2>5 DEF Inv
<1>6. ASSUME NEW j \in Jobs, Observed(j) PROVE Inv'
  <2>1. TypeOK'
    BY <1>6, <1>ty DEF Observed, Loop, TypeOK, LoopStates
  <2>2. StatusMatchesRow'
    BY <1>6, StatusKeeps DEF Observed
  <2>3. ObservedIsDurable' /\ StoredInv' /\ ReclaimedInv'
    BY <1>6, <1>ty, <1>all DEF Observed, Loop, ObservedIsDurable, StoredInv, ReclaimedInv
  <2> QED
    BY <2>1, <2>2, <2>3 DEF Inv
<1>7. ASSUME NEW j \in Jobs, Reclaim(j) PROVE Inv'
  <2>1. TypeOK'
    BY <1>7, <1>ty DEF Reclaim, TypeOK, States, Terminal
  <2>2. StatusMatchesRow'
    BY <1>7, <1>ty, StatusKeeps DEF Reclaim, Terminal
  <2>3. ObservedIsDurable' /\ StoredInv' /\ ReclaimedInv'
    BY <1>7, <1>ty, <1>all DEF Reclaim, ObservedIsDurable, StoredInv, ReclaimedInv, Terminal
  <2> QED
    BY <2>1, <2>2, <2>3 DEF Inv
<1>8. ASSUME NEW j \in Jobs, ProjectReclaimed(j) PROVE Inv'
  <2>1. row[j] = "failed" /\ "failed" \in States
    BY <1>8, <1>all DEF ProjectReclaimed, ReclaimedInv, States, Terminal
  <2>2. \/ stack' = stack
        \/ /\ stack'.by = j /\ stack'.status = stackStatus(j, row[j])
           /\ stack' \in [status : Statuses, by : Jobs \cup {NoJob}]
    BY <1>8, <2>1, ProjectFacts DEF ProjectReclaimed
  <2>3. TypeOK'
    BY <1>8, <1>ty, <2>2 DEF ProjectReclaimed, TypeOK
  <2>4. StatusMatchesRow'
    BY <1>8, <1>all, <2>2, StatusKeeps DEF ProjectReclaimed, StatusMatchesRow, stackStatus
  <2>5. ObservedIsDurable' /\ StoredInv' /\ ReclaimedInv'
    BY <1>8, <1>ty, <1>all DEF ProjectReclaimed, ObservedIsDurable, StoredInv, ReclaimedInv
  <2> QED
    BY <2>3, <2>4, <2>5 DEF Inv
<1>9. CASE Stop
  <2>1. PICK F \in SUBSET {j \in Jobs : Flushed(j)} :
          /\ row' = [j \in Jobs |-> IF j \in F THEN local[j] ELSE row[j]]
          /\ \E O \in SUBSET F : seen' = seen \cup O
    BY <1>9 DEF Stop
  <2>2. \A j \in Jobs : /\ row[j] \in Terminal => row'[j] = row[j]
                        /\ j \in F => row'[j] = local[j] /\ local[j] \in Terminal
                        /\ row'[j] \in States
    BY <1>ty, <2>1 DEF Flushed
  <2>3. /\ loop' = [j \in Jobs |-> "off"] /\ up' = FALSE /\ UNCHANGED <<local, reclaimer, stack>>
    BY <1>9 DEF Stop
  <2>4. TypeOK'
    BY <1>ty, <2>1, <2>2, <2>3 DEF TypeOK, LoopStates
  <2>5. StatusMatchesRow'
    BY <2>2, <2>3, StatusKeeps
  <2>6. ObservedIsDurable' /\ StoredInv' /\ ReclaimedInv'
    BY <1>ty, <1>all, <2>1, <2>2, <2>3 DEF ObservedIsDurable, StoredInv, ReclaimedInv, Terminal
  <2> QED
    BY <2>4, <2>5, <2>6 DEF Inv
<1>10. CASE UNCHANGED vars
  <2>1. UNCHANGED <<row, local, loop, reclaimer, stack, seen, up>>
    BY <1>10 DEF vars
  <2>2. StatusMatchesRow'
    BY <2>1, StatusKeeps
  <2> QED
    BY <1>all, <2>1, <2>2 DEF Inv, TypeOK, ObservedIsDurable, StoredInv, ReclaimedInv
<1> QED
  BY <1>1, <1>2, <1>3, <1>4, <1>5, <1>6, <1>7, <1>8, <1>9, <1>10 DEF Next

-----------------------------------------------------------------------------
(* Theorems.                                                               *)

(***************************************************************************)
(* The inductive invariant.                                                *)
(***************************************************************************)
LEMMA SettlementInvariant == Spec => []Inv
<1> QED
  BY InitInv, NextInv, PTL DEF Spec

(***************************************************************************)
(* Type correctness; in particular the stack never gets the empty status   *)
(* that completedStackStatusForJobType has for other job types.            *)
(***************************************************************************)
THEOREM SettlementTyped == Spec => []TypeOK
<1>1. Inv => TypeOK
  BY DEF Inv
<1> QED
  BY <1>1, SettlementInvariant, PTL

(***************************************************************************)
(* The stack shows what its table says, whichever of the progress loop and *)
(* the reclaimer projected the status last (updateStackStatusSnapshot).    *)
(***************************************************************************)
THEOREM StatusOfRow == Spec => []StatusMatchesRow
<1>1. Inv => StatusMatchesRow
  BY DEF Inv
<1> QED
  BY <1>1, SettlementInvariant, PTL

(***************************************************************************)
(* An observer gets a job only after its terminal snapshot is durable, and *)
(* what it saw stays what the row says (terminal_job_observer.go).         *)
(***************************************************************************)
THEOREM ObservedDurable == Spec => []ObservedIsDurable
<1>1. Inv => ObservedIsDurable
  BY DEF Inv
<1> QED
  BY <1>1, SettlementInvariant, PTL
=============================================================================
