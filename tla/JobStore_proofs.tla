--------------------------- MODULE JobStore_proofs ---------------------------
(***************************************************************************)
(* The fence of the job table holds for every set of jobs, targets,        *)
(* owners, generations and windows, and for every lease length.            *)
(*                                                                         *)
(* The argument: only three operations add an execution or a hold (the two *)
(* claims of a row and the claim of a window), and each checks the fence   *)
(* in the same transaction.  Every other operation can only take rows out  *)
(* of 'running', or turn the fence of a row on that runs already.          *)
(***************************************************************************)
EXTENDS JobStore, TLAPS

\* The inductive invariant.
FenceInv ==
    /\ TypeOK
    /\ LeaseExactlyWhileRunning
    /\ OneExecutionPerTarget
    /\ UnresolvedMoveFences
    /\ WindowExcludesExecution

-----------------------------------------------------------------------------
(***************************************************************************)
(* The conflict relation of executionTargetsOverlap is symmetric, so it    *)
(* does not matter which of two jobs is admitted second.                   *)
(***************************************************************************)
LEMMA OverlapSymmetric ==
    \A j, k \in Jobs : executionTargetsOverlap(j, k) <=> executionTargetsOverlap(k, j)
  BY DEF executionTargetsOverlap

(***************************************************************************)
(* A step that starts nothing: it runs no row that did not run, fences no  *)
(* move that did not run or fence already, and claims no window.           *)
(***************************************************************************)
StartsNothing ==
    /\ \A j \in Jobs : Running(j)' => Running(j)
    /\ \A j \in Jobs : relocationHoldsExecution(j)' => relocationHoldsExecution(j) \/ Running(j)
    /\ \A w \in Windows : maint'[w] = "held" => maint[w] = "held"

LEMMA StartsNothingKeepsFence ==
    ASSUME OneExecutionPerTarget, UnresolvedMoveFences, WindowExcludesExecution,
           StartsNothing
    PROVE  /\ OneExecutionPerTarget'
           /\ UnresolvedMoveFences'
           /\ WindowExcludesExecution'
  BY DEF OneExecutionPerTarget, UnresolvedMoveFences, WindowExcludesExecution,
         StartsNothing, executionTargetsOverlap, Wide, WindowCovers

(***************************************************************************)
(* A claim of row j that found its targets free and its nodes outside any  *)
(* window keeps the fence (StartJob, ClaimWorkloadRelocationRecovery).     *)
(***************************************************************************)
LEMMA ClaimKeepsFence ==
    ASSUME OneExecutionPerTarget, UnresolvedMoveFences, WindowExcludesExecution,
           NEW j \in Jobs, ~TargetBusy(j), ~UnderMaintenance(j), maint' = maint,
           \A k \in Jobs \ {j} : Running(k)' <=> Running(k),
           \A k \in Jobs : relocationHoldsExecution(k)' => relocationHoldsExecution(k)
    PROVE  /\ OneExecutionPerTarget'
           /\ UnresolvedMoveFences'
           /\ WindowExcludesExecution'
  <1>1. \A k \in Jobs \ {j} :
           (Running(k) \/ relocationHoldsExecution(k))
           => ~executionTargetsOverlap(j, k) /\ ~executionTargetsOverlap(k, j)
    BY OverlapSymmetric DEF TargetBusy
  <1>2. \A k, l \in Jobs : executionTargetsOverlap(k, l)' <=> executionTargetsOverlap(k, l)
    BY DEF executionTargetsOverlap, Wide
  <1>3. OneExecutionPerTarget'
    BY <1>1, <1>2 DEF OneExecutionPerTarget
  <1>4. UnresolvedMoveFences'
    BY <1>1, <1>2 DEF UnresolvedMoveFences
  <1>5. WindowExcludesExecution'
    BY DEF WindowExcludesExecution, UnderMaintenance, Holds, WindowCovers
  <1>. QED  BY <1>3, <1>4, <1>5

(***************************************************************************)
(* A full lease is a lease, and SQL NULL is neither a lease nor an owner.  *)
(***************************************************************************)
LEMMA FullLease ==
    /\ TTL \in Lease /\ TTL # NoLease
    /\ \A o \in Owners : o # NoOwner
  BY ConstantsAssumption DEF Lease

(***************************************************************************)
(* Writing one row leaves every other row alone.                           *)
(***************************************************************************)
LEMMA PutRow ==
    ASSUME row \in [Jobs -> Rows], NEW j \in Jobs, NEW r \in Rows, Put(j, r)
    PROVE  /\ row' \in [Jobs -> Rows]
           /\ row'[j] = r
           /\ \A k \in Jobs \ {j} : row'[k] = row[k]
  BY DEF Put

(***************************************************************************)
(* A row that is written without entering 'running', whose lease columns   *)
(* agree with its new state and whose fence is not raised from idle, keeps *)
(* the whole invariant.  It covers every operation on one row but claims.  *)
(***************************************************************************)
LEMMA ReleaseKeepsInv ==
    ASSUME FenceInv, NEW j \in Jobs, NEW r \in Rows, Put(j, r),
           UNCHANGED maint, cmd' \in [Jobs -> BOOLEAN],
           r.state = "running" => Running(j),
           r.outcome = "held" /\ Type[j] = Relocation
              => Running(j) \/ row[j].outcome = "held",
           r.state = "running" <=> r.owner # NoOwner,
           r.state = "running" <=> r.lease # NoLease
    PROVE  FenceInv'
  <1>1. /\ row' \in [Jobs -> Rows]
        /\ row'[j] = r
        /\ \A k \in Jobs \ {j} : row'[k] = row[k]
    BY PutRow DEF FenceInv, TypeOK
  <1>2. TypeOK'
    BY <1>1 DEF FenceInv, TypeOK
  <1>3. LeaseExactlyWhileRunning'
    BY <1>1 DEF FenceInv, LeaseExactlyWhileRunning, Running
  <1>4. StartsNothing
    BY <1>1 DEF StartsNothing, Running, relocationHoldsExecution
  <1>. QED  BY <1>2, <1>3, <1>4, StartsNothingKeepsFence DEF FenceInv

-----------------------------------------------------------------------------
(***************************************************************************)
(* The empty table satisfies the invariant.                                *)
(***************************************************************************)
LEMMA InitFence == Init => FenceInv
  BY ConstantsAssumption
  DEF Init, FenceInv, TypeOK, AbsentRow, Rows, States, WindowStates,
      LeaseExactlyWhileRunning, OneExecutionPerTarget, UnresolvedMoveFences,
      WindowExcludesExecution, Running, relocationHoldsExecution

(***************************************************************************)
(* The two claims of a row.                                                *)
(***************************************************************************)
LEMMA StartJobKeepsInv ==
    ASSUME FenceInv, NEW j \in Jobs, NEW o \in Owners, NEW g \in Gens, StartJob(j, o, g)
    PROVE  FenceInv'
  <1>. DEFINE r == [row[j] EXCEPT !.state = "running", !.gen = g, !.owner = o, !.lease = TTL]
  <1>1. row \in [Jobs -> Rows]
    BY DEF FenceInv, TypeOK
  <1>2. /\ r \in Rows /\ r.state = "running" /\ r.owner = o /\ r.lease = TTL
        /\ r.outcome = row[j].outcome
    <2>1. row[j] \in Rows
      BY <1>1
    <2>2. r \in Rows
      BY <2>1, FullLease DEF Rows, States
    <2>3. r.state = "running" /\ r.owner = o /\ r.lease = TTL /\ r.outcome = row[j].outcome
      BY <2>1 DEF Rows
    <2>. QED  BY <2>2, <2>3
  <1>3. /\ row' \in [Jobs -> Rows] /\ row'[j] = r
        /\ \A k \in Jobs \ {j} : row'[k] = row[k]
        /\ UNCHANGED <<cmd, maint>>
    BY <1>1, <1>2, PutRow DEF StartJob
  <1>4. TypeOK'
    BY <1>3 DEF FenceInv, TypeOK
  <1>5. LeaseExactlyWhileRunning'
    BY <1>2, <1>3, FullLease DEF FenceInv, LeaseExactlyWhileRunning, Running
  <1>6. /\ \A k \in Jobs \ {j} : Running(k)' <=> Running(k)
        /\ \A k \in Jobs : relocationHoldsExecution(k)' => relocationHoldsExecution(k)
    BY <1>2, <1>3 DEF Running, relocationHoldsExecution
  <1>7. ~TargetBusy(j) /\ ~UnderMaintenance(j)
    BY DEF StartJob
  <1>8. OneExecutionPerTarget' /\ UnresolvedMoveFences' /\ WindowExcludesExecution'
    BY <1>3, <1>6, <1>7, ClaimKeepsFence DEF FenceInv
  <1>. QED  BY <1>4, <1>5, <1>8 DEF FenceInv

LEMMA RecoveryClaimKeepsInv ==
    ASSUME FenceInv, NEW j \in Jobs, NEW o \in Owners, ClaimWorkloadRelocationRecovery(j, o)
    PROVE  FenceInv'
  <1>. DEFINE r == [row[j] EXCEPT !.state = "running", !.step = "recovery",
                                  !.owner = o, !.lease = TTL]
  <1>1. row \in [Jobs -> Rows]
    BY DEF FenceInv, TypeOK
  <1>2. /\ r \in Rows /\ r.state = "running" /\ r.owner = o /\ r.lease = TTL
        /\ r.outcome = row[j].outcome
    <2>1. row[j] \in Rows
      BY <1>1
    <2>2. r \in Rows
      BY <2>1, FullLease DEF Rows, States
    <2>3. r.state = "running" /\ r.owner = o /\ r.lease = TTL /\ r.outcome = row[j].outcome
      BY <2>1 DEF Rows
    <2>. QED  BY <2>2, <2>3
  <1>3. /\ row' \in [Jobs -> Rows] /\ row'[j] = r
        /\ \A k \in Jobs \ {j} : row'[k] = row[k]
        /\ UNCHANGED <<cmd, maint>>
    BY <1>1, <1>2, PutRow DEF ClaimWorkloadRelocationRecovery
  <1>4. TypeOK'
    BY <1>3 DEF FenceInv, TypeOK
  <1>5. LeaseExactlyWhileRunning'
    BY <1>2, <1>3, FullLease DEF FenceInv, LeaseExactlyWhileRunning, Running
  <1>6. /\ \A k \in Jobs \ {j} : Running(k)' <=> Running(k)
        /\ \A k \in Jobs : relocationHoldsExecution(k)' => relocationHoldsExecution(k)
    BY <1>2, <1>3 DEF Running, relocationHoldsExecution
  <1>7. ~TargetBusy(j) /\ ~UnderMaintenance(j)
    BY DEF ClaimWorkloadRelocationRecovery
  <1>8. OneExecutionPerTarget' /\ UnresolvedMoveFences' /\ WindowExcludesExecution'
    BY <1>3, <1>6, <1>7, ClaimKeepsFence DEF FenceInv
  <1>. QED  BY <1>4, <1>5, <1>8 DEF FenceInv

(***************************************************************************)
(* The operations that write one row without claiming it.                  *)
(***************************************************************************)
LEMMA CreateJobKeepsInv ==
    ASSUME FenceInv, NEW j \in Jobs, CreateJob(j)
    PROVE  FenceInv'
  <1>. DEFINE r == [AbsentRow EXCEPT !.state = "pending"]
  <1>1. /\ r \in Rows /\ r.state = "pending" /\ r.outcome = "none"
        /\ r.owner = NoOwner /\ r.lease = NoLease
    BY DEF AbsentRow, Rows, States
  <1>2. Put(j, r) /\ UNCHANGED <<cmd, maint>> /\ cmd \in [Jobs -> BOOLEAN]
    BY DEF CreateJob, FenceInv, TypeOK
  <1>. QED  BY <1>1, <1>2, ReleaseKeepsInv

LEMMA UpsertJobKeepsInv ==
    ASSUME FenceInv, NEW j \in Jobs, NEW s \in {"pending", "completed"}, UpsertJob(j, s)
    PROVE  FenceInv'
  <1>. DEFINE r == [row[j] EXCEPT !.state = s, !.outcome = "none", !.wait = FALSE,
                                  !.step = "handler"]
  <1>1. row[j] \in Rows /\ LeaseExactlyWhileRunning
    BY DEF FenceInv, TypeOK
  <1>2. r \in Rows
    BY <1>1, FullLease DEF UpsertJob, Rows, States
  <1>3. /\ r.state = "running" => Running(j)
        /\ r.outcome = "held" /\ Type[j] = Relocation => Running(j) \/ row[j].outcome = "held"
        /\ r.state = "running" <=> r.owner # NoOwner
        /\ r.state = "running" <=> r.lease # NoLease
    BY <1>1, FullLease DEF UpsertJob, LeaseExactlyWhileRunning, Running, Rows
  <1>4. Put(j, r) /\ UNCHANGED <<cmd, maint>> /\ cmd \in [Jobs -> BOOLEAN]
    BY DEF UpsertJob, FenceInv, TypeOK
  <1>. QED  BY <1>2, <1>3, <1>4, ReleaseKeepsInv

LEMMA SyncJobSnapshotKeepsInv ==
    ASSUME FenceInv, NEW j \in Jobs,
           NEW observed \in Observable, NEW g \in Gens \cup {NoGen}, NEW outcome \in Outcomes(j), 
           SyncJobSnapshot(j, observed, g, outcome)
    PROVE  FenceInv'
  <1>. DEFINE r == [row[j] EXCEPT 
                  !.state = Projected(observed),
                  !.owner = IF observed = "running" THEN @ ELSE NoOwner,
                  !.lease = IF observed = "running" THEN TTL ELSE NoLease,
                  !.outcome = outcome,
                  !.step = "handler",
                  !.wait = (observed = "waiting")]
  <1>1. row[j] \in Rows /\ LeaseExactlyWhileRunning
    BY DEF FenceInv, TypeOK
  <1>2. r \in Rows
    <2>1. Projected(observed) \in States
      BY DEF Projected, Observable, Terminal, States
    <2>2. row[j].owner \in Owners \cup {NoOwner} /\ outcome \in {"none", "held", "settled"}
      BY <1>1 DEF Outcomes, Rows
    <2>. DEFINE o == IF observed = "running" THEN row[j].owner ELSE NoOwner
                l == IF observed = "running" THEN TTL ELSE NoLease
                w == observed = "waiting"
    <2>3. o \in Owners \cup {NoOwner} /\ l \in Lease \cup {NoLease} /\ w \in BOOLEAN
      BY <2>2, FullLease
    <2>4. r = [row[j] EXCEPT !.state = Projected(observed), !.owner = o, !.lease = l,
                             !.outcome = outcome, !.step = "handler", !.wait = w]
      OBVIOUS
    <2>. HIDE DEF r, o, l, w
    <2>. QED  BY <1>1, <2>1, <2>2, <2>3, <2>4 DEF Rows
  <1>3. /\ r.state = "running" => Running(j)
        /\ r.outcome = "held" /\ Type[j] = Relocation => Running(j) \/ row[j].outcome = "held"
        /\ r.state = "running" <=> r.owner # NoOwner
        /\ r.state = "running" <=> r.lease # NoLease
    BY <1>1, FullLease DEF SyncJobSnapshot, SnapshotAdmitted, Projected, Observable, Terminal, Outcomes,
       relocationHoldsExecution, LeaseExactlyWhileRunning, Running, Rows
  <1>4. Put(j, r) /\ UNCHANGED <<cmd, maint>> /\ cmd \in [Jobs -> BOOLEAN]
    BY DEF SyncJobSnapshot, SnapshotAdmitted, Projected, Observable, Terminal, Outcomes,
       relocationHoldsExecution, FenceInv, TypeOK
  <1>. QED  BY <1>2, <1>3, <1>4, ReleaseKeepsInv

LEMMA CompleteJobKeepsInv ==
    ASSUME FenceInv, NEW j \in Jobs, CompleteJob(j)
    PROVE  FenceInv'
  <1>. DEFINE r == [row[j] EXCEPT !.state = "completed", !.owner = NoOwner, !.lease = NoLease,
                                  !.outcome = "none", !.wait = FALSE]
  <1>1. row[j] \in Rows /\ LeaseExactlyWhileRunning
    BY DEF FenceInv, TypeOK
  <1>2. r \in Rows
    BY <1>1, FullLease DEF CompleteJob, Rows, States
  <1>3. /\ r.state = "running" => Running(j)
        /\ r.outcome = "held" /\ Type[j] = Relocation => Running(j) \/ row[j].outcome = "held"
        /\ r.state = "running" <=> r.owner # NoOwner
        /\ r.state = "running" <=> r.lease # NoLease
    BY <1>1, FullLease DEF CompleteJob, LeaseExactlyWhileRunning, Running, Rows
  <1>4. Put(j, r) /\ UNCHANGED <<cmd, maint>> /\ cmd \in [Jobs -> BOOLEAN]
    BY DEF CompleteJob, FenceInv, TypeOK
  <1>. QED  BY <1>2, <1>3, <1>4, ReleaseKeepsInv

LEMMA FailJobKeepsInv ==
    ASSUME FenceInv, NEW j \in Jobs, FailJob(j)
    PROVE  FenceInv'
  <1>. DEFINE r == [row[j] EXCEPT !.state = "failed", !.owner = NoOwner, !.lease = NoLease]
  <1>1. row[j] \in Rows /\ LeaseExactlyWhileRunning
    BY DEF FenceInv, TypeOK
  <1>2. r \in Rows
    BY <1>1, FullLease DEF FailJob, Rows, States
  <1>3. /\ r.state = "running" => Running(j)
        /\ r.outcome = "held" /\ Type[j] = Relocation => Running(j) \/ row[j].outcome = "held"
        /\ r.state = "running" <=> r.owner # NoOwner
        /\ r.state = "running" <=> r.lease # NoLease
    BY <1>1, FullLease DEF FailJob, LeaseExactlyWhileRunning, Running, Rows
  <1>4. Put(j, r) /\ UNCHANGED <<cmd, maint>> /\ cmd \in [Jobs -> BOOLEAN]
    BY DEF FailJob, FenceInv, TypeOK
  <1>. QED  BY <1>2, <1>3, <1>4, ReleaseKeepsInv

LEMMA ClaimWaitingKeepsInv ==
    ASSUME FenceInv, NEW j \in Jobs, ClaimWaitingJobResume(j)
    PROVE  FenceInv'
  <1>. DEFINE r == [row[j] EXCEPT !.state = "cancelled"]
  <1>1. row[j] \in Rows /\ LeaseExactlyWhileRunning
    BY DEF FenceInv, TypeOK
  <1>2. r \in Rows
    BY <1>1, FullLease DEF ClaimWaitingJobResume, Rows, States
  <1>3. /\ r.state = "running" => Running(j)
        /\ r.outcome = "held" /\ Type[j] = Relocation => Running(j) \/ row[j].outcome = "held"
        /\ r.state = "running" <=> r.owner # NoOwner
        /\ r.state = "running" <=> r.lease # NoLease
    BY <1>1, FullLease DEF ClaimWaitingJobResume, LeaseExactlyWhileRunning, Running, Rows
  <1>4. Put(j, r) /\ UNCHANGED <<cmd, maint>> /\ cmd \in [Jobs -> BOOLEAN]
    BY DEF ClaimWaitingJobResume, FenceInv, TypeOK
  <1>. QED  BY <1>2, <1>3, <1>4, ReleaseKeepsInv

LEMMA ReclaimKeepsInv ==
    ASSUME FenceInv, NEW j \in Jobs, NEW o, NEW slack, ReclaimExpiredJobExecution(j, o, slack)
    PROVE  FenceInv'
  <1>. DEFINE r == [row[j] EXCEPT !.state = "failed", !.owner = NoOwner, !.lease = NoLease]
  <1>1. row[j] \in Rows /\ LeaseExactlyWhileRunning
    BY DEF FenceInv, TypeOK
  <1>2. r \in Rows
    BY <1>1, FullLease DEF ReclaimExpiredJobExecution, Rows, States
  <1>3. /\ r.state = "running" => Running(j)
        /\ r.outcome = "held" /\ Type[j] = Relocation => Running(j) \/ row[j].outcome = "held"
        /\ r.state = "running" <=> r.owner # NoOwner
        /\ r.state = "running" <=> r.lease # NoLease
    BY <1>1, FullLease DEF ReclaimExpiredJobExecution, LeaseExactlyWhileRunning, Running, Rows
  <1>4. Put(j, r) /\ UNCHANGED <<cmd, maint>> /\ cmd \in [Jobs -> BOOLEAN]
    BY DEF ReclaimExpiredJobExecution, FenceInv, TypeOK
  <1>. QED  BY <1>2, <1>3, <1>4, ReleaseKeepsInv

LEMMA ResumeKeepsInv ==
    ASSUME FenceInv, NEW j \in Jobs, NEW o, NEW slack, ResumeExpiredJobExecution(j, o, slack)
    PROVE  FenceInv'
  <1>. DEFINE r == [row[j] EXCEPT !.state = "pending", !.owner = NoOwner, !.lease = NoLease]
  <1>1. row[j] \in Rows /\ LeaseExactlyWhileRunning
    BY DEF FenceInv, TypeOK
  <1>2. r \in Rows
    BY <1>1, FullLease DEF ResumeExpiredJobExecution, Rows, States
  <1>3. /\ r.state = "running" => Running(j)
        /\ r.outcome = "held" /\ Type[j] = Relocation => Running(j) \/ row[j].outcome = "held"
        /\ r.state = "running" <=> r.owner # NoOwner
        /\ r.state = "running" <=> r.lease # NoLease
    BY <1>1, FullLease DEF ResumeExpiredJobExecution, LeaseExactlyWhileRunning, Running, Rows
  <1>4. Put(j, r) /\ UNCHANGED <<cmd, maint>> /\ cmd \in [Jobs -> BOOLEAN]
    BY DEF ResumeExpiredJobExecution, FenceInv, TypeOK
  <1>. QED  BY <1>2, <1>3, <1>4, ReleaseKeepsInv

LEMMA ReclaimDestroyKeepsInv ==
    ASSUME FenceInv, NEW j \in Jobs, NEW slack, ReclaimStaleManagedDestroyRecovery(j, slack)
    PROVE  FenceInv'
  <1>. DEFINE r == [row[j] EXCEPT !.state = "pending", !.gen = NoGen,
                                  !.owner = NoOwner, !.lease = NoLease]
  <1>1. row[j] \in Rows /\ LeaseExactlyWhileRunning
    BY DEF FenceInv, TypeOK
  <1>2. r \in Rows
    BY <1>1, FullLease DEF ReclaimStaleManagedDestroyRecovery, Rows, States
  <1>3. /\ r.state = "running" => Running(j)
        /\ r.outcome = "held" /\ Type[j] = Relocation => Running(j) \/ row[j].outcome = "held"
        /\ r.state = "running" <=> r.owner # NoOwner
        /\ r.state = "running" <=> r.lease # NoLease
    BY <1>1, FullLease DEF ReclaimStaleManagedDestroyRecovery, LeaseExactlyWhileRunning, Running, Rows
  <1>4. Put(j, r) /\ UNCHANGED <<cmd, maint>> /\ cmd \in [Jobs -> BOOLEAN]
    BY DEF ReclaimStaleManagedDestroyRecovery, FenceInv, TypeOK
  <1>. QED  BY <1>2, <1>3, <1>4, ReleaseKeepsInv

LEMMA RenewRecoveryKeepsInv ==
    ASSUME FenceInv, NEW j \in Jobs, NEW o, RenewWorkloadRelocationRecovery(j, o)
    PROVE  FenceInv'
  <1>. DEFINE r == [row[j] EXCEPT !.lease = TTL]
  <1>1. row[j] \in Rows /\ LeaseExactlyWhileRunning
    BY DEF FenceInv, TypeOK
  <1>2. r \in Rows
    BY <1>1, FullLease DEF Rows
  <1>3. /\ r.state = "running" => Running(j)
        /\ r.outcome = "held" /\ Type[j] = Relocation => Running(j) \/ row[j].outcome = "held"
        /\ r.state = "running" <=> r.owner # NoOwner
        /\ r.state = "running" <=> r.lease # NoLease
    BY <1>1, FullLease DEF RenewWorkloadRelocationRecovery, RecoveringAs, LeaseExactlyWhileRunning, Running, Rows
  <1>4. Put(j, r) /\ UNCHANGED <<cmd, maint>> /\ cmd \in [Jobs -> BOOLEAN]
    BY DEF RenewWorkloadRelocationRecovery, FenceInv, TypeOK
  <1>. QED  BY <1>2, <1>3, <1>4, ReleaseKeepsInv

LEMMA FailRecoveryKeepsInv ==
    ASSUME FenceInv, NEW j \in Jobs, NEW o, FailWorkloadRelocationRecovery(j, o)
    PROVE  FenceInv'
  <1>. DEFINE r == [row[j] EXCEPT !.state = "failed", !.owner = NoOwner, !.lease = NoLease]
  <1>1. row[j] \in Rows /\ LeaseExactlyWhileRunning
    BY DEF FenceInv, TypeOK
  <1>2. r \in Rows
    BY <1>1, FullLease DEF FailWorkloadRelocationRecovery, Rows, States
  <1>3. /\ r.state = "running" => Running(j)
        /\ r.outcome = "held" /\ Type[j] = Relocation => Running(j) \/ row[j].outcome = "held"
        /\ r.state = "running" <=> r.owner # NoOwner
        /\ r.state = "running" <=> r.lease # NoLease
    BY <1>1, FullLease DEF FailWorkloadRelocationRecovery, LeaseExactlyWhileRunning, Running, Rows
  <1>4. Put(j, r) /\ UNCHANGED <<cmd, maint>> /\ cmd \in [Jobs -> BOOLEAN]
    BY DEF FailWorkloadRelocationRecovery, FenceInv, TypeOK
  <1>. QED  BY <1>2, <1>3, <1>4, ReleaseKeepsInv

LEMMA ResolveKeepsInv ==
    ASSUME FenceInv, NEW j \in Jobs, NEW o, ResolveWorkloadRelocation(j, o)
    PROVE  FenceInv'
  <1>. DEFINE r == [row[j] EXCEPT !.state = "completed", !.outcome = "settled",
                                  !.owner = NoOwner, !.lease = NoLease]
  <1>1. row[j] \in Rows /\ LeaseExactlyWhileRunning
    BY DEF FenceInv, TypeOK
  <1>2. r \in Rows
    BY <1>1, FullLease DEF ResolveWorkloadRelocation, Rows, States
  <1>3. /\ r.state = "running" => Running(j)
        /\ r.outcome = "held" /\ Type[j] = Relocation => Running(j) \/ row[j].outcome = "held"
        /\ r.state = "running" <=> r.owner # NoOwner
        /\ r.state = "running" <=> r.lease # NoLease
    BY <1>1, FullLease DEF ResolveWorkloadRelocation, LeaseExactlyWhileRunning, Running, Rows
  <1>4. Put(j, r) /\ UNCHANGED <<cmd, maint>> /\ cmd \in [Jobs -> BOOLEAN]
    BY DEF ResolveWorkloadRelocation, FenceInv, TypeOK
  <1>. QED  BY <1>2, <1>3, <1>4, ReleaseKeepsInv

(***************************************************************************)
(* The operations that write many rows: supersession and the clock.        *)
(***************************************************************************)
LEMMA CancelPendingKeepsInv ==
    ASSUME FenceInv, NEW s, CancelPendingStackOperations(s)
    PROVE  FenceInv'
  <1>1. row \in [Jobs -> Rows] /\ UNCHANGED <<cmd, maint>>
    BY DEF FenceInv, TypeOK, CancelPendingStackOperations
  <1>2. \A j \in Jobs :
           /\ row'[j] \in Rows
           /\ \/ row'[j] = row[j]
              \/ /\ row'[j].state = "cancelled" /\ row'[j].owner = NoOwner
                 /\ row'[j].lease = NoLease /\ row'[j].outcome = row[j].outcome
    <2>. TAKE j \in Jobs
    <2>. DEFINE c == [row[j] EXCEPT !.state = "cancelled", !.owner = NoOwner, !.lease = NoLease]
    <2>1. row'[j] = row[j] \/ row'[j] = c
      BY <1>1 DEF CancelPendingStackOperations
    <2>2. row[j] \in Rows
      BY <1>1
    <2>3. c \in Rows
      BY <2>2 DEF Rows, States
    <2>4. /\ c.state = "cancelled" /\ c.owner = NoOwner
          /\ c.lease = NoLease /\ c.outcome = row[j].outcome
      BY <2>2 DEF Rows
    <2>. HIDE DEF c
    <2>. QED  BY <2>1, <2>2, <2>3, <2>4
  <1>3. row' \in [Jobs -> Rows]
    BY <1>2 DEF CancelPendingStackOperations
  <1>4. TypeOK'
    BY <1>1, <1>3 DEF FenceInv, TypeOK
  <1>5. LeaseExactlyWhileRunning'
    BY <1>2 DEF FenceInv, LeaseExactlyWhileRunning, Running
  <1>6. StartsNothing
    BY <1>1, <1>2 DEF StartsNothing, Running, relocationHoldsExecution
  <1>. QED  BY <1>4, <1>5, <1>6, StartsNothingKeepsFence DEF FenceInv

LEMMA TickKeepsInv ==
    ASSUME FenceInv, Tick
    PROVE  FenceInv'
  <1>1. row \in [Jobs -> Rows] /\ UNCHANGED <<cmd, maint>>
    BY DEF FenceInv, TypeOK, Tick
  <1>2. \A l \in Lease : l > 0 - MaxLag => l - 1 \in Lease /\ l - 1 # NoLease /\ l # NoLease
    BY ConstantsAssumption DEF Lease
  <1>3. \A j \in Jobs :
           /\ row'[j] \in Rows
           /\ row'[j].state = row[j].state /\ row'[j].owner = row[j].owner
           /\ row'[j].outcome = row[j].outcome
           /\ row'[j].lease = NoLease <=> row[j].lease = NoLease
    BY <1>1, <1>2 DEF Tick, Older, Rows
  <1>4. row' \in [Jobs -> Rows]
    BY <1>3 DEF Tick
  <1>5. TypeOK'
    BY <1>1, <1>4 DEF FenceInv, TypeOK
  <1>6. LeaseExactlyWhileRunning'
    BY <1>3 DEF FenceInv, LeaseExactlyWhileRunning, Running
  <1>7. StartsNothing
    BY <1>1, <1>3 DEF StartsNothing, Running, relocationHoldsExecution
  <1>. QED  BY <1>5, <1>6, <1>7, StartsNothingKeepsFence DEF FenceInv

(***************************************************************************)
(* Node commands and maintenance windows leave the rows alone.             *)
(***************************************************************************)
LEMMA CommandKeepsInv ==
    ASSUME FenceInv, NEW j \in Jobs, DispatchCommand(j) \/ SettleCommand(j)
    PROVE  FenceInv'
  <1>1. UNCHANGED <<row, maint>> /\ cmd' \in [Jobs -> BOOLEAN]
    BY DEF FenceInv, TypeOK, DispatchCommand, SettleCommand
  <1>2. TypeOK' /\ LeaseExactlyWhileRunning'
    BY <1>1 DEF FenceInv, TypeOK, LeaseExactlyWhileRunning, Running
  <1>3. StartsNothing
    BY <1>1 DEF StartsNothing, Running, relocationHoldsExecution
  <1>. QED  BY <1>2, <1>3, StartsNothingKeepsFence DEF FenceInv

LEMMA WindowKeepsInv ==
    ASSUME FenceInv, NEW w \in Windows, WindowNext(w)
    PROVE  FenceInv'
  <1>1. UNCHANGED <<row, cmd>> /\ maint' \in [Windows -> WindowStates]
    BY DEF FenceInv, TypeOK, WindowNext, AdmitServerMaintenanceJob, ClaimServerMaintenanceJob,
           SettleServerMaintenanceJob, ExtendServerMaintenanceJob, WindowDeadline, WindowStates
  <1>2. TypeOK' /\ LeaseExactlyWhileRunning'
    BY <1>1 DEF FenceInv, TypeOK, LeaseExactlyWhileRunning, Running
  <1>3. OneExecutionPerTarget' /\ UnresolvedMoveFences'
    BY <1>1 DEF FenceInv, OneExecutionPerTarget, UnresolvedMoveFences, Running,
                relocationHoldsExecution, executionTargetsOverlap, Wide
  <1>4. \A v \in Windows : maint'[v] = "held" => maint[v] = "held" \/ ~NodeBusy(v)
    BY <1>1 DEF FenceInv, TypeOK, WindowNext, AdmitServerMaintenanceJob,
                ClaimServerMaintenanceJob, SettleServerMaintenanceJob,
                ExtendServerMaintenanceJob, WindowDeadline
  <1>5. WindowExcludesExecution'
    BY <1>1, <1>4 DEF FenceInv, WindowExcludesExecution, NodeBusy, Running, WindowCovers
  <1>. QED  BY <1>2, <1>3, <1>5 DEF FenceInv

-----------------------------------------------------------------------------
(***************************************************************************)
(* Every step of the store keeps the invariant.                            *)
(***************************************************************************)
LEMMA JobNextKeepsInv ==
    ASSUME FenceInv, NEW j \in Jobs, JobNext(j)
    PROVE  FenceInv'
  BY CreateJobKeepsInv, UpsertJobKeepsInv, StartJobKeepsInv, SyncJobSnapshotKeepsInv,
     CompleteJobKeepsInv, FailJobKeepsInv, ClaimWaitingKeepsInv, ReclaimKeepsInv,
     ResumeKeepsInv, ReclaimDestroyKeepsInv, RecoveryClaimKeepsInv, RenewRecoveryKeepsInv,
     FailRecoveryKeepsInv, ResolveKeepsInv, CommandKeepsInv DEF JobNext

LEMMA NextFence == FenceInv /\ [Next]_vars => FenceInv'
  <1>. SUFFICES ASSUME FenceInv, [Next]_vars PROVE FenceInv'
    OBVIOUS
  <1>1. CASE \E j \in Jobs : JobNext(j)
    BY <1>1, JobNextKeepsInv
  <1>2. CASE \E w \in Windows : WindowNext(w)
    BY <1>2, WindowKeepsInv
  <1>3. CASE \E s \in Stacks : CancelPendingStackOperations(s)
    BY <1>3, CancelPendingKeepsInv
  <1>4. CASE Tick
    BY <1>4, TickKeepsInv
  <1>5. CASE UNCHANGED vars
    <2>1. StartsNothing
      BY <1>5 DEF vars, StartsNothing, Running, relocationHoldsExecution
    <2>2. TypeOK' /\ LeaseExactlyWhileRunning'
      BY <1>5 DEF vars, FenceInv, TypeOK, LeaseExactlyWhileRunning, Running
    <2>. QED  BY <2>1, <2>2, StartsNothingKeepsFence DEF FenceInv
  <1>. QED  BY <1>1, <1>2, <1>3, <1>4, <1>5 DEF Next

(***************************************************************************)
(* The inductive invariant holds in every reachable state of the table.    *)
(***************************************************************************)
THEOREM FenceInvariant == Spec => []FenceInv
  BY InitFence, NextFence, PTL DEF Spec

(***************************************************************************)
(* Every reachable table is well typed.                                    *)
(***************************************************************************)
THEOREM TypeCorrect == Spec => []TypeOK
  BY FenceInvariant, PTL DEF FenceInv

(***************************************************************************)
(* At most one execution owns a stack, and a move owns both its servers.   *)
(***************************************************************************)
THEOREM ExecutionsDisjoint == Spec => []OneExecutionPerTarget
  BY FenceInvariant, PTL DEF FenceInv

(***************************************************************************)
(* An unresolved move fences its nodes in every state of its row.          *)
(***************************************************************************)
THEOREM MoveFenced == Spec => []UnresolvedMoveFences
  BY FenceInvariant, PTL DEF FenceInv

(***************************************************************************)
(* A row carries an owner and a lease exactly while it runs.               *)
(***************************************************************************)
THEOREM LeaseShape == Spec => []LeaseExactlyWhileRunning
  BY FenceInvariant, PTL DEF FenceInv

(***************************************************************************)
(* An uninterrupted maintenance hold excludes executions on its node.      *)
(***************************************************************************)
THEOREM WindowExclusive == Spec => []WindowExcludesExecution
  BY FenceInvariant, PTL DEF FenceInv

-----------------------------------------------------------------------------
(***************************************************************************)
(* An operation on row j writes no other row, and j gets hold of its       *)
(* targets only by a claim that found them free.                           *)
(***************************************************************************)
LEMMA JobNextOneRow ==
    ASSUME TypeOK, NEW j \in Jobs, JobNext(j)
    PROVE  /\ \A k \in Jobs \ {j} : row'[k] = row[k]
           /\ Running(j)' \/ relocationHoldsExecution(j)'
              => Running(j) \/ relocationHoldsExecution(j) \/ ~TargetBusy(j)
  <1>1. row \in [Jobs -> Rows] /\ row[j] \in Rows
    BY DEF TypeOK
  <1>2. CASE CreateJob(j)
    BY <1>1, <1>2 DEF CreateJob, Put, Running, relocationHoldsExecution, AbsentRow, Rows
  <1>3. CASE \E s \in {"pending", "completed"} : UpsertJob(j, s)
    BY <1>1, <1>3 DEF UpsertJob, Put, Running, relocationHoldsExecution, Rows
  <1>4. CASE \E o \in Owners, g \in Gens : StartJob(j, o, g)
    BY <1>1, <1>4 DEF StartJob, Put
  <1>5. CASE \E observed \in Observable, g \in Gens \cup {NoGen}, outcome \in Outcomes(j) :
                SyncJobSnapshot(j, observed, g, outcome)
    <2>. PICK observed \in Observable, g \in Gens \cup {NoGen}, outcome \in Outcomes(j) :
             SyncJobSnapshot(j, observed, g, outcome)
      BY <1>5
    <2>1. \A k \in Jobs \ {j} : row'[k] = row[k]
      BY <1>1 DEF SyncJobSnapshot, Put
    <2>2. row'[j].state = Projected(observed) /\ row'[j].outcome = outcome
      BY <1>1 DEF SyncJobSnapshot, Put, Rows
    <2>3. Projected(observed) = "running" => Running(j)
      BY DEF SyncJobSnapshot, SnapshotAdmitted, Projected
    <2>4. Type[j] = Relocation /\ outcome = "held" => Running(j) \/ relocationHoldsExecution(j)
      BY DEF Outcomes, relocationHoldsExecution
    <2>. QED  BY <2>1, <2>2, <2>3, <2>4 DEF Running, relocationHoldsExecution
  <1>6. CASE CompleteJob(j) \/ FailJob(j) \/ ClaimWaitingJobResume(j)
    BY <1>1, <1>6 DEF CompleteJob, FailJob, ClaimWaitingJobResume, Put, Running,
                      relocationHoldsExecution, Rows
  <1>7. CASE \E o \in Owners, slack \in Slacks :
                ReclaimExpiredJobExecution(j, o, slack) \/ ResumeExpiredJobExecution(j, o, slack)
    BY <1>1, <1>7 DEF ReclaimExpiredJobExecution, ResumeExpiredJobExecution, Put, Running,
                      relocationHoldsExecution, Rows
  <1>8. CASE \E slack \in Slacks : ReclaimStaleManagedDestroyRecovery(j, slack)
    BY <1>1, <1>8 DEF ReclaimStaleManagedDestroyRecovery, Put, Running,
                      relocationHoldsExecution, Rows
  <1>9. CASE \E o \in Owners : ClaimWorkloadRelocationRecovery(j, o)
    BY <1>1, <1>9 DEF ClaimWorkloadRelocationRecovery, Put
  <1>10. CASE \E o \in Owners : \/ RenewWorkloadRelocationRecovery(j, o)
                                \/ FailWorkloadRelocationRecovery(j, o)
                                \/ ResolveWorkloadRelocation(j, o)
    <2>. PICK o \in Owners : \/ RenewWorkloadRelocationRecovery(j, o)
                             \/ FailWorkloadRelocationRecovery(j, o)
                             \/ ResolveWorkloadRelocation(j, o)
      BY <1>10
    <2>1. CASE RenewWorkloadRelocationRecovery(j, o)
      BY <1>1, <2>1 DEF RenewWorkloadRelocationRecovery, RecoveringAs, Put, Running, Rows
    <2>2. CASE FailWorkloadRelocationRecovery(j, o)
      BY <1>1, <2>2 DEF FailWorkloadRelocationRecovery, RecoveringAs, Put, Running, Rows
    <2>3. CASE ResolveWorkloadRelocation(j, o)
      BY <1>1, <2>3 DEF ResolveWorkloadRelocation, Put, Running, relocationHoldsExecution, Rows
    <2>. QED  BY <2>1, <2>2, <2>3
  <1>11. CASE DispatchCommand(j) \/ SettleCommand(j)
    BY <1>11 DEF DispatchCommand, SettleCommand, Running, relocationHoldsExecution
  <1>. QED
    BY <1>2, <1>3, <1>4, <1>5, <1>6, <1>7, <1>8, <1>9, <1>10, <1>11 DEF JobNext

(***************************************************************************)
(* Supersession cancels rows that do not run, and the clock only ages      *)
(* leases: neither moves the fence.                                        *)
(***************************************************************************)
LEMMA BulkKeepsHolds ==
    ASSUME TypeOK, Tick \/ \E s \in Stacks : CancelPendingStackOperations(s)
    PROVE  \A j \in Jobs : /\ Running(j)' <=> Running(j)
                           /\ relocationHoldsExecution(j)' <=> relocationHoldsExecution(j)
  <1>1. row \in [Jobs -> Rows]
    BY DEF TypeOK
  <1>2. CASE Tick
    BY <1>1, <1>2 DEF Tick, Older, Running, relocationHoldsExecution, Rows
  <1>3. CASE \E s \in Stacks : CancelPendingStackOperations(s)
    <2>. PICK s \in Stacks : CancelPendingStackOperations(s)
      BY <1>3
    <2>1. ASSUME NEW j \in Jobs
          PROVE  \/ row'[j] = row[j]
                 \/ /\ row[j].state = "pending" /\ row'[j].state = "cancelled"
                    /\ row'[j].outcome = row[j].outcome
      <3>. DEFINE r == [row[j] EXCEPT !.state = "cancelled", !.owner = NoOwner, !.lease = NoLease]
      <3>1. row'[j] = row[j] \/ (row[j].state = "pending" /\ row'[j] = r)
        BY DEF CancelPendingStackOperations
      <3>2. r.state = "cancelled" /\ r.outcome = row[j].outcome
        BY <1>1 DEF Rows
      <3>. QED  BY <3>1, <3>2
    <2>. QED  BY <2>1 DEF Running, relocationHoldsExecution
  <1>. QED  BY <1>2, <1>3

(***************************************************************************)
(* Every step of the table takes or gives back at most one hold of         *)
(* ExecutionFence, and takes it against no conflicting holder.             *)
(***************************************************************************)
LEMMA NextTakesOneHold == FenceInv /\ [Next]_vars => [Fence!Next]_Held
  <1>. SUFFICES ASSUME FenceInv, [Next]_vars PROVE [Fence!Next]_Held
    OBVIOUS
  <1>. USE DEF Fence!Next, Fence!Acquire, Fence!Release
  <1>1. ASSUME NEW j \in Jobs, JobNext(j) PROVE [Fence!Next]_Held
    <2>1. \A k \in Jobs \ {j} : k \in Held' <=> k \in Held
      BY <1>1, JobNextOneRow DEF FenceInv, Held, Running, relocationHoldsExecution
    <2>2. CASE j \in Held /\ j \in Held'
      BY <2>1, <2>2 DEF Held
    <2>3. CASE j \notin Held /\ j \notin Held'
      BY <2>1, <2>3 DEF Held
    <2>4. CASE j \in Held /\ j \notin Held'
      <3>1. Held' = Held \ {j}
        BY <2>1, <2>4 DEF Held
      <3>. QED  BY <2>4, <3>1
    <2>5. CASE j \notin Held /\ j \in Held'
      <3>1. Held' = Held \cup {j}
        BY <2>1, <2>5 DEF Held
      <3>2. ~TargetBusy(j)
        BY <1>1, <2>5, JobNextOneRow DEF FenceInv, Held
      <3>3. \A k \in Held : ~executionTargetsOverlap(j, k)
        BY <2>5, <3>2 DEF TargetBusy, Held
      <3>. QED  BY <2>5, <3>1, <3>3
    <2>. QED  BY <2>2, <2>3, <2>4, <2>5
  <1>2. CASE \E w \in Windows : WindowNext(w)
    BY <1>2 DEF WindowNext, AdmitServerMaintenanceJob, ClaimServerMaintenanceJob,
       SettleServerMaintenanceJob, ExtendServerMaintenanceJob, WindowDeadline, Held,
       Running, relocationHoldsExecution
  <1>3. CASE Tick \/ \E s \in Stacks : CancelPendingStackOperations(s)
    <2>1. \A j \in Jobs : j \in Held' <=> j \in Held
      BY <1>3, BulkKeepsHolds DEF FenceInv, Held
    <2>. QED  BY <2>1 DEF Held
  <1>4. CASE UNCHANGED vars
    BY <1>4 DEF vars, Held, Running, relocationHoldsExecution
  <1>. QED  BY <1>1, <1>2, <1>3, <1>4 DEF Next

(***************************************************************************)
(* The job table implements the lock of ExecutionFence: over crashes,      *)
(* reclaims, recoveries and supersessions, holds are taken one at a time   *)
(* and never against a conflicting one (refuseExecutionTargetConflictTx).  *)
(***************************************************************************)
THEOREM FenceImplemented == Spec => ImplementsFence
  <1>1. Init => Fence!Init
    BY DEF Init, Fence!Init, Held, Running, relocationHoldsExecution, AbsentRow
  <1>2. FenceInv /\ [Next]_vars => [Fence!Next]_Held
    BY NextTakesOneHold
  <1>. QED  BY <1>1, <1>2, FenceInvariant, PTL DEF Spec, ImplementsFence, Fence!Spec

(***************************************************************************)
(* A settled row runs again only as the recovery of an unresolved move     *)
(* whose targets are free: no snapshot, reclaim or resume restarts it      *)
(* (ClaimWorkloadRelocationRecovery).                                      *)
(***************************************************************************)
THEOREM SettledNotRestarted == Spec => SettledRowRestartsOnlyToRecover
  <1>. DEFINE Restart(j) == row[j].state \in Terminal /\ row'[j].state = "running"
              Recovers(j) == relocationHoldsExecution(j) /\ row'[j].step = "recovery" /\ ~TargetBusy(j)
  <1>1. ASSUME FenceInv, [Next]_vars, NEW j \in Jobs, Restart(j) PROVE Recovers(j)
    <2>1. ASSUME NEW k \in Jobs, JobNext(k) PROVE Recovers(j)
      <3>1. row[j] \in Rows /\ row \in [Jobs -> Rows] /\ ~Running(j)
        BY <1>1 DEF FenceInv, TypeOK, Terminal, Running
      <3>2. k = j
        BY <1>1, <2>1, <3>1, JobNextOneRow DEF FenceInv, Running
      <3>3. CASE \E o \in Owners : ClaimWorkloadRelocationRecovery(j, o)
        BY <3>1, <3>3 DEF ClaimWorkloadRelocationRecovery, Put, Rows
      <3>4. CASE \/ CreateJob(j) \/ CompleteJob(j) \/ FailJob(j) \/ ClaimWaitingJobResume(j)
                 \/ DispatchCommand(j) \/ SettleCommand(j)
        BY <1>1, <3>1, <3>4 DEF CreateJob, CompleteJob, FailJob, ClaimWaitingJobResume,
           DispatchCommand, SettleCommand, Running, Terminal
      <3>5. CASE \E t \in {"pending", "completed"} : UpsertJob(j, t)
        BY <1>1, <3>1, <3>5 DEF UpsertJob, Put, Rows
      <3>6. CASE \E o \in Owners, g \in Gens : StartJob(j, o, g)
        BY <1>1, <3>6 DEF StartJob, Terminal
      <3>7. CASE \E observed \in Observable, g \in Gens \cup {NoGen}, outcome \in Outcomes(j) :
                    SyncJobSnapshot(j, observed, g, outcome)
        BY <1>1, <3>7 DEF SyncJobSnapshot, SnapshotAdmitted, Terminal
      <3>8. CASE \/ \E o \in Owners, slack \in Slacks :
                       \/ ReclaimExpiredJobExecution(j, o, slack)
                       \/ ResumeExpiredJobExecution(j, o, slack)
                 \/ \E slack \in Slacks : ReclaimStaleManagedDestroyRecovery(j, slack)
        BY <3>1, <3>8 DEF ReclaimExpiredJobExecution, ResumeExpiredJobExecution,
           ReclaimStaleManagedDestroyRecovery
      <3>9. CASE \E o \in Owners : \/ RenewWorkloadRelocationRecovery(j, o)
                                   \/ FailWorkloadRelocationRecovery(j, o)
        BY <3>1, <3>9 DEF RenewWorkloadRelocationRecovery, FailWorkloadRelocationRecovery,
           RecoveringAs
      <3>10. CASE \E o \in Owners : ResolveWorkloadRelocation(j, o)
        BY <1>1, <3>1, <3>10 DEF ResolveWorkloadRelocation, Put, Rows
      <3>. QED
        BY <2>1, <3>2, <3>3, <3>4, <3>5, <3>6, <3>7, <3>8, <3>9, <3>10 DEF JobNext
    <2>2. CASE \E w \in Windows : WindowNext(w)
      BY <1>1, <2>2 DEF WindowNext, AdmitServerMaintenanceJob, ClaimServerMaintenanceJob,
         SettleServerMaintenanceJob, ExtendServerMaintenanceJob, WindowDeadline, Terminal
    <2>3. CASE Tick \/ \E s \in Stacks : CancelPendingStackOperations(s)
      BY <1>1, <2>3, BulkKeepsHolds DEF FenceInv, Running, Terminal
    <2>4. CASE UNCHANGED vars
      BY <1>1, <2>4 DEF vars, Terminal
    <2>. QED  BY <1>1, <2>1, <2>2, <2>3, <2>4 DEF Next
  <1>2. FenceInv /\ [Next]_vars => [\A j \in Jobs : Restart(j) => Recovers(j)]_vars
    BY <1>1
  <1>. QED  BY <1>2, FenceInvariant, PTL DEF Spec, SettledRowRestartsOnlyToRecover
=============================================================================
