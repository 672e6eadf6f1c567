---------------------- MODULE ServerMaintenance_proofs ----------------------
(***************************************************************************)
(* Proofs about ServerMaintenance, for any number of replicas and any      *)
(* deadlines: the state is well typed, one command is sent per job, a      *)
(* settled job is never reopened, and a completed one did what it asked.   *)
(***************************************************************************)
EXTENDS ServerMaintenance, TLAPS

-----------------------------------------------------------------------------
(* Deadlines.                                                              *)

(***************************************************************************)
(* Every deadline a step may store fits the type of the row: Longest is an *)
(* upper bound of the durations the code adds to its clock.                *)
(***************************************************************************)
LEMMA LongestBounds ==
    /\ Longest \in Nat
    /\ {Execution, Horizon, Extension, Grace, Queueing} \subseteq 0..Longest
<1> DEFINE D == {Execution, Horizon, Extension, Grace, Queueing}
<1>1. D \subseteq Nat
  BY MaintenanceAssumption
<1>2. \E n \in D : \A m \in D : m <= n
  <2>1. \A a, b \in Nat : a <= b \/ b <= a
    OBVIOUS
  <2>2. \A a, b, c \in Nat : a <= b /\ b <= c => a <= c
    OBVIOUS
  <2> QED
    BY <1>1, <2>1, <2>2
<1>3. Longest \in D /\ \A m \in D : m <= Longest
  BY <1>2 DEF Longest
<1> QED
  BY <1>1, <1>3

(***************************************************************************)
(* A countdown stays within its bound.                                     *)
(***************************************************************************)
LEMMA LessBounds ==
    ASSUME NEW n \in Nat, NEW k \in 0..n PROVE Less(k) \in 0..n
BY DEF Less

(***************************************************************************)
(* The extension of a waiting apply is at most the extension constant and  *)
(* at most what is left of MaxApplyDuration (extendedApplyDeadline).       *)
(***************************************************************************)
LEMMA ExtensionBounds ==
    ASSUME TypeOK PROVE extendedApplyDeadline \in 0..Longest
<1>1. job.budget \in Nat /\ Extension \in 0..Longest /\ Longest \in Nat
  BY LongestBounds, MaintenanceAssumption DEF TypeOK, Jobs
<1> QED
  BY <1>1 DEF extendedApplyDeadline

-----------------------------------------------------------------------------
(* Types.                                                                  *)

LEMMA InitTyped == Init => TypeOK
<1> SUFFICES ASSUME Init PROVE TypeOK
  OBVIOUS
<1> USE LongestBounds, MaintenanceAssumption
<1>1. job \in Jobs
  BY DEF Init, Jobs, JobStates, Done
<1>2. cmd \in Commands /\ host \in Hosts
  BY DEF Init, Commands, Hosts
<1>3. Idle \in Steps
  BY DEF Idle, Steps, JobStates, Done
<1> QED
  BY <1>1, <1>2, <1>3 DEF Init, TypeOK

(***************************************************************************)
(* What a step may become: another well-typed step.                        *)
(***************************************************************************)
LEMMA GotoTyped ==
    ASSUME TypeOK, NEW r \in Runners, NEW s \in Steps, Goto(r, s)
    PROVE step' \in [Runners -> Steps]
BY DEF TypeOK, Goto

LEMMA StoreTyped ==
    ASSUME TypeOK, NEW r \in Runners, NEW to \in JobStates, NEW left \in 0..Longest,
           NEW grace \in BOOLEAN, Store(r, to, left, grace)
    PROVE step' \in [Runners -> Steps]
<1>1. step[r] \in Steps
  BY DEF TypeOK
<1>2. [step[r] EXCEPT !.pc = "write", !.to = to, !.left = left, !.grace = grace] \in Steps
  BY <1>1 DEF Steps
<1> QED
  BY <1>2, GotoTyped DEF Store

LEMMA FailTyped ==
    ASSUME TypeOK, NEW r \in Runners, Fail(r)
    PROVE step' \in [Runners -> Steps]
<1>1. step[r] \in Steps
  BY DEF TypeOK
<1>2. /\ step[r].left \in 0..Longest /\ step[r].grace \in BOOLEAN
      /\ "failed" \in JobStates
  BY <1>1 DEF Steps, JobStates, Done
<1> QED
  BY <1>2, StoreTyped DEF Fail

(***************************************************************************)
(* Every step of a replica, of the agent and of the node keeps the types.  *)
(***************************************************************************)
LEMMA NextTyped == TypeOK /\ [Next]_vars => TypeOK'
<1> SUFFICES ASSUME TypeOK, [Next]_vars PROVE TypeOK'
  OBVIOUS
<1> USE LongestBounds, MaintenanceAssumption
<1>idle. Idle \in Steps
  BY DEF Idle, Steps, JobStates, Done
<1>saw. \A pc \in {"claim", "send", "reattach", "withdraw", "poll", "watch", "write"} :
          Saw(pc) \in Steps
  BY DEF TypeOK, Jobs, Saw, Steps
<1>row. /\ job.left \in 0..Longest /\ job.budget \in 0..MaxApply /\ job.state \in JobStates
        /\ host.away \in 0..Return
  BY DEF TypeOK, Jobs, Hosts
<1>ext. extendedApplyDeadline \in 0..Longest
  BY ExtensionBounds
<1>st. \A r \in Runners : /\ step[r] \in Steps /\ step[r].left \in 0..Longest
                          /\ step[r].grace \in BOOLEAN /\ step[r].to \in JobStates
                          /\ step[r].state \in JobStates
  BY DEF TypeOK, Steps
<1>names. {"queued", "running", "waiting", "awaiting_node_return", "completed", "failed",
           "cancelled"} \subseteq JobStates
  BY DEF JobStates, Done
<1>full. Return \in 0..Return
  BY DEF MaintenanceAssumption
<1>1. ASSUME NEW r \in Runners, Sweep(r) PROVE TypeOK'
  <2>1. [Saw("write") EXCEPT !.to = "failed"] \in Steps
    BY <1>saw, <1>names DEF Steps
  <2>2. step' \in [Runners -> Steps]
    BY <1>1, <1>saw, <2>1, GotoTyped DEF Sweep
  <2> QED
    BY <1>1, <2>2 DEF TypeOK, Sweep
<1>2. ASSUME NEW r \in Runners, Claim(r) PROVE TypeOK'
  <2>1. [Saw("send") EXCEPT !.state = "running", !.left = Execution] \in Steps
    BY <1>saw, <1>names DEF Steps
  <2>2. step' \in [Runners -> Steps]
    BY <1>2, <2>1, <1>idle, GotoTyped DEF Claim
  <2>3. job' \in Jobs
    BY <1>2, <1>names DEF TypeOK, Jobs, Claim
  <2> QED
    BY <1>2, <2>2, <2>3 DEF TypeOK, Claim
<1>3. ASSUME NEW r \in Runners, ClaimRefused(r) PROVE TypeOK'
  <2>1. step' \in [Runners -> Steps]
    BY <1>3, <1>idle, GotoTyped, FailTyped DEF ClaimRefused
  <2> QED
    BY <1>3, <2>1 DEF TypeOK, ClaimRefused
<1>4. ASSUME NEW r \in Runners, Send(r) PROVE TypeOK'
  <2>1. [step[r] EXCEPT !.pc = "await"] \in Steps
    BY <1>st DEF Steps
  <2>2. step' \in [Runners -> Steps]
    BY <1>4, <2>1, GotoTyped, FailTyped DEF Send
  <2>3. cmd' \in Commands
    BY <1>4 DEF TypeOK, Send, Commands
  <2> QED
    BY <1>4, <2>2, <2>3 DEF TypeOK, Send
<1>5. ASSUME NEW r \in Runners, Outcome(r) PROVE TypeOK'
  <2>1. step' \in [Runners -> Steps]
    BY <1>5, <1>st, <1>ext, <1>names, StoreTyped, FailTyped DEF Outcome
  <2> QED
    BY <1>5, <2>1 DEF TypeOK, Outcome
<1>6. ASSUME NEW r \in Runners, ReadError(r) PROVE TypeOK'
  BY <1>6, FailTyped DEF TypeOK, ReadError
<1>7. ASSUME NEW r \in Runners, SenderGivesUp(r) PROVE TypeOK'
  <2>1. step' \in [Runners -> Steps]
    BY <1>7, <1>idle, GotoTyped DEF SenderGivesUp
  <2>2. cmd' \in Commands
    BY <1>7 DEF TypeOK, SenderGivesUp, Withdrawn, Commands
  <2> QED
    BY <1>7, <2>1, <2>2 DEF TypeOK, SenderGivesUp
<1>8. ASSUME NEW r \in Runners, ReattachLapses(r) PROVE TypeOK'
  <2>1. [step[r] EXCEPT !.pc = "withdraw"] \in Steps
    BY <1>st DEF Steps
  <2>2. step' \in [Runners -> Steps]
    BY <1>8, <2>1, GotoTyped DEF ReattachLapses
  <2> QED
    BY <1>8, <2>2 DEF TypeOK, ReattachLapses
<1>9. ASSUME NEW r \in Runners, Withdraw(r) PROVE TypeOK'
  <2>1. step' \in [Runners -> Steps]
    BY <1>9, <1>st, StoreTyped, FailTyped DEF Withdraw
  <2>2. cmd' \in Commands
    BY <1>9 DEF TypeOK, Withdraw, Withdrawn, Commands
  <2> QED
    BY <1>9, <2>1, <2>2 DEF TypeOK, Withdraw
<1>10. ASSUME NEW r \in Runners, Write(r) PROVE TypeOK'
  <2>1. step' \in [Runners -> Steps]
    BY <1>10, <1>idle, GotoTyped DEF Write
  <2>2. job' \in Jobs
    BY <1>10, <1>st DEF TypeOK, Jobs, Write
  <2> QED
    BY <1>10, <2>1, <2>2 DEF TypeOK, Write
<1>11. ASSUME NEW r \in Runners, Poll(r) PROVE TypeOK'
  <2>1. step' \in [Runners -> Steps]
    BY <1>11, <1>st, <1>ext, <1>idle, <1>names, GotoTyped, StoreTyped, FailTyped DEF Poll
  <2> QED
    BY <1>11, <2>1 DEF TypeOK, Poll
<1>12. ASSUME NEW r \in Runners, Watch(r) PROVE TypeOK'
  <2>1. step' \in [Runners -> Steps]
    BY <1>12, <1>st, <1>idle, <1>names, GotoTyped, StoreTyped, FailTyped DEF Watch
  <2> QED
    BY <1>12, <2>1 DEF TypeOK, Watch
<1>13. ASSUME NEW r \in Runners, ServerRemoved(r) PROVE TypeOK'
  BY <1>13, FailTyped DEF TypeOK, ServerRemoved
<1>14. ASSUME NEW r \in Runners, CutShort(r) PROVE TypeOK'
  BY <1>14, <1>idle, GotoTyped DEF TypeOK, CutShort
<1>15. CASE CancelQueued
  <2>1. job' \in Jobs
    BY <1>15, <1>names DEF TypeOK, Jobs, CancelQueued
  <2> QED
    BY <1>15, <2>1 DEF TypeOK, CancelQueued
<1>16. CASE Deliver
  BY <1>16 DEF TypeOK, Deliver, Commands
<1>17. ASSUME NEW outcome \in {"ok", "running", "bad", "unknown"}, Report(outcome) PROVE TypeOK'
  <2>1. cmd' \in Commands
    BY <1>17 DEF Report, Commands
  <2>2. \A b \in BOOLEAN : [host EXCEPT !.unit = b, !.away = Return] \in Hosts
    BY <1>full DEF TypeOK, Hosts
  <2>3. host' \in Hosts
    BY <1>17, <2>2 DEF Report
  <2> QED
    BY <1>17, <2>1, <2>3 DEF TypeOK, Report
<1>17a. CASE ResolveUnknown
  BY <1>17a DEF TypeOK, ResolveUnknown, Commands
<1>18. CASE UnitEnds
  <2>1. host' \in Hosts
    BY <1>18 DEF TypeOK, UnitEnds, Hosts
  <2> QED
    BY <1>18, <2>1 DEF TypeOK, UnitEnds
<1>19. CASE NodeMoves
  <2>0. /\ [host EXCEPT !.connected = FALSE, !.away = Return] \in Hosts
        /\ [host EXCEPT !.connected = TRUE] \in Hosts
        /\ [host EXCEPT !.connected = TRUE, !.boot = "new"] \in Hosts
    BY <1>full DEF TypeOK, Hosts
  <2>1. host' \in Hosts
    BY <1>19, <2>0 DEF NodeMoves
  <2> QED
    BY <1>19, <2>1 DEF TypeOK, NodeMoves
<1>20. CASE Tick
  <2>1. job' \in Jobs
    BY <1>20, <1>row, LessBounds DEF TypeOK, Jobs, Tick
  <2>2. host' \in Hosts
    BY <1>20, <1>row, LessBounds DEF TypeOK, Hosts, Tick
  <2>3. \A r \in Runners : [step[r] EXCEPT !.left = Less(@)] \in Steps
    BY <1>st, LessBounds DEF Steps
  <2> QED
    BY <1>20, <2>1, <2>2, <2>3 DEF TypeOK, Tick
<1>21. CASE UNCHANGED vars
  BY <1>21 DEF TypeOK, vars
<1> QED
  BY <1>1, <1>2, <1>3, <1>4, <1>5, <1>6, <1>7, <1>8, <1>9, <1>10, <1>11, <1>12, <1>13,
     <1>14, <1>15, <1>16, <1>17, <1>17a, <1>18, <1>19, <1>20, <1>21 DEF Next, RunnerNext

(***************************************************************************)
(* Type correctness: every reachable row, command, node and step is well   *)
(* typed; in particular no deadline exceeds the durations of the code.     *)
(***************************************************************************)
THEOREM MaintenanceTyped == Spec => []TypeOK
<1>1. Init => TypeOK
  BY InitTyped
<1>2. TypeOK /\ [Next]_vars => TypeOK'
  BY NextTyped
<1> QED
  BY <1>1, <1>2, PTL DEF Spec

-----------------------------------------------------------------------------
(* One sender.  OneSender alone is not inductive: a second claim is refused *)
(* because the first one took the row out of "queued", so the invariant     *)
(* must say that no step ever takes it back there.                          *)

Sending(r) == At(r, "send") \/ At(r, "await")

\* A job whose command is being sent, or was sent, is no longer queued.
Claimed == (cmd # "none" \/ \E r \in Runners : Sending(r)) => job.state # "queued"

\* The replica about to send is alone, and nothing was sent.
Alone == \A r \in Runners : At(r, "send") =>
            cmd = "none" /\ \A q \in Runners \ {r} : ~Sending(q)

\* No step stores "queued", and none works on a row it read as settled.
NoReopening == \A r \in Runners :
    /\ At(r, "write") => step[r].to # "queued"
    /\ At(r, "withdraw") \/ At(r, "reattach") => step[r].state # "queued"
    /\ ~At(r, "idle") => step[r].state \notin Done

SendInv == Claimed /\ Alone /\ NoReopening

LEMMA InitSend == Init => SendInv
BY DEF Init, SendInv, Claimed, Alone, NoReopening, Sending, At, Idle

(***************************************************************************)
(* A step of one replica that sends nothing, and stores no "queued".       *)
(***************************************************************************)
LEMMA QuietStep ==
    ASSUME TypeOK, SendInv, NEW r \in Runners, NEW s \in Steps, Goto(r, s),
           s.pc \notin {"send", "await"},
           s.pc = "write" => s.to # "queued",
           s.pc \in {"withdraw", "reattach"} => s.state # "queued",
           s.pc # "idle" => s.state \notin Done,
           (cmd = "none") <=> (cmd' = "none"),
           job'.state = "queued" => job.state = "queued"
    PROVE SendInv'
<1>1. step' = [step EXCEPT ![r] = s] /\ step \in [Runners -> Steps]
  BY DEF Goto, TypeOK
<1>2. step'[r] = s /\ \A q \in Runners \ {r} : step'[q] = step[q]
  BY <1>1
<1>3. \A q \in Runners : Sending(q)' => Sending(q) /\ q # r
  BY <1>2 DEF Sending, At
<1>4. Claimed'
  BY <1>3 DEF SendInv, Claimed
<1>5. Alone'
  BY <1>2, <1>3 DEF SendInv, Alone, Sending, At
<1>6. NoReopening'
  BY <1>2 DEF SendInv, NoReopening, At
<1> QED
  BY <1>4, <1>5, <1>6 DEF SendInv

(***************************************************************************)
(* A step that moves no replica.                                           *)
(***************************************************************************)
LEMMA QuietElsewhere ==
    ASSUME SendInv,
           \A q \in Runners : /\ step'[q].pc = step[q].pc /\ step'[q].to = step[q].to
                              /\ step'[q].state = step[q].state,
           (cmd = "none") <=> (cmd' = "none"),
           job'.state = "queued" => job.state = "queued"
    PROVE SendInv'
<1>1. \A q \in Runners : Sending(q)' <=> Sending(q)
  BY DEF Sending, At
<1>2. Claimed'
  BY <1>1 DEF SendInv, Claimed
<1>3. Alone'
  BY <1>1 DEF SendInv, Alone, At
<1>4. NoReopening'
  BY DEF SendInv, NoReopening, At
<1> QED
  BY <1>2, <1>3, <1>4 DEF SendInv

LEMMA QuietStore ==
    ASSUME TypeOK, SendInv, NEW r \in Runners, NEW to \in JobStates, NEW left \in 0..Longest,
           NEW grace \in BOOLEAN, Store(r, to, left, grace), to # "queued", ~At(r, "idle"),
           (cmd = "none") <=> (cmd' = "none"), UNCHANGED job
    PROVE SendInv'
<1> DEFINE s == [step[r] EXCEPT !.pc = "write", !.to = to, !.left = left, !.grace = grace]
<1>1. step[r] \in Steps /\ step[r].state \notin Done
  BY DEF TypeOK, SendInv, NoReopening
<1>2. s \in Steps /\ s.pc = "write" /\ s.to = to /\ s.state = step[r].state
  BY <1>1 DEF Steps
<1>3. Goto(r, s)
  BY DEF Store
<1> HIDE DEF s
<1> QED
  BY <1>1, <1>2, <1>3, QuietStep

LEMMA QuietFail ==
    ASSUME TypeOK, SendInv, NEW r \in Runners, Fail(r), ~At(r, "idle"),
           (cmd = "none") <=> (cmd' = "none"), UNCHANGED job
    PROVE SendInv'
<1>1. step[r].left \in 0..Longest /\ step[r].grace \in BOOLEAN /\ "failed" \in JobStates
  BY DEF TypeOK, Steps, JobStates, Done
<1>2. Store(r, "failed", step[r].left, step[r].grace)
  BY DEF Fail
<1> QED
  BY <1>1, <1>2, QuietStore

LEMMA QuietIdle ==
    ASSUME TypeOK, SendInv, NEW r \in Runners, Goto(r, Idle),
           (cmd = "none") <=> (cmd' = "none"),
           job'.state = "queued" => job.state = "queued"
    PROVE SendInv'
<1>1. Idle \in Steps /\ Idle.pc = "idle"
  BY LongestBounds DEF Idle, Steps, JobStates, Done
<1> QED
  BY <1>1, QuietStep

(***************************************************************************)
(* The invariant is inductive.  Only Claim and Send bring a replica to     *)
(* "send" or "await": Claim from a queued row, Send from "send".           *)
(***************************************************************************)
LEMMA NextSend == TypeOK /\ SendInv /\ [Next]_vars => SendInv'
<1> SUFFICES ASSUME TypeOK, SendInv, [Next]_vars PROVE SendInv'
  OBVIOUS
<1> USE LongestBounds, MaintenanceAssumption
<1>names. {"queued", "running", "waiting", "awaiting_node_return", "completed", "failed",
           "cancelled"} \subseteq JobStates
  BY DEF JobStates, Done
<1>done. "running" \notin Done
  BY DEF Done
<1>row. job \in Jobs /\ job.state \in JobStates /\ job.left \in 0..Longest
  BY DEF TypeOK, Jobs
<1>ext. extendedApplyDeadline \in 0..Longest
  BY ExtensionBounds
<1>st. \A r \in Runners : /\ step[r] \in Steps /\ step[r].left \in 0..Longest
                          /\ step[r].grace \in BOOLEAN /\ step[r].to \in JobStates
                          /\ step[r].state \in JobStates
  BY DEF TypeOK, Steps
<1>saw. \A pc \in {"claim", "send", "reattach", "withdraw", "poll", "watch", "write"} :
          /\ Saw(pc) \in Steps /\ Saw(pc).pc = pc /\ Saw(pc).state = job.state
  BY DEF TypeOK, Jobs, Saw, Steps
<1>1. ASSUME NEW r \in Runners, Sweep(r) PROVE SendInv'
  <2> DEFINE late == [Saw("write") EXCEPT !.to = "failed"]
  <2>1. late \in Steps /\ late.pc = "write" /\ late.to = "failed" /\ late.state = job.state
    BY <1>saw, <1>names DEF Steps
  <2>2. job.state \notin Done /\ UNCHANGED <<job, cmd>>
    BY <1>1 DEF Sweep
  <2>3. ASSUME NEW s \in Steps, Goto(r, s), s.state = job.state,
               s.pc \notin {"send", "await"},
               s.pc = "write" => s.to # "queued",
               s.pc \in {"withdraw", "reattach"} => job.state # "queued"
        PROVE SendInv'
    BY <2>2, <2>3, QuietStep
  <2>4. CASE job.state = "queued" /\ job.left > 0
    <3>1. Goto(r, Saw("claim"))
      BY <1>1, <2>4 DEF Sweep
    <3> QED
      BY <3>1, <2>3, <1>saw
  <2>5. CASE job.state = "queued" /\ job.left = 0
    <3>1. Goto(r, late)
      BY <1>1, <2>5 DEF Sweep
    <3> HIDE DEF late
    <3> QED
      BY <3>1, <2>1, <2>3
  <2>6. CASE job.state = "running"
    <3>1. Goto(r, Saw("reattach"))
      BY <1>1, <2>6 DEF Sweep
    <3> QED
      BY <3>1, <2>3, <2>6, <1>saw
  <2>7. CASE job.state = "waiting" /\ job.left > 0
    <3>1. Goto(r, Saw("poll"))
      BY <1>1, <2>7 DEF Sweep
    <3> QED
      BY <3>1, <2>3, <1>saw
  <2>8. CASE job.state = "waiting" /\ job.left = 0
    <3>1. Goto(r, Saw("withdraw"))
      BY <1>1, <2>8 DEF Sweep
    <3> QED
      BY <3>1, <2>3, <2>8, <1>saw
  <2>9. CASE job.state \notin {"queued", "running", "waiting"}
    <3>1. Goto(r, Saw("watch"))
      BY <1>1, <2>9 DEF Sweep
    <3> QED
      BY <3>1, <2>3, <1>saw
  <2> QED
    BY <1>row, <2>4, <2>5, <2>6, <2>7, <2>8, <2>9
<1>2. ASSUME NEW r \in Runners, Claim(r) PROVE SendInv'
  <2> DEFINE s == [Saw("send") EXCEPT !.state = "running", !.left = Execution]
  <2>1. s \in Steps /\ s.pc = "send" /\ s.state = "running"
    BY <1>saw, <1>names DEF Steps
  <2>2. job'.state = "running" /\ UNCHANGED cmd /\ job.state = "queued"
    BY <1>2, <1>row DEF Claim, Jobs
  <2>3. CASE Goto(r, Idle)
    BY <2>2, <2>3, QuietIdle
  <2>4. CASE Goto(r, s)
    <3> HIDE DEF s
    <3>1. step'[r] = s /\ \A q \in Runners \ {r} : step'[q] = step[q]
      BY <2>4, <2>1 DEF Goto, TypeOK
    <3>2. cmd = "none" /\ \A q \in Runners : ~Sending(q)
      BY <2>2 DEF SendInv, Claimed
    <3>3. Claimed'
      BY <2>2 DEF Claimed
    <3>4. Alone'
      BY <3>1, <3>2, <2>2 DEF Alone, Sending, At
    <3>5. NoReopening'
      BY <3>1, <2>1, <1>done DEF SendInv, NoReopening, At
    <3> QED
      BY <3>3, <3>4, <3>5 DEF SendInv
  <2> QED
    BY <1>2, <2>3, <2>4 DEF Claim
<1>3. ASSUME NEW r \in Runners, ClaimRefused(r) PROVE SendInv'
  <2>1. UNCHANGED <<job, cmd>> /\ ~At(r, "idle") /\ (Goto(r, Idle) \/ Fail(r))
    BY <1>3 DEF ClaimRefused, At
  <2> QED
    BY <2>1, QuietIdle, QuietFail
<1>4. ASSUME NEW r \in Runners, Send(r) PROVE SendInv'
  <2> DEFINE s == [step[r] EXCEPT !.pc = "await"]
  <2>1. s \in Steps /\ s.pc = "await" /\ s.state = step[r].state
    BY <1>st DEF Steps
  <2>2. At(r, "send") /\ ~At(r, "idle") /\ UNCHANGED job
    BY <1>4 DEF Send, At
  <2>3. CASE UNCHANGED cmd /\ Fail(r)
    BY <2>2, <2>3, QuietFail
  <2>4. CASE cmd' = "queued" /\ Goto(r, s)
    <3> HIDE DEF s
    <3>1. step'[r] = s /\ \A q \in Runners \ {r} : step'[q] = step[q]
      BY <2>4, <2>1 DEF Goto, TypeOK
    <3>2. \A q \in Runners : ~At(q, "send")'
      BY <3>1, <2>1, <2>2 DEF SendInv, Alone, Sending, At
    <3>3. Claimed'
      BY <2>2 DEF SendInv, Claimed, Sending
    <3>4. Alone'
      BY <3>2 DEF Alone
    <3>5. NoReopening'
      BY <3>1, <2>1, <2>2 DEF SendInv, NoReopening, At
    <3> QED
      BY <3>3, <3>4, <3>5 DEF SendInv
  <2> QED
    BY <1>4, <2>3, <2>4 DEF Send
<1>5. ASSUME NEW r \in Runners, Outcome(r) PROVE SendInv'
  <2>1. UNCHANGED <<job, cmd>> /\ ~At(r, "idle")
    BY <1>5 DEF Outcome, Awaiting, At
  <2>2. \/ \E to \in JobStates \ {"queued"}, left \in 0..Longest : Store(r, to, left, step[r].grace)
        \/ Fail(r)
    BY <1>5, <1>st, <1>ext, <1>names DEF Outcome
  <2> QED
    BY <2>1, <2>2, <1>st, QuietStore, QuietFail
<1>6. ASSUME NEW r \in Runners, ReadError(r) PROVE SendInv'
  BY <1>6, QuietFail DEF ReadError, Awaiting, At
<1>7. ASSUME NEW r \in Runners, SenderGivesUp(r) PROVE SendInv'
  BY <1>7, QuietIdle DEF SenderGivesUp, Withdrawn
<1>8. ASSUME NEW r \in Runners, ReattachLapses(r) PROVE SendInv'
  <2> DEFINE s == [step[r] EXCEPT !.pc = "withdraw"]
  <2>1. s \in Steps /\ s.pc = "withdraw" /\ s.state = step[r].state
    BY <1>st DEF Steps
  <2>2. Goto(r, s) /\ UNCHANGED <<job, cmd>> /\ At(r, "reattach") /\ ~At(r, "idle")
    BY <1>8 DEF ReattachLapses, At
  <2>3. step[r].state \notin Done
    BY <2>2 DEF SendInv, NoReopening
  <2>4. step[r].state # "queued"
    BY <2>2 DEF SendInv, NoReopening
  <2> HIDE DEF s
  <2> QED
    BY <2>1, <2>2, <2>3, <2>4, QuietStep
<1>9. ASSUME NEW r \in Runners, Withdraw(r) PROVE SendInv'
  <2>1. UNCHANGED job /\ ~At(r, "idle") /\ ((cmd = "none") <=> (cmd' = "none"))
    BY <1>9 DEF Withdraw, Withdrawn, At
  <2>2. step[r].state # "queued" /\ Grace \in 0..Longest
    BY <1>9 DEF Withdraw, SendInv, NoReopening
  <2>3. Store(r, step[r].state, Grace, TRUE) \/ Fail(r)
    BY <1>9 DEF Withdraw
  <2> QED
    BY <2>1, <2>2, <2>3, <1>st, QuietStore, QuietFail
<1>10. ASSUME NEW r \in Runners, Write(r) PROVE SendInv'
  <2>1. Goto(r, Idle) /\ UNCHANGED cmd
    BY <1>10 DEF Write
  <2>2. step[r].to # "queued"
    BY <1>10 DEF Write, SendInv, NoReopening
  <2>3. job' = job \/ job'.state = step[r].to
    BY <1>10, <1>row DEF Write, Jobs
  <2> QED
    BY <2>1, <2>2, <2>3, QuietIdle
<1>11. ASSUME NEW r \in Runners, Poll(r) PROVE SendInv'
  <2>1. UNCHANGED <<job, cmd>> /\ ~At(r, "idle")
    BY <1>11 DEF Poll, At
  <2>2. \/ \E to \in JobStates \ {"queued"}, left \in 0..Longest : Store(r, to, left, step[r].grace)
        \/ Fail(r) \/ Goto(r, Idle)
    BY <1>11, <1>st, <1>ext, <1>names DEF Poll
  <2> QED
    BY <2>1, <2>2, <1>st, QuietStore, QuietFail, QuietIdle
<1>12. ASSUME NEW r \in Runners, Watch(r) PROVE SendInv'
  <2>1. UNCHANGED <<job, cmd>> /\ ~At(r, "idle")
    BY <1>12 DEF Watch, At
  <2>2. Store(r, "completed", step[r].left, step[r].grace) \/ Fail(r) \/ Goto(r, Idle)
    BY <1>12 DEF Watch
  <2> QED
    BY <2>1, <2>2, <1>st, <1>names, QuietStore, QuietFail, QuietIdle
<1>13. ASSUME NEW r \in Runners, ServerRemoved(r) PROVE SendInv'
  BY <1>13, QuietFail DEF ServerRemoved, At
<1>14. ASSUME NEW r \in Runners, CutShort(r) PROVE SendInv'
  BY <1>14, QuietIdle DEF CutShort
<1>15. CASE CancelQueued
  <2>1. job'.state = "cancelled"
    BY <1>15, <1>row DEF CancelQueued, Jobs
  <2> QED
    BY <1>15, <2>1, QuietElsewhere DEF CancelQueued
<1>16. CASE Deliver
  BY <1>16, QuietElsewhere DEF Deliver
<1>17. ASSUME NEW outcome \in {"ok", "running", "bad", "unknown"}, Report(outcome) PROVE SendInv'
  <2>1. UNCHANGED <<job, step>> /\ cmd # "none" /\ cmd' # "none"
    BY <1>17 DEF Report
  <2> QED
    BY <2>1, QuietElsewhere
<1>17a. CASE ResolveUnknown
  BY <1>17a, QuietElsewhere DEF ResolveUnknown
<1>18. CASE UnitEnds
  BY <1>18, QuietElsewhere DEF UnitEnds
<1>19. CASE NodeMoves
  BY <1>19, QuietElsewhere DEF NodeMoves
<1>20. CASE Tick
  <2>1. UNCHANGED cmd /\ job'.state = job.state
    BY <1>20, <1>row DEF Tick, Jobs
  <2>2. \A q \in Runners : /\ step'[q].pc = step[q].pc /\ step'[q].to = step[q].to
                           /\ step'[q].state = step[q].state
    BY <1>20, <1>st DEF Tick, Steps
  <2> QED
    BY <2>1, <2>2, QuietElsewhere
<1>21. CASE UNCHANGED vars
  BY <1>21, QuietElsewhere DEF vars
<1> QED
  BY <1>1, <1>2, <1>3, <1>4, <1>5, <1>6, <1>7, <1>8, <1>9, <1>10, <1>11, <1>12, <1>13,
     <1>14, <1>15, <1>16, <1>17, <1>17a, <1>18, <1>19, <1>20, <1>21 DEF Next, RunnerNext

(***************************************************************************)
(* One command per job: whatever replicas claim, crash, re-attach and      *)
(* expire, at most one of them ever calls the hub to send the job's        *)
(* command, and only while no command exists (ClaimServerMaintenanceJob).  *)
(***************************************************************************)
THEOREM SingleSender == Spec => []OneSender
<1>1. Init => TypeOK /\ SendInv
  BY InitTyped, InitSend
<1>2. TypeOK /\ SendInv /\ [Next]_vars => (TypeOK /\ SendInv)'
  BY NextTyped, NextSend
<1>3. SendInv => OneSender
  BY DEF SendInv, Alone, OneSender, Sending
<1> QED
  BY <1>1, <1>2, <1>3, PTL DEF Spec

(***************************************************************************)
(* A settled job is never reopened or resettled: the only writes are       *)
(* compare-and-sets against a state that is not terminal, however old the  *)
(* copy of the row is that the writing replica holds.                      *)
(***************************************************************************)
THEOREM NeverReopened == Spec => SettledForGood
<1>1. Init => TypeOK /\ SendInv
  BY InitTyped, InitSend
<1>2. TypeOK /\ SendInv /\ [Next]_vars => (TypeOK /\ SendInv)'
  BY NextTyped, NextSend
<1>3. TypeOK /\ SendInv /\ [Next]_vars => [job.state \in Done => job'.state = job.state]_vars
  <2> SUFFICES ASSUME TypeOK, SendInv, Next, job.state \in Done PROVE job'.state = job.state
    BY DEF vars
  <2>1. ASSUME NEW r \in Runners, Claim(r) \/ CancelQueued PROVE FALSE
    BY <2>1 DEF Claim, CancelQueued, Done
  <2>2. ASSUME NEW r \in Runners, Write(r) PROVE job' = job
    BY <2>2 DEF Write, SendInv, NoReopening, At
  <2>3. ASSUME NEW r \in Runners, RunnerNext(r) PROVE job' = job
    BY <2>1, <2>2, <2>3 DEF RunnerNext, Sweep, ClaimRefused, Send, Outcome, ReadError,
       SenderGivesUp, ReattachLapses, Withdraw, Poll, Watch, ServerRemoved, CutShort
  <2>4. ~CancelQueued /\ ~Tick
    BY DEF CancelQueued, Tick, Done
  <2> QED
    BY <2>3, <2>4 DEF Next, Deliver, Report, ResolveUnknown, UnitEnds, NodeMoves
<1> QED
  BY <1>1, <1>2, <1>3, PTL DEF Spec, SettledForGood

-----------------------------------------------------------------------------
(* What a completed job has done.  CompletedMeansDone alone is not          *)
(* inductive: a step decides on a copy of the row and on what the hub or    *)
(* the node said, and writes later, so the invariant follows the decision   *)
(* from the copy to the write.                                              *)

\* What the job asked for has happened.
Happened ==
    IF job.action = "reboot" THEN host.boot = "new" ELSE cmd \in {"ok", "running"} /\ ~host.unit

\* What a state says about the node, in the row, in a copy of it or in an update.
Known(s) ==
    /\ s = "waiting" => job.action = "os_update" /\ cmd = "running"
    /\ s = "awaiting_node_return" => job.action = "reboot"
    /\ s = "completed" => Happened

KnownAt(r) ==
    /\ ~At(r, "idle") => Known(step[r].state)
    /\ At(r, "write") => Known(step[r].to)
    /\ At(r, "poll") => step[r].state = "waiting"
    /\ At(r, "watch") => step[r].state = "awaiting_node_return"

\* An install unit runs on only behind a command that reported it, or whose outcome
\* was unknown.
DoneInv ==
    /\ host.unit => cmd \in {"running", "unknown", "bad"}
    /\ Known(job.state)
    /\ \A r \in Runners : KnownAt(r)

LEMMA InitDone == Init => DoneInv
BY DEF Init, DoneInv, KnownAt, Known, At, Idle

\* What is known is never taken back by a step of the node, the agent or a replica.
Firm ==
    /\ job'.action = job.action
    /\ host'.unit => cmd' \in {"running", "unknown", "bad"}
    /\ cmd = "running" => cmd' = "running"
    /\ Happened => Happened'

LEMMA FirmKnown ==
    ASSUME Firm, NEW s, Known(s) PROVE Known(s)'
BY DEF Firm, Known

(***************************************************************************)
(* One replica moves to s, and the row keeps its state.                    *)
(***************************************************************************)
LEMMA KnownStep ==
    ASSUME TypeOK, DoneInv, Firm, NEW r \in Runners, NEW s \in Steps, Goto(r, s),
           s.pc # "idle" => Known(s.state),
           s.pc = "write" => Known(s.to),
           s.pc = "poll" => s.state = "waiting",
           s.pc = "watch" => s.state = "awaiting_node_return",
           Known(job'.state)
    PROVE DoneInv'
<1>1. step'[r] = s /\ \A q \in Runners \ {r} : step'[q] = step[q]
  BY DEF Goto, TypeOK
<1>2. \A q \in Runners \ {r} : KnownAt(q)'
  BY <1>1, FirmKnown DEF DoneInv, KnownAt, At
<1>3. KnownAt(r)'
  BY <1>1, FirmKnown DEF KnownAt, At
<1>4. Known(job.state)'
  BY FirmKnown DEF Known, Firm
<1> QED
  BY <1>2, <1>3, <1>4 DEF DoneInv, Firm

\* The steps that leave the row, the command and the node alone.
LEMMA KnownQuiet ==
    ASSUME UNCHANGED <<job, cmd, host>>, DoneInv PROVE Firm /\ Known(job'.state)
BY DEF Firm, Happened, DoneInv

LEMMA KnownStore ==
    ASSUME TypeOK, DoneInv, Firm, NEW r \in Runners, NEW to \in JobStates, NEW left \in 0..Longest,
           NEW grace \in BOOLEAN, Store(r, to, left, grace), ~At(r, "idle"), Known(to),
           Known(job'.state)
    PROVE DoneInv'
<1> DEFINE s == [step[r] EXCEPT !.pc = "write", !.to = to, !.left = left, !.grace = grace]
<1>1. step[r] \in Steps /\ Known(step[r].state)
  BY DEF TypeOK, DoneInv, KnownAt
<1>2. s \in Steps /\ s.pc = "write" /\ s.to = to /\ s.state = step[r].state
  BY <1>1 DEF Steps
<1>3. Goto(r, s)
  BY DEF Store
<1> HIDE DEF s
<1> QED
  BY <1>1, <1>2, <1>3, KnownStep

LEMMA KnownFail ==
    ASSUME TypeOK, DoneInv, Firm, NEW r \in Runners, Fail(r), ~At(r, "idle"), Known(job'.state)
    PROVE DoneInv'
<1>1. step[r].left \in 0..Longest /\ step[r].grace \in BOOLEAN /\ "failed" \in JobStates
  BY DEF TypeOK, Steps, JobStates, Done
<1>2. Store(r, "failed", step[r].left, step[r].grace) /\ Known("failed")
  BY DEF Fail, Known
<1> QED
  BY <1>1, <1>2, KnownStore

LEMMA KnownIdle ==
    ASSUME TypeOK, DoneInv, Firm, NEW r \in Runners, Goto(r, Idle), Known(job'.state)
    PROVE DoneInv'
<1>1. Idle \in Steps /\ Idle.pc = "idle"
  BY LongestBounds DEF Idle, Steps, JobStates, Done
<1> QED
  BY <1>1, KnownStep

\* The steps of the node, the agent and the clock.
LEMMA KnownElsewhere ==
    ASSUME DoneInv, Firm, job'.state = job.state,
           \A q \in Runners : /\ step'[q].pc = step[q].pc /\ step'[q].to = step[q].to
                              /\ step'[q].state = step[q].state
    PROVE DoneInv'
<1>1. \A q \in Runners : KnownAt(q)'
  BY FirmKnown DEF DoneInv, KnownAt, At
<1>2. Known(job.state)'
  BY FirmKnown DEF Known, Firm, DoneInv
<1> QED
  BY <1>1, <1>2 DEF DoneInv, Firm

(***************************************************************************)
(* The invariant is inductive.  A step learns that an update ended from    *)
(* the command's report, which a running install unit contradicts, or from *)
(* the node's plan; that a reboot happened from the node's boot id.        *)
(***************************************************************************)
LEMMA NextDone == TypeOK /\ SendInv /\ DoneInv /\ [Next]_vars => DoneInv'
<1> SUFFICES ASSUME TypeOK, SendInv, DoneInv, [Next]_vars PROVE DoneInv'
  OBVIOUS
<1> USE LongestBounds, MaintenanceAssumption
<1>names. {"queued", "running", "waiting", "awaiting_node_return", "completed", "failed",
           "cancelled"} \subseteq JobStates
  BY DEF JobStates, Done
<1>row. job \in Jobs /\ job.state \in JobStates /\ job.action \in {"reboot", "os_update"}
  BY DEF TypeOK, Jobs
<1>ext. extendedApplyDeadline \in 0..Longest
  BY ExtensionBounds
<1>st. \A r \in Runners : /\ step[r] \in Steps /\ step[r].left \in 0..Longest
                          /\ step[r].grace \in BOOLEAN /\ step[r].to \in JobStates
                          /\ step[r].state \in JobStates
  BY DEF TypeOK, Steps
<1>saw. \A pc \in {"claim", "send", "reattach", "withdraw", "poll", "watch", "write"} :
          /\ Saw(pc) \in Steps /\ Saw(pc).pc = pc /\ Saw(pc).state = job.state
  BY DEF TypeOK, Jobs, Saw, Steps
<1>plain. Known("queued") /\ Known("running") /\ Known("failed") /\ Known("cancelled")
  BY DEF Known
<1>now. Known(job.state)
  BY DEF DoneInv
<1>1. ASSUME NEW r \in Runners, Sweep(r) PROVE DoneInv'
  <2> DEFINE late == [Saw("write") EXCEPT !.to = "failed"]
  <2>1. late \in Steps /\ late.pc = "write" /\ late.to = "failed" /\ late.state = job.state
    BY <1>saw, <1>names DEF Steps
  <2>2. Firm /\ Known(job'.state) /\ job.state \notin Done
    BY <1>1, KnownQuiet DEF Sweep
  <2>3. CASE job.state = "queued" /\ job.left > 0
    <3>1. Goto(r, Saw("claim"))
      BY <1>1, <2>3 DEF Sweep
    <3> QED
      BY <1>now, <1>saw, <2>2, <3>1, KnownStep
  <2>4. CASE job.state = "queued" /\ job.left = 0
    <3>1. Goto(r, late)
      BY <1>1, <2>4 DEF Sweep
    <3> HIDE DEF late
    <3> QED
      BY <1>now, <1>plain, <2>1, <2>2, <3>1, KnownStep
  <2>5. CASE job.state = "running"
    <3>1. Goto(r, Saw("reattach"))
      BY <1>1, <2>5 DEF Sweep
    <3> QED
      BY <1>now, <1>saw, <2>2, <3>1, KnownStep
  <2>6. CASE job.state = "waiting" /\ job.left > 0
    <3>1. Goto(r, Saw("poll"))
      BY <1>1, <2>6 DEF Sweep
    <3> QED
      BY <1>now, <1>saw, <2>2, <2>6, <3>1, KnownStep
  <2>7. CASE job.state = "waiting" /\ job.left = 0
    <3>1. Goto(r, Saw("withdraw"))
      BY <1>1, <2>7 DEF Sweep
    <3> QED
      BY <1>now, <1>saw, <2>2, <3>1, KnownStep
  <2>8. CASE job.state \notin {"queued", "running", "waiting"}
    <3>1. Goto(r, Saw("watch")) /\ job.state = "awaiting_node_return"
      BY <1>1, <1>row, <2>2, <2>8 DEF Sweep, JobStates
    <3> QED
      BY <1>now, <1>saw, <2>2, <3>1, KnownStep
  <2>9. job.left = 0 \/ job.left > 0
    BY DEF TypeOK, Jobs
  <2> QED
    BY <2>3, <2>4, <2>5, <2>6, <2>7, <2>8, <2>9
<1>2. ASSUME NEW r \in Runners, Claim(r) PROVE DoneInv'
  <2> DEFINE s == [Saw("send") EXCEPT !.state = "running", !.left = Execution]
  <2>1. s \in Steps /\ s.pc = "send" /\ s.state = "running"
    BY <1>saw, <1>names DEF Steps
  <2>2. job'.state = "running" /\ job'.action = job.action /\ UNCHANGED <<cmd, host>>
    BY <1>2, <1>row DEF Claim, Jobs
  <2>3. Firm /\ Known(job'.state)
    BY <1>plain, <2>2 DEF Firm, Happened, DoneInv
  <2>4. CASE Goto(r, Idle)
    BY <2>3, <2>4, KnownIdle
  <2>5. CASE Goto(r, s)
    <3> HIDE DEF s
    <3> QED
      BY <1>plain, <2>1, <2>3, <2>5, KnownStep
  <2> QED
    BY <1>2, <2>4, <2>5 DEF Claim
<1>3. ASSUME NEW r \in Runners, ClaimRefused(r) PROVE DoneInv'
  <2>1. Firm /\ Known(job'.state) /\ ~At(r, "idle") /\ (Goto(r, Idle) \/ Fail(r))
    BY <1>3, KnownQuiet DEF ClaimRefused, At
  <2> QED
    BY <2>1, KnownIdle, KnownFail
<1>4. ASSUME NEW r \in Runners, Send(r) PROVE DoneInv'
  <2> DEFINE s == [step[r] EXCEPT !.pc = "await"]
  <2>1. s \in Steps /\ s.pc = "await" /\ s.state = step[r].state
    BY <1>st DEF Steps
  <2>2. At(r, "send") /\ ~At(r, "idle") /\ UNCHANGED <<job, host>> /\ cmd = "none"
    BY <1>4 DEF Send, At, SendInv, Alone
  <2>3. Firm /\ Known(job'.state)
    BY <1>now, <2>2 DEF Firm, Happened, DoneInv
  <2>4. CASE Fail(r)
    BY <2>2, <2>3, <2>4, KnownFail
  <2>5. CASE Goto(r, s)
    <3>1. Known(step[r].state)
      BY <2>2 DEF DoneInv, KnownAt
    <3> HIDE DEF s
    <3> QED
      BY <2>1, <2>3, <2>5, <3>1, KnownStep
  <2> QED
    BY <1>4, <2>4, <2>5 DEF Send
<1>5. ASSUME NEW r \in Runners, Outcome(r) PROVE DoneInv'
  <2>1. Firm /\ Known(job'.state) /\ ~At(r, "idle")
    BY <1>5, KnownQuiet DEF Outcome, Awaiting, At
  <2>2. \/ \E to \in JobStates, left \in 0..Longest : Known(to) /\ Store(r, to, left, step[r].grace)
        \/ Fail(r)
    <3>1. CASE cmd = "ok" /\ job.action = "os_update" /\ Store(r, "completed", step[r].left, step[r].grace)
      <4>1. Known("completed")
        BY <3>1 DEF Known, Happened, DoneInv
      <4> QED
        BY <1>names, <1>st, <3>1, <4>1
    <3>2. CASE cmd = "running" /\ job.action = "os_update" /\ Store(r, "waiting", extendedApplyDeadline, step[r].grace)
      <4>1. Known("waiting")
        BY <3>2 DEF Known
      <4> QED
        BY <1>names, <1>ext, <3>2, <4>1
    <3>3. CASE cmd = "ok" /\ job.action = "reboot" /\ Store(r, "awaiting_node_return", Horizon, step[r].grace)
      <4>1. Known("awaiting_node_return")
        BY <3>3 DEF Known
      <4> QED
        BY <1>names, <3>3, <4>1
    <3> QED
      BY <1>5, <3>1, <3>2, <3>3 DEF Outcome
  <2> QED
    BY <1>st, <2>1, <2>2, KnownStore, KnownFail
<1>6. ASSUME NEW r \in Runners, ReadError(r) PROVE DoneInv'
  BY <1>6, KnownQuiet, KnownFail DEF ReadError, Awaiting, At
<1>7. ASSUME NEW r \in Runners, SenderGivesUp(r) PROVE DoneInv'
  <2>1. Firm /\ Known(job'.state) /\ Goto(r, Idle)
    BY <1>7, <1>now DEF SenderGivesUp, Withdrawn, Firm, Happened, DoneInv
  <2> QED
    BY <2>1, KnownIdle
<1>8. ASSUME NEW r \in Runners, ReattachLapses(r) PROVE DoneInv'
  <2> DEFINE s == [step[r] EXCEPT !.pc = "withdraw"]
  <2>1. s \in Steps /\ s.pc = "withdraw" /\ s.state = step[r].state
    BY <1>st DEF Steps
  <2>2. Goto(r, s) /\ Firm /\ Known(job'.state) /\ Known(step[r].state)
    BY <1>8, KnownQuiet DEF ReattachLapses, At, DoneInv, KnownAt
  <2> HIDE DEF s
  <2> QED
    BY <2>1, <2>2, KnownStep
<1>9. ASSUME NEW r \in Runners, Withdraw(r) PROVE DoneInv'
  <2>1. Firm /\ Known(job'.state) /\ ~At(r, "idle") /\ Known(step[r].state)
    BY <1>9, <1>now DEF Withdraw, Withdrawn, At, Firm, Happened, DoneInv, KnownAt
  <2>2. Store(r, step[r].state, Grace, TRUE) \/ Fail(r)
    BY <1>9 DEF Withdraw
  <2> QED
    BY <1>st, <2>1, <2>2, KnownStore, KnownFail
<1>10. ASSUME NEW r \in Runners, Write(r) PROVE DoneInv'
  <2>1. Goto(r, Idle) /\ UNCHANGED <<cmd, host>>
    BY <1>10 DEF Write
  <2>2. Known(step[r].to)
    BY <1>10 DEF Write, At, DoneInv, KnownAt
  <2>3. job'.action = job.action /\ (job' = job \/ job'.state = step[r].to)
    BY <1>10, <1>row DEF Write, Jobs
  <2>4. Firm /\ Known(job'.state)
    BY <1>now, <2>1, <2>2, <2>3 DEF Firm, Happened, DoneInv
  <2> QED
    BY <2>1, <2>4, KnownIdle
<1>11. ASSUME NEW r \in Runners, Poll(r) PROVE DoneInv'
  <2>1. Firm /\ Known(job'.state) /\ ~At(r, "idle")
    BY <1>11, KnownQuiet DEF Poll, At
  <2>2. step[r].state = "waiting" /\ Known("waiting")
    BY <1>11 DEF Poll, At, DoneInv, KnownAt
  <2>3. ~host.unit => Known("completed")
    BY <2>2 DEF Known, Happened
  <2>4. \/ \E to \in JobStates, left \in 0..Longest : Known(to) /\ Store(r, to, left, step[r].grace)
        \/ Fail(r) \/ Goto(r, Idle)
    BY <1>11, <1>st, <1>ext, <1>names, <2>2, <2>3 DEF Poll
  <2> QED
    BY <1>st, <2>1, <2>4, KnownStore, KnownFail, KnownIdle
<1>12. ASSUME NEW r \in Runners, Watch(r) PROVE DoneInv'
  <2>1. Firm /\ Known(job'.state) /\ ~At(r, "idle")
    BY <1>12, KnownQuiet DEF Watch, At
  <2>2. job.action = "reboot"
    BY <1>12 DEF Watch, At, DoneInv, KnownAt, Known
  <2>3. Rebooted => Known("completed")
    BY <2>2 DEF Rebooted, Known, Happened
  <2>4. \/ Known("completed") /\ Store(r, "completed", step[r].left, step[r].grace)
        \/ Fail(r) \/ Goto(r, Idle)
    BY <1>12, <2>3 DEF Watch
  <2> QED
    BY <1>st, <1>names, <2>1, <2>4, KnownStore, KnownFail, KnownIdle
<1>13. ASSUME NEW r \in Runners, ServerRemoved(r) PROVE DoneInv'
  BY <1>13, KnownQuiet, KnownFail DEF ServerRemoved, At
<1>14. ASSUME NEW r \in Runners, CutShort(r) PROVE DoneInv'
  BY <1>14, KnownQuiet, KnownIdle DEF CutShort
<1>15. CASE CancelQueued
  <2>1. job'.state = "cancelled" /\ job'.action = job.action /\ UNCHANGED <<cmd, host, step>>
    BY <1>15, <1>row DEF CancelQueued, Jobs
  <2>2. Firm /\ Known("cancelled")
    BY <1>plain, <2>1 DEF Firm, Happened, DoneInv
  <2>3. \A q \in Runners : KnownAt(q)'
    BY <2>1, <2>2, FirmKnown DEF DoneInv, KnownAt, At
  <2>4. Known(job.state)'
    BY <2>1 DEF Known
  <2> QED
    BY <2>2, <2>3, <2>4 DEF DoneInv, Firm
<1>16. CASE Deliver
  <2>1. Firm
    BY <1>16 DEF Deliver, Firm, Happened, DoneInv
  <2> QED
    BY <1>16, <2>1, KnownElsewhere DEF Deliver
<1>17. ASSUME NEW outcome \in {"ok", "running", "bad", "unknown"}, Report(outcome) PROVE DoneInv'
  <2>1. /\ UNCHANGED <<job, step>> /\ cmd = "dispatched" /\ cmd' = outcome
        /\ host'.boot = host.boot /\ (host'.unit => outcome \in {"running", "unknown"})
    BY <1>17 DEF Report, TypeOK, Hosts
  <2>2. Firm
    BY <2>1 DEF Firm, Happened
  <2> QED
    BY <2>1, <2>2, KnownElsewhere
<1>17a. CASE ResolveUnknown
  <2>1. Firm
    BY <1>17a DEF ResolveUnknown, Firm, Happened, DoneInv
  <2> QED
    BY <1>17a, <2>1, KnownElsewhere DEF ResolveUnknown
<1>18. CASE UnitEnds
  <2>1. UNCHANGED <<job, cmd, step>> /\ ~host'.unit /\ host'.boot = host.boot
    BY <1>18 DEF UnitEnds, TypeOK, Hosts
  <2>2. Firm
    BY <2>1 DEF Firm, Happened
  <2> QED
    BY <2>1, <2>2, KnownElsewhere
<1>19. CASE NodeMoves
  <2>1. UNCHANGED <<job, cmd, step>> /\ host'.unit = host.unit /\ host'.boot \in {host.boot, "new"}
    BY <1>19 DEF NodeMoves, TypeOK, Hosts
  <2>2. Firm
    BY <2>1 DEF Firm, Happened, DoneInv
  <2> QED
    BY <2>1, <2>2, KnownElsewhere
<1>20. CASE Tick
  <2>1. /\ UNCHANGED cmd /\ job'.state = job.state /\ job'.action = job.action
        /\ host'.unit = host.unit /\ host'.boot = host.boot
    BY <1>20, <1>row DEF Tick, Jobs, TypeOK, Hosts
  <2>2. \A q \in Runners : /\ step'[q].pc = step[q].pc /\ step'[q].to = step[q].to
                           /\ step'[q].state = step[q].state
    BY <1>20, <1>st DEF Tick, Steps
  <2>3. Firm
    BY <2>1 DEF Firm, Happened, DoneInv
  <2> QED
    BY <2>1, <2>2, <2>3, KnownElsewhere
<1>21. CASE UNCHANGED vars
  <2>1. UNCHANGED <<job, cmd, host, step>>
    BY <1>21 DEF vars
  <2> QED
    BY <2>1, KnownQuiet, KnownElsewhere
<1> QED
  BY <1>1, <1>2, <1>3, <1>4, <1>5, <1>6, <1>7, <1>8, <1>9, <1>10, <1>11, <1>12, <1>13,
     <1>14, <1>15, <1>16, <1>17, <1>17a, <1>18, <1>19, <1>20, <1>21 DEF Next, RunnerNext

(***************************************************************************)
(* A job is completed only by what it asked for: no stale outcome, poll or *)
(* watch of any replica completes a reboot the node did not make, or an    *)
(* update whose install unit still runs (execute, pollApply, watchReboot). *)
(***************************************************************************)
THEOREM CompletedIsDone == Spec => []CompletedMeansDone
<1>1. Init => TypeOK /\ SendInv /\ DoneInv
  BY InitTyped, InitSend, InitDone
<1>2. TypeOK /\ SendInv /\ DoneInv /\ [Next]_vars => (TypeOK /\ SendInv /\ DoneInv)'
  BY NextTyped, NextSend, NextDone
<1>3. DoneInv => CompletedMeansDone
  BY DEF DoneInv, Known, Happened, CompletedMeansDone
<1> QED
  BY <1>1, <1>2, <1>3, PTL DEF Spec
=============================================================================
