--------------------------- MODULE ExecutionFence ---------------------------
(***************************************************************************)
(* What the job table promises its users: a lock on stacks and servers     *)
(* held by jobs.  A job takes it in one step, against no conflicting       *)
(* holder, and gives it back in one step; what a hold survives (a crash, a *)
(* reclaim, a lost answer) is the implementation's business.               *)
(***************************************************************************)
CONSTANTS
    Jobs,
    Conflict(_, _)  \* Conflict(j, k): j and k mutate a common target

VARIABLE held       \* the jobs that hold their targets

Init == held = {}

Acquire(j) ==
    /\ j \notin held
    /\ \A k \in held : ~Conflict(j, k)
    /\ held' = held \cup {j}

Release(j) ==
    /\ j \in held
    /\ held' = held \ {j}

Next == \E j \in Jobs : Acquire(j) \/ Release(j)

Spec == Init /\ [][Next]_held
=============================================================================
