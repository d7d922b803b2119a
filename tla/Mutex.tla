------------------------------- MODULE Mutex --------------------------------
(***************************************************************************)
(* What the lock of internal/storage/git.go promises its callers: at most  *)
(* one process at a time is inside the mutation sequence that one lock     *)
(* file protects.  How the process got there (flock, re-entrant handles,   *)
(* reference counts, process exits) is left to RepoLock, which implements  *)
(* this module.                                                            *)
(***************************************************************************)
CONSTANTS
    Procs,      \* akb processes
    Locks       \* lock files

VARIABLE inside \* inside[l]: the processes between LockRepo and Release on l

Init == inside = [l \in Locks |-> {}]

TypeOK == inside \in [Locks -> SUBSET Procs]

Enter(p, l) ==
    /\ inside[l] = {}
    /\ inside' = [inside EXCEPT ![l] = {p}]

Leave(p, l) ==
    /\ inside[l] = {p}
    /\ inside' = [inside EXCEPT ![l] = {}]

Next == \E p \in Procs, l \in Locks : Enter(p, l) \/ Leave(p, l)

Spec == Init /\ [][Next]_inside

-----------------------------------------------------------------------------
=============================================================================
