------------------------------ MODULE RepoLock ------------------------------
(***************************************************************************)
(* The store lock: LockRepo, lockFile, repoLockPath and RepoLock.Release   *)
(* of internal/storage/git.go, and Store.Lock of internal/storage/mode.go. *)
(*                                                                         *)
(* Every akb process runs one command on one knowledge base.  The command  *)
(* takes the store lock around its mutation sequence, and the provider     *)
(* steps inside it take it again; nested acquisitions share the process's  *)
(* flock through a reference count, and each is released by the handle     *)
(* that took it.  The processes interleave at every acquisition and        *)
(* release, and any of them may end at any moment: the kernel drops the    *)
(* flock of a process that exits.                                          *)
(***************************************************************************)
EXTENDS Naturals, FiniteSets

CONSTANTS
    Procs,      \* akb processes
    KBs,        \* knowledge bases
    Repos,      \* git repositories, each one common dir
    ModeOf,     \* the versioning mode of a base: "git" or "none"
    RepoOf,     \* the repository that hosts a base
    Handles,    \* the acquisitions one command makes, one handle each
    NoProc, NoKB, NoHandle

ASSUME RepoLockAssumption ==
    /\ ModeOf \in [KBs -> {"git", "none"}]
    /\ RepoOf \in [KBs -> Repos]
    /\ IsFiniteSet(Handles)
    /\ NoProc \notin Procs
    /\ NoKB \notin KBs
    /\ NoHandle \notin Handles

VARIABLES
    base,       \* base[p]: the base p's command works on, NoKB when p is not running
    handle,     \* handle[p][h]: "nil" before the acquisition, then "live", then "released"
    refs,       \* refs[p]: refs of p's heldLocks entry, 0 without an entry
    waiting,    \* waiting[p]: the handle p is blocked in flock for, or NoHandle
    flock       \* flock[l]: the process whose open file carries the flock of l

vars == <<base, handle, refs, waiting, flock>>

\* The lock file of a base: akb.lock in the common dir of the repository, which
\* linked worktrees share, or the base's own file when it is not versioned.
LockPathPerBase(k) == <<"none", k>>

LockPath(k) == IF ModeOf[k] = "none" THEN <<"none", k>> ELSE <<"git", RepoOf[k]>>

LockPaths == {LockPath(k) : k \in KBs} \cup ({"none"} \X KBs)

Live(p) == {h \in Handles : handle[p][h] = "live"}

Running(p) == base[p] # NoKB /\ waiting[p] = NoHandle

NoHandles == [h \in Handles |-> "nil"]

-----------------------------------------------------------------------------
TypeOK ==
    /\ base \in [Procs -> KBs \cup {NoKB}]
    /\ handle \in [Procs -> [Handles -> {"nil", "live", "released"}]]
    /\ refs \in [Procs -> 0 .. Cardinality(Handles)]
    /\ waiting \in [Procs -> Handles \cup {NoHandle}]
    /\ flock \in [LockPaths -> Procs \cup {NoProc}]

Init ==
    /\ base = [p \in Procs |-> NoKB]
    /\ handle = [p \in Procs |-> NoHandles]
    /\ refs = [p \in Procs |-> 0]
    /\ waiting = [p \in Procs |-> NoHandle]
    /\ flock = [l \in LockPaths |-> NoProc]

\* A process starts a command on base k.
Start(p, k) ==
    /\ base[p] = NoKB
    /\ base' = [base EXCEPT ![p] = k]
    /\ UNCHANGED <<handle, refs, waiting, flock>>

-----------------------------------------------------------------------------
\* `entry, held := heldLocks[lockPath]`
NeverHeld(p) == FALSE
Held(p) == refs[p] > 0

\* `entry.refs++`
NestedRefs(p) == refs[p] + 1

\* An acquisition nested in one the process holds shares its flock.
LockNested(p, h) ==
    /\ Running(p)
    /\ handle[p][h] = "nil"
    /\ Held(p)
    /\ refs' = [refs EXCEPT ![p] = NestedRefs(p)]
    /\ handle' = [handle EXCEPT ![p][h] = "live"]
    /\ UNCHANGED <<base, waiting, flock>>

\* The outermost acquisition opens the lock file and blocks in flock(LOCK_EX).
LockOutermost(p, h) ==
    /\ Running(p)
    /\ handle[p][h] = "nil"
    /\ ~Held(p)
    /\ waiting' = [waiting EXCEPT ![p] = h]
    /\ UNCHANGED <<base, handle, refs, flock>>

\* The kernel grants the flock to one of the blocked processes, which enters the
\* lock in heldLocks and returns the handle.
FlockGranted(p) ==
    /\ waiting[p] # NoHandle
    /\ flock[LockPath(base[p])] = NoProc
    /\ flock' = [flock EXCEPT ![LockPath(base[p])] = p]
    /\ refs' = [refs EXCEPT ![p] = 1]
    /\ handle' = [handle EXCEPT ![p][waiting[p]] = "live"]
    /\ waiting' = [waiting EXCEPT ![p] = NoHandle]
    /\ UNCHANGED base

\* Opening the file or flock fails: the acquisition returns an error, no handle.
LockFails(p) ==
    /\ waiting[p] # NoHandle
    /\ waiting' = [waiting EXCEPT ![p] = NoHandle]
    /\ UNCHANGED <<base, handle, refs, flock>>

-----------------------------------------------------------------------------
\* Only the first release of a handle drops an acquisition (`if l.released`).
EveryReleaseDrops(p, h) == Held(p)
DropsAcquisition(p, h) == handle[p][h] = "live" /\ Held(p)

\* `if entry.refs > 0 { return }` after the decrement
AnyRelease(p) == TRUE
Outermost(p) == refs[p] = 1

\* Release on a handle the command obtained, possibly for the second time: a
\* deferred release runs after an explicit one of the same handle.
Release(p, h) ==
    /\ Running(p)
    /\ handle[p][h] # "nil"
    /\ handle' = [handle EXCEPT ![p][h] = "released"]
    /\ IF DropsAcquisition(p, h)
         THEN /\ refs' = [refs EXCEPT ![p] = @ - 1]
              /\ flock' = IF Outermost(p)
                            THEN [flock EXCEPT ![LockPath(base[p])] = NoProc]
                            ELSE flock
         ELSE UNCHANGED <<refs, flock>>
    /\ UNCHANGED <<base, waiting>>

\* The process ends, by returning from main or by being killed wherever it is,
\* and the kernel closes its files.
Exit(p) ==
    /\ base[p] # NoKB
    /\ base' = [base EXCEPT ![p] = NoKB]
    /\ handle' = [handle EXCEPT ![p] = NoHandles]
    /\ refs' = [refs EXCEPT ![p] = 0]
    /\ waiting' = [waiting EXCEPT ![p] = NoHandle]
    /\ flock' = [l \in LockPaths |-> IF flock[l] = p THEN NoProc ELSE flock[l]]

Next ==
    \E p \in Procs :
        \/ \E k \in KBs : Start(p, k)
        \/ \E h \in Handles :
              LockNested(p, h) \/ LockOutermost(p, h) \/ Release(p, h)
        \/ FlockGranted(p)
        \/ LockFails(p)
        \/ Exit(p)

\* A command that is not blocked ends (akb has no daemon and every command
\* terminates), and the kernel does not pass over a blocked process forever.
Fairness ==
    \A p \in Procs :
        /\ WF_vars(waiting[p] = NoHandle /\ Exit(p))
        /\ SF_vars(FlockGranted(p))

Spec == Init /\ [][Next]_vars

FairSpec == Spec /\ Fairness

-----------------------------------------------------------------------------
\* Two bases whose mutation sequences must not overlap: the same base, or two
\* git-versioned bases of one repository (comment of withRepoLock).
Conflict(k, m) ==
    \/ k = m
    \/ ModeOf[k] = "git" /\ ModeOf[m] = "git" /\ RepoOf[k] = RepoOf[m]

\* Two processes are never both inside a mutation sequence of the same base or
\* of two git-versioned bases of one repository (LockRepo, Store.Lock).
MutualExclusion ==
    \A p, q \in Procs :
        /\ base[p] # NoKB /\ base[q] # NoKB
        /\ Live(p) # {} /\ Live(q) # {}
        /\ Conflict(base[p], base[q])
        => p = q

\* A process that released every handle it took keeps no flock, so it cannot
\* block the others for the rest of its life, and a process with a live handle
\* has not lost its flock to a release of another handle (Release).
FlockIffLive ==
    \A p \in Procs :
        (Live(p) # {}) <=> (\E l \in LockPaths : flock[l] = p)

\* A process blocked in flock is not blocked forever: no process waits for a
\* flock that it holds itself, and every holder lets go (lockFile, Release).
WaiterProceeds ==
    \A p \in Procs : (waiting[p] # NoHandle) ~> (waiting[p] = NoHandle)

\* What heldLocks, the handles and the kernel agree on, in every state: the count
\* of an entry is the number of live handles,
RefsCountLive == \A p \in Procs : refs[p] = Cardinality(Live(p))
\* a process that is not running has nothing,
ExitedIsClean ==
    \A p \in Procs :
        base[p] = NoKB => handle[p] = NoHandles /\ waiting[p] = NoHandle
\* a live handle comes with the flock of its base's lock file,
LiveHasFlock ==
    \A p \in Procs : Live(p) # {} => /\ base[p] # NoKB
                                    /\ flock[LockPath(base[p])] = p
\* and the flock with a live handle of its owner,
FlockHasHolder ==
    \A p \in Procs, l \in LockPaths :
        flock[l] = p => /\ base[p] # NoKB
                        /\ LockPath(base[p]) = l
                        /\ Live(p) # {}
\* and a process that blocks holds nothing, which rules out waiting in a circle.
WaiterHoldsNothing ==
    \A p \in Procs :
        waiting[p] # NoHandle => Live(p) = {} /\ handle[p][waiting[p]] = "nil"

\* The inductive invariant of the lock: lockFile and Release keep the reference
\* count, the handles and the flock in step (LockRepo, lockFile, Release).
LockInv ==
    /\ TypeOK
    /\ RefsCountLive
    /\ ExitedIsClean
    /\ LiveHasFlock
    /\ FlockHasHolder
    /\ WaiterHoldsNothing

\* The processes that hold a live handle on lock file l.
Inside == [l \in LockPaths |->
              {p \in Procs : base[p] # NoKB /\ Live(p) # {} /\ LockPath(base[p]) = l}]

\* The reference-counted, re-entrant flock is a mutual exclusion lock.
M == INSTANCE Mutex WITH Locks <- LockPaths, inside <- Inside
ImplementsMutex == M!Spec
=============================================================================
