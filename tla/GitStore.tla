------------------------------ MODULE GitStore ------------------------------
(***************************************************************************)
(* The storage of a git-versioned base: GitProvider and CommitFiles of     *)
(* internal/storage/git.go behind the Store of internal/storage/mode.go,   *)
(* together with the command steps that surround them (the rewrite of      *)
(* kb/index.md and kb/log.md, the files of a raw or template command).     *)
(*                                                                         *)
(* Every operation runs from its first mutation to its commit under the    *)
(* store lock, which is a mutual exclusion lock of the repository (module  *)
(* RepoLock), so at most one operation is in progress.  What interleaves   *)
(* with its steps is the host project: other git processes that stage,     *)
(* commit, merge and hold .git/index.lock in the same repository.          *)
(***************************************************************************)
EXTENDS Naturals, FiniteSets

CONSTANTS
    Pages,          \* KB pages
    FileSets,       \* the file sets of raw and template commands
    HostPaths,      \* files of the host project, outside the base
    Contents,       \* what a file may contain
    Absent,         \* a layer holds no such file
    MaxAttempts,    \* indexLockRetryAttempts
    MaxOps,         \* bound: akb operations of a behaviour
    MaxHostSteps    \* bound: steps of the host project

Managed == {"index.md", "log.md"}   \* managedCommitPaths

Paths == Pages \cup Managed \cup HostPaths \cup UNION FileSets

ASSUME GitStoreAssumption ==
    /\ Absent \notin Contents
    /\ MaxAttempts \in Nat \ {0} /\ MaxOps \in Nat /\ MaxHostSteps \in Nat
    /\ HostPaths \cap (Pages \cup Managed \cup UNION FileSets) = {}

VARIABLES
    worktree, staged, head, \* content of every path in the three layers of git
    merging,                \* MERGE_HEAD exists
    indexLock,              \* another process holds .git/index.lock
    op,                     \* the operation that holds the store lock
    ops, hostSteps          \* counters of the two bounds

layers == <<worktree, staged, head>>
vars == <<worktree, staged, head, merging, indexLock, op, ops, hostSteps>>

Kinds == {"page", "managed", "delete", "files"}

PCs == {"idle", "preflight", "derive", "stage", "recheck", "remove", "add",
        "record", "paths", "commit", "end"}

IdleOp == [kind |-> "page", own |-> {}, noCommit |-> FALSE, pc |-> "idle",
           paths |-> {}, attempts |-> 0, result |-> "none", clear |-> TRUE]

TypeOK ==
    /\ worktree \in [Paths -> Contents \cup {Absent}]
    /\ staged \in [Paths -> Contents \cup {Absent}]
    /\ head \in [Paths -> Contents \cup {Absent}]
    /\ merging \in BOOLEAN
    /\ indexLock \in BOOLEAN
    /\ op \in [kind : Kinds, own : SUBSET Paths, noCommit : BOOLEAN, pc : PCs,
               paths : SUBSET Paths, attempts : 0 .. MaxAttempts - 1,
               result : {"none", "ok", "refused", "failed"}, clear : BOOLEAN]
    /\ ops \in 0 .. MaxOps
    /\ hostSteps \in 0 .. MaxHostSteps

\* A base just created by `akb init`: the managed files are committed, no page is.
Init ==
    /\ \E c \in Contents :
          head = [q \in Paths |-> IF q \in Managed \cup HostPaths THEN c ELSE Absent]
    /\ worktree = head
    /\ staged = head
    /\ merging = FALSE
    /\ indexLock = FALSE
    /\ op = IdleOp
    /\ ops = 0
    /\ hostSteps = 0

-----------------------------------------------------------------------------
(* The steps of the operation that holds the lock.                         *)

Goto(pc) == op' = [op EXCEPT !.pc = pc, !.attempts = 0]
Finish(result) == op' = [op EXCEPT !.pc = "end", !.attempts = 0, !.result = result]
Only(p) == CHOOSE q \in p : TRUE
Target == Only(op.own)
Bounds == <<ops, hostSteps>>

Targets(kind) ==
    CASE kind \in {"page", "delete"} -> {{p} : p \in Pages}
      [] kind = "managed" -> {{m} : m \in Managed}
      [] kind = "files" -> FileSets

\* A command takes the store lock: a page write, append or approval ("page"),
\* `akb index` or `akb log append` ("managed"), `akb delete`, or a raw or
\* template command ("files").
Begin ==
    /\ op.pc = "idle"
    /\ ops < MaxOps
    /\ ops' = ops + 1
    /\ \E kind \in Kinds, nc \in BOOLEAN : \E own \in Targets(kind) :
          op' = [IdleOp EXCEPT !.kind = kind, !.own = own, !.noCommit = nc,
                               !.pc = "preflight", !.clear = ~merging]
    /\ UNCHANGED <<layers, merging, indexLock, hostSteps>>

\* checkMergeState, skipped by an operation that attempts no commit.
NeverRefuses == FALSE
MergeRefuses == ~op.noCommit /\ merging

\* The preflight before the first mutation: a merge that is not finished, or a
\* commit identity that no source can name, refuses the operation.
Preflight ==
    /\ op.pc = "preflight"
    /\ \/ MergeRefuses /\ Finish("refused")
       \/ ~op.noCommit /\ Finish("refused")
       \/ ~MergeRefuses /\ Goto("derive")
    /\ UNCHANGED <<layers, merging, indexLock, Bounds>>

\* What follows the worktree mutation: nothing when the commit is left to the
\* caller, else the kind's own staging step.
AfterDeriveAlwaysStages(o) ==
    CASE o.kind = "page" -> "add"
      [] o.kind = "delete" -> "stage"
      [] OTHER -> "recheck"
AfterDerive(o) ==
    CASE o.noCommit -> IF o.kind = "delete" THEN "remove" ELSE "end"
      [] ~o.noCommit /\ o.kind = "page" -> "add"
      [] ~o.noCommit /\ o.kind = "delete" -> "stage"
      [] OTHER -> "recheck"

\* The worktree mutation: os.WriteFile of the page, the rewrite of index.md or
\* log.md, or the write and removal of the files of a raw or template command
\* (whose manifest is always written).  A deletion first rewrites the managed
\* files; an entry that index.md does not hold leaves it as it is.
Derive ==
    /\ op.pc = "derive"
    /\ LET derived == IF op.kind = "delete" THEN Managed ELSE op.own
           mayVanish == IF op.kind = "files" THEN op.own \ {"files.log"} ELSE {}
       IN \E f \in [derived -> Contents \cup {Absent}] :
             /\ \A q \in derived : f[q] = Absent => q \in mayVanish
             /\ worktree' = [q \in Paths |-> IF q \in derived THEN f[q] ELSE worktree[q]]
    /\ IF AfterDerive(op) = "end" THEN Finish("ok") ELSE Goto(AfterDerive(op))
    /\ UNCHANGED <<staged, head, merging, indexLock, Bounds>>

\* Store.StageFiles("kb/index.md", "kb/log.md") of a deletion.  A merge or an
\* index lock that outlasts the retries only warns.
StageManaged ==
    /\ op.pc = "stage"
    /\ ~indexLock
    /\ staged' = IF merging THEN staged
                 ELSE [q \in Paths |-> IF q \in Managed THEN worktree[q] ELSE staged[q]]
    /\ Goto("recheck")
    /\ UNCHANGED <<worktree, head, merging, indexLock, Bounds>>

\* The provider checks the merge state again, under the lock.
Recheck ==
    /\ op.pc = "recheck"
    /\ IF MergeRefuses
         THEN Finish("failed")
         ELSE Goto(CASE op.kind = "delete" -> "remove"
                     [] op.kind = "files" -> "record"
                     [] OTHER -> "add")
    /\ UNCHANGED <<layers, merging, indexLock, Bounds>>

\* os.Remove and `git ls-files` of GitProvider.Delete.
Remove ==
    /\ op.pc = "remove"
    /\ IF worktree[Target] = Absent
         THEN Finish("failed") /\ UNCHANGED worktree
         ELSE /\ worktree' = [worktree EXCEPT ![Target] = Absent]
              /\ IF op.noCommit THEN Finish("ok")
                 ELSE Goto(IF staged[Target] # Absent THEN "add" ELSE "paths")
    /\ UNCHANGED <<staged, head, merging, indexLock, Bounds>>

\* gitAdd of the target.
Add ==
    /\ op.pc = "add"
    /\ ~indexLock
    /\ staged' = [staged EXCEPT ![Target] = worktree[Target]]
    /\ Goto("paths")
    /\ UNCHANGED <<worktree, head, merging, indexLock, Bounds>>

IsStaged(q) == staged[q] # head[q]
IsInHEAD(q) == head[q] # Absent

\* The pathspec of the commit.
CommitPathsAllStaged(t) == {q \in Paths : IsStaged(q)}
CommitPaths(t) ==
    {q \in {t} : IsStaged(q) \/ IsInHEAD(q)} \cup {m \in Managed \ {t} : IsStaged(m)}

\* The first half of gitCommit: an empty pathspec ends the operation.
ComputePaths ==
    /\ op.pc = "paths"
    /\ IF CommitPaths(Target) = {}
         THEN Finish("ok")
         ELSE op' = [op EXCEPT !.pc = "commit", !.attempts = 0, !.paths = CommitPaths(Target)]
    /\ UNCHANGED <<layers, merging, indexLock, Bounds>>

\* recordablePaths, then `git add -A -- recorded` of CommitFiles.
RecordablePresent == {q \in op.own : worktree[q] # Absent}
Recordable == {q \in op.own : worktree[q] # Absent \/ IsInHEAD(q)}

Record ==
    /\ op.pc = "record"
    /\ ~indexLock
    /\ IF Recordable = {}
         THEN Finish("failed") /\ UNCHANGED staged
         ELSE /\ staged' = [q \in Paths |-> IF q \in Recordable THEN worktree[q] ELSE staged[q]]
              /\ op' = [op EXCEPT !.pc = "commit", !.attempts = 0, !.paths = Recordable]
    /\ UNCHANGED <<worktree, head, merging, indexLock, Bounds>>

\* `git commit --only -- paths` records the worktree content of the paths and
\* nothing else.  Git refuses it during a merge and when it would record
\* nothing; a hook of the host may refuse it at any time.  What was staged for
\* it stays staged.
Commit ==
    /\ op.pc = "commit"
    /\ ~indexLock
    /\ \/ /\ ~merging
          /\ \E q \in op.paths : worktree[q] # head[q]
          /\ head' = [q \in Paths |-> IF q \in op.paths THEN worktree[q] ELSE head[q]]
          /\ staged' = [q \in Paths |-> IF q \in op.paths THEN worktree[q] ELSE staged[q]]
          /\ Finish("ok")
       \/ Finish("failed") /\ UNCHANGED <<staged, head>>
    /\ UNCHANGED <<worktree, merging, indexLock, Bounds>>

\* The steps that run a git command which writes the repository index.
GitSteps == {"stage", "add", "record", "commit"}

NextAttemptStuck(n) == n
NextAttempt(n) == n + 1
OutOfAttempts(n) == NextAttempt(n) >= MaxAttempts

\* runGitEnv meets the index lock and backs off,
Contend ==
    /\ op.pc \in GitSteps
    /\ indexLock
    /\ ~OutOfAttempts(op.attempts)
    /\ op' = [op EXCEPT !.attempts = NextAttempt(@)]
    /\ UNCHANGED <<layers, merging, indexLock, Bounds>>

\* and gives up after the last attempt.
GiveUp ==
    /\ op.pc \in GitSteps
    /\ indexLock
    /\ OutOfAttempts(op.attempts)
    /\ IF op.pc = "stage" THEN Goto("recheck") ELSE Finish("failed")
    /\ UNCHANGED <<layers, merging, indexLock, Bounds>>

\* The command releases the store lock.
End ==
    /\ op.pc = "end"
    /\ op' = IdleOp
    /\ UNCHANGED <<layers, merging, indexLock, Bounds>>

OpStep ==
    \/ Preflight \/ Derive \/ StageManaged \/ Recheck \/ Remove \/ Add
    \/ ComputePaths \/ Record \/ Commit \/ Contend \/ GiveUp \/ End

\* The akb process is killed; its git child may leave .git/index.lock behind.
Crash ==
    /\ op.pc # "idle"
    /\ op' = IdleOp
    /\ indexLock' \in {indexLock, op.pc \in GitSteps \/ indexLock}
    /\ UNCHANGED <<layers, merging, Bounds>>

-----------------------------------------------------------------------------
(* The host project, external to akb.                                      *)

HostStep == hostSteps < MaxHostSteps /\ hostSteps' = hostSteps + 1

\* The host edits a file of its own, or stages it.
HostEdit ==
    /\ HostStep
    /\ \E f \in HostPaths, c \in Contents \cup {Absent} : worktree' = [worktree EXCEPT ![f] = c]
    /\ UNCHANGED <<staged, head, merging, indexLock, op, ops>>

HostAdd ==
    /\ HostStep
    /\ ~indexLock
    /\ \E f \in HostPaths : staged' = [staged EXCEPT ![f] = worktree[f]]
    /\ UNCHANGED <<worktree, head, merging, indexLock, op, ops>>

\* `git commit` of everything staged; it also ends a merge.
HostCommit ==
    /\ HostStep
    /\ ~indexLock
    /\ head' = staged
    /\ merging' = FALSE
    /\ op' = [op EXCEPT !.clear = TRUE]
    /\ UNCHANGED <<worktree, staged, indexLock, ops>>

\* `git merge`, which git refuses over staged changes, brings in a host file or
\* a page and stops before its commit.
HostMerge ==
    /\ HostStep
    /\ ~indexLock /\ ~merging
    /\ staged = head
    /\ \E q \in HostPaths \cup Pages, c \in Contents :
          /\ worktree[q] = head[q]
          /\ worktree' = [worktree EXCEPT ![q] = c]
          /\ staged' = [staged EXCEPT ![q] = c]
    /\ merging' = TRUE
    /\ UNCHANGED <<head, indexLock, op, ops>>

\* `git merge --abort` resets what is staged, worktree included.
HostMergeAbort ==
    /\ HostStep
    /\ ~indexLock /\ merging
    /\ worktree' = [q \in Paths |-> IF IsStaged(q) THEN head[q] ELSE worktree[q]]
    /\ staged' = head
    /\ merging' = FALSE
    /\ op' = [op EXCEPT !.clear = TRUE]
    /\ UNCHANGED <<head, indexLock, ops>>

\* A git process of the host takes the index lock, and lets go of it, or it died
\* with the lock and somebody removes the file.
HostLock ==
    /\ HostStep
    /\ ~indexLock
    /\ indexLock' = TRUE
    /\ UNCHANGED <<layers, merging, op, ops>>

HostUnlock ==
    /\ indexLock
    /\ indexLock' = FALSE
    /\ UNCHANGED <<layers, merging, op, ops, hostSteps>>

Host ==
    \/ HostEdit \/ HostAdd \/ HostCommit \/ HostMerge \/ HostMergeAbort
    \/ HostLock \/ HostUnlock

Next == Begin \/ OpStep \/ Crash \/ Host

Spec == Init /\ [][Next]_vars

\* A command runs on until it ends; nothing is assumed of the host, whose index
\* lock may stay forever.
FairSpec == Spec /\ WF_vars(OpStep)

-----------------------------------------------------------------------------
AkbStep == op'.pc # op.pc

\* The commit of an operation names its own files and the managed files only.
PathsScoped == op.paths \subseteq op.own \cup Managed

\* SPEC-001: unrelated host worktree changes, staged or not, survive every akb
\* commit untouched.  So do the other pages of the base, the ones an earlier
\* operation left uncommitted included (commitPaths, CommitFiles).
UnrelatedSurvive ==
    [][AkbStep => \A q \in Paths \ (op.own \cup Managed) :
          /\ worktree'[q] = worktree[q]
          /\ staged'[q] = staged[q]
          /\ head'[q] = head[q]]_vars

\* An operation that reports success and was to commit has committed: its own
\* files are in HEAD as they are in the worktree, a page operation leaves none
\* of them staged, and the managed files an operation staged, or an earlier one
\* failed to commit, are not left behind (GitProvider, CommitFiles).
SuccessIsCommitted ==
    [][op'.result = "ok" /\ op.result # "ok" /\ ~op.noCommit =>
          /\ \A q \in op.own : head'[q] = worktree'[q]
          /\ op.kind # "files" =>
                \A q \in op.own \cup Managed : staged'[q] = head'[q]]_vars

\* SPEC-001 REQ-016: an operation that is to commit writes nothing while a merge
\* is in progress that was there when it took the lock; one that starts later
\* can only be met by the recheck (Store.Preflight, checkMergeState).
MergeBlocksMutation ==
    ~op.noCommit /\ op.pc \notin {"idle", "preflight"} /\ op.result # "refused" => op.clear

\* ADR-011: a --no-commit operation leaves its files unstaged, so neither a
\* commit nor a merge of the host can pick them up (Store, GitProvider).
NoCommitStaysUnstaged ==
    [][AkbStep /\ op.noCommit => staged' = staged /\ head' = head]_vars

\* Every operation ends, whatever the host does and even when .git/index.lock
\* was left behind by a dead process: the retries of runGitEnv are bounded, so
\* no command keeps the store lock forever.
EveryOperationEnds == (op.pc # "idle") ~> (op.pc = "idle")

\* "Use --no-commit on all but the last in a batch": after the last write of a
\* batch, the one that commits, every page of the batch is committed.
LastWriteCommitsBatch ==
    [][op'.result = "ok" /\ op.result # "ok" /\ ~op.noCommit /\ op.kind = "page" =>
          \A q \in Pages : head'[q] = worktree'[q]]_vars
=============================================================================
