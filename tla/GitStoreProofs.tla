--------------------------- MODULE GitStoreProofs ---------------------------
(***************************************************************************)
(* What module GitStore promises, for every set of pages, file sets, host  *)
(* files and contents and for every bound.                                 *)
(***************************************************************************)
EXTENDS GitStore, TLAPS

-----------------------------------------------------------------------------
(* The inductive invariant.                                                *)

OpShape ==
    op \in [kind : Kinds, own : SUBSET Paths, noCommit : BOOLEAN, pc : PCs,
            paths : SUBSET Paths, attempts : Nat,
            result : {"none", "ok", "refused", "failed"}, clear : BOOLEAN]

\* The layers are functions on the paths, whatever they hold.
Layers ==
    /\ worktree = [q \in Paths |-> worktree[q]]
    /\ staged = [q \in Paths |-> staged[q]]
    /\ head = [q \in Paths |-> head[q]]

\* A command on one file has one file of its own.
SingleTarget == op.pc # "idle" /\ op.kind # "files" => \E q \in Paths : op.own = {q}

\* A command on a set of files takes the steps of CommitFiles only.
FilesPCs ==
    op.kind = "files" =>
        op.pc \in {"idle", "preflight", "derive", "recheck", "record", "commit", "end"}

\* A merge that the lock holder has not seen the end of is still in progress.
UnclearIsMerging == ~op.clear => merging

\* The steps of an operation that leaves its commit to the caller.
NoCommitPCs == op.noCommit => op.pc \in {"idle", "preflight", "derive", "remove", "end"}

\* Only the preflight refuses, and a refused operation has ended.
RefusedEnds == op.result = "refused" => op.pc = "end"

IInv ==
    /\ OpShape
    /\ Layers
    /\ SingleTarget
    /\ FilesPCs
    /\ PathsScoped
    /\ UnclearIsMerging
    /\ NoCommitPCs
    /\ RefusedEnds
    /\ MergeBlocksMutation

\* The invariant holds of an idle operation in the layers `akb init` leaves.
LEMMA InitIInv == Init => IInv
<1> SUFFICES ASSUME Init PROVE IInv
  OBVIOUS
<1>1. Layers
  BY DEF Init, Layers
<1>2. /\ OpShape /\ SingleTarget /\ FilesPCs /\ PathsScoped /\ UnclearIsMerging
      /\ NoCommitPCs /\ RefusedEnds /\ MergeBlocksMutation
  BY DEF Init, IdleOp, OpShape, Kinds, PCs, SingleTarget, FilesPCs, PathsScoped,
         UnclearIsMerging, NoCommitPCs, RefusedEnds, MergeBlocksMutation
<1> QED
  BY <1>1, <1>2 DEF IInv

\* The target of a command on one file is that file, one of the base.
LEMMA TargetIsOwn ==
    ASSUME IInv, op.pc # "idle", op.kind # "files"
    PROVE  op.own = {Target} /\ Target \in Paths
<1>1. PICK q \in Paths : op.own = {q}
  BY DEF IInv, SingleTarget
<1>2. Target = q
  BY <1>1 DEF Target, Only
<1> QED
  BY <1>1, <1>2

\* Every file set a command may start on holds paths, and one only unless the
\* command is on a set of files (Begin).
LEMMA TargetsArePaths ==
    ASSUME NEW kind \in Kinds, NEW own \in Targets(kind)
    PROVE  own \subseteq Paths /\ (kind # "files" => \E q \in Paths : own = {q})
<1>1. CASE kind \in {"page", "delete"}
  BY <1>1 DEF Targets, Paths, Kinds
<1>2. CASE kind = "managed"
  BY <1>2 DEF Targets, Paths, Kinds
<1>3. CASE kind = "files"
  BY <1>3 DEF Targets, Paths, Kinds
<1> QED
  BY <1>1, <1>2, <1>3 DEF Kinds

-----------------------------------------------------------------------------
(* How a step of the lock holder moves the record of its operation.        *)

\* What no step of an operation changes.
SameCommand ==
    /\ op'.kind = op.kind
    /\ op'.own = op.own
    /\ op'.noCommit = op.noCommit
    /\ op'.clear = op.clear

\* Goto moves the program counter, and nothing of the command.
LEMMA GotoMoves ==
    ASSUME OpShape, NEW pc \in PCs, Goto(pc)
    PROVE  OpShape' /\ SameCommand /\ op'.pc = pc /\ op'.paths = op.paths /\ op'.result = op.result
BY DEF OpShape, Goto, SameCommand

\* Finish ends the operation with a result, and changes nothing of the command.
LEMMA FinishMoves ==
    ASSUME OpShape, NEW result \in {"ok", "refused", "failed"}, Finish(result)
    PROVE  OpShape' /\ SameCommand /\ op'.pc = "end" /\ op'.paths = op.paths /\ op'.result = result
BY DEF OpShape, Finish, SameCommand, PCs

\* The step to the commit names its pathspec, and changes nothing else of the
\* command.
LEMMA ToCommitMoves ==
    ASSUME OpShape, NEW paths \in SUBSET Paths,
           op' = [op EXCEPT !.pc = "commit", !.attempts = 0, !.paths = paths]
    PROVE  OpShape' /\ SameCommand /\ op'.pc = "commit" /\ op'.paths = paths /\ op'.result = op.result
BY DEF OpShape, SameCommand, PCs

\* The invariant after a step, past the preflight, that leaves the command and
\* the merge state as they are: what is left to say of the step is where it
\* goes, with which pathspec and result.
LEMMA OpStepKeeps ==
    ASSUME IInv, op.pc \notin {"idle", "preflight", "end"}, Layers', OpShape', SameCommand,
           op'.paths \subseteq op.own \cup Managed,
           merging' = merging,
           op'.result # "refused",
           op.noCommit => op'.pc \in {"preflight", "derive", "remove", "end"},
           op.kind = "files" =>
               op'.pc \in {"preflight", "derive", "recheck", "record", "commit", "end"}
    PROVE  IInv'
BY DEF IInv, SameCommand, SingleTarget, FilesPCs, PathsScoped, UnclearIsMerging, NoCommitPCs,
       RefusedEnds, MergeBlocksMutation

\* A deletion with --no-commit goes from its managed files to the file itself,
\* every other operation with --no-commit ends; a command on a set of files goes
\* to the recheck of CommitFiles (Store.WriteWithCommitMsg, Store.Delete, Store.Commit).
LEMMA AfterDeriveGoes ==
    ASSUME OpShape
    PROVE  /\ AfterDerive(op) \in PCs
           /\ op.noCommit => AfterDerive(op) \in {"remove", "end"}
           /\ op.kind = "files" => AfterDerive(op) \in {"recheck", "end"}
<1>1. CASE op.noCommit
  <2>1. AfterDerive(op) = IF op.kind = "delete" THEN "remove" ELSE "end"
    BY <1>1 DEF AfterDerive
  <2> QED
    BY <2>1 DEF PCs
<1>2. CASE ~op.noCommit
  <2>1. CASE op.kind = "page"
    BY <1>2, <2>1, AfterDerive(op) = "add" DEF AfterDerive, PCs
  <2>2. CASE op.kind = "delete"
    BY <1>2, <2>2, AfterDerive(op) = "stage" DEF AfterDerive, PCs
  <2>3. CASE op.kind \notin {"page", "delete"}
    BY <1>2, <2>3, AfterDerive(op) = "recheck" DEF AfterDerive, PCs
  <2> QED
    BY <2>1, <2>2, <2>3
<1> QED
  BY <1>1, <1>2

-----------------------------------------------------------------------------
(* The steps keep the invariant: a lemma per action.                       *)

\* Begin starts an operation on paths of its own.
LEMMA BeginKeeps == IInv /\ Begin => IInv'
<1> SUFFICES ASSUME IInv, Begin PROVE IInv'
  OBVIOUS
<1>1. Layers' /\ merging' = merging
  BY DEF IInv, Layers, Begin, layers
<1>2. PICK kind \in Kinds, nc \in BOOLEAN : \E own \in Targets(kind) :
         op' = [IdleOp EXCEPT !.kind = kind, !.own = own, !.noCommit = nc,
                              !.pc = "preflight", !.clear = ~merging]
  BY DEF Begin
<1>3. PICK own \in Targets(kind) :
         op' = [IdleOp EXCEPT !.kind = kind, !.own = own, !.noCommit = nc,
                              !.pc = "preflight", !.clear = ~merging]
  BY <1>2
<1>4. own \subseteq Paths /\ (kind # "files" => \E q \in Paths : own = {q})
  BY TargetsArePaths
<1>5. op' = [kind |-> kind, own |-> own, noCommit |-> nc, pc |-> "preflight", paths |-> {},
             attempts |-> 0, result |-> "none", clear |-> ~merging]
  BY <1>3 DEF IdleOp
<1>6. OpShape'
  BY <1>4, <1>5 DEF OpShape, PCs
<1>7. /\ SingleTarget' /\ FilesPCs' /\ PathsScoped'
      /\ NoCommitPCs' /\ RefusedEnds' /\ MergeBlocksMutation'
  BY <1>4, <1>5 DEF SingleTarget, FilesPCs, PathsScoped, NoCommitPCs, RefusedEnds, MergeBlocksMutation
<1>8. UnclearIsMerging'
  BY <1>1, <1>5 DEF UnclearIsMerging
<1> QED
  BY <1>1, <1>6, <1>7, <1>8 DEF IInv

\* Preflight lets an operation that commits go on only when no merge is left,
\* and then none was left unseen since the operation took the lock.
LEMMA PreflightKeeps == IInv /\ Preflight => IInv'
<1> SUFFICES ASSUME IInv, Preflight PROVE IInv'
  OBVIOUS
<1>1. Layers' /\ merging' = merging
  BY DEF IInv, Layers, Preflight, layers
<1>2. OpShape /\ op.pc = "preflight"
  BY DEF IInv, Preflight
<1>3. CASE Finish("refused") /\ ~op.noCommit
  <2>1. OpShape' /\ SameCommand /\ op'.pc = "end" /\ op'.paths = op.paths /\ op'.result = "refused"
    BY <1>2, <1>3, FinishMoves
  <2> QED
    BY <1>1, <1>2, <1>3, <2>1 DEF IInv, SameCommand, SingleTarget, FilesPCs, PathsScoped,
       UnclearIsMerging, NoCommitPCs, RefusedEnds, MergeBlocksMutation
<1>4. CASE Goto("derive") /\ ~MergeRefuses
  <2>1. OpShape' /\ SameCommand /\ op'.pc = "derive" /\ op'.paths = op.paths /\ op'.result = op.result
    BY <1>2, <1>4, GotoMoves DEF PCs
  <2>2. op.noCommit \/ op.clear
    BY <1>2, <1>4 DEF IInv, UnclearIsMerging, MergeRefuses, OpShape
  <2> QED
    BY <1>1, <1>2, <2>1, <2>2 DEF IInv, SameCommand, SingleTarget, FilesPCs, PathsScoped,
       UnclearIsMerging, NoCommitPCs, RefusedEnds, MergeBlocksMutation
<1> QED
  BY <1>3, <1>4 DEF Preflight, MergeRefuses

\* Derive, the worktree mutation.
LEMMA DeriveKeeps == IInv /\ Derive => IInv'
<1> SUFFICES ASSUME IInv, Derive PROVE IInv'
  OBVIOUS
<1>1. Layers' /\ merging' = merging
  BY DEF IInv, Layers, Derive
<1>2. /\ OpShape /\ op.pc = "derive" /\ op.result # "refused"
      /\ op.paths \subseteq op.own \cup Managed
  BY DEF IInv, Derive, PathsScoped, RefusedEnds
<1>3. CASE AfterDerive(op) = "end" /\ Finish("ok")
  <2>1. OpShape' /\ SameCommand /\ op'.pc = "end" /\ op'.paths = op.paths /\ op'.result = "ok"
    BY <1>2, <1>3, FinishMoves
  <2> QED
    BY <1>1, <1>2, <2>1, OpStepKeeps
<1>4. CASE Goto(AfterDerive(op))
  <2>1. /\ OpShape' /\ SameCommand /\ op'.pc = AfterDerive(op)
        /\ op'.paths = op.paths /\ op'.result = op.result
    BY <1>2, <1>4, GotoMoves, AfterDeriveGoes
  <2> QED
    BY <1>1, <1>2, <2>1, OpStepKeeps, AfterDeriveGoes
<1> QED
  BY <1>3, <1>4 DEF Derive

\* StageManaged stages the managed files of a deletion.
LEMMA StageManagedKeeps == IInv /\ StageManaged => IInv'
<1> SUFFICES ASSUME IInv, StageManaged PROVE IInv'
  OBVIOUS
<1>1. Layers' /\ merging' = merging
  BY DEF IInv, Layers, StageManaged
<1>2. /\ OpShape /\ op.pc = "stage" /\ op.result # "refused" /\ ~op.noCommit
      /\ op.paths \subseteq op.own \cup Managed
  BY DEF IInv, StageManaged, PathsScoped, RefusedEnds, NoCommitPCs
<1>3. /\ OpShape' /\ SameCommand /\ op'.pc = "recheck"
      /\ op'.paths = op.paths /\ op'.result = op.result
  BY <1>2, GotoMoves DEF StageManaged, PCs
<1> QED
  BY <1>1, <1>2, <1>3, OpStepKeeps

\* Recheck, the provider's own merge check, which every commit goes through.
LEMMA RecheckKeeps == IInv /\ Recheck => IInv'
<1> SUFFICES ASSUME IInv, Recheck PROVE IInv'
  OBVIOUS
<1>1. Layers' /\ merging' = merging
  BY DEF IInv, Layers, Recheck, layers
<1>2. /\ OpShape /\ op.pc = "recheck" /\ op.result # "refused" /\ ~op.noCommit
      /\ op.paths \subseteq op.own \cup Managed
  BY DEF IInv, Recheck, PathsScoped, RefusedEnds, NoCommitPCs
<1>3. CASE Finish("failed")
  <2>1. OpShape' /\ SameCommand /\ op'.pc = "end" /\ op'.paths = op.paths /\ op'.result = "failed"
    BY <1>2, <1>3, FinishMoves
  <2> QED
    BY <1>1, <1>2, <2>1, OpStepKeeps
<1>4. CASE /\ op.kind = "files"
           /\ Goto("record")
  <2>1. OpShape' /\ SameCommand /\ op'.pc = "record" /\ op'.paths = op.paths /\ op'.result = op.result
    BY <1>2, <1>4, GotoMoves DEF PCs
  <2> QED
    BY <1>1, <1>2, <2>1, OpStepKeeps
<1>5. CASE /\ op.kind # "files"
           /\ Goto("remove") \/ Goto("add")
  <2>1. OpShape' /\ SameCommand /\ op'.paths = op.paths /\ op'.result = op.result
    BY <1>2, <1>5, GotoMoves DEF PCs
  <2> QED
    BY <1>1, <1>2, <1>5, <2>1, OpStepKeeps
<1>6. /\ op.kind = "delete" =>
           (CASE op.kind = "delete" -> "remove" [] op.kind = "files" -> "record" [] OTHER -> "add") = "remove"
      /\ op.kind = "files" =>
           (CASE op.kind = "delete" -> "remove" [] op.kind = "files" -> "record" [] OTHER -> "add") = "record"
      /\ op.kind \notin {"delete", "files"} =>
           (CASE op.kind = "delete" -> "remove" [] op.kind = "files" -> "record" [] OTHER -> "add") = "add"
  OBVIOUS
<1> QED
  BY <1>3, <1>4, <1>5, <1>6 DEF Recheck

\* Remove, the removal of the file of a deletion.
LEMMA RemoveKeeps == IInv /\ Remove => IInv'
<1> SUFFICES ASSUME IInv, Remove PROVE IInv'
  OBVIOUS
<1>1. Layers' /\ merging' = merging
  BY DEF IInv, Layers, Remove
<1>2. /\ OpShape /\ op.pc = "remove" /\ op.result # "refused" /\ op.kind # "files"
      /\ op.paths \subseteq op.own \cup Managed
  BY DEF IInv, Remove, PathsScoped, RefusedEnds, FilesPCs
<1>3. CASE Finish("failed") \/ Finish("ok")
  <2>1. OpShape' /\ SameCommand /\ op'.pc = "end" /\ op'.paths = op.paths /\ op'.result # "refused"
    BY <1>2, <1>3, FinishMoves
  <2> QED
    BY <1>1, <1>2, <2>1, OpStepKeeps
<1>4. CASE ~op.noCommit /\ (Goto("add") \/ Goto("paths"))
  <2>1. OpShape' /\ SameCommand /\ op'.paths = op.paths /\ op'.result = op.result
    BY <1>2, <1>4, GotoMoves DEF PCs
  <2> QED
    BY <1>1, <1>2, <1>4, <2>1, OpStepKeeps
<1> QED
  BY <1>3, <1>4 DEF Remove

\* Add, gitAdd of the target.
LEMMA AddKeeps == IInv /\ Add => IInv'
<1> SUFFICES ASSUME IInv, Add PROVE IInv'
  OBVIOUS
<1>1. Layers' /\ merging' = merging
  BY DEF IInv, Layers, Add
<1>2. /\ OpShape /\ op.pc = "add" /\ op.result # "refused" /\ ~op.noCommit /\ op.kind # "files"
      /\ op.paths \subseteq op.own \cup Managed
  BY DEF IInv, Add, PathsScoped, RefusedEnds, NoCommitPCs, FilesPCs
<1>3. OpShape' /\ SameCommand /\ op'.pc = "paths" /\ op'.paths = op.paths /\ op'.result = op.result
  BY <1>2, GotoMoves DEF Add, PCs
<1> QED
  BY <1>1, <1>2, <1>3, OpStepKeeps

\* The pathspec of a commit of one file names that file and managed files.
LEMMA CommitPathsScoped ==
    ASSUME IInv, op.pc # "idle", op.kind # "files"
    PROVE  CommitPaths(Target) \in SUBSET Paths /\ CommitPaths(Target) \subseteq op.own \cup Managed
BY TargetIsOwn DEF CommitPaths, Paths

\* ComputePaths, the pathspec of the commit.
LEMMA ComputePathsKeeps == IInv /\ ComputePaths => IInv'
<1> SUFFICES ASSUME IInv, ComputePaths PROVE IInv'
  OBVIOUS
<1>1. Layers' /\ merging' = merging
  BY DEF IInv, Layers, ComputePaths, layers
<1>2. /\ OpShape /\ op.pc = "paths" /\ op.result # "refused" /\ ~op.noCommit /\ op.kind # "files"
      /\ op.paths \subseteq op.own \cup Managed
  BY DEF IInv, ComputePaths, PathsScoped, RefusedEnds, NoCommitPCs, FilesPCs
<1>3. CASE Finish("ok")
  <2>1. OpShape' /\ SameCommand /\ op'.pc = "end" /\ op'.paths = op.paths /\ op'.result = "ok"
    BY <1>2, <1>3, FinishMoves
  <2> QED
    BY <1>1, <1>2, <2>1, OpStepKeeps
<1>4. CASE op' = [op EXCEPT !.pc = "commit", !.attempts = 0, !.paths = CommitPaths(Target)]
  <2>1. CommitPaths(Target) \in SUBSET Paths /\ CommitPaths(Target) \subseteq op.own \cup Managed
    BY <1>2, CommitPathsScoped
  <2>2. /\ OpShape' /\ SameCommand /\ op'.pc = "commit"
        /\ op'.paths = CommitPaths(Target) /\ op'.result = op.result
    BY <1>2, <1>4, <2>1, ToCommitMoves
  <2> QED
    BY <1>1, <1>2, <2>1, <2>2, OpStepKeeps
<1> QED
  BY <1>3, <1>4 DEF ComputePaths

\* Record, the staging of CommitFiles.
LEMMA RecordKeeps == IInv /\ Record => IInv'
<1> SUFFICES ASSUME IInv, Record PROVE IInv'
  OBVIOUS
<1>1. Layers' /\ merging' = merging
  BY DEF IInv, Layers, Record
<1>2. /\ OpShape /\ op.pc = "record" /\ op.result # "refused" /\ ~op.noCommit
      /\ op.paths \subseteq op.own \cup Managed
  BY DEF IInv, Record, PathsScoped, RefusedEnds, NoCommitPCs
<1>3. CASE Finish("failed")
  <2>1. OpShape' /\ SameCommand /\ op'.pc = "end" /\ op'.paths = op.paths /\ op'.result = "failed"
    BY <1>2, <1>3, FinishMoves
  <2> QED
    BY <1>1, <1>2, <2>1, OpStepKeeps
<1>4. CASE op' = [op EXCEPT !.pc = "commit", !.attempts = 0, !.paths = Recordable]
  <2>1. Recordable \in SUBSET Paths /\ Recordable \subseteq op.own
    BY <1>2 DEF Recordable, OpShape
  <2>2. /\ OpShape' /\ SameCommand /\ op'.pc = "commit"
        /\ op'.paths = Recordable /\ op'.result = op.result
    BY <1>2, <1>4, <2>1, ToCommitMoves
  <2> QED
    BY <1>1, <1>2, <2>1, <2>2, OpStepKeeps
<1> QED
  BY <1>3, <1>4 DEF Record

\* Commit ends the operation, committed or not.
LEMMA CommitKeeps == IInv /\ Commit => IInv'
<1> SUFFICES ASSUME IInv, Commit PROVE IInv'
  OBVIOUS
<1>1. Layers' /\ merging' = merging
  BY DEF IInv, Layers, Commit
<1>2. /\ OpShape /\ op.pc = "commit" /\ op.result # "refused"
      /\ op.paths \subseteq op.own \cup Managed
  BY DEF IInv, Commit, PathsScoped, RefusedEnds
<1>3. PICK result \in {"ok", "failed"} : Finish(result)
  BY DEF Commit
<1>4. OpShape' /\ SameCommand /\ op'.pc = "end" /\ op'.paths = op.paths /\ op'.result = result
  BY <1>2, <1>3, FinishMoves
<1> QED
  BY <1>1, <1>2, <1>3, <1>4, OpStepKeeps

\* Contend repeats the git command of the same step.
LEMMA ContendKeeps == IInv /\ Contend => IInv'
<1> SUFFICES ASSUME IInv, Contend PROVE IInv'
  OBVIOUS
<1>1. Layers' /\ merging' = merging
  BY DEF IInv, Layers, Contend, layers
<1>2. /\ OpShape /\ op.pc \in GitSteps /\ op.result # "refused"
      /\ op.paths \subseteq op.own \cup Managed
      /\ op.noCommit => op.pc \in {"idle", "preflight", "derive", "remove", "end"}
      /\ op.kind = "files" => op.pc \in {"record", "commit"}
  BY DEF IInv, Contend, PathsScoped, RefusedEnds, NoCommitPCs, FilesPCs, GitSteps
<1>3. op' = [op EXCEPT !.attempts = op.attempts + 1]
  BY DEF Contend, NextAttempt
<1>4. OpShape' /\ SameCommand /\ op'.pc = op.pc /\ op'.paths = op.paths /\ op'.result = op.result
  BY <1>2, <1>3 DEF OpShape, SameCommand
<1> QED
  BY <1>1, <1>2, <1>4, OpStepKeeps DEF GitSteps

\* GiveUp fails the operation, or leaves the managed files of a deletion unstaged.
LEMMA GiveUpKeeps == IInv /\ GiveUp => IInv'
<1> SUFFICES ASSUME IInv, GiveUp PROVE IInv'
  OBVIOUS
<1>1. Layers' /\ merging' = merging
  BY DEF IInv, Layers, GiveUp, layers
<1>2. /\ OpShape /\ op.pc \in GitSteps /\ op.result # "refused" /\ ~op.noCommit
      /\ op.paths \subseteq op.own \cup Managed
  BY DEF IInv, GiveUp, PathsScoped, RefusedEnds, NoCommitPCs, GitSteps
<1>3. CASE Finish("failed")
  <2>1. OpShape' /\ SameCommand /\ op'.pc = "end" /\ op'.paths = op.paths /\ op'.result = "failed"
    BY <1>2, <1>3, FinishMoves
  <2> QED
    BY <1>1, <1>2, <2>1, OpStepKeeps DEF GitSteps
<1>4. CASE Goto("recheck")
  <2>1. OpShape' /\ SameCommand /\ op'.pc = "recheck" /\ op'.paths = op.paths /\ op'.result = op.result
    BY <1>2, <1>4, GotoMoves DEF PCs
  <2> QED
    BY <1>1, <1>2, <2>1, OpStepKeeps DEF GitSteps
<1> QED
  BY <1>3, <1>4 DEF GiveUp

\* End and a crash leave no operation behind.
LEMMA IdleKeeps ==
    ASSUME IInv, op' = IdleOp, UNCHANGED <<layers, merging>>
    PROVE  IInv'
<1>1. Layers' /\ merging' = merging
  BY DEF IInv, Layers, layers
<1>2. /\ OpShape' /\ SingleTarget' /\ FilesPCs' /\ PathsScoped' /\ UnclearIsMerging'
      /\ NoCommitPCs' /\ RefusedEnds' /\ MergeBlocksMutation'
  BY DEF IdleOp, OpShape, Kinds, PCs, SingleTarget, FilesPCs, PathsScoped, UnclearIsMerging,
         NoCommitPCs, RefusedEnds, MergeBlocksMutation
<1> QED
  BY <1>1, <1>2 DEF IInv

\* A step of the host leaves the operation alone, but for what the operation has
\* seen of the merge; it ends a merge only together with that.
LEMMA HostKeeps == IInv /\ Host => IInv'
<1> SUFFICES ASSUME IInv, Host PROVE IInv'
  OBVIOUS
<1>1. Layers'
  BY DEF IInv, Layers, Host, HostEdit, HostAdd, HostCommit, HostMerge, HostMergeAbort,
         HostLock, HostUnlock, layers
<1>2. CASE op' = op /\ (merging' = merging \/ merging' = TRUE)
  BY <1>1, <1>2 DEF IInv, OpShape, SingleTarget, FilesPCs, PathsScoped, UnclearIsMerging,
     NoCommitPCs, RefusedEnds, MergeBlocksMutation
<1>3. CASE op' = [op EXCEPT !.clear = TRUE]
  <2>1. OpShape'
    BY <1>3 DEF IInv, OpShape
  <2>2. /\ op'.kind = op.kind /\ op'.own = op.own /\ op'.noCommit = op.noCommit
        /\ op'.pc = op.pc /\ op'.paths = op.paths /\ op'.result = op.result /\ op'.clear
    BY <1>3 DEF IInv, OpShape
  <2> QED
    BY <1>1, <2>1, <2>2 DEF IInv, SingleTarget, FilesPCs, PathsScoped, UnclearIsMerging,
       NoCommitPCs, RefusedEnds, MergeBlocksMutation
<1> QED
  BY <1>2, <1>3 DEF Host, HostEdit, HostAdd, HostCommit, HostMerge, HostMergeAbort,
     HostLock, HostUnlock

\* Every step keeps the invariant.
LEMMA NextKeeps == IInv /\ [Next]_vars => IInv'
<1> SUFFICES ASSUME IInv, [Next]_vars PROVE IInv'
  OBVIOUS
<1>1. CASE Begin
  BY <1>1, BeginKeeps
<1>2. CASE OpStep
  BY <1>2, PreflightKeeps, DeriveKeeps, StageManagedKeeps, RecheckKeeps, RemoveKeeps, AddKeeps,
     ComputePathsKeeps, RecordKeeps, CommitKeeps, ContendKeeps, GiveUpKeeps, IdleKeeps
  DEF OpStep, End
<1>3. CASE Crash
  BY <1>3, IdleKeeps DEF Crash
<1>4. CASE Host
  BY <1>4, HostKeeps
<1>5. CASE UNCHANGED vars
  BY <1>5 DEF vars, layers, IInv, OpShape, Layers, SingleTarget, FilesPCs, PathsScoped,
     UnclearIsMerging, NoCommitPCs, RefusedEnds, MergeBlocksMutation
<1> QED
  BY <1>1, <1>2, <1>3, <1>4, <1>5 DEF Next

\* The inductive invariant holds in every reachable state.
THEOREM GitStoreInvariant == Spec => []IInv
<1> QED
  BY InitIInv, NextKeeps, PTL DEF Spec

\* SPEC-001 REQ-016: past its preflight, no operation that is to commit works
\* while the merge that was there when it took the lock is still unfinished
\* (checkMergeState under Store.Preflight).
THEOREM GitStoreMergeBlocks == Spec => []MergeBlocksMutation
<1>1. IInv => MergeBlocksMutation
  BY DEF IInv
<1> QED
  BY <1>1, GitStoreInvariant, PTL

-----------------------------------------------------------------------------
(* What a step of akb leaves alone.                                        *)

\* A step that moves the operation is a step of akb, not of the host.
LEMMA AkbStepIsOps ==
    ASSUME IInv, [Next]_vars, AkbStep
    PROVE  Begin \/ OpStep \/ Crash
<1>1. ~UNCHANGED vars
  BY DEF AkbStep, vars
<1>2. ~Host
  BY DEF IInv, OpShape, AkbStep, Host, HostEdit, HostAdd, HostCommit, HostMerge,
     HostMergeAbort, HostLock, HostUnlock
<1> QED
  BY <1>1, <1>2 DEF Next

\* A step of an operation reaches its own files and the managed files only.
LEMMA OpTouchesOwn ==
    ASSUME IInv, Begin \/ OpStep \/ Crash, NEW q \in Paths \ (op.own \cup Managed)
    PROVE  worktree'[q] = worktree[q] /\ staged'[q] = staged[q] /\ head'[q] = head[q]
<1> USE DEF layers
<1>1. CASE Begin \/ Preflight \/ Recheck \/ ComputePaths \/ Contend \/ GiveUp \/ End \/ Crash
  BY <1>1 DEF Begin, Preflight, Recheck, ComputePaths, Contend, GiveUp, End, Crash
<1>2. CASE Derive
  BY <1>2 DEF Derive
<1>3. CASE StageManaged
  BY <1>3 DEF StageManaged
<1>4. CASE Remove \/ Add
  <2>1. op.own = {Target} /\ Target \in Paths
    BY <1>4, TargetIsOwn DEF IInv, FilesPCs, Remove, Add
  <2> QED
    BY <1>4, <2>1 DEF Remove, Add, IInv, Layers
<1>5. CASE Record
  BY <1>5 DEF Record, Recordable
<1>6. CASE Commit
  BY <1>6 DEF Commit, IInv, PathsScoped
<1> QED
  BY <1>1, <1>2, <1>3, <1>4, <1>5, <1>6 DEF OpStep

\* SPEC-001: the unrelated changes of the host and the other pages of the base
\* survive every step of every akb operation untouched, in the worktree, in the
\* index and in HEAD (commitPaths, recordablePaths and gitCommit --only).
THEOREM GitStoreUnrelatedSurvive == Spec => UnrelatedSurvive
<1>1. ASSUME IInv, [Next]_vars
      PROVE  [AkbStep => \A q \in Paths \ (op.own \cup Managed) :
                 /\ worktree'[q] = worktree[q]
                 /\ staged'[q] = staged[q]
                 /\ head'[q] = head[q]]_vars
  BY <1>1, AkbStepIsOps, OpTouchesOwn
<1> QED
  BY <1>1, GitStoreInvariant, PTL DEF Spec, UnrelatedSurvive

\* ADR-011: an operation with --no-commit moves the worktree only, so that what
\* it wrote stays out of every commit and merge of the host (Store, GitProvider).
THEOREM GitStoreNoCommit == Spec => NoCommitStaysUnstaged
<1>1. ASSUME IInv, [Next]_vars
      PROVE  [AkbStep /\ op.noCommit => staged' = staged /\ head' = head]_vars
  <2>1. ASSUME AkbStep, op.noCommit
        PROVE  staged' = staged /\ head' = head
    <3>1. op.pc \in {"idle", "preflight", "derive", "remove", "end"}
      BY <1>1, <2>1 DEF IInv, NoCommitPCs
    <3> QED
      BY <1>1, <2>1, <3>1, AkbStepIsOps
      DEF OpStep, layers, Begin, Preflight, Derive, StageManaged, Recheck, Remove, Add,
          ComputePaths, Record, Commit, Contend, GiveUp, End, Crash, GitSteps
  <2> QED
    BY <2>1
<1> QED
  BY <1>1, GitStoreInvariant, PTL DEF Spec, NoCommitStaysUnstaged

-----------------------------------------------------------------------------
(* Types.                                                                  *)

\* The number of attempts stays below MaxAttempts: a further one is counted only
\* when it is not the last (runGitEnv).
LEMMA AttemptsBounded ==
    ASSUME IInv, TypeOK, [Next]_vars
    PROVE  op'.attempts \in 0 .. MaxAttempts - 1
<1> USE GitStoreAssumption DEF TypeOK
<1>1. CASE op' = op \/ op' = [op EXCEPT !.clear = TRUE]
  BY <1>1
<1>2. CASE op'.attempts = 0
  BY <1>2
<1>3. CASE Contend
  BY <1>3 DEF Contend, OutOfAttempts, NextAttempt
<1>4. ASSUME NEW pc, Goto(pc) PROVE op'.attempts = 0
  BY <1>4 DEF Goto
<1>5. ASSUME NEW result, Finish(result) PROVE op'.attempts = 0
  BY <1>5 DEF Finish
<1>6. CASE OpStep /\ ~Contend
  <2>1. CASE Preflight \/ Derive \/ StageManaged \/ Recheck \/ Remove \/ Add \/ Commit \/ GiveUp
    BY <2>1, <1>2, <1>4, <1>5
    DEF Preflight, Derive, StageManaged, Recheck, Remove, Add, Commit, GiveUp
  <2>2. CASE ComputePaths \/ Record
    <3>1. ASSUME NEW paths, op' = [op EXCEPT !.pc = "commit", !.attempts = 0, !.paths = paths]
          PROVE  op'.attempts = 0
      BY <3>1
    <3>2. (\E result : Finish(result))
          \/ \E paths : op' = [op EXCEPT !.pc = "commit", !.attempts = 0, !.paths = paths]
      BY <2>2 DEF ComputePaths, Record
    <3> QED
      BY <3>1, <3>2, <1>2, <1>5
  <2>3. CASE End
    BY <2>3, <1>2 DEF End, IdleOp
  <2> QED
    BY <1>6, <2>1, <2>2, <2>3 DEF OpStep
<1>7. CASE Begin
  <2>1. PICK kind \in Kinds, nc \in BOOLEAN : \E own \in Targets(kind) :
           op' = [IdleOp EXCEPT !.kind = kind, !.own = own, !.noCommit = nc,
                                !.pc = "preflight", !.clear = ~merging]
    BY <1>7 DEF Begin
  <2>2. op'.attempts = 0
    BY <2>1 DEF IdleOp
  <2> QED
    BY <2>2, <1>2
<1>8. CASE Crash
  BY <1>8, <1>2 DEF Crash, IdleOp
<1>9. CASE Host \/ UNCHANGED vars
  BY <1>9, <1>1 DEF Host, HostEdit, HostAdd, HostCommit, HostMerge, HostMergeAbort, HostLock,
     HostUnlock, vars
<1> QED
  BY <1>3, <1>6, <1>7, <1>8, <1>9 DEF Next

Layer == [Paths -> Contents \cup {Absent}]

\* Every step puts contents into the layers that are in a layer already, or that
\* a command or the host wrote.
LEMMA LayersTyped ==
    ASSUME IInv, TypeOK, [Next]_vars
    PROVE  worktree' \in Layer /\ staged' \in Layer /\ head' \in Layer
<1> USE DEF TypeOK, Layer, layers
<1>1. CASE Begin \/ Preflight \/ Recheck \/ ComputePaths \/ Contend \/ GiveUp \/ End \/ Crash
  BY <1>1 DEF Begin, Preflight, Recheck, ComputePaths, Contend, GiveUp, End, Crash
<1>2. CASE Derive
  <2> DEFINE derived == IF op.kind = "delete" THEN Managed ELSE op.own
  <2>1. PICK f \in [derived -> Contents \cup {Absent}] :
            worktree' = [q \in Paths |-> IF q \in derived THEN f[q] ELSE worktree[q]]
    BY <1>2 DEF Derive
  <2> QED
    BY <1>2, <2>1 DEF Derive
<1>3. CASE StageManaged
  BY <1>3 DEF StageManaged
<1>4. CASE Remove \/ Add
  <2>1. Target \in Paths
    BY <1>4, TargetIsOwn DEF IInv, FilesPCs, Remove, Add
  <2> QED
    BY <1>4, <2>1 DEF Remove, Add
<1>5. CASE Record
  BY <1>5 DEF Record
<1>6. CASE Commit
  BY <1>6 DEF Commit
<1>7. CASE Host
  BY <1>7 DEF Host, HostEdit, HostAdd, HostCommit, HostMerge, HostMergeAbort, HostLock,
     HostUnlock, Paths
<1>8. CASE UNCHANGED vars
  BY <1>8 DEF vars
<1> QED
  BY <1>1, <1>2, <1>3, <1>4, <1>5, <1>6, <1>7, <1>8 DEF OpStep, Next

\* Every variable of the git store has its type: no operation makes more
\* attempts at a git command than indexLockRetryAttempts (runGitEnv).
THEOREM GitStoreType == Spec => []TypeOK
<1>1. ASSUME Init PROVE TypeOK
  <2>1. PICK c \in Contents :
          head = [q \in Paths |-> IF q \in Managed \cup HostPaths THEN c ELSE Absent]
    BY <1>1 DEF Init
  <2>2. head \in [Paths -> Contents \cup {Absent}]
    BY <2>1
  <2>3. op \in [kind : Kinds, own : SUBSET Paths, noCommit : BOOLEAN, pc : PCs,
               paths : SUBSET Paths, attempts : 0 .. MaxAttempts - 1,
               result : {"none", "ok", "refused", "failed"}, clear : BOOLEAN]
    BY <1>1, GitStoreAssumption DEF Init, IdleOp, Kinds, PCs
  <2>4. worktree \in [Paths -> Contents \cup {Absent}] /\ staged \in [Paths -> Contents \cup {Absent}]
    BY <1>1, <2>2 DEF Init
  <2>5. ops \in 0 .. MaxOps /\ hostSteps \in 0 .. MaxHostSteps
    BY <1>1, GitStoreAssumption DEF Init
  <2>6. merging \in BOOLEAN /\ indexLock \in BOOLEAN
    BY <1>1 DEF Init
  <2> QED
    BY <2>2, <2>3, <2>4, <2>5, <2>6 DEF TypeOK
<1>2. ASSUME IInv, TypeOK, [Next]_vars
      PROVE  TypeOK'
  <2>1. IInv'
    BY <1>2, NextKeeps
  <2>2. /\ op' \in [kind : Kinds, own : SUBSET Paths, noCommit : BOOLEAN, pc : PCs,
                    paths : SUBSET Paths, attempts : 0 .. MaxAttempts - 1,
                    result : {"none", "ok", "refused", "failed"}, clear : BOOLEAN]
    BY <1>2, <2>1, AttemptsBounded DEF IInv, OpShape
  <2>3. merging' \in BOOLEAN /\ indexLock' \in BOOLEAN
    BY <1>2 DEF TypeOK, Next, OpStep, Begin, Preflight, Derive, StageManaged, Recheck, Remove, Add,
       ComputePaths, Record, Commit, Contend, GiveUp, End, Crash, Host, HostEdit, HostAdd,
       HostCommit, HostMerge, HostMergeAbort, HostLock, HostUnlock, vars
  <2>4. ops' = ops \/ Begin
    BY <1>2 DEF layers, Next, OpStep, Preflight, Derive, StageManaged, Recheck, Remove, Add, ComputePaths,
       Record, Commit, Contend, GiveUp, End, Crash, Bounds, Host, HostEdit, HostAdd, HostCommit,
       HostMerge, HostMergeAbort, HostLock, HostUnlock, vars
  <2>5. ops' \in 0 .. MaxOps
    <3>1. CASE Begin
      BY <1>2, <3>1, GitStoreAssumption DEF TypeOK, Begin
    <3> QED
      BY <1>2, <2>4, <3>1 DEF TypeOK
  <2>6. hostSteps' = hostSteps \/ HostStep
    BY <1>2 DEF layers, Next, OpStep, Begin, Preflight, Derive, StageManaged, Recheck, Remove, Add,
       ComputePaths, Record, Commit, Contend, GiveUp, End, Crash, Bounds, Host, HostEdit, HostAdd,
       HostCommit, HostMerge, HostMergeAbort, HostLock, HostUnlock, vars
  <2>7. hostSteps' \in 0 .. MaxHostSteps
    BY <1>2, <2>6, GitStoreAssumption DEF TypeOK, HostStep
  <2> QED
    BY <1>2, <2>2, <2>3, <2>5, <2>7, LayersTyped DEF TypeOK, Layer
<1> QED
  BY <1>1, <1>2, InitIInv, GitStoreInvariant, PTL DEF Spec

-----------------------------------------------------------------------------
(* What an operation knows when it comes to its commit.                    *)

\* An operation has files of the base only, never of the host project.
OwnIsBase == op.own \cap HostPaths = {}

\* CommitFiles is for sets of files.
RecordIsFiles == op.pc = "record" => op.kind = "files"

\* An operation on one file has it staged as it is in the worktree, and when
\* its pathspec leaves a file out, that file had nothing to commit.  The host may
\* have started a merge since, which ends in a commit or in an abort.
PageStaged ==
    op.kind # "files" /\ op.pc \in {"paths", "commit"} =>
        \A q \in op.own : staged[q] = worktree[q]
PageRestClean ==
    op.kind # "files" /\ op.pc = "commit" =>
        merging \/ \A q \in (op.own \cup Managed) \ op.paths : staged[q] = head[q]

\* The same for a set of files; a commit of the host that took the files along
\* leaves the operation nothing to commit.
SetStaged ==
    op.kind = "files" /\ op.pc = "commit" => \A q \in op.paths : staged[q] = worktree[q]
SetRestClean ==
    op.kind = "files" /\ op.pc = "commit" =>
        \/ merging
        \/ \A q \in op.own \ op.paths : worktree[q] = head[q]
        \/ \A q \in op.paths : worktree[q] = head[q]

Prepared == OwnIsBase /\ RecordIsFiles /\ PageStaged /\ PageRestClean /\ SetStaged /\ SetRestClean

\* A step that ends short of the commit needs no preparation.
LEMMA ShortOfCommit ==
    ASSUME Prepared, SameCommand, op'.pc \notin {"record", "paths", "commit"}
    PROVE  Prepared'
BY DEF Prepared, SameCommand, OwnIsBase, RecordIsFiles, PageStaged, PageRestClean, SetStaged,
       SetRestClean

\* So does an idle operation.
LEMMA IdleIsPrepared == ASSUME op' = IdleOp PROVE Prepared'
BY DEF Prepared, IdleOp, OwnIsBase, RecordIsFiles, PageStaged, PageRestClean, SetStaged,
       SetRestClean

\* The steps before the staging.
LEMMA EarlyPrepared ==
    ASSUME IInv, Prepared, Preflight \/ Derive \/ StageManaged \/ Recheck
    PROVE  Prepared'
<1>1. OpShape
  BY DEF IInv
<1>2. AfterDerive(op) \in {"end", "remove", "add", "stage", "recheck"}
  <2>1. CASE op.noCommit
    <3>1. AfterDerive(op) = IF op.kind = "delete" THEN "remove" ELSE "end"
      BY <2>1 DEF AfterDerive
    <3> QED
      BY <3>1
  <2>2. CASE ~op.noCommit
    <3>1. CASE op.kind = "page"
      BY <2>2, <3>1, AfterDerive(op) = "add" DEF AfterDerive
    <3>2. CASE op.kind = "delete"
      BY <2>2, <3>2, AfterDerive(op) = "stage" DEF AfterDerive
    <3>3. CASE op.kind \notin {"page", "delete"}
      BY <2>2, <3>3, AfterDerive(op) = "recheck" DEF AfterDerive
    <3> QED
      BY <3>1, <3>2, <3>3
  <2> QED
    BY <2>1, <2>2
<1>3. ASSUME NEW result \in {"ok", "refused", "failed"}, Finish(result)
      PROVE  Prepared'
  BY <1>1, <1>3, FinishMoves, ShortOfCommit
<1>4. ASSUME NEW pc \in PCs, pc \notin {"record", "paths", "commit"}, Goto(pc)
      PROVE  Prepared'
  BY <1>1, <1>4, GotoMoves, ShortOfCommit
<1>5. CASE Preflight
  BY <1>3, <1>4, <1>5 DEF Preflight, PCs
<1>6. CASE Derive
  BY <1>2, <1>3, <1>4, <1>6 DEF Derive, PCs
<1>7. CASE StageManaged
  BY <1>4, <1>7 DEF StageManaged, PCs
<1>8. CASE Recheck
  <2>1. CASE Finish("failed")
    BY <1>3, <2>1
  <2>2. CASE op.kind = "files" /\ Goto("record")
    <3>1. SameCommand /\ op'.pc = "record"
      BY <1>1, <2>2, GotoMoves DEF PCs
    <3> QED
      BY <2>2, <3>1 DEF Prepared, SameCommand, OwnIsBase, RecordIsFiles, PageStaged, PageRestClean,
         SetStaged, SetRestClean
  <2>3. CASE Goto("remove") \/ Goto("add")
    BY <1>4, <2>3 DEF PCs
  <2>4. /\ op.kind = "delete" =>
             (CASE op.kind = "delete" -> "remove" [] op.kind = "files" -> "record" [] OTHER -> "add") = "remove"
        /\ op.kind = "files" =>
             (CASE op.kind = "delete" -> "remove" [] op.kind = "files" -> "record" [] OTHER -> "add") = "record"
        /\ op.kind \notin {"delete", "files"} =>
             (CASE op.kind = "delete" -> "remove" [] op.kind = "files" -> "record" [] OTHER -> "add") = "add"
    OBVIOUS
  <2> QED
    BY <1>8, <2>1, <2>2, <2>3, <2>4 DEF Recheck
<1> QED
  BY <1>5, <1>6, <1>7, <1>8

\* The removal or the staging of the file of an operation on one file leaves it
\* staged as it is in the worktree (GitProvider.Delete, gitAdd).
LEMMA FilePrepared ==
    ASSUME IInv, Prepared, Remove \/ Add
    PROVE  Prepared'
<1>1. OpShape /\ Layers /\ op.kind # "files" /\ op.own = {Target} /\ Target \in Paths
  BY TargetIsOwn DEF IInv, FilesPCs, Remove, Add
<1>2. CASE \E result \in {"ok", "failed"} : Finish(result)
  BY <1>1, <1>2, FinishMoves, ShortOfCommit
<1>3. CASE Goto("add")
  BY <1>1, <1>3, GotoMoves, ShortOfCommit DEF PCs
<1>4. CASE Goto("paths") /\ staged'[Target] = worktree'[Target]
  <2>1. SameCommand /\ op'.pc = "paths"
    BY <1>1, <1>4, GotoMoves DEF PCs
  <2> QED
    BY <1>1, <1>4, <2>1 DEF Prepared, SameCommand, OwnIsBase, RecordIsFiles, PageStaged,
       PageRestClean, SetStaged, SetRestClean
<1>5. CASE Add
  BY <1>1, <1>4, <1>5 DEF Add, Layers
<1>6. CASE Remove
  <2>1. CASE staged[Target] # Absent
    BY <1>2, <1>3, <1>6, <2>1 DEF Remove
  <2>2. CASE staged[Target] = Absent /\ worktree[Target] # Absent
    <3>1. worktree'[Target] = Absent /\ staged' = staged
      BY <1>1, <1>6, <2>2 DEF Remove, Layers
    <3> QED
      BY <1>2, <1>4, <1>6, <2>2, <3>1 DEF Remove
  <2>3. CASE worktree[Target] = Absent
    BY <1>2, <1>6, <2>3 DEF Remove
  <2> QED
    BY <2>1, <2>2, <2>3
<1> QED
  BY <1>5, <1>6

\* The pathspec leaves out what has nothing to commit (commitPaths,
\* recordablePaths).
LEMMA PathspecPrepared ==
    ASSUME IInv, Prepared, ComputePaths \/ Record
    PROVE  Prepared'
<1>1. OpShape /\ Layers
  BY DEF IInv
<1>2. CASE \E result \in {"ok", "failed"} : Finish(result)
  BY <1>1, <1>2, FinishMoves, ShortOfCommit
<1>3. CASE ComputePaths /\ op' = [op EXCEPT !.pc = "commit", !.attempts = 0, !.paths = CommitPaths(Target)]
  <2>1. op.kind # "files" /\ op.own = {Target} /\ Target \in Paths
    BY <1>3, TargetIsOwn DEF IInv, FilesPCs, ComputePaths
  <2>2. CommitPaths(Target) \in SUBSET Paths
    BY <1>3, <2>1, CommitPathsScoped DEF ComputePaths
  <2>3. SameCommand /\ op'.pc = "commit" /\ op'.paths = CommitPaths(Target)
    BY <1>1, <1>3, <2>2, ToCommitMoves
  <2>4. \A q \in (op.own \cup Managed) \ CommitPaths(Target) : staged[q] = head[q]
    BY <2>1 DEF CommitPaths, IsStaged
  <2>5. UNCHANGED <<worktree, staged, head>>
    BY <1>3 DEF ComputePaths, layers
  <2>6. \A q \in op.own : staged[q] = worktree[q]
    BY <1>3, <2>1 DEF Prepared, PageStaged, ComputePaths
  <2> QED
    BY <2>1, <2>3, <2>4, <2>5, <2>6 DEF Prepared, SameCommand, OwnIsBase, RecordIsFiles, PageStaged,
       PageRestClean, SetStaged, SetRestClean
<1>4. CASE Record /\ op' = [op EXCEPT !.pc = "commit", !.attempts = 0, !.paths = Recordable]
           /\ staged' = [q \in Paths |-> IF q \in Recordable THEN worktree[q] ELSE staged[q]]
  <2>1. op.kind = "files" /\ Recordable \in SUBSET Paths /\ Recordable \subseteq op.own
    BY <1>1, <1>4 DEF Prepared, RecordIsFiles, Record, Recordable, OpShape
  <2>2. SameCommand /\ op'.pc = "commit" /\ op'.paths = Recordable
    BY <1>1, <1>4, <2>1, ToCommitMoves
  <2>3. \A q \in op.own \ Recordable : worktree[q] = head[q]
    BY DEF Recordable, IsInHEAD
  <2>4. \A q \in Recordable : staged'[q] = worktree[q]
    BY <1>4, <2>1
  <2>5. UNCHANGED <<worktree, head>>
    BY <1>4 DEF Record
  <2> QED
    BY <2>1, <2>2, <2>3, <2>4, <2>5 DEF Prepared, SameCommand, OwnIsBase, RecordIsFiles, PageStaged,
       PageRestClean, SetStaged, SetRestClean
<1> QED
  BY <1>2, <1>3, <1>4 DEF ComputePaths, Record

\* A step of the host keeps what the operation prepared: it stages no file of the
\* base, it commits what is staged, and a merge it starts blocks the commit.
LEMMA HostPrepared ==
    ASSUME IInv, Prepared, Host
    PROVE  Prepared'
<1>1. OpShape /\ Layers /\ PathsScoped
  BY DEF IInv
<1>2. /\ op'.kind = op.kind /\ op'.own = op.own /\ op'.pc = op.pc /\ op'.paths = op.paths
  BY <1>1 DEF OpShape, Host, HostEdit, HostAdd, HostCommit, HostMerge, HostMergeAbort, HostLock,
     HostUnlock
<1>3. op.own \subseteq Paths \ HostPaths /\ op.paths \subseteq Paths \ HostPaths
      /\ Managed \subseteq Paths \ HostPaths
  BY <1>1, GitStoreAssumption DEF OpShape, PathsScoped, Prepared, OwnIsBase, Paths
<1>4. OwnIsBase' /\ RecordIsFiles'
  BY <1>2 DEF Prepared, OwnIsBase, RecordIsFiles
<1> USE DEF Prepared, PageStaged, PageRestClean, SetStaged, SetRestClean
<1>5. CASE HostEdit \/ HostAdd
  <2>1. \A q \in Paths \ HostPaths : worktree'[q] = worktree[q] /\ staged'[q] = staged[q]
    BY <1>1, <1>5 DEF HostEdit, HostAdd, Layers
  <2>2. head' = head /\ merging' = merging
    BY <1>5 DEF HostEdit, HostAdd
  <2> QED
    BY <1>2, <1>3, <1>4, <2>1, <2>2
<1>6. CASE HostCommit
  <2>1. head' = staged /\ UNCHANGED <<worktree, staged>>
    BY <1>6 DEF HostCommit
  <2> QED
    BY <1>2, <1>3, <1>4, <2>1
<1>7. CASE HostMerge
  <2>1. merging' = TRUE
    BY <1>7 DEF HostMerge
  <2>2. \A q \in Paths : staged[q] = worktree[q] => staged'[q] = worktree'[q]
    BY <1>1, <1>7 DEF HostMerge, Layers
  <2> QED
    BY <1>2, <1>3, <1>4, <2>1, <2>2
<1>8. CASE HostMergeAbort
  <2>1. staged' = head /\ head' = head
    BY <1>8 DEF HostMergeAbort
  <2>2. \A q \in Paths : staged[q] = worktree[q] => worktree'[q] = head[q]
    BY <1>8 DEF HostMergeAbort, IsStaged
  <2> QED
    BY <1>2, <1>3, <1>4, <2>1, <2>2
<1>9. CASE HostLock \/ HostUnlock
  <2>1. UNCHANGED <<worktree, staged, head, merging>>
    BY <1>9 DEF HostLock, HostUnlock, layers
  <2> QED
    BY <1>2, <1>4, <2>1
<1> QED
  BY <1>5, <1>6, <1>7, <1>8, <1>9 DEF Host

\* Every step keeps the preparation.
LEMMA NextPrepared == ASSUME IInv, Prepared, [Next]_vars PROVE Prepared'
<1>1. OpShape
  BY DEF IInv
<1>2. CASE Begin
  <2>1. PICK kind \in Kinds, nc \in BOOLEAN : \E own \in Targets(kind) :
           op' = [IdleOp EXCEPT !.kind = kind, !.own = own, !.noCommit = nc,
                                !.pc = "preflight", !.clear = ~merging]
    BY <1>2 DEF Begin
  <2>2. PICK own \in Targets(kind) :
           op' = [IdleOp EXCEPT !.kind = kind, !.own = own, !.noCommit = nc,
                                !.pc = "preflight", !.clear = ~merging]
    BY <2>1
  <2>3. op'.own = own /\ op'.pc = "preflight"
    BY <2>2 DEF IdleOp
  <2>4. own \cap HostPaths = {}
    <3>1. CASE kind \in {"page", "delete"}
      BY <3>1, GitStoreAssumption DEF Targets
    <3>2. CASE kind = "managed"
      BY <3>2, GitStoreAssumption DEF Targets
    <3>3. CASE kind = "files"
      BY <3>3, GitStoreAssumption DEF Targets
    <3> QED
      BY <3>1, <3>2, <3>3 DEF Kinds
  <2> QED
    BY <2>3, <2>4 DEF Prepared, OwnIsBase, RecordIsFiles, PageStaged, PageRestClean, SetStaged,
       SetRestClean
<1>3. CASE Commit \/ GiveUp
  <2>1. (\E result \in {"ok", "failed"} : Finish(result)) \/ Goto("recheck")
    BY <1>3 DEF Commit, GiveUp
  <2> QED
    BY <1>1, <2>1, FinishMoves, GotoMoves, ShortOfCommit DEF PCs
<1>4. CASE Contend
  <2>1. op' = [op EXCEPT !.attempts = op.attempts + 1] /\ UNCHANGED <<worktree, staged, head, merging>>
    BY <1>4 DEF Contend, NextAttempt, layers
  <2>2. op'.kind = op.kind /\ op'.own = op.own /\ op'.pc = op.pc /\ op'.paths = op.paths
    BY <1>1, <2>1 DEF OpShape
  <2> QED
    BY <2>1, <2>2 DEF Prepared, OwnIsBase, RecordIsFiles, PageStaged, PageRestClean, SetStaged,
       SetRestClean
<1>5. CASE End \/ Crash
  BY <1>5, IdleIsPrepared DEF End, Crash
<1>6. CASE UNCHANGED vars
  BY <1>6 DEF vars, layers, Prepared, OwnIsBase, RecordIsFiles, PageStaged, PageRestClean, SetStaged,
     SetRestClean
<1> QED
  BY <1>2, <1>3, <1>4, <1>5, <1>6, EarlyPrepared, FilePrepared, PathspecPrepared, HostPrepared
  DEF Next, OpStep

\* An operation that is to commit does not end with the change of the worktree.
LEMMA AfterDeriveIsCommitted == ASSUME ~op.noCommit PROVE AfterDerive(op) # "end"
<1>1. CASE op.kind = "page"
  BY <1>1, AfterDerive(op) = "add" DEF AfterDerive
<1>2. CASE op.kind = "delete"
  BY <1>2, AfterDerive(op) = "stage" DEF AfterDerive
<1>3. CASE op.kind \notin {"page", "delete"}
  BY <1>3, AfterDerive(op) = "recheck" DEF AfterDerive
<1> QED
  BY <1>1, <1>2, <1>3

\* An operation that reports success and was to commit has committed: its own
\* files are in HEAD as they are in the worktree, whatever the host staged,
\* committed or merged between its steps (GitProvider, CommitFiles).
THEOREM GitStoreSuccessIsCommitted == Spec => SuccessIsCommitted
<1> DEFINE Committed ==
        op'.result = "ok" /\ op.result # "ok" /\ ~op.noCommit =>
          /\ \A q \in op.own : head'[q] = worktree'[q]
          /\ op.kind # "files" =>
                \A q \in op.own \cup Managed : staged'[q] = head'[q]
<1>1. Init => Prepared
  BY DEF Init, Prepared, IdleOp, OwnIsBase, RecordIsFiles, PageStaged, PageRestClean, SetStaged,
     SetRestClean
<1>2. ASSUME IInv, Prepared, [Next]_vars
      PROVE  [Committed]_vars
  <2> SUFFICES ASSUME op'.result = "ok", op.result # "ok", ~op.noCommit
               PROVE  /\ \A q \in op.own : head'[q] = worktree'[q]
                      /\ op.kind # "files" => \A q \in op.own \cup Managed : staged'[q] = head'[q]
    OBVIOUS
  <2>1. OpShape /\ Layers /\ PathsScoped /\ op.own \subseteq Paths /\ op.paths \subseteq Paths
    BY <1>2 DEF IInv, OpShape
  <2>2. ASSUME NEW pc, Goto(pc) PROVE FALSE
    BY <2>1, <2>2 DEF OpShape, Goto
  <2>3. ASSUME Finish("failed") \/ Finish("refused") PROVE FALSE
    BY <2>1, <2>3 DEF OpShape, Finish
  <2>4. ASSUME op'.result \in {op.result, "none"} PROVE FALSE
    BY <2>4
  <2>5. CASE ComputePaths
    <3>1. CASE CommitPaths(Target) = {}
      <4>1. op.kind # "files" /\ op.own = {Target} /\ Target \in Paths
        BY <1>2, <2>5, TargetIsOwn DEF IInv, FilesPCs, ComputePaths
      <4>2. \A q \in op.own \cup Managed : staged[q] = head[q]
        BY <3>1, <4>1 DEF CommitPaths, IsStaged, Paths
      <4>3. UNCHANGED <<worktree, staged, head>> /\ \A q \in op.own : staged[q] = worktree[q]
        BY <1>2, <2>5, <4>1 DEF ComputePaths, layers, Prepared, PageStaged
      <4> QED
        BY <4>2, <4>3
    <3>2. CASE CommitPaths(Target) # {}
      <4>1. op' = [op EXCEPT !.pc = "commit", !.attempts = 0, !.paths = CommitPaths(Target)]
        BY <2>5, <3>2 DEF ComputePaths
      <4> QED
        BY <2>1, <2>4, <4>1 DEF OpShape
    <3> QED
      BY <3>1, <3>2
  <2>6. CASE Commit
    <3>1. /\ ~merging /\ worktree' = worktree
          /\ \E q \in op.paths : worktree[q] # head[q]
          /\ head' = [q \in Paths |-> IF q \in op.paths THEN worktree[q] ELSE head[q]]
          /\ staged' = [q \in Paths |-> IF q \in op.paths THEN worktree[q] ELSE staged[q]]
      BY <2>3, <2>6 DEF Commit
    <3>2. op.pc = "commit" /\ Managed \subseteq Paths
      BY <2>6 DEF Commit, Paths
    <3>3. CASE op.kind = "files"
      BY <1>2, <2>1, <3>1, <3>2, <3>3 DEF Prepared, SetRestClean
    <3>4. CASE op.kind # "files"
      BY <1>2, <2>1, <3>1, <3>2, <3>4 DEF Prepared, PageStaged, PageRestClean
    <3> QED
      BY <3>3, <3>4
  <2>7. CASE Record
    <3>1. CASE Recordable = {}
      BY <2>3, <2>7, <3>1 DEF Record
    <3>2. CASE Recordable # {}
      <4>1. op' = [op EXCEPT !.pc = "commit", !.attempts = 0, !.paths = Recordable]
        BY <2>7, <3>2 DEF Record
      <4> QED
        BY <2>1, <2>4, <4>1 DEF OpShape
    <3> QED
      BY <3>1, <3>2
  <2>8. CASE Derive
    <3>1. AfterDerive(op) # "end"
      BY <1>2, <2>1, AfterDeriveIsCommitted
    <3> QED
      BY <2>2, <2>8, <3>1 DEF Derive
  <2>9. CASE Preflight \/ StageManaged \/ Recheck \/ Remove \/ Add \/ GiveUp
    BY <2>2, <2>3, <2>9 DEF Preflight, StageManaged, Recheck, Remove, Add, GiveUp
  <2>10. CASE Contend \/ Host \/ UNCHANGED vars
    <3>1. op' = op \/ op' = [op EXCEPT !.clear = TRUE] \/ op' = [op EXCEPT !.attempts = op.attempts + 1]
      BY <2>10 DEF Contend, NextAttempt, Host, HostEdit, HostAdd, HostCommit, HostMerge,
         HostMergeAbort, HostLock, HostUnlock, vars
    <3> QED
      BY <2>1, <2>4, <3>1 DEF OpShape
  <2>11. CASE End \/ Crash
    BY <2>4, <2>11 DEF End, Crash, IdleOp
  <2>12. CASE Begin
    <3>1. PICK kind \in Kinds, nc \in BOOLEAN : \E own \in Targets(kind) :
             op' = [IdleOp EXCEPT !.kind = kind, !.own = own, !.noCommit = nc,
                                  !.pc = "preflight", !.clear = ~merging]
      BY <2>12 DEF Begin
    <3>2. op'.result = "none"
      BY <3>1 DEF IdleOp
    <3> QED
      BY <2>4, <3>2
  <2> QED
    BY <1>2, <2>5, <2>6, <2>7, <2>8, <2>9, <2>10, <2>11, <2>12 DEF Next, OpStep
<1>3. ASSUME IInv, Prepared, [Next]_vars PROVE Prepared'
  BY <1>3, NextPrepared
<1> QED
  BY <1>1, <1>2, <1>3, GitStoreInvariant, PTL DEF Spec, SuccessIsCommitted
=============================================================================
