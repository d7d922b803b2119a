----------------------------- MODULE Templates ------------------------------
(***************************************************************************)
(* The three files of a page template (`akb template write` and `akb       *)
(* template delete`): the YAML with the rules, a mockup page that the rules*)
(* accept and one that they reject.  A write checks the rules against both *)
(* mockups, given or already there, before it takes the store lock (module *)
(* RepoLock), and renames the three files one after the other under it.    *)
(* Several processes work on one template; a rename may fail, a process    *)
(* may be killed at any step.                                              *)
(***************************************************************************)
EXTENDS Naturals

CONSTANTS
    Procs,      \* akb processes
    Yamls,      \* rules
    Passes,     \* mockups that are to pass
    Fails,      \* mockups that are to fail
    PassOK,     \* <<rules, mockup>>: every rule accepts the mockup
    FailOK,     \* <<rules, mockup>>: a rule rejects the mockup
    Absent,     \* no such file, mockup not given
    NoOne,      \* the store lock is free
    MaxOps      \* bound: commands of a behaviour

ASSUME TemplatesAssumption ==
    /\ PassOK \subseteq Yamls \X Passes /\ FailOK \subseteq Yamls \X Fails
    /\ Absent \notin Yamls \cup Passes \cup Fails
    /\ NoOne \notin Procs
    /\ MaxOps \in Nat

VARIABLES
    dir,        \* the files in .agent-kb/templates
    head,       \* the files in HEAD
    lock,       \* holder of the store lock
    cmd,        \* what every process is doing
    ops,        \* commands started
    torn        \* ghost: a swap or removal stopped half way

vars == <<dir, head, lock, cmd, ops, torn>>

Template == [yaml : Yamls \cup {Absent}, pass : Passes \cup {Absent}, fail : Fails \cup {Absent}]
NoTemplate == [yaml |-> Absent, pass |-> Absent, fail |-> Absent]
Fits(t) == <<t.yaml, t.pass>> \in PassOK /\ <<t.yaml, t.fail>> \in FailOK

Idle == [pc |-> "idle", kind |-> "write", want |-> NoTemplate, force |-> FALSE,
         commits |-> FALSE, exists |-> FALSE, result |-> "none"]
BeforeLock == {"idle", "stat", "readPass", "readFail", "lock"}
Swap == {"swapPass", "swapFail"}
Removal == {"removePass", "removeFail"}
UnderLock == {"match", "preflight", "swapYaml", "removeYaml", "commit"} \cup Swap \cup Removal

TypeOK ==
    /\ dir \in Template /\ head \in Template
    /\ lock \in Procs \cup {NoOne}
    /\ cmd \in [Procs -> [pc : BeforeLock \cup UnderLock, kind : {"write", "delete"}, want : Template,
                          force : BOOLEAN, commits : BOOLEAN, exists : BOOLEAN,
                          result : {"none", "ok", "stopped"}]]
    /\ \A p \in Procs : cmd[p].pc \in UnderLock <=> lock = p
    /\ ops \in 0 .. MaxOps
    /\ torn \in BOOLEAN

\* `akb init` creates the directory empty.
Init ==
    /\ dir = NoTemplate /\ head = NoTemplate
    /\ lock = NoOne
    /\ cmd = [p \in Procs |-> Idle]
    /\ ops = 0
    /\ torn = FALSE

-----------------------------------------------------------------------------

At(p, pc) == cmd[p].pc = pc
Want(p) == cmd[p].want
Goto(p, pc) == cmd' = [cmd EXCEPT ![p].pc = pc] /\ UNCHANGED <<lock, ops, torn>>

\* The command returns, with its deferred Release, or its process is killed.
Ends(p, result) ==
    /\ cmd' = [cmd EXCEPT ![p] = [Idle EXCEPT !.result = result]]
    /\ lock' = IF lock = p THEN NoOne ELSE lock
    /\ UNCHANGED ops

Succeeds(p) == Ends(p, "ok") /\ torn' = FALSE
Stops(p) == Ends(p, "stopped") /\ torn' = (torn \/ cmd[p].pc \in Swap \cup Removal)

Begin(p, c) ==
    /\ At(p, "idle")
    /\ ops < MaxOps
    /\ ops' = ops + 1
    /\ cmd' = [cmd EXCEPT ![p] = c]
    /\ UNCHANGED <<dir, head, lock, torn>>

StartWrite(p) ==
    \E y \in Yamls, m \in Passes \cup {Absent}, f \in Fails \cup {Absent}, force, c \in BOOLEAN :
        Begin(p, [Idle EXCEPT !.pc = "stat", !.want = [yaml |-> y, pass |-> m, fail |-> f],
                              !.force = force, !.commits = c])

\* A deletion looks for the YAML, and is refused without --force, before it
\* locks.
StartDelete(p) ==
    /\ dir.yaml # Absent
    /\ \E c \in BOOLEAN : Begin(p, [Idle EXCEPT !.pc = "lock", !.kind = "delete", !.force = TRUE,
                                                !.commits = c])

\* A new template needs both mockups.
Stat(p) ==
    /\ At(p, "stat")
    /\ LET exists == dir.yaml # Absent
       IN  IF ~exists /\ Absent \in {Want(p).pass, Want(p).fail} THEN Stops(p)
           ELSE /\ cmd' = [cmd EXCEPT ![p].pc = "readPass", ![p].exists = exists]
                /\ UNCHANGED <<lock, ops, torn>>
    /\ UNCHANGED <<dir, head>>

\* A mockup that was not given is read from the template in place.
Given(mockup, inPlace) == IF mockup = Absent THEN inPlace ELSE mockup

PassPresent(y, m) == m # Absent
PassAccepted(y, m) == <<y, m>> \in PassOK
ReadPass(p) ==
    /\ At(p, "readPass")
    /\ LET m == Given(Want(p).pass, dir.pass)
       IN  IF PassAccepted(Want(p).yaml, m)
           THEN /\ cmd' = [cmd EXCEPT ![p].pc = "readFail", ![p].want.pass = m]
                /\ UNCHANGED <<lock, ops, torn>>
           ELSE Stops(p)
    /\ UNCHANGED <<dir, head>>

\* An existing template is replaced with --force only.
ReadFail(p) ==
    /\ At(p, "readFail")
    /\ LET f == Given(Want(p).fail, dir.fail)
       IN  IF <<Want(p).yaml, f>> \in FailOK /\ (cmd[p].exists => cmd[p].force)
           THEN /\ cmd' = [cmd EXCEPT ![p].pc = "lock", ![p].want.fail = f]
                /\ UNCHANGED <<lock, ops, torn>>
           ELSE Stops(p)
    /\ UNCHANGED <<dir, head>>

NeverBlocks == TRUE
LockFree == lock = NoOne

Lock(p) ==
    /\ At(p, "lock")
    /\ LockFree
    /\ lock' = p
    /\ cmd' = [cmd EXCEPT ![p].pc = IF cmd[p].kind = "write" THEN "match" ELSE "preflight"]
    /\ UNCHANGED <<dir, head, ops, torn>>

\* Store.NothingToCommit: without a commit git is not asked.
NeverAsksGit(p) == TRUE
NothingToCommit(p) == cmd[p].commits => dir = head

\* templateFilesMatch.
InPlace(p) == dir = Want(p)

Match(p) ==
    /\ At(p, "match")
    /\ IF cmd[p].exists /\ InPlace(p) /\ NothingToCommit(p) THEN Succeeds(p)
       ELSE Goto(p, "preflight")
    /\ UNCHANGED <<dir, head>>

Preflight(p) ==
    /\ At(p, "preflight")
    /\ \/ Goto(p, IF cmd[p].kind = "write" THEN "swapYaml" ELSE "removeYaml")
       \/ cmd[p].commits /\ Stops(p)
    /\ UNCHANGED <<dir, head>>

\* The renames.  When one fails, the files renamed before it are removed.
SwapYaml(p) ==
    /\ At(p, "swapYaml")
    /\ \/ dir' = [dir EXCEPT !.yaml = Want(p).yaml] /\ Goto(p, "swapPass")
       \/ Stops(p) /\ UNCHANGED dir
    /\ UNCHANGED head

SwapPass(p) ==
    /\ At(p, "swapPass")
    /\ \/ dir' = [dir EXCEPT !.pass = Want(p).pass] /\ Goto(p, "swapFail")
       \/ dir' = [dir EXCEPT !.yaml = Absent] /\ Stops(p)
    /\ UNCHANGED head

SwapFail(p) ==
    /\ At(p, "swapFail")
    /\ \/ dir' = [dir EXCEPT !.fail = Want(p).fail] /\ Goto(p, "commit")
       \/ dir' = [dir EXCEPT !.yaml = Absent, !.pass = Absent] /\ Stops(p)
    /\ UNCHANGED head

\* The removals: a file that is not there is none.
RemoveYaml(p) ==
    /\ At(p, "removeYaml")
    /\ \/ dir' = [dir EXCEPT !.yaml = Absent] /\ Goto(p, "removePass")
       \/ Stops(p) /\ UNCHANGED dir
    /\ UNCHANGED head

RemovePass(p) ==
    /\ At(p, "removePass")
    /\ \/ dir' = [dir EXCEPT !.pass = Absent] /\ Goto(p, "removeFail")
       \/ Stops(p) /\ UNCHANGED dir
    /\ UNCHANGED head

RemoveFail(p) ==
    /\ At(p, "removeFail")
    /\ \/ dir' = [dir EXCEPT !.fail = Absent] /\ Goto(p, "commit")
       \/ Stops(p) /\ UNCHANGED dir
    /\ UNCHANGED head

\* CommitFiles on the three paths fails when there is nothing to record, and
\* for any reason git has.  The lint after a deletion runs without the lock and
\* changes no template.
OneFile == [head EXCEPT !.yaml = dir.yaml]
CommitPaths == dir

Commit(p) ==
    /\ At(p, "commit")
    /\ \/ cmd[p].commits /\ dir # head /\ head' = CommitPaths /\ Succeeds(p)
       \/ ~cmd[p].commits /\ Succeeds(p) /\ UNCHANGED head
       \/ cmd[p].commits /\ Stops(p) /\ UNCHANGED head
    /\ UNCHANGED dir

Killed(p) == ~At(p, "idle") /\ Stops(p) /\ UNCHANGED <<dir, head>>

Step(p) ==
    \/ StartWrite(p) \/ StartDelete(p) \/ Stat(p) \/ ReadPass(p) \/ ReadFail(p) \/ Lock(p)
    \/ Match(p) \/ Preflight(p) \/ SwapYaml(p) \/ SwapPass(p) \/ SwapFail(p)
    \/ RemoveYaml(p) \/ RemovePass(p) \/ RemoveFail(p) \/ Commit(p) \/ Killed(p)

Next == \E p \in Procs : Step(p)

Spec == Init /\ [][Next]_vars

-----------------------------------------------------------------------------
(* Properties.                                                             *)

\* Between commands the three files fit each other, though the mockups may have
\* been read from a template that another process replaced or removed since,
\* unless a swap or a removal stopped half way.
TemplateFits == lock = NoOne /\ ~torn => dir = NoTemplate \/ Fits(dir)

\* "Hold the lock of the base across the swap of the template files and the
\* commit that records it": HEAD has a template that fits or none, even when
\* commands were killed half way or made no commit before.
HeadFits == head = NoTemplate \/ Fits(head)

\* A write that returns success has put its own three files in place and, with a
\* commit, in HEAD; also the one that found nothing to do.
WriteIsRecorded ==
    [][\A p \in Procs :
        cmd[p].kind = "write" /\ cmd[p].pc # "idle" /\ cmd'[p].result = "ok"
        => dir' = Want(p) /\ (cmd[p].commits => head' = Want(p))]_vars
=============================================================================
