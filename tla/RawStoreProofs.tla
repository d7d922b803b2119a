--------------------------- MODULE RawStoreProofs ---------------------------
(***************************************************************************)
(* What module RawStore promises, for any processes, files and contents,   *)
(* and for any number of commands and steps of the host.                   *)
(***************************************************************************)
EXTENDS RawStore, FiniteSetTheorems, TLAPS

-----------------------------------------------------------------------------
(* The inductive invariant.                                                *)

PCs == UnderLock \cup {"idle", "lock"}
Command == [pc : PCs, kind : {"write", "delete", "sync"}, name : Keys \ {Nested},
            content : Contents \cup {Absent}, commits : BOOLEAN, sum : Contents \cup {Absent},
            was : [Keys -> Seq(Contents)], found : Files, host : Nat]

\* The files, and who is under the lock.
Typed ==
    /\ raw \in Files /\ lines \in Lines
    /\ head.raw \in Files /\ head.lines \in Lines
    /\ lock \in Procs \cup {NoOne}
    /\ cmd \in [Procs -> Command]
    /\ \A p \in Procs : cmd[p].pc \in UnderLock <=> lock = p
    /\ ops \in 0 .. MaxOps /\ host \in 0 .. MaxHost
    /\ suspect \subseteq Keys

\* The steps of each kind of command, and what it has to write.
KindSteps ==
    \A p \in Procs :
        /\ cmd[p].pc = "sum" => Kind(p) = "write"
        /\ cmd[p].pc \in {"file", "look"} => Kind(p) # "sync"
        /\ cmd[p].pc \in {"read", "walk"} => Kind(p) = "sync"
        /\ Kind(p) = "delete" => cmd[p].content = Absent
        /\ Kind(p) = "write" /\ cmd[p].pc \in {"look", "list"} => cmd[p].sum \in Contents
        /\ cmd[p].host <= host

\* What a command has read is still true, unless the host has moved since the
\* command took the lock, and then the files it changed are suspect.
Touched(p, x) == ~Quiet(p) /\ x \in suspect
AllTouched(p) == ~Quiet(p) /\ suspect = Keys

KnowsFile(p) ==
    cmd[p].pc \in {"look", "list"} /\ Kind(p) # "sync" =>
        \/ Touched(p, File(p))
        \/ raw[File(p)] = IF Kind(p) = "write" THEN cmd[p].sum ELSE Absent
KnowsLines(p) ==
    cmd[p].pc = "walk" \/ (cmd[p].pc = "list" /\ Kind(p) # "sync") =>
        AllTouched(p) \/ cmd[p].was = lines
KnowsFound(p) ==
    cmd[p].pc \in {"preflight", "list"} /\ Kind(p) = "sync" =>
        \A x \in Keys \ {Nested} : Touched(p, x) \/ cmd[p].found[x] = raw[x]
KnowsListed(p) ==
    cmd[p].pc = "commit" =>
        \A x \in About(p) \ (Misnamed(p) \cup {Nested}) :
            Touched(p, x) \/ ~Single(lines, x) \/ raw[x] = Listed(lines)[x]
Knows(p) == KnowsFile(p) /\ KnowsLines(p) /\ KnowsFound(p) /\ KnowsListed(p)

\* A key with two lines is suspect, or a command just wrote the second one under
\* another name.
DoubledIsSuspect ==
    lines # Corrupt =>
        \A x \in Keys :
            Len(lines[x]) > 1 =>
                x \in suspect \/ \E p \in Procs : cmd[p].pc = "commit" /\ x \in Misnamed(p)

\* A key whose line does not describe its file is suspect, or a command is about
\* to write the line, or has just written one under another name.
DriftInv ==
    lines # Corrupt =>
        \A x \in Keys \ {Nested} :
            \/ x \in suspect
            \/ raw[x] = Listed(lines)[x]
            \/ \E p \in Procs : lock = p /\ x \in HalfDone(p)

IInv ==
    /\ Typed /\ KindSteps
    /\ \A p \in Procs : Knows(p)
    /\ DoubledIsSuspect /\ DriftInv

-----------------------------------------------------------------------------
(* How a step moves the record of a command.                               *)

\* What a step to another program counter leaves as it is.
SameCommand(p) ==
    /\ cmd'[p].kind = cmd[p].kind /\ cmd'[p].name = cmd[p].name
    /\ cmd'[p].content = cmd[p].content /\ cmd'[p].commits = cmd[p].commits
    /\ cmd'[p].host = cmd[p].host

Others(p) == \A q \in Procs \ {p} : cmd'[q] = cmd[q]

\* Goto moves the program counter of one process.
LEMMA GotoMoves ==
    ASSUME Typed, NEW p \in Procs, NEW pc \in PCs, Goto(p, pc)
    PROVE  /\ cmd' \in [Procs -> Command] /\ Others(p)
           /\ SameCommand(p) /\ cmd'[p].pc = pc
           /\ cmd'[p].sum = cmd[p].sum /\ cmd'[p].was = cmd[p].was /\ cmd'[p].found = cmd[p].found
<1>1. cmd[p] \in Command
  BY DEF Typed
<1> QED
  BY <1>1 DEF Typed, Goto, Command, SameCommand, Others

\* Idle is a command that does nothing.
LEMMA IdleIsCommand == Idle \in Command /\ Idle.pc = "idle"
<1>1. NoLines \in [Keys -> Seq(Contents)]
  BY DEF NoLines
<1>2. NoFiles \in Files
  BY DEF NoFiles, Files
<1>3. Temp \in Keys \ {Nested}
  BY RawStoreAssumption DEF Keys, Paths
<1> QED
  BY <1>1, <1>2, <1>3 DEF Idle, Command, PCs

\* The end of a command frees the lock it holds, and no other.
LEMMA EndsMoves ==
    ASSUME Typed, NEW p \in Procs, Ends(p)
    PROVE  /\ cmd' \in [Procs -> Command] /\ Others(p) /\ cmd'[p] = Idle
           /\ lock' \in Procs \cup {NoOne} /\ ops' = ops /\ host' = host
           /\ \A q \in Procs : cmd'[q].pc \in UnderLock <=> lock' = q
<1>1. cmd' = [cmd EXCEPT ![p] = Idle] /\ lock' = (IF lock = p THEN NoOne ELSE lock)
      /\ ops' = ops /\ host' = host
  BY DEF Ends
<1>2. cmd' \in [Procs -> Command] /\ Others(p) /\ cmd'[p] = Idle
  BY <1>1, IdleIsCommand DEF Typed, Others
<1>3. Idle.pc \notin UnderLock
  BY IdleIsCommand DEF UnderLock
<1>4. \A q \in Procs : cmd'[q].pc \in UnderLock <=> lock' = q
  BY <1>1, <1>2, <1>3, RawStoreAssumption DEF Typed, Others
<1> QED
  BY <1>1, <1>2, <1>4 DEF Typed

\* Only the lock holder knows something.
LEMMA KnowsNothing ==
    ASSUME NEW p \in Procs, cmd[p].pc \notin UnderLock
    PROVE  Knows(p)
BY DEF Knows, KnowsFile, KnowsLines, KnowsFound, KnowsListed, UnderLock

\* What a command records, while its name, its kind and what it found stay.
LEMMA MisnamedStays ==
    ASSUME NEW q \in Procs, cmd'[q].kind = cmd[q].kind, cmd'[q].name = cmd[q].name,
           cmd'[q].found = cmd[q].found
    PROVE  Misnamed(q)' = Misnamed(q) /\ File(q)' = File(q) /\ About(q)' = About(q)
BY DEF Misnamed, Recording, File, About, Kind, X

\* A command keeps what it knows in a step that is not its own and that makes no
\* file less suspect.
LEMMA KnowsStays ==
    ASSUME NEW q \in Procs, Knows(q), cmd'[q] = cmd[q],
           UNCHANGED <<raw, lines, host>>, suspect' = suspect
    PROVE  Knows(q)'
<1>1. File(q)' = File(q) /\ About(q)' = About(q) /\ Misnamed(q)' = Misnamed(q)
  BY MisnamedStays
<1>2. Kind(q)' = Kind(q) /\ Quiet(q)' = Quiet(q) /\ \A x : Touched(q, x)' = Touched(q, x)
  BY DEF Kind, Quiet, Touched
<1> QED
  BY <1>1, <1>2 DEF Knows, KnowsFile, KnowsLines, KnowsFound, KnowsListed, AllTouched, Listed, Single

-----------------------------------------------------------------------------
(* The steps keep the invariant.                                           *)

\* `akb init` leaves an empty manifest.
LEMMA InitIInv == Init => IInv
<1> SUFFICES ASSUME Init PROVE IInv
  OBVIOUS
<1>1. NoLines \in [Keys -> Seq(Contents)] /\ raw \in Files /\ lines = NoLines
      /\ head.raw = raw /\ head.lines = lines
  BY DEF Init, NoLines, NoFiles, Files
<1>2. \A p \in Procs : cmd[p] = Idle
  BY DEF Init
<1>3. Typed
  BY <1>1, <1>2, IdleIsCommand, RawStoreAssumption DEF Init, Typed, Lines, UnderLock
<1>4. KindSteps
  BY <1>2 DEF KindSteps, Idle, Kind, X, Init
<1>6. \A p \in Procs : Knows(p)
  BY <1>2, KnowsNothing, IdleIsCommand DEF UnderLock
<1>7. \A x \in Keys : lines[x] = <<>> /\ Listed(lines)[x] = Absent /\ raw[x] = Absent
  BY <1>1 DEF Init, NoLines, NoFiles, Listed
<1>8. DoubledIsSuspect /\ DriftInv
  BY <1>7 DEF DoubledIsSuspect, DriftInv
<1> QED
  BY <1>3, <1>4, <1>6, <1>8 DEF IInv

\* What is left to say of a step of the lock holder that leaves the lock to it:
\* the other processes know nothing, before and after.
LEMMA HolderKeeps ==
    ASSUME IInv, NEW p \in Procs, cmd[p].pc \in UnderLock,
           cmd' \in [Procs -> Command], Others(p), cmd'[p].pc \in UnderLock,
           lock' = lock, raw' \in Files, lines' \in Lines,
           UNCHANGED <<head, ops, host, suspect>>,
           KindSteps', Knows(p)', DoubledIsSuspect', DriftInv'
    PROVE  IInv'
<1>1. lock = p /\ Typed
  BY DEF IInv, Typed
<1>2. Typed'
  BY <1>1 DEF Typed, Others
<1>3. ASSUME NEW q \in Procs \ {p} PROVE Knows(q)'
  <2>1. cmd[q].pc \notin UnderLock
    BY <1>1, RawStoreAssumption DEF Typed
  <2>2. cmd'[q].pc \notin UnderLock
    BY <2>1 DEF Others
  <2> QED
    BY <2>2 DEF Knows, KnowsFile, KnowsLines, KnowsFound, KnowsListed, UnderLock
<1> QED
  BY <1>2, <1>3 DEF IInv

\* The steps and the names of a command, when only one command moves.
LEMMA KindStepsMove ==
    ASSUME IInv, NEW p \in Procs, Others(p), host' = host,
           /\ cmd'[p].pc = "sum" => Kind(p)' = "write"
           /\ cmd'[p].pc \in {"file", "look"} => Kind(p)' # "sync"
           /\ cmd'[p].pc \in {"read", "walk"} => Kind(p)' = "sync"
           /\ Kind(p)' = "delete" => cmd'[p].content = Absent
           /\ Kind(p)' = "write" /\ cmd'[p].pc \in {"look", "list"} => cmd'[p].sum \in Contents
           /\ cmd'[p].host <= host
    PROVE  KindSteps'
BY DEF IInv, KindSteps, Others, Kind, X

\* A command that ends, having said which files it leaves suspect.
LEMMA EndKeeps ==
    ASSUME IInv, NEW p \in Procs, Ends(p), raw' \in Files, lines' = lines,
           head'.raw \in Files, head'.lines \in Lines,
           suspect' \subseteq Keys, DoubledIsSuspect', DriftInv',
           lock # p => raw' = raw /\ suspect' = suspect
    PROVE  IInv'
<1>1. Typed
  BY DEF IInv
<1>2. /\ cmd' \in [Procs -> Command] /\ Others(p) /\ cmd'[p] = Idle
      /\ lock' \in Procs \cup {NoOne} /\ ops' = ops /\ host' = host
      /\ \A q \in Procs : cmd'[q].pc \in UnderLock <=> lock' = q
  BY <1>1, EndsMoves
<1>3. Typed'
  BY <1>1, <1>2 DEF Typed
<1>4. KindSteps'
  <2>1. Idle.kind = "sync" /\ Idle.host = 0 /\ Idle.pc = "idle"
    BY DEF Idle
  <2>2. 0 <= host
    BY <1>1, RawStoreAssumption DEF Typed
  <2> QED
    BY <1>2, <2>1, <2>2, KindStepsMove DEF Kind, X
<1>6. ASSUME NEW q \in Procs PROVE Knows(q)'
  <2>1. CASE q = p \/ lock' # q
    <3>1. cmd'[q].pc \notin UnderLock
      BY <1>2, <2>1 DEF Idle, UnderLock
    <3> QED
      BY <3>1 DEF Knows, KnowsFile, KnowsLines, KnowsFound, KnowsListed, UnderLock
  <2>2. CASE q # p /\ lock' = q
    <3>1. lock = q /\ lock # p
      BY <2>2, RawStoreAssumption DEF Ends
    <3>2. cmd'[q] = cmd[q]
      BY <1>2, <2>2 DEF Others
    <3>3. Knows(q)
      BY DEF IInv
    <3> QED
      BY <1>2, <3>1, <3>2, <3>3, KnowsStays
  <2> QED
    BY <2>1, <2>2
<1> QED
  BY <1>3, <1>4, <1>6 DEF IInv

LEMMA HalfDoneStays ==
    ASSUME NEW q \in Procs, cmd'[q] = cmd[q]
    PROVE  HalfDone(q)' = HalfDone(q) /\ Misnamed(q)' = Misnamed(q)
<1>1. Misnamed(q)' = Misnamed(q) /\ File(q)' = File(q)
  BY MisnamedStays
<1> QED
  BY <1>1 DEF HalfDone, Kind

\* The keys a command puts out of step are keys.
LEMMA HalfDoneIsKeys ==
    ASSUME Typed, NEW p \in Procs
    PROVE  X(p) \in Keys /\ File(p) \in Keys /\ About(p) \subseteq Keys /\ HalfDone(p) \subseteq Keys
<1>1. X(p) \in Keys
  BY DEF Typed, Command, X
<1>2. File(p) \in Keys
  BY <1>1, RawStoreAssumption DEF File, Keys
<1> QED
  BY <1>1, <1>2 DEF About, HalfDone, Misnamed

\* The lock holder is the only process of which HalfDone counts.
LEMMA DriftOfHolder ==
    ASSUME IInv, NEW p \in Procs, cmd[p].pc \in UnderLock, lines # Corrupt,
           NEW x \in Keys \ {Nested}, x \notin suspect, x \notin HalfDone(p)
    PROVE  raw[x] = Listed(lines)[x]
BY RawStoreAssumption DEF IInv, Typed, DriftInv

\* Before its commit the lock holder has no part in a key with two lines.
LEMMA DoubledOfHolder ==
    ASSUME IInv, NEW p \in Procs, cmd[p].pc \in UnderLock, lines # Corrupt,
           NEW x \in Keys, Len(lines[x]) > 1
    PROVE  x \in suspect \/ (cmd[p].pc = "commit" /\ x \in Misnamed(p))
<1>1. \A q \in Procs : cmd[q].pc = "commit" => q = p
  BY RawStoreAssumption DEF IInv, Typed, UnderLock
<1> QED
  BY <1>1 DEF IInv, DoubledIsSuspect

\* A command that fails leaves the file suspect whose line it has not written.
LEMMA FailKeeps ==
    ASSUME IInv, NEW p \in Procs, Fails(p), UNCHANGED <<raw, lines, head>>
    PROVE  IInv'
<1>1. Typed /\ Ends(p) /\ suspect' = suspect \cup HalfDone(p)
  BY DEF IInv, Fails
<1>2. HalfDone(p) \subseteq Keys
  BY <1>1, HalfDoneIsKeys
<1>3. lock # p => HalfDone(p) = {}
  BY <1>1 DEF HalfDone, Typed, UnderLock
<1>4. DriftInv'
  <2> SUFFICES ASSUME lines' # Corrupt, NEW x \in Keys \ {Nested}, x \notin suspect',
                      raw'[x] # Listed(lines)'[x]
               PROVE  \E q \in Procs : lock' = q /\ x \in HalfDone(q)'
    BY DEF DriftInv
  <2>1. PICK q \in Procs : lock = q /\ x \in HalfDone(q)
    BY <1>1 DEF IInv, DriftInv, Listed
  <2>2. q # p
    BY <1>1, <2>1
  <2>3. lock' = q /\ cmd'[q] = cmd[q]
    BY <1>1, <2>1, <2>2, EndsMoves DEF Ends, Others
  <2> QED
    BY <2>1, <2>3, HalfDoneStays
<1>5. DoubledIsSuspect'
  <2> SUFFICES ASSUME lines' # Corrupt, NEW x \in Keys, Len(lines'[x]) > 1, x \notin suspect'
               PROVE  \E q \in Procs : (cmd[q].pc = "commit" /\ x \in Misnamed(q))'
    BY DEF DoubledIsSuspect
  <2>1. PICK q \in Procs : cmd[q].pc = "commit" /\ x \in Misnamed(q)
    BY <1>1 DEF IInv, DoubledIsSuspect
  <2>2. q # p
    BY <1>1, <2>1 DEF HalfDone
  <2>3. cmd'[q] = cmd[q]
    BY <1>1, <2>2, EndsMoves DEF Others
  <2> QED
    BY <2>1, <2>3, HalfDoneStays
<1>6. raw' \in Files /\ head'.raw \in Files /\ head'.lines \in Lines
  BY <1>1 DEF IInv, Typed
<1> QED
  BY <1>1, <1>2, <1>3, <1>4, <1>5, <1>6, EndKeeps DEF Typed

\* What the lines say, when they can be read.
LEMMA ListedSays ==
    ASSUME NEW ls \in [Keys -> Seq(Contents)], NEW x \in Keys
    PROVE  Listed(ls)[x] = IF ls[x] = <<>> THEN Absent ELSE ls[x][Len(ls[x])]
BY DEF Listed, Last

\* A command starts: what it is about, and nothing else.
LEMMA StartKeeps ==
    ASSUME IInv, NEW p \in Procs, StartWrite(p) \/ StartDelete(p) \/ StartSync(p)
    PROVE  IInv'
<1>1. PICK kind \in {"write", "delete", "sync"}, x \in Keys \ {Nested},
           v \in Contents \cup {Absent}, c \in BOOLEAN :
         Begin(p, kind, x, v, c) /\ (kind = "delete" => v = Absent)
  <2>1. Writable \subseteq Keys \ {Nested} /\ Temp \in Keys \ {Nested}
    BY RawStoreAssumption DEF Writable, Keys, Paths
  <2> QED
    BY <2>1 DEF StartWrite, StartDelete, StartSync
<1> DEFINE c0 == [Idle EXCEPT !.pc = "lock", !.kind = kind, !.name = x, !.content = v, !.commits = c]
<1>2. /\ Typed /\ cmd[p].pc = "idle" /\ ops < MaxOps /\ ops' = ops + 1
      /\ cmd' = [cmd EXCEPT ![p] = c0]
      /\ UNCHANGED <<raw, lines, head, lock, host, suspect>>
  BY <1>1 DEF IInv, Begin, At
<1>3. /\ c0.pc = "lock" /\ c0.kind = kind /\ c0.name = x /\ c0.content = v
      /\ c0.was = Idle.was /\ c0.host = Idle.host
  BY IdleIsCommand DEF Command
<1>4. c0 \in Command
  BY IdleIsCommand DEF Command, PCs
<1>5. cmd' \in [Procs -> Command] /\ Others(p) /\ cmd'[p] = c0
  BY <1>2, <1>4 DEF Typed, Others
<1>6. cmd[p].pc \notin UnderLock /\ c0.pc \notin UnderLock
  BY <1>2, <1>3 DEF UnderLock
<1>7. Typed'
  <2>1. \A q \in Procs : cmd'[q].pc \in UnderLock <=> lock' = q
    BY <1>2, <1>5, <1>6 DEF Typed, Others
  <2>2. ops' \in 0 .. MaxOps
    BY <1>2, RawStoreAssumption DEF Typed
  <2> QED
    BY <1>2, <1>5, <2>1, <2>2 DEF Typed
<1>8. KindSteps'
  <2>1. Idle.host <= host
    BY <1>2, RawStoreAssumption DEF Typed, Idle
  <2> QED
    BY <1>1, <1>2, <1>3, <1>5, <2>1, KindStepsMove DEF Kind, X
<1>10. ASSUME NEW q \in Procs PROVE Knows(q)'
  <2>1. CASE q = p
    BY <1>5, <1>6, <2>1 DEF Knows, KnowsFile, KnowsLines, KnowsFound, KnowsListed, UnderLock
  <2>2. CASE q # p
    BY <1>2, <1>5, <2>2, KnowsStays DEF IInv, Others
  <2> QED
    BY <2>1, <2>2
<1>11. DoubledIsSuspect' /\ DriftInv'
  <2>1. \A q \in Procs : cmd[q].pc \in UnderLock => cmd'[q] = cmd[q]
    BY <1>5, <1>6 DEF Others
  <2>2. \A q \in Procs : cmd[q].pc \in UnderLock =>
           HalfDone(q)' = HalfDone(q) /\ Misnamed(q)' = Misnamed(q)
    BY <2>1, HalfDoneStays
  <2>3. \A q \in Procs : lock = q => cmd[q].pc \in UnderLock
    BY <1>2 DEF Typed
  <2> QED
    BY <1>2, <2>1, <2>2, <2>3 DEF IInv, DoubledIsSuspect, DriftInv, Listed, UnderLock
<1> QED
  BY <1>7, <1>8, <1>10, <1>11 DEF IInv

\* A command takes the lock, and notes how often the host had moved.
LEMMA LockKeeps == ASSUME IInv, NEW p \in Procs, Lock(p) PROVE IInv'
<1> DEFINE pc == IF Kind(p) = "sync" THEN "read" ELSE "preflight"
<1>1. /\ Typed /\ cmd[p].pc = "lock" /\ lock = NoOne /\ lock' = p
      /\ cmd' = [cmd EXCEPT ![p].pc = pc, ![p].host = host]
      /\ UNCHANGED <<raw, lines, head, ops, host, suspect>>
  BY DEF IInv, Lock, At, LockFree
<1>2. cmd[p] \in Command /\ host \in Nat
  BY <1>1, RawStoreAssumption DEF Typed
<1>3. /\ cmd' \in [Procs -> Command] /\ Others(p) /\ cmd'[p].pc = pc /\ cmd'[p].host = host
      /\ cmd'[p].kind = cmd[p].kind /\ cmd'[p].name = cmd[p].name
      /\ cmd'[p].content = cmd[p].content /\ cmd'[p].was = cmd[p].was
  BY <1>1, <1>2 DEF Typed, Command, PCs, UnderLock, Others
<1>4. \A q \in Procs : cmd[q].pc \notin UnderLock
  BY <1>1, RawStoreAssumption DEF Typed
<1>5. Typed'
  <2>1. \A q \in Procs : cmd'[q].pc \in UnderLock <=> lock' = q
    BY <1>1, <1>3, <1>4 DEF Others, UnderLock
  <2> QED
    BY <1>1, <1>3, <2>1 DEF Typed
<1>6. KindSteps'
  <2>1. cmd'[p].host <= host
    BY <1>2, <1>3
  <2>2. Kind(p)' = Kind(p) /\ X(p)' = X(p)
    BY <1>3 DEF Kind, X
  <2>3. Kind(p) = "delete" => cmd[p].content = Absent
    BY DEF IInv, KindSteps
  <2> QED
    BY <1>1, <1>3, <2>1, <2>2, <2>3, KindStepsMove
<1>8. ASSUME NEW q \in Procs PROVE Knows(q)'
  <2>1. CASE q = p
    <3>1. cmd'[q].pc = "read" \/ (cmd'[q].pc = "preflight" /\ Kind(q)' # "sync")
      BY <1>3, <2>1 DEF Kind
    <3> QED
      BY <3>1 DEF Knows, KnowsFile, KnowsLines, KnowsFound, KnowsListed
  <2>2. CASE q # p
    BY <1>1, <1>3, <2>2, KnowsStays DEF IInv, Others
  <2> QED
    BY <2>1, <2>2
<1>9. DoubledIsSuspect' /\ DriftInv'
  <2>1. \A q \in Procs : lock # q /\ cmd[q].pc # "commit"
    BY <1>1, <1>4, RawStoreAssumption DEF UnderLock
  <2> QED
    BY <1>1, <2>1 DEF IInv, DoubledIsSuspect, DriftInv, Listed
<1> QED
  BY <1>5, <1>6, <1>8, <1>9 DEF IInv

\* The preflight of a command.
LEMMA PreflightKeeps == ASSUME IInv, NEW p \in Procs, Preflight(p) PROVE IInv'
<1>1. Typed /\ cmd[p].pc = "preflight" /\ UNCHANGED <<raw, lines, head>>
  BY DEF IInv, Preflight, At
<1>2. CASE Fails(p)
  BY <1>1, <1>2, FailKeeps
<1>3. CASE Goto(p, AfterPreflight(p)) /\ UNCHANGED <<lock, ops, host, suspect>>
  <2>1. AfterPreflight(p) \in {"list", "file"}
    BY DEF AfterPreflight
  <2>2. /\ cmd' \in [Procs -> Command] /\ Others(p)
        /\ SameCommand(p) /\ cmd'[p].pc = AfterPreflight(p)
        /\ cmd'[p].sum = cmd[p].sum /\ cmd'[p].was = cmd[p].was /\ cmd'[p].found = cmd[p].found
    BY <1>1, <1>3, <2>1, GotoMoves DEF PCs, UnderLock
  <2>3. Kind(p)' = Kind(p) /\ X(p)' = X(p) /\ Quiet(p)' = Quiet(p)
    BY <1>3, <2>2 DEF SameCommand, Kind, X, Quiet
  <2>4. Kind(p) = "sync" <=> AfterPreflight(p) = "list"
    BY DEF AfterPreflight
  <2>5. KindSteps'
    <3>1. /\ Kind(p) = "delete" => cmd[p].content = Absent
          /\ cmd[p].host <= host
      BY DEF IInv, KindSteps
    <3> QED
      BY <1>3, <2>1, <2>2, <2>3, <2>4, <3>1, KindStepsMove DEF SameCommand
  <2>7. Knows(p)'
    <3>1. KnowsFound(p)
      BY DEF IInv, Knows
    <3> QED
      BY <1>1, <1>3, <2>1, <2>2, <2>3, <2>4, <3>1
      DEF Knows, KnowsFile, KnowsLines, KnowsFound, KnowsListed, Touched
  <2>8. DoubledIsSuspect'
    BY <1>1, <1>3, DoubledOfHolder DEF DoubledIsSuspect, UnderLock
  <2>9. DriftInv'
    <3>1. HalfDone(p) = {}
      BY <1>1 DEF HalfDone
    <3>2. lines # Corrupt => \A x \in Keys \ {Nested} : x \in suspect \/ raw[x] = Listed(lines)[x]
      BY <1>1, <3>1, DriftOfHolder DEF UnderLock
    <3> QED
      BY <1>1, <1>3, <3>2 DEF DriftInv, Listed
  <2> QED
    BY <1>1, <1>3, <2>1, <2>2, <2>5, <2>7, <2>8, <2>9, HolderKeeps DEF UnderLock, Typed
<1> QED
  BY <1>2, <1>3 DEF Preflight

\* The file is written or removed, and its line does not say so yet.
LEMMA ChangeFileKeeps == ASSUME IInv, NEW p \in Procs, ChangeFile(p) PROVE IInv'
<1>1. /\ Typed /\ cmd[p].pc = "file" /\ UNCHANGED <<lines, head>>
      /\ Kind(p) # "sync" /\ File(p) \in Keys
  BY HalfDoneIsKeys DEF IInv, ChangeFile, At, KindSteps, Typed
<1>2. CASE Fails(p) /\ UNCHANGED raw
  BY <1>1, <1>2, FailKeeps
<1>3. CASE /\ raw' = [raw EXCEPT ![File(p)] = cmd[p].content]
           /\ Goto(p, IF Kind(p) = "write" THEN "sum" ELSE "look")
           /\ UNCHANGED <<lock, ops, host, suspect>>
  <2> DEFINE pc == IF Kind(p) = "write" THEN "sum" ELSE "look"
  <2>1. /\ cmd' \in [Procs -> Command] /\ Others(p)
        /\ SameCommand(p) /\ cmd'[p].pc = pc
        /\ cmd'[p].sum = cmd[p].sum /\ cmd'[p].was = cmd[p].was /\ cmd'[p].found = cmd[p].found
    BY <1>1, <1>3, GotoMoves DEF PCs, UnderLock
  <2>2. Kind(p)' = Kind(p) /\ X(p)' = X(p) /\ File(p)' = File(p) /\ HalfDone(p)' = {File(p)}
    BY <1>1, <2>1 DEF SameCommand, Kind, X, File, HalfDone
  <2>3. raw' \in Files /\ raw'[File(p)] = cmd[p].content /\ \A x \in Keys \ {File(p)} : raw'[x] = raw[x]
    BY <1>1, <1>3 DEF Typed, Files, Command
  <2>4. KindSteps'
    <3>1. /\ Kind(p) = "delete" => cmd[p].content = Absent
          /\ cmd[p].host <= host
      BY DEF IInv, KindSteps
    <3> QED
      BY <1>1, <1>3, <2>1, <2>2, <3>1, KindStepsMove DEF SameCommand
  <2>6. Knows(p)'
    <3>1. Kind(p) = "delete" => raw'[File(p)] = Absent
      BY <2>3 DEF IInv, KindSteps
    <3>2. Kind(p) \in {"write", "delete"}
      BY <1>1 DEF Typed, Command, Kind
    <3> QED
      BY <2>1, <2>2, <3>1, <3>2 DEF Knows, KnowsFile, KnowsLines, KnowsFound, KnowsListed
  <2>7. DoubledIsSuspect'
    BY <1>1, <1>3, DoubledOfHolder DEF DoubledIsSuspect, UnderLock
  <2>8. DriftInv'
    <3>1. HalfDone(p) = {} /\ lock = p
      BY <1>1 DEF HalfDone, Typed, UnderLock
    <3>2. lines # Corrupt => \A x \in Keys \ {Nested} : x \in suspect \/ raw[x] = Listed(lines)[x]
      BY <1>1, <3>1, DriftOfHolder DEF UnderLock
    <3> QED
      BY <1>1, <1>3, <2>2, <2>3, <3>1, <3>2 DEF DriftInv, Listed
  <2> QED
    BY <1>1, <1>3, <2>1, <2>3, <2>4, <2>6, <2>7, <2>8, HolderKeeps DEF UnderLock, Typed
<1> QED
  BY <1>2, <1>3 DEF ChangeFile

\* The hash of a write is the one of the file as it is now.
LEMMA HashKeeps == ASSUME IInv, NEW p \in Procs, Hash(p) PROVE IInv'
<1>1. /\ Typed /\ cmd[p].pc = "sum" /\ UNCHANGED <<raw, lines, head>>
      /\ Kind(p) = "write" /\ File(p) \in Keys
  BY HalfDoneIsKeys DEF IInv, Hash, At, KindSteps, Typed
<1>2. CASE Fails(p)
  BY <1>1, <1>2, FailKeeps
<1>3. CASE /\ raw[File(p)] # Absent
           /\ cmd' = [cmd EXCEPT ![p].pc = "look", ![p].sum = raw[File(p)]]
           /\ UNCHANGED <<lock, ops, host, suspect>>
  <2>1. raw[File(p)] \in Contents /\ cmd[p] \in Command
    BY <1>1, <1>3 DEF Typed, Files
  <2>2. /\ cmd' \in [Procs -> Command] /\ Others(p) /\ SameCommand(p)
        /\ cmd'[p].pc = "look" /\ cmd'[p].sum = raw[File(p)] /\ cmd'[p].was = cmd[p].was
    BY <1>1, <1>3, <2>1 DEF Typed, Command, PCs, UnderLock, Others, SameCommand
  <2>3. Kind(p)' = Kind(p) /\ X(p)' = X(p) /\ File(p)' = File(p) /\ HalfDone(p)' = HalfDone(p)
    BY <1>1, <2>2 DEF SameCommand, Kind, X, File, HalfDone
  <2>4. KindSteps'
    <3>1. cmd[p].host <= host
      BY <1>1 DEF IInv, KindSteps
    <3> QED
      BY <1>1, <1>3, <2>1, <2>2, <2>3, <3>1, KindStepsMove DEF SameCommand
  <2>6. Knows(p)'
    BY <1>1, <2>2, <2>3 DEF Knows, KnowsFile, KnowsLines, KnowsFound, KnowsListed
  <2>7. DoubledIsSuspect' /\ DriftInv'
    <3>1. \A q \in Procs : lock = q => HalfDone(q)' = HalfDone(q)
      BY <1>1, <2>3 DEF Typed, UnderLock
    <3>2. DoubledIsSuspect'
      BY <1>1, <1>3, DoubledOfHolder DEF DoubledIsSuspect, UnderLock
    <3> QED
      BY <1>1, <1>3, <3>1, <3>2 DEF IInv, DriftInv, Listed
  <2> QED
    BY <1>1, <1>3, <2>2, <2>4, <2>6, <2>7, HolderKeeps DEF UnderLock, Typed
<1> QED
  BY <1>2, <1>3 DEF Hash

\* What a command reads of the manifest is true when it reads it.
LEMMA ReadManifestKeeps == ASSUME IInv, NEW p \in Procs, ReadManifest(p) PROVE IInv'
<1>1. /\ Typed /\ cmd[p].pc \in {"look", "read"} /\ UNCHANGED <<raw, lines, head>>
  BY DEF IInv, ReadManifest, At, Typed
<1>2. CASE Fails(p)
  BY <1>1, <1>2, FailKeeps
<1> DEFINE pc == IF cmd[p].pc = "look" THEN "list" ELSE "walk"
<1>3. CASE /\ lines # Corrupt
           /\ cmd' = [cmd EXCEPT ![p].pc = pc, ![p].was = lines]
           /\ UNCHANGED <<lock, ops, host, suspect>>
  <2>1. lines \in [Keys -> Seq(Contents)] /\ cmd[p] \in Command
    BY <1>1, <1>3 DEF Typed, Lines
  <2>2. /\ cmd' \in [Procs -> Command] /\ Others(p) /\ SameCommand(p)
        /\ cmd'[p].pc = pc /\ cmd'[p].sum = cmd[p].sum /\ cmd'[p].was = lines
    BY <1>1, <1>3, <2>1 DEF Typed, Command, PCs, UnderLock, Others, SameCommand
  <2>3. Kind(p)' = Kind(p) /\ X(p)' = X(p) /\ File(p)' = File(p) /\ Quiet(p)' = Quiet(p)
    BY <1>3, <2>2 DEF SameCommand, Kind, X, File, Quiet
  <2>4. /\ cmd[p].pc = "look" <=> Kind(p) # "sync"
        /\ cmd[p].pc = "look" /\ Kind(p) = "write" => cmd[p].sum \in Contents
        /\ Kind(p) = "delete" => cmd[p].content = Absent
        /\ cmd[p].host <= host
    BY <1>1 DEF IInv, KindSteps
  <2>5. KindSteps'
    BY <1>1, <1>3, <2>2, <2>3, <2>4, KindStepsMove DEF SameCommand
  <2>7. Knows(p)'
    <3>1. KnowsFile(p)
      BY DEF IInv, Knows
    <3> QED
      BY <1>1, <1>3, <2>2, <2>3, <2>4, <3>1
      DEF Knows, KnowsFile, KnowsLines, KnowsFound, KnowsListed, Touched
  <2>8. DoubledIsSuspect' /\ DriftInv'
    <3>1. \A q \in Procs : lock = q => HalfDone(q)' = HalfDone(q)
      BY <1>1, <2>2, <2>3, <2>4 DEF Typed, UnderLock, HalfDone
    <3>2. DoubledIsSuspect'
      BY <1>1, <1>3, DoubledOfHolder DEF DoubledIsSuspect, UnderLock
    <3> QED
      BY <1>1, <1>3, <3>1, <3>2 DEF IInv, DriftInv, Listed
  <2> QED
    BY <1>1, <1>3, <2>2, <2>5, <2>7, <2>8, HolderKeeps DEF UnderLock, Typed
<1> QED
  BY <1>1, <1>2, <1>3 DEF ReadManifest, At

\* A command that succeeds takes out of the suspects what its lines describe.
LEMMA SuccessKeeps ==
    ASSUME IInv, NEW p \in Procs, cmd[p].pc \in {"walk", "commit"}, Succeeds(p),
           UNCHANGED <<raw, lines>>, head'.raw \in Files, head'.lines \in Lines,
           \A x \in Settled(p) \ {Nested} : raw[x] = Listed(lines)[x]
    PROVE  IInv'
<1>1. /\ Typed /\ Ends(p) /\ lock = p /\ suspect' = (suspect \cup HalfDone(p)) \ Settled(p)
      /\ HalfDone(p) \subseteq Keys
  BY HalfDoneIsKeys DEF IInv, Succeeds, Typed, UnderLock
<1>2. DriftInv'
  <2>1. lines # Corrupt =>
          \A x \in Keys \ {Nested} : x \in suspect \cup HalfDone(p) \/ raw[x] = Listed(lines)[x]
    BY DriftOfHolder DEF UnderLock
  <2> QED
    BY <1>1, <2>1 DEF DriftInv, Listed
<1>3. DoubledIsSuspect'
  <2> SUFFICES ASSUME lines # Corrupt, NEW x \in Keys, Len(lines[x]) > 1
               PROVE  x \in suspect'
    BY DEF DoubledIsSuspect
  <2>1. x \in suspect \cup HalfDone(p)
    BY DoubledOfHolder DEF HalfDone, UnderLock
  <2>2. Len(lines[x]) \in Nat
    BY <1>1 DEF Typed, Lines
  <2>3. x \notin Settled(p)
    BY <2>2 DEF Settled, Single
  <2> QED
    BY <1>1, <2>1, <2>3
<1> QED
  BY <1>1, <1>2, <1>3, EndKeeps DEF Typed

\* A sync ends when the lines describe the files, or notes the hashes it found.
LEMMA WalkKeeps == ASSUME IInv, NEW p \in Procs, Walk(p) PROVE IInv'
<1>1. /\ Typed /\ cmd[p].pc = "walk" /\ UNCHANGED <<raw, lines, head>> /\ Kind(p) = "sync"
  BY DEF IInv, Walk, At, KindSteps
<1>2. CASE NoChanges(p) /\ Succeeds(p)
  <2>1. ASSUME NEW x \in Settled(p) \ {Nested} PROVE raw[x] = Listed(lines)[x]
    <3>1. x \in Keys /\ Quiet(p)
      BY <1>1, <2>1 DEF Settled, About
    <3>2. cmd[p].was = lines
      BY <1>1, <3>1 DEF IInv, Knows, KnowsLines, AllTouched
    <3>3. Found[x] = raw[x]
      BY <2>1, <3>1 DEF Found, Walked
    <3> QED
      BY <1>2, <3>2, <3>3 DEF NoChanges
  <2>2. head'.raw \in Files /\ head'.lines \in Lines
    BY <1>1 DEF Typed
  <2> QED
    BY <1>1, <1>2, <2>1, <2>2, SuccessKeeps
<1>3. CASE /\ cmd' = [cmd EXCEPT ![p].pc = "preflight", ![p].found = Found]
           /\ UNCHANGED <<lock, ops, host, suspect>>
  <2>1. Found \in Files /\ cmd[p] \in Command
    BY <1>1 DEF Found, Typed, Files
  <2>2. /\ cmd' \in [Procs -> Command] /\ Others(p) /\ SameCommand(p)
        /\ cmd'[p].pc = "preflight" /\ cmd'[p].found = Found /\ cmd'[p].was = cmd[p].was
    BY <1>1, <1>3, <2>1 DEF Typed, Command, PCs, UnderLock, Others, SameCommand
  <2>3. Kind(p)' = Kind(p) /\ X(p)' = X(p) /\ HalfDone(p)' = HalfDone(p)
    BY <1>1, <2>2 DEF SameCommand, Kind, X, HalfDone
  <2>4. cmd[p].host <= host
    BY DEF IInv, KindSteps
  <2>5. KindSteps'
    BY <1>1, <1>3, <2>2, <2>3, <2>4, KindStepsMove DEF SameCommand
  <2>7. Knows(p)'
    <3>1. \A x \in Keys \ {Nested} : Found[x] = raw[x]
      BY DEF Found, Walked
    <3> QED
      BY <1>1, <2>2, <2>3, <3>1 DEF Knows, KnowsFile, KnowsLines, KnowsFound, KnowsListed
  <2>8. DoubledIsSuspect' /\ DriftInv'
    <3>1. \A q \in Procs : lock = q => HalfDone(q)' = HalfDone(q)
      BY <1>1, <2>3 DEF Typed, UnderLock
    <3>2. DoubledIsSuspect'
      BY <1>1, <1>3, DoubledOfHolder DEF DoubledIsSuspect, UnderLock
    <3> QED
      BY <1>1, <1>3, <3>1, <3>2 DEF IInv, DriftInv, Listed
  <2> QED
    BY <1>1, <1>3, <2>2, <2>5, <2>7, <2>8, HolderKeeps DEF UnderLock, Typed
<1> QED
  BY <1>2, <1>3 DEF Walk

\* The lines a write or a deletion writes: those of other keys as it read them,
\* and for a key of its own none or one of its hash, or as many as before.
LEMMA LinesOfOne ==
    ASSUME IInv, NEW p \in Procs, cmd[p].pc = "list", Kind(p) # "sync", NEW ls \in NewLines(p)
    PROVE  /\ ls \in [Keys -> Seq(Contents)]
           /\ \A x \in Keys \ {X(p), ReadAs[X(p)]} : ls[x] = cmd[p].was[x]
           /\ Own(X(p)) =>
                /\ Len(ls[X(p)]) > 1 => Len(cmd[p].was[X(p)]) > 1
                /\ Len(ls[X(p)]) <= 1 =>
                     Listed(ls)[X(p)] = IF Kind(p) = "write" THEN cmd[p].sum ELSE Absent
<1> DEFINE was == cmd[p].was  x0 == X(p)  sum == cmd[p].sum
<1>1. was \in [Keys -> Seq(Contents)] /\ x0 \in Keys /\ Kind(p) \in {"write", "delete"}
  BY DEF IInv, Typed, Command, X, Kind
<1>2. was[x0] \in Seq(Contents)
  BY <1>1
<1>3. CASE Kind(p) = "write" /\ was[x0] # <<>>
  <2>1. sum \in Contents /\ ls = WithEntry(was, x0, sum)
    BY <1>3 DEF IInv, KindSteps, NewLines
  <2>2. PICK own : own = [was[x0] EXCEPT ![1] = sum]
    OBVIOUS
  <2>3. own \in Seq(Contents) /\ own # <<>> /\ own[1] = sum /\ Len(own) = Len(was[x0])
    BY <1>2, <1>3, <2>1, <2>2
  <2>4. ls = [was EXCEPT ![x0] = own]
    BY <1>1, <1>3, <2>1, <2>2 DEF WithEntry
  <2>5. ls \in [Keys -> Seq(Contents)] /\ ls[x0] = own
        /\ \A x \in Keys \ {x0} : ls[x] = was[x]
    BY <1>1, <2>3, <2>4
  <2>6. Len(own) <= 1 => Len(own) = 1
    <3>1. Len(own) \in Nat /\ Len(own) # 0
      BY <2>3
    <3>2. \A n \in Nat : n # 0 /\ n <= 1 => n = 1
      BY ONLY TRUE
    <3> QED
      BY <3>1, <3>2
  <2>7. Len(own) <= 1 => Listed(ls)[x0] = sum
    BY <1>1, <2>3, <2>5, <2>6, ListedSays
  <2> QED
    BY <1>1, <1>3, <2>3, <2>5, <2>7
<1>4. CASE Kind(p) = "write" /\ was[x0] = <<>>
  <2>1. sum \in Contents /\ ls = WithEntry(was, x0, sum)
    BY <1>4 DEF IInv, KindSteps, NewLines
  <2>2. ls = [x \in Keys |-> IF x = ReadAs[x0] THEN Append(was[x], sum) ELSE was[x]]
    BY <1>4, <2>1 DEF WithEntry
  <2>3. \A x \in Keys : was[x] \in Seq(Contents) /\ Append(was[x], sum) \in Seq(Contents)
    BY <1>1, <2>1
  <2>4. ls \in [Keys -> Seq(Contents)] /\ \A x \in Keys \ {x0, ReadAs[x0]} : ls[x] = was[x]
    BY <2>2, <2>3
  <2>5. ASSUME Own(x0)
        PROVE  ~(Len(ls[x0]) > 1) /\ Listed(ls)[x0] = sum
    <3>1. ls[x0] = Append(was[x0], sum)
      BY <1>1, <2>2, <2>5 DEF Own
    <3>2. ls[x0] = <<sum>>
      BY <1>4, <3>1
    <3>3. Len(ls[x0]) = 1 /\ ls[x0] # <<>> /\ ls[x0][1] = sum
      BY <3>2
    <3>4. ~(Len(ls[x0]) > 1)
      BY <3>3
    <3>5. Listed(ls)[x0] = sum
      BY <1>1, <2>4, <3>3, ListedSays
    <3> QED
      BY <3>4, <3>5
  <2> QED
    BY <1>1, <1>4, <2>4, <2>5
<1>5. CASE Kind(p) = "delete"
  <2>1. ls = [was EXCEPT ![x0] = <<>>]
    BY <1>5, NewLines(p) = {WithoutEntry(was, x0)} DEF NewLines, WithoutEntry
  <2>2. ls \in [Keys -> Seq(Contents)] /\ ls[x0] = <<>>
        /\ \A x \in Keys \ {x0} : ls[x] = was[x]
    BY <1>1, <2>1
  <2>3. Listed(ls)[x0] = Absent
    BY <1>1, <2>2, ListedSays
  <2>4. ~(Len(ls[x0]) > 1)
    BY <2>2
  <2> QED
    BY <1>1, <1>5, <2>2, <2>3, <2>4
<1> QED
  BY <1>1, <1>3, <1>4, <1>5

\* One way to put the lines that are read back as one key in order.
LEMMA ArrangementType ==
    ASSUME NEW found \in Files, NEW x \in Keys, NEW a \in Arrangements(found, x)
    PROVE  /\ a \in Seq(Contents)
           /\ Entries(found, x) = {x} => a = <<found[x]>>
<1>1. PICK n : n = Cardinality(Entries(found, x))
  OBVIOUS
<1>2. n \in Nat /\ (Entries(found, x) = {x} => n = 1)
  <2>1. Entries(found, x) \in SUBSET Keys
    BY DEF Entries
  <2>2. IsFiniteSet(Entries(found, x))
    BY <2>1, RawStoreAssumption, FS_Subset
  <2> QED
    BY <1>1, <2>2, FS_CardinalityType, FS_Singleton
<1>3. PICK s \in [1 .. n -> Entries(found, x)] : a = [i \in DOMAIN s |-> found[s[i]]]
  BY <1>1 DEF Arrangements, SetToSeqs
<1>4. \A i \in 1 .. n : found[s[i]] \in Contents
  BY <1>3 DEF Entries, Files
<1>5. a = [i \in 1 .. n |-> found[s[i]]]
  BY <1>3
<1>6. a \in Seq(Contents)
  BY <1>2, <1>4, <1>5
<1>7. ASSUME Entries(found, x) = {x} PROVE a = <<found[x]>>
  <2>1. n = 1 /\ s[1] = x
    BY <1>2, <1>3, <1>7
  <2>2. Len(a) = 1 /\ a[1] = found[x]
    BY <1>5, <2>1
  <2> QED
    BY <1>6, <2>2
<1> QED
  BY <1>6, <1>7

\* The lines of a sync: one for each file it found, but for those that are read
\* back under another name.
LEMMA LinesOfSync ==
    ASSUME IInv, NEW p \in Procs, cmd[p].pc = "list", Kind(p) = "sync",
           NEW ls \in NewLines(p), ls # Corrupt
    PROVE  /\ ls \in [Keys -> Seq(Contents)]
           /\ \A x \in Keys \ Misnamed(p) :
                ~(Len(ls[x]) > 1) /\ Listed(ls)[x] = cmd[p].found[x]
<1> DEFINE found == cmd[p].found
<1>1. found \in Files
  BY DEF IInv, Typed, Command
<1>2. PICK f \in Orders(found) : ls = [x \in Keys |-> IF x \in Heard(found) THEN f[x] ELSE <<>>]
  BY NewLines(p) = LinesOf(found) DEF NewLines, LinesOf
<1>3. \A x \in Heard(found) : f[x] \in Arrangements(found, x)
  BY <1>2 DEF Orders
<1>4. ls \in [Keys -> Seq(Contents)]
  <2>1. \A x \in Heard(found) : f[x] \in Seq(Contents)
    BY <1>1, <1>3, ArrangementType DEF Heard
  <2>2. <<>> \in Seq(Contents)
    OBVIOUS
  <2> QED
    BY <1>2, <2>1, <2>2
<1>5. ASSUME NEW x \in Keys \ Misnamed(p)
      PROVE  ~(Len(ls[x]) > 1) /\ Listed(ls)[x] = found[x]
  <2>1. \A y \in Keys : found[y] # Absent /\ x \in {y, ReadAs[y]} => Own(y)
    BY DEF Misnamed, Recording
  <2>2. \A y \in Entries(found, x) : y = x
    BY <2>1 DEF Entries, Own
  <2>3. CASE found[x] = Absent
    <3>1. x \notin Heard(found)
      BY <2>2, <2>3 DEF Heard, Entries
    <3>2. ls[x] = <<>>
      BY <1>2, <3>1
    <3> QED
      BY <1>4, <2>3, <3>2, ListedSays
  <2>4. CASE found[x] # Absent
    <3>1. x \in Entries(found, x)
      BY <2>1, <2>4 DEF Entries, Own
    <3>2. Entries(found, x) = {x} /\ x \in Heard(found)
      BY <2>2, <3>1 DEF Heard
    <3>3. ls[x] = <<found[x]>>
      BY <1>1, <1>2, <1>3, <3>2, ArrangementType
    <3>4. Len(ls[x]) = 1 /\ ls[x] # <<>> /\ ls[x][1] = found[x]
      BY <3>3
    <3> QED
      BY <1>4, <3>4, ListedSays
  <2> QED
    BY <2>3, <2>4
<1> QED
  BY <1>4, <1>5

\* The manifest is written: the lines of the command's own files are true, and
\* those of all others are as they were, where the host left both alone.
LEMMA WriteManifestKeeps == ASSUME IInv, NEW p \in Procs, WriteManifest(p) PROVE IInv'
<1>1. Typed /\ cmd[p].pc = "list" /\ UNCHANGED <<raw, head>> /\ lock = p
  BY DEF IInv, WriteManifest, At, Typed, UnderLock
<1>2. CASE Fails(p) /\ UNCHANGED lines
  BY <1>1, <1>2, FailKeeps
<1>3. CASE /\ lines' \in NewLines(p)
           /\ Goto(p, "commit")
           /\ UNCHANGED <<lock, ops, host, suspect>>
  <2>1. lines' \in Lines /\ (lines' # Corrupt => lines' \in [Keys -> Seq(Contents)])
    BY <1>1, <1>3, LinesOfOne, LinesOfSync DEF Lines
  <2>2. /\ cmd' \in [Procs -> Command] /\ Others(p)
        /\ SameCommand(p) /\ cmd'[p].pc = "commit" /\ cmd'[p].found = cmd[p].found
    BY <1>1, <1>3, GotoMoves DEF PCs, UnderLock
  <2>3. Kind(p)' = Kind(p) /\ X(p)' = X(p) /\ Quiet(p)' = Quiet(p)
    BY <1>3, <2>2 DEF SameCommand, Kind, X, Quiet
  <2>4. Misnamed(p)' = Misnamed(p) /\ File(p)' = File(p) /\ About(p)' = About(p)
    BY <2>2, MisnamedStays DEF SameCommand
  <2>5. HalfDone(p)' = Misnamed(p)
    BY <2>2, <2>4 DEF HalfDone
  <2>6. KindSteps'
    <3>1. /\ Kind(p) = "delete" => cmd[p].content = Absent
          /\ cmd[p].host <= host
      BY DEF IInv, KindSteps
    <3> QED
      BY <1>3, <2>2, <2>3, <3>1, KindStepsMove DEF SameCommand
  <2>7. KnowsFile(p) /\ KnowsLines(p) /\ KnowsFound(p) /\ X(p) \in Keys /\ File(p) \in Keys
    BY <1>1, HalfDoneIsKeys DEF IInv, Knows
  <2>8. SUFFICES
          /\ \A x \in About(p) \ (Misnamed(p) \cup {Nested}) :
               Touched(p, x) \/ ~Single(lines', x) \/ raw[x] = Listed(lines')[x]
          /\ lines' # Corrupt =>
               \A x \in Keys : Len(lines'[x]) > 1 => x \in suspect \/ x \in Misnamed(p)
          /\ lines' # Corrupt =>
               \A x \in Keys \ {Nested} :
                 x \in suspect \/ x \in Misnamed(p) \/ raw[x] = Listed(lines')[x]
    <3> SUFFICES ASSUME
          \A x \in About(p) \ (Misnamed(p) \cup {Nested}) :
            Touched(p, x) \/ ~Single(lines', x) \/ raw[x] = Listed(lines')[x],
          lines' # Corrupt =>
            \A x \in Keys : Len(lines'[x]) > 1 => x \in suspect \/ x \in Misnamed(p),
          lines' # Corrupt =>
            \A x \in Keys \ {Nested} :
              x \in suspect \/ x \in Misnamed(p) \/ raw[x] = Listed(lines')[x]
        PROVE IInv'
      OBVIOUS
    <3>1. Knows(p)'
      BY <1>1, <1>3, <2>2, <2>3, <2>4
      DEF Knows, KnowsFile, KnowsLines, KnowsFound, KnowsListed, Touched, Single, Listed
    <3>2. DoubledIsSuspect'
      BY <1>3, <2>2, <2>4 DEF DoubledIsSuspect
    <3>3. DriftInv'
      BY <1>1, <1>3, <2>5 DEF DriftInv, Listed
    <3> QED
      BY <1>1, <1>3, <2>1, <2>2, <2>6, <3>1, <3>2, <3>3, HolderKeeps DEF UnderLock, Typed
  <2>9. CASE Kind(p) # "sync"
    <3>1. /\ lines' # Corrupt /\ lines' \in [Keys -> Seq(Contents)]
          /\ \A x \in Keys \ {X(p), ReadAs[X(p)]} : lines'[x] = cmd[p].was[x]
      BY <1>1, <1>3, <2>9, LinesOfOne, RawStoreAssumption
    <3>2. ~Own(X(p)) => {X(p), File(p), ReadAs[X(p)]} \cap Keys \subseteq Misnamed(p)
      BY <2>9 DEF Misnamed, Recording, File
    <3>3. Own(X(p)) =>
            /\ File(p) = X(p) /\ ReadAs[X(p)] = X(p)
            /\ Len(lines'[X(p)]) > 1 => Len(cmd[p].was[X(p)]) > 1
            /\ \/ Touched(p, X(p)) \/ Len(lines'[X(p)]) > 1
               \/ raw[X(p)] = Listed(lines')[X(p)]
      <4>1. Len(lines'[X(p)]) \in Nat
        BY <2>7, <3>1
      <4>2. Len(lines'[X(p)]) <= 1 \/ Len(lines'[X(p)]) > 1
        BY <4>1
      <4> QED
        BY <1>1, <1>3, <2>7, <2>9, <4>2, LinesOfOne DEF KnowsFile, Own, File
    <3>4. About(p) = {File(p)}
      BY <2>9 DEF About
    <3>5. \A x \in About(p) \ (Misnamed(p) \cup {Nested}) :
            Touched(p, x) \/ ~Single(lines', x) \/ raw[x] = Listed(lines')[x]
      <4>1. Len(lines'[X(p)]) > 1 => ~Single(lines', X(p))
        <5>1. Len(lines'[X(p)]) \in Nat
          BY <2>7, <3>1
        <5> QED
          BY <5>1 DEF Single
      <4> QED
        BY <2>7, <3>2, <3>3, <3>4, <4>1
    <3>6. CASE suspect = Keys
      BY <3>5, <3>6
    <3>7. CASE cmd[p].was = lines
      <4>1. lines \in [Keys -> Seq(Contents)] /\ lines # Corrupt
        BY <1>1, <3>7, RawStoreAssumption DEF Typed, Command
      <4>2. ASSUME NEW x \in Keys, Len(lines'[x]) > 1, x \notin Misnamed(p) PROVE x \in suspect
        <5>1. Len(lines[x]) > 1
          BY <3>1, <3>2, <3>3, <3>7, <4>2
        <5> QED
          BY <1>1, <4>1, <5>1, DoubledOfHolder DEF UnderLock
      <4>3. ASSUME NEW x \in Keys \ {Nested}, x \notin suspect, x \notin Misnamed(p)
            PROVE  raw[x] = Listed(lines')[x]
        <5>1. CASE x \in {X(p), ReadAs[X(p)], File(p)}
          <6>1. Own(X(p)) /\ x = X(p)
            BY <3>2, <3>3, <4>3, <5>1
          <6>2. ~(Len(lines'[x]) > 1)
            BY <4>2, <4>3
          <6> QED
            BY <3>3, <4>3, <6>1, <6>2 DEF Touched
        <5>2. CASE x \notin {X(p), ReadAs[X(p)], File(p)}
          <6>1. lines'[x] = lines[x] /\ x \in Keys
            BY <3>1, <3>7, <5>2
          <6>2. x \notin HalfDone(p)
            BY <1>1, <2>9, <5>2 DEF HalfDone
          <6>3. raw[x] = Listed(lines)[x]
            BY <1>1, <4>1, <4>3, <6>2, DriftOfHolder DEF UnderLock
          <6>4. /\ Listed(lines)[x] = IF lines[x] = <<>> THEN Absent ELSE lines[x][Len(lines[x])]
                /\ Listed(lines')[x] = IF lines'[x] = <<>> THEN Absent ELSE lines'[x][Len(lines'[x])]
            BY ONLY <3>1, <4>1, <6>1, ListedSays
          <6> QED
            BY ONLY <6>1, <6>3, <6>4
        <5> QED
          BY <5>1, <5>2
      <4> QED
        BY <3>5, <4>2, <4>3
    <3>8. suspect = Keys \/ cmd[p].was = lines
      BY <1>1, <2>7, <2>9 DEF KnowsLines, AllTouched
    <3> QED
      BY <3>6, <3>7, <3>8
  <2>10. CASE Kind(p) = "sync"
    <3>1. \A x \in Keys \ {Nested} : Touched(p, x) \/ cmd[p].found[x] = raw[x]
      BY <1>1, <2>7, <2>10 DEF KnowsFound
    <3>2. lines' # Corrupt =>
            \A x \in Keys \ Misnamed(p) :
              ~(Len(lines'[x]) > 1) /\ Listed(lines')[x] = cmd[p].found[x]
      BY <1>1, <1>3, <2>10, LinesOfSync
    <3>3. About(p) = Keys
      BY <2>10 DEF About
    <3> QED
      BY <3>1, <3>2, <3>3 DEF Touched, Single
  <2> QED
    BY <2>9, <2>10
<1> QED
  BY <1>2, <1>3 DEF WriteManifest

\* The commit of a command, which ends it.
LEMMA CommitKeeps == ASSUME IInv, NEW p \in Procs, Commit(p) PROVE IInv'
<1>1. Typed /\ cmd[p].pc = "commit" /\ UNCHANGED <<raw, lines>>
  BY DEF IInv, Commit, At
<1>2. CASE Fails(p) /\ UNCHANGED head
  BY <1>1, <1>2, FailKeeps
<1>3. CASE Succeeds(p)
  <2>1. ASSUME NEW x \in Settled(p) \ {Nested} PROVE raw[x] = Listed(lines)[x]
    BY <1>1, <2>1 DEF IInv, Knows, KnowsListed, Settled, HalfDone, Touched
  <2>2. CASE head' = head
    BY <1>1, <1>3, <2>1, <2>2, SuccessKeeps DEF Typed
  <2>3. CASE head' = [raw |-> [x \in Keys |-> IF x \in Recorded(p) THEN raw[x] ELSE head.raw[x]],
                      lines |-> lines]
    <3>1. head'.raw = [x \in Keys |-> IF x \in Recorded(p) THEN raw[x] ELSE head.raw[x]]
          /\ head'.lines = lines
      BY <2>3
    <3>2. head'.raw \in Files
      BY <1>1, <3>1 DEF Typed, Files
    <3> QED
      BY <1>1, <1>3, <2>1, <3>1, <3>2, SuccessKeeps DEF Typed
  <2> QED
    BY <1>3, <2>2, <2>3, <1>2 DEF Commit
<1> QED
  BY <1>2, <1>3 DEF Commit

\* A killed command leaves the file suspect whose line it has not written, and
\* perhaps a temporary file.
LEMMA KilledKeeps == ASSUME IInv, NEW p \in Procs, Killed(p) PROVE IInv'
<1>1. Typed /\ Ends(p) /\ UNCHANGED <<lines, head>>
  BY DEF IInv, Killed
<1>2. CASE UNCHANGED raw /\ suspect' = suspect \cup HalfDone(p)
  BY <1>1, <1>2, FailKeeps DEF Fails
<1>3. CASE /\ cmd[p].pc = "list"
           /\ \E v \in Contents : raw' = [raw EXCEPT ![Temp] = v]
           /\ suspect' = suspect \cup HalfDone(p) \cup {Temp}
  <2>1. lock = p /\ Temp \in Keys
    BY <1>1, <1>3 DEF Typed, UnderLock, Keys, Paths
  <2>2. raw' \in Files /\ \A x \in Keys \ {Temp} : raw'[x] = raw[x]
    BY <1>1, <1>3, <2>1 DEF Typed, Files
  <2>3. suspect' \subseteq Keys
    BY <1>1, <1>3, <2>1, HalfDoneIsKeys DEF Typed
  <2>4. DriftInv'
    <3>1. \A x \in Keys \ {Nested} : lines # Corrupt /\ x \notin suspect' => raw[x] = Listed(lines)[x]
      BY <1>3, DriftOfHolder DEF UnderLock
    <3> QED
      BY <1>1, <1>3, <2>2, <3>1 DEF DriftInv, Listed
  <2>5. DoubledIsSuspect'
    BY <1>1, <1>3, DoubledOfHolder DEF DoubledIsSuspect, UnderLock
  <2> QED
    BY <1>1, <2>1, <2>2, <2>3, <2>4, <2>5, EndKeeps DEF Typed
<1> QED
  BY <1>2, <1>3 DEF Killed, At

\* A step of the host makes suspect what it changes, and no command is quiet
\* any more.
LEMMA HostKeeps == ASSUME IInv, HostStep PROVE IInv'
<1>1. Typed /\ host' = host + 1 /\ host < MaxHost /\ UNCHANGED <<lock, cmd, ops, head>>
  BY DEF IInv, HostStep, HostChangesFile, HostMergesManifest, HostRestoresManifest, HostTurn
<1>2. \A p \in Procs : ~Quiet(p)'
  BY <1>1, RawStoreAssumption DEF IInv, KindSteps, Quiet, Typed, Command
<1>3. KindSteps'
  BY <1>1, RawStoreAssumption DEF IInv, KindSteps, Kind, X, Typed, Command
<1>4. \A p \in Procs : /\ HalfDone(p)' = HalfDone(p) /\ Misnamed(p)' = Misnamed(p)
                      /\ File(p)' = File(p) /\ About(p)' = About(p)
  BY <1>1, HalfDoneStays, MisnamedStays
<1>5. host' \in 0 .. MaxHost
  BY <1>1, RawStoreAssumption DEF Typed
<1>6. CASE HostChangesFile
  <2>1. PICK x0 \in Keys, v \in Contents \cup {Absent} :
            raw' = [raw EXCEPT ![x0] = v] /\ suspect' = suspect \cup {x0}
    BY <1>6 DEF HostChangesFile, Keys
  <2>2. lines' = lines
    BY <1>6 DEF HostChangesFile
  <2>3. raw' \in Files /\ \A x \in Keys \ {x0} : raw'[x] = raw[x]
    BY <1>1, <2>1 DEF Typed, Files
  <2>4. Typed'
    BY <1>1, <1>5, <2>1, <2>2, <2>3 DEF Typed
  <2>6. ASSUME NEW p \in Procs PROVE Knows(p)'
    <3>1. \A x : Touched(p, x) \/ x = x0 => Touched(p, x)'
      BY <1>2, <2>1 DEF Touched
    <3>2. AllTouched(p) => AllTouched(p)'
      BY <1>2, <2>1 DEF AllTouched
    <3>3. Kind(p)' = Kind(p) /\ File(p)' = File(p) /\ About(p)' = About(p) /\ Misnamed(p)' = Misnamed(p)
      BY <1>1, <1>4 DEF Kind
    <3>4. File(p) \in Keys /\ About(p) \subseteq Keys
      BY <1>1, HalfDoneIsKeys
    <3>5. Knows(p)
      BY DEF IInv
    <3> QED
      BY <1>1, <2>2, <2>3, <3>1, <3>2, <3>3, <3>4, <3>5
      DEF Knows, KnowsFile, KnowsLines, KnowsFound, KnowsListed, Single, Listed
  <2>7. DoubledIsSuspect'
    BY <1>1, <1>4, <2>1, <2>2 DEF IInv, DoubledIsSuspect
  <2>8. DriftInv'
    BY <1>1, <1>4, <2>1, <2>2, <2>3 DEF IInv, DriftInv, Listed
  <2> QED
    BY <1>3, <2>4, <2>6, <2>7, <2>8 DEF IInv
<1>7. CASE HostMergesManifest \/ HostRestoresManifest
  <2>1. suspect' = Keys /\ raw' = raw
    BY <1>7 DEF HostMergesManifest, HostRestoresManifest
  <2>2. lines' \in Lines
    <3>1. CASE HostRestoresManifest
      BY <1>1, <3>1 DEF HostRestoresManifest, Typed
    <3>2. CASE HostMergesManifest /\ lines' = Corrupt
      BY <3>2 DEF Lines
    <3>3. CASE HostMergesManifest /\ lines' # Corrupt
      <4>1. lines # Corrupt /\ lines \in [Keys -> Seq(Contents)]
        BY <1>1, <3>3 DEF HostMergesManifest, Typed, Lines
      <4>2. PICK x \in Keys, v \in Contents : lines' = [lines EXCEPT ![x] = Append(lines[x], v)]
        BY <3>3 DEF HostMergesManifest
      <4>3. lines' \in [Keys -> Seq(Contents)]
        BY <4>1, <4>2
      <4> QED
        BY <4>3 DEF Lines
    <3> QED
      BY <1>7, <3>1, <3>2, <3>3
  <2>3. Typed'
    BY <1>1, <1>5, <2>1, <2>2 DEF Typed
  <2>4. ASSUME NEW p \in Procs PROVE Knows(p)'
    <3>1. AllTouched(p)' /\ \A x \in Keys : Touched(p, x)'
      BY <1>2, <2>1 DEF AllTouched, Touched
    <3>2. File(p)' \in Keys /\ About(p)' \subseteq Keys
      BY <1>1, <1>4, HalfDoneIsKeys
    <3> QED
      BY <3>1, <3>2 DEF Knows, KnowsFile, KnowsLines, KnowsFound, KnowsListed
  <2>5. DoubledIsSuspect' /\ DriftInv'
    BY <2>1 DEF DoubledIsSuspect, DriftInv
  <2> QED
    BY <1>3, <2>3, <2>4, <2>5 DEF IInv
<1> QED
  BY <1>6, <1>7 DEF HostStep

\* Every step keeps the invariant.
LEMMA NextKeeps == IInv /\ [Next]_vars => IInv'
<1> SUFFICES ASSUME IInv, [Next]_vars PROVE IInv'
  OBVIOUS
<1>1. ASSUME NEW p \in Procs, Step(p) PROVE IInv'
  BY <1>1, StartKeeps, LockKeeps, PreflightKeeps, ChangeFileKeeps, HashKeeps, ReadManifestKeeps,
     WalkKeeps, WriteManifestKeeps, CommitKeeps, KilledKeeps DEF Step
<1>2. CASE UNCHANGED vars
  <2>1. Typed' /\ KindSteps' /\ DoubledIsSuspect' /\ DriftInv'
    BY <1>2, HalfDoneStays
    DEF vars, IInv, Typed, KindSteps, Kind, DoubledIsSuspect, DriftInv, Listed
  <2>2. \A p \in Procs : Knows(p)'
    BY <1>2, KnowsStays DEF vars, IInv
  <2> QED
    BY <2>1, <2>2 DEF IInv
<1> QED
  BY <1>1, <1>2, HostKeeps DEF Next

\* The inductive invariant holds in every reachable state.
THEOREM RawStoreInvariant == Spec => []IInv
<1> QED
  BY InitIInv, NextKeeps, PTL DEF Spec

\* Every variable of the raw store has its type, and exactly the lock holder is
\* in the steps under the lock.
THEOREM RawStoreType == Spec => []TypeOK
<1>1. IInv => TypeOK
  BY RawStoreAssumption, SMTT(30) DEF IInv, Typed, TypeOK, Command, PCs, Lines
<1> QED
  BY <1>1, RawStoreInvariant, PTL

\* Between commands a file that the manifest does not describe was changed by the
\* host, left half done by a command that did not succeed, or recorded under a
\* key that is not its own name or does not read back: no interleaving of raw
\* writes, deletions and syncs loses a line.
THEOREM RawStoreDriftHasACause == Spec => []DriftHasACause
<1>1. IInv => DriftHasACause
  BY RawStoreAssumption DEF IInv, DriftHasACause, DriftInv, Drifted
<1> QED
  BY <1>1, RawStoreInvariant, PTL

\* A write or a deletion rewrites the whole manifest, and leaves the lines of all
\* other files as they were when it took the lock (UpdateEntry, RemoveEntry).
THEOREM RawStoreNoLineLost == Spec => NoLineLost
<1>1. ASSUME IInv, NEW p \in Procs, WriteManifest(p), Quiet(p), Kind(p) # "sync", lines' # lines
      PROVE  \A x \in Keys \ {X(p), ReadAs[X(p)]} : lines'[x] = lines[x]
  <2>1. cmd[p].pc = "list" /\ lines' \in NewLines(p)
    BY <1>1 DEF WriteManifest, At
  <2>2. cmd[p].was = lines
    BY <1>1, <2>1 DEF IInv, Knows, KnowsLines, AllTouched
  <2> QED
    BY <1>1, <2>1, <2>2, LinesOfOne
<1>2. IInv /\ [Next]_vars =>
        [\A p \in Procs :
            WriteManifest(p) /\ Quiet(p) /\ Kind(p) # "sync" /\ lines' # lines
            => \A x \in Keys \ {X(p), ReadAs[X(p)]} : lines'[x] = lines[x]]_vars
  BY <1>1
<1> QED
  BY <1>2, RawStoreInvariant, PTL DEF Spec, NoLineLost

\* A commit has the files its command is about as their lines say, where the host
\* left them alone and the command called them by their own names (Store.Commit of the raw commands).
THEOREM RawStoreCommitsBoth == Spec => CommitsBoth
<1>1. ASSUME IInv, NEW p \in Procs, Commit(p), head' # head, Quiet(p),
             NEW x \in About(p) \ (Misnamed(p) \cup {Nested}), Single(lines, x)
      PROVE  head'.lines = lines /\ head'.raw[x] = Listed(lines)[x]
  <2>1. /\ cmd[p].pc = "commit" /\ x \in Keys
        /\ head' = [raw |-> [y \in Keys |-> IF y \in Recorded(p) THEN raw[y] ELSE head.raw[y]],
                    lines |-> lines]
    BY <1>1, HalfDoneIsKeys DEF Commit, At, IInv
  <2>2. raw[x] = Listed(lines)[x]
    BY <1>1, <2>1 DEF IInv, Knows, KnowsListed, Touched
  <2> QED
    BY <1>1, <2>1, <2>2 DEF Recorded
<1>2. ASSUME NEW p \in Procs, Commit(p), head' # head PROVE head'.lines = lines
  BY <1>2 DEF Commit
<1>3. IInv /\ [Next]_vars =>
        [\A p \in Procs :
            Commit(p) /\ head' # head /\ Quiet(p)
            => \A x \in About(p) \ (Misnamed(p) \cup {Nested}) :
                Single(head'.lines, x) => head'.raw[x] = Listed(head'.lines)[x]]_vars
  BY <1>1, <1>2
<1> QED
  BY <1>3, RawStoreInvariant, PTL DEF Spec, CommitsBoth
-----------------------------------------------------------------------------
(* The store lock as the commands use it.                                  *)

\* The processes past their acquisition: what module Mutex calls inside.
Inside == [l \in {"store"} |-> {p \in Procs : cmd[p].pc \in UnderLock}]
StoreLock == INSTANCE Mutex WITH Locks <- {"store"}, inside <- Inside

LEMMA InsideIsHolder ==
    ASSUME Typed
    PROVE  Inside = [l \in {"store"} |-> IF lock = NoOne THEN {} ELSE {lock}]
<1>1. {p \in Procs : cmd[p].pc \in UnderLock} = IF lock = NoOne THEN {} ELSE {lock}
  BY RawStoreAssumption DEF Typed
<1> QED
  BY <1>1 DEF Inside

\* A process takes the lock when it is free, and gives back what it holds.
LEMMA LockMoves ==
    ASSUME Typed, [Next]_vars, lock' # lock
    PROVE  \/ lock = NoOne /\ lock' \in Procs
           \/ lock \in Procs /\ lock' = NoOne
<1>1. CASE HostStep
  BY <1>1 DEF HostStep, HostChangesFile, HostMergesManifest, HostRestoresManifest, HostTurn
<1>2. ASSUME NEW p \in Procs, Step(p)
      PROVE  Lock(p) \/ lock' = lock \/ (lock = p /\ lock' = NoOne)
  <2>1. CASE Ends(p)
    BY <2>1 DEF Ends
  <2>2. CASE StartWrite(p) \/ StartDelete(p) \/ StartSync(p)
    <3>1. CASE StartWrite(p)
      BY <3>1 DEF StartWrite, Begin
    <3>2. CASE StartDelete(p)
      BY <3>2 DEF StartDelete, Begin
    <3>3. CASE StartSync(p)
      BY <3>3 DEF StartSync, Begin
    <3> QED
      BY <2>2, <3>1, <3>2, <3>3
  <2>3. CASE Preflight(p) \/ ChangeFile(p)
    BY <2>1, <2>3 DEF Preflight, ChangeFile, Fails
  <2>4. CASE Hash(p) \/ ReadManifest(p) \/ Walk(p)
    BY <2>1, <2>4 DEF Hash, ReadManifest, Walk, Fails, Succeeds
  <2>5. CASE WriteManifest(p) \/ Commit(p) \/ Killed(p)
    BY <2>1, <2>5 DEF WriteManifest, Commit, Killed, Fails, Succeeds
  <2> QED
    BY <1>2, <2>2, <2>3, <2>4, <2>5 DEF Step
<1>3. ASSUME NEW p \in Procs, Lock(p) PROVE lock = NoOne /\ lock' = p
  BY <1>3 DEF Lock, LockFree
<1> QED
  BY <1>1, <1>2, <1>3 DEF Next, vars

\* The commands of module RawStore use the store lock as module Mutex describes it, the
\* module that RepoLock implements: at most one process is between LockRepo and
\* Release, and a process that is killed leaves.
THEOREM RawStoreUsesMutex == Spec => StoreLock!Spec
<1>1. Init => StoreLock!Init
  <2> SUFFICES ASSUME Init PROVE StoreLock!Init
    OBVIOUS
  <2>1. {p \in Procs : cmd[p].pc \in UnderLock} = {}
    BY IdleIsCommand DEF Init, UnderLock
  <2> QED
    BY <2>1 DEF Inside, StoreLock!Init
<1>2. Typed /\ Typed' /\ [Next]_vars => [StoreLock!Next]_Inside
  <2> SUFFICES ASSUME Typed, Typed', [Next]_vars PROVE [StoreLock!Next]_Inside
    OBVIOUS
  <2>1. Inside = [l \in {"store"} |-> IF lock = NoOne THEN {} ELSE {lock}]
    BY InsideIsHolder
  <2>2. Inside' = [l \in {"store"} |-> IF lock' = NoOne THEN {} ELSE {lock'}]
    <3>1. Typed' => (Inside = [l \in {"store"} |-> IF lock = NoOne THEN {} ELSE {lock}])'
      BY InsideIsHolder, PTL
    <3> QED
      BY <3>1
  <2>3. CASE lock' = lock
    BY <2>1, <2>2, <2>3
  <2>4. CASE lock = NoOne /\ lock' \in Procs
    <3>1. StoreLock!Enter(lock', "store")
      BY <2>1, <2>2, <2>4, RawStoreAssumption DEF StoreLock!Enter
    <3> QED
      BY <2>4, <3>1 DEF StoreLock!Next
  <2>5. CASE lock \in Procs /\ lock' = NoOne
    <3>1. StoreLock!Leave(lock, "store")
      BY <2>1, <2>2, <2>5, RawStoreAssumption DEF StoreLock!Leave
    <3> QED
      BY <2>5, <3>1 DEF StoreLock!Next
  <2> QED
    BY <2>3, <2>4, <2>5, LockMoves
<1>3. Spec => []Typed
  <2>1. IInv => Typed
    BY DEF IInv
  <2> QED
    BY <2>1, RawStoreInvariant, PTL
<1> QED
  BY <1>1, <1>2, <1>3, PTL DEF Spec, StoreLock!Spec
=============================================================================
