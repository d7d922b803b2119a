------------------------------ MODULE RawStore ------------------------------
(***************************************************************************)
(* Raw files and their manifest raw/files.log (internal/manifest and the   *)
(* raw commands of cmd/akb): a manifest line holds the hash a file had     *)
(* when a command last looked at it.  Several akb processes run commands,  *)
(* each under the store lock (module RepoLock); the host project changes   *)
(* files below raw/ and merges the manifest at any moment.                 *)
(*                                                                         *)
(* A command opens the file at the cleaned path of its argument and keys   *)
(* the manifest by the argument as it was typed, so ./a.txt is a key       *)
(* beside a.txt; and what is read back is not always the key that was      *)
(* written.  A content stands for its hash.  Lines of different keys are   *)
(* kept apart: no reader looks at their order.                             *)
(***************************************************************************)
EXTENDS Naturals, Sequences, SequencesExt, FiniteSets

CONSTANTS
    Procs,      \* akb processes
    Names,      \* files below raw/
    Nested,     \* a file called files.log in a subdirectory of raw/
    Temp,       \* raw/files.log.NNN, a manifest that was not renamed
    Spellings,  \* arguments that are not the path of a file: ./a.txt, a//b
    FileOf,     \* the file of an argument
    ReadAs,     \* the key that a line written for a key is read back as
    Comment,    \* ... or none, if it begins with #
    Broken,     \* ... or a line of less than three fields
    Unlistable, \* keys with a newline, which ValidateFilename rejects
    Contents,   \* contents, and their hashes
    Absent,     \* no such file
    Corrupt,    \* a manifest with a line of less than three fields
    NoOne,      \* the store lock is free
    MaxOps,     \* bound: commands of a behaviour
    MaxHost     \* bound: steps of the host

Paths == Names \cup {Nested, Temp}
Keys == Paths \cup Spellings

\* A name that reads back is trimmed, so it reads back as itself.
ASSUME RawStoreAssumption ==
    /\ {Nested, Temp} \cap Names = {} /\ Nested # Temp
    /\ Spellings \cap Paths = {}
    /\ FileOf \in [Keys -> Paths]
    /\ \A x \in Paths : FileOf[x] = x
    /\ \A k \in Spellings : FileOf[k] \in Names
    /\ {Comment, Broken} \cap Keys = {} /\ Comment # Broken
    /\ ReadAs \in [Keys -> Keys \cup {Comment, Broken}]
    /\ \A k \in Keys : ReadAs[k] \in Keys => ReadAs[ReadAs[k]] = ReadAs[k]
    /\ Unlistable \subseteq Keys
    /\ \A k \in Keys : ReadAs[k] = Broken => k \in Unlistable
    /\ IsFiniteSet(Keys)
    /\ Absent \notin Contents
    /\ Corrupt \notin [Keys -> Seq(Contents)]
    /\ NoOne \notin Procs
    /\ MaxOps \in Nat /\ MaxHost \in Nat

VARIABLES
    raw,        \* the files below raw/; there is none at a spelling
    lines,      \* the lines of every key in raw/files.log, in order
    head,       \* what HEAD has of both
    lock,       \* holder of the store lock
    cmd,        \* what every process is doing
    ops,        \* commands started
    host,       \* steps the host has taken
    suspect     \* ghost: keys that the host changed, that a command without success
                \* left half done, or that a command recorded under another name

vars == <<raw, lines, head, lock, cmd, ops, host, suspect>>

Files == [Keys -> Contents \cup {Absent}]
Lines == [Keys -> Seq(Contents)] \cup {Corrupt}
NoFiles == [x \in Keys |-> Absent]
NoLines == [x \in Keys |-> <<>>]

Idle == [pc |-> "idle", kind |-> "sync", name |-> Temp, content |-> Absent, commits |-> FALSE,
         sum |-> Absent, was |-> NoLines, found |-> NoFiles, host |-> 0]
UnderLock == {"preflight", "read", "walk", "file", "sum", "look", "list", "commit"}

TypeOK ==
    /\ raw \in Files
    /\ lines \in Lines
    /\ head.raw \in Files /\ head.lines \in Lines
    /\ lock \in Procs \cup {NoOne}
    /\ \A p \in Procs :
        /\ cmd[p].pc \in UnderLock \cup {"idle", "lock"}
        /\ cmd[p].pc \in UnderLock <=> lock = p
        /\ cmd[p].kind \in {"write", "delete", "sync"}
        /\ cmd[p].name \in Keys \ {Nested}
        /\ {cmd[p].content, cmd[p].sum} \subseteq Contents \cup {Absent}
        /\ cmd[p].was \in Lines \ {Corrupt} /\ cmd[p].found \in Files
    /\ ops \in 0 .. MaxOps /\ host \in 0 .. MaxHost
    /\ suspect \subseteq Keys

\* The seed files of `akb init`, committed.
Init ==
    /\ raw = NoFiles
    /\ lines = NoLines
    /\ head = [raw |-> raw, lines |-> lines]
    /\ lock = NoOne
    /\ cmd = [p \in Procs |-> Idle]
    /\ ops = 0 /\ host = 0
    /\ suspect = {}

-----------------------------------------------------------------------------
(* The manifest.                                                           *)

\* FindByFilename and UpdateEntry take the first line of a key, AddEntry
\* appends one, which a later ReadManifest gives its own name.
WithEntry(ls, k, sum) ==
    IF ls[k] # <<>> THEN [ls EXCEPT ![k][1] = sum]
    ELSE [x \in Keys |-> IF x = ReadAs[k] THEN Append(ls[x], sum) ELSE ls[x]]

\* RemoveEntry drops every line of the key.
WithoutEntry(ls, k) == [ls EXCEPT ![k] = <<>>]

\* Sync and status build a map of the lines: the last one of a key counts.
Listed(ls) == [x \in Keys |-> IF ls[x] = <<>> THEN Absent ELSE Last(ls[x])]

\* A sync writes one line for each file that was found, in the order of a map:
\* any order.  What a later ReadManifest makes of them:
Entries(found, x) == {y \in Keys : found[y] # Absent /\ ReadAs[y] = x}
Arrangements(found, x) == {[i \in DOMAIN s |-> found[s[i]]] : s \in SetToSeqs(Entries(found, x))}
Heard(found) == {x \in Keys : Entries(found, x) # {}}
Orders(found) ==
    {f \in [Heard(found) -> UNION {Arrangements(found, x) : x \in Heard(found)}] :
        \A x \in Heard(found) : f[x] \in Arrangements(found, x)}
LinesOf(found) ==
    IF Entries(found, Broken) # {} THEN {Corrupt}
    ELSE {[x \in Keys |-> IF x \in Heard(found) THEN f[x] ELSE <<>>] : f \in Orders(found)}

\* What `akb raw status` reports, when it can read the manifest.
Drifted == {x \in Keys : raw[x] # Listed(lines)[x]}

-----------------------------------------------------------------------------
(* Commands.                                                               *)

At(p, pc) == cmd[p].pc = pc
Kind(p) == cmd[p].kind
X(p) == cmd[p].name
Goto(p, pc) == cmd' = [cmd EXCEPT ![p].pc = pc]
Quiet(p) == cmd[p].host = host

\* The file that a write or a deletion opens.
File(p) == FileOf[X(p)]

\* The files a command is about, and the ones it commits beside the manifest:
\* its own, or for a sync everything below raw/.
About(p) == IF Kind(p) = "sync" THEN Keys ELSE {File(p)}
RecordsManifestOnly(p) == {}
Recorded(p) == About(p)

\* A key that is the path of its file, and reads back as itself.
Own(k) == FileOf[k] = k /\ ReadAs[k] = k

\* What the new lines leave out of step: file and line of every other key.
Recording(p) == IF Kind(p) = "sync" THEN {x \in Keys : cmd[p].found[x] # Absent} ELSE {X(p)}
Misnamed(p) == {x \in Keys : \E k \in Recording(p) : ~Own(k) /\ x \in {k, FileOf[k], ReadAs[k]}}

\* The keys a command has put out of step when it stops at its present step.
HalfDone(p) ==
    CASE cmd[p].pc \in {"sum", "look", "list"} /\ Kind(p) # "sync" -> {File(p)}
      [] cmd[p].pc = "commit" -> Misnamed(p)
      [] OTHER -> {}

\* The files that are known to agree with their lines after a success.  One
\* with two lines stays suspect: a write changes the first, and the last counts.
Single(ls, x) == ls # Corrupt /\ Len(ls[x]) <= 1
Settled(p) == {x \in About(p) \ HalfDone(p) : Quiet(p) /\ Single(lines, x)}

\* The deferred Release, or the end of the process.
Ends(p) ==
    /\ cmd' = [cmd EXCEPT ![p] = Idle]
    /\ lock' = IF lock = p THEN NoOne ELSE lock
    /\ UNCHANGED <<ops, host>>

Succeeds(p) == Ends(p) /\ suspect' = (suspect \cup HalfDone(p)) \ Settled(p)
Fails(p) == Ends(p) /\ suspect' = suspect \cup HalfDone(p)

Begin(p, kind, x, v, commits) ==
    /\ At(p, "idle")
    /\ ops < MaxOps
    /\ ops' = ops + 1
    /\ cmd' = [cmd EXCEPT ![p] = [Idle EXCEPT !.pc = "lock", !.kind = kind, !.name = x,
                                              !.content = v, !.commits = commits]]
    /\ UNCHANGED <<raw, lines, head, lock, host, suspect>>

\* The arguments of a write pass ValidateFilename.
Writable == (Names \cup Spellings) \ Unlistable

\* What is on stdin is read before the lock.
StartWrite(p) == \E k \in Writable, v \in Contents, c \in BOOLEAN : Begin(p, "write", k, v, c)

\* The file is looked up before the lock, and the argument is not validated.
StartDelete(p) == \E k \in Keys \ {Nested}, c \in BOOLEAN :
    raw[FileOf[k]] # Absent /\ Begin(p, "delete", k, Absent, c)

StartSync(p) == \E c \in BOOLEAN : Begin(p, "sync", Temp, Absent, c)

NeverBlocks == TRUE
LockFree == lock = NoOne

Lock(p) ==
    /\ At(p, "lock")
    /\ LockFree
    /\ lock' = p
    /\ cmd' = [cmd EXCEPT ![p].pc = IF Kind(p) = "sync" THEN "read" ELSE "preflight",
                          ![p].host = host]
    /\ UNCHANGED <<raw, lines, head, ops, host, suspect>>

\* The merge state and the identity, for a command that commits.
AfterPreflight(p) == IF Kind(p) = "sync" THEN "list" ELSE "file"

Preflight(p) ==
    /\ At(p, "preflight")
    /\ \/ Goto(p, AfterPreflight(p)) /\ UNCHANGED <<lock, ops, host, suspect>>
       \/ cmd[p].commits /\ Fails(p)
    /\ UNCHANGED <<raw, lines, head>>

\* os.WriteFile, os.Remove: a file that the host removed cannot be removed.
ChangeFile(p) ==
    /\ At(p, "file")
    /\ \/ /\ Kind(p) = "delete" => raw[File(p)] # Absent
          /\ raw' = [raw EXCEPT ![File(p)] = cmd[p].content]
          /\ Goto(p, IF Kind(p) = "write" THEN "sum" ELSE "look")
          /\ UNCHANGED <<lock, ops, host, suspect>>
       \/ Fails(p) /\ UNCHANGED raw
    /\ UNCHANGED <<lines, head>>

\* ComputeSHA256 reads the file again.
Hash(p) ==
    /\ At(p, "sum")
    /\ IF raw[File(p)] = Absent THEN Fails(p)
       ELSE /\ cmd' = [cmd EXCEPT ![p].pc = "look", ![p].sum = raw[File(p)]]
            /\ UNCHANGED <<lock, ops, host, suspect>>
    /\ UNCHANGED <<raw, lines, head>>

\* ReadManifest of a write, a deletion or a sync.
ReadManifest(p) ==
    /\ At(p, "look") \/ At(p, "read")
    /\ IF lines = Corrupt THEN Fails(p)
       ELSE /\ cmd' = [cmd EXCEPT ![p].pc = IF At(p, "look") THEN "list" ELSE "walk", ![p].was = lines]
            /\ UNCHANGED <<lock, ops, host, suspect>>
    /\ UNCHANGED <<raw, lines, head>>

\* A sync walks raw/, passes over every file called files.log, and compares
\* the hashes with the lines.  Without a difference it ends, and neither
\* writes nor commits.
Walked == Keys \ {Nested}
Found == [x \in Keys |-> IF x \in Walked THEN raw[x] ELSE Absent]

SameNames(p) == \A x \in Keys : Found[x] = Absent <=> Listed(cmd[p].was)[x] = Absent
NoChanges(p) == Found = Listed(cmd[p].was)

Walk(p) ==
    /\ At(p, "walk")
    /\ IF NoChanges(p) THEN Succeeds(p)
       ELSE /\ cmd' = [cmd EXCEPT ![p].pc = "preflight", ![p].found = Found]
            /\ UNCHANGED <<lock, ops, host, suspect>>
    /\ UNCHANGED <<raw, lines, head>>

NewLines(p) ==
    CASE Kind(p) = "write"  -> {WithEntry(cmd[p].was, X(p), cmd[p].sum)}
      [] Kind(p) = "delete" -> {WithoutEntry(cmd[p].was, X(p))}
      [] Kind(p) = "sync"   -> LinesOf(cmd[p].found)

\* WriteManifest: a temporary file beside the manifest, then a rename.
WriteManifest(p) ==
    /\ At(p, "list")
    /\ \/ /\ lines' \in NewLines(p)
          /\ Goto(p, "commit")
          /\ UNCHANGED <<lock, ops, host, suspect>>
       \/ Fails(p) /\ UNCHANGED lines
    /\ UNCHANGED <<raw, head>>

\* Store.Commit: nothing for --no-commit or a base that is not versioned.
Commit(p) ==
    /\ At(p, "commit")
    /\ \/ /\ cmd[p].commits
          /\ head' = [raw |-> [x \in Keys |-> IF x \in Recorded(p) THEN raw[x] ELSE head.raw[x]],
                      lines |-> lines]
          /\ Succeeds(p)
       \/ ~cmd[p].commits /\ Succeeds(p) /\ UNCHANGED head
       \/ cmd[p].commits /\ Fails(p) /\ UNCHANGED head
    /\ UNCHANGED <<raw, lines>>

\* The process is killed.  In the middle of WriteManifest it leaves the
\* temporary file.
Killed(p) ==
    /\ ~At(p, "idle")
    /\ Ends(p)
    /\ \/ UNCHANGED raw /\ suspect' = suspect \cup HalfDone(p)
       \/ /\ At(p, "list")
          /\ \E v \in Contents : raw' = [raw EXCEPT ![Temp] = v]
          /\ suspect' = suspect \cup HalfDone(p) \cup {Temp}
    /\ UNCHANGED <<lines, head>>

-----------------------------------------------------------------------------
(* The host project: an editor, git pull, git merge, git checkout.         *)

HostTurn == host < MaxHost /\ host' = host + 1 /\ UNCHANGED <<lock, cmd, ops, head>>

HostChangesFile ==
    /\ HostTurn
    /\ \E x \in Paths \ {Temp}, v \in Contents \cup {Absent} :
        raw' = [raw EXCEPT ![x] = v] /\ suspect' = suspect \cup {x}
    /\ UNCHANGED lines

\* A merge of two branches that both added lines: both are kept, or conflict
\* markers are left.
HostMergesManifest ==
    /\ HostTurn
    /\ lines # Corrupt
    /\ \/ lines' = Corrupt
       \/ \E x \in Keys, v \in Contents :
            Len(lines[x]) = 1 /\ lines' = [lines EXCEPT ![x] = Append(@, v)]
    /\ suspect' = Keys
    /\ UNCHANGED raw

HostRestoresManifest ==
    /\ HostTurn
    /\ lines' = head.lines
    /\ suspect' = Keys
    /\ UNCHANGED raw

HostStep == HostChangesFile \/ HostMergesManifest \/ HostRestoresManifest

Step(p) ==
    \/ StartWrite(p) \/ StartDelete(p) \/ StartSync(p) \/ Lock(p) \/ Preflight(p)
    \/ ChangeFile(p) \/ Hash(p) \/ ReadManifest(p) \/ Walk(p) \/ WriteManifest(p)
    \/ Commit(p) \/ Killed(p)

Next == HostStep \/ \E p \in Procs : Step(p)

Spec == Init /\ [][Next]_vars

-----------------------------------------------------------------------------
(* Properties.                                                             *)

\* The manifest tells the truth of every file, but for the files that the host
\* changed, that a command left half done, or whose file and line a command
\* gave two names (./a.txt, #a.txt): no interleaving of commands loses a line or
\* keeps one too many, and a sync repairs what it met.  A nested files.log is
\* outside: sync passes over it and status does not.
DriftHasACause ==
    lock = NoOne /\ lines # Corrupt => Drifted \ {Nested} \subseteq suspect

\* Writing or deleting one file keeps the lines of all others as they are, as
\* long as the host keeps its hands off.
NoLineLost ==
    [][\A p \in Procs :
        WriteManifest(p) /\ Quiet(p) /\ Kind(p) # "sync" /\ lines' # lines
        => \A x \in Keys \ {X(p), ReadAs[X(p)]} : lines'[x] = lines[x]]_vars

\* "Updates the SHA-256 manifest and commits both changes together": a commit
\* never has a file without its line, or a line without its file, among the
\* files its command is about, if the command called them by their own names.
CommitsBoth ==
    [][\A p \in Procs :
        Commit(p) /\ head' # head /\ Quiet(p)
        => \A x \in About(p) \ (Misnamed(p) \cup {Nested}) :
            Single(head'.lines, x) => head'.raw[x] = Listed(head'.lines)[x]]_vars

\* "raw/files.log is corrupted: run 'akb raw sync' to rebuild": a sync that
\* meets a corrupted manifest goes on to write a new one.
CorruptedIsRebuilt ==
    [][\A p \in Procs : ReadManifest(p) /\ Kind(p) = "sync" /\ lines = Corrupt
                        => cmd'[p].pc # "idle"]_vars

=============================================================================
