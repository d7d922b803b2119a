----------------------------- MODULE PageStore ------------------------------
(***************************************************************************)
(* The commands of cmd/akb that change a page or the records derived from  *)
(* it: the page files, the documents and links rows of the search          *)
(* database, kb/index.md and kb/log.md.  Several akb processes run them    *)
(* side by side; each takes the store lock (module RepoLock) at the place  *)
(* its code does, so what it read before the lock may be stale.            *)
(*                                                                         *)
(* A body is the set of the operations whose text it holds.  The git side  *)
(* of a commit is module GitStore; here a commit succeeds or fails.  What  *)
(* the links of a page resolve to is module LinkGraph; here the link graph *)
(* has a row of a page, for some content of it, or none.                   *)
(***************************************************************************)
EXTENDS Naturals, FiniteSets

CONSTANTS
    Procs,      \* akb processes
    Pages,      \* page paths
    InTypeDirs, \* of a path kb/<name>: the paths kb/<type directory>/<name>
    Kinds,      \* the commands a run may start
    Absent,     \* no such page, no such record
    NoOne,      \* the store lock is free
    MaxOps      \* bound: commands of a behaviour

PageKinds == {"write", "update", "append", "approve", "delete"}
ListKinds == {"indexAdd", "indexRemove", "rebuild", "logAppend"}
BatchKinds == {"approveAll", "orphans"}
LintKinds == {"lint"}

ASSUME PageStoreAssumption ==
    /\ Kinds \subseteq PageKinds \cup ListKinds \cup BatchKinds \cup LintKinds
    /\ Pages # {}
    /\ InTypeDirs \in [Pages -> SUBSET Pages]
    /\ Absent \notin [body : SUBSET (1 .. MaxOps), draft : BOOLEAN]
    /\ NoOne \notin Procs
    /\ MaxOps \in Nat

VARIABLES
    page,           \* the page files
    search, graph,  \* what documents and links hold of every page
    index,          \* the paths listed in kb/index.md
    log,            \* the operations kb/log.md has an entry of
    lock,           \* holder of the store lock
    cmd,            \* what every process is doing
    ops,            \* commands started
    behind          \* ghost: pages whose command ended after a change without success

records == <<search, graph>>
lists == <<index, log>>
vars == <<page, records, lists, lock, cmd, ops, behind>>

Ops == 1 .. MaxOps
Page == [body : SUBSET Ops, draft : BOOLEAN]

\* Before the lock, under it, and after the command returned.
Unlocked == {"idle", "collect", "next", "check", "lock", "lintBegin", "lintRead"}
UnderLock == {"read", "preflight", "put", "commit", "tx", "entries", "entry",
              "entriesLog", "entryLog", "remove", "searchTx", "rewrite", "graphTx", "end"}

IdleCmd == [pc |-> "idle", kind |-> "write", t |-> CHOOSE t \in Pages : TRUE, n |-> 0,
            batch |-> FALSE, scan |-> {}, todo |-> {}, seen |-> Absent,
            entries |-> {}, logged |-> {}, rows |-> [t \in Pages |-> Absent],
            warned |-> FALSE, result |-> "none"]

\* Besides the types: a process is past its acquisition exactly while it holds
\* the store lock (deferred Release of every command).
TypeOK ==
    /\ page \in [Pages -> Page \cup {Absent}]
    /\ search \in [Pages -> Page \cup {Absent}]
    /\ graph \in [Pages -> Page \cup {Absent}]
    /\ index \subseteq Pages
    /\ log \subseteq Ops
    /\ lock \in Procs \cup {NoOne}
    /\ cmd \in [Procs -> [pc : Unlocked \cup UnderLock, kind : PageKinds \cup ListKinds \cup LintKinds,
                          t : Pages, n : 0 .. MaxOps, batch : BOOLEAN, scan : SUBSET Pages,
                          todo : SUBSET Pages, seen : Page \cup {Absent},
                          entries : SUBSET Pages, logged : SUBSET Ops,
                          rows : [Pages -> Page \cup {Absent}], warned : BOOLEAN,
                          result : {"none", "ok", "skipped", "invalid", "refused", "failed"}]]
    /\ ops \in 0 .. MaxOps
    /\ behind \subseteq Pages
    /\ \A p \in Procs : cmd[p].pc \in UnderLock <=> lock = p

\* A base just created by `akb init`.
Init ==
    /\ page = [t \in Pages |-> Absent]
    /\ search = page
    /\ graph = page
    /\ index = {}
    /\ log = {}
    /\ lock = NoOne
    /\ cmd = [p \in Procs |-> IdleCmd]
    /\ ops = 0
    /\ behind = {}

Goto(p, pc) == cmd' = [cmd EXCEPT ![p].pc = pc]
End(p, result) == cmd' = [cmd EXCEPT ![p].pc = "end", ![p].result = result]
At(p, pc) == cmd[p].pc = pc
Kind(p) == cmd[p].kind
T(p) == cmd[p].t

-----------------------------------------------------------------------------
(* Before the lock.                                                        *)

\* Batches check that a page is still there, and so does a deletion; every
\* other command goes straight to the lock.
FirstStep(kind) ==
    CASE kind = "delete" -> "check"
      [] kind = "lint" -> "lintBegin"
      [] OTHER -> "lock"

Start(p) ==
    /\ At(p, "idle")
    /\ ops < MaxOps
    /\ ops' = ops + 1
    /\ \/ \E kind \in Kinds \ BatchKinds, t \in Pages :
             cmd' = [cmd EXCEPT ![p] = [IdleCmd EXCEPT !.kind = kind, !.t = t, !.n = ops + 1,
                                                       !.pc = FirstStep(kind)]]
       \/ /\ "approveAll" \in Kinds
          /\ cmd' = [cmd EXCEPT ![p] = [IdleCmd EXCEPT !.kind = "approve", !.n = ops + 1,
                                          !.batch = TRUE, !.scan = Pages, !.pc = "collect"]]
       \* `akb delete --orphans --force`: any known page may be an orphan.
       \/ /\ "orphans" \in Kinds
          /\ \E todo \in SUBSET {t \in Pages : graph[t] # Absent} :
                cmd' = [cmd EXCEPT ![p] = [IdleCmd EXCEPT !.kind = "delete", !.n = ops + 1,
                                             !.batch = TRUE, !.todo = todo, !.pc = "next"]]
    /\ UNCHANGED <<page, records, lists, lock, behind>>

\* collectDraftCandidates reads one page after the other, without the lock.
Collect(p) ==
    /\ At(p, "collect")
    /\ IF cmd[p].scan = {} THEN Goto(p, "next")
       ELSE \E t \in cmd[p].scan :
              cmd' = [cmd EXCEPT ![p].scan = @ \ {t},
                                 ![p].todo = IF page[t] # Absent /\ page[t].draft
                                               THEN @ \cup {t} ELSE @]
    /\ UNCHANGED <<page, records, lists, lock, ops, behind>>

NextItem(p) ==
    /\ At(p, "next")
    /\ IF cmd[p].todo = {} THEN cmd' = [cmd EXCEPT ![p] = IdleCmd]
       ELSE \E t \in cmd[p].todo :
              cmd' = [cmd EXCEPT ![p].t = t, ![p].todo = @ \ {t}, ![p].pc = FirstStep(Kind(p))]
    /\ UNCHANGED <<page, records, lists, lock, ops, behind>>

\* fileExists of a deletion; an orphan that is gone is skipped.
Check(p) ==
    /\ At(p, "check")
    /\ IF page[T(p)] # Absent THEN Goto(p, "lock")
       ELSE IF cmd[p].batch THEN Goto(p, "next")
       ELSE cmd' = [cmd EXCEPT ![p] = IdleCmd]
    /\ UNCHANGED <<page, records, lists, lock, ops, behind>>

NeverBlocks == TRUE
LockFree == lock = NoOne

AfterLock(kind) ==
    IF kind \in {"write", "update", "append", "approve", "indexAdd"} THEN "read" ELSE "preflight"

Lock(p) ==
    /\ At(p, "lock")
    /\ LockFree
    /\ lock' = p
    /\ Goto(p, AfterLock(Kind(p)))
    /\ UNCHANGED <<page, records, lists, ops, behind>>

-----------------------------------------------------------------------------
(* Under the lock: the page.                                               *)

NeverAlready(c) == FALSE
AlreadyApproved(c) == c.kind = "approve" /\ ~page[c.t].draft

\* An index addition of a path without a file takes the title and the type from
\* a page of the same name in the directory of that page's type.
InTypeDir(t) == \E u \in InTypeDirs[t] : page[u] # Absent

\* The page as the command is going to change it.  A missing page refuses the
\* command, a rule or a required field that does not hold makes it invalid.
Readable(c) == page[c.t] # Absent \/ c.kind = "write" \/ (c.kind = "indexAdd" /\ InTypeDir(c.t))

Read(p) ==
    /\ At(p, "read")
    /\ \/ page[T(p)] = Absent /\ Kind(p) # "write" /\ End(p, "refused")
       \/ page[T(p)] # Absent /\ AlreadyApproved(cmd[p]) /\ End(p, "skipped")
       \/ page[T(p)] # Absent /\ ~AlreadyApproved(cmd[p]) /\ End(p, "refused")
       \/ /\ Readable(cmd[p])
          /\ ~(page[T(p)] # Absent /\ AlreadyApproved(cmd[p]))
          /\ End(p, "invalid")
       \/ /\ Readable(cmd[p])
          /\ ~(page[T(p)] # Absent /\ AlreadyApproved(cmd[p]))
          /\ cmd' = [cmd EXCEPT ![p].seen = page[T(p)],
                                ![p].pc = IF Kind(p) = "indexAdd" THEN "preflight" ELSE "put"]
    /\ UNCHANGED <<page, records, lists, lock, ops, behind>>

\* What a command makes of the page it read.  Input and --frontmatter decide
\* the draft field of a write and an update.
NewPages(c) ==
    CASE c.kind = "write"   -> [body : {{c.n}}, draft : BOOLEAN]
      [] c.kind = "update"  -> [body : {c.seen.body \cup {c.n}}, draft : BOOLEAN]
      [] c.kind = "append"  -> [body : {c.seen.body \cup {c.n}}, draft : {c.seen.draft}]
      [] c.kind = "approve" -> [body : {c.seen.body}, draft : {FALSE}]

\* Store.Write up to os.WriteFile; its preflight may still refuse.
Put(p) ==
    /\ At(p, "put")
    /\ \/ End(p, "refused") /\ UNCHANGED page
       \/ /\ \E new \in NewPages(cmd[p]) : page' = [page EXCEPT ![T(p)] = new]
          /\ Goto(p, "commit")
    /\ UNCHANGED <<records, lists, lock, ops, behind>>

AfterCommitNoUpdate(kind) == "end"
AfterCommit(kind) == IF kind \in {"write", "update", "append", "approve"} THEN "tx" ELSE "end"

\* gitAdd and gitCommit of the provider.
Commit(p) ==
    /\ At(p, "commit")
    /\ \/ End(p, "failed")
       \/ IF AfterCommit(Kind(p)) = "end" THEN End(p, "ok") ELSE Goto(p, AfterCommit(Kind(p)))
    /\ UNCHANGED <<page, records, lists, lock, ops, behind>>

\* The row a transaction leaves in documents and links.
Row(c) == IF c.kind = "delete" THEN Absent ELSE page[c.t]

\* A lint holds the write lock of the search database.
DbFree == \A q \in Procs : ~At(q, "lintRead")

\* One transaction for the search index and the link graph, rolled back whole.
\* A deletion runs it before it touches any file.
Tx(p) ==
    /\ At(p, "tx")
    /\ \/ End(p, IF Kind(p) = "delete" THEN "refused" ELSE "failed") /\ UNCHANGED records
       \/ /\ DbFree
          /\ search' = [search EXCEPT ![T(p)] = Row(cmd[p])]
          /\ graph' = [graph EXCEPT ![T(p)] = Row(cmd[p])]
          /\ IF Kind(p) = "delete" THEN Goto(p, "entries") ELSE End(p, "ok")
    /\ UNCHANGED <<page, lists, lock, ops, behind>>

\* store.Delete: a preflight, os.Remove and the commit.
Remove(p) ==
    /\ At(p, "remove")
    /\ \/ End(p, "failed") /\ UNCHANGED page
       \/ /\ page[T(p)] # Absent
          /\ page' = [page EXCEPT ![T(p)] = Absent]
          /\ Goto(p, "commit")
    /\ UNCHANGED <<records, lists, lock, ops, behind>>

-----------------------------------------------------------------------------
(* Under the lock: the managed files and the rebuild.                      *)

\* A swapped deletion removes the file before the records that name it.
AfterPreflightFileFirst(kind) == IF kind = "delete" THEN "remove" ELSE "entries"
AfterPreflight(kind) ==
    CASE kind = "delete" -> "tx"
      [] kind \in {"indexAdd", "indexRemove"} -> "entries"
      [] kind = "logAppend" -> "entriesLog"
      [] kind = "rebuild" -> "searchTx"

\* Removing an entry that kb/index.md does not hold ends before the preflight.
Preflight(p) ==
    /\ At(p, "preflight")
    /\ IF Kind(p) = "indexRemove" /\ T(p) \notin index
         THEN End(p, "skipped")
         ELSE End(p, "refused") \/ Goto(p, AfterPreflight(Kind(p)))
    /\ UNCHANGED <<page, records, lists, lock, ops, behind>>

\* A managed file that cannot be read or written fails its own command, but a
\* deletion only warns and goes on.
ListFails(p, next) ==
    IF Kind(p) = "delete" THEN cmd' = [cmd EXCEPT ![p].pc = next, ![p].warned = TRUE]
    ELSE End(p, "failed")

\* AddEntry and RemoveEntry read the whole of kb/index.md
ReadEntries(p) ==
    /\ At(p, "entries")
    /\ \/ ListFails(p, "entriesLog")
       \/ cmd' = [cmd EXCEPT ![p].pc = "entry", ![p].entries = index]
    /\ UNCHANGED <<page, records, lists, lock, ops, behind>>

EntriesKept(c) == c.entries
NewEntries(c) == IF c.kind = "indexAdd" THEN c.entries \cup {c.t} ELSE c.entries \ {c.t}

\* and write it back.
WriteEntries(p) ==
    /\ At(p, "entry")
    /\ \/ ListFails(p, "entriesLog") /\ UNCHANGED index
       \/ /\ index' = NewEntries(cmd[p])
          /\ cmd' = [cmd EXCEPT ![p].pc = IF Kind(p) = "delete" THEN "entriesLog" ELSE "commit",
                                ![p].entries = {}]
    /\ UNCHANGED <<page, records, log, lock, ops, behind>>

\* AppendLog reads the whole of kb/log.md
ReadLog(p) ==
    /\ At(p, "entriesLog")
    /\ \/ ListFails(p, "remove")
       \/ cmd' = [cmd EXCEPT ![p].pc = "entryLog", ![p].logged = log]
    /\ UNCHANGED <<page, records, lists, lock, ops, behind>>

\* and writes it back.  A deletion's entry precedes the removal of the file.
WriteLog(p) ==
    /\ At(p, "entryLog")
    /\ \/ ListFails(p, "remove") /\ UNCHANGED log
       \/ /\ log' = cmd[p].logged \cup {cmd[p].n}
          /\ cmd' = [cmd EXCEPT ![p].pc = IF Kind(p) = "delete" THEN "remove" ELSE "commit",
                                ![p].logged = {}]
    /\ UNCHANGED <<page, records, index, lock, ops, behind>>

\* `akb index rebuild`: the search index in a transaction,
RebuildSearch(p) ==
    /\ At(p, "searchTx")
    /\ \/ End(p, "failed") /\ UNCHANGED search
       \/ DbFree /\ search' = page /\ Goto(p, "rewrite")
    /\ UNCHANGED <<page, graph, lists, lock, ops, behind>>

\* kb/index.md,
RewriteIndex(p) ==
    /\ At(p, "rewrite")
    /\ \/ End(p, "failed") /\ UNCHANGED index
       \/ index' = {t \in Pages : page[t] # Absent} /\ Goto(p, "graphTx")
    /\ UNCHANGED <<page, records, log, lock, ops, behind>>

\* the link graph in a transaction of its own, and a commit when kb/index.md
\* has changed.
RebuildGraph(p) ==
    /\ At(p, "graphTx")
    /\ \/ End(p, "failed") /\ UNCHANGED graph
       \/ DbFree /\ graph' = page /\ (Goto(p, "commit") \/ End(p, "ok"))
    /\ UNCHANGED <<page, search, lists, lock, ops, behind>>

-----------------------------------------------------------------------------
(* `akb lint` and the lint of `akb template delete` rebuild the links in a  *)
(* transaction of their own, without the store lock.                       *)

LintBegin(p) ==
    /\ At(p, "lintBegin")
    /\ DbFree
    /\ cmd' = [cmd EXCEPT ![p].pc = "lintRead", ![p].scan = Pages]
    /\ UNCHANGED <<page, records, lists, lock, ops, behind>>

LintRead(p) ==
    /\ At(p, "lintRead")
    /\ \E t \in cmd[p].scan : cmd' = [cmd EXCEPT ![p].scan = @ \ {t}, ![p].rows[t] = page[t]]
    /\ UNCHANGED <<page, records, lists, lock, ops, behind>>

\* The links of every file that was read replace all links, but the row of a
\* page without a file stays.
LintCommit(p) ==
    /\ At(p, "lintRead")
    /\ cmd[p].scan = {}
    /\ graph' = [t \in Pages |-> IF cmd[p].rows[t] # Absent THEN cmd[p].rows[t] ELSE graph[t]]
    /\ cmd' = [cmd EXCEPT ![p] = IdleCmd]
    /\ UNCHANGED <<page, search, lists, lock, ops, behind>>

-----------------------------------------------------------------------------
(* The end of a command.                                                   *)

\* The batch stops at the first error that is not a validation refusal; a batch
\* of deletions only warns and goes on.
BatchGoesOn(c) ==
    c.batch /\ (c.kind = "delete" \/ c.result \in {"ok", "skipped", "invalid"})

BehindAfter(c) ==
    CASE c.result = "ok" /\ c.kind = "rebuild" -> {}
      [] c.result = "ok" /\ c.kind \in PageKinds -> behind \ {c.t}
      [] c.result = "failed" /\ c.kind \in PageKinds -> behind \cup {c.t}
      [] OTHER -> behind

Release(p) ==
    /\ At(p, "end")
    /\ lock' = NoOne
    /\ behind' = BehindAfter(cmd[p])
    /\ cmd' = [cmd EXCEPT ![p] =
          IF BatchGoesOn(@)
            THEN [IdleCmd EXCEPT !.pc = "next", !.kind = Kind(p), !.n = cmd[p].n,
                                 !.batch = TRUE, !.todo = cmd[p].todo]
            ELSE IdleCmd]
    /\ UNCHANGED <<page, records, lists, ops>>

\* The process is killed; the kernel drops its flock.
Crash(p) ==
    /\ ~At(p, "idle")
    /\ cmd' = [cmd EXCEPT ![p] = IdleCmd]
    /\ lock' = IF lock = p THEN NoOne ELSE lock
    /\ behind' = IF cmd[p].pc \in UnderLock /\ Kind(p) \in PageKinds
                   THEN behind \cup {T(p)} ELSE behind
    /\ UNCHANGED <<page, records, lists, ops>>

ProcStep(p) ==
    \/ Start(p) \/ Collect(p) \/ NextItem(p) \/ Check(p) \/ Lock(p)
    \/ Read(p) \/ Put(p) \/ Commit(p) \/ Tx(p) \/ Remove(p)
    \/ Preflight(p) \/ ReadEntries(p) \/ WriteEntries(p) \/ ReadLog(p) \/ WriteLog(p)
    \/ RebuildSearch(p) \/ RewriteIndex(p) \/ RebuildGraph(p)
    \/ LintBegin(p) \/ LintRead(p) \/ LintCommit(p)
    \/ Release(p) \/ Crash(p)

Next == \E p \in Procs : ProcStep(p)

Spec == Init /\ [][Next]_vars

-----------------------------------------------------------------------------
Steps(p) == cmd'[p] # cmd[p]
Changes(p, t) == Steps(p) /\ page'[t] # page[t]

\* No update is lost and no rule is run on a page that is no longer there: what
\* a command replaces is what it read, and what it validated as old_page
\* (locks of write.go, append.go and approve.go).
NoStaleWrite ==
    [][\A p \in Procs, t \in Pages : Changes(p, t) /\ page'[t] # Absent =>
          /\ page[t] = cmd[p].seen
          /\ Kind(p) # "write" => page[t] # Absent /\ page[t].body \subseteq page'[t].body]_vars

\* An approval turns a draft into an approved page with the same body, also when
\* another process approved or replaced the page after the batch collected it
\* (approvePage, collectDraftCandidates).
ApprovesDraftsOnly ==
    [][\A p \in Procs, t \in Pages : At(p, "put") /\ Kind(p) = "approve" /\ Steps(p)
                                     /\ cmd'[p].pc = "commit" /\ t = T(p) =>
          page[t].draft /\ page'[t].body = page[t].body]_vars

\* Outside of any command, the records of a page are those of its file, unless
\* the last command on the page ended in an error, or was killed, after it had
\* begun; a rebuild that succeeds repairs all of them.
RecordsAgree ==
    lock = NoOne => \A t \in Pages \ behind :
          /\ search[t] = page[t]
          /\ page[t] # Absent => graph[t] = page[t]

\* A search never finds a page that has no file, at no step of any command and
\* whatever fails or dies: a write records what exists, a deletion first
\* removes the records (write.go, deletePage).
NoPhantomHits == \A t \in Pages : page[t] = Absent => search[t] = Absent

\* Nor does the link graph hold a row of it: "both removals share one
\* transaction", so that no index is ahead of the other (delete.go).
NoPhantomRows == \A t \in Pages : page[t] = Absent => graph[t] = Absent

\* A listed page loses its file only in a deletion that warned of the entry it
\* could not remove (deletePage).  A path without a file gets an entry only from
\* an index addition of that path, which found a page of the same name in a type
\* directory and lists the path as it was given (runIndexAdd).
Dangling == {t \in index : page[t] = Absent}
DanglingHasACause ==
    [][\A t \in Dangling' \ Dangling : \E p \in Procs :
          /\ lock = p /\ T(p) = t
          /\ IF t \in index THEN Kind(p) = "delete" /\ cmd[p].warned
             ELSE Kind(p) = "indexAdd" /\ InTypeDir(t)]_vars

\* No entry of kb/log.md is lost, and an entry of kb/index.md goes only with the
\* removal of that entry or in a rebuild, when the page has no file.
NoEntryLost ==
    [][/\ log \subseteq log'
       /\ \A t \in index \ index' : \E p \in Procs :
             /\ lock = p
             /\ \/ Kind(p) \in {"delete", "indexRemove"} /\ T(p) = t
                \/ Kind(p) = "rebuild" /\ page[t] = Absent]_vars
=============================================================================
