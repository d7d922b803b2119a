-------------------------- MODULE PageStoreProofs --------------------------
(***************************************************************************)
(* What module PageStore promises, for every number of processes, pages    *)
(* and commands.  Only the process that holds the store lock changes pages *)
(* and lists, so what it read under the lock is what it replaces; and a    *)
(* page whose records may disagree with its file is one that the holder    *)
(* is in the middle of, or one that an earlier command left behind.        *)
(***************************************************************************)
EXTENDS PageStore, TLAPS

Command == [pc : Unlocked \cup UnderLock, kind : PageKinds \cup ListKinds \cup LintKinds,
            t : Pages, n : 0 .. MaxOps, batch : BOOLEAN, scan : SUBSET Pages,
            todo : SUBSET Pages, seen : Page \cup {Absent},
            entries : SUBSET Pages, logged : SUBSET Ops,
            rows : [Pages -> Page \cup {Absent}], warned : BOOLEAN,
            result : {"none", "ok", "skipped", "invalid", "refused", "failed"}]

Writers == {"write", "update", "append", "approve"}
AfterDeleteTx == {"entries", "entry", "entriesLog", "entryLog", "remove"}

\* The steps a command of each kind passes through.
StepsOf(kind) ==
    CASE kind \in Writers -> {"idle", "collect", "next", "lock", "read", "put", "commit", "tx", "end"}
      [] kind = "delete" -> {"next", "check", "lock", "preflight", "tx", "commit", "end"} \cup AfterDeleteTx
      [] kind = "indexAdd" -> {"lock", "read", "preflight", "entries", "entry", "commit", "end"}
      [] kind = "indexRemove" -> {"lock", "preflight", "entries", "entry", "commit", "end"}
      [] kind = "logAppend" -> {"lock", "preflight", "entriesLog", "entryLog", "commit", "end"}
      [] kind = "rebuild" -> {"lock", "preflight", "searchTx", "rewrite", "graphTx", "commit", "end"}
      [] kind = "lint" -> {"lintBegin", "lintRead"}

Shape(c) ==
    /\ c.pc \in StepsOf(c.kind)
    /\ c.pc # "idle" => c.n \in Ops
    /\ c.batch \/ c.pc \in {"collect", "next"} => c.kind \in {"approve", "delete"}

\* What a command knows of the files and the search index at a step.
Knows(c) ==
    /\ c.pc = "put" => c.seen = page[c.t] /\ (c.kind # "write" => c.seen # Absent)
    /\ c.pc = "put" /\ c.kind = "approve" => c.seen.draft
    /\ c.pc = "entry" => c.entries = index
    /\ c.pc = "entryLog" => c.logged = log
    /\ c.kind = "delete" /\ c.pc \in AfterDeleteTx \cup {"commit"} => search[c.t] = Absent
    /\ c.kind = "delete" /\ c.pc = "commit" => page[c.t] = Absent
    /\ c.kind = "rebuild" /\ c.pc \in {"rewrite", "graphTx"} => \A t \in Pages : search[t] = page[t]

\* The command has changed its page, or the records of it, but not both.
Dirty(c) ==
    /\ c.kind \in PageKinds
    /\ \/ c.kind \in Writers /\ c.pc \in {"commit", "tx"}
       \/ c.kind = "delete" /\ c.pc \in AfterDeleteTx
       \/ c.pc = "end" /\ c.result = "failed"

\* The command has made the records of t agree, whatever was left behind.
Cleared(c, t) ==
    \/ c.kind = "rebuild" /\ (c.pc = "commit" \/ (c.pc = "end" /\ c.result = "ok"))
    \/ /\ c.kind \in PageKinds /\ c.t = t
       /\ \/ c.pc = "end" /\ c.result = "ok"
          \/ c.kind = "delete" /\ c.pc = "commit"

Loose(t) ==
    \/ \E p \in Procs : Dirty(cmd[p]) /\ cmd[p].t = t
    \/ t \in behind /\ \A p \in Procs : ~Cleared(cmd[p], t)

\* The records of t are those of its file, and a lint in progress has read the
\* file as it is.
ReadByLint(c, t) == c.pc = "lintRead" /\ t \notin c.scan
Agrees(t) ==
    /\ search[t] = page[t]
    /\ page[t] # Absent =>
          /\ graph[t] = page[t]
          /\ \A q \in Procs : ReadByLint(cmd[q], t) => cmd[q].rows[t] = page[t]

IInv ==
    /\ TypeOK
    /\ \A p \in Procs : Shape(cmd[p]) /\ Knows(cmd[p])
    /\ NoPhantomHits
    /\ \A t \in Pages : Loose(t) \/ Agrees(t)

-----------------------------------------------------------------------------
(* Commands.                                                               *)

LEMMA IdleType == IdleCmd \in Command /\ Shape(IdleCmd) /\ IdleCmd.pc = "idle"
<1>1. (CHOOSE t \in Pages : TRUE) \in Pages
  BY PageStoreAssumption
<1>2. 0 \in 0 .. MaxOps
  BY PageStoreAssumption
<1>3. IdleCmd \in Command /\ IdleCmd.pc = "idle" /\ IdleCmd.kind = "write" /\ ~IdleCmd.batch
  BY <1>1, <1>2 DEF IdleCmd, Command, Unlocked, UnderLock, PageKinds
<1> QED
  BY <1>3 DEF Shape, StepsOf, Writers

\* Only the holder of the store lock knows anything, and leaves anything behind.
LEMMA OthersKnowNothing ==
    ASSUME NEW c, c.pc \notin UnderLock
    PROVE  Knows(c) /\ ~Dirty(c) /\ \A t : ~Cleared(c, t)
BY DEF UnderLock, Knows, Dirty, Cleared, AfterDeleteTx

\* Nothing makes the records of t differ from its file, and what is left behind
\* of it stays.
Same(p, c, t) ==
    /\ page'[t] = page[t] /\ search'[t] \in {search[t], page[t]}
    /\ graph'[t] \in {graph[t], page[t]} \/ page[t] = Absent \/ ~Agrees(t)
    /\ t \in behind' <=> t \in behind
    /\ Dirty(cmd[p]) /\ cmd[p].t = t => Dirty(c) /\ c.t = t
    /\ Cleared(c, t) => Cleared(cmd[p], t)
    /\ ReadByLint(c, t) => \/ ReadByLint(cmd[p], t) /\ c.rows[t] = cmd[p].rows[t]
                           \/ c.rows[t] = page[t]

\* A step of p that leaves p at command c.
LEMMA StepKeeps ==
    ASSUME IInv, NEW p \in Procs, NEW c \in Command,
           cmd' = [cmd EXCEPT ![p] = c],
           page' \in [Pages -> Page \cup {Absent}],
           search' \in [Pages -> Page \cup {Absent}],
           graph' \in [Pages -> Page \cup {Absent}],
           index' \in SUBSET Pages, log' \in SUBSET Ops,
           ops' \in 0 .. MaxOps, behind' \in SUBSET Pages,
           lock' \in Procs \cup {NoOne},
           \A q \in Procs \ {p} : lock' = q <=> lock = q,
           lock = p \/ UNCHANGED <<page, search, index, log>>,
           c.pc \in UnderLock <=> lock' = p,
           Shape(c), Knows(c)', NoPhantomHits',
           \A t \in Pages : Same(p, c, t) \/ Loose(t)' \/ Agrees(t)'
    PROVE  IInv'
<1> USE DEF IInv
<1>1. cmd'[p] = c /\ \A q \in Procs \ {p} : cmd'[q] = cmd[q]
  BY DEF TypeOK
<1>2. TypeOK'
  <2>1. cmd' \in [Procs -> Command]
    BY DEF TypeOK, Command
  <2>2. \A q \in Procs : cmd'[q].pc \in UnderLock <=> lock' = q
    BY <1>1 DEF TypeOK
  <2> QED
    BY <2>1, <2>2 DEF TypeOK, Command
<1>3. ASSUME NEW q \in Procs PROVE Shape(cmd[q])' /\ Knows(cmd[q])'
  <2>1. CASE q = p
    BY <2>1, <1>1 DEF Shape, Knows
  <2>2. CASE q # p /\ cmd[q].pc \notin UnderLock
    <3>1. cmd'[q] = cmd[q] /\ Shape(cmd[q])
      BY <2>2, <1>1
    <3>2. Knows(cmd[q])'
      BY <2>2, <3>1 DEF UnderLock, Knows, AfterDeleteTx
    <3> QED
      BY <3>1, <3>2 DEF Shape
  <2>3. CASE q # p /\ cmd[q].pc \in UnderLock
    <3>1. lock = q /\ cmd'[q] = cmd[q] /\ UNCHANGED <<page, search, index, log>>
      BY <2>3, <1>1 DEF TypeOK
    <3>2. Shape(cmd[q]) /\ Knows(cmd[q])
      OBVIOUS
    <3> QED
      BY <3>1, <3>2 DEF Shape, Knows
  <2> QED
    BY <2>1, <2>2, <2>3
<1>4. ASSUME NEW t \in Pages, Same(p, c, t) PROVE Loose(t)' \/ Agrees(t)'
  <2>1. CASE Agrees(t)
    <3>1. search'[t] = page'[t] /\ (page'[t] # Absent => graph'[t] = page'[t])
      BY <2>1, <1>4 DEF Same, Agrees
    <3>2. ASSUME page'[t] # Absent, NEW q \in Procs, ReadByLint(cmd'[q], t)
          PROVE  cmd'[q].rows[t] = page'[t]
      BY <2>1, <3>2, <1>1, <1>4 DEF Same, Agrees
    <3> QED
      BY <3>1, <3>2 DEF Agrees, ReadByLint
  <2>2. CASE \E q \in Procs : Dirty(cmd[q]) /\ cmd[q].t = t
    <3>1. PICK q \in Procs : Dirty(cmd[q]) /\ cmd[q].t = t
      BY <2>2
    <3>2. Dirty(cmd'[q]) /\ cmd'[q].t = t
      BY <3>1, <1>1, <1>4 DEF Same
    <3> QED
      BY <3>2 DEF Loose, Dirty
  <2>3. CASE t \in behind /\ \A q \in Procs : ~Cleared(cmd[q], t)
    <3>1. t \in behind' /\ \A q \in Procs : ~Cleared(cmd'[q], t)
      BY <2>3, <1>1, <1>4 DEF Same
    <3> QED
      BY <3>1 DEF Loose, Cleared
  <2> QED
    BY <2>1, <2>2, <2>3 DEF Loose
<1> QED
  BY <1>2, <1>3, <1>4

-----------------------------------------------------------------------------
(* Steps that change no file and no record.                                *)

LEMMA HoldsLock ==
    ASSUME IInv, NEW p \in Procs
    PROVE  /\ cmd[p] \in Command /\ Shape(cmd[p]) /\ Knows(cmd[p])
           /\ cmd[p].pc \in UnderLock <=> lock = p
           /\ \A q \in Procs \ {p} : lock = p => cmd[q].pc \notin UnderLock
<1>1. cmd[p] \in Command
  BY DEF IInv, TypeOK, Command
<1> QED
  BY <1>1, PageStoreAssumption DEF IInv, TypeOK

LEMMA TypesOfState ==
    ASSUME IInv
    PROVE  /\ page \in [Pages -> Page \cup {Absent}]
           /\ search \in [Pages -> Page \cup {Absent}]
           /\ graph \in [Pages -> Page \cup {Absent}]
           /\ index \in SUBSET Pages /\ log \in SUBSET Ops /\ behind \in SUBSET Pages
           /\ ops \in 0 .. MaxOps /\ lock \in Procs \cup {NoOne} /\ NoPhantomHits
BY DEF IInv, TypeOK

\* A step before the lock, or of a lint.
LEMMA FreeKeeps ==
    ASSUME IInv, NEW p \in Procs, NEW c \in Command,
           cmd' = [cmd EXCEPT ![p] = c], ops' \in 0 .. MaxOps,
           UNCHANGED <<page, records, lists, lock, behind>>,
           cmd[p].pc \notin UnderLock, c.pc \notin UnderLock, Shape(c),
           \A t \in Pages : ReadByLint(c, t) =>
              \/ ReadByLint(cmd[p], t) /\ c.rows[t] = cmd[p].rows[t]
              \/ c.rows[t] = page[t]
    PROVE  IInv'
<1>1. UNCHANGED <<page, search, graph, index, log, lock, behind>>
  BY DEF records, lists
<1>2. Knows(c)'
  BY DEF UnderLock, Knows, AfterDeleteTx
<1>3. ~Dirty(cmd[p]) /\ \A t : ~Cleared(c, t)
  BY OthersKnowNothing
<1>4. \A t \in Pages : Same(p, c, t)
  BY <1>1, <1>3 DEF Same
<1>5. c.pc \in UnderLock <=> lock' = p
  BY <1>1, HoldsLock
<1>6. NoPhantomHits'
  BY <1>1, TypesOfState DEF NoPhantomHits
<1> QED
  BY <1>1, <1>2, <1>4, <1>5, <1>6, TypesOfState, StepKeeps

\* A step under the lock that changes at most the lists.
LEMMA HeldKeeps ==
    ASSUME IInv, NEW p \in Procs, NEW c \in Command, lock = p,
           cmd' = [cmd EXCEPT ![p] = c],
           UNCHANGED <<page, records, lock, ops, behind>>,
           index' \in SUBSET Pages, log' \in SUBSET Ops,
           c.pc \in UnderLock, Shape(c), Knows(c)', c.t = cmd[p].t,
           Dirty(cmd[p]) => Dirty(c),
           \A t \in Pages : Cleared(c, t) => Cleared(cmd[p], t)
    PROVE  IInv'
<1>1. UNCHANGED <<page, search, graph, lock, ops, behind>>
  BY DEF records
<1>2. c.pc # "lintRead"
  BY DEF UnderLock
<1>3. \A t \in Pages : Same(p, c, t)
  BY <1>1, <1>2 DEF Same, ReadByLint
<1>4. NoPhantomHits'
  BY <1>1, TypesOfState DEF NoPhantomHits
<1> QED
  BY <1>1, <1>3, <1>4, TypesOfState, StepKeeps

\* A command that ends without success.
LEMMA EndKeeps ==
    ASSUME IInv, NEW p \in Procs, lock = p,
           NEW r \in {"skipped", "invalid", "refused", "failed"}, End(p, r),
           UNCHANGED <<page, records, lists, lock, ops, behind>>,
           Dirty(cmd[p]) => r = "failed"
    PROVE  IInv'
<1> PICK c : c = [cmd[p] EXCEPT !.pc = "end", !.result = r]
  OBVIOUS
<1>0. cmd[p] \in Command /\ Shape(cmd[p]) /\ cmd[p].pc \in UnderLock
  BY HoldsLock
<1>1. cmd' = [cmd EXCEPT ![p] = c]
  BY DEF End
<1>2. /\ c \in Command /\ c.pc = "end" /\ c.result = r
      /\ c.kind = cmd[p].kind /\ c.t = cmd[p].t /\ c.batch = cmd[p].batch /\ c.n = cmd[p].n
  BY <1>0 DEF Command, UnderLock
<1>3. Shape(c)
  <2>1. cmd[p].kind \in PageKinds \cup ListKinds \cup LintKinds
    BY <1>0 DEF Command
  <2>2. cmd[p].kind # "lint"
    <3>1. StepsOf("lint") = {"lintBegin", "lintRead"}
      BY DEF StepsOf, Writers
    <3> QED
      BY <1>0, <3>1 DEF Shape, UnderLock
  <2>3. "end" \in StepsOf(cmd[p].kind)
    BY <2>1, <2>2 DEF StepsOf, PageKinds, ListKinds, LintKinds, Writers
  <2> QED
    BY <1>0, <1>2, <2>3 DEF Shape, UnderLock
<1>4. Knows(c)'
  BY <1>2 DEF Knows, AfterDeleteTx
<1>5. Dirty(cmd[p]) => Dirty(c)
  BY <1>2 DEF Dirty
<1>6. \A t \in Pages : ~Cleared(c, t)
  BY <1>2 DEF Cleared
<1>7. index' = index /\ log' = log /\ c.pc \in UnderLock
  BY <1>2 DEF lists, UnderLock
<1> QED
  BY <1>1, <1>2, <1>3, <1>4, <1>5, <1>6, <1>7, TypesOfState, HeldKeeps DEF lists

-----------------------------------------------------------------------------
(* The actions: a lemma each.  First the ones before the lock.             *)

LEMMA InitIInv == Init => IInv
<1> SUFFICES ASSUME Init PROVE IInv
  OBVIOUS
<1>1. IdleCmd \in Command /\ Shape(IdleCmd) /\ IdleCmd.pc = "idle" /\ IdleCmd.pc \notin UnderLock
  BY IdleType DEF UnderLock
<1>2. \A p \in Procs : cmd[p] = IdleCmd
  BY DEF Init
<1>3. TypeOK
  <2>1. cmd \in [Procs -> Command]
    BY <1>1 DEF Init
  <2>2. \A p \in Procs : ~(lock = p)
    BY PageStoreAssumption DEF Init
  <2>3. ops \in 0 .. MaxOps
    BY PageStoreAssumption DEF Init
  <2>4. page \in [Pages -> Page \cup {Absent}] /\ search = page /\ graph = page
    BY DEF Init
  <2> QED
    BY <1>1, <1>2, <2>1, <2>2, <2>3, <2>4 DEF Init, TypeOK, Command
<1>4. \A p \in Procs : Shape(cmd[p]) /\ Knows(cmd[p])
  BY <1>1, <1>2, OthersKnowNothing
<1>5. \A t \in Pages : search[t] = Absent /\ page[t] = Absent
  BY DEF Init
<1> QED
  BY <1>3, <1>4, <1>5 DEF IInv, NoPhantomHits, Agrees

LEMMA StartKeeps ==
    ASSUME IInv, NEW p \in Procs, Start(p)
    PROVE  IInv'
<1>0. /\ ops \in 0 .. MaxOps /\ ops < MaxOps /\ ops' = ops + 1 /\ cmd[p].pc = "idle"
      /\ UNCHANGED <<page, records, lists, lock, behind>>
  BY TypesOfState DEF Start, At
<1>1. ops' \in 0 .. MaxOps /\ ops + 1 \in 0 .. MaxOps /\ ops + 1 \in Ops
  BY <1>0, PageStoreAssumption DEF Ops
<1>2. IdleCmd \in Command /\ IdleCmd.kind = "write"
  BY IdleType DEF IdleCmd
<1>3. PICK c \in Command : /\ cmd' = [cmd EXCEPT ![p] = c]
                           /\ Shape(c) /\ c.pc \in {"check", "lintBegin", "lock", "collect", "next"}
  <2>1. CASE \E kind \in Kinds \ BatchKinds, t \in Pages :
                cmd' = [cmd EXCEPT ![p] = [IdleCmd EXCEPT !.kind = kind, !.t = t, !.n = ops + 1,
                                                          !.pc = FirstStep(kind)]]
    <3>1. PICK kind \in Kinds \ BatchKinds, t \in Pages :
                cmd' = [cmd EXCEPT ![p] = [IdleCmd EXCEPT !.kind = kind, !.t = t, !.n = ops + 1,
                                                          !.pc = FirstStep(kind)]]
      BY <2>1
    <3>2. kind \in PageKinds \cup ListKinds \cup LintKinds
      BY PageStoreAssumption
    <3>3. PICK pc : pc = FirstStep(kind)
      OBVIOUS
    <3>4. /\ pc \in {"check", "lintBegin", "lock"}
          /\ pc \in StepsOf(kind)
      BY <3>2, <3>3 DEF FirstStep, StepsOf, PageKinds, ListKinds, LintKinds, Writers
    <3>5. pc \in Unlocked
      BY <3>4 DEF Unlocked
    <3>6. PICK c : c = [IdleCmd EXCEPT !.kind = kind, !.t = t, !.n = ops + 1, !.pc = pc]
      OBVIOUS
    <3>7. c \in Command /\ c.kind = kind /\ c.pc = pc /\ c.batch = FALSE /\ c.n = ops + 1
      BY <1>1, <1>2, <3>2, <3>5, <3>6 DEF Command, IdleCmd
    <3> QED
      BY <1>1, <3>1, <3>3, <3>4, <3>6, <3>7 DEF Shape
  <2>2. CASE cmd' = [cmd EXCEPT ![p] = [IdleCmd EXCEPT !.kind = "approve", !.n = ops + 1,
                                          !.batch = TRUE, !.scan = Pages, !.pc = "collect"]]
    <3>1. PICK c : c = [IdleCmd EXCEPT !.kind = "approve", !.n = ops + 1,
                                       !.batch = TRUE, !.scan = Pages, !.pc = "collect"]
      OBVIOUS
    <3>2. c \in Command /\ c.kind = "approve" /\ c.pc = "collect" /\ c.n = ops + 1
      BY <1>1, <1>2, <3>1 DEF Command, IdleCmd, Unlocked, PageKinds
    <3>3. Shape(c)
      BY <1>1, <3>2 DEF Shape, StepsOf, Writers
    <3> QED
      BY <2>2, <3>1, <3>2, <3>3
  <2>3. CASE \E todo \in SUBSET {t \in Pages : graph[t] # Absent} :
                cmd' = [cmd EXCEPT ![p] = [IdleCmd EXCEPT !.kind = "delete", !.n = ops + 1,
                                             !.batch = TRUE, !.todo = todo, !.pc = "next"]]
    <3>1. PICK todo \in SUBSET Pages :
                cmd' = [cmd EXCEPT ![p] = [IdleCmd EXCEPT !.kind = "delete", !.n = ops + 1,
                                             !.batch = TRUE, !.todo = todo, !.pc = "next"]]
      BY <2>3
    <3>2. PICK c : c = [IdleCmd EXCEPT !.kind = "delete", !.n = ops + 1,
                                       !.batch = TRUE, !.todo = todo, !.pc = "next"]
      OBVIOUS
    <3>3. c \in Command /\ c.kind = "delete" /\ c.pc = "next" /\ c.n = ops + 1
      BY <1>1, <1>2, <3>2 DEF Command, IdleCmd, Unlocked, PageKinds
    <3>4. Shape(c)
      BY <1>1, <3>3 DEF Shape, StepsOf, Writers
    <3> QED
      BY <3>1, <3>2, <3>3, <3>4
  <2> QED
    BY <2>1, <2>2, <2>3 DEF Start
<1>4. cmd[p].pc \notin UnderLock /\ c.pc \notin UnderLock /\ c.pc # "lintRead"
  BY <1>0, <1>3 DEF UnderLock
<1> QED
  BY <1>0, <1>1, <1>3, <1>4, FreeKeeps DEF ReadByLint

\* A step before the lock that only changes what the process is going to do.
LEMMA BeforeLockKeeps ==
    ASSUME IInv, NEW p \in Procs, NEW c \in Command,
           cmd' = [cmd EXCEPT ![p] = c],
           UNCHANGED <<page, records, lists, lock, ops, behind>>,
           cmd[p].pc \in Unlocked, c.pc \in Unlocked, c.pc # "lintRead", Shape(c)
    PROVE  IInv'
<1>1. cmd[p].pc \notin UnderLock /\ c.pc \notin UnderLock
  BY DEF Unlocked, UnderLock
<1>2. ops' \in 0 .. MaxOps
  BY TypesOfState
<1> QED
  BY <1>1, <1>2, FreeKeeps DEF ReadByLint

LEMMA BackToIdle ==
    ASSUME IInv, NEW p \in Procs, cmd' = [cmd EXCEPT ![p] = IdleCmd],
           UNCHANGED <<page, records, lists, lock, ops, behind>>, cmd[p].pc \in Unlocked
    PROVE  IInv'
<1>1. PICK c \in Command : c = IdleCmd /\ Shape(c) /\ c.pc = "idle"
  BY IdleType
<1> QED
  BY <1>1, BeforeLockKeeps DEF Unlocked

LEMMA CollectKeeps ==
    ASSUME IInv, NEW p \in Procs, Collect(p)
    PROVE  IInv'
<1>0. /\ cmd[p].pc = "collect" /\ cmd[p].pc \in Unlocked
      /\ UNCHANGED <<page, records, lists, lock, ops, behind>>
      /\ cmd[p] \in Command /\ Shape(cmd[p])
  BY HoldsLock DEF Collect, At, Unlocked
<1>1. CASE Goto(p, "next")
  <2>1. PICK c : c = [cmd[p] EXCEPT !.pc = "next"]
    OBVIOUS
  <2>2. /\ c \in Command /\ c.pc = "next" /\ c.kind = cmd[p].kind /\ c.n = cmd[p].n
    BY <1>0, <2>1 DEF Command, Unlocked
  <2>3. Shape(c)
    BY <1>0, <2>2 DEF Shape, StepsOf, Command, PageKinds, ListKinds, LintKinds, Writers
  <2>4. cmd' = [cmd EXCEPT ![p] = c] /\ c.pc \in Unlocked
    BY <1>1, <2>1, <2>2 DEF Goto, Unlocked
  <2> QED
    BY <1>0, <2>2, <2>3, <2>4, BeforeLockKeeps
<1>2. CASE \E t \in cmd[p].scan :
              cmd' = [cmd EXCEPT ![p].scan = @ \ {t},
                                 ![p].todo = IF page[t] # Absent /\ page[t].draft
                                               THEN @ \cup {t} ELSE @]
  <2>0. cmd[p].scan \subseteq Pages /\ cmd[p].todo \subseteq Pages
    BY <1>0 DEF Command
  <2>1. PICK t \in cmd[p].scan, todo \in SUBSET Pages :
           cmd' = [cmd EXCEPT ![p] = [cmd[p] EXCEPT !.scan = cmd[p].scan \ {t}, !.todo = todo]]
    <3>1. PICK t \in cmd[p].scan :
              cmd' = [cmd EXCEPT ![p].scan = @ \ {t},
                                 ![p].todo = IF page[t] # Absent /\ page[t].draft
                                               THEN @ \cup {t} ELSE @]
      BY <1>2
    <3>2. PICK todo \in SUBSET Pages :
             todo = IF page[t] # Absent /\ page[t].draft THEN cmd[p].todo \cup {t} ELSE cmd[p].todo
      BY <2>0
    <3> QED
      BY <3>1, <3>2
  <2>2. PICK c : c = [cmd[p] EXCEPT !.scan = cmd[p].scan \ {t}, !.todo = todo]
    OBVIOUS
  <2>3. c \in Command /\ c.pc = "collect" /\ c.kind = cmd[p].kind /\ c.batch = cmd[p].batch /\ c.n = cmd[p].n
    BY <1>0, <2>1, <2>2 DEF Command
  <2>4. Shape(c)
    BY <1>0, <2>3 DEF Shape
  <2> QED
    BY <1>0, <2>1, <2>2, <2>3, <2>4, BeforeLockKeeps
<1> QED
  BY <1>1, <1>2 DEF Collect

LEMMA NextItemKeeps ==
    ASSUME IInv, NEW p \in Procs, NextItem(p)
    PROVE  IInv'
<1>0. /\ cmd[p].pc = "next" /\ cmd[p].pc \in Unlocked
      /\ UNCHANGED <<page, records, lists, lock, ops, behind>>
      /\ cmd[p] \in Command /\ Shape(cmd[p])
  BY HoldsLock DEF NextItem, At, Unlocked
<1>1. CASE cmd' = [cmd EXCEPT ![p] = IdleCmd]
  BY <1>0, <1>1, BackToIdle
<1>2. CASE \E t \in cmd[p].todo :
              cmd' = [cmd EXCEPT ![p].t = t, ![p].todo = @ \ {t}, ![p].pc = FirstStep(Kind(p))]
  <2>1. PICK t \in cmd[p].todo :
              cmd' = [cmd EXCEPT ![p].t = t, ![p].todo = @ \ {t}, ![p].pc = FirstStep(Kind(p))]
    BY <1>2
  <2>2. PICK pc : pc = FirstStep(cmd[p].kind)
    OBVIOUS
  <2>3. cmd[p].kind \in PageKinds \cup ListKinds \cup LintKinds /\ t \in Pages
    BY <1>0 DEF Command
  <2>4. pc \in {"check", "lintBegin", "lock"} /\ pc \in StepsOf(cmd[p].kind)
    BY <2>2, <2>3 DEF FirstStep, StepsOf, PageKinds, ListKinds, LintKinds, Writers
  <2>5. PICK c : c = [cmd[p] EXCEPT !.t = t, !.todo = cmd[p].todo \ {t}, !.pc = pc]
    OBVIOUS
  <2>6. /\ c \in Command /\ c.pc = pc /\ c.kind = cmd[p].kind /\ c.batch = cmd[p].batch /\ c.n = cmd[p].n
    BY <1>0, <2>3, <2>4, <2>5 DEF Command, Unlocked
  <2>7. Shape(c)
    BY <1>0, <2>4, <2>6 DEF Shape
  <2>8. cmd' = [cmd EXCEPT ![p] = c] /\ c.pc \in Unlocked
    BY <2>1, <2>2, <2>4, <2>5, <2>6 DEF Kind, Unlocked
  <2> QED
    BY <1>0, <2>4, <2>6, <2>7, <2>8, BeforeLockKeeps
<1> QED
  BY <1>1, <1>2 DEF NextItem

LEMMA CheckKeeps ==
    ASSUME IInv, NEW p \in Procs, Check(p)
    PROVE  IInv'
<1>0. /\ cmd[p].pc = "check" /\ cmd[p].pc \in Unlocked
      /\ UNCHANGED <<page, records, lists, lock, ops, behind>>
      /\ cmd[p] \in Command /\ Shape(cmd[p])
  BY HoldsLock DEF Check, At, Unlocked
<1>1. CASE cmd' = [cmd EXCEPT ![p] = IdleCmd]
  BY <1>0, <1>1, BackToIdle
<1>2. CASE Goto(p, "lock") \/ (cmd[p].batch /\ Goto(p, "next"))
  <2>1. PICK pc \in {"lock", "next"} : Goto(p, pc)
    BY <1>2
  <2>2. PICK c : c = [cmd[p] EXCEPT !.pc = pc]
    OBVIOUS
  <2>3. c \in Command /\ c.pc = pc /\ c.kind = cmd[p].kind /\ c.batch = cmd[p].batch /\ c.n = cmd[p].n
    BY <1>0, <2>1, <2>2 DEF Command, Unlocked
  <2>4. cmd[p].kind = "delete"
    BY <1>0 DEF Shape, StepsOf, Command, PageKinds, ListKinds, LintKinds, Writers
  <2>5. Shape(c)
    BY <1>0, <2>1, <2>3, <2>4 DEF Shape, StepsOf, Writers
  <2>6. cmd' = [cmd EXCEPT ![p] = c] /\ c.pc \in Unlocked
    BY <2>1, <2>2, <2>3 DEF Goto, Unlocked
  <2> QED
    BY <1>0, <2>1, <2>3, <2>5, <2>6, BeforeLockKeeps
<1> QED
  BY <1>1, <1>2 DEF Check

LEMMA LockKeeps ==
    ASSUME IInv, NEW p \in Procs, Lock(p)
    PROVE  IInv'
<1>0. /\ cmd[p].pc = "lock" /\ cmd[p].pc \notin UnderLock
      /\ lock = NoOne /\ lock' = p
      /\ UNCHANGED <<page, search, graph, index, log, ops, behind>>
      /\ cmd[p] \in Command /\ Shape(cmd[p])
  BY HoldsLock DEF Lock, LockFree, At, UnderLock, records, lists
<1>1. PICK pc : pc = AfterLock(cmd[p].kind)
  OBVIOUS
<1>2. pc \in {"read", "preflight"} /\ pc \in StepsOf(cmd[p].kind)
  BY <1>0, <1>1 DEF AfterLock, Shape, StepsOf, Command, PageKinds, ListKinds, LintKinds, Writers
<1>3. PICK c : c = [cmd[p] EXCEPT !.pc = pc]
  OBVIOUS
<1>4. c \in Command /\ c.pc = pc /\ c.kind = cmd[p].kind /\ c.batch = cmd[p].batch /\ c.n = cmd[p].n
  BY <1>0, <1>2, <1>3 DEF Command, UnderLock
<1>5. cmd' = [cmd EXCEPT ![p] = c] /\ c.pc \in UnderLock
  BY <1>0, <1>1, <1>2, <1>3, <1>4 DEF Lock, Goto, Kind, UnderLock
<1>6. Shape(c)
  BY <1>0, <1>2, <1>4 DEF Shape
<1>7. Knows(c)' /\ ~Dirty(cmd[p]) /\ \A t : ~Cleared(c, t)
  <2>1. ~Dirty(cmd[p])
    BY <1>0, OthersKnowNothing
  <2> QED
    BY <1>2, <1>4, <2>1 DEF Knows, Cleared, AfterDeleteTx
<1>8. \A t \in Pages : Same(p, c, t)
  BY <1>0, <1>2, <1>4, <1>7 DEF Same, ReadByLint
<1>9. \A q \in Procs \ {p} : lock' = q <=> lock = q
  BY <1>0, PageStoreAssumption
<1>10. NoPhantomHits'
  BY <1>0, TypesOfState DEF NoPhantomHits
<1> QED
  BY <1>0, <1>4, <1>5, <1>6, <1>7, <1>8, <1>9, <1>10, TypesOfState, StepKeeps

\* Which commands reach which step.
LEMMA KindsAt ==
    ASSUME NEW c \in Command, Shape(c)
    PROVE  /\ c.pc \in {"lintBegin", "lintRead"} => c.kind = "lint"
           /\ c.pc = "read" => c.kind \in Writers \cup {"indexAdd"}
           /\ c.pc = "put" => c.kind \in Writers
           /\ c.pc = "tx" => c.kind \in Writers \cup {"delete"}
           /\ c.pc = "remove" => c.kind = "delete"
           /\ c.pc = "preflight" =>
                 c.kind \in {"delete", "indexAdd", "indexRemove", "logAppend", "rebuild"}
           /\ c.pc \in {"entries", "entry"} => c.kind \in {"delete", "indexAdd", "indexRemove"}
           /\ c.pc \in {"entriesLog", "entryLog"} => c.kind \in {"delete", "logAppend"}
           /\ c.pc \in {"searchTx", "rewrite", "graphTx"} => c.kind = "rebuild"
           /\ c.pc \in UnderLock => c.kind \in PageKinds \cup ListKinds
<1>1. c.kind \in {"write", "update", "append", "approve", "delete", "indexAdd", "indexRemove",
                  "rebuild", "logAppend", "lint"}
  BY DEF Command, PageKinds, ListKinds, LintKinds
<1> QED
  BY <1>1 DEF Shape, StepsOf, PageKinds, ListKinds, Writers, UnderLock, AfterDeleteTx

LEMMA LintBeginKeeps ==
    ASSUME IInv, NEW p \in Procs, LintBegin(p)
    PROVE  IInv'
<1>0. /\ cmd[p].pc = "lintBegin" /\ cmd[p].pc \notin UnderLock
      /\ UNCHANGED <<page, records, lists, lock, ops, behind>>
      /\ cmd[p] \in Command /\ Shape(cmd[p])
  BY HoldsLock DEF LintBegin, At, UnderLock
<1>1. PICK c : c = [cmd[p] EXCEPT !.pc = "lintRead", !.scan = Pages]
  OBVIOUS
<1>2. /\ c \in Command /\ c.pc = "lintRead" /\ c.scan = Pages
      /\ c.kind = cmd[p].kind /\ c.batch = cmd[p].batch /\ c.n = cmd[p].n
  BY <1>0, <1>1 DEF Command, Unlocked
<1>3. Shape(c) /\ c.pc \notin UnderLock
  <2>1. cmd[p].kind = "lint" /\ StepsOf("lint") = {"lintBegin", "lintRead"}
    BY <1>0, KindsAt DEF StepsOf, Writers
  <2> QED
    BY <1>0, <1>2, <2>1 DEF Shape, UnderLock
<1>4. cmd' = [cmd EXCEPT ![p] = c]
  BY <1>1 DEF LintBegin
<1>5. ops' \in 0 .. MaxOps /\ \A t \in Pages : ~ReadByLint(c, t)
  BY <1>0, <1>2, TypesOfState DEF ReadByLint
<1> QED
  BY <1>0, <1>2, <1>3, <1>4, <1>5, FreeKeeps

LEMMA LintReadKeeps ==
    ASSUME IInv, NEW p \in Procs, LintRead(p)
    PROVE  IInv'
<1>0. /\ cmd[p].pc = "lintRead" /\ cmd[p].pc \notin UnderLock
      /\ UNCHANGED <<page, records, lists, lock, ops, behind>>
      /\ cmd[p] \in Command /\ Shape(cmd[p])
  BY HoldsLock DEF LintRead, At, UnderLock
<1>1. PICK t \in cmd[p].scan :
         cmd' = [cmd EXCEPT ![p].scan = @ \ {t}, ![p].rows[t] = page[t]]
  BY DEF LintRead
<1>2. cmd[p].scan \in SUBSET Pages /\ t \in Pages /\ page[t] \in Page \cup {Absent}
  BY <1>0, TypesOfState DEF Command
<1>3. PICK rows : rows = [cmd[p].rows EXCEPT ![t] = page[t]]
  OBVIOUS
<1>4. /\ rows \in [Pages -> Page \cup {Absent}]
      /\ rows[t] = page[t] /\ \A u \in Pages \ {t} : rows[u] = cmd[p].rows[u]
  BY <1>0, <1>2, <1>3 DEF Command
<1>5. PICK c : c = [cmd[p] EXCEPT !.scan = cmd[p].scan \ {t}, !.rows = rows]
  OBVIOUS
<1>6. /\ c \in Command /\ c.pc = "lintRead" /\ c.scan = cmd[p].scan \ {t} /\ c.rows = rows
      /\ c.kind = cmd[p].kind /\ c.batch = cmd[p].batch /\ c.n = cmd[p].n
  BY <1>0, <1>2, <1>4, <1>5 DEF Command
<1>7. Shape(c) /\ c.pc \notin UnderLock
  BY <1>0, <1>6 DEF Shape
<1>8. cmd' = [cmd EXCEPT ![p] = c]
  BY <1>1, <1>3, <1>5
<1>9. \A u \in Pages : ReadByLint(c, u) =>
         \/ ReadByLint(cmd[p], u) /\ c.rows[u] = cmd[p].rows[u]
         \/ c.rows[u] = page[u]
  BY <1>0, <1>4, <1>6 DEF ReadByLint
<1> QED
  BY <1>0, <1>6, <1>7, <1>8, <1>9, TypesOfState, FreeKeeps

-----------------------------------------------------------------------------
(* The actions that change a page or the records of one.                   *)

LEMMA ReadKeeps ==
    ASSUME IInv, NEW p \in Procs, Read(p)
    PROVE  IInv'
<1>0. /\ cmd[p].pc = "read" /\ lock = p /\ ~Dirty(cmd[p])
      /\ UNCHANGED <<page, records, lists, lock, ops, behind>>
      /\ cmd[p] \in Command /\ Shape(cmd[p])
      /\ cmd[p].kind \in Writers \cup {"indexAdd"} /\ cmd[p].t \in Pages
  <2>1. cmd[p].pc = "read" /\ cmd[p].pc \in UnderLock
    BY DEF Read, At, UnderLock
  <2>2. cmd[p].t \in Pages
    BY HoldsLock DEF Command
  <2> QED
    BY <2>1, <2>2, HoldsLock, KindsAt DEF Read, Dirty, AfterDeleteTx
<1>1. CASE \E r \in {"skipped", "invalid", "refused"} : End(p, r)
  BY <1>0, <1>1, EndKeeps
<1>2. CASE /\ page[cmd[p].t] = Absent => cmd[p].kind \in {"write", "indexAdd"}
           /\ page[cmd[p].t] # Absent /\ cmd[p].kind = "approve" => page[cmd[p].t].draft
           /\ cmd' = [cmd EXCEPT ![p].seen = page[T(p)],
                                 ![p].pc = IF Kind(p) = "indexAdd" THEN "preflight" ELSE "put"]
  <2>1. PICK pc \in {"preflight", "put"} :
           pc = IF cmd[p].kind = "indexAdd" THEN "preflight" ELSE "put"
    OBVIOUS
  <2>2. PICK c : c = [cmd[p] EXCEPT !.seen = page[cmd[p].t], !.pc = pc]
    OBVIOUS
  <2>3. page[cmd[p].t] \in Page \cup {Absent}
    BY <1>0, TypesOfState
  <2>4. /\ c \in Command /\ c.pc = pc /\ c.seen = page[cmd[p].t] /\ c.t = cmd[p].t
        /\ c.kind = cmd[p].kind /\ c.batch = cmd[p].batch /\ c.n = cmd[p].n
    BY <1>0, <2>2, <2>3 DEF Command, UnderLock
  <2>5. cmd' = [cmd EXCEPT ![p] = c] /\ c.pc \in UnderLock
    BY <1>2, <2>1, <2>2, <2>4 DEF T, Kind, UnderLock
  <2>6. Shape(c)
    BY <1>0, <2>1, <2>4 DEF Shape, StepsOf, Writers
  <2>7. Knows(c)'
    BY <1>0, <1>2, <2>1, <2>4 DEF Knows, AfterDeleteTx
  <2>8. \A t \in Pages : ~Cleared(c, t)
    BY <2>1, <2>4 DEF Cleared
  <2>9. index' \in SUBSET Pages /\ log' \in SUBSET Ops
    BY <1>0, TypesOfState DEF lists
  <2> QED
    BY <1>0, <2>4, <2>5, <2>6, <2>7, <2>8, <2>9, HeldKeeps
<1> QED
  BY <1>1, <1>2 DEF Read, T, Kind, AlreadyApproved, Readable

\* What a command makes of a page is a page.
LEMMA NewPagesType ==
    ASSUME NEW c \in Command, c.kind \in Writers, c.n \in Ops,
           c.kind # "write" => c.seen # Absent
    PROVE  NewPages(c) \subseteq Page
<1>1. c.kind # "write" => c.seen.body \in SUBSET Ops /\ c.seen.draft \in BOOLEAN
  BY DEF Command, Page
<1> QED
  BY <1>1 DEF NewPages, Writers, Page

LEMMA PutKeeps ==
    ASSUME IInv, NEW p \in Procs, Put(p)
    PROVE  IInv'
<1>0. /\ cmd[p].pc = "put" /\ lock = p /\ ~Dirty(cmd[p])
      /\ UNCHANGED <<search, graph, index, log, lock, ops, behind>>
      /\ cmd[p] \in Command /\ Shape(cmd[p]) /\ Knows(cmd[p])
      /\ cmd[p].kind \in Writers /\ cmd[p].t \in Pages /\ cmd[p].n \in Ops
  <2>1. cmd[p].pc = "put" /\ cmd[p].pc \in UnderLock
    BY DEF Put, At, UnderLock
  <2>2. cmd[p].t \in Pages
    BY HoldsLock DEF Command
  <2>3. cmd[p].n \in Ops
    BY <2>1, HoldsLock DEF Shape
  <2> QED
    BY <2>1, <2>2, <2>3, HoldsLock, KindsAt DEF Put, Dirty, AfterDeleteTx, records, lists
<1>1. CASE End(p, "refused") /\ UNCHANGED page
  BY <1>0, <1>1, EndKeeps DEF records, lists
<1>2. CASE /\ \E new \in NewPages(cmd[p]) : page' = [page EXCEPT ![T(p)] = new]
           /\ Goto(p, "commit")
  <2>1. PICK new \in NewPages(cmd[p]) : page' = [page EXCEPT ![cmd[p].t] = new]
    BY <1>2 DEF T
  <2>2. new \in Page /\ new # Absent
    <3>1. new \in Page
      BY <1>0, NewPagesType DEF Knows
    <3> QED
      BY <3>1, PageStoreAssumption DEF Page, Ops
  <2>3. /\ page' \in [Pages -> Page \cup {Absent}] /\ page'[cmd[p].t] = new
        /\ \A t \in Pages \ {cmd[p].t} : page'[t] = page[t]
    BY <1>0, <2>1, <2>2, TypesOfState
  <2>4. PICK c : c = [cmd[p] EXCEPT !.pc = "commit"]
    OBVIOUS
  <2>5. /\ c \in Command /\ c.pc = "commit" /\ c.t = cmd[p].t
        /\ c.kind = cmd[p].kind /\ c.batch = cmd[p].batch /\ c.n = cmd[p].n
    BY <1>0, <2>4 DEF Command, UnderLock
  <2>6. cmd' = [cmd EXCEPT ![p] = c] /\ c.pc \in UnderLock
    BY <1>2, <2>4, <2>5 DEF Goto, UnderLock
  <2>7. Shape(c)
    BY <1>0, <2>5 DEF Shape, StepsOf, Writers
  <2>8. Knows(c)' /\ Dirty(c)
    BY <1>0, <2>5 DEF Knows, AfterDeleteTx, Dirty, Writers, PageKinds
  <2>9. NoPhantomHits'
    BY <1>0, <2>2, <2>3, TypesOfState DEF NoPhantomHits
  <2>10. ASSUME NEW t \in Pages PROVE Same(p, c, t) \/ Loose(t)'
    <3>1. CASE t = cmd[p].t
      <4>1. cmd'[p] = c
        BY <1>0, <2>6 DEF IInv, TypeOK
      <4> QED
        BY <3>1, <4>1, <2>5, <2>8 DEF Loose, Dirty
    <3>2. CASE t # cmd[p].t
      <4>1. ~Cleared(c, t) /\ ~ReadByLint(c, t)
        BY <1>0, <2>5 DEF Cleared, ReadByLint, Writers
      <4> QED
        BY <3>2, <4>1, <1>0, <2>3 DEF Same
    <3> QED
      BY <3>1, <3>2
  <2> QED
    BY <1>0, <2>3, <2>5, <2>6, <2>7, <2>8, <2>9, <2>10, TypesOfState, StepKeeps
<1> QED
  BY <1>1, <1>2 DEF Put

LEMMA CommitKeeps ==
    ASSUME IInv, NEW p \in Procs, Commit(p)
    PROVE  IInv'
<1>0. /\ cmd[p].pc = "commit" /\ lock = p
      /\ UNCHANGED <<page, records, lists, lock, ops, behind>>
      /\ cmd[p] \in Command /\ Shape(cmd[p]) /\ Knows(cmd[p])
      /\ cmd[p].kind \in PageKinds \cup ListKinds /\ cmd[p].t \in Pages
  <2>1. cmd[p].pc = "commit" /\ cmd[p].pc \in UnderLock
    BY DEF Commit, At, UnderLock
  <2>2. cmd[p].t \in Pages
    BY HoldsLock DEF Command
  <2> QED
    BY <2>1, <2>2, HoldsLock, KindsAt DEF Commit
<1>1. CASE End(p, "failed")
  BY <1>0, <1>1, EndKeeps
<1>2. CASE End(p, "ok") /\ cmd[p].kind \notin Writers
  <2>1. PICK c : c = [cmd[p] EXCEPT !.pc = "end", !.result = "ok"]
    OBVIOUS
  <2>2. /\ c \in Command /\ c.pc = "end" /\ c.result = "ok" /\ c.t = cmd[p].t
        /\ c.kind = cmd[p].kind /\ c.batch = cmd[p].batch /\ c.n = cmd[p].n
    BY <1>0, <2>1 DEF Command, UnderLock
  <2>3. cmd' = [cmd EXCEPT ![p] = c] /\ c.pc \in UnderLock
    BY <1>2, <2>1, <2>2 DEF End, UnderLock
  <2>4. Shape(c)
    BY <1>0, <1>2, <2>2 DEF Shape, StepsOf, Writers, PageKinds, ListKinds
  <2>5. Knows(c)' /\ ~Dirty(cmd[p])
    BY <1>0, <1>2, <2>2 DEF Knows, AfterDeleteTx, Dirty
  <2>6. \A t \in Pages : Cleared(c, t) => Cleared(cmd[p], t)
    BY <1>0, <1>2, <2>2 DEF Cleared, PageKinds, Writers
  <2>7. index' \in SUBSET Pages /\ log' \in SUBSET Ops
    BY <1>0, TypesOfState DEF lists
  <2> QED
    BY <1>0, <2>2, <2>3, <2>4, <2>5, <2>6, <2>7, HeldKeeps
<1>3. CASE Goto(p, "tx") /\ cmd[p].kind \in Writers
  <2>1. PICK c : c = [cmd[p] EXCEPT !.pc = "tx"]
    OBVIOUS
  <2>2. /\ c \in Command /\ c.pc = "tx" /\ c.t = cmd[p].t
        /\ c.kind = cmd[p].kind /\ c.batch = cmd[p].batch /\ c.n = cmd[p].n
    BY <1>0, <2>1 DEF Command, UnderLock
  <2>3. cmd' = [cmd EXCEPT ![p] = c] /\ c.pc \in UnderLock /\ Shape(c)
    BY <1>0, <1>3, <2>1, <2>2 DEF Goto, UnderLock, Shape, StepsOf, Writers
  <2>4. Knows(c)' /\ Dirty(c) /\ \A t \in Pages : ~Cleared(c, t)
    BY <1>3, <2>2 DEF Knows, AfterDeleteTx, Dirty, Writers, PageKinds, Cleared
  <2>5. index' \in SUBSET Pages /\ log' \in SUBSET Ops
    BY <1>0, TypesOfState DEF lists
  <2> QED
    BY <1>0, <2>2, <2>3, <2>4, <2>5, HeldKeeps
<1> QED
  BY <1>1, <1>2, <1>3 DEF Commit, AfterCommit, Kind, Writers

\* What holds at a step under the lock.
LEMMA UnderLockFacts ==
    ASSUME IInv, NEW p \in Procs, cmd[p].pc \in UnderLock
    PROVE  /\ lock = p /\ cmd[p] \in Command /\ Shape(cmd[p]) /\ Knows(cmd[p])
           /\ cmd[p].t \in Pages /\ cmd[p].n \in Ops
           /\ \A q \in Procs \ {p} : cmd[q].pc \notin UnderLock
<1>1. cmd[p] \in Command /\ Shape(cmd[p]) /\ cmd[p].pc # "idle"
  BY HoldsLock DEF UnderLock
<1>2. cmd[p].t \in Pages
  BY <1>1 DEF Command
<1> QED
  BY <1>1, <1>2, HoldsLock DEF Shape

LEMMA TxKeeps ==
    ASSUME IInv, NEW p \in Procs, Tx(p)
    PROVE  IInv'
<1>0. /\ cmd[p].pc = "tx" /\ cmd[p].pc \in UnderLock
      /\ UNCHANGED <<page, index, log, lock, ops, behind>>
  BY DEF Tx, At, UnderLock, lists
<1>1. /\ lock = p /\ cmd[p] \in Command /\ Shape(cmd[p]) /\ cmd[p].t \in Pages
      /\ cmd[p].n \in Ops /\ cmd[p].kind \in Writers \cup {"delete"}
  BY <1>0, UnderLockFacts, KindsAt
<1>2. CASE End(p, IF Kind(p) = "delete" THEN "refused" ELSE "failed") /\ UNCHANGED records
  <2>1. PICK r \in {"refused", "failed"} :
           r = IF cmd[p].kind = "delete" THEN "refused" ELSE "failed"
    OBVIOUS
  <2>2. Dirty(cmd[p]) => r = "failed"
    BY <1>0, <2>1 DEF Dirty, Writers, AfterDeleteTx
  <2>3. End(p, r)
    BY <1>2, <2>1 DEF Kind
  <2> QED
    BY <1>0, <1>1, <1>2, <2>2, <2>3, EndKeeps DEF lists
<1>3. CASE /\ DbFree
           /\ search' = [search EXCEPT ![T(p)] = Row(cmd[p])]
           /\ graph' = [graph EXCEPT ![T(p)] = Row(cmd[p])]
           /\ IF Kind(p) = "delete" THEN Goto(p, "entries") ELSE End(p, "ok")
  <2>1. PICK row : row = Row(cmd[p])
    OBVIOUS
  <2>2. /\ row \in Page \cup {Absent}
        /\ cmd[p].kind = "delete" => row = Absent
        /\ cmd[p].kind # "delete" => row = page[cmd[p].t]
    BY <1>1, <2>1, TypesOfState DEF Row
  <2>3. /\ search' \in [Pages -> Page \cup {Absent}] /\ graph' \in [Pages -> Page \cup {Absent}]
        /\ search'[cmd[p].t] = row /\ graph'[cmd[p].t] = row
        /\ \A t \in Pages \ {cmd[p].t} : search'[t] = search[t] /\ graph'[t] = graph[t]
    BY <1>1, <1>3, <2>1, <2>2, TypesOfState DEF T, Row
  <2>4. NoPhantomHits'
    BY <1>0, <1>1, <2>2, <2>3, TypesOfState DEF NoPhantomHits
  <2>5. CASE cmd[p].kind = "delete"
    <3>1. PICK c : c = [cmd[p] EXCEPT !.pc = "entries"]
      OBVIOUS
    <3>2. /\ c \in Command /\ c.pc = "entries" /\ c.t = cmd[p].t
          /\ c.kind = "delete" /\ c.batch = cmd[p].batch /\ c.n = cmd[p].n
      BY <1>1, <2>5, <3>1 DEF Command, UnderLock
    <3>3. cmd' = [cmd EXCEPT ![p] = c] /\ c.pc \in UnderLock
      BY <1>3, <2>5, <3>1, <3>2 DEF Kind, Goto, UnderLock
    <3>4. Shape(c) /\ Dirty(c) /\ \A t \in Pages : ~Cleared(c, t) /\ ~ReadByLint(c, t)
      BY <1>1, <3>2 DEF Shape, StepsOf, Writers, AfterDeleteTx, Dirty, PageKinds, Cleared, ReadByLint
    <3>5. Knows(c)'
      BY <2>2, <2>3, <2>5, <3>2 DEF Knows, AfterDeleteTx
    <3>6. ASSUME NEW t \in Pages PROVE Same(p, c, t) \/ Loose(t)'
      <4>1. CASE t = cmd[p].t
        <5>1. cmd'[p] = c
          BY <3>3 DEF IInv, TypeOK
        <5> QED
          BY <4>1, <5>1, <3>2, <3>4 DEF Loose, Dirty
      <4>2. CASE t # cmd[p].t
        BY <4>2, <3>2, <3>4, <1>0, <2>3 DEF Same
      <4> QED
        BY <4>1, <4>2
    <3> QED
      BY <1>0, <1>1, <2>3, <2>4, <3>2, <3>3, <3>4, <3>5, <3>6, TypesOfState, StepKeeps
  <2>6. CASE cmd[p].kind # "delete"
    <3>1. PICK c : c = [cmd[p] EXCEPT !.pc = "end", !.result = "ok"]
      OBVIOUS
    <3>2. /\ c \in Command /\ c.pc = "end" /\ c.result = "ok" /\ c.t = cmd[p].t
          /\ c.kind = cmd[p].kind /\ c.batch = cmd[p].batch /\ c.n = cmd[p].n
      BY <1>1, <3>1 DEF Command, UnderLock
    <3>3. cmd' = [cmd EXCEPT ![p] = c] /\ c.pc \in UnderLock
      BY <1>3, <2>6, <3>1, <3>2 DEF Kind, End, UnderLock
    <3>4. Shape(c) /\ Knows(c)' /\ \A t \in Pages : ~ReadByLint(c, t)
      BY <1>1, <2>6, <3>2 DEF Shape, StepsOf, Writers, AfterDeleteTx, Knows, ReadByLint
    <3>5. ASSUME NEW t \in Pages PROVE Same(p, c, t) \/ Agrees(t)'
      <4>1. CASE t = cmd[p].t
        <5>1. \A q \in Procs : cmd'[q].pc # "lintRead"
          BY <1>3, <3>2, <3>3 DEF IInv, TypeOK, DbFree, At
        <5> QED
          BY <4>1, <5>1, <1>0, <2>2, <2>3, <2>6 DEF Agrees, ReadByLint
      <4>2. CASE t # cmd[p].t
        <5>1. ~Cleared(c, t) /\ (Dirty(cmd[p]) => cmd[p].t # t)
          BY <1>1, <2>6, <3>2, <4>2 DEF Cleared, Writers
        <5> QED
          BY <5>1, <3>4, <1>0, <2>3, <4>2 DEF Same
      <4> QED
        BY <4>1, <4>2
    <3> QED
      BY <1>0, <1>1, <2>3, <2>4, <3>2, <3>3, <3>4, <3>5, TypesOfState, StepKeeps
  <2> QED
    BY <2>5, <2>6
<1> QED
  BY <1>2, <1>3 DEF Tx

LEMMA RemoveKeeps ==
    ASSUME IInv, NEW p \in Procs, Remove(p)
    PROVE  IInv'
<1>0. /\ cmd[p].pc = "remove" /\ cmd[p].pc \in UnderLock
      /\ UNCHANGED <<search, graph, index, log, lock, ops, behind>>
  BY DEF Remove, At, UnderLock, lists, records
<1>1. /\ lock = p /\ cmd[p] \in Command /\ Shape(cmd[p]) /\ Knows(cmd[p])
      /\ cmd[p].t \in Pages /\ cmd[p].n \in Ops /\ cmd[p].kind = "delete"
  BY <1>0, UnderLockFacts, KindsAt
<1>2. CASE End(p, "failed") /\ UNCHANGED page
  BY <1>0, <1>1, <1>2, EndKeeps DEF lists, records
<1>3. CASE page' = [page EXCEPT ![T(p)] = Absent] /\ Goto(p, "commit")
  <2>1. /\ page' \in [Pages -> Page \cup {Absent}] /\ page'[cmd[p].t] = Absent
        /\ \A t \in Pages \ {cmd[p].t} : page'[t] = page[t]
    BY <1>1, <1>3, TypesOfState DEF T
  <2>2. search[cmd[p].t] = Absent
    BY <1>0, <1>1 DEF Knows, AfterDeleteTx
  <2>3. PICK c : c = [cmd[p] EXCEPT !.pc = "commit"]
    OBVIOUS
  <2>4. /\ c \in Command /\ c.pc = "commit" /\ c.t = cmd[p].t
        /\ c.kind = "delete" /\ c.batch = cmd[p].batch /\ c.n = cmd[p].n
    BY <1>1, <2>3 DEF Command, UnderLock
  <2>5. cmd' = [cmd EXCEPT ![p] = c] /\ c.pc \in UnderLock
    BY <1>3, <2>3, <2>4 DEF Goto, UnderLock
  <2>6. Shape(c) /\ \A t \in Pages : ~ReadByLint(c, t)
    BY <1>1, <2>4 DEF Shape, StepsOf, Writers, ReadByLint
  <2>7. Knows(c)'
    BY <1>0, <2>1, <2>2, <2>4 DEF Knows, AfterDeleteTx
  <2>8. NoPhantomHits'
    BY <1>0, <2>1, <2>2, TypesOfState DEF NoPhantomHits
  <2>9. ASSUME NEW t \in Pages PROVE Same(p, c, t) \/ Agrees(t)'
    <3>1. CASE t = cmd[p].t
      BY <3>1, <1>0, <2>1, <2>2 DEF Agrees
    <3>2. CASE t # cmd[p].t
      <4>1. ~Cleared(c, t)
        BY <3>2, <2>4 DEF Cleared
      <4> QED
        BY <4>1, <3>2, <1>0, <2>1, <2>6 DEF Same
    <3> QED
      BY <3>1, <3>2
  <2> QED
    BY <1>0, <1>1, <2>1, <2>4, <2>5, <2>6, <2>7, <2>8, <2>9, TypesOfState, StepKeeps
<1> QED
  BY <1>2, <1>3 DEF Remove

-----------------------------------------------------------------------------
(* The managed files and the rebuild.                                      *)

\* Goes on to a step where nothing need be known.
LEMMA ListStepKeeps ==
    ASSUME IInv, NEW p \in Procs, cmd[p].pc \in UnderLock,
           NEW c \in Command, cmd' = [cmd EXCEPT ![p] = c],
           UNCHANGED <<page, records, lock, ops, behind>>,
           index' \in SUBSET Pages, log' \in SUBSET Ops,
           c.pc \in UnderLock, c.pc \in StepsOf(c.kind), c.kind = cmd[p].kind,
           c.t = cmd[p].t, c.n = cmd[p].n, c.batch = cmd[p].batch,
           c.pc \notin {"put", "end"}, c.pc = "commit" => c.kind \in ListKinds \ {"rebuild"},
           c.pc = "entry" => c.entries = index', c.pc = "entryLog" => c.logged = log',
           c.kind = "rebuild" => c.pc \notin {"rewrite", "graphTx"},
           c.kind = "delete" /\ c.pc \in AfterDeleteTx => cmd[p].pc \in AfterDeleteTx,
           Dirty(cmd[p]) => c.kind = "delete" /\ c.pc \in AfterDeleteTx
    PROVE  IInv'
<1>1. /\ lock = p /\ cmd[p] \in Command /\ Shape(cmd[p]) /\ Knows(cmd[p]) /\ cmd[p].n \in Ops
      /\ UNCHANGED <<page, search, graph>>
  BY UnderLockFacts DEF records
<1>2. Shape(c)
  BY <1>1 DEF Shape, UnderLock
<1>3. Knows(c)'
  BY <1>1 DEF Knows, AfterDeleteTx, ListKinds
<1>4. \A t \in Pages : ~Cleared(c, t)
  BY DEF Cleared, PageKinds, ListKinds
<1>5. Dirty(cmd[p]) => Dirty(c)
  BY DEF Dirty, PageKinds
<1> QED
  BY <1>1, <1>2, <1>3, <1>4, <1>5, HeldKeeps

LEMMA ListFailsKeeps ==
    ASSUME IInv, NEW p \in Procs, NEW next \in {"entriesLog", "remove"}, ListFails(p, next),
           UNCHANGED <<page, records, lists, lock, ops, behind>>,
           cmd[p].pc \in {"entries", "entry", "entriesLog", "entryLog"}
    PROVE  IInv'
<1>0. cmd[p].pc \in UnderLock /\ cmd[p].pc \in AfterDeleteTx
  BY DEF UnderLock, AfterDeleteTx
<1>1. /\ lock = p /\ cmd[p] \in Command
      /\ cmd[p].kind \in {"delete", "indexAdd", "indexRemove", "logAppend"}
      /\ index' \in SUBSET Pages /\ log' \in SUBSET Ops
  BY <1>0, UnderLockFacts, KindsAt, TypesOfState DEF lists
<1>2. CASE cmd[p].kind # "delete"
  <2>1. ~Dirty(cmd[p])
    BY <1>1, <1>2 DEF Dirty, PageKinds
  <2>2. End(p, "failed")
    BY <1>2 DEF ListFails, Kind
  <2> QED
    BY <1>1, <2>1, <2>2, EndKeeps
<1>3. CASE cmd[p].kind = "delete"
  <2>1. PICK c : c = [cmd[p] EXCEPT !.pc = next, !.warned = TRUE]
    OBVIOUS
  <2>2. /\ c \in Command /\ c.pc = next /\ c.t = cmd[p].t
        /\ c.kind = "delete" /\ c.batch = cmd[p].batch /\ c.n = cmd[p].n
    BY <1>1, <1>3, <2>1 DEF Command, UnderLock
  <2>3. cmd' = [cmd EXCEPT ![p] = c]
    BY <1>3, <2>1 DEF ListFails, Kind
  <2>4. c.pc \in UnderLock /\ c.pc \in AfterDeleteTx /\ c.pc \in StepsOf(c.kind)
    BY <2>2 DEF UnderLock, AfterDeleteTx, StepsOf, Writers
  <2> QED
    BY <1>0, <1>1, <1>3, <2>2, <2>3, <2>4, ListStepKeeps
<1> QED
  BY <1>2, <1>3

LEMMA PreflightKeeps ==
    ASSUME IInv, NEW p \in Procs, Preflight(p)
    PROVE  IInv'
<1>0. /\ cmd[p].pc = "preflight" /\ cmd[p].pc \in UnderLock
      /\ UNCHANGED <<page, records, lists, lock, ops, behind>>
  BY DEF Preflight, At, UnderLock
<1>1. /\ lock = p /\ cmd[p] \in Command /\ ~Dirty(cmd[p])
      /\ cmd[p].kind \in {"delete", "indexAdd", "indexRemove", "logAppend", "rebuild"}
      /\ index' \in SUBSET Pages /\ log' \in SUBSET Ops
  BY <1>0, UnderLockFacts, KindsAt, TypesOfState DEF lists, Dirty, AfterDeleteTx
<1>2. CASE \E r \in {"skipped", "refused"} : End(p, r)
  BY <1>0, <1>1, <1>2, EndKeeps
<1>3. CASE Goto(p, AfterPreflight(Kind(p)))
  <2>1. PICK pc : pc = AfterPreflight(cmd[p].kind)
    OBVIOUS
  <2>2. /\ pc \in {"tx", "entries", "entriesLog", "searchTx"}
        /\ pc \in UnderLock /\ pc \in StepsOf(cmd[p].kind)
        /\ cmd[p].kind = "delete" => pc = "tx"
    BY <1>1, <2>1 DEF AfterPreflight, UnderLock, StepsOf, Writers
  <2>3. PICK c : c = [cmd[p] EXCEPT !.pc = pc]
    OBVIOUS
  <2>4. /\ c \in Command /\ c.pc = pc /\ c.t = cmd[p].t
        /\ c.kind = cmd[p].kind /\ c.batch = cmd[p].batch /\ c.n = cmd[p].n
    BY <1>1, <2>2, <2>3 DEF Command
  <2>5. cmd' = [cmd EXCEPT ![p] = c]
    BY <1>3, <2>1, <2>3 DEF Goto, Kind
  <2>6. c.kind = "delete" => c.pc \notin AfterDeleteTx
    BY <2>2, <2>4 DEF AfterDeleteTx
  <2> QED
    BY <1>0, <1>1, <2>2, <2>4, <2>5, <2>6, ListStepKeeps
<1> QED
  BY <1>2, <1>3 DEF Preflight

LEMMA ReadEntriesKeeps ==
    ASSUME IInv, NEW p \in Procs, ReadEntries(p)
    PROVE  IInv'
<1>0. /\ cmd[p].pc = "entries" /\ cmd[p].pc \in UnderLock /\ cmd[p].pc \in AfterDeleteTx
      /\ UNCHANGED <<page, records, lists, lock, ops, behind>>
  BY DEF ReadEntries, At, UnderLock, AfterDeleteTx
<1>1. /\ lock = p /\ cmd[p] \in Command /\ Shape(cmd[p])
      /\ cmd[p].kind \in {"delete", "indexAdd", "indexRemove"}
      /\ index' \in SUBSET Pages /\ log' \in SUBSET Ops /\ index' = index
  BY <1>0, UnderLockFacts, KindsAt, TypesOfState DEF lists
<1>2. CASE ListFails(p, "entriesLog")
  BY <1>0, <1>2, ListFailsKeeps
<1>3. CASE cmd' = [cmd EXCEPT ![p].pc = "entry", ![p].entries = index]
  <2>1. PICK c : c = [cmd[p] EXCEPT !.pc = "entry", !.entries = index]
    OBVIOUS
  <2>2. /\ c \in Command /\ c.pc = "entry" /\ c.t = cmd[p].t /\ c.entries = index'
        /\ c.kind = cmd[p].kind /\ c.batch = cmd[p].batch /\ c.n = cmd[p].n
    BY <1>1, <2>1 DEF Command, UnderLock
  <2>3. cmd' = [cmd EXCEPT ![p] = c]
    BY <1>3, <2>1
  <2>4. c.pc \in UnderLock /\ c.pc \in AfterDeleteTx /\ c.pc \in StepsOf(c.kind)
    BY <1>1, <2>2 DEF UnderLock, AfterDeleteTx, StepsOf, Writers
  <2>5. Dirty(cmd[p]) => c.kind = "delete"
    BY <1>1, <2>2 DEF Dirty, PageKinds
  <2> QED
    BY <1>0, <1>1, <2>2, <2>3, <2>4, <2>5, ListStepKeeps
<1> QED
  BY <1>2, <1>3 DEF ReadEntries

LEMMA WriteEntriesKeeps ==
    ASSUME IInv, NEW p \in Procs, WriteEntries(p)
    PROVE  IInv'
<1>0. /\ cmd[p].pc = "entry" /\ cmd[p].pc \in UnderLock /\ cmd[p].pc \in AfterDeleteTx
      /\ UNCHANGED <<page, records, log, lock, ops, behind>>
  BY DEF WriteEntries, At, UnderLock, AfterDeleteTx
<1>1. /\ lock = p /\ cmd[p] \in Command /\ Shape(cmd[p]) /\ cmd[p].t \in Pages
      /\ cmd[p].kind \in {"delete", "indexAdd", "indexRemove"}
      /\ log' \in SUBSET Ops
  BY <1>0, UnderLockFacts, KindsAt, TypesOfState
<1>2. CASE ListFails(p, "entriesLog") /\ UNCHANGED index
  BY <1>0, <1>2, ListFailsKeeps DEF lists
<1>3. CASE /\ index' = NewEntries(cmd[p])
           /\ cmd' = [cmd EXCEPT ![p].pc = IF Kind(p) = "delete" THEN "entriesLog" ELSE "commit",
                                 ![p].entries = {}]
  <2>1. PICK pc \in {"entriesLog", "commit"} :
           pc = IF cmd[p].kind = "delete" THEN "entriesLog" ELSE "commit"
    OBVIOUS
  <2>2. PICK c : c = [cmd[p] EXCEPT !.pc = pc, !.entries = {}]
    OBVIOUS
  <2>3. /\ c \in Command /\ c.pc = pc /\ c.t = cmd[p].t
        /\ c.kind = cmd[p].kind /\ c.batch = cmd[p].batch /\ c.n = cmd[p].n
    BY <1>1, <2>1, <2>2, ZenonT(30) DEF Command, UnderLock
  <2>4. cmd' = [cmd EXCEPT ![p] = c]
    BY <1>3, <2>1, <2>2 DEF Kind
  <2>5. /\ c.pc \in UnderLock /\ c.pc \in StepsOf(c.kind)
        /\ c.pc \in AfterDeleteTx <=> c.kind = "delete"
    BY <1>1, <2>1, <2>3 DEF UnderLock, AfterDeleteTx, StepsOf, Writers
  <2>6. index' \in SUBSET Pages
    BY <1>1, <1>3 DEF NewEntries, Command
  <2>7. Dirty(cmd[p]) => c.kind = "delete"
    BY <1>1, <2>3 DEF Dirty, PageKinds
  <2>8. c.pc = "commit" => c.kind \in ListKinds \ {"rebuild"}
    BY <1>1, <2>1, <2>3 DEF ListKinds
  <2> QED
    BY <1>0, <1>1, <2>1, <2>3, <2>4, <2>5, <2>6, <2>7, <2>8, ListStepKeeps
<1> QED
  BY <1>2, <1>3 DEF WriteEntries

LEMMA ReadLogKeeps ==
    ASSUME IInv, NEW p \in Procs, ReadLog(p)
    PROVE  IInv'
<1>0. /\ cmd[p].pc = "entriesLog" /\ cmd[p].pc \in UnderLock /\ cmd[p].pc \in AfterDeleteTx
      /\ UNCHANGED <<page, records, lists, lock, ops, behind>>
  BY DEF ReadLog, At, UnderLock, AfterDeleteTx
<1>1. /\ lock = p /\ cmd[p] \in Command /\ Shape(cmd[p])
      /\ cmd[p].kind \in {"delete", "logAppend"}
      /\ index' \in SUBSET Pages /\ log' \in SUBSET Ops /\ log' = log
  BY <1>0, UnderLockFacts, KindsAt, TypesOfState DEF lists
<1>2. CASE ListFails(p, "remove")
  BY <1>0, <1>2, ListFailsKeeps
<1>3. CASE cmd' = [cmd EXCEPT ![p].pc = "entryLog", ![p].logged = log]
  <2>1. PICK c : c = [cmd[p] EXCEPT !.pc = "entryLog", !.logged = log]
    OBVIOUS
  <2>2. /\ c \in Command /\ c.pc = "entryLog" /\ c.t = cmd[p].t /\ c.logged = log'
        /\ c.kind = cmd[p].kind /\ c.batch = cmd[p].batch /\ c.n = cmd[p].n
    BY <1>1, <2>1 DEF Command, UnderLock
  <2>3. cmd' = [cmd EXCEPT ![p] = c]
    BY <1>3, <2>1
  <2>4. c.pc \in UnderLock /\ c.pc \in AfterDeleteTx /\ c.pc \in StepsOf(c.kind)
    BY <1>1, <2>2 DEF UnderLock, AfterDeleteTx, StepsOf, Writers
  <2>5. Dirty(cmd[p]) => c.kind = "delete"
    BY <1>1, <2>2 DEF Dirty, PageKinds
  <2> QED
    BY <1>0, <1>1, <2>2, <2>3, <2>4, <2>5, ListStepKeeps
<1> QED
  BY <1>2, <1>3 DEF ReadLog

LEMMA WriteLogKeeps ==
    ASSUME IInv, NEW p \in Procs, WriteLog(p)
    PROVE  IInv'
<1>0. /\ cmd[p].pc = "entryLog" /\ cmd[p].pc \in UnderLock /\ cmd[p].pc \in AfterDeleteTx
      /\ UNCHANGED <<page, records, index, lock, ops, behind>>
  BY DEF WriteLog, At, UnderLock, AfterDeleteTx
<1>1. /\ lock = p /\ cmd[p] \in Command /\ Shape(cmd[p]) /\ cmd[p].n \in Ops
      /\ cmd[p].kind \in {"delete", "logAppend"}
      /\ index' \in SUBSET Pages
  BY <1>0, UnderLockFacts, KindsAt, TypesOfState
<1>2. CASE ListFails(p, "remove") /\ UNCHANGED log
  BY <1>0, <1>2, ListFailsKeeps DEF lists
<1>3. CASE /\ log' = cmd[p].logged \cup {cmd[p].n}
           /\ cmd' = [cmd EXCEPT ![p].pc = IF Kind(p) = "delete" THEN "remove" ELSE "commit",
                                 ![p].logged = {}]
  <2>1. PICK pc \in {"remove", "commit"} :
           pc = IF cmd[p].kind = "delete" THEN "remove" ELSE "commit"
    OBVIOUS
  <2>2. PICK c : c = [cmd[p] EXCEPT !.pc = pc, !.logged = {}]
    OBVIOUS
  <2>3. /\ c \in Command /\ c.pc = pc /\ c.t = cmd[p].t
        /\ c.kind = cmd[p].kind /\ c.batch = cmd[p].batch /\ c.n = cmd[p].n
    BY <1>1, <2>1, <2>2, ZenonT(30) DEF Command, UnderLock
  <2>4. cmd' = [cmd EXCEPT ![p] = c]
    BY <1>3, <2>1, <2>2 DEF Kind
  <2>5. /\ c.pc \in UnderLock /\ c.pc \in StepsOf(c.kind)
        /\ c.pc \in AfterDeleteTx <=> c.kind = "delete"
    BY <1>1, <2>1, <2>3 DEF UnderLock, AfterDeleteTx, StepsOf, Writers
  <2>6. log' \in SUBSET Ops
    BY <1>1, <1>3 DEF Command
  <2>7. Dirty(cmd[p]) => c.kind = "delete"
    BY <1>1, <2>3 DEF Dirty, PageKinds
  <2>8. c.pc = "commit" => c.kind \in ListKinds \ {"rebuild"}
    BY <1>1, <2>1, <2>3 DEF ListKinds
  <2> QED
    BY <1>0, <1>1, <2>1, <2>3, <2>4, <2>5, <2>6, <2>7, <2>8, ListStepKeeps
<1> QED
  BY <1>2, <1>3 DEF WriteLog

LEMMA RebuildSearchKeeps ==
    ASSUME IInv, NEW p \in Procs, RebuildSearch(p)
    PROVE  IInv'
<1>0. /\ cmd[p].pc = "searchTx" /\ cmd[p].pc \in UnderLock
      /\ UNCHANGED <<page, graph, index, log, lock, ops, behind>>
  BY DEF RebuildSearch, At, UnderLock, lists
<1>1. /\ lock = p /\ cmd[p] \in Command /\ Shape(cmd[p]) /\ cmd[p].kind = "rebuild"
      /\ cmd[p].n \in Ops /\ ~Dirty(cmd[p])
  BY <1>0, UnderLockFacts, KindsAt DEF Dirty, PageKinds
<1>2. CASE End(p, "failed") /\ UNCHANGED search
  BY <1>0, <1>1, <1>2, EndKeeps DEF records, lists
<1>3. CASE DbFree /\ search' = page /\ Goto(p, "rewrite")
  <2>1. PICK c : c = [cmd[p] EXCEPT !.pc = "rewrite"]
    OBVIOUS
  <2>2. /\ c \in Command /\ c.pc = "rewrite" /\ c.t = cmd[p].t
        /\ c.kind = "rebuild" /\ c.batch = cmd[p].batch /\ c.n = cmd[p].n
    BY <1>1, <2>1 DEF Command, UnderLock
  <2>3. cmd' = [cmd EXCEPT ![p] = c] /\ c.pc \in UnderLock
    BY <1>3, <2>1, <2>2 DEF Goto, UnderLock
  <2>4. Shape(c) /\ \A t \in Pages : ~ReadByLint(c, t) /\ ~Cleared(c, t)
    BY <1>1, <2>2 DEF Shape, StepsOf, Writers, ReadByLint, Cleared
  <2>5. Knows(c)' /\ NoPhantomHits'
    BY <1>0, <1>3, <2>2 DEF Knows, AfterDeleteTx, NoPhantomHits
  <2>6. \A t \in Pages : Same(p, c, t)
    BY <1>0, <1>1, <1>3, <2>4 DEF Same
  <2>7. search' \in [Pages -> Page \cup {Absent}]
    BY <1>3, TypesOfState
  <2> QED
    BY <1>0, <1>1, <1>3, <2>2, <2>3, <2>4, <2>5, <2>6, <2>7, TypesOfState, StepKeeps
<1> QED
  BY <1>2, <1>3 DEF RebuildSearch

LEMMA RewriteIndexKeeps ==
    ASSUME IInv, NEW p \in Procs, RewriteIndex(p)
    PROVE  IInv'
<1>0. /\ cmd[p].pc = "rewrite" /\ cmd[p].pc \in UnderLock
      /\ UNCHANGED <<page, records, log, lock, ops, behind>>
  BY DEF RewriteIndex, At, UnderLock
<1>1. /\ lock = p /\ cmd[p] \in Command /\ Shape(cmd[p]) /\ Knows(cmd[p])
      /\ cmd[p].kind = "rebuild" /\ cmd[p].n \in Ops /\ ~Dirty(cmd[p])
  BY <1>0, UnderLockFacts, KindsAt DEF Dirty, PageKinds
<1>2. CASE End(p, "failed") /\ UNCHANGED index
  BY <1>0, <1>1, <1>2, EndKeeps DEF lists
<1>3. CASE index' = {t \in Pages : page[t] # Absent} /\ Goto(p, "graphTx")
  <2>1. PICK c : c = [cmd[p] EXCEPT !.pc = "graphTx"]
    OBVIOUS
  <2>2. /\ c \in Command /\ c.pc = "graphTx" /\ c.t = cmd[p].t
        /\ c.kind = "rebuild" /\ c.batch = cmd[p].batch /\ c.n = cmd[p].n
    BY <1>1, <2>1 DEF Command, UnderLock
  <2>3. cmd' = [cmd EXCEPT ![p] = c] /\ c.pc \in UnderLock
    BY <1>3, <2>1, <2>2 DEF Goto, UnderLock
  <2>4. Shape(c) /\ \A t \in Pages : ~Cleared(c, t)
    BY <1>1, <2>2 DEF Shape, StepsOf, Writers, Cleared
  <2>5. Knows(c)'
    BY <1>0, <1>1, <2>2 DEF Knows, AfterDeleteTx, records
  <2>6. index' \in SUBSET Pages /\ log' \in SUBSET Ops
    BY <1>0, <1>3, TypesOfState
  <2> QED
    BY <1>0, <1>1, <2>2, <2>3, <2>4, <2>5, <2>6, HeldKeeps
<1> QED
  BY <1>2, <1>3 DEF RewriteIndex

LEMMA RebuildGraphKeeps ==
    ASSUME IInv, NEW p \in Procs, RebuildGraph(p)
    PROVE  IInv'
<1>0. /\ cmd[p].pc = "graphTx" /\ cmd[p].pc \in UnderLock
      /\ UNCHANGED <<page, search, index, log, lock, ops, behind>>
  BY DEF RebuildGraph, At, UnderLock, lists
<1>1. /\ lock = p /\ cmd[p] \in Command /\ Shape(cmd[p]) /\ Knows(cmd[p])
      /\ cmd[p].kind = "rebuild" /\ cmd[p].n \in Ops /\ ~Dirty(cmd[p])
  BY <1>0, UnderLockFacts, KindsAt DEF Dirty, PageKinds
<1>2. CASE End(p, "failed") /\ UNCHANGED graph
  BY <1>0, <1>1, <1>2, EndKeeps DEF records, lists
<1>3. CASE DbFree /\ graph' = page /\ (Goto(p, "commit") \/ End(p, "ok"))
  <2>1. PICK pc \in {"commit", "end"}, r \in {cmd[p].result, "ok"} :
           cmd' = [cmd EXCEPT ![p] = [cmd[p] EXCEPT !.pc = pc, !.result = r]]
    <3>2. CASE Goto(p, "commit")
      <4>1. [cmd[p] EXCEPT !.pc = "commit"] = [cmd[p] EXCEPT !.pc = "commit", !.result = cmd[p].result]
        BY <1>1 DEF Command
      <4> QED
        BY <3>2, <4>1 DEF Goto
    <3>3. CASE End(p, "ok")
      BY <3>3 DEF End
    <3> QED
      BY <1>3, <3>2, <3>3
  <2>2. PICK c : c = [cmd[p] EXCEPT !.pc = pc, !.result = r]
    OBVIOUS
  <2>3. /\ c \in Command /\ c.pc = pc /\ c.t = cmd[p].t
        /\ c.kind = "rebuild" /\ c.batch = cmd[p].batch /\ c.n = cmd[p].n
    BY <1>1, <2>1, <2>2 DEF Command, UnderLock
  <2>4. cmd' = [cmd EXCEPT ![p] = c] /\ c.pc \in UnderLock
    BY <2>1, <2>2, <2>3 DEF UnderLock
  <2>5. Shape(c)
    BY <1>0, <1>1, <2>1, <2>3 DEF Shape, StepsOf, Writers
  <2>6. Knows(c)' /\ NoPhantomHits'
    BY <1>0, <2>1, <2>3, TypesOfState DEF Knows, AfterDeleteTx, NoPhantomHits
  <2>7. ASSUME NEW t \in Pages PROVE Agrees(t)'
    <3>1. search[t] = page[t]
      BY <1>0, <1>1 DEF Knows
    <3>2. \A q \in Procs : cmd'[q].pc # "lintRead"
      BY <1>3, <2>1, <2>3, <2>4 DEF IInv, TypeOK, DbFree, At
    <3> QED
      BY <3>1, <3>2, <1>0, <1>3 DEF Agrees, ReadByLint
  <2>8. graph' \in [Pages -> Page \cup {Absent}]
    BY <1>3, TypesOfState
  <2> QED
    BY <1>0, <1>1, <2>3, <2>4, <2>5, <2>6, <2>7, <2>8, TypesOfState, StepKeeps
<1> QED
  BY <1>2, <1>3 DEF RebuildGraph

-----------------------------------------------------------------------------
(* The end of a lint, of a command and of a process.                       *)

LEMMA LintCommitKeeps ==
    ASSUME IInv, NEW p \in Procs, LintCommit(p)
    PROVE  IInv'
<1>0. /\ cmd[p].pc = "lintRead" /\ cmd[p].scan = {} /\ cmd[p].pc \notin UnderLock
      /\ UNCHANGED <<page, search, index, log, lock, ops, behind>>
      /\ cmd[p] \in Command
  BY HoldsLock DEF LintCommit, At, UnderLock, lists
<1>1. graph' = [t \in Pages |-> IF cmd[p].rows[t] # Absent THEN cmd[p].rows[t] ELSE graph[t]]
  BY DEF LintCommit
<1>2. graph' \in [Pages -> Page \cup {Absent}]
  BY <1>0, <1>1, TypesOfState DEF Command
<1>3. PICK c : c = IdleCmd /\ c \in Command /\ Shape(c) /\ c.pc = "idle"
  BY IdleType
<1>4. cmd' = [cmd EXCEPT ![p] = c] /\ c.pc \notin UnderLock
  BY <1>3 DEF LintCommit, UnderLock
<1>5. Knows(c)' /\ ~Dirty(cmd[p]) /\ \A t : ~Cleared(c, t) /\ ~ReadByLint(c, t)
  <2>1. Knows(c)' /\ \A t : ~ReadByLint(c, t)
    BY <1>3 DEF Knows, AfterDeleteTx, ReadByLint
  <2> QED
    BY <1>0, <1>4, <2>1, OthersKnowNothing
<1>6. ASSUME NEW t \in Pages PROVE Same(p, c, t)
  <2>1. graph'[t] \in {graph[t], page[t]} \/ page[t] = Absent \/ ~Agrees(t)
    <3> SUFFICES ASSUME Agrees(t), page[t] # Absent PROVE graph'[t] \in {graph[t], page[t]}
      OBVIOUS
    <3>1. ReadByLint(cmd[p], t)
      BY <1>0 DEF ReadByLint
    <3>2. cmd[p].rows[t] = page[t]
      BY <3>1 DEF Agrees
    <3> QED
      BY <3>2, <1>1
  <2> QED
    BY <2>1, <1>0, <1>5 DEF Same
<1>7. NoPhantomHits' /\ (c.pc \in UnderLock <=> lock' = p)
  BY <1>0, <1>4, HoldsLock, TypesOfState DEF NoPhantomHits
<1> QED
  BY <1>0, <1>2, <1>3, <1>4, <1>5, <1>6, <1>7, TypesOfState, StepKeeps

\* A process that lets go of the store lock, or never had it.
LEMMA LetsGo ==
    ASSUME IInv, NEW p \in Procs, NEW c \in Command,
           cmd' = [cmd EXCEPT ![p] = c], c.pc \in {"idle", "next"}, Shape(c),
           UNCHANGED <<page, records, lists, ops>>,
           lock' = IF lock = p THEN NoOne ELSE lock,
           behind' \in SUBSET Pages,
           \A t \in Pages :
              \/ (t \in behind' <=> t \in behind) /\ ~(Dirty(cmd[p]) /\ cmd[p].t = t)
              \/ lock = p /\ t \in behind'
              \/ Agrees(t)
    PROVE  IInv'
<1>1. c.pc \notin UnderLock /\ c.pc # "lintRead"
  BY DEF UnderLock
<1>2. /\ UNCHANGED <<page, search, graph, index, log, ops>>
      /\ lock' \in Procs \cup {NoOne} /\ ~(lock' = p)
      /\ \A q \in Procs \ {p} : lock' = q <=> lock = q
  BY TypesOfState, PageStoreAssumption DEF records, lists
<1>3. Knows(c)' /\ NoPhantomHits'
  BY <1>2, TypesOfState DEF Knows, AfterDeleteTx, NoPhantomHits
<1>4. \A t : ~Cleared(c, t) /\ ~ReadByLint(c, t)
  BY <1>1, OthersKnowNothing DEF ReadByLint
<1>5. cmd'[p] = c /\ \A q \in Procs \ {p} : cmd'[q] = cmd[q]
  BY DEF IInv, TypeOK
<1>6. ASSUME NEW t \in Pages PROVE Same(p, c, t) \/ Loose(t)' \/ Agrees(t)'
  <2>1. CASE (t \in behind' <=> t \in behind) /\ ~(Dirty(cmd[p]) /\ cmd[p].t = t)
    BY <2>1, <1>2, <1>4 DEF Same
  <2>2. CASE lock = p /\ t \in behind'
    <3>1. \A q \in Procs \ {p} : cmd[q].pc \notin UnderLock
      BY <2>2, HoldsLock
    <3>2. \A q \in Procs : ~Cleared(cmd'[q], t)
      BY <3>1, <1>4, <1>5, OthersKnowNothing
    <3> QED
      BY <2>2, <3>2 DEF Loose, Cleared
  <2>3. CASE Agrees(t)
    <3>1. ASSUME NEW q \in Procs, ReadByLint(cmd'[q], t), page[t] # Absent
          PROVE  cmd'[q].rows[t] = page[t]
      BY <2>3, <3>1, <1>4, <1>5 DEF Agrees
    <3> QED
      BY <2>3, <3>1, <1>2 DEF Agrees, ReadByLint
  <2> QED
    BY <2>1, <2>2, <2>3
<1> QED
  BY <1>1, <1>2, <1>3, <1>6, TypesOfState, StepKeeps

LEMMA CrashKeeps ==
    ASSUME IInv, NEW p \in Procs, Crash(p)
    PROVE  IInv'
<1>0. /\ UNCHANGED <<page, records, lists, ops>>
      /\ lock' = IF lock = p THEN NoOne ELSE lock
      /\ cmd[p] \in Command /\ cmd[p].t \in Pages
      /\ cmd[p].pc \in UnderLock <=> lock = p
  BY HoldsLock DEF Crash, Command
<1>1. PICK c : c = IdleCmd /\ c \in Command /\ Shape(c) /\ c.pc = "idle"
  BY IdleType
<1>2. cmd' = [cmd EXCEPT ![p] = c]
  BY <1>1 DEF Crash
<1>3. CASE cmd[p].pc \in UnderLock /\ cmd[p].kind \in PageKinds
  <2>1. behind' = behind \cup {cmd[p].t} /\ behind' \in SUBSET Pages
    BY <1>0, <1>3, TypesOfState DEF Crash, Kind, T
  <2> QED
    BY <1>0, <1>1, <1>2, <1>3, <2>1, LetsGo
<1>4. CASE ~(cmd[p].pc \in UnderLock /\ cmd[p].kind \in PageKinds)
  <2>1. behind' = behind /\ behind' \in SUBSET Pages
    BY <1>4, TypesOfState DEF Crash, Kind
  <2>2. ~Dirty(cmd[p])
    BY <1>4, OthersKnowNothing DEF Dirty
  <2> QED
    BY <1>0, <1>1, <1>2, <2>1, <2>2, LetsGo
<1> QED
  BY <1>3, <1>4

LEMMA ReleaseKeeps ==
    ASSUME IInv, NEW p \in Procs, Release(p)
    PROVE  IInv'
<1>0. /\ cmd[p].pc = "end" /\ cmd[p].pc \in UnderLock
      /\ UNCHANGED <<page, records, lists, ops>>
      /\ lock' = NoOne /\ behind' = BehindAfter(cmd[p])
  BY DEF Release, At, UnderLock
<1>1. /\ lock = p /\ cmd[p] \in Command /\ Shape(cmd[p])
      /\ cmd[p].n \in Ops /\ cmd[p].t \in Pages /\ cmd[p].kind \in PageKinds \cup ListKinds
      /\ \A q \in Procs \ {p} : cmd[q].pc \notin UnderLock
  BY <1>0, UnderLockFacts, KindsAt
<1>2. PICK c \in Command : /\ cmd' = [cmd EXCEPT ![p] = c]
                           /\ c.pc \in {"idle", "next"} /\ Shape(c)
  <2>1. CASE BatchGoesOn(cmd[p])
    <3>1. cmd[p].batch /\ cmd[p].kind \in {"approve", "delete"}
      BY <1>1, <2>1 DEF BatchGoesOn, Shape
    <3>2. PICK c : c = [IdleCmd EXCEPT !.pc = "next", !.kind = cmd[p].kind, !.n = cmd[p].n,
                                 !.batch = TRUE, !.todo = cmd[p].todo]
      OBVIOUS
    <3>3. c \in Command /\ c.pc = "next" /\ c.kind = cmd[p].kind /\ c.n = cmd[p].n
      <4>1. cmd[p].todo \in SUBSET Pages /\ cmd[p].n \in 0 .. MaxOps
        BY <1>1 DEF Command
      <4>2. /\ c = [IdleCmd EXCEPT !.pc = c.pc, !.kind = c.kind, !.n = c.n,
                                   !.batch = c.batch, !.todo = c.todo]
            /\ c.pc = "next" /\ c.kind = cmd[p].kind /\ c.n = cmd[p].n
            /\ c.batch = TRUE /\ c.todo = cmd[p].todo
        BY <3>2 DEF IdleCmd
      <4> QED
        BY <1>1, <4>1, <4>2, IdleType DEF Command, Unlocked
    <3>4. Shape(c)
      BY <1>1, <3>1, <3>3 DEF Shape, StepsOf, Writers
    <3>5. cmd' = [cmd EXCEPT ![p] = c]
      BY <2>1, <3>2 DEF Release, Kind
    <3> QED
      BY <3>3, <3>4, <3>5
  <2>2. CASE ~BatchGoesOn(cmd[p])
    BY <2>2, IdleType DEF Release
  <2> QED
    BY <2>1, <2>2
<1>3. ASSUME NEW t \in Pages, \A q \in Procs : ~(Dirty(cmd[q]) /\ cmd[q].t = t),
             Cleared(cmd[p], t)
      PROVE  Agrees(t)
  BY <1>3 DEF IInv, Loose
<1>4. \A q \in Procs \ {p} : ~Dirty(cmd[q])
  BY <1>1, OthersKnowNothing
<1>5. CASE cmd[p].result = "ok" /\ cmd[p].kind = "rebuild"
  <2>1. behind' = {} /\ ~Dirty(cmd[p])
    BY <1>0, <1>5 DEF BehindAfter, Dirty, PageKinds
  <2>2. \A t \in Pages : Cleared(cmd[p], t)
    BY <1>0, <1>5 DEF Cleared
  <2>3. \A t \in Pages : Agrees(t)
    BY <1>3, <1>4, <2>1, <2>2
  <2> QED
    BY <1>0, <1>1, <1>2, <2>1, <2>3, LetsGo
<1>6. CASE cmd[p].result = "ok" /\ cmd[p].kind \in PageKinds
  <2>1. behind' = behind \ {cmd[p].t} /\ behind' \in SUBSET Pages
    BY <1>0, <1>6, TypesOfState DEF BehindAfter, PageKinds
  <2>2. ~Dirty(cmd[p]) /\ Cleared(cmd[p], cmd[p].t)
    BY <1>0, <1>6 DEF Dirty, Cleared, AfterDeleteTx
  <2>3. Agrees(cmd[p].t)
    BY <1>1, <1>3, <1>4, <2>2
  <2> QED
    BY <1>0, <1>1, <1>2, <2>1, <2>2, <2>3, LetsGo
<1>7. CASE cmd[p].result = "failed" /\ cmd[p].kind \in PageKinds
  <2>1. behind' = behind \cup {cmd[p].t} /\ behind' \in SUBSET Pages
    BY <1>0, <1>1, <1>7, TypesOfState DEF BehindAfter
  <2> QED
    BY <1>0, <1>1, <1>2, <1>7, <2>1, LetsGo
<1>8. CASE /\ ~(cmd[p].result = "ok" /\ cmd[p].kind \in PageKinds \cup {"rebuild"})
           /\ ~(cmd[p].result = "failed" /\ cmd[p].kind \in PageKinds)
  <2>1. behind' = behind /\ behind' \in SUBSET Pages
    BY <1>0, <1>8, TypesOfState DEF BehindAfter
  <2>2. ~Dirty(cmd[p])
    BY <1>0, <1>8 DEF Dirty, AfterDeleteTx
  <2> QED
    BY <1>0, <1>1, <1>2, <2>1, <2>2, LetsGo
<1> QED
  BY <1>5, <1>6, <1>7, <1>8

-----------------------------------------------------------------------------
(* The invariant of every behaviour, and what follows from it.             *)

LEMMA NextKeeps == IInv /\ [Next]_vars => IInv'
<1> SUFFICES ASSUME IInv, [Next]_vars PROVE IInv'
  OBVIOUS
<1>1. CASE UNCHANGED vars
  <2>1. UNCHANGED <<page, search, graph, index, log, lock, cmd, ops, behind>>
    BY <1>1 DEF vars, records, lists
  <2> QED
    BY <2>1 DEF IInv, TypeOK, Shape, Knows, NoPhantomHits, Loose, Agrees, Dirty, Cleared, ReadByLint
<1>2. CASE Next
  <2>1. PICK p \in Procs : ProcStep(p)
    BY <1>2 DEF Next
  <2> QED
    BY <2>1, StartKeeps, CollectKeeps, NextItemKeeps, CheckKeeps, LockKeeps, ReadKeeps, PutKeeps,
       CommitKeeps, TxKeeps, RemoveKeeps, PreflightKeeps, ReadEntriesKeeps, WriteEntriesKeeps,
       ReadLogKeeps, WriteLogKeeps, RebuildSearchKeeps, RewriteIndexKeeps, RebuildGraphKeeps,
       LintBeginKeeps, LintReadKeeps, LintCommitKeeps, ReleaseKeeps, CrashKeeps
       DEF ProcStep
<1> QED
  BY <1>1, <1>2

\* The invariant the other theorems rest on.
THEOREM PageStoreInvariant == Spec => []IInv
BY InitIInv, NextKeeps, PTL DEF Spec

\* Every variable keeps its type, and a process is under the store lock exactly
\* while it holds it, whatever fails or dies.
THEOREM PageStoreType == Spec => []TypeOK
<1>1. IInv => TypeOK
  BY DEF IInv
<1> QED
  BY <1>1, PageStoreInvariant, PTL

\* A search never finds a page that has no file.
THEOREM NeverPhantomHits == Spec => []NoPhantomHits
<1>1. IInv => NoPhantomHits
  BY DEF IInv
<1> QED
  BY <1>1, PageStoreInvariant, PTL

\* Outside of the store lock, the records of a page that no failed or killed
\* command left behind are those of its file.
THEOREM RecordsAlwaysAgree == Spec => []RecordsAgree
<1>1. IInv => RecordsAgree
  <2> SUFFICES ASSUME IInv, lock = NoOne, NEW t \in Pages \ behind PROVE Agrees(t)
    BY DEF RecordsAgree, Agrees
  <2>1. \A p \in Procs : ~Dirty(cmd[p])
    <3> SUFFICES ASSUME NEW p \in Procs PROVE ~Dirty(cmd[p])
      OBVIOUS
    <3>1. cmd[p].pc \notin UnderLock
      BY PageStoreAssumption, HoldsLock
    <3> QED
      BY <3>1, OthersKnowNothing
  <2> QED
    BY <2>1 DEF IInv, Loose
<1> QED
  BY <1>1, PageStoreInvariant, PTL

-----------------------------------------------------------------------------
(* What a step may never do.                                               *)

\* A step changes the command of its own process only.
LEMMA OwnCommand ==
    ASSUME IInv, NEW p \in Procs, ProcStep(p), NEW q \in Procs \ {p}
    PROVE  cmd'[q] = cmd[q]
<1> USE DEF IInv, TypeOK
<1>1. CASE Start(p)
  BY <1>1 DEF Start
<1>2. CASE Collect(p) \/ NextItem(p) \/ Check(p) \/ Lock(p)
  BY <1>2 DEF Collect, NextItem, Check, Lock, Goto
<1>3. CASE Read(p) \/ Put(p) \/ Commit(p) \/ Tx(p) \/ Remove(p)
  BY <1>3 DEF Read, Put, Commit, Tx, Remove, Goto, End
<1>4. CASE Preflight(p) \/ ReadEntries(p) \/ WriteEntries(p) \/ ReadLog(p) \/ WriteLog(p)
  BY <1>4 DEF Preflight, ReadEntries, WriteEntries, ReadLog, WriteLog, ListFails, Goto, End
<1>5. CASE RebuildSearch(p) \/ RewriteIndex(p) \/ RebuildGraph(p)
  BY <1>5 DEF RebuildSearch, RewriteIndex, RebuildGraph, Goto, End
<1>6. CASE LintBegin(p) \/ LintRead(p) \/ LintCommit(p) \/ Release(p) \/ Crash(p)
  BY <1>6 DEF LintBegin, LintRead, LintCommit, Release, Crash
<1> QED
  BY <1>1, <1>2, <1>3, <1>4, <1>5, <1>6 DEF ProcStep

\* Only Put and Remove change a page.
LEMMA PageChangers ==
    ASSUME NEW p \in Procs, ProcStep(p), page' # page
    PROVE  Put(p) \/ Remove(p)
BY DEF ProcStep, Start, Collect, NextItem, Check, Lock, Read, Commit, Tx, Preflight,
       ReadEntries, WriteEntries, ReadLog, WriteLog, RebuildSearch, RewriteIndex,
       RebuildGraph, LintBegin, LintRead, LintCommit, Release, Crash

\* What Put makes of the page it read.
LEMMA PutFacts ==
    ASSUME IInv, NEW p \in Procs, Put(p)
    PROVE  /\ cmd[p].pc = "put" /\ cmd[p].t \in Pages
           /\ page[cmd[p].t] = cmd[p].seen
           /\ \A t \in Pages \ {cmd[p].t} : page'[t] = page[t]
           /\ page' # page =>
                 \E new \in NewPages(cmd[p]) : page'[cmd[p].t] = new /\ cmd'[p].pc = "commit"
           /\ page' = page => cmd'[p].pc \in {"end", "commit"}
           /\ cmd'[p].pc = "commit" => \E new \in NewPages(cmd[p]) : page'[cmd[p].t] = new
           /\ cmd[p].kind # "write" =>
                 /\ page[cmd[p].t] # Absent /\ page[cmd[p].t].body \in SUBSET Ops
           /\ cmd[p].kind = "approve" => page[cmd[p].t].draft
<1>1. cmd[p].pc = "put" /\ cmd[p].pc \in UnderLock
  BY DEF Put, At, UnderLock
<1>2. cmd[p] \in Command /\ Knows(cmd[p]) /\ cmd[p].t \in Pages
  BY <1>1, UnderLockFacts
<1>3. /\ page[cmd[p].t] = cmd[p].seen
      /\ cmd[p].kind # "write" => page[cmd[p].t] # Absent
      /\ cmd[p].kind = "approve" => page[cmd[p].t].draft
  BY <1>1, <1>2 DEF Knows
<1>4. page[cmd[p].t] # Absent => page[cmd[p].t].body \in SUBSET Ops
  BY <1>2, TypesOfState DEF Page
<1>5. CASE End(p, "refused") /\ UNCHANGED page
  <2>1. cmd'[p].pc = "end"
    BY <1>2, <1>5 DEF End, IInv, TypeOK, Command
  <2> QED
    BY <1>1, <1>2, <1>3, <1>4, <1>5, <2>1
<1>6. CASE /\ \E new \in NewPages(cmd[p]) : page' = [page EXCEPT ![T(p)] = new]
           /\ Goto(p, "commit")
  <2>1. cmd'[p].pc = "commit"
    BY <1>2, <1>6 DEF Goto, IInv, TypeOK, Command
  <2>2. PICK new \in NewPages(cmd[p]) : page' = [page EXCEPT ![cmd[p].t] = new]
    BY <1>6 DEF T
  <2>3. page'[cmd[p].t] = new /\ \A t \in Pages \ {cmd[p].t} : page'[t] = page[t]
    BY <1>2, <2>2, TypesOfState
  <2> QED
    BY <1>1, <1>2, <1>3, <1>4, <2>1, <2>3
<1> QED
  BY <1>5, <1>6 DEF Put

\* No update is lost: what a command replaces is the page it read and validated.
THEOREM NeverStaleWrite == Spec => NoStaleWrite
<1>1. IInv /\ [Next]_vars =>
        [\A p \in Procs, t \in Pages : Changes(p, t) /\ page'[t] # Absent =>
          /\ page[t] = cmd[p].seen
          /\ Kind(p) # "write" => page[t] # Absent /\ page[t].body \subseteq page'[t].body]_vars
  <2> SUFFICES ASSUME IInv, Next, NEW p \in Procs, NEW t \in Pages,
                      cmd'[p] # cmd[p], page'[t] # page[t], page'[t] # Absent
               PROVE  /\ page[t] = cmd[p].seen
                      /\ cmd[p].kind # "write" =>
                            page[t] # Absent /\ page[t].body \subseteq page'[t].body
    BY DEF Changes, Steps, Kind
  <2>1. ProcStep(p)
    BY OwnCommand DEF Next
  <2>2. Put(p)
    <3>1. Put(p) \/ Remove(p)
      BY <2>1, PageChangers
    <3>2. cmd[p].t \in Pages
      BY HoldsLock DEF Command
    <3>3. Remove(p) => page' = page \/ page' = [page EXCEPT ![cmd[p].t] = Absent]
      BY DEF Remove, T
    <3>4. ~Remove(p)
      BY <3>2, <3>3, TypesOfState
    <3> QED
      BY <3>1, <3>4
  <2>3. t = cmd[p].t /\ page[t] = cmd[p].seen
    BY <2>2, PutFacts
  <2>4. PICK new \in NewPages(cmd[p]) : page'[t] = new
    BY <2>2, <2>3, PutFacts
  <2>5. ASSUME cmd[p].kind # "write" PROVE page[t] # Absent /\ page[t].body \subseteq new.body
    <3>1. page[t] # Absent /\ page[t].body \in SUBSET Ops
      BY <2>2, <2>3, <2>5, PutFacts
    <3>2. cmd[p].kind \in Writers
      BY <2>2, HoldsLock, KindsAt, PutFacts
    <3>3. new.body \in {cmd[p].seen.body, cmd[p].seen.body \cup {cmd[p].n}}
      BY <2>4, <2>5, <3>2 DEF NewPages, Writers
    <3> QED
      BY <2>3, <3>1, <3>3
  <2> QED
    BY <2>3, <2>4, <2>5
<1> QED
  BY <1>1, PageStoreInvariant, PTL DEF Spec, NoStaleWrite

\* An approval takes effect on a draft, and keeps its body.
THEOREM AlwaysApprovesDrafts == Spec => ApprovesDraftsOnly
<1>1. IInv /\ [Next]_vars =>
        [\A p \in Procs, t \in Pages : At(p, "put") /\ Kind(p) = "approve" /\ Steps(p)
                                     /\ cmd'[p].pc = "commit" /\ t = T(p) =>
          page[t].draft /\ page'[t].body = page[t].body]_vars
  <2> SUFFICES ASSUME IInv, Next, NEW p \in Procs, cmd[p].pc = "put", cmd[p].kind = "approve",
                      cmd'[p] # cmd[p], cmd'[p].pc = "commit"
               PROVE  page[cmd[p].t].draft /\ page'[cmd[p].t].body = page[cmd[p].t].body
    BY DEF At, Kind, Steps, T
  <2>1. ProcStep(p)
    BY OwnCommand DEF Next
  <2>2. ~Crash(p)
    <3>1. IdleCmd.pc = "idle" /\ (Crash(p) => cmd'[p] = IdleCmd)
      BY IdleType DEF Crash, IInv, TypeOK
    <3> QED
      BY <3>1
  <2>3. Put(p)
    BY <2>1, <2>2 DEF ProcStep, Start, Collect, NextItem, Check, Lock, Read, Commit, Tx, Remove,
       Preflight, ReadEntries, WriteEntries, ReadLog, WriteLog, RebuildSearch, RewriteIndex,
       RebuildGraph, LintBegin, LintRead, LintCommit, Release, At
  <2>4. PICK new \in NewPages(cmd[p]) : page'[cmd[p].t] = new
    BY <2>3, PutFacts
  <2>5. new.body = cmd[p].seen.body
    BY <2>4 DEF NewPages
  <2> QED
    BY <2>3, <2>4, <2>5, PutFacts
<1> QED
  BY <1>1, PageStoreInvariant, PTL DEF Spec, ApprovesDraftsOnly

\* No entry of kb/log.md is lost, and an entry of kb/index.md goes only with its
\* removal or in a rebuild, when the page has no file.
THEOREM NeverLosesEntries == Spec => NoEntryLost
<1>1. IInv /\ [Next]_vars =>
        [/\ log \subseteq log'
         /\ \A t \in index \ index' : \E p \in Procs :
             /\ lock = p
             /\ \/ Kind(p) \in {"delete", "indexRemove"} /\ T(p) = t
                \/ Kind(p) = "rebuild" /\ page[t] = Absent]_vars
  <2> SUFFICES ASSUME IInv, NEW p \in Procs, ProcStep(p)
               PROVE  /\ log \subseteq log'
                      /\ \A t \in index \ index' :
                            /\ lock = p
                            /\ \/ cmd[p].kind \in {"delete", "indexRemove"} /\ cmd[p].t = t
                               \/ cmd[p].kind = "rebuild" /\ page[t] = Absent
    BY DEF Next, Kind, T
  <2>1. index \in SUBSET Pages
    BY TypesOfState
  <2>2. CASE WriteLog(p)
    <3>1. cmd[p].pc = "entryLog" /\ cmd[p].pc \in UnderLock /\ index' = index
      BY <2>2 DEF WriteLog, At, UnderLock
    <3>2. cmd[p].logged = log
      BY <3>1, UnderLockFacts DEF Knows
    <3> QED
      BY <2>2, <3>1, <3>2 DEF WriteLog
  <2>3. CASE WriteEntries(p)
    <3>1. cmd[p].pc = "entry" /\ cmd[p].pc \in UnderLock /\ log' = log
      BY <2>3 DEF WriteEntries, At, UnderLock
    <3>2. /\ cmd[p].entries = index /\ lock = p
          /\ cmd[p].kind \in {"delete", "indexAdd", "indexRemove"}
      BY <3>1, UnderLockFacts, KindsAt DEF Knows
    <3>3. index' = index \/ index' = NewEntries(cmd[p])
      BY <2>3 DEF WriteEntries
    <3> QED
      BY <3>1, <3>2, <3>3 DEF NewEntries
  <2>4. CASE RewriteIndex(p)
    <3>1. cmd[p].pc = "rewrite" /\ cmd[p].pc \in UnderLock /\ log' = log
      BY <2>4 DEF RewriteIndex, At, UnderLock
    <3>2. lock = p /\ cmd[p].kind = "rebuild"
      BY <3>1, UnderLockFacts, KindsAt
    <3>3. index' = index \/ index' = {t \in Pages : page[t] # Absent}
      BY <2>4 DEF RewriteIndex
    <3> QED
      BY <2>1, <3>1, <3>2, <3>3
  <2>5. CASE ~WriteLog(p) /\ ~WriteEntries(p) /\ ~RewriteIndex(p)
    <3>1. log' = log /\ index' = index
      BY <2>5 DEF ProcStep, Start, Collect, NextItem, Check, Lock, Read, Put, Commit, Tx, Remove,
         Preflight, ReadEntries, ReadLog, RebuildSearch, RebuildGraph,
         LintBegin, LintRead, LintCommit, Release, Crash, lists
    <3> QED
      BY <3>1
  <2> QED
    BY <2>2, <2>3, <2>4, <2>5
<1> QED
  BY <1>1, PageStoreInvariant, PTL DEF Spec, NoEntryLost
-----------------------------------------------------------------------------
(* The entries of kb/index.md.                                             *)

\* What a command knows of the entry of its page: an addition has read the page,
\* or one of its name in a type directory, and still finds it, and a deletion that
\* kept the entry has said so.
Lists(c) ==
    /\ c.kind = "indexAdd" /\ c.pc \in {"preflight", "entries", "entry"} =>
          page[c.t] # Absent \/ InTypeDir(c.t)
    /\ c.kind = "delete" /\ c.pc \in {"entriesLog", "entryLog", "remove"} =>
          c.t \notin index \/ c.warned

ListsInv == \A p \in Procs : Lists(cmd[p])

\* Only the holder of the store lock changes a page or an entry.
LEMMA OthersKeepLists ==
    ASSUME IInv, NEW p \in Procs, ProcStep(p), lock # p
    PROVE  page' = page /\ index' = index
<1>1. cmd[p].pc \notin UnderLock
  BY HoldsLock
<1>2. ~Put(p) /\ ~Remove(p) /\ ~WriteEntries(p) /\ ~RewriteIndex(p)
  BY <1>1 DEF Put, Remove, WriteEntries, RewriteIndex, At, UnderLock
<1>3. page' = page
  BY <1>2, PageChangers
<1>4. index' = index
  BY <1>2 DEF ProcStep, Start, Collect, NextItem, Check, Lock, Read, Put, Commit, Tx, Remove,
     Preflight, ReadEntries, ReadLog, WriteLog, RebuildSearch, RebuildGraph,
     LintBegin, LintRead, LintCommit, Release, Crash, lists
<1> QED
  BY <1>3, <1>4

\* A step that leaves the process without the lock, or at its end.
LEMMA LeavesLists ==
    ASSUME NEW p, cmd'[p].pc \notin UnderLock \/ cmd'[p].pc \in {"end", "commit", "put", "read", "tx"}
    PROVE  Lists(cmd[p])'
BY DEF Lists, UnderLock

\* The steps of the holder, up to the entries.
LEMMA PageStepsList ==
    ASSUME IInv, NEW p \in Procs, Lists(cmd[p]),
           \/ Lock(p) \/ Read(p) \/ Put(p) \/ Commit(p) \/ Tx(p) \/ Remove(p) \/ Preflight(p)
           \/ RebuildSearch(p) \/ RewriteIndex(p) \/ RebuildGraph(p)
    PROVE  Lists(cmd[p])'
<1>1. cmd[p] \in Command /\ Shape(cmd[p]) /\ cmd \in [Procs -> Command]
  BY HoldsLock DEF IInv, TypeOK, Command
<1>2. CASE \E r : End(p, r)
  <2>1. cmd'[p].pc = "end"
    BY <1>1, <1>2 DEF End, Command
  <2> QED
    BY <2>1, LeavesLists
<1>3. CASE Lock(p)
  <2>1. Goto(p, AfterLock(cmd[p].kind))
    BY <1>3 DEF Lock, Kind
  <2>2. /\ cmd'[p].kind = cmd[p].kind /\ cmd'[p].pc = AfterLock(cmd[p].kind)
    BY <1>1, <2>1 DEF Goto, Command
  <2> QED
    BY <2>2 DEF AfterLock, Lists
<1>4. CASE Read(p) /\ \A r : ~End(p, r)
  <2>1. /\ cmd[p].kind = "indexAdd" => page[cmd[p].t] # Absent \/ InTypeDir(cmd[p].t)
        /\ page' = page
        /\ cmd' = [cmd EXCEPT ![p].seen = page[cmd[p].t],
                              ![p].pc = IF cmd[p].kind = "indexAdd" THEN "preflight" ELSE "put"]
    BY <1>4 DEF Read, T, Kind, Readable
  <2>2. /\ cmd'[p].kind = cmd[p].kind /\ cmd'[p].t = cmd[p].t
        /\ cmd'[p].pc = IF cmd[p].kind = "indexAdd" THEN "preflight" ELSE "put"
    BY <1>1, <2>1 DEF Command
  <2>3. cmd'[p].kind = "indexAdd" =>
          \/ page'[cmd'[p].t] # Absent
          \/ \E u \in InTypeDirs[cmd'[p].t] : page'[u] # Absent
    BY <2>1, <2>2 DEF InTypeDir
  <2>4. cmd'[p].pc \notin {"entriesLog", "entryLog", "remove"}
    BY <2>2
  <2> QED
    BY <2>3, <2>4 DEF Lists, InTypeDir
<1>5. CASE Put(p) \/ Commit(p) \/ Remove(p) \/ RebuildGraph(p)
  <2>1. (\E r : End(p, r)) \/ Goto(p, "commit") \/ Goto(p, "tx")
    BY <1>5 DEF Put, Commit, Remove, RebuildGraph, AfterCommit
  <2>2. CASE Goto(p, "commit") \/ Goto(p, "tx")
    <3>1. cmd'[p].pc \in {"commit", "tx"}
      BY <1>1, <2>2 DEF Goto, Command
    <3> QED
      BY <3>1, LeavesLists
  <2> QED
    BY <1>2, <2>1, <2>2
<1>6. CASE Tx(p) /\ \A r : ~End(p, r)
  <2>1. Goto(p, "entries") /\ cmd[p].kind = "delete"
    BY <1>6 DEF Tx, Kind
  <2>2. cmd'[p].kind = "delete" /\ cmd'[p].pc = "entries"
    BY <1>1, <2>1 DEF Goto, Command
  <2> QED
    BY <2>2 DEF Lists
<1>7. CASE Preflight(p) /\ \A r : ~End(p, r)
  <2>1. Goto(p, AfterPreflight(cmd[p].kind)) /\ page' = page /\ index' = index /\ cmd[p].pc = "preflight"
    BY <1>7 DEF Preflight, Kind, At, lists
  <2>2. /\ cmd'[p].kind = cmd[p].kind /\ cmd'[p].t = cmd[p].t
        /\ cmd'[p].pc = AfterPreflight(cmd[p].kind)
    BY <1>1, <2>1 DEF Goto, Command
  <2> QED
    BY <2>1, <2>2 DEF Lists, AfterPreflight, InTypeDir
<1>8. CASE (RebuildSearch(p) \/ RewriteIndex(p)) /\ \A r : ~End(p, r)
  <2>1. Goto(p, "rewrite") \/ Goto(p, "graphTx")
    BY <1>8 DEF RebuildSearch, RewriteIndex
  <2>2. cmd'[p].pc \in {"rewrite", "graphTx"}
    BY <1>1, <2>1 DEF Goto, Command
  <2> QED
    BY <2>2 DEF Lists
<1> QED
  BY <1>2, <1>3, <1>4, <1>5, <1>6, <1>7, <1>8

\* A managed file that fails a deletion is warned of.
LEMMA FailsList ==
    ASSUME IInv, NEW p \in Procs, NEW next, ListFails(p, next)
    PROVE  Lists(cmd[p])'
<1>1. cmd[p] \in Command /\ cmd \in [Procs -> Command]
  BY HoldsLock DEF IInv, TypeOK, Command
<1>2. CASE cmd[p].kind = "delete"
  <2>1. cmd' = [cmd EXCEPT ![p].pc = next, ![p].warned = TRUE]
    BY <1>2 DEF ListFails, Kind
  <2>2. cmd'[p].warned = TRUE /\ cmd'[p].kind = "delete"
    BY <1>1, <1>2, <2>1 DEF Command
  <2> QED
    BY <2>2 DEF Lists
<1>3. CASE cmd[p].kind # "delete"
  <2>1. cmd'[p].pc = "end"
    BY <1>1, <1>3 DEF ListFails, Kind, End, Command
  <2> QED
    BY <2>1, LeavesLists
<1> QED
  BY <1>2, <1>3

\* The entries are read and written whole, and the file is removed after them.
LEMMA EntryStepsList ==
    ASSUME IInv, NEW p \in Procs, Lists(cmd[p]),
           ReadEntries(p) \/ WriteEntries(p) \/ ReadLog(p) \/ WriteLog(p)
    PROVE  Lists(cmd[p])'
<1>1. cmd[p] \in Command /\ Shape(cmd[p]) /\ cmd \in [Procs -> Command]
  BY HoldsLock DEF IInv, TypeOK, Command
<1>2. CASE \E next : ListFails(p, next)
  BY <1>2, FailsList
<1>3. CASE ReadEntries(p) /\ \A next : ~ListFails(p, next)
  <2>1. /\ cmd' = [cmd EXCEPT ![p].pc = "entry", ![p].entries = index]
        /\ page' = page /\ cmd[p].pc = "entries"
    BY <1>3 DEF ReadEntries, At
  <2>2. cmd'[p].kind = cmd[p].kind /\ cmd'[p].t = cmd[p].t /\ cmd'[p].pc = "entry"
    BY <1>1, <2>1 DEF Command
  <2> QED
    BY <2>1, <2>2 DEF Lists, InTypeDir
<1>4. CASE WriteEntries(p) /\ \A next : ~ListFails(p, next)
  <2>1. /\ index' = NewEntries(cmd[p])
        /\ cmd' = [cmd EXCEPT ![p].pc = IF cmd[p].kind = "delete" THEN "entriesLog" ELSE "commit",
                              ![p].entries = {}]
    BY <1>4 DEF WriteEntries, Kind
  <2>2. /\ cmd'[p].kind = cmd[p].kind /\ cmd'[p].t = cmd[p].t
        /\ cmd'[p].pc = IF cmd[p].kind = "delete" THEN "entriesLog" ELSE "commit"
    BY <1>1, <2>1 DEF Command
  <2>3. cmd[p].kind = "delete" => cmd[p].t \notin index'
    BY <2>1 DEF NewEntries
  <2> QED
    BY <2>2, <2>3 DEF Lists
<1>5. CASE ReadLog(p) /\ \A next : ~ListFails(p, next)
  <2>1. /\ cmd' = [cmd EXCEPT ![p].pc = "entryLog", ![p].logged = log]
        /\ index' = index /\ cmd[p].pc = "entriesLog"
    BY <1>5 DEF ReadLog, At, lists
  <2>2. /\ cmd'[p].kind = cmd[p].kind /\ cmd'[p].t = cmd[p].t /\ cmd'[p].pc = "entryLog"
        /\ cmd'[p].warned = cmd[p].warned
    BY <1>1, <2>1 DEF Command
  <2> QED
    BY <2>1, <2>2 DEF Lists
<1>6. CASE WriteLog(p) /\ \A next : ~ListFails(p, next)
  <2>1. /\ cmd' = [cmd EXCEPT ![p].pc = IF cmd[p].kind = "delete" THEN "remove" ELSE "commit",
                              ![p].logged = {}]
        /\ index' = index /\ cmd[p].pc = "entryLog"
    BY <1>6 DEF WriteLog, Kind, At
  <2>2. /\ cmd'[p].kind = cmd[p].kind /\ cmd'[p].t = cmd[p].t
        /\ cmd'[p].pc = IF cmd[p].kind = "delete" THEN "remove" ELSE "commit"
        /\ cmd'[p].warned = cmd[p].warned
    BY <1>1, <2>1 DEF Command
  <2> QED
    BY <2>1, <2>2 DEF Lists
<1> QED
  BY <1>2, <1>3, <1>4, <1>5, <1>6

LEMMA NextLists == IInv /\ ListsInv /\ [Next]_vars => ListsInv'
<1> SUFFICES ASSUME IInv, ListsInv, [Next]_vars PROVE ListsInv'
  OBVIOUS
<1>1. CASE UNCHANGED vars
  BY <1>1 DEF vars, lists, ListsInv, Lists, InTypeDir
<1>2. CASE Next
  <2>1. PICK p \in Procs : ProcStep(p)
    BY <1>2 DEF Next
  <2>2. ASSUME NEW q \in Procs \ {p} PROVE Lists(cmd[q])'
    <3>1. cmd'[q] = cmd[q] /\ Lists(cmd[q])
      BY <2>1, OwnCommand DEF ListsInv
    <3>2. CASE lock = p
      BY <3>1, <3>2, HoldsLock DEF Lists, UnderLock
    <3>3. CASE lock # p
      BY <2>1, <3>1, <3>3, OthersKeepLists DEF Lists, InTypeDir
    <3> QED
      BY <3>2, <3>3
  <2>3. Lists(cmd[p])'
    <3>1. CASE \/ Lock(p) \/ Read(p) \/ Put(p) \/ Commit(p) \/ Tx(p) \/ Remove(p) \/ Preflight(p)
               \/ RebuildSearch(p) \/ RewriteIndex(p) \/ RebuildGraph(p)
      BY <3>1, PageStepsList DEF ListsInv
    <3>2. CASE ReadEntries(p) \/ WriteEntries(p) \/ ReadLog(p) \/ WriteLog(p)
      BY <3>2, EntryStepsList DEF ListsInv
    <3>3. CASE \/ Start(p) \/ Collect(p) \/ NextItem(p) \/ Check(p)
               \/ LintBegin(p) \/ LintRead(p) \/ LintCommit(p)
      <4>1. cmd[p].pc \notin UnderLock /\ lock' = lock
        BY <3>3 DEF Start, Collect, NextItem, Check, LintBegin, LintRead, LintCommit, At, UnderLock
      <4>2. lock' # p
        BY <4>1, HoldsLock
      <4>3. IInv'
        BY <2>1, NextKeeps DEF Next
      <4>4. cmd'[p].pc \notin UnderLock
        BY <4>2, <4>3 DEF IInv, TypeOK
      <4> QED
        BY <4>4, LeavesLists
    <3>4. CASE Release(p) \/ Crash(p)
      <4>1. lock' # p
        BY <3>4, PageStoreAssumption DEF Release, Crash
      <4>2. IInv'
        BY <2>1, NextKeeps DEF Next
      <4>3. cmd'[p].pc \notin UnderLock
        BY <4>1, <4>2 DEF IInv, TypeOK
      <4> QED
        BY <4>3, LeavesLists
    <3> QED
      BY <2>1, <3>1, <3>2, <3>3, <3>4 DEF ProcStep
  <2> QED
    BY <2>2, <2>3 DEF ListsInv, Lists
<1> QED
  BY <1>1, <1>2

\* An addition lists a path for which it has found a page, at the path or in a
\* type directory, and a deletion that is about to remove the file of a listed
\* page has warned.
THEOREM ListsInvariant == Spec => []ListsInv
<1>1. Init => ListsInv
  <2>1. IdleCmd.pc \notin UnderLock
    BY IdleType DEF UnderLock
  <2> QED
    BY <2>1 DEF Init, ListsInv, Lists, UnderLock
<1> QED
  BY <1>1, NextLists, PageStoreInvariant, PTL DEF Spec

\* A listed page loses its file only in a deletion that warned of it, and a path
\* without a file is listed only by an addition that found a page of its name in
\* a type directory, however the commands of other processes interleave.
THEOREM AlwaysDanglingHasACause == Spec => DanglingHasACause
<1>1. IInv /\ ListsInv /\ [Next]_vars =>
        [\A t \in Dangling' \ Dangling : \E p \in Procs :
            /\ lock = p /\ T(p) = t
            /\ IF t \in index THEN Kind(p) = "delete" /\ cmd[p].warned
               ELSE Kind(p) = "indexAdd" /\ InTypeDir(t)]_vars
  <2> SUFFICES ASSUME IInv, ListsInv, NEW p \in Procs, ProcStep(p), NEW t \in Dangling' \ Dangling
               PROVE  /\ lock = p /\ T(p) = t
                      /\ IF t \in index THEN Kind(p) = "delete" /\ cmd[p].warned
                         ELSE Kind(p) = "indexAdd" /\ InTypeDir(t)
    BY DEF Next
  <2>1. t \in index' /\ page'[t] = Absent /\ t \in Pages
    <3>1. IInv'
      BY NextKeeps DEF Next
    <3> QED
      BY <3>1 DEF Dangling, IInv, TypeOK
  <2>2. t \notin index \/ page[t] # Absent
    BY DEF Dangling
  <2>3. lock = p
    BY <2>1, <2>2, OthersKeepLists
  <2>4. cmd[p] \in Command /\ cmd[p].t \in Pages /\ Lists(cmd[p]) /\ Knows(cmd[p]) /\ Shape(cmd[p])
    BY HoldsLock DEF Command, ListsInv
  <2>5. CASE Remove(p)
    <3>1. /\ cmd[p].pc = "remove" /\ index' = index
          /\ page' = page \/ page' = [page EXCEPT ![cmd[p].t] = Absent]
      BY <2>5 DEF Remove, At, T, lists
    <3>2. t = cmd[p].t /\ t \in index
      BY <2>1, <2>2, <2>4, <3>1, TypesOfState
    <3>3. cmd[p].kind = "delete"
      BY <2>4, <3>1, KindsAt
    <3> QED
      BY <2>3, <2>4, <3>1, <3>2, <3>3 DEF Lists, T, Kind
  <2>6. CASE Put(p)
    <3>1. index' = index
      BY <2>6 DEF Put, lists
    <3>2. page[t] # Absent /\ page' # page
      BY <2>1, <2>2, <3>1
    <3>3. t = cmd[p].t /\ \E new \in NewPages(cmd[p]) : page'[t] = new
      BY <2>1, <2>6, <3>2, PutFacts
    <3>4. NewPages(cmd[p]) \subseteq Page
      <4>1. cmd[p].pc = "put" /\ cmd[p].pc \in UnderLock
        BY <2>6 DEF Put, At, UnderLock
      <4>2. cmd[p].kind \in Writers /\ cmd[p].n \in Ops /\ (cmd[p].kind # "write" => cmd[p].seen # Absent)
        BY <2>4, <4>1, KindsAt, UnderLockFacts DEF Knows
      <4> QED
        BY <2>4, <4>2, NewPagesType
    <3>5. Absent \notin Page
      BY PageStoreAssumption DEF Page, Ops
    <3> QED
      BY <2>1, <3>3, <3>4, <3>5
  <2>7. CASE WriteEntries(p)
    <3>1. /\ cmd[p].pc = "entry" /\ page' = page
          /\ index' = index \/ index' = NewEntries(cmd[p])
      BY <2>7 DEF WriteEntries, At
    <3>2. t \notin index /\ t \in NewEntries(cmd[p]) /\ page[t] = Absent
      BY <2>1, <2>2, <3>1
    <3>3. cmd[p].entries = index
      BY <2>4, <3>1 DEF Knows
    <3>4. cmd[p].kind = "indexAdd" /\ t = cmd[p].t
      BY <3>2, <3>3 DEF NewEntries
    <3> QED
      BY <2>3, <2>4, <3>1, <3>2, <3>4 DEF Lists, T, Kind
  <2>8. CASE RewriteIndex(p)
    <3>1. page' = page /\ (index' = index \/ index' = {u \in Pages : page[u] # Absent})
      BY <2>8 DEF RewriteIndex
    <3> QED
      BY <2>1, <2>2, <3>1
  <2>9. CASE ~Remove(p) /\ ~Put(p) /\ ~WriteEntries(p) /\ ~RewriteIndex(p)
    <3>1. page' = page
      BY <2>9, PageChangers
    <3>2. index' = index
      BY <2>9 DEF ProcStep, Start, Collect, NextItem, Check, Lock, Read, Commit, Tx,
         Preflight, ReadEntries, ReadLog, WriteLog, RebuildSearch, RebuildGraph,
         LintBegin, LintRead, LintCommit, Release, Crash, lists
    <3> QED
      BY <2>1, <2>2, <3>1, <3>2
  <2> QED
    BY <2>5, <2>6, <2>7, <2>8, <2>9
<1> QED
  BY <1>1, PageStoreInvariant, ListsInvariant, PTL DEF Spec, DanglingHasACause
-----------------------------------------------------------------------------
(* The store lock as the commands use it.                                  *)

\* The processes past their acquisition: what module Mutex calls inside.
Inside == [l \in {"store"} |-> {p \in Procs : cmd[p].pc \in UnderLock}]
StoreLock == INSTANCE Mutex WITH Locks <- {"store"}, inside <- Inside

LEMMA InsideIsHolder ==
    ASSUME TypeOK
    PROVE  Inside = [l \in {"store"} |-> IF lock = NoOne THEN {} ELSE {lock}]
<1>1. {p \in Procs : cmd[p].pc \in UnderLock} = IF lock = NoOne THEN {} ELSE {lock}
  BY PageStoreAssumption DEF TypeOK
<1> QED
  BY <1>1 DEF Inside

\* A process takes the lock when it is free, and gives back what it holds.
LEMMA LockMoves ==
    ASSUME TypeOK, [Next]_vars, lock' # lock
    PROVE  \/ lock = NoOne /\ lock' \in Procs
           \/ lock \in Procs /\ lock' = NoOne
<1>1. PICK p \in Procs : ProcStep(p)
  BY DEF Next, vars
<1>2. CASE Lock(p)
  BY <1>2 DEF Lock, LockFree
<1>3. CASE Release(p)
  BY <1>3 DEF Release, At, UnderLock, TypeOK
<1>4. CASE Crash(p)
  BY <1>4 DEF Crash
<1> QED
  BY <1>1, <1>2, <1>3, <1>4
     DEF ProcStep, Start, Collect, NextItem, Check, Read, Put, Commit, Tx, Remove,
         Preflight, ReadEntries, ReadLog, WriteEntries, WriteLog, RebuildSearch, RewriteIndex,
         RebuildGraph, LintBegin, LintRead, LintCommit

\* The commands of module PageStore use the store lock as module Mutex describes it, the
\* module that RepoLock implements: at most one process is between LockRepo and
\* Release, and a process that is killed leaves.
THEOREM PageStoreUsesMutex == Spec => StoreLock!Spec
<1>1. Init => StoreLock!Init
  <2> SUFFICES ASSUME Init PROVE StoreLock!Init
    OBVIOUS
  <2>1. {p \in Procs : cmd[p].pc \in UnderLock} = {}
    BY IdleType DEF Init, UnderLock
  <2> QED
    BY <2>1 DEF Inside, StoreLock!Init
<1>2. TypeOK /\ TypeOK' /\ [Next]_vars => [StoreLock!Next]_Inside
  <2> SUFFICES ASSUME TypeOK, TypeOK', [Next]_vars PROVE [StoreLock!Next]_Inside
    OBVIOUS
  <2>1. Inside = [l \in {"store"} |-> IF lock = NoOne THEN {} ELSE {lock}]
    BY InsideIsHolder
  <2>2. Inside' = [l \in {"store"} |-> IF lock' = NoOne THEN {} ELSE {lock'}]
    <3>1. TypeOK' => (Inside = [l \in {"store"} |-> IF lock = NoOne THEN {} ELSE {lock}])'
      BY InsideIsHolder, PTL
    <3> QED
      BY <3>1
  <2>3. CASE lock' = lock
    BY <2>1, <2>2, <2>3
  <2>4. CASE lock = NoOne /\ lock' \in Procs
    <3>1. StoreLock!Enter(lock', "store")
      BY <2>1, <2>2, <2>4, PageStoreAssumption DEF StoreLock!Enter
    <3> QED
      BY <2>4, <3>1 DEF StoreLock!Next
  <2>5. CASE lock \in Procs /\ lock' = NoOne
    <3>1. StoreLock!Leave(lock, "store")
      BY <2>1, <2>2, <2>5, PageStoreAssumption DEF StoreLock!Leave
    <3> QED
      BY <2>5, <3>1 DEF StoreLock!Next
  <2> QED
    BY <2>3, <2>4, <2>5, LockMoves
<1> QED
  BY <1>1, <1>2, PageStoreType, PTL DEF Spec, StoreLock!Spec
=============================================================================
