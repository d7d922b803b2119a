----------------------------- MODULE LinkGraph ------------------------------
(***************************************************************************)
(* internal/linkgraph: the wikilinks of every page, resolved when the page *)
(* is recorded, in the pages and links tables of the search database, and  *)
(* the queries that `akb lint`, `akb orphans`, `akb delete --orphans` and  *)
(* `akb links` answer from them.                                           *)
(*                                                                         *)
(* Every command is one step: what interleaves with the steps of a command *)
(* is module PageStore.  Pages also change without akb (a git pull, an     *)
(* editor), which leaves the tables as they were.                          *)
(***************************************************************************)
EXTENDS Naturals, FiniteSets, Sequences

CONSTANTS
    Paths,      \* page paths, records of a directory and a file name
    Top,        \* the directory of kb/ itself
    Targets,    \* raw wikilink targets, records of a directory and a name
    Short,      \* the directory of a target that spells no directory
    KbDirs,     \* the directory below kb/ of every target directory kb/<directory>
    LinkSets,   \* the sets of targets a page may hold
    WalkOrder,  \* the order in which filepath.WalkDir visits the paths
    Absent,     \* no such file
    MaxUntracked    \* bound: changes of a file that the tables do not follow

ASSUME LinkGraphAssumption ==
    /\ IsFiniteSet(Paths)
    /\ \A p \in Paths : {"dir", "name"} = DOMAIN p /\ p.dir # Short
    /\ \A t \in Targets : {"dir", "name"} = DOMAIN t
    /\ LinkSets \subseteq SUBSET Targets
    /\ Absent \notin [targets : LinkSets, parses : BOOLEAN]
    /\ WalkOrder \in [1 .. Cardinality(Paths) -> Paths]
    /\ \A p \in Paths : \E i \in DOMAIN WalkOrder : WalkOrder[i] = p
    /\ MaxUntracked \in Nat

VARIABLES
    files,      \* the page files: their links, and whether their frontmatter parses
    rows,       \* the pages table
    links,      \* the links table, by source page
    half,       \* ghost: the last rebuild stopped between its two transactions
    untracked   \* counter of the bound

vars == <<files, rows, links, half, untracked>>

File == [targets : LinkSets, parses : BOOLEAN]
Exists(p) == files[p] # Absent
Existing == {p \in Paths : Exists(p)}

\* resolved_to is NULL for the empty set, AMBIGUOUS for two paths or more.
Link == [target : Targets, to : SUBSET Paths]

TypeOK ==
    /\ files \in [Paths -> File \cup {Absent}]
    /\ rows \subseteq Paths
    /\ links \in [Paths -> SUBSET Link]
    /\ \A p \in Paths : \A k, l \in links[p] : k.target = l.target => k = l
    /\ half \in BOOLEAN
    /\ untracked \in 0 .. MaxUntracked

Init ==
    /\ files = [p \in Paths |-> Absent]
    /\ rows = {}
    /\ links = [p \in Paths |-> {}]
    /\ half = FALSE
    /\ untracked = 0

-----------------------------------------------------------------------------
\* The page whose path a target spells: only one that begins with kb/ spells the
\* path of a page. And the path it spells below kb/.
Spelled(t) == {[dir |-> KbDirs[d], name |-> t.name] : d \in {t.dir} \cap DOMAIN KbDirs}
SpelledBelow(t) == [dir |-> IF t.dir = Short THEN Top ELSE t.dir, name |-> t.name]

\* resolveTarget: the one, else the other, else the pages of that basename.
Resolve(known, t) ==
    IF Spelled(t) \cap known # {} THEN Spelled(t) \cap known
    ELSE IF SpelledBelow(t) \in known THEN {SpelledBelow(t)}
    ELSE {p \in known : t.dir = Short /\ p.name = t.name}

LinksOf(known, targets) == {[target |-> t, to |-> Resolve(known, t)] : t \in targets}

\* The delete and the inserts of UpdatePageLinksTx.
LinksReplaced(p, known, targets) == LinksOf(known, targets)

\* IndexPageTx and UpdatePageLinksTx of a write, an append or an approval.
Write(p) ==
    \E targets \in LinkSets :
       /\ files' = [files EXCEPT ![p] = [targets |-> targets, parses |-> TRUE]]
       /\ rows' = rows \cup {p}
       /\ links' = [links EXCEPT ![p] = LinksReplaced(p, rows', targets)]
       /\ UNCHANGED <<half, untracked>>

\* The same, ending in an error after the file was written.
WriteUnrecorded(p) ==
    /\ \E targets \in LinkSets : files' = [files EXCEPT ![p] = [targets |-> targets, parses |-> TRUE]]
    /\ untracked < MaxUntracked
    /\ untracked' = untracked + 1
    /\ UNCHANGED <<rows, links, half>>

\* RemovePageTx deletes the row of the page, its links and the links that
\* resolved to it; os.Remove of the file may still fail.
RowsKept(p) == rows
RowsWithout(p) == rows \ {p}
KeepInbound(p, q) == IF q = p THEN {} ELSE links[q]
WithoutPage(p, q) == IF q = p THEN {} ELSE {l \in links[q] : l.to # {p}}

Delete(p) ==
    /\ Exists(p)
    /\ rows' = RowsWithout(p)
    /\ links' = [q \in Paths |-> WithoutPage(p, q)]
    /\ \/ files' = [files EXCEPT ![p] = Absent] /\ UNCHANGED untracked
       \/ /\ untracked < MaxUntracked
          /\ untracked' = untracked + 1
          /\ UNCHANGED files
    /\ UNCHANGED half

\* The rows when the walk of RebuildLinks has come to p: a row is inserted for
\* every file it has met, and none is ever deleted.
Visited(p) == {q \in Existing : \E i, j \in DOMAIN WalkOrder :
                  WalkOrder[i] = q /\ WalkOrder[j] = p /\ i <= j}
KnownMetOnly(known, p) == Visited(p)
KnownAt(known, p) == known \cup Visited(p)

RebuildLinks(known) ==
    [p \in Paths |-> IF Exists(p) THEN LinksOf(KnownAt(known, p), files[p].targets) ELSE {}]

\* `akb lint` and the lint of `akb template delete`.
Lint ==
    /\ rows' = rows \cup Existing
    /\ links' = RebuildLinks(rows)
    /\ half' = FALSE
    /\ UNCHANGED <<files, untracked>>

\* `akb index rebuild`: the pages table from the files that parse, and in a
\* second transaction the links.
Indexed == {p \in Existing : files[p].parses}
Rebuild ==
    /\ \/ /\ rows' = Existing
          /\ links' = RebuildLinks(Indexed)
          /\ half' = FALSE
       \/ /\ rows' = Indexed
          /\ half' = TRUE
          /\ UNCHANGED links
    /\ UNCHANGED <<files, untracked>>

\* A git pull or an editor brings, changes or removes a page.
External(p) ==
    /\ untracked < MaxUntracked
    /\ untracked' = untracked + 1
    /\ \E file \in File \cup {Absent} : files' = [files EXCEPT ![p] = file]
    /\ UNCHANGED <<rows, links, half>>

Next ==
    \/ \E p \in Paths : Write(p) \/ WriteUnrecorded(p) \/ Delete(p) \/ External(p)
    \/ Lint \/ Rebuild

Spec == Init /\ [][Next]_vars

-----------------------------------------------------------------------------
(* The queries.                                                            *)

\* GetBrokenLinks and GetOrphans.
Broken == UNION {{<<p, l.target>> : l \in {k \in links[p] : k.to = {}}} : p \in Paths}

Orphans == {p \in rows : ~\E q \in Paths \ {p} : \E l \in links[q] : l.to = {p}}

\* What they are about: the links of the files, resolved against the files.
TrueBroken == UNION {{<<p, t>> : t \in {u \in files[p].targets : Resolve(Existing, u) = {}}}
                       : p \in Existing}
TrueOrphans == {p \in Existing : ~\E q \in Existing \ {p} :
                   \E t \in files[q].targets : Resolve(Existing, t) = {p}}

-----------------------------------------------------------------------------
\* The pages table follows the files through every sequence of akb commands;
\* only a change made without akb, or a command that ended in an error, leaves
\* a page unlisted or lists one that is gone (IndexPageTx, RemovePageTx).
RowsFollowFiles == untracked = 0 => rows = Existing

\* A link resolves to a page that is listed, and belongs to one, so that no
\* deleted page is reported as a link target, also after a deletion that did
\* not complete (RemovePageTx); a rebuild that stopped half way may break this.
LinksNameRows ==
    ~half => \A p \in Paths : \A l \in links[p] :
                p \in rows /\ (Cardinality(l.to) = 1 => l.to \subseteq rows)

\* A lint of tables that list the existing pages, and a rebuild of pages that
\* all parse, leave the broken links and the orphans that the files have,
\* whatever had become stale and whatever the walk order (RebuildLinks).
RebuiltLinksAreExact ==
    [][\/ rows = Existing /\ Lint
       \/ Indexed = Existing /\ ~half' /\ Rebuild
       => Broken' = TrueBroken /\ Orphans' = TrueOrphans]_vars

\* "broken_links: A wikilink points to a page that doesn't exist": a lint
\* reports every such link.
LintReportsMissing == [][Lint => TrueBroken \subseteq Broken']_vars
=============================================================================
