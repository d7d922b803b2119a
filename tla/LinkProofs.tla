----------------------------- MODULE LinkProofs -----------------------------
(***************************************************************************)
(* What links promise, from the text to the tables.  First module          *)
(* LinkGraph, for every set of pages, of targets and of links, whatever    *)
(* the walk order.  Then module Wikilinks, for every set of texts: the     *)
(* invariants of its three loops, over texts of any length.                *)
(***************************************************************************)
EXTENDS LinkGraph, Wikilinks, FiniteSetTheorems, WellFoundedInduction, TLAPS

-----------------------------------------------------------------------------
(* The graph.                                                              *)

\* Only a change made without akb leaves a file that does not parse.
AllParse == untracked = 0 => \A p \in Existing : files[p].parses

IInv == TypeOK /\ RowsFollowFiles /\ AllParse /\ LinksNameRows

-----------------------------------------------------------------------------
(* What a resolution returns.                                              *)

\* A target resolves to pages of the set it is resolved against (resolveTarget).
LEMMA ResolveKnown ==
    ASSUME NEW known, NEW t
    PROVE  Resolve(known, t) \subseteq known
BY DEF Resolve

\* The links of a page: one for each of its targets, each to known pages.
LEMMA LinksOfType ==
    ASSUME NEW known \in SUBSET Paths, NEW targets \in LinkSets
    PROVE  /\ LinksOf(known, targets) \in SUBSET Link
           /\ \A l \in LinksOf(known, targets) : l.to \subseteq known
           /\ \A k, l \in LinksOf(known, targets) : k.target = l.target => k = l
<1>1. \A t \in targets : t \in Targets
  BY LinkGraphAssumption
<1>2. \A t \in targets : Resolve(known, t) \in SUBSET Paths
  BY ResolveKnown
<1> QED
  BY <1>1, <1>2, ResolveKnown DEF LinksOf, Link

\* What a walk of RebuildLinks leaves of the files it met.
LEMMA RebuiltType ==
    ASSUME TypeOK, NEW known \in SUBSET Paths
    PROVE  /\ RebuildLinks(known) \in [Paths -> SUBSET Link]
           /\ \A p \in Paths : \A k, l \in RebuildLinks(known)[p] : k.target = l.target => k = l
           /\ \A p \in Paths : \A l \in RebuildLinks(known)[p] :
                 p \in Existing /\ l.to \subseteq known \cup Existing
<1> SUFFICES ASSUME NEW p \in Paths
             PROVE  /\ RebuildLinks(known)[p] \in SUBSET Link
                    /\ \A k, l \in RebuildLinks(known)[p] : k.target = l.target => k = l
                    /\ \A l \in RebuildLinks(known)[p] :
                          p \in Existing /\ l.to \subseteq known \cup Existing
  BY DEF RebuildLinks
<1>1. CASE Exists(p)
  <2>1. KnownAt(known, p) \in SUBSET Paths /\ KnownAt(known, p) \subseteq known \cup Existing
    BY DEF KnownAt, Visited, Existing
  <2>2. files[p].targets \in LinkSets
    BY <1>1 DEF TypeOK, File, Exists
  <2>3. RebuildLinks(known)[p] = LinksOf(KnownAt(known, p), files[p].targets)
    BY <1>1 DEF RebuildLinks
  <2> QED
    BY <1>1, <2>1, <2>2, <2>3, LinksOfType DEF Existing
<1>2. CASE ~Exists(p)
  BY <1>2 DEF RebuildLinks
<1> QED
  BY <1>1, <1>2

\* A link that resolved to one page, and not to p, resolved to another.
LEMMA OtherTarget ==
    ASSUME NEW to \in SUBSET Paths, Cardinality(to) = 1, NEW p, to # {p}
    PROVE  p \notin to
<1>1. IsFiniteSet(to)
  BY LinkGraphAssumption, FS_Subset
<1>2. PICK x : to = {x}
  BY <1>1, FS_Singleton
<1> QED
  BY <1>2

-----------------------------------------------------------------------------
(* The invariant: a lemma per action.                                      *)

LEMMA InitIInv == Init => IInv
<1> SUFFICES ASSUME Init PROVE IInv
  OBVIOUS
<1>1. Existing = {} /\ \A p \in Paths : links[p] = {}
  BY DEF Init, Existing, Exists
<1>2. links \in [Paths -> SUBSET Link] /\ files \in [Paths -> File \cup {Absent}]
  BY DEF Init
<1>3. untracked \in 0 .. MaxUntracked
  BY LinkGraphAssumption DEF Init
<1>4. TypeOK
  BY <1>1, <1>2, <1>3 DEF Init, TypeOK
<1> QED
  BY <1>1, <1>4 DEF Init, IInv, RowsFollowFiles, AllParse, LinksNameRows

\* The write of a page with links to known pages (IndexPageTx, UpdatePageLinksTx).
LEMMA WriteKeeps ==
    ASSUME IInv, NEW p \in Paths, Write(p)
    PROVE  IInv'
<1> USE DEF IInv
<1>1. PICK targets \in LinkSets :
         /\ files' = [files EXCEPT ![p] = [targets |-> targets, parses |-> TRUE]]
         /\ rows' = rows \cup {p}
         /\ links' = [links EXCEPT ![p] = LinksReplaced(p, rows', targets)]
         /\ UNCHANGED <<half, untracked>>
  BY DEF Write
<1>2. [targets |-> targets, parses |-> TRUE] \in File
  BY DEF File
<1>3. rows' \in SUBSET Paths
  BY <1>1 DEF TypeOK
<1> DEFINE new == LinksOf(rows', targets)
<1>4. /\ new \in SUBSET Link
      /\ \A l \in new : l.to \subseteq rows'
      /\ \A k, l \in new : k.target = l.target => k = l
  BY <1>3, LinksOfType
<1>5. links'[p] = new /\ \A q \in Paths : q # p => links'[q] = links[q]
  BY <1>1 DEF LinksReplaced, TypeOK
<1>6. TypeOK'
  BY <1>1, <1>2, <1>3, <1>4, <1>5 DEF TypeOK, LinksReplaced
<1>7. files'[p] # Absent /\ files'[p].parses /\ \A q \in Paths : q # p => files'[q] = files[q]
  <2>1. files'[p] = [targets |-> targets, parses |-> TRUE] /\ \A q \in Paths : q # p => files'[q] = files[q]
    BY <1>1 DEF TypeOK
  <2> QED
    BY <2>1, <1>2, LinkGraphAssumption DEF File
<1>8. Existing' = Existing \cup {p}
  BY <1>7 DEF Existing, Exists
<1>9. RowsFollowFiles' /\ AllParse'
  BY <1>1, <1>7, <1>8 DEF RowsFollowFiles, AllParse
<1>10. LinksNameRows'
  BY <1>1, <1>4, <1>5, SMTT(30) DEF LinksNameRows
<1> QED
  BY <1>6, <1>9, <1>10

\* A change that the tables do not follow counts as one.
LEMMA UntrackedKeeps ==
    ASSUME IInv, NEW p \in Paths, NEW file \in File \cup {Absent},
           files' = [files EXCEPT ![p] = file],
           untracked < MaxUntracked, untracked' = untracked + 1,
           UNCHANGED <<rows, links, half>>
    PROVE  IInv'
<1>1. untracked' \in 0 .. MaxUntracked /\ untracked' # 0
  BY LinkGraphAssumption DEF IInv, TypeOK
<1>2. TypeOK'
  BY <1>1 DEF IInv, TypeOK
<1> QED
  BY <1>1, <1>2 DEF IInv, RowsFollowFiles, AllParse, LinksNameRows

\* The deletion takes the links that resolved to the page along (RemovePageTx).
LEMMA DeleteKeeps ==
    ASSUME IInv, NEW p \in Paths, Delete(p)
    PROVE  IInv'
<1> USE DEF IInv
<1>1. /\ rows' = rows \ {p}
      /\ links' = [q \in Paths |-> WithoutPage(p, q)]
      /\ half' = half
  BY DEF Delete, RowsWithout
<1>2. links' \in [Paths -> SUBSET Link] /\ \A q \in Paths : links'[q] \subseteq links[q]
  BY <1>1 DEF WithoutPage, TypeOK
<1>3. LinksNameRows'
  <2> SUFFICES ASSUME ~half, NEW q \in Paths, NEW l \in links'[q]
               PROVE  q \in rows' /\ (Cardinality(l.to) = 1 => l.to \subseteq rows')
    BY <1>1 DEF LinksNameRows
  <2>1. q # p /\ l \in links[q] /\ l.to # {p}
    BY <1>1 DEF WithoutPage
  <2>2. l.to \in SUBSET Paths
    BY <2>1 DEF TypeOK, Link
  <2>3. q \in rows /\ (Cardinality(l.to) = 1 => l.to \subseteq rows)
    BY <2>1 DEF LinksNameRows
  <2> QED
    BY <1>1, <2>1, <2>2, <2>3, OtherTarget
<1>4. CASE files' = [files EXCEPT ![p] = Absent] /\ UNCHANGED untracked
  <2>1. files'[p] = Absent /\ \A q \in Paths : q # p => files'[q] = files[q]
    BY <1>4 DEF TypeOK
  <2>2. Existing' = Existing \ {p}
    BY <2>1 DEF Existing, Exists
  <2>3. TypeOK'
    BY <1>1, <1>2, <1>4 DEF TypeOK
  <2>4. RowsFollowFiles' /\ AllParse'
    BY <1>1, <1>4, <2>1, <2>2 DEF RowsFollowFiles, AllParse
  <2> QED
    BY <1>3, <2>3, <2>4
<1>5. CASE untracked < MaxUntracked /\ untracked' = untracked + 1 /\ UNCHANGED files
  <2>1. untracked' \in 0 .. MaxUntracked /\ untracked' # 0
    BY <1>5, LinkGraphAssumption DEF TypeOK
  <2>2. TypeOK'
    BY <1>1, <1>2, <1>5, <2>1 DEF TypeOK
  <2> QED
    BY <1>3, <2>1, <2>2 DEF RowsFollowFiles, AllParse
<1> QED
  BY <1>4, <1>5 DEF Delete

\* A lint adds rows and resolves every link again (RebuildLinks).
LEMMA LintKeeps ==
    ASSUME IInv, Lint
    PROVE  IInv'
<1> USE DEF IInv
<1>1. rows \in SUBSET Paths
  BY DEF TypeOK
<1>2. rows' = rows \cup Existing /\ Existing' = Existing /\ half' = FALSE /\ links' = RebuildLinks(rows)
  BY DEF Lint, Existing, Exists
<1>3. TypeOK'
  <2>1. rows' \in SUBSET Paths
    BY <1>1, <1>2 DEF Existing
  <2>2. /\ links' \in [Paths -> SUBSET Link]
        /\ \A p \in Paths : \A k, l \in links'[p] : k.target = l.target => k = l
    BY <1>1, <1>2, RebuiltType
  <2> QED
    BY <1>2, <2>1, <2>2 DEF Lint, TypeOK
<1>4. RowsFollowFiles' /\ AllParse'
  BY <1>2 DEF Lint, RowsFollowFiles, AllParse
<1>5. LinksNameRows'
  BY <1>1, <1>2, RebuiltType DEF LinksNameRows
<1> QED
  BY <1>3, <1>4, <1>5

\* So does a rebuild of the index, unless it stops between its transactions.
LEMMA RebuildKeeps ==
    ASSUME IInv, Rebuild
    PROVE  IInv'
<1> USE DEF IInv
<1>1. Indexed \in SUBSET Paths /\ Indexed \subseteq Existing /\ Existing \in SUBSET Paths
  BY DEF Indexed, Existing
<1>2. Existing' = Existing /\ files' = files /\ untracked' = untracked
  BY DEF Rebuild, Existing, Exists
<1>3. AllParse'
  BY <1>2 DEF AllParse
<1>4. CASE rows' = Existing /\ links' = RebuildLinks(Indexed) /\ half' = FALSE
  <2>1. TypeOK'
    BY <1>1, <1>2, <1>4, RebuiltType DEF TypeOK
  <2>2. RowsFollowFiles'
    BY <1>2, <1>4 DEF RowsFollowFiles
  <2>3. LinksNameRows'
    BY <1>1, <1>4, RebuiltType DEF LinksNameRows
  <2> QED
    BY <1>3, <2>1, <2>2, <2>3
<1>5. CASE rows' = Indexed /\ half' = TRUE /\ UNCHANGED links
  <2>1. TypeOK'
    BY <1>1, <1>2, <1>5 DEF TypeOK
  <2>2. RowsFollowFiles'
    BY <1>2, <1>5 DEF RowsFollowFiles, AllParse, Indexed
  <2>3. LinksNameRows'
    BY <1>5 DEF LinksNameRows
  <2> QED
    BY <1>3, <2>1, <2>2, <2>3
<1> QED
  BY <1>4, <1>5 DEF Rebuild

\* A walk that starts from rows for all the files meets nothing that they lack.
LEMMA WalkKnowsAll ==
    ASSUME NEW p
    PROVE  KnownAt(Existing, p) = Existing
BY DEF KnownAt, Visited

\* Links that were resolved against all the files answer the queries the way
\* the files do.
LEMMA ExactLinks ==
    ASSUME links' = RebuildLinks(Existing), rows' = Existing
    PROVE  Broken' = TrueBroken /\ Orphans' = TrueOrphans
<1>1. ASSUME NEW p \in Paths
      PROVE  links'[p] = IF p \in Existing THEN LinksOf(Existing, files[p].targets) ELSE {}
  BY WalkKnowsAll DEF RebuildLinks, Existing
<1>2. \A p \in Existing : p \in Paths
  BY DEF Existing
<1>3. ASSUME NEW p \in Existing, NEW to
      PROVE  /\ \A l \in links'[p] : l.to = to =>
                   l.target \in files[p].targets /\ Resolve(Existing, l.target) = to
             /\ \A t \in files[p].targets : Resolve(Existing, t) = to =>
                   \E l \in links'[p] : l.target = t /\ l.to = to
  <2>1. links'[p] = {[target |-> t, to |-> Resolve(Existing, t)] : t \in files[p].targets}
    BY <1>1, <1>2 DEF LinksOf
  <2>2. ASSUME NEW l \in links'[p], l.to = to
        PROVE  l.target \in files[p].targets /\ Resolve(Existing, l.target) = to
    BY <2>1, <2>2
  <2>3. ASSUME NEW t \in files[p].targets, Resolve(Existing, t) = to
        PROVE  \E l \in links'[p] : l.target = t /\ l.to = to
    <3>1. [target |-> t, to |-> to] \in links'[p]
      BY <2>1, <2>3
    <3> QED
      BY <3>1
  <2> QED
    BY <2>2, <2>3
<1>4. Broken' = TrueBroken
  <2>1. ASSUME NEW x \in Broken' PROVE x \in TrueBroken
    <3>1. PICK p \in Paths : \E l \in links'[p] : l.to = {} /\ x = <<p, l.target>>
      BY <2>1 DEF Broken
    <3>2. p \in Existing
      BY <1>1, <3>1
    <3>3. PICK t \in files[p].targets : Resolve(Existing, t) = {} /\ x = <<p, t>>
      BY <1>3, <3>1, <3>2
    <3> QED
      BY <3>2, <3>3 DEF TrueBroken
  <2>2. ASSUME NEW x \in TrueBroken PROVE x \in Broken'
    <3>1. PICK p \in Existing : \E t \in files[p].targets : Resolve(Existing, t) = {} /\ x = <<p, t>>
      BY <2>2 DEF TrueBroken
    <3>2. PICK l \in links'[p] : l.to = {} /\ x = <<p, l.target>>
      BY <1>3, <3>1
    <3> QED
      BY <1>2, <3>2 DEF Broken
  <2> QED
    BY <2>1, <2>2
<1>5. Orphans' = TrueOrphans
  <2>1. ASSUME NEW p, NEW q \in Paths
        PROVE  (\E l \in links'[q] : l.to = {p})
               <=> q \in Existing /\ \E t \in files[q].targets : Resolve(Existing, t) = {p}
    BY <1>1, <1>3
  <2> QED
    BY <1>2, <2>1 DEF Orphans, TrueOrphans
<1> QED
  BY <1>4, <1>5

LEMMA RebuiltExactly ==
    ASSUME \/ rows = Existing /\ Lint
           \/ Indexed = Existing /\ ~half' /\ Rebuild
    PROVE  Broken' = TrueBroken /\ Orphans' = TrueOrphans
<1>1. CASE rows = Existing /\ Lint
  BY <1>1, ExactLinks DEF Lint
<1>2. CASE Indexed = Existing /\ ~half' /\ Rebuild
  BY <1>2, ExactLinks DEF Rebuild
<1> QED
  BY <1>1, <1>2

LEMMA NextKeeps == IInv /\ [Next]_vars => IInv'
<1> SUFFICES ASSUME IInv, [Next]_vars PROVE IInv'
  OBVIOUS
<1>1. ASSUME NEW p \in Paths, Write(p) \/ Delete(p) PROVE IInv'
  BY <1>1, WriteKeeps, DeleteKeeps
<1>2. ASSUME NEW p \in Paths, WriteUnrecorded(p) PROVE IInv'
  <2>1. PICK targets \in LinkSets : files' = [files EXCEPT ![p] = [targets |-> targets, parses |-> TRUE]]
    BY <1>2 DEF WriteUnrecorded
  <2>2. [targets |-> targets, parses |-> TRUE] \in File
    BY DEF File
  <2> QED
    BY <1>2, <2>1, <2>2, UntrackedKeeps DEF WriteUnrecorded
<1>3. ASSUME NEW p \in Paths, External(p) PROVE IInv'
  BY <1>3, UntrackedKeeps DEF External
<1>4. CASE Lint \/ Rebuild
  BY <1>4, LintKeeps, RebuildKeeps
<1>5. CASE UNCHANGED vars
  BY <1>5 DEF vars, IInv, TypeOK, RowsFollowFiles, AllParse, LinksNameRows, Existing, Exists
<1> QED
  BY <1>1, <1>2, <1>3, <1>4, <1>5 DEF Next

\* The inductive invariant of the link graph.
THEOREM LinkGraphInvariant == Spec => []IInv
<1> QED
  BY InitIInv, NextKeeps, PTL DEF Spec

\* The type invariant.
THEOREM LinkGraphType == Spec => []TypeOK
<1>1. IInv => TypeOK
  BY DEF IInv
<1> QED
  BY <1>1, LinkGraphInvariant, PTL

\* The pages table lists the files, through every sequence of akb commands on
\* every set of pages, rebuilds that stopped half way included.
THEOREM RowsAlwaysFollow == Spec => []RowsFollowFiles
<1>1. IInv => RowsFollowFiles
  BY DEF IInv
<1> QED
  BY <1>1, LinkGraphInvariant, PTL

\* A link belongs to a listed page and resolves to one: no deletion leaves a
\* link to the page it removed.
THEOREM LinksAlwaysNameRows == Spec => []LinksNameRows
<1>1. IInv => LinksNameRows
  BY DEF IInv
<1> QED
  BY <1>1, LinkGraphInvariant, PTL

\* A lint of tables that list the pages, and a rebuild of pages that all parse,
\* leave exactly the broken links and the orphans that the files have, on every
\* set of pages and in every order of the walk (RebuildLinks).
THEOREM RebuiltAlwaysExact == Spec => RebuiltLinksAreExact
<1>1. [Next]_vars =>
        [\/ rows = Existing /\ Lint
         \/ Indexed = Existing /\ ~half' /\ Rebuild
         => Broken' = TrueBroken /\ Orphans' = TrueOrphans]_vars
  BY RebuiltExactly
<1> QED
  BY <1>1, PTL DEF Spec, RebuiltLinksAreExact

-----------------------------------------------------------------------------
(* Numbers: least and greatest elements.                                   *)

Smaller == {p \in Nat \X Nat : p[1] < p[2]}

LEMMA LeastNat ==
    ASSUME NEW T, T \subseteq Nat, T # {}
    PROVE  \E n \in T : \A m \in T : n <= m
<1>1. IsWellFoundedOn(Smaller, Nat)
  BY NatLessThanWellFounded DEF OpToRel, Smaller
<1>2. PICK n \in T : \A m \in T : ~(<<m, n>> \in Smaller)
  BY <1>1, WFMin
<1>3. ASSUME NEW m \in T, ~(n <= m) PROVE FALSE
  <2>1. <<m, n>> \in Nat \X Nat /\ <<m, n>>[1] < <<m, n>>[2]
    BY <1>3
  <2>2. <<m, n>> \in Smaller
    BY <2>1 DEF Smaller
  <2> QED
    BY <1>2, <2>2
<1> QED
  BY <1>3

LEMMA GreatestNat ==
    ASSUME NEW T, NEW N \in Nat, T \subseteq 0 .. N, T # {}
    PROVE  \E n \in T : \A m \in T : n >= m
<1> DEFINE U == {N - m : m \in T}
<1>1. U \subseteq Nat /\ U # {}
  <2>1. \A m \in T : N - m \in Nat
    OBVIOUS
  <2> QED
    BY <2>1
<1>2. PICK u \in U : \A v \in U : u <= v
  BY <1>1, LeastNat
<1>3. PICK n \in T : u = N - n
  OBVIOUS
<1>4. ASSUME NEW m \in T PROVE n >= m
  <2>1. u <= N - m
    BY <1>2
  <2> QED
    BY <1>3, <2>1
<1> QED
  BY <1>4

LEMMA MinOfNats ==
    ASSUME NEW T, T \subseteq Nat, T # {}
    PROVE  Min(T) \in T /\ \A m \in T : Min(T) <= m
<1>1. \E n \in T : \A m \in T : n <= m
  BY LeastNat
<1> QED
  BY <1>1 DEF Min

LEMMA MaxOfNats ==
    ASSUME NEW T, NEW N \in Nat, T \subseteq 0 .. N, T # {}
    PROVE  Max(T) \in T /\ \A m \in T : Max(T) >= m
<1>1. \E n \in T : \A m \in T : n >= m
  BY GreatestNat
<1> QED
  BY <1>1 DEF Max

-----------------------------------------------------------------------------
(* What the helpers of the scan return.                                    *)

Text == content \in Seq(BlockTokens \cup LinkTokens)

\* The first mark from a position on.
LEMMA FirstOfIs ==
    ASSUME Text, NEW k \in Nat, NEW marks, NEW j \in FirstOf(k, marks)
    PROVE  /\ j \in k .. Len(content) /\ content[j] \in marks
           /\ \A m \in k .. j - 1 : content[m] \notin marks
           /\ FirstOf(k, marks) = {j}
<1>1. /\ j \in k .. Len(content) /\ content[j] \in marks
      /\ \A m \in k .. j - 1 : content[m] \notin marks
  BY DEF FirstOf
<1>2. Len(content) \in Nat
  BY DEF Text
<1>3. ASSUME NEW i \in FirstOf(k, marks) PROVE i = j
  <2>1. /\ i \in k .. Len(content) /\ content[i] \in marks
        /\ \A m \in k .. i - 1 : content[m] \notin marks
    BY DEF FirstOf
  <2>2. ~(i < j) /\ ~(j < i)
    BY <1>1, <1>2, <2>1
  <2> QED
    BY <1>1, <1>2, <2>1, <2>2
<1> QED
  BY <1>1, <1>3

LEMMA FirstOfIntro ==
    ASSUME NEW k, NEW marks, NEW j \in k .. Len(content), content[j] \in marks,
           \A m \in k .. j - 1 : content[m] \notin marks
    PROVE  j \in FirstOf(k, marks)
BY DEF FirstOf

LEMMA FirstOfExists ==
    ASSUME Text, NEW k \in Nat, NEW marks,
           NEW m \in k .. Len(content), content[m] \in marks
    PROVE  \E j \in FirstOf(k, marks) : j <= m
<1> DEFINE T == {i \in k .. Len(content) : content[i] \in marks}
<1>1. Len(content) \in Nat
  BY DEF Text
<1>2. T \subseteq Nat /\ m \in T
  BY <1>1
<1>3. PICK j \in T : \A i \in T : j <= i
  BY <1>2, LeastNat
<1>4. \A i \in k .. j - 1 : content[i] \notin marks
  <2> SUFFICES ASSUME NEW i \in k .. j - 1, content[i] \in marks PROVE FALSE
    OBVIOUS
  <2>1. i \in T
    BY <1>1
  <2> QED
    BY <1>1, <1>3, <2>1
<1>5. j \in FirstOf(k, marks)
  BY <1>3, <1>4 DEF FirstOf
<1> QED
  BY <1>2, <1>3, <1>5

\* A run is as long as its token is repeated.
LEMMA RunIs ==
    ASSUME Text, NEW k \in Nat \ {0}, k <= Len(content) + 1, NEW t
    PROVE  /\ RunLength(k, t) \in Nat
           /\ k + RunLength(k, t) <= Len(content) + 1
           /\ \A j \in k .. k + RunLength(k, t) - 1 : content[j] = t
           /\ k + RunLength(k, t) <= Len(content) => content[k + RunLength(k, t)] # t
<1> DEFINE S == {j \in k .. Len(content) : \A m \in k .. j : content[m] = t}
           T == {j \in k .. Len(content) + 1 : j = Len(content) + 1 \/ content[j] # t}
<1>1. Len(content) \in Nat
  BY DEF Text
<1>2. T \subseteq Nat /\ Len(content) + 1 \in T
  BY <1>1
<1>3. PICK e \in T : \A i \in T : e <= i
  BY <1>2, LeastNat
<1>4. \A j \in k .. e - 1 : content[j] = t
  <2> SUFFICES ASSUME NEW j \in k .. e - 1, content[j] # t PROVE FALSE
    OBVIOUS
  <2>1. j \in T
    BY <1>1, <1>3
  <2> QED
    BY <1>1, <1>3, <2>1
<1>5. S = k .. e - 1
  <2>1. ASSUME NEW j \in S PROVE j \in k .. e - 1
    <3>1. j \in k .. Len(content) /\ \A m \in k .. j : content[m] = t
      OBVIOUS
    <3>2. CASE e <= j
      <4>1. e \in k .. j /\ e # Len(content) + 1
        BY <1>1, <1>3, <3>1, <3>2
      <4> QED
        BY <1>3, <3>1, <4>1
    <3> QED
      BY <1>1, <1>3, <3>1, <3>2
  <2>2. ASSUME NEW j \in k .. e - 1 PROVE j \in S
    <3>1. j \in k .. Len(content)
      BY <1>1, <1>3
    <3>2. \A m \in k .. j : content[m] = t
      BY <1>1, <1>3, <1>4
    <3> QED
      BY <3>1, <3>2
  <2> QED
    BY <2>1, <2>2
<1>6. RunLength(k, t) = e - k
  <2>1. RunLength(k, t) = Cardinality(S)
    BY DEF RunLength
  <2>2. e \in Int /\ k <= e
    BY <1>1, <1>3
  <2>3. Cardinality(k .. e - 1) = IF k > e - 1 THEN 0 ELSE e - 1 - k + 1
    BY <2>2, FS_Interval
  <2> HIDE DEF S
  <2>4. RunLength(k, t) = Cardinality(k .. e - 1)
    BY <1>5, <2>1
  <2> QED
    BY <2>2, <2>3, <2>4
<1> QED
  BY <1>1, <1>3, <1>4, <1>6
-----------------------------------------------------------------------------
(* Lines.                                                                  *)

Tokens == BlockTokens \cup LinkTokens

LEMMA LineEndIs ==
    ASSUME Text, NEW k \in Nat, k <= Len(content) + 1
    PROVE  /\ LineEnd(k) \in k .. Len(content) + 1
           /\ LineEnd(k) = Len(content) + 1 \/ content[LineEnd(k)] = "NL"
           /\ \A j \in k .. LineEnd(k) - 1 : content[j] # "NL"
<1> DEFINE T == {j \in k .. Len(content) + 1 : j = Len(content) + 1 \/ content[j] = "NL"}
<1>1. Len(content) \in Nat
  BY DEF Text
<1>2. T \subseteq Nat /\ Len(content) + 1 \in T
  BY <1>1
<1>3. PICK e \in T : \A i \in T : e <= i
  BY <1>2, LeastNat
<1>4. \A j \in k .. e - 1 : content[j] # "NL"
  <2> SUFFICES ASSUME NEW j \in k .. e - 1, content[j] = "NL" PROVE FALSE
    OBVIOUS
  <2>1. j \in T
    BY <1>1, <1>3
  <2> QED
    BY <1>1, <1>3, <2>1
<1>5. \E j \in k .. Len(content) + 1 : /\ j = Len(content) + 1 \/ content[j] = "NL"
                                       /\ \A i \in k .. j - 1 : content[i] # "NL"
  BY <1>3, <1>4
<1> QED
  BY <1>5 DEF LineEnd

LEMMA LineStartIs ==
    ASSUME Text, NEW k \in Nat \ {0}
    PROVE  /\ LineStart(k) \in 1 .. k
           /\ LineStart(k) = 1 \/ content[LineStart(k) - 1] = "NL"
           /\ \A j \in LineStart(k) .. k - 1 : content[j] # "NL"
<1> DEFINE T == {s \in 1 .. k : s = 1 \/ content[s - 1] = "NL"}
<1>1. T \subseteq 0 .. k /\ 1 \in T
  OBVIOUS
<1>2. PICK s \in T : \A i \in T : s >= i
  BY <1>1, GreatestNat
<1>3. \A j \in s .. k - 1 : content[j] # "NL"
  <2> SUFFICES ASSUME NEW j \in s .. k - 1, content[j] = "NL" PROVE FALSE
    OBVIOUS
  <2>1. j + 1 \in 1 .. k /\ (j + 1) - 1 = j
    OBVIOUS
  <2>2. j + 1 \in T
    BY <2>1
  <2> QED
    BY <1>2, <2>2
<1>4. \E i \in 1 .. k : /\ i = 1 \/ content[i - 1] = "NL"
                        /\ \A j \in i .. k - 1 : content[j] # "NL"
  BY <1>2, <1>3
<1> QED
  BY <1>4 DEF LineStart

LEMMA LineIs ==
    ASSUME Text, NEW k \in Nat \ {0}, k <= Len(content) + 1
    PROVE  /\ Line(k) \in Seq(Tokens)
           /\ Len(Line(k)) = LineEnd(k) - k
           /\ \A j \in 1 .. Len(Line(k)) : Line(k)[j] = content[k + j - 1]
<1>1. LineEnd(k) \in k .. Len(content) + 1 /\ Len(content) \in Nat
  BY LineEndIs DEF Text
<1>2. content \in Seq(Tokens)
  BY DEF Text, Tokens
<1>3. \A j \in k .. LineEnd(k) - 1 : content[j] \in Tokens
  BY <1>1, <1>2
<1> HIDE DEF Tokens
<1>4. SubSeq(content, k, LineEnd(k) - 1) = [j \in 1 .. LineEnd(k) - 1 - k + 1 |-> content[k + j - 1]]
  BY <1>1, <1>2
<1> DEFINE n == LineEnd(k) - k
           f == [j \in 1 .. n |-> content[k + j - 1]]
<1>5. n \in Nat /\ LineEnd(k) - 1 - k + 1 = n
  BY <1>1
<1>6. Line(k) = f
  BY <1>4, <1>5 DEF Line
<1>7. f \in Seq(Tokens)
  <2>1. \A j \in 1 .. n : content[k + j - 1] \in Tokens
    BY <1>1, <1>3
  <2> QED
    BY <1>5, <2>1
<1>8. Len(f) = n
  BY <1>5
<1>9. \A j \in 1 .. n : f[j] = content[k + j - 1]
  OBVIOUS
<1> HIDE DEF f
<1> QED
  BY <1>6, <1>7, <1>8, <1>9

\* The leading spaces of a line are an initial part of it.
LEMMA LeadingIs ==
    ASSUME NEW line \in Seq(Tokens)
    PROVE  /\ Cardinality(Leading(line)) \in 0 .. Len(line)
           /\ Leading(line) = 1 .. Cardinality(Leading(line))
           /\ \A j \in Leading(line) : line[j] \in Spaces
           /\ Cardinality(Leading(line)) < Len(line) =>
                 line[Cardinality(Leading(line)) + 1] \notin Spaces
<1> DEFINE n == Len(line)
           T == {j \in 1 .. n + 1 : j = n + 1 \/ line[j] \notin Spaces}
<1>1. n \in Nat /\ DOMAIN line = 1 .. n
  OBVIOUS
<1> HIDE DEF n
<1>2. T \subseteq Nat /\ n + 1 \in T
  BY <1>1
<1>3. PICK e \in T : \A i \in T : e <= i
  BY <1>2, LeastNat
<1>4. \A j \in 1 .. e - 1 : line[j] \in Spaces
  <2> SUFFICES ASSUME NEW j \in 1 .. e - 1, line[j] \notin Spaces PROVE FALSE
    OBVIOUS
  <2>1. j \in T
    BY <1>1, <1>3
  <2> QED
    BY <1>1, <1>3, <2>1
<1>5. Leading(line) = 1 .. e - 1
  <2>1. ASSUME NEW j \in Leading(line) PROVE j \in 1 .. e - 1
    <3>1. j \in 1 .. n /\ \A m \in 1 .. j : line[m] \in Spaces
      BY <1>1 DEF Leading
    <3>2. CASE e <= j
      <4>1. e \in 1 .. j /\ e # n + 1
        BY <1>1, <1>3, <3>1, <3>2
      <4> QED
        BY <1>3, <3>1, <4>1
    <3> QED
      BY <1>1, <1>3, <3>1, <3>2
  <2>2. ASSUME NEW j \in 1 .. e - 1 PROVE j \in Leading(line)
    <3>1. j \in 1 .. n
      BY <1>1, <1>3
    <3>2. \A m \in 1 .. j : line[m] \in Spaces
      BY <1>1, <1>3, <1>4
    <3> QED
      BY <1>1, <3>1, <3>2 DEF Leading
  <2> QED
    BY <2>1, <2>2
<1>6. Cardinality(Leading(line)) = e - 1
  <2>1. e - 1 \in Int /\ 1 \in Int /\ e >= 1 /\ e <= n + 1
    BY <1>1, <1>3
  <2>2. Cardinality(1 .. e - 1) = IF 1 > e - 1 THEN 0 ELSE e - 1 - 1 + 1
    BY <2>1, FS_Interval
  <2> QED
    BY <1>5, <2>1, <2>2
<1>7. e >= 1 /\ e <= n + 1 /\ (e < n + 1 => line[e] \notin Spaces)
  BY <1>1, <1>3
<1> QED
  BY <1>1, <1>4, <1>5, <1>6, <1>7 DEF n

\* An indentation is a number, twice the spaces and twice the wider ones.
LEMMA IndentNat ==
    ASSUME NEW line \in Seq(Tokens)
    PROVE  Indent(line) \in Nat /\ ContentColumn(line) \in Nat
<1>1. ASSUME NEW l \in Seq(Tokens) PROVE Indent(l) \in Nat
  <2>1. IsFiniteSet(Leading(l))
    BY LeadingIs, FS_Interval
  <2>2. {k \in Leading(l) : l[k] = "s4"} \in SUBSET Leading(l)
    OBVIOUS
  <2>3. IsFiniteSet({k \in Leading(l) : l[k] = "s4"})
    BY <2>1, <2>2, FS_Subset
  <2>4. Cardinality({k \in Leading(l) : l[k] = "s4"}) \in Nat /\ Cardinality(Leading(l)) \in Nat
    BY <2>1, <2>3, FS_CardinalityType
  <2> QED
    BY <2>4 DEF Indent
<1>2. Cardinality(Leading(line)) + 2 \in Nat \ {0}
  BY LeadingIs
<1>3. AfterMarker(line) \in Seq(Tokens)
  <2> DEFINE c == Cardinality(Leading(line)) + 2
  <2>1. c \in Nat \ {0}
    BY <1>2
  <2> HIDE DEF c
  <2>2. SubSeq(line, c, Len(line)) \in Seq(Tokens)
    BY <2>1
  <2> QED
    BY <2>2 DEF AfterMarker, c
<1>4. Indent(line) \in Nat /\ Indent(AfterMarker(line)) \in Nat
  BY <1>1, <1>3
<1> QED
  BY <1>4 DEF ContentColumn

\* Closing items leaves an initial part of them.
LEMMA ClosedIs ==
    ASSUME NEW cols \in Seq(Nat), NEW indent \in Nat
    PROVE  Closed(cols, indent) \in Seq(Nat)
<1> DEFINE T == {0} \cup {k \in DOMAIN cols : cols[k] <= indent}
<1>1. T \subseteq 0 .. Len(cols) /\ 0 \in T /\ Len(cols) \in Nat
  OBVIOUS
<1>2. Max(T) \in 0 .. Len(cols)
  BY <1>1, MaxOfNats
<1> HIDE DEF T
<1>3. SubSeq(cols, 1, Max(T)) \in Seq(Nat)
  BY <1>2
<1> QED
  BY <1>3 DEF Closed, T
-----------------------------------------------------------------------------
(* Types.                                                                  *)

LEMMA TextTyped == ParseTypeOK => Text
BY DEF ParseTypeOK, Text

LEMMA OpenItemsType ==
    ASSUME ParseTypeOK, NEW line \in Seq(Tokens)
    PROVE  OpenItems(line) \in Seq(Nat) /\ Closed(columns, Indent(line)) \in Seq(Nat)
BY ClosedIs, IndentNat DEF OpenItems, ParseTypeOK

LEMMA OpenLineType ==
    ASSUME ParseTypeOK, phase = "lines", at \in Positions, OpenLine
    PROVE  /\ columns' \in Seq(Nat) /\ blockStart' \in Nat /\ paragraphOpen' \in BOOLEAN
           /\ code' \in SUBSET Span /\ prevBlank' \in BOOLEAN
<1> DEFINE line == Line(at)
<1>1. Text /\ at \in Nat \ {0} /\ at <= Len(content) + 1
  BY TextTyped DEF ParseTypeOK, Positions
<1>2. line \in Seq(Tokens)
  BY <1>1, LineIs
<1> HIDE DEF line
<1>3. /\ OpenItems(line) \in Seq(Nat) /\ Closed(columns, Indent(line)) \in Seq(Nat)
      /\ ContentColumn(line) \in Nat
  BY <1>2, OpenItemsType, IndentNat
<1>4. prevBlank' \in BOOLEAN
  BY DEF OpenLine, Blank
<1>5. EndBlock => blockStart' \in Nat /\ code' \in SUBSET Span
  BY DEF EndBlock, ParseTypeOK, Span
<1>6. CASE CodeLine(line)
  BY <1>3, <1>4, <1>6 DEF CodeLine, ParseTypeOK
<1>7. CASE LazyLine(line)
  BY <1>4, <1>7 DEF LazyLine, ParseTypeOK
<1>8. CASE MarkerLine(line)
  <2>1. paragraphOpen' \in BOOLEAN
    BY <1>8 DEF MarkerLine, HasItemContent, Blank
  <2>2. columns' \in Seq(Nat)
    BY <1>3, <1>8 DEF MarkerLine
  <2> QED
    BY <1>4, <1>5, <1>8, <2>1, <2>2 DEF MarkerLine
<1>9. CASE ContinuedLine(line)
  BY <1>3, <1>4, <1>9 DEF ContinuedLine, ParseTypeOK
<1>10. CASE TextLine(line)
  <2>1. paragraphOpen' \in BOOLEAN
    BY <1>10 DEF TextLine, StartsParagraphInterrupt
  <2> QED
    BY <1>3, <1>4, <1>5, <1>10, <2>1 DEF TextLine
<1>11. CASE BlankLine(line)
  BY <1>4, <1>5, <1>11 DEF BlankLine, ParseTypeOK
<1> QED
  BY <1>6, <1>7, <1>8, <1>9, <1>10, <1>11 DEF OpenLine, line

\* Every loop stays in the text: `at` is a position of it, or one past its end
\* (two for the last line), or counts the tokens.
InText ==
    /\ at >= 1
    /\ phase = "lines" => at <= Len(content) + 2
    /\ phase = "scan" => at <= Len(content) + 1
    /\ phase \in {"select", "done"} => at <= Len(tokens) + 1

LEMMA TypeInit == ParseInit => ParseTypeOK /\ InText
<1> SUFFICES ASSUME ParseInit PROVE ParseTypeOK /\ InText
  OBVIOUS
<1>1. content \in Seq(BlockTokens) \cup Seq(LinkTokens)
  BY WikilinksAssumption DEF ParseInit
<1>2. content \in Seq(BlockTokens \cup LinkTokens)
  BY <1>1
<1>3. Len(content) \in Nat
  BY <1>2
<1>4. InText
  BY <1>3 DEF ParseInit, InText
<1>5. ParseTypeOK
  <2>1. columns = <<>> /\ tokens = <<>> /\ code = {} /\ found = {}
    BY DEF ParseInit
  <2>2. columns \in Seq(Nat) /\ tokens \in Seq(Token)
    BY <2>1
  <2> QED
    BY <1>2, <2>1, <2>2 DEF ParseInit, ParseTypeOK
<1> QED
  BY <1>4, <1>5

LEMMA TokenType ==
    ASSUME ParseTypeOK, InText, TakeToken
    PROVE  /\ tokens' \in Seq(Token) /\ at' \in Nat
           /\ at' >= 1 /\ at' <= Len(content) + 1
<1> DEFINE open == RunLength(at, "[")
<1>1. Text /\ at \in Nat \ {0} /\ at <= Len(content) + 1 /\ at < Len(content)
  BY TextTyped DEF ParseTypeOK, InText, TakeToken, Scanning
<1>2. open \in Nat
  BY <1>1, RunIs
<1>3. PICK closeStart \in FirstOf(at + open, {"]"}) :
         \/ /\ Closes(open, closeStart)
            /\ tokens' = Append(tokens, [start |-> at, innerStart |-> at + open,
                                         innerEnd |-> closeStart, end |-> closeStart + open])
            /\ at' = closeStart + open
         \/ /\ ~Closes(open, closeStart)
            /\ at' = NextTry(open)
            /\ UNCHANGED tokens
  BY Zenon DEF TakeToken
<1> HIDE DEF open
<1>4. closeStart \in Nat \ {0} /\ closeStart <= Len(content) /\ Len(content) \in Nat
  <2>1. at + open \in Nat /\ Len(content) \in Nat
    BY <1>1, <1>2 DEF Text
  <2>2. closeStart \in (at + open) .. Len(content)
    BY <1>1, <1>3, <2>1, FirstOfIs
  <2> QED
    BY <1>1, <1>2, <2>1, <2>2
<1>5. CASE Closes(open, closeStart)
  <2>1. tokens' = Append(tokens, [start |-> at, innerStart |-> at + open,
                                  innerEnd |-> closeStart, end |-> closeStart + open])
        /\ at' = closeStart + open
    BY <1>3, <1>5
  <2>2. [start |-> at, innerStart |-> at + open,
         innerEnd |-> closeStart, end |-> closeStart + open] \in Token
    BY <1>1, <1>2, <1>4 DEF Token
  <2>3. tokens' \in Seq(Token)
    BY <2>1, <2>2 DEF ParseTypeOK
  <2>4. /\ RunLength(closeStart, "]") \in Nat
        /\ closeStart + RunLength(closeStart, "]") <= Len(content) + 1
    BY <1>1, <1>4, RunIs
  <2> QED
    BY <1>2, <1>4, <1>5, <2>1, <2>3, <2>4 DEF Closes
<1>6. CASE ~Closes(open, closeStart)
  BY <1>1, <1>3, <1>4, <1>6 DEF NextTry, ParseTypeOK
<1> QED
  BY <1>5, <1>6

LEMMA TypeNext == ParseTypeOK /\ InText /\ [ParseNext]_parseVars => ParseTypeOK' /\ InText'
<1> SUFFICES ASSUME ParseTypeOK, InText, [ParseNext]_parseVars PROVE ParseTypeOK' /\ InText'
  OBVIOUS
<1>1. Text /\ Len(content) \in Nat /\ at \in Nat \ {0}
  BY TextTyped DEF ParseTypeOK, InText
<1>2. CASE NextLine
  <2>1. at \in Positions /\ at <= Len(content) + 1
    BY <1>1, <1>2 DEF NextLine, Positions
  <2>2. LineEnd(at) \in at .. Len(content) + 1
    BY <1>1, <2>1, LineEndIs
  <2>3. at' \in Nat /\ at' >= 1 /\ at' <= Len(content) + 2
    BY <1>1, <1>2, <2>2 DEF NextLine
  <2>4. CASE FencedLine
    BY <1>2, <2>3, <2>4 DEF FencedLine, NextLine, lineVars, scanVars, ParseTypeOK, InText
  <2>5. CASE OpenLine
    BY <1>2, <2>1, <2>3, <2>5, OpenLineType DEF NextLine, scanVars, ParseTypeOK, InText
  <2> QED
    BY <1>2, <2>4, <2>5 DEF NextLine
<1>3. CASE EndOfLines
  <2>1. code' \in SUBSET Span
    BY <1>1, <1>3 DEF EndOfLines, ParseTypeOK, Span
  <2> QED
    BY <1>1, <1>3, <2>1 DEF EndOfLines, scanVars, ParseTypeOK, InText
<1>4. CASE SkipText
  <2> DEFINE T == FirstOf(at, {"["}) \cup {Len(content) + 1}
  <2>1. T \subseteq 1 .. Len(content) + 1 /\ T # {}
    BY <1>1 DEF FirstOf
  <2>2. Min(T) \in T
    BY <1>1, <2>1, MinOfNats
  <2>3. at' = Min(T)
    BY <1>4 DEF SkipText
  <2> HIDE DEF T
  <2>4. at' \in 1 .. Len(content) + 1
    BY <2>1, <2>2, <2>3
  <2> QED
    BY <1>1, <1>4, <2>4 DEF SkipText, Scanning, lineVars, scanVars, ParseTypeOK, InText
<1>5. CASE SkipBracket
  BY <1>1, <1>5 DEF SkipBracket, Scanning, lineVars, scanVars, ParseTypeOK, InText
<1>6. CASE TakeToken
  BY <1>6, TokenType DEF TakeToken, Scanning, lineVars, ParseTypeOK, InText
<1>7. CASE EndOfScan
  BY <1>7 DEF EndOfScan, lineVars, scanVars, ParseTypeOK, InText
<1>8. CASE DropToken
  BY <1>8 DEF DropToken, Selecting, lineVars, scanVars, ParseTypeOK, InText
<1>9. CASE PlainLink
  <2>1. tokens[at] \in Token
    BY <1>1, <1>9 DEF PlainLink, Selecting, ParseTypeOK
  <2>2. [start |-> tokens[at].start, bracketEnd |-> tokens[at].end, end |-> tokens[at].end]
           \in [start : Nat, bracketEnd : Nat, end : Nat]
    BY <2>1 DEF Token
  <2>3. found' = found \cup {[start |-> tokens[at].start, bracketEnd |-> tokens[at].end,
                              end |-> tokens[at].end]}
    BY <1>9 DEF PlainLink
  <2>4. found' \in SUBSET [start : Nat, bracketEnd : Nat, end : Nat]
    BY <2>2, <2>3 DEF ParseTypeOK
  <2> QED
    BY <1>9, <2>4 DEF PlainLink, Selecting, lineVars, ParseTypeOK, InText
<1>10. CASE LinkWithDestination
  <2>1. tokens[at] \in Token
    BY <1>1, <1>10 DEF LinkWithDestination, Selecting, ParseTypeOK
  <2>2. PICK link \in Candidates(tokens[at]) :
           /\ found' = found \cup {link}
           /\ suppressedUntil' = IF Nests(link) THEN suppressedUntil ELSE link.end
    BY <1>10 DEF LinkWithDestination
  <2>3. PICK close \in Balancing(tokens[at].end) :
           link = [start |-> tokens[at].start, bracketEnd |-> tokens[at].end, end |-> close + 1]
    BY <2>2 DEF Candidates
  <2>4. close \in tokens[at].end .. Len(content)
    BY <2>3 DEF Balancing, Marks
  <2>5. link \in [start : Nat, bracketEnd : Nat, end : Nat]
    BY <1>1, <2>1, <2>3, <2>4 DEF Token
  <2> QED
    BY <1>10, <2>2, <2>5 DEF LinkWithDestination, Selecting, lineVars, ParseTypeOK, InText
<1>11. CASE EndOfTokens
  BY <1>11 DEF EndOfTokens, lineVars, scanVars, ParseTypeOK, InText
<1>12. CASE UNCHANGED parseVars
  BY <1>12 DEF parseVars, lineVars, scanVars, ParseTypeOK, InText
<1> QED
  BY <1>2, <1>3, <1>4, <1>5, <1>6, <1>7, <1>8, <1>9, <1>10, <1>11, <1>12 DEF ParseNext
-----------------------------------------------------------------------------
(* The text never changes, and what is read off it does not either.        *)

LEMMA TextStays == [ParseNext]_parseVars => content' = content
BY DEF ParseNext, parseVars, NextLine, EndOfLines, SkipText, SkipBracket, TakeToken, EndOfScan,
       DropToken, PlainLink, LinkWithDestination, EndOfTokens

LEMMA SameSpans ==
    ASSUME content' = content
    PROVE  /\ fencedCodeBlockRanges' = fencedCodeBlockRanges
           /\ inlineCodeRanges' = inlineCodeRanges
           /\ htmlCommentRanges' = htmlCommentRanges
<1>1. ASSUME NEW closing PROVE Spans(closing)' = Spans(closing)
  BY DEF Spans, Positions, FirstOf
<1>2. fencedCodeBlockRanges' = fencedCodeBlockRanges
  BY <1>1 DEF fencedCodeBlockRanges
<1>3. inlineCodeRanges' = inlineCodeRanges
  BY <1>1 DEF inlineCodeRanges
<1>4. htmlCommentRanges' = htmlCommentRanges
  BY <1>1 DEF htmlCommentRanges
<1> QED
  BY <1>2, <1>3, <1>4

LEMMA SameEscapes ==
    ASSUME content' = content, NEW k
    PROVE  Escaped(k)' <=> Escaped(k)
BY DEF Escaped

LEMMA SameExclusion ==
    ASSUME content' = content, code' = code, NEW token
    PROVE  Excluded(token)' <=> Excluded(token)
<1>1. Escaped(token.start)' <=> Escaped(token.start)
  BY SameEscapes
<1>2. Escaped(token.innerEnd)' <=> Escaped(token.innerEnd)
  BY SameEscapes
<1>3. (fencedCodeBlockRanges \cup code \cup inlineCodeRanges \cup htmlCommentRanges)'
         = fencedCodeBlockRanges \cup code \cup inlineCodeRanges \cup htmlCommentRanges
  BY SameSpans
<1> QED
  BY <1>1, <1>2, <1>3 DEF Excluded

LEMMA SameMarks ==
    ASSUME content' = content, NEW from, NEW to, NEW mark
    PROVE  Marks(from, to, mark)' = Marks(from, to, mark)
BY SameEscapes DEF Marks

LEMMA SameDestination ==
    ASSUME content' = content, NEW open, NEW close
    PROVE  Destination(open, close)' = Destination(open, close)
<1>1. \A f, t, m : Marks(f, t, m)' = Marks(f, t, m)
  BY SameMarks
<1>2. \A f, t : NotWhite(f, t)' = NotWhite(f, t)
  BY DEF NotWhite
<1> QED
  BY <1>1, <1>2 DEF Destination

LEMMA SameCandidates ==
    ASSUME content' = content, NEW token
    PROVE  Candidates(token)' = Candidates(token) /\ (Adjacent(token)' <=> Adjacent(token))
<1>1. \A f, t, m : Marks(f, t, m)' = Marks(f, t, m)
  BY SameMarks
<1>2. \A f, t : Destination(f, t)' = Destination(f, t)
  BY SameDestination
<1>3. \A k : Balancing(k)' = Balancing(k)
  BY <1>1 DEF Balancing
<1>4. Candidates(token)' = Candidates(token)
  BY <1>2, <1>3 DEF Candidates
<1>5. Adjacent(token)' <=> Adjacent(token)
  BY DEF Adjacent
<1> QED
  BY <1>4, <1>5

LEMMA SameNesting ==
    ASSUME content' = content, NEW link
    PROVE  Nests(link)' <=> Nests(link)
<1>1. \A f, t : Destination(f, t)' = Destination(f, t)
  BY SameDestination
<1> QED
  BY <1>1 DEF Nests
-----------------------------------------------------------------------------
(* The tokens of the scan.                                                 *)

Whole(t) ==
    /\ t.start >= 1 /\ t.end <= Len(content) + 1
    /\ t.innerStart - t.start = t.end - t.innerEnd /\ t.innerStart >= t.start + 2
    /\ t.innerStart < t.innerEnd
    /\ content[t.innerStart] # "["
    /\ \A j \in t.innerStart .. t.innerEnd - 1 : content[j] # "]"
    /\ \A j \in t.start .. t.innerStart - 1 : content[j] = "["
    /\ \A j \in t.innerEnd .. t.end - 1 : content[j] = "]"

TokenInv ==
    /\ \A i \in DOMAIN tokens : Whole(tokens[i])
    /\ \A i, j \in DOMAIN tokens : i < j => tokens[i].end <= tokens[j].start
    /\ phase = "scan" => \A i \in DOMAIN tokens : tokens[i].end <= at
    /\ phase = "lines" => tokens = <<>>

LEMMA TakenToken ==
    ASSUME ParseTypeOK, InText, TakeToken
    PROVE  \/ /\ at' = at + 1
              /\ tokens' = tokens
           \/ \E t \in Token :
                 /\ tokens' = Append(tokens, t)
                 /\ t.start = at /\ at' = t.end
                 /\ Whole(t)
<1> DEFINE open == RunLength(at, "[")
<1>1. Text /\ at \in Nat \ {0} /\ at <= Len(content) + 1 /\ at < Len(content) /\ Len(content) \in Nat
  BY TextTyped DEF ParseTypeOK, InText, TakeToken, Scanning
<1>2. /\ open \in Nat /\ \A j \in at .. at + open - 1 : content[j] = "["
      /\ at + open <= Len(content) => content[at + open] # "["
  BY <1>1, RunIs
<1>3. PICK closeStart \in FirstOf(at + open, {"]"}) :
         \/ /\ Closes(open, closeStart)
            /\ tokens' = Append(tokens, [start |-> at, innerStart |-> at + open,
                                         innerEnd |-> closeStart, end |-> closeStart + open])
            /\ at' = closeStart + open
         \/ /\ ~Closes(open, closeStart)
            /\ at' = NextTry(open)
            /\ UNCHANGED tokens
  BY Zenon DEF TakeToken
<1>4. open >= 2
  BY DEF TakeToken
<1> HIDE DEF open
<1>5. /\ closeStart \in (at + open) .. Len(content)
      /\ \A m \in at + open .. closeStart - 1 : content[m] \notin {"]"}
  <2>1. at + open \in Nat
    BY <1>1, <1>2
  <2> QED
    BY <1>1, <1>3, <2>1, FirstOfIs
<1>6. CASE Closes(open, closeStart)
  <2> DEFINE t == [start |-> at, innerStart |-> at + open,
                   innerEnd |-> closeStart, end |-> closeStart + open]
  <2>1. tokens' = Append(tokens, t) /\ at' = closeStart + open
    BY <1>3, <1>6
  <2>2. t.start = at /\ t.innerStart = at + open /\ t.innerEnd = closeStart /\ t.end = closeStart + open
    OBVIOUS
  <2>3. closeStart \in Nat \ {0} /\ closeStart <= Len(content) + 1
    BY <1>1, <1>2, <1>5
  <2>4. /\ RunLength(closeStart, "]") \in Nat
        /\ closeStart + RunLength(closeStart, "]") <= Len(content) + 1
        /\ \A j \in closeStart .. closeStart + RunLength(closeStart, "]") - 1 : content[j] = "]"
    BY <1>1, <2>3, RunIs
  <2>5. closeStart # at + open /\ RunLength(closeStart, "]") >= open
    BY <1>6 DEF Closes
  <2>6. t \in Token
    BY <1>1, <1>2, <2>3 DEF Token
  <2> HIDE DEF t
  <2>7. Whole(t)
    <3>1. t.start >= 1 /\ t.end <= Len(content) + 1
      BY <1>1, <1>2, <2>2, <2>3, <2>4, <2>5
    <3>2. t.innerStart - t.start = t.end - t.innerEnd /\ t.innerStart >= t.start + 2
      BY <1>1, <1>2, <1>4, <2>2, <2>3
    <3>3. t.innerStart < t.innerEnd
      BY <1>1, <1>2, <1>5, <2>2, <2>3, <2>5
    <3>4. content[t.innerStart] # "["
      BY <1>1, <1>2, <1>5, <2>2, <2>3
    <3>5. \A j \in t.innerStart .. t.innerEnd - 1 : content[j] # "]"
      BY <1>5, <2>2
    <3>6. \A j \in t.start .. t.innerStart - 1 : content[j] = "["
      <4>1. t.start .. t.innerStart - 1 = at .. at + open - 1
        BY <1>1, <1>2, <2>2
      <4> QED
        BY <1>2, <4>1
    <3>7. \A j \in t.innerEnd .. t.end - 1 : content[j] = "]"
      <4>1. \A j \in closeStart .. closeStart + open - 1 :
               j \in closeStart .. closeStart + RunLength(closeStart, "]") - 1
        BY <1>2, <2>3, <2>4, <2>5
      <4>2. t.innerEnd .. t.end - 1 = closeStart .. closeStart + open - 1
        BY <1>2, <2>2, <2>3
      <4> QED
        BY <2>4, <4>1, <4>2
    <3> QED
      BY <3>1, <3>2, <3>3, <3>4, <3>5, <3>6, <3>7 DEF Whole
  <2> QED
    BY <2>1, <2>2, <2>6, <2>7
<1>7. CASE ~Closes(open, closeStart)
  BY <1>3, <1>7 DEF NextTry
<1> QED
  BY <1>6, <1>7

LEMMA WholeStays ==
    ASSUME content' = content, NEW t
    PROVE  Whole(t)' <=> Whole(t)
BY DEF Whole

LEMMA TokenNext ==
    ASSUME ParseTypeOK, InText, TokenInv, [ParseNext]_parseVars
    PROVE  TokenInv'
<1>1. content' = content
  BY TextStays
<1>2. \A t : Whole(t)' <=> Whole(t)
  BY <1>1, WholeStays
<1>0. ParseTypeOK'
  BY TypeNext
<1>3. CASE UNCHANGED tokens /\ (phase' = "scan" => phase = "scan" /\ at <= at') /\ (phase' = "lines" => phase = "lines")
  <2>1. ASSUME phase' = "scan" PROVE \A i \in DOMAIN tokens : tokens[i].end <= at'
    <3>1. at \in Nat /\ at' \in Nat /\ at <= at'
      BY <1>0, <1>3, <2>1 DEF ParseTypeOK
    <3>2. \A i \in DOMAIN tokens : tokens[i].end \in Nat
      <4>1. \A i \in DOMAIN tokens : tokens[i] \in Token
        BY DEF ParseTypeOK
      <4> QED
        BY <4>1 DEF Token
    <3>3. \A i \in DOMAIN tokens : tokens[i].end <= at
      BY <1>3, <2>1 DEF TokenInv
    <3> QED
      BY <3>1, <3>2, <3>3
  <2> QED
    BY <1>2, <1>3, <2>1 DEF TokenInv
<1>4. CASE NextLine
  BY <1>2, <1>4 DEF NextLine, scanVars, TokenInv
<1>5. CASE EndOfLines
  BY <1>5 DEF EndOfLines, scanVars, TokenInv
<1>6. CASE SkipText
  <2> DEFINE T == FirstOf(at, {"["}) \cup {Len(content) + 1}
  <2>1. at \in Nat /\ Len(content) \in Nat /\ at < Len(content)
    BY <1>6 DEF SkipText, Scanning, ParseTypeOK
  <2>2. T \subseteq Nat /\ T # {} /\ \A k \in T : at <= k
    BY <2>1 DEF FirstOf
  <2>3. Min(T) \in T
    BY <2>2, MinOfNats
  <2>4. at' = Min(T)
    BY <1>6 DEF SkipText
  <2> HIDE DEF T
  <2>5. at <= at'
    BY <2>2, <2>3, <2>4
  <2> QED
    BY <1>3, <1>6, <2>5 DEF SkipText, Scanning, scanVars
<1>7. CASE SkipBracket
  BY <1>3, <1>7 DEF SkipBracket, Scanning, scanVars, ParseTypeOK
<1>8. CASE TakeToken
  <2>1. phase = "scan" /\ phase' = "scan" /\ at \in Nat
    BY <1>8 DEF TakeToken, Scanning, ParseTypeOK
  <2>2. CASE at' = at + 1 /\ tokens' = tokens
    BY <1>3, <2>1, <2>2
  <2>3. ASSUME NEW t \in Token, tokens' = Append(tokens, t), t.start = at, at' = t.end, Whole(t)
        PROVE  TokenInv'
    <3>1. /\ Len(tokens) \in Nat /\ Len(tokens') = Len(tokens) + 1
          /\ DOMAIN tokens = 1 .. Len(tokens) /\ DOMAIN tokens' = 1 .. Len(tokens) + 1
          /\ \A i \in 1 .. Len(tokens) : tokens[i] \in Token /\ tokens'[i] = tokens[i]
          /\ tokens'[Len(tokens) + 1] = t
      BY <2>3 DEF ParseTypeOK
    <3>2. \A i \in 1 .. Len(tokens) : tokens[i].end <= at
      BY <2>1, <3>1 DEF TokenInv
    <3>3. t.start \in Nat /\ t.end \in Nat /\ t.start <= t.end
      <4>1. /\ t.start \in Nat /\ t.innerStart \in Nat /\ t.innerEnd \in Nat /\ t.end \in Nat
        BY DEF Token
      <4> QED
        BY <2>3, <4>1 DEF Whole
    <3>4. \A i \in DOMAIN tokens' : Whole(tokens[i])'
      <4> SUFFICES ASSUME NEW i \in DOMAIN tokens' PROVE Whole(tokens[i])'
        OBVIOUS
      <4>1. Whole(tokens'[i])
        BY <2>3, <3>1 DEF TokenInv
      <4> QED
        BY <1>1, <4>1 DEF Whole
    <3>5. \A i, j \in DOMAIN tokens' : i < j => tokens'[i].end <= tokens'[j].start
      <4> SUFFICES ASSUME NEW i \in DOMAIN tokens', NEW j \in DOMAIN tokens', i < j
                   PROVE  tokens'[i].end <= tokens'[j].start
        OBVIOUS
      <4>1. CASE j = Len(tokens) + 1
        BY <2>3, <3>1, <3>2, <4>1
      <4>2. CASE j # Len(tokens) + 1
        BY <3>1, <4>2 DEF TokenInv
      <4> QED
        BY <4>1, <4>2
    <3>6. \A i \in DOMAIN tokens' : tokens'[i].end <= at'
      <4> SUFFICES ASSUME NEW i \in DOMAIN tokens' PROVE tokens'[i].end <= at'
        OBVIOUS
      <4>1. CASE i = Len(tokens) + 1
        BY <2>3, <3>1, <3>3, <4>1
      <4>2. CASE i # Len(tokens) + 1
        <5>1. i \in 1 .. Len(tokens)
          BY <3>1, <4>2
        <5>2. tokens[i].end <= t.start /\ tokens[i].end \in Nat
          BY <2>3, <3>1, <3>2, <5>1 DEF Token
        <5> QED
          BY <2>3, <3>1, <3>3, <5>1, <5>2
      <4> QED
        BY <4>1, <4>2
    <3> QED
      BY <2>1, <3>4, <3>5, <3>6 DEF TokenInv
  <2> QED
    BY <1>8, <2>2, <2>3, TakenToken
<1>9. CASE EndOfScan
  BY <1>3, <1>9 DEF EndOfScan, scanVars
<1>10. CASE DropToken
  BY <1>3, <1>10 DEF DropToken, Selecting, scanVars
<1>11. CASE PlainLink
  BY <1>3, <1>11 DEF PlainLink, Selecting
<1>12. CASE LinkWithDestination
  BY <1>3, <1>12 DEF LinkWithDestination, Selecting
<1>13. CASE EndOfTokens
  BY <1>3, <1>13 DEF EndOfTokens, scanVars
<1>14. CASE UNCHANGED parseVars
  BY <1>3, <1>14 DEF parseVars, scanVars, ParseTypeOK
<1> QED
  BY <1>4, <1>5, <1>6, <1>7, <1>8, <1>9, <1>10, <1>11, <1>12, <1>13, <1>14 DEF ParseNext
-----------------------------------------------------------------------------
(* The links of the selection.                                             *)

FromToken(l, t) ==
    /\ l.start = t.start /\ l.bracketEnd = t.end
    /\ ~Excluded(t)
    /\ \/ l.end = t.end
       \/ /\ l \in Candidates(t) /\ Adjacent(t)
          /\ Nests(l) \/ l.end <= suppressedUntil

Selected == {tokens[i] : i \in 1 .. at - 1}

LinkInv ==
    /\ phase \in {"lines", "scan"} => found = {} /\ suppressedUntil = 0
    /\ phase \in {"select", "done"} => \A l \in found : \E t \in Selected : FromToken(l, t)
    /\ \A l, m \in found : l.start < m.start /\ m.start < l.end => Nests(l)

LEMMA FromTokenStays ==
    ASSUME content' = content, code' = code, ParseTypeOK, ParseTypeOK',
           suppressedUntil <= suppressedUntil',
           NEW l \in [start : Nat, bracketEnd : Nat, end : Nat], NEW t, FromToken(l, t)
    PROVE  FromToken(l, t)'
<1>1. Excluded(t)' <=> Excluded(t)
  BY SameExclusion
<1>2. Candidates(t)' = Candidates(t) /\ (Adjacent(t)' <=> Adjacent(t))
  BY SameCandidates
<1>3. Nests(l)' <=> Nests(l)
  BY SameNesting
<1>4. l.end <= suppressedUntil => l.end <= suppressedUntil'
  BY DEF ParseTypeOK
<1> QED
  BY <1>1, <1>2, <1>3, <1>4 DEF FromToken

\* A candidate begins as its token does and ends behind it.
LEMMA CandidateIs ==
    ASSUME Text, NEW t \in Token, Whole(t), NEW l \in Candidates(t)
    PROVE  /\ l \in [start : Nat, bracketEnd : Nat, end : Nat]
           /\ l.start = t.start /\ l.bracketEnd = t.end
           /\ l.start < l.bracketEnd /\ l.bracketEnd < l.end /\ l.end <= Len(content) + 1
           /\ content[l.end - 1] = ")"
           /\ Destination(l.bracketEnd, l.end - 1) # {}
<1>1. /\ t.start \in Nat /\ t.innerStart \in Nat /\ t.innerEnd \in Nat /\ t.end \in Nat
  BY DEF Token
<1>2. PICK k \in Balancing(t.end) :
         Destination(t.end, k) # {} /\ l = [start |-> t.start, bracketEnd |-> t.end, end |-> k + 1]
  BY DEF Candidates
<1>3. k \in t.end .. Len(content) /\ content[k] = ")" /\ Len(content) \in Nat
  BY <1>2 DEF Balancing, Marks, Text
<1>4. k \in Nat /\ (k + 1) - 1 = k /\ t.end < k + 1
  BY <1>1, <1>3
<1>5. l.start = t.start /\ l.bracketEnd = t.end /\ l.end = k + 1
  BY <1>2
<1>6. t.start < t.end
  BY <1>1 DEF Whole
<1> QED
  BY <1>1, <1>2, <1>3, <1>4, <1>5, <1>6
LEMMA SelectedIs ==
    ASSUME ParseTypeOK, InText, TokenInv, phase \in {"select", "done"}, NEW t \in Selected
    PROVE  /\ t \in Token /\ Whole(t) /\ t.start \in Nat /\ t.end \in Nat /\ t.start < t.end
           /\ at <= Len(tokens) => t.end <= tokens[at].start
<1>1. PICK i \in 1 .. at - 1 : t = tokens[i]
  BY DEF Selected
<1>2. i \in DOMAIN tokens /\ i < at /\ at \in Nat /\ at >= 1
  BY DEF ParseTypeOK, InText
<1>3. t \in Token /\ Whole(t)
  BY <1>1, <1>2 DEF ParseTypeOK, TokenInv
<1>4. t.start \in Nat /\ t.innerStart \in Nat /\ t.innerEnd \in Nat /\ t.end \in Nat
  BY <1>3 DEF Token
<1>5. t.start < t.end
  BY <1>3, <1>4 DEF Whole
<1>6. at <= Len(tokens) => at \in DOMAIN tokens
  BY <1>2 DEF ParseTypeOK
<1> QED
  BY <1>1, <1>2, <1>3, <1>4, <1>5, <1>6 DEF TokenInv

\* What a step that adds one link at most keeps.
LEMMA LinkAdded ==
    ASSUME ParseTypeOK, ParseTypeOK', InText, TokenInv, LinkInv, content' = content, code' = code,
           Selecting, phase' = "select", tokens' = tokens, at' = at + 1,
           NEW t \in Token, t = tokens[at], NEW l, found' = found \cup {l},
           suppressedUntil <= t.start, suppressedUntil <= suppressedUntil',
           l \in [start : Nat, bracketEnd : Nat, end : Nat],
           FromToken(l, t)'
    PROVE  LinkInv'
<1>1. at \in 1 .. Len(tokens) /\ Len(tokens) \in Nat /\ phase = "select"
  BY DEF Selecting, ParseTypeOK, InText
<1>2. Selected' = Selected \cup {t}
  <2>1. at \in Nat /\ at >= 1
    BY <1>1
  <2>2. 1 .. at' - 1 = 1 .. at - 1 \cup {at}
    BY <2>1
  <2> QED
    BY <2>2 DEF Selected
<1>3. ASSUME NEW m \in found'
      PROVE  \E u \in Selected' : FromToken(m, u)'
  <2>1. CASE m = l
    BY <1>2, <2>1
  <2>2. CASE m \in found
    <3>1. m \in [start : Nat, bracketEnd : Nat, end : Nat]
      BY <2>2 DEF ParseTypeOK
    <3>2. PICK u \in Selected : FromToken(m, u)
      BY <1>1, <2>2 DEF LinkInv
    <3>3. FromToken(m, u)'
      BY <3>1, <3>2, FromTokenStays
    <3> QED
      BY <1>2, <3>2, <3>3
  <2> QED
    BY <2>1, <2>2
<1>4. ASSUME NEW k \in found', NEW m \in found', k.start < m.start, m.start < k.end
      PROVE  Nests(k)'
  <2>1. Nests(k)' <=> Nests(k)
    BY SameNesting
  <2>2. CASE k \in found /\ m \in found
    BY <1>4, <2>1, <2>2 DEF LinkInv
  <2>3. l.start = t.start /\ t.start \in Nat
    BY DEF FromToken, Token
  <2>4. CASE k = l /\ m \in found
    <3>1. PICK u \in Selected : FromToken(m, u)
      BY <1>1, <2>4 DEF LinkInv
    <3>2. u.start \in Nat /\ u.end \in Nat /\ u.start < u.end /\ u.end <= t.start
      BY <1>1, <3>1, SelectedIs
    <3>3. m.start = u.start
      BY <3>1 DEF FromToken
    <3> QED
      BY <1>4, <2>3, <2>4, <3>2, <3>3
  <2>5. CASE k \in found /\ m = l
    <3>1. PICK u \in Selected : FromToken(k, u)
      BY <1>1, <2>5 DEF LinkInv
    <3>2. u.end \in Nat /\ u.end <= t.start
      BY <1>1, <3>1, SelectedIs
    <3>5. suppressedUntil \in Nat
      BY DEF ParseTypeOK
    <3>3. k.end \in Nat /\ ~(k.end <= t.start)
      BY <1>4, <2>3, <2>5 DEF ParseTypeOK
    <3>4. Nests(k)
      BY <2>3, <3>1, <3>2, <3>3, <3>5 DEF FromToken
    <3> QED
      BY <2>1, <3>4
  <2>6. CASE k = l /\ m = l
    BY <1>4, <2>3, <2>6
  <2> QED
    BY <2>2, <2>4, <2>5, <2>6
<1> QED
  BY <1>3, <1>4 DEF LinkInv
LEMMA LinkNext ==
    ASSUME ParseTypeOK, InText, TokenInv, LinkInv, [ParseNext]_parseVars
    PROVE  LinkInv'
<1>1. content' = content /\ ParseTypeOK'
  BY TextStays, TypeNext
<1>2. CASE phase' = phase /\ phase' \in {"lines", "scan"} /\ UNCHANGED <<found, suppressedUntil>>
  BY <1>2 DEF LinkInv
<1>3. CASE phase \in {"lines", "scan"} /\ UNCHANGED <<found, suppressedUntil>>
  BY <1>3 DEF LinkInv
<1>4. CASE /\ phase \in {"select", "done"} /\ phase' \in {"select", "done"}
           /\ UNCHANGED <<found, suppressedUntil, code, tokens>> /\ at <= at'
  <2>1. Selected \subseteq Selected'
    <3>1. at \in Nat /\ at' \in Nat
      BY <1>1 DEF ParseTypeOK
    <3>2. PICK n \in Nat : n = at'
      BY <3>1
    <3>4. at <= n
      BY <1>4, <3>2
    <3>3. 1 .. at - 1 \subseteq 1 .. n - 1
      BY <3>1, <3>4
    <3> QED
      BY <1>4, <3>2, <3>3 DEF Selected
  <2>2. ASSUME NEW l \in found' PROVE \E t \in Selected' : FromToken(l, t)'
    <3>1. l \in found /\ l \in [start : Nat, bracketEnd : Nat, end : Nat]
      BY <1>4, <2>2 DEF ParseTypeOK
    <3>2. PICK t \in Selected : FromToken(l, t)
      BY <1>4, <3>1 DEF LinkInv
    <3>3. suppressedUntil <= suppressedUntil'
      BY <1>4 DEF ParseTypeOK
    <3>4. FromToken(l, t)'
      BY <1>1, <1>4, <3>1, <3>2, <3>3, FromTokenStays
    <3> QED
      BY <2>1, <3>2, <3>4
  <2>3. \A l : Nests(l)' <=> Nests(l)
    BY <1>1, SameNesting
  <2> QED
    BY <1>4, <2>2, <2>3 DEF LinkInv
<1>5. CASE NextLine
  BY <1>3, <1>5 DEF NextLine, scanVars
<1>6. CASE EndOfLines
  BY <1>3, <1>6 DEF EndOfLines, scanVars
<1>7. CASE SkipText
  BY <1>3, <1>7 DEF SkipText, Scanning, scanVars
<1>8. CASE SkipBracket
  BY <1>3, <1>8 DEF SkipBracket, Scanning, scanVars
<1>9. CASE TakeToken
  BY <1>3, <1>9 DEF TakeToken, Scanning
<1>10. CASE EndOfScan
  BY <1>3, <1>10 DEF EndOfScan, scanVars
<1>11. CASE DropToken
  BY <1>4, <1>11 DEF DropToken, Selecting, scanVars, lineVars, ParseTypeOK
<1>12. CASE PlainLink
  <2>1. Selecting /\ phase' = "select" /\ tokens' = tokens /\ at' = at + 1 /\ code' = code
        /\ suppressedUntil' = suppressedUntil
    BY <1>12 DEF PlainLink, Selecting, lineVars
  <2>2. PICK t \in Token : t = tokens[at]
    BY <2>1 DEF Selecting, ParseTypeOK, InText
  <2> DEFINE l == [start |-> t.start, bracketEnd |-> t.end, end |-> t.end]
  <2>3. found' = found \cup {l} /\ ~Suppressed(t) /\ ~Excluded(t)
    BY <1>12, <2>2 DEF PlainLink
  <2>4. l.start = t.start /\ l.bracketEnd = t.end /\ l.end = t.end
    OBVIOUS
  <2>5. l \in [start : Nat, bracketEnd : Nat, end : Nat]
    BY DEF Token
  <2> HIDE DEF l
  <2>6. ~Excluded(t)'
    BY <1>1, <2>1, <2>3, SameExclusion
  <2>7. FromToken(l, t)'
    BY <2>4, <2>6 DEF FromToken
  <2>8. suppressedUntil <= t.start /\ suppressedUntil <= suppressedUntil'
    BY <2>1, <2>3 DEF Suppressed, ParseTypeOK, Token
  <2> QED
    BY <1>1, <2>1, <2>2, <2>3, <2>5, <2>7, <2>8, LinkAdded
<1>13. CASE LinkWithDestination
  <2>1. Selecting /\ phase' = "select" /\ tokens' = tokens /\ at' = at + 1 /\ code' = code
    BY <1>13 DEF LinkWithDestination, Selecting, lineVars
  <2>2. at \in DOMAIN tokens
    BY <2>1 DEF Selecting, ParseTypeOK, InText
  <2>3. PICK t \in Token : t = tokens[at]
    BY <2>2 DEF ParseTypeOK
  <2>4. ~Suppressed(t) /\ ~Excluded(t) /\ Adjacent(t)
    BY <1>13, <2>3 DEF LinkWithDestination
  <2>5. PICK l \in Candidates(t) :
           /\ found' = found \cup {l}
           /\ suppressedUntil' = IF Nests(l) THEN suppressedUntil ELSE l.end
    BY <1>13, <2>3 DEF LinkWithDestination
  <2>6. Whole(t) /\ Text
    BY <2>2, <2>3, TextTyped DEF TokenInv
  <2>7. /\ l \in [start : Nat, bracketEnd : Nat, end : Nat]
        /\ l.start = t.start /\ l.bracketEnd = t.end
        /\ l.start < l.bracketEnd /\ l.bracketEnd < l.end
    BY <2>5, <2>6, CandidateIs
  <2>8. suppressedUntil <= t.start /\ suppressedUntil <= suppressedUntil'
        /\ (Nests(l) \/ l.end <= suppressedUntil')
    BY <2>4, <2>5, <2>7 DEF Suppressed, ParseTypeOK
  <2>9. FromToken(l, t)'
    <3>1. ~Excluded(t)'
      BY <1>1, <2>1, <2>4, SameExclusion
    <3>2. l \in Candidates(t)' /\ Adjacent(t)'
      BY <1>1, <2>4, <2>5, SameCandidates
    <3>3. Nests(l)' <=> Nests(l)
      BY <1>1, SameNesting
    <3> QED
      BY <2>7, <2>8, <3>1, <3>2, <3>3 DEF FromToken
  <2> QED
    BY <1>1, <2>1, <2>3, <2>5, <2>7, <2>8, <2>9, LinkAdded
<1>14. CASE EndOfTokens
  BY <1>4, <1>14 DEF EndOfTokens, scanVars, lineVars, ParseTypeOK
<1>15. CASE UNCHANGED parseVars
  BY <1>3, <1>4, <1>15 DEF parseVars, scanVars, lineVars, ParseTypeOK
<1> QED
  BY <1>5, <1>6, <1>7, <1>8, <1>9, <1>10, <1>11, <1>12, <1>13, <1>14, <1>15 DEF ParseNext
-----------------------------------------------------------------------------
(* The links are whole.                                                    *)

ScanIInv == ParseTypeOK /\ InText /\ TokenInv /\ LinkInv

LEMMA TokensAreWhole ==
    ASSUME TokenInv, NEW i \in DOMAIN tokens
    PROVE  Whole(tokens[i])
BY DEF TokenInv

\* What precedes a destination is white.
LEMMA DestinationIs ==
    ASSUME Text, NEW open \in Nat, NEW close \in Nat, NEW d \in Destination(open, close)
    PROVE  /\ NotWhite(open + 1, close - 1) # {}
           /\ d.start = Min(NotWhite(open + 1, close - 1))
BY DEF Destination

\* A link that overlaps an earlier one opens in its destination.
LEMMA OverlapNests ==
    ASSUME ScanIInv, phase \in {"select", "done"}, NEW l \in found, NEW m \in found,
           l.start < m.start, m.start < l.end
    PROVE  /\ l.bracketEnd < m.start
           /\ LET first == Min(NotWhite(l.bracketEnd + 1, m.start))
              IN  content[first] = "[" /\ content[first + 1] = "["
<1>1. ParseTypeOK /\ InText /\ TokenInv /\ LinkInv /\ Text /\ Len(content) \in Nat
  BY TextTyped DEF ScanIInv, Text
<1>2. PICK t \in Selected : FromToken(l, t)
  BY <1>1 DEF LinkInv
<1>3. PICK u \in Selected : FromToken(m, u)
  BY <1>1 DEF LinkInv
<1>4. /\ t \in Token /\ Whole(t) /\ t.start \in Nat /\ t.end \in Nat /\ t.start < t.end
      /\ u \in Token /\ Whole(u) /\ u.start \in Nat /\ u.end \in Nat /\ u.start < u.end
  BY <1>1, SelectedIs
<1>5. t.end <= u.start
  <2>1. PICK i \in 1 .. at - 1 : t = tokens[i]
    BY DEF Selected
  <2>2. PICK j \in 1 .. at - 1 : u = tokens[j]
    BY DEF Selected
  <2>3. i \in DOMAIN tokens /\ j \in DOMAIN tokens /\ i \in Nat /\ j \in Nat
    BY <1>1 DEF ParseTypeOK, InText
  <2>4. l.start = t.start /\ m.start = u.start
    BY <1>2, <1>3 DEF FromToken
  <2>5. i # j /\ ~(j < i)
    <3>1. j < i => u.end <= t.start
      BY <1>1, <2>1, <2>2, <2>3 DEF TokenInv
    <3> QED
      BY <1>4, <2>1, <2>2, <2>4, <3>1
  <2>6. i < j
    BY <2>3, <2>5
  <2> QED
    BY <1>1, <2>1, <2>2, <2>3, <2>6 DEF TokenInv
<1>6. l \in Candidates(t) /\ Adjacent(t) /\ l.bracketEnd = t.end /\ m.start = u.start
  BY <1>2, <1>3, <1>4, <1>5 DEF FromToken
<1>7. /\ l \in [start : Nat, bracketEnd : Nat, end : Nat] /\ l.end <= Len(content) + 1
      /\ l.bracketEnd < l.end /\ content[l.end - 1] = ")" /\ Destination(l.bracketEnd, l.end - 1) # {}
  BY <1>1, <1>4, <1>6, CandidateIs
<1>8. content[m.start] = "["
  <2>1. u.innerStart \in Nat
    BY <1>4 DEF Token
  <2>2. u.start \in u.start .. u.innerStart - 1
    BY <1>4, <2>1 DEF Whole
  <2> QED
    BY <1>4, <1>6, <2>2 DEF Whole
<1>9. content[l.bracketEnd] = "("
  BY <1>6 DEF Adjacent
<1>10. /\ l.bracketEnd \in Nat /\ l.end \in Nat /\ m.start \in Nat
       /\ l.bracketEnd < m.start /\ m.start < l.end - 1
  <2>1. l.bracketEnd \in Nat /\ l.end \in Nat /\ m.start \in Nat /\ l.bracketEnd <= m.start
    BY <1>4, <1>5, <1>6, <1>7
  <2>2. l.bracketEnd # m.start
    BY <1>8, <1>9
  <2>3. m.start # l.end - 1
    BY <1>7, <1>8
  <2> QED
    BY <2>1, <2>2, <2>3
<1>11. Nests(l)
  BY <1>1 DEF LinkInv
<1>12. PICK d \in Destination(l.bracketEnd, l.end - 1) : TRUE
  BY <1>7
<1> DEFINE inner == NotWhite(l.bracketEnd + 1, l.end - 1 - 1)
           near == NotWhite(l.bracketEnd + 1, m.start)
<1>13. inner # {} /\ d.start = Min(inner)
  BY <1>1, <1>7, <1>10, DestinationIs
<1>14. inner \subseteq Nat /\ near \subseteq Nat
  BY <1>10 DEF NotWhite
<1>15. m.start \in near
  BY <1>8, <1>10 DEF NotWhite, White, Spaces
<1>16. near \subseteq inner /\ \A k \in inner : k <= m.start => k \in near
  BY <1>10 DEF NotWhite
<1>17. Min(near) = Min(inner)
  <2> HIDE DEF near, inner
  <2>1. Min(near) \in near /\ \A k \in near : Min(near) <= k
    BY <1>14, <1>15, MinOfNats
  <2>2. Min(inner) \in inner /\ \A k \in inner : Min(inner) <= k
    BY <1>13, <1>14, MinOfNats
  <2>3. Min(inner) <= Min(near) /\ Min(near) <= m.start
    BY <1>15, <1>16, <2>1, <2>2
  <2>4. Min(inner) \in Nat /\ Min(near) \in Nat /\ m.start \in Nat
    BY <1>10, <1>14, <2>1, <2>2
  <2>5. Min(inner) <= m.start
    BY <2>3, <2>4
  <2>6. Min(inner) \in near
    BY <1>16, <2>2, <2>5
  <2>7. Min(near) <= Min(inner)
    BY <2>1, <2>6
  <2> QED
    BY <2>3, <2>4, <2>7
<1> HIDE DEF near, inner
<1>18. SubSeq(content, d.start, d.start + 1) = <<"[", "[">>
  BY <1>11, <1>12 DEF Nests
<1>19. d.start \in Nat \ {0} /\ d.start <= m.start
  <2>1. d.start \in near
    BY <1>13, <1>14, <1>15, <1>17, MinOfNats
  <2> QED
    BY <1>10, <2>1 DEF near, NotWhite
<1>20. content[d.start] = "[" /\ content[d.start + 1] = "["
  <2>1. d.start + 1 <= Len(content)
    BY <1>1, <1>7, <1>10, <1>19
  <2>2. SubSeq(content, d.start, d.start + 1)
           = [j \in 1 .. d.start + 1 - d.start + 1 |-> content[d.start + j - 1]]
    <3>1. PICK k \in Nat : k = d.start
      BY ONLY <1>19
    <3>2. SubSeq(content, k, k + 1) = [j \in 1 .. k + 1 - k + 1 |-> content[k + j - 1]]
      BY ONLY k \in Nat
    <3> QED
      BY ONLY <3>1, <3>2
  <2> DEFINE pair == SubSeq(content, d.start, d.start + 1)
  <2>3. 1 \in 1 .. d.start + 1 - d.start + 1 /\ 2 \in 1 .. d.start + 1 - d.start + 1
        /\ d.start + 1 - 1 = d.start /\ d.start + 2 - 1 = d.start + 1
    BY <1>19
  <2>4. pair[1] = content[d.start] /\ pair[2] = content[d.start + 1]
    BY <2>2, <2>3
  <2> HIDE DEF pair
  <2>5. pair = <<"[", "[">>
    BY <1>18 DEF pair
  <2> QED
    BY <2>4, <2>5
<1> QED
  BY <1>10, <1>13, <1>17, <1>20 DEF near

\* Spans are made of positions.
LEMMA SpansAre ==
    ASSUME Text, NEW closing, NEW e \in Spans(closing)
    PROVE  e.start \in Positions /\ e.end \in Nat /\ e.start + 1 < e.end /\ e.end <= Len(content) + 1
<1>1. PICK k \in Positions : \E c \in FirstOf(k + 1, closing[content[k]]) : e = [start |-> k, end |-> c + 1]
  BY DEF Spans
<1>2. PICK c \in FirstOf(k + 1, closing[content[k]]) : e = [start |-> k, end |-> c + 1]
  BY <1>1
<1>3. k \in Nat /\ Len(content) \in Nat /\ k <= Len(content)
  BY DEF Positions, Text
<1>4. c \in k + 1 .. Len(content)
  BY DEF FirstOf
<1> QED
  BY <1>2, <1>3, <1>4

LEMMA ScanInit == ParseInit => ScanIInv
<1>1. ParseInit => TokenInv /\ LinkInv
  BY DEF ParseInit, TokenInv, LinkInv
<1> QED
  BY <1>1, TypeInit DEF ScanIInv

LEMMA ScanNext == ScanIInv /\ [ParseNext]_parseVars => ScanIInv'
BY TypeNext, TokenNext, LinkNext DEF ScanIInv

LEMMA ScanWhole == ScanIInv => LinksAreWhole
<1> SUFFICES ASSUME ScanIInv PROVE LinksAreWhole
  OBVIOUS
<1>1. ParseTypeOK /\ InText /\ TokenInv /\ LinkInv
  BY DEF ScanIInv
<1>2. ASSUME NEW i \in DOMAIN tokens
      PROVE  LET t == tokens[i] IN
          /\ t.innerStart - t.start = t.end - t.innerEnd /\ t.innerStart >= t.start + 2
          /\ t.innerStart < t.innerEnd
          /\ content[t.innerStart] # "["
          /\ \A j \in t.innerStart .. t.innerEnd - 1 : content[j] # "]"
          /\ \A j \in t.start .. t.innerStart - 1 : content[j] = "["
          /\ \A j \in t.innerEnd .. t.end - 1 : content[j] = "]"
  BY <1>1, TokensAreWhole DEF Whole
<1>3. ASSUME NEW l \in found PROVE phase \in {"select", "done"}
  BY <1>1 DEF LinkInv, ParseTypeOK
<1>4. ASSUME NEW l \in found,
             NEW e \in code \cup fencedCodeBlockRanges \cup inlineCodeRanges \cup htmlCommentRanges,
             e.start <= l.start, l.end <= e.end
      PROVE  FALSE
  <2>1. phase \in {"select", "done"}
    BY <1>3
  <2>2. PICK t \in Selected : FromToken(l, t)
    BY <1>1, <2>1 DEF LinkInv
  <2>3. t \in Token /\ Whole(t) /\ Text
    BY <1>1, <2>1, SelectedIs, TextTyped
  <2>4. ~(e.start <= t.innerStart /\ t.innerEnd <= e.end)
    BY <2>2 DEF FromToken, Excluded
  <2>5. l.start = t.start /\ l.end >= t.end /\ l.end \in Nat
    <3>1. t.end \in Nat
      BY <2>3 DEF Token
    <3>2. l.end = t.end \/ l \in Candidates(t)
      BY <2>2 DEF FromToken
    <3>3. l \in Candidates(t) => l.end > t.end /\ l.end \in Nat
      <4> SUFFICES ASSUME l \in Candidates(t) PROVE l.end > t.end /\ l.end \in Nat
        OBVIOUS
      <4>1. l \in [start : Nat, bracketEnd : Nat, end : Nat] /\ l.bracketEnd = t.end /\ l.bracketEnd < l.end
        BY <2>3, CandidateIs
      <4> QED
        BY <4>1
    <3> QED
      BY <2>2, <3>1, <3>2, <3>3 DEF FromToken
  <2>6. /\ t.start \in Nat /\ t.innerStart \in Nat /\ t.innerEnd \in Nat /\ t.end \in Nat
        /\ t.start <= t.innerStart /\ t.innerEnd <= t.end
    <3>1. /\ t.start \in Nat /\ t.innerStart \in Nat /\ t.innerEnd \in Nat /\ t.end \in Nat
      BY <2>3 DEF Token
    <3> QED
      BY <2>3, <3>1 DEF Whole
  <2>7. e.start \in Int /\ e.end \in Int
    <3>1. CASE e \in code
      BY <1>1, <3>1 DEF ParseTypeOK, Span
    <3>2. CASE e \in fencedCodeBlockRanges \cup inlineCodeRanges \cup htmlCommentRanges
      <4>1. e.start \in Positions /\ e.end \in Nat
        BY <2>3, <3>2, SpansAre DEF fencedCodeBlockRanges, inlineCodeRanges, htmlCommentRanges
      <4> QED
        BY <4>1 DEF Positions
    <3> QED
      BY <3>1, <3>2
  <2> QED
    BY <1>4, <2>4, <2>5, <2>6, <2>7
<1> QED
  BY <1>2, <1>3, <1>4, OverlapNests DEF LinksAreWhole
-----------------------------------------------------------------------------
(* No link is missed: the scan.                                            *)

PlainAt(k) ==
    /\ k + 4 <= Len(content)
    /\ content[k] = "[" /\ content[k + 1] = "[" /\ content[k + 2] = "a"
    /\ content[k + 3] = "]" /\ content[k + 4] = "]"

Covers(t, k) == t.start <= k /\ k < t.end
Covered(k) == \E i \in DOMAIN tokens : Covers(tokens[i], k)

CoverInv ==
    /\ phase = "scan" => \A k \in Positions : k < at /\ PlainAt(k) => Covered(k)
    /\ phase \in {"select", "done"} => \A k \in Positions : PlainAt(k) => Covered(k)

LEMMA PlainStays ==
    ASSUME content' = content, NEW k
    PROVE  PlainAt(k)' <=> PlainAt(k)
BY DEF PlainAt

\* A run of brackets that begins with a link closes.
LEMMA PlainCloses ==
    ASSUME Text, NEW k \in Positions, PlainAt(k)
    PROVE  /\ RunLength(k, "[") = 2
           /\ FirstOf(k + 2, {"]"}) = {k + 3}
           /\ RunLength(k + 3, "]") >= 2
<1>1. k \in Nat \ {0} /\ Len(content) \in Nat /\ k + 4 <= Len(content)
  BY DEF Text, Positions, PlainAt
<1>2. RunLength(k, "[") = 2
  <2> DEFINE n == RunLength(k, "[")
  <2>1. /\ n \in Nat /\ k + n <= Len(content) + 1
        /\ \A j \in k .. k + n - 1 : content[j] = "["
        /\ k + n <= Len(content) => content[k + n] # "["
    BY <1>1, RunIs
  <2> HIDE DEF n
  <2>2. n # 0
    <3>1. n = 0 => k + n = k
      BY <1>1
    <3> QED
      BY <1>1, <2>1, <3>1 DEF PlainAt
  <2>3. n # 1
    <3>1. n = 1 => k + n = k + 1 /\ k + 1 <= Len(content)
      BY <1>1
    <3> QED
      BY <2>1, <3>1 DEF PlainAt
  <2>4. ~(n > 2)
    <3>1. n > 2 => k + 2 \in k .. k + n - 1
      BY <1>1, <2>1
    <3> QED
      BY <2>1, <3>1 DEF PlainAt
  <2> QED
    BY <2>1, <2>2, <2>3, <2>4 DEF n
<1>3. FirstOf(k + 2, {"]"}) = {k + 3}
  <2>1. k + 3 \in (k + 2) .. Len(content) /\ k + 2 \in Nat
    BY <1>1
  <2>2. \A m \in k + 2 .. (k + 3) - 1 : content[m] \notin {"]"}
    <3>1. \A m \in k + 2 .. (k + 3) - 1 : m = k + 2
      BY <1>1
    <3> QED
      BY <3>1 DEF PlainAt
  <2>3. k + 3 \in FirstOf(k + 2, {"]"})
    <3>1. content[k + 3] \in {"]"}
      BY DEF PlainAt
    <3> QED
      BY <2>1, <2>2, <3>1, FirstOfIntro
  <2> QED
    BY <2>1, <2>3, FirstOfIs
<1>4. RunLength(k + 3, "]") >= 2
  <2> DEFINE n == RunLength(k + 3, "]")
  <2>1. k + 3 \in Nat \ {0} /\ k + 3 <= Len(content) + 1
    BY <1>1
  <2>2. /\ n \in Nat
        /\ k + 3 + n <= Len(content) => content[k + 3 + n] # "]"
    BY <2>1, RunIs
  <2> HIDE DEF n
  <2>3. n # 0
    <3>1. n = 0 => k + 3 + n = k + 3 /\ k + 3 <= Len(content)
      BY <1>1
    <3> QED
      BY <2>2, <3>1 DEF PlainAt
  <2>4. n # 1
    <3>1. n = 1 => k + 3 + n = k + 4
      BY <1>1
    <3> QED
      BY <1>1, <2>2, <3>1 DEF PlainAt
  <2> QED
    BY <2>2, <2>3, <2>4 DEF n
<1> QED
  BY <1>2, <1>3, <1>4

\* A position the scan passes without a token begins no link.
LEMMA PassedIsNotPlain ==
    ASSUME ParseTypeOK, InText, SkipText \/ SkipBracket \/ (TakeToken /\ tokens' = tokens),
           NEW k \in Positions, at <= k, k < at'
    PROVE  ~PlainAt(k)
<1>1. Text /\ at \in Nat \ {0} /\ k \in Nat \ {0} /\ Len(content) \in Nat
  BY TextTyped DEF ParseTypeOK, InText, Positions, Text
<1>2. CASE SkipText
  <2> DEFINE T == FirstOf(at, {"["}) \cup {Len(content) + 1}
  <2>1. T \subseteq Nat /\ T # {}
    BY <1>1 DEF FirstOf
  <2>2. \A m \in T : Min(T) <= m
    BY <2>1, MinOfNats
  <2>3. at' = Min(T) /\ Min(T) \in Nat
    BY <1>2, <2>1, MinOfNats DEF SkipText
  <2>4. CASE content[k] = "["
    <3>1. k \in at .. Len(content)
      BY <1>1 DEF Positions
    <3>2. PICK j \in FirstOf(at, {"["}) : j <= k
      BY <1>1, <2>4, <3>1, FirstOfExists
    <3>3. j \in T /\ j \in Nat
      BY <2>1, <3>2
    <3> HIDE DEF T
    <3> QED
      BY <1>1, <2>2, <2>3, <3>2, <3>3
  <2> QED
    BY <2>4 DEF PlainAt
<1>3. CASE SkipBracket
  <2>1. k = at
    BY <1>1, <1>3 DEF SkipBracket
  <2>2. RunLength(at, "[") = 1
    BY <1>3 DEF SkipBracket
  <2> QED
    BY <1>1, <2>1, <2>2, PlainCloses
<1>4. CASE TakeToken /\ tokens' = tokens
  <2> SUFFICES ASSUME PlainAt(k) PROVE FALSE
    OBVIOUS
  <2> DEFINE open == RunLength(at, "[")
  <2>1. PICK closeStart \in FirstOf(at + open, {"]"}) :
           \/ /\ Closes(open, closeStart)
              /\ tokens' = Append(tokens, [start |-> at, innerStart |-> at + open,
                                           innerEnd |-> closeStart, end |-> closeStart + open])
              /\ at' = closeStart + open
           \/ /\ ~Closes(open, closeStart)
              /\ at' = NextTry(open)
              /\ UNCHANGED tokens
    BY <1>4, Zenon DEF TakeToken
  <2>2. tokens \in Seq(Token) /\ \A t : Append(tokens, t) # tokens
    <3>1. tokens \in Seq(Token)
      BY DEF ParseTypeOK
    <3>2. ASSUME NEW t, Append(tokens, t) = tokens PROVE FALSE
      <4>1. Len(Append(tokens, t)) = Len(tokens) + 1 /\ Len(tokens) \in Nat
        BY <3>1
      <4> QED
        BY <3>2, <4>1
    <3> QED
      BY <3>1, <3>2
  <2>3. ~Closes(open, closeStart) /\ at' = at + 1
    BY <1>4, <2>1, <2>2 DEF NextTry
  <2>4. k = at
    BY <1>1, <2>3
  <2>5. open = 2 /\ FirstOf(at + 2, {"]"}) = {at + 3} /\ RunLength(at + 3, "]") >= 2
    BY <1>1, <2>4, PlainCloses
  <2> HIDE DEF open
  <2>6. closeStart = at + 3
    BY <2>1, <2>5
  <2> QED
    BY <1>1, <2>3, <2>5, <2>6 DEF Closes
<1> QED
  BY <1>2, <1>3, <1>4

\* Where the scan ends no link is ahead.
LEMMA EndIsNotPlain ==
    ASSUME ParseTypeOK, InText, EndOfScan, NEW k \in Positions, at <= k
    PROVE  ~PlainAt(k)
<1> SUFFICES ASSUME PlainAt(k) PROVE FALSE
  OBVIOUS
<1>1. Text /\ at \in Nat \ {0} /\ k \in Nat \ {0} /\ Len(content) \in Nat /\ k + 4 <= Len(content)
  BY TextTyped DEF ParseTypeOK, InText, Positions, Text, PlainAt
<1> DEFINE open == RunLength(at, "[")
<1>2. open >= 2 /\ FirstOf(at + open, {"]"}) = {}
  <2>1. ~(at >= Len(content))
    BY <1>1
  <2> QED
    BY <2>1 DEF EndOfScan
<1>3. open \in Nat /\ \A j \in at .. at + open - 1 : content[j] = "["
  BY <1>1, RunIs
<1> HIDE DEF open
<1>4. at + open <= k + 2
  <2>1. at + open > k + 2 => k + 2 \in at .. at + open - 1
    BY <1>1, <1>3
  <2> QED
    BY <1>1, <1>3, <2>1 DEF PlainAt
<1>5. k + 3 \in at + open .. Len(content) /\ content[k + 3] \in {"]"} /\ at + open \in Nat
  BY <1>1, <1>3, <1>4 DEF PlainAt
<1> QED
  BY <1>1, <1>2, <1>5, FirstOfExists
LEMMA CoverNext ==
    ASSUME ParseTypeOK, InText, TokenInv, CoverInv, [ParseNext]_parseVars
    PROVE  CoverInv'
<1>1. content' = content /\ Positions' = Positions /\ \A k : PlainAt(k)' <=> PlainAt(k)
  BY TextStays, PlainStays DEF Positions
<1>2. ASSUME tokens' = tokens, NEW k, Covered(k) PROVE Covered(k)'
  BY <1>2 DEF Covered
<1>3. CASE tokens' = tokens /\ phase' # "scan" /\ (phase' \in {"select", "done"} => phase \in {"select", "done"})
  BY <1>1, <1>2, <1>3 DEF CoverInv
<1>4. CASE NextLine
  BY <1>3, <1>4 DEF NextLine, scanVars
<1>5. CASE EndOfLines
  BY <1>5 DEF EndOfLines, CoverInv, Positions
<1>6. CASE SkipText \/ SkipBracket \/ (TakeToken /\ tokens' = tokens)
  <2>1. tokens' = tokens /\ phase = "scan" /\ phase' = "scan"
    BY <1>6 DEF SkipText, SkipBracket, TakeToken, Scanning, scanVars
  <2>2. ASSUME NEW k \in Positions, k < at', PlainAt(k) PROVE Covered(k)'
    <3>1. k \in Nat /\ at \in Nat
      BY DEF Positions, ParseTypeOK
    <3>2. k < at
      BY <1>6, <2>2, <3>1, PassedIsNotPlain
    <3>3. Covered(k)
      BY <2>1, <2>2, <3>2 DEF CoverInv
    <3> QED
      BY <1>2, <2>1, <3>3
  <2> QED
    BY <1>1, <2>1, <2>2 DEF CoverInv
<1>7. CASE TakeToken /\ tokens' # tokens
  <2>1. phase = "scan" /\ phase' = "scan" /\ at \in Nat
    BY <1>7 DEF TakeToken, Scanning, ParseTypeOK
  <2>2. PICK t \in Token : tokens' = Append(tokens, t) /\ t.start = at /\ at' = t.end
    BY <1>7, TakenToken
  <2>3. /\ Len(tokens) \in Nat
        /\ DOMAIN tokens = 1 .. Len(tokens) /\ DOMAIN tokens' = 1 .. Len(tokens) + 1
        /\ \A i \in 1 .. Len(tokens) : tokens'[i] = tokens[i]
        /\ tokens'[Len(tokens) + 1] = t
    BY <2>2 DEF ParseTypeOK
  <2>4. ASSUME NEW k \in Positions, k < at', PlainAt(k) PROVE Covered(k)'
    <3>1. k \in Nat
      BY DEF Positions
    <3>2. CASE k < at
      <4>1. PICK i \in DOMAIN tokens : Covers(tokens[i], k)
        BY <2>1, <2>4, <3>2 DEF CoverInv, Covered
      <4>2. i \in DOMAIN tokens' /\ tokens'[i] = tokens[i]
        BY <2>3
      <4> QED
        BY <4>1, <4>2 DEF Covered, Covers
    <3>3. CASE at <= k
      <4>1. Len(tokens) + 1 \in DOMAIN tokens'
        BY <2>3
      <4>2. t.start <= k /\ k < t.end
        BY <2>2, <2>4, <3>3
      <4> QED
        BY <2>3, <4>1, <4>2 DEF Covered, Covers
    <3> QED
      BY <2>1, <3>1, <3>2, <3>3
  <2> QED
    BY <1>1, <2>1, <2>4 DEF CoverInv
<1>8. CASE EndOfScan
  <2>1. phase = "scan" /\ phase' = "select" /\ tokens' = tokens
    BY <1>8 DEF EndOfScan, scanVars
  <2>2. ASSUME NEW k \in Positions, PlainAt(k) PROVE Covered(k)'
    <3>1. k \in Nat /\ at \in Nat
      BY DEF Positions, ParseTypeOK
    <3>2. k < at
      BY <1>8, <2>2, <3>1, EndIsNotPlain
    <3> QED
      BY <1>2, <2>1, <2>2, <3>2 DEF CoverInv
  <2> QED
    BY <1>1, <2>1, <2>2 DEF CoverInv
<1>9. CASE DropToken
  BY <1>3, <1>9 DEF DropToken, Selecting, scanVars
<1>10. CASE PlainLink
  BY <1>3, <1>10 DEF PlainLink, Selecting
<1>11. CASE LinkWithDestination
  BY <1>3, <1>11 DEF LinkWithDestination, Selecting
<1>12. CASE EndOfTokens
  BY <1>3, <1>12 DEF EndOfTokens, scanVars
<1>13. CASE UNCHANGED parseVars
  BY <1>1, <1>2, <1>13 DEF parseVars, scanVars, CoverInv
<1> QED
  BY <1>4, <1>5, <1>6, <1>7, <1>8, <1>9, <1>10, <1>11, <1>12, <1>13 DEF ParseNext

-----------------------------------------------------------------------------
(* No link is missed: the selection.                                       *)

\* A token behind the selection is in literal text, in a link, or opens in the
\* destination of one and ends behind it.
Within(t, l) == l.start <= t.start /\ t.end <= l.end
Crosses(t, l) == l.bracketEnd < t.start /\ t.start < l.end /\ l.end < t.end
Decided(t) == Excluded(t) \/ \E l \in found : Within(t, l) \/ Crosses(t, l)

DecidedInv ==
    /\ phase = "done" => at = Len(tokens) + 1
    /\ phase \in {"select", "done"} =>
          /\ suppressedUntil = 0 \/ \E l \in found : l.end = suppressedUntil /\ l.bracketEnd < l.end
          /\ \A t \in Selected : Decided(t)

\* A token that is suppressed is decided by the link that suppresses it.
LEMMA SuppressedIsDecided ==
    ASSUME ScanIInv, DecidedInv, Selecting, NEW t \in Token, t = tokens[at], Suppressed(t)
    PROVE  Decided(t)
<1>1. /\ ParseTypeOK /\ InText /\ TokenInv /\ LinkInv /\ Text /\ phase = "select"
      /\ at \in DOMAIN tokens /\ at <= Len(tokens)
  BY TextTyped DEF ScanIInv, Selecting, ParseTypeOK, InText
<1>2. t.start \in Nat /\ t.end \in Nat /\ t.innerStart \in Nat /\ Whole(t) /\ suppressedUntil \in Nat
  BY <1>1 DEF Token, TokenInv, ParseTypeOK
<1>3. PICK l \in found : l.end = suppressedUntil /\ l.bracketEnd < l.end
  BY <1>1, <1>2 DEF DecidedInv, Suppressed
<1>4. PICK u \in Selected : FromToken(l, u)
  BY <1>1 DEF LinkInv
<1>5. u \in Token /\ u.start \in Nat /\ u.end \in Nat /\ u.start < u.end /\ u.end <= t.start
  BY <1>1, SelectedIs
<1>6. l.start = u.start /\ l.bracketEnd = u.end /\ Adjacent(u)
  BY <1>2, <1>3, <1>4, <1>5 DEF FromToken
<1>7. content[t.start] = "[" /\ content[u.end] = "("
  <2>1. t.start \in t.start .. t.innerStart - 1
    BY <1>2 DEF Whole
  <2> QED
    BY <1>2, <1>6, <2>1 DEF Whole, Adjacent
<1>8. l.bracketEnd < t.start
  <2>1. u.end # t.start
    BY <1>7
  <2> QED
    BY <1>2, <1>5, <1>6, <2>1
<1>9. t.start < l.end
  BY <1>3 DEF Suppressed
<1>10. l.end \in Nat
  BY <1>2, <1>3
<1>11. Within(t, l) \/ Crosses(t, l)
  BY <1>2, <1>5, <1>6, <1>8, <1>9, <1>10 DEF Within, Crosses
<1> QED
  BY <1>11 DEF Decided

LEMMA DecidedNext ==
    ASSUME ScanIInv, DecidedInv, [ParseNext]_parseVars
    PROVE  DecidedInv'
<1>1. /\ ParseTypeOK /\ InText /\ TokenInv /\ LinkInv /\ Text
      /\ ParseTypeOK' /\ content' = content
  BY TextTyped, TextStays, TypeNext DEF ScanIInv
<1>2. ASSUME code' = code, found \subseteq found', NEW t, Decided(t) PROVE Decided(t)'
  BY <1>1, <1>2, SameExclusion DEF Decided, Within, Crosses
<1>3. CASE phase' \in {"lines", "scan"}
  BY <1>3 DEF DecidedInv
<1>4. ASSUME Selecting, phase' = "select", tokens' = tokens, at' = at + 1, code' = code,
             found \subseteq found', NEW token, token = tokens[at], Decided(token)',
             suppressedUntil' = suppressedUntil
                \/ \E l \in found' : l.end = suppressedUntil' /\ l.bracketEnd < l.end
      PROVE  DecidedInv'
  <2>1. at \in Nat /\ at >= 1 /\ phase = "select"
    BY <1>1, <1>4 DEF Selecting, ParseTypeOK, InText
  <2>2. Selected' = Selected \cup {token}
    <3>1. 1 .. at' - 1 = 1 .. at - 1 \cup {at}
      BY <1>4, <2>1
    <3> QED
      BY <1>4, <3>1 DEF Selected
  <2>3. ASSUME NEW t \in Selected' PROVE Decided(t)'
    <3>1. CASE t \in Selected
      BY <1>2, <1>4, <2>1, <3>1 DEF DecidedInv
    <3>2. CASE t = token
      BY <1>4, <3>2
    <3> QED
      BY <2>2, <3>1, <3>2
  <2>4. suppressedUntil' = 0 \/ \E l \in found' : l.end = suppressedUntil' /\ l.bracketEnd < l.end
    BY <1>4, <2>1 DEF DecidedInv
  <2> QED
    BY <1>4, <2>3, <2>4 DEF DecidedInv
<1>5. CASE NextLine
  BY <1>3, <1>5 DEF NextLine
<1>6. CASE EndOfLines
  BY <1>3, <1>6 DEF EndOfLines
<1>7. CASE SkipText
  BY <1>3, <1>7 DEF SkipText, Scanning
<1>8. CASE SkipBracket
  BY <1>3, <1>8 DEF SkipBracket, Scanning
<1>9. CASE TakeToken
  BY <1>3, <1>9 DEF TakeToken, Scanning
<1>10. CASE EndOfScan
  <2>1. phase = "scan" /\ phase' = "select" /\ at' = 1 /\ suppressedUntil' = suppressedUntil
    BY <1>10 DEF EndOfScan, scanVars
  <2>2. suppressedUntil = 0
    BY <1>1, <2>1 DEF LinkInv
  <2>3. Selected' = {}
    BY <2>1 DEF Selected
  <2> QED
    <3>1. \A t \in Selected' : Decided(t)'
      BY <2>3
    <3>2. suppressedUntil' = 0 /\ phase' = "select"
      BY <2>1, <2>2
    <3> QED
      BY <3>1, <3>2 DEF DecidedInv
<1>11. CASE DropToken
  <2>1. Selecting /\ phase' = "select" /\ tokens' = tokens /\ at' = at + 1 /\ code' = code
        /\ found' = found /\ suppressedUntil' = suppressedUntil
    BY <1>11 DEF DropToken, Selecting, lineVars, scanVars
  <2>2. at \in DOMAIN tokens
    BY <1>1, <2>1 DEF Selecting, ParseTypeOK, InText
  <2>3. PICK t \in Token : t = tokens[at]
    BY <1>1, <2>2 DEF ParseTypeOK
  <2>4. Suppressed(t) \/ Excluded(t)
    BY <1>11, <2>3 DEF DropToken
  <2>5. Decided(t)
    BY <2>1, <2>3, <2>4, SuppressedIsDecided DEF Decided
  <2>6. Decided(t)'
    BY <1>2, <2>1, <2>5
  <2> QED
    BY <1>4, <2>1, <2>3, <2>6
<1>12. CASE PlainLink
  <2>1. Selecting /\ phase' = "select" /\ tokens' = tokens /\ at' = at + 1 /\ code' = code
        /\ suppressedUntil' = suppressedUntil
    BY <1>12 DEF PlainLink, Selecting, lineVars
  <2>2. at \in DOMAIN tokens
    BY <1>1, <2>1 DEF Selecting, ParseTypeOK, InText
  <2>3. PICK t \in Token : t = tokens[at]
    BY <1>1, <2>2 DEF ParseTypeOK
  <2> DEFINE l == [start |-> t.start, bracketEnd |-> t.end, end |-> t.end]
  <2>4. found' = found \cup {l}
    BY <1>12, <2>3 DEF PlainLink
  <2>5. l.start = t.start /\ l.end = t.end /\ t.start \in Nat /\ t.end \in Nat
    BY DEF Token
  <2> HIDE DEF l
  <2>6. Decided(t)'
    BY <2>4, <2>5 DEF Decided, Within
  <2> QED
    BY <1>4, <2>1, <2>3, <2>4, <2>6
<1>13. CASE LinkWithDestination
  <2>1. Selecting /\ phase' = "select" /\ tokens' = tokens /\ at' = at + 1 /\ code' = code
    BY <1>13 DEF LinkWithDestination, Selecting, lineVars
  <2>2. at \in DOMAIN tokens
    BY <1>1, <2>1 DEF Selecting, ParseTypeOK, InText
  <2>3. PICK t \in Token : t = tokens[at]
    BY <1>1, <2>2 DEF ParseTypeOK
  <2>4. PICK l \in Candidates(t) :
           /\ found' = found \cup {l}
           /\ suppressedUntil' = IF Nests(l) THEN suppressedUntil ELSE l.end
    BY <1>13, <2>3 DEF LinkWithDestination
  <2>5. Whole(t)
    BY <1>1, <2>2, <2>3 DEF TokenInv
  <2>6. l.start = t.start /\ l.bracketEnd = t.end /\ l.bracketEnd < l.end
        /\ l \in [start : Nat, bracketEnd : Nat, end : Nat]
    BY <1>1, <2>4, <2>5, CandidateIs
  <2>7. t.start \in Nat /\ t.end \in Nat /\ l.end \in Nat
    BY <2>6 DEF Token
  <2>8. Decided(t)'
    BY <2>4, <2>6, <2>7 DEF Decided, Within
  <2>9. suppressedUntil' = suppressedUntil
          \/ \E k \in found' : k.end = suppressedUntil' /\ k.bracketEnd < k.end
    BY <2>4, <2>6
  <2> QED
    BY <1>4, <2>1, <2>3, <2>4, <2>8, <2>9
<1>14. CASE EndOfTokens \/ (UNCHANGED parseVars /\ phase \in {"select", "done"})
  <2>1. /\ phase \in {"select", "done"} /\ phase' \in {"select", "done"}
        /\ tokens' = tokens /\ at' = at /\ code' = code
        /\ found' = found /\ suppressedUntil' = suppressedUntil
    BY <1>14 DEF EndOfTokens, parseVars, lineVars, scanVars
  <2>2. phase' = "done" => at' = Len(tokens') + 1
    <3>1. CASE EndOfTokens
      <4>1. at > Len(tokens) /\ at <= Len(tokens) + 1 /\ at \in Nat /\ Len(tokens) \in Nat
        BY <1>1, <3>1 DEF EndOfTokens, InText, ParseTypeOK
      <4> QED
        BY <2>1, <4>1
    <3>2. CASE UNCHANGED parseVars
      BY <2>1, <3>2 DEF parseVars, DecidedInv
    <3> QED
      BY <1>14, <3>1, <3>2
  <2>3. Selected' = Selected
    BY <2>1 DEF Selected
  <2>4. ASSUME NEW t \in Selected' PROVE Decided(t)'
    BY <1>2, <2>1, <2>3 DEF DecidedInv
  <2>5. suppressedUntil' = 0 \/ \E l \in found' : l.end = suppressedUntil' /\ l.bracketEnd < l.end
    BY <2>1 DEF DecidedInv
  <2> QED
    BY <2>2, <2>4, <2>5 DEF DecidedInv
<1>15. CASE UNCHANGED parseVars
  BY <1>1, <1>3, <1>14, <1>15 DEF parseVars, ParseTypeOK
<1> QED
  BY <1>5, <1>6, <1>7, <1>8, <1>9, <1>10, <1>11, <1>12, <1>13, <1>14, <1>15 DEF ParseNext
-----------------------------------------------------------------------------
(* Indented code begins where a line does.                                 *)

LineBegin(k) == k >= 1 /\ (k = 1 \/ content[k - 1] = "NL")

CodeInv ==
    /\ phase = "lines" /\ at <= Len(content) => LineBegin(at)
    /\ phase = "lines" /\ blockStart # 0 => LineBegin(blockStart)
    /\ \A e \in code : LineBegin(e.start)

LEMMA CodeNext ==
    ASSUME ParseTypeOK, InText, CodeInv, [ParseNext]_parseVars
    PROVE  CodeInv'
<1>1. /\ content' = content /\ Text /\ Len(content) \in Nat
  BY TextStays, TextTyped DEF Text
<1>2. \A k : LineBegin(k)' <=> LineBegin(k)
  BY <1>1 DEF LineBegin
<1>3. ASSUME phase' # "lines", code' \subseteq code \cup {[start |-> blockStart, end |-> Len(content) + 1]},
             blockStart = 0 => code' = code, phase = "lines" \/ code' = code
      PROVE  CodeInv'
  BY <1>2, <1>3 DEF CodeInv
<1>4. CASE NextLine
  <2>1. phase = "lines" /\ phase' = "lines" /\ at <= Len(content) /\ at' = LineEnd(at) + 1
        /\ at \in Nat /\ at >= 1
    BY <1>4 DEF NextLine, ParseTypeOK, InText
  <2>2. LineEnd(at) \in at .. Len(content) + 1
        /\ (LineEnd(at) = Len(content) + 1 \/ content[LineEnd(at)] = "NL")
    <3>1. at <= Len(content) + 1
      BY <1>1, <2>1
    <3> QED
      BY <1>1, <2>1, <3>1, LineEndIs
  <2>3. at' <= Len(content) => LineBegin(at')
    <3>1. PICK n \in Nat : n = LineEnd(at) /\ n >= 1
      BY <2>1, <2>2
    <3>2. at' = n + 1 /\ (n + 1) - 1 = n
      BY <2>1, <3>1
    <3> QED
      BY <1>1, <2>2, <3>1, <3>2 DEF LineBegin
  <2>4. (blockStart' = blockStart \/ blockStart' = 0 \/ blockStart' = at)
        /\ (code' = code
              \/ (blockStart # 0 /\ code' = code \cup {[start |-> blockStart, end |-> at]}))
    <3>1. CASE FencedLine
      BY <3>1 DEF FencedLine, lineVars
    <3>2. CASE OpenLine
      <4>1. EndBlock => blockStart' = 0 /\
              (code' = code \/ (blockStart # 0 /\ code' = code \cup {[start |-> blockStart, end |-> at]}))
        BY DEF EndBlock
      <4>2. ASSUME NEW line, CodeLine(line) \/ LazyLine(line) \/ MarkerLine(line)
                               \/ ContinuedLine(line) \/ TextLine(line) \/ BlankLine(line)
            PROVE  \/ EndBlock
                   \/ code' = code /\ blockStart' \in {blockStart, at}
        BY <4>2 DEF CodeLine, LazyLine, MarkerLine, ContinuedLine, TextLine, BlankLine
      <4> QED
        BY <3>2, <4>1, <4>2 DEF OpenLine
    <3> QED
      BY <1>4, <3>1, <3>2 DEF NextLine
  <2>5. LineBegin(at)
    BY <2>1 DEF CodeInv
  <2>6. blockStart' # 0 => LineBegin(blockStart')
    BY <2>1, <2>4, <2>5 DEF CodeInv
  <2>7. \A e \in code' : LineBegin(e.start)
    BY <2>1, <2>4 DEF CodeInv
  <2> QED
    <3>1. at' <= Len(content) => LineBegin(at)'
      BY <1>1, <2>3 DEF LineBegin
    <3>2. blockStart' # 0 => LineBegin(blockStart)'
      BY <1>1, <2>6 DEF LineBegin
    <3>3. \A e \in code' : LineBegin(e.start)'
      BY <1>1, <2>7 DEF LineBegin
    <3> QED
      BY <1>1, <2>1, <3>1, <3>2, <3>3 DEF CodeInv
<1>5. CASE EndOfLines
  BY <1>3, <1>5 DEF EndOfLines
<1>6. CASE SkipText
  BY <1>3, <1>6 DEF SkipText, Scanning, lineVars
<1>7. CASE SkipBracket
  BY <1>3, <1>7 DEF SkipBracket, Scanning, lineVars
<1>8. CASE TakeToken
  BY <1>3, <1>8 DEF TakeToken, Scanning, lineVars
<1>9. CASE EndOfScan
  BY <1>3, <1>9 DEF EndOfScan, lineVars
<1>10. CASE DropToken
  BY <1>3, <1>10 DEF DropToken, Selecting, lineVars
<1>11. CASE PlainLink
  BY <1>3, <1>11 DEF PlainLink, Selecting, lineVars
<1>12. CASE LinkWithDestination
  BY <1>3, <1>12 DEF LinkWithDestination, Selecting, lineVars
<1>13. CASE EndOfTokens
  BY <1>3, <1>13 DEF EndOfTokens, lineVars
<1>14. CASE UNCHANGED parseVars
  BY <1>2, <1>14 DEF parseVars, lineVars, CodeInv, LineBegin
<1> QED
  BY <1>4, <1>5, <1>6, <1>7, <1>8, <1>9, <1>10, <1>11, <1>12, <1>13, <1>14 DEF ParseNext

-----------------------------------------------------------------------------
(* No link is missed.                                                      *)

ParseIInv == ScanIInv /\ CoverInv /\ DecidedInv /\ CodeInv

LEMMA ParseIInvInit == ParseInit => ParseIInv
<1>1. ParseInit => CoverInv /\ DecidedInv /\ CodeInv
  BY DEF ParseInit, CoverInv, DecidedInv, CodeInv, LineBegin
<1> QED
  BY <1>1, ScanInit DEF ParseIInv

LEMMA ParseIInvNext == ParseIInv /\ [ParseNext]_parseVars => ParseIInv'
BY ScanNext, CoverNext, DecidedNext, CodeNext DEF ParseIInv, ScanIInv

\* Without a mark there is no span of the mark, and nothing is escaped.
LEMMA NoMarkNoSpan ==
    ASSUME Text, NEW closing, \A k \in Positions : content[k] \notin DOMAIN closing
    PROVE  Spans(closing) = {}
<1> DEFINE Close(k) == FirstOf(k + 1, closing[content[k]])
           Equation(f) == f = [k \in Positions |->
                                 /\ content[k] \in DOMAIN closing
                                 /\ Close(k) # {}
                                 /\ \A j \in 1 .. k - 1 : f[j] => \A e \in Close(j) : e < k]
           opens == CHOOSE f : Equation(f)
<1>1. Equation([k \in Positions |-> FALSE])
  <2>1. \A k \in Positions : ~(content[k] \in DOMAIN closing)
    OBVIOUS
  <2> QED
    BY <2>1
<1>2. Equation(opens)
  BY <1>1
<1>3. \A k \in Positions : ~opens[k]
  BY <1>2
<1>4. Spans(closing) = UNION {{[start |-> k, end |-> e + 1] : e \in Close(k)} :
                               k \in {j \in Positions : opens[j]}}
  BY Zenon DEF Spans
<1> QED
  BY <1>3, <1>4

Unmarked == {content[k] : k \in Positions} \cap {"tick", "fence", "\\", "<!--"} = {}

LEMMA UnmarkedExcluded ==
    ASSUME Text, Unmarked, NEW t \in Token, Whole(t), Excluded(t)
    PROVE  \E e \in code : e.start <= t.innerStart /\ t.innerEnd <= e.end
<1>1. \A k \in Positions : content[k] \notin {"tick", "fence", "\\", "<!--"}
  BY DEF Unmarked
<1>2. fencedCodeBlockRanges = {}
  BY <1>1, NoMarkNoSpan DEF fencedCodeBlockRanges
<1>3. inlineCodeRanges = {}
  BY <1>1, NoMarkNoSpan DEF inlineCodeRanges, Ticks
<1>4. htmlCommentRanges = {}
  BY <1>1, NoMarkNoSpan DEF htmlCommentRanges
<1>5. ASSUME NEW k \in Nat, k <= Len(content) + 1 PROVE ~Escaped(k)
  <2>1. \A j \in 1 .. k - 1 : j \in Positions /\ content[j] # "\\"
    BY <1>1, <1>5 DEF Positions, Text
  <2>2. {j \in 1 .. k - 1 : \A m \in j .. k - 1 : content[m] = "\\"} = {}
    BY <2>1
  <2>3. Cardinality({j \in 1 .. k - 1 : \A m \in j .. k - 1 : content[m] = "\\"}) = 0
    BY <2>2, FS_EmptySet
  <2> QED
    BY <2>3 DEF Escaped
<1>6. t.start \in Nat /\ t.innerStart \in Nat /\ t.innerEnd \in Nat /\ t.end \in Nat /\ Len(content) \in Nat
  BY DEF Token, Text
<1>7. t.start <= Len(content) + 1 /\ t.innerEnd <= Len(content) + 1
  BY <1>6 DEF Whole
<1>8. ~Escaped(t.start) /\ ~Escaped(t.innerEnd)
  BY <1>5, <1>6, <1>7
<1> QED
  BY <1>2, <1>3, <1>4, <1>8 DEF Excluded

LEMMA PlainLinkIsPlainAt ==
    ASSUME Text, NEW k \in 1 .. Len(content) - 4,
           SubSeq(content, k, k + 4) = <<"[", "[", "a", "]", "]">>
    PROVE  k \in Positions /\ PlainAt(k)
<1>1. Len(content) \in Nat /\ k \in Nat /\ k >= 1 /\ k + 4 <= Len(content)
  BY DEF Text
<1> DEFINE s == SubSeq(content, k, k + 4)
<1>2. \A j \in 1 .. 5 : s[j] = content[k + j - 1]
  <2>1. s = [j \in 1 .. (k + 4) - k + 1 |-> content[k + j - 1]]
    BY <1>1 DEF Text
  <2>2. 1 .. (k + 4) - k + 1 = 1 .. 5
    BY <1>1
  <2> QED
    BY <2>1, <2>2
<1>6. s = <<"[", "[", "a", "]", "]">>
  OBVIOUS
<1> HIDE DEF s
<1>3. s[1] = "[" /\ s[2] = "[" /\ s[3] = "a" /\ s[4] = "]" /\ s[5] = "]"
  BY <1>6
<1>4. /\ content[k + 1 - 1] = "[" /\ content[k + 2 - 1] = "[" /\ content[k + 3 - 1] = "a"
      /\ content[k + 4 - 1] = "]" /\ content[k + 5 - 1] = "]"
  BY <1>2, <1>3
<1>5. k + 1 - 1 = k /\ k + 2 - 1 = k + 1 /\ k + 3 - 1 = k + 2 /\ k + 4 - 1 = k + 3 /\ k + 5 - 1 = k + 4
  BY <1>1
<1> QED
  BY <1>1, <1>4, <1>5 DEF PlainAt, Positions

LEMMA ParseIInvPlain == ParseIInv => PlainLinksFound
<1> SUFFICES ASSUME ParseIInv, phase = "done", Unmarked,
                    NEW k \in 1 .. Len(content) - 4,
                    SubSeq(content, k, k + 4) = <<"[", "[", "a", "]", "]">>
             PROVE  \/ InCode(k)
                    \/ \E l \in found : l.start <= k /\ k < l.end
                    \/ \E i \in DOMAIN tokens : /\ Straddles(tokens[i])
                                                /\ tokens[i].start <= k /\ k < tokens[i].end
  BY DEF PlainLinksFound, Unmarked
<1>1. /\ ParseTypeOK /\ InText /\ TokenInv /\ LinkInv /\ CoverInv /\ DecidedInv /\ CodeInv /\ Text
  BY TextTyped DEF ParseIInv, ScanIInv
<1>2. k \in Positions /\ PlainAt(k) /\ k \in Nat /\ k >= 1
  BY <1>1, PlainLinkIsPlainAt
<1>3. PICK i \in DOMAIN tokens : Covers(tokens[i], k)
  BY <1>1, <1>2 DEF CoverInv, Covered
<1>4. PICK t \in Token : t = tokens[i]
  BY <1>1 DEF ParseTypeOK
<1>5. /\ t.start \in Nat /\ t.innerStart \in Nat /\ t.innerEnd \in Nat /\ t.end \in Nat
      /\ Whole(t) /\ t.start <= k /\ k < t.end
  BY <1>1, <1>3, <1>4 DEF Token, TokenInv, Covers
<1>6. Decided(t)
  <2>1. at = Len(tokens) + 1 /\ i \in 1 .. Len(tokens) /\ Len(tokens) \in Nat
    BY <1>1 DEF DecidedInv, ParseTypeOK
  <2>2. i \in 1 .. at - 1
    BY <2>1
  <2>3. t \in Selected
    BY <1>4, <2>2 DEF Selected
  <2> QED
    BY <1>1, <2>3 DEF DecidedInv
<1>7. ASSUME NEW l \in found, Within(t, l)
      PROVE  l.start <= k /\ k < l.end
  <2>1. l.start \in Nat /\ l.end \in Nat
    BY <1>1 DEF ParseTypeOK
  <2> QED
    BY <1>2, <1>5, <1>7, <2>1 DEF Within
<1>8. ASSUME NEW l \in found, Crosses(t, l)
      PROVE  Straddles(tokens[i])
  BY <1>4, <1>8 DEF Crosses, Straddles
<1>9. CASE Excluded(t)
  <2>1. PICK e \in code : e.start <= t.innerStart /\ t.innerEnd <= e.end
    BY <1>1, <1>5, <1>9, UnmarkedExcluded
  <2>2. e.start \in Nat /\ e.end \in Nat
    BY <1>1 DEF ParseTypeOK, Span
  <2>3. e.start <= t.start
    <3>1. LineBegin(e.start)
      BY <1>1 DEF CodeInv
    <3>2. e.start = 1 => e.start <= t.start
      BY <1>5 DEF Whole
    <3>3. ~(t.start < e.start)
      <4> SUFFICES ASSUME t.start < e.start PROVE FALSE
        OBVIOUS
      <4>1. e.start - 1 \in t.start .. t.innerStart - 1
        <5>1. PICK n \in Nat : n = e.start
          BY <2>2
        <5>2. t.start < n /\ n <= t.innerStart
          BY <2>1, <5>1
        <5>3. n - 1 \in t.start .. t.innerStart - 1
          BY <1>5, <5>2
        <5> QED
          BY ONLY <5>1, <5>3
      <4>2. content[e.start - 1] = "["
        BY <1>5, <4>1 DEF Whole
      <4>3. e.start # 1
        BY <1>5, <2>2 DEF Whole
      <4> QED
        BY <3>1, <4>2, <4>3 DEF LineBegin
    <3> QED
      BY <1>5, <2>2, <3>3
  <2>4. k < t.innerEnd
    <3> SUFFICES ASSUME t.innerEnd <= k PROVE FALSE
      BY <1>2, <1>5
    <3>1. k \in t.innerEnd .. t.end - 1
      BY <1>2, <1>5
    <3> QED
      BY <1>2, <1>5, <3>1 DEF Whole, PlainAt
  <2>5. e.start <= k /\ k < e.end
    BY <1>2, <1>5, <2>1, <2>2, <2>3, <2>4
  <2> QED
    BY <2>5 DEF InCode
<1> QED
  BY <1>3, <1>6, <1>7, <1>8, <1>9 DEF Decided, Covers

\* The links are whole tokens outside of literal text, and overlap only in a
\* destination that begins with brackets (ParseWikilinks).
THEOREM WholeLinks == ParseSpec => []LinksAreWhole
<1>1. ParseSpec => []ScanIInv
  BY ScanInit, ScanNext, PTL DEF ParseSpec
<1> QED
  BY <1>1, ScanWhole, PTL

\* No plain link is missed (ParseWikilinks).
THEOREM NoLinkIsMissed == ParseSpec => []PlainLinksFound
<1>1. ParseSpec => []ParseIInv
  BY ParseIInvInit, ParseIInvNext, PTL DEF ParseSpec
<1> QED
  BY <1>1, ParseIInvPlain, PTL

-----------------------------------------------------------------------------
(* The lines of a text: where each begins, and which one is before it.     *)

\* The next line begins one past the end of a line, and that line is the one
\* before it.
LEMMA NextStart ==
    ASSUME Text, NEW k \in LineStarts
    PROVE  /\ LineEnd(k) \in Nat /\ k <= LineEnd(k) /\ LineEnd(k) <= Len(content) + 1
           /\ \A s \in LineStarts : ~(k < s /\ s < LineEnd(k) + 1)
           /\ LineEnd(k) + 1 <= Len(content) =>
                 LineEnd(k) + 1 \in LineStarts /\ Before(LineEnd(k) + 1) = k
<1>1. k \in Nat \ {0} /\ Len(content) \in Nat /\ k <= Len(content) + 1
      /\ (k = 1 \/ content[k - 1] = "NL")
  BY DEF LineStarts, Positions, Text
<1>2. PICK e \in k .. Len(content) + 1 : e = LineEnd(k)
  BY <1>1, LineEndIs
<1>3. /\ e = Len(content) + 1 \/ content[e] = "NL"
      /\ \A j \in k .. e - 1 : content[j] # "NL"
  BY <1>1, <1>2, LineEndIs
<1>4. ASSUME NEW s \in LineStarts, k < s, s < e + 1 PROVE FALSE
  <2>1. s \in Nat /\ s # 1 /\ s - 1 \in k .. e - 1
    BY <1>1, <1>4 DEF LineStarts, Positions
  <2>2. content[s - 1] = "NL"
    BY <2>1 DEF LineStarts
  <2> QED
    BY <1>3, <2>1, <2>2
<1>5. ASSUME e + 1 <= Len(content) PROVE e + 1 \in LineStarts /\ Before(e + 1) = k
  <2>1. e \in Nat \ {0} /\ e + 1 \in Positions /\ (e + 1) - 1 = e /\ content[e] = "NL"
    BY <1>1, <1>3, <1>5 DEF Positions
  <2>2. e + 1 \in LineStarts
    BY <2>1 DEF LineStarts
  <2>3. PICK s \in 1 .. e : s = LineStart(e)
    BY <2>1, LineStartIs
  <2>4. /\ s = 1 \/ content[s - 1] = "NL"
        /\ \A j \in s .. e - 1 : content[j] # "NL"
    BY <2>1, <2>3, LineStartIs
  <2>5. ~(s < k)
    <3> SUFFICES ASSUME s < k PROVE FALSE
      OBVIOUS
    <3>1. k - 1 \in s .. e - 1 /\ k # 1
      BY <1>1, <2>3
    <3> QED
      BY <1>1, <2>4, <3>1
  <2>6. ~(k < s)
    <3> SUFFICES ASSUME k < s PROVE FALSE
      OBVIOUS
    <3>1. s - 1 \in k .. e - 1 /\ s # 1
      BY <1>1, <2>3
    <3> QED
      BY <1>3, <2>4, <3>1
  <2>7. s = k
    BY <1>1, <2>3, <2>5, <2>6
  <2> QED
    BY <2>1, <2>2, <2>3, <2>7 DEF Before
<1> QED
  BY <1>1, <1>2, <1>4, <1>5

\* A line that is not the first follows the one before it.
LEMMA BeforeIs ==
    ASSUME Text, NEW k \in LineStarts, k # 1
    PROVE  /\ Before(k) \in LineStarts /\ Before(k) < k /\ LineEnd(Before(k)) + 1 = k
           /\ \A s \in LineStarts : ~(Before(k) < s /\ s < k)
<1>1. k \in Nat /\ k > 1 /\ Len(content) \in Nat /\ k <= Len(content) /\ content[k - 1] = "NL"
      /\ k - 1 \in Nat \ {0}
  BY DEF LineStarts, Positions, Text
<1>2. PICK e \in Nat \ {0} : e = k - 1 /\ k = e + 1
  BY <1>1
<1>3. PICK s \in 1 .. e : s = LineStart(e)
  BY <1>2, LineStartIs
<1>4. /\ s = 1 \/ content[s - 1] = "NL"
      /\ \A j \in s .. e - 1 : content[j] # "NL"
  BY <1>2, <1>3, LineStartIs
<1>5. s \in LineStarts /\ s < k /\ Before(k) = s
  BY <1>1, <1>2, <1>3, <1>4 DEF LineStarts, Positions, Before
<1>6. PICK n \in Nat : n = LineEnd(s)
  BY <1>5, NextStart
<1>7. /\ s <= n /\ n <= Len(content) + 1
      /\ \A i \in LineStarts : ~(s < i /\ i < n + 1)
  BY <1>5, <1>6, NextStart
<1>8. n = e
  <2>1. ~(e < n)
    BY <1>2, <1>5, <1>7
  <2>2. ~(n < e)
    <3> SUFFICES ASSUME n < e PROVE FALSE
      OBVIOUS
    <3>1. n \in s .. e - 1 /\ n # Len(content) + 1
      BY <1>1, <1>2, <1>3, <1>7
    <3>2. content[n] = "NL"
      <4>1. s \in Nat /\ s <= Len(content) + 1
        BY <1>1, <1>3, <1>5
      <4> QED
        BY <1>6, <3>1, <4>1, LineEndIs
    <3> QED
      BY <1>4, <3>1, <3>2
  <2> QED
    BY <1>2, <2>1, <2>2
<1> QED
  BY <1>2, <1>5, <1>6, <1>7, <1>8

\* What the parser goes by: a run of indented lines that begins the text or
\* follows a blank line, and below the first item, whether it has text or not, a
\* line after an empty one.
PlainRun(k) ==
    \E j \in {s \in LineStarts : s <= k} :
        /\ j = 1 \/ Blank(Line(Before(j)))
        /\ \A s \in LineStarts \cap j .. k : Indent(Line(s)) >= 4
ItemAbove(k) ==
    {m \in LineStarts : /\ m < k /\ IsMarker(Line(m)) /\ Indent(Line(m)) < 4
                        /\ m = 1 \/ ~ListAbove(Before(m))
                        /\ \A s \in LineStarts \cap (m + 1) .. (k - 1) : LineEnd(s) = s}
PastItem(k, m) ==
    LET column == ContentColumn(Line(m)) IN
    /\ Before(k) # m
    /\ Indent(Line(k)) >= 4
    /\ Indent(Line(k)) >= column => Indent(Line(k)) >= column + 4

\* A run of indented lines grows by one line at a time.
LEMMA PlainRunStep ==
    ASSUME Text, NEW k \in LineStarts
    PROVE  PlainRun(k) <=> /\ Indent(Line(k)) >= 4
                           /\ k = 1 \/ Blank(Line(Before(k))) \/ PlainRun(Before(k))
<1>1. k \in Nat \ {0} /\ \A s \in LineStarts : s \in Nat \ {0}
  BY DEF LineStarts, Positions
<1>2. ASSUME PlainRun(k)
      PROVE  Indent(Line(k)) >= 4 /\ (k = 1 \/ Blank(Line(Before(k))) \/ PlainRun(Before(k)))
  <2>1. PICK j \in LineStarts : /\ j <= k /\ (j = 1 \/ Blank(Line(Before(j))))
                                /\ \A s \in LineStarts \cap j .. k : Indent(Line(s)) >= 4
    BY <1>2 DEF PlainRun
  <2>2. Indent(Line(k)) >= 4
    BY <1>1, <2>1
  <2>3. CASE j = k
    BY <2>1, <2>2, <2>3
  <2>4. CASE j # k
    <3>1. k # 1 /\ j < k
      BY <1>1, <2>1, <2>4
    <3>2. Before(k) \in LineStarts /\ Before(k) < k /\ ~(Before(k) < j) /\ Before(k) \in Nat
      BY <1>1, <3>1, BeforeIs
    <3>3. j <= Before(k)
      BY <1>1, <3>2
    <3>4. \A s \in LineStarts \cap j .. Before(k) : Indent(Line(s)) >= 4
      BY <1>1, <2>1, <3>2
    <3>5. PlainRun(Before(k))
      BY <2>1, <3>3, <3>4 DEF PlainRun
    <3> QED
      BY <2>2, <3>5
  <2> QED
    BY <2>3, <2>4
<1>3. ASSUME Indent(Line(k)) >= 4, k = 1 \/ Blank(Line(Before(k))) PROVE PlainRun(k)
  <2>1. \A s \in LineStarts \cap k .. k : Indent(Line(s)) >= 4
    BY <1>1, <1>3
  <2> QED
    BY <1>1, <1>3, <2>1 DEF PlainRun
<1>4. ASSUME Indent(Line(k)) >= 4, k # 1, PlainRun(Before(k)) PROVE PlainRun(k)
  <2>1. /\ Before(k) \in LineStarts /\ Before(k) < k
        /\ \A s \in LineStarts : ~(Before(k) < s /\ s < k)
        /\ Before(k) \in Nat
    BY <1>1, <1>4, BeforeIs
  <2>2. PICK j \in LineStarts : /\ j <= Before(k) /\ (j = 1 \/ Blank(Line(Before(j))))
                                /\ \A s \in LineStarts \cap j .. Before(k) : Indent(Line(s)) >= 4
    BY <1>4 DEF PlainRun
  <2>3. ASSUME NEW s \in LineStarts \cap j .. k PROVE Indent(Line(s)) >= 4
    <3>1. s = k \/ s \in j .. Before(k)
      <4>1. s \in Nat /\ j <= s /\ s <= k /\ ~(Before(k) < s /\ s < k) /\ j \in Nat
        BY <1>1, <2>1
      <4>2. PICK b \in Nat : b = Before(k)
        BY <2>1
      <4> QED
        BY <1>1, <4>1, <4>2
    <3> QED
      BY <1>4, <2>2, <3>1
  <2>4. j <= k
    <3>1. PICK b \in Nat : b = Before(k)
      BY <2>1
    <3> QED
      BY <1>1, <2>1, <2>2, <3>1
  <2> QED
    BY <2>2, <2>3, <2>4 DEF PlainRun
<1> QED
  BY <1>2, <1>3, <1>4

-----------------------------------------------------------------------------
(* Lists: where the text has none yet, and where its first item is.        *)

NoListTo(k) == \A j \in Positions : j < k => content[j] # "- "
FirstItem(m) == m \in LineStarts /\ IsMarker(Line(m)) /\ Indent(Line(m)) < 4 /\ NoListTo(m)

\* Every line between m and k is empty.
EmptyBetween(m, k) == \A s \in LineStarts : m < s /\ s < k => LineEnd(s) = s

LEMMA ListAboveIs ==
    ASSUME Text, NEW k \in LineStarts
    PROVE  ~ListAbove(k) <=> NoListTo(LineEnd(k) + 1)
<1>1. k \in Nat \ {0} /\ Len(content) \in Nat /\ k <= Len(content) + 1
  BY DEF LineStarts, Positions, Text
<1>2. PICK e \in k .. Len(content) + 1 : e = LineEnd(k)
  BY <1>1, LineEndIs
<1>3. e = Len(content) + 1 \/ content[e] # "- "
  BY <1>1, <1>2, LineEndIs
<1>4. ListAbove(k) <=> \E j \in 1 .. e - 1 : content[j] = "- "
  BY <1>2 DEF ListAbove
<1>5. NoListTo(e + 1) <=> \A j \in 1 .. e - 1 : content[j] # "- "
  <2>1. e \in Nat /\ e <= Len(content) + 1 /\ e >= 1
    BY <1>1, <1>2
  <2>2. \A j \in 1 .. e - 1 : j \in Positions /\ j < e + 1
    BY <1>1, <2>1 DEF Positions
  <2>3. \A j \in Positions : j < e + 1 => j \in 1 .. e - 1 \/ content[j] # "- "
    <3> SUFFICES ASSUME NEW j \in Positions, j < e + 1, j \notin 1 .. e - 1 PROVE content[j] # "- "
      OBVIOUS
    <3>1. j = e /\ e # Len(content) + 1
      BY <1>1, <2>1 DEF Positions
    <3> QED
      BY <1>3, <3>1
  <2> QED
    BY <2>2, <2>3 DEF NoListTo
<1> QED
  BY <1>2, <1>4, <1>5

LEMMA ItemAboveIs ==
    ASSUME Text, NEW k \in LineStarts, NEW m \in ItemAbove(k)
    PROVE  m < k /\ FirstItem(m) /\ EmptyBetween(m, k)
<1>1. /\ m \in LineStarts /\ m < k /\ IsMarker(Line(m)) /\ Indent(Line(m)) < 4
      /\ m = 1 \/ ~ListAbove(Before(m))
      /\ \A s \in LineStarts \cap (m + 1) .. (k - 1) : LineEnd(s) = s
  BY DEF ItemAbove
<1>2. k \in Nat /\ m \in Nat /\ \A s \in LineStarts : s \in Nat
  BY <1>1 DEF LineStarts, Positions
<1>3. NoListTo(m)
  <2>1. CASE m = 1
    <3>1. \A j \in Positions : ~(j < 1)
      BY DEF Positions
    <3> QED
      BY <2>1, <3>1 DEF NoListTo
  <2>2. CASE m # 1
    BY <1>1, <2>2, BeforeIs, ListAboveIs
  <2> QED
    BY <2>1, <2>2
<1>4. EmptyBetween(m, k)
  BY <1>1, <1>2 DEF EmptyBetween
<1> QED
  BY <1>1, <1>3, <1>4 DEF FirstItem

LEMMA NoMarkerLine ==
    ASSUME Text, NEW k \in LineStarts, NoListTo(LineEnd(k) + 1)
    PROVE  ~IsMarker(Line(k))
<1> DEFINE line == Line(k)
           c == Cardinality(Leading(line))
<1>1. k \in Nat \ {0} /\ Len(content) \in Nat /\ k <= Len(content) + 1
  BY DEF LineStarts, Positions, Text
<1>2. PICK e \in k .. Len(content) + 1 : e = LineEnd(k)
  BY <1>1, LineEndIs
<1>3. /\ line \in Seq(Tokens) /\ Len(line) = e - k
      /\ \A j \in 1 .. Len(line) : line[j] = content[k + j - 1]
  BY <1>1, <1>2, LineIs
<1> HIDE DEF line
<1>4. c \in 0 .. Len(line) /\ Leading(line) = 1 .. c
  BY <1>3, LeadingIs
<1> HIDE DEF c
<1> SUFFICES ASSUME IsMarker(line) PROVE FALSE
  BY DEF line
<1>5. Leading(line) # 1 .. Len(line) /\ line[c + 1] = "- "
  <2>1. DOMAIN line = 1 .. Len(line)
    BY <1>3
  <2>2. Leading(line) # DOMAIN line /\ First(line) = "- "
    BY Zenon DEF IsMarker, Blank
  <2> QED
    BY <2>1, <2>2 DEF First, c
<1>6. c + 1 \in 1 .. e - k
  <2>1. c # Len(line)
    BY <1>4, <1>5, Zenon
  <2>2. c \in Nat /\ c <= Len(line) /\ Len(line) \in Nat
    BY <1>3, <1>4
  <2> QED
    BY <1>1, <1>2, <1>3, <2>1, <2>2
<1>7. k + (c + 1) - 1 \in 1 .. Len(content) /\ k + (c + 1) - 1 < e + 1
  BY <1>1, <1>2, <1>6
<1>8. content[k + (c + 1) - 1] = "- "
  BY <1>3, <1>5, <1>6
<1> QED
  BY <1>2, <1>7, <1>8 DEF NoListTo, Positions

LEMMA EmptyLine ==
    ASSUME Text, NEW k \in LineStarts, LineEnd(k) = k
    PROVE  Blank(Line(k)) /\ Indent(Line(k)) = 0
<1> DEFINE line == Line(k)
<1>1. k \in Nat \ {0} /\ Len(content) \in Nat /\ k <= Len(content) + 1
  BY DEF LineStarts, Positions, Text
<1>2. line \in Seq(Tokens) /\ Len(line) = 0
  <2>1. Len(line) = k - k /\ line \in Seq(Tokens)
    BY <1>1, LineIs
  <2> QED
    BY <1>1, <2>1
<1> HIDE DEF line
<1>3. DOMAIN line = {}
  BY <1>2
<1>4. Leading(line) = {}
  BY <1>3 DEF Leading
<1>5. {j \in Leading(line) : line[j] = "s4"} = {}
  BY <1>4
<1>6. Indent(line) = 0
  BY <1>4, <1>5, FS_EmptySet DEF Indent
<1> QED
  BY <1>3, <1>4, <1>6 DEF Blank, line

LEMMA ClosedNone ==
    ASSUME NEW indent \in Nat
    PROVE  Closed(<<>>, indent) = <<>>
<1>1. {0} \cup {k \in DOMAIN <<>> : <<>>[k] <= indent} = {0}
  <2>1. DOMAIN <<>> = {}
    OBVIOUS
  <2> QED
    BY <2>1
<1>2. Max({0}) = 0
  BY MaxOfNats
<1>3. SubSeq(<<>>, 1, 0) = <<>>
  OBVIOUS
<1> QED
  BY <1>1, <1>2, <1>3 DEF Closed

LEMMA ClosedOne ==
    ASSUME NEW column \in Nat, NEW indent \in Nat
    PROVE  Closed(<<column>>, indent) = IF column <= indent THEN <<column>> ELSE <<>>
<1>0. SubSeq(<<column>>, 1, 1) = <<column>>
  <2>1. <<column>> = [j \in 1 .. 1 |-> column]
    OBVIOUS
  <2>2. SubSeq(<<column>>, 1, 1) = [j \in 1 .. 1 |-> column]
    OBVIOUS
  <2> QED
    BY <2>1, <2>2
<1> DEFINE T == {0} \cup {k \in DOMAIN <<column>> : <<column>>[k] <= indent}
<1>1. DOMAIN <<column>> = {1} /\ <<column>>[1] = column
  OBVIOUS
<1>2. CASE column <= indent
  <2>1. T = {0, 1}
    BY <1>1, <1>2
  <2>2. Max({0, 1}) = 1
    BY MaxOfNats
  <2> HIDE DEF T
  <2> QED
    BY <1>0, <1>2, <2>1, <2>2 DEF Closed, T
<1>3. CASE ~(column <= indent)
  <2>1. T = {0}
    BY <1>1, <1>3
  <2>2. Max({0}) = 0
    BY MaxOfNats
  <2>3. SubSeq(<<column>>, 1, 0) = <<>>
    OBVIOUS
  <2> HIDE DEF T
  <2> QED
    BY <1>3, <2>1, <2>2, <2>3 DEF Closed, T
<1> QED
  BY <1>2, <1>3

-----------------------------------------------------------------------------
(* One line of indentedCodeBlockRanges.                                    *)

NoFence == \A j \in Positions : content[j] # "fence"

\* The line that begins at k is in an indented code block that is told so far,
\* or in the pending one.
ToldCode(k) == InCode(k) \/ (blockStart # 0 /\ blockStart <= k /\ k < at)

SpanInv ==
    /\ paragraphOpen => blockStart = 0
    /\ blockStart < at
    /\ \A c \in code : c.end <= at

\* A line begins or extends the pending block, or leaves none.
LEMMA LineEffect ==
    ASSUME NEW line, paragraphOpen => blockStart = 0,
           \/ CodeLine(line) \/ LazyLine(line) \/ MarkerLine(line)
           \/ ContinuedLine(line) \/ TextLine(line) \/ BlankLine(line)
    PROVE  \/ /\ IsCode(line) /\ code' = code /\ paragraphOpen' = FALSE
              /\ blockStart' = IF blockStart = 0 THEN at ELSE blockStart
           \/ /\ ~IsCode(line) /\ blockStart' = 0
              /\ code' = IF blockStart = 0 THEN code
                         ELSE code \cup {[start |-> blockStart, end |-> at]}
<1>1. CASE CodeLine(line)
  BY <1>1 DEF CodeLine
<1>2. CASE LazyLine(line)
  <2>1. blockStart = 0 /\ ~IsCode(line)
    BY <1>2 DEF LazyLine, IsLazy, IsCode
  <2> QED
    BY <1>2, <2>1 DEF LazyLine
<1>3. CASE MarkerLine(line)
  BY <1>3 DEF MarkerLine, IsOther, EndBlock
<1>4. CASE ContinuedLine(line)
  BY <1>4 DEF ContinuedLine, IsOther
<1>5. CASE TextLine(line)
  BY <1>5 DEF TextLine, IsOther, EndBlock
<1>6. CASE BlankLine(line)
  BY <1>6 DEF BlankLine, IsOther, EndBlock
<1> QED
  BY <1>1, <1>2, <1>3, <1>4, <1>5, <1>6

LEMMA ToldStep ==
    ASSUME ParseTypeOK, SpanInv, at \in Positions, OpenLine,
           NEW n \in Nat, at' = n, at < n
    PROVE  /\ SpanInv'
           /\ \A k \in Nat : k < at => (ToldCode(k)' <=> ToldCode(k))
           /\ \A k \in Nat : k = at => (ToldCode(k)' <=> IsCode(Line(at)))
           /\ blockStart' # 0 <=> IsCode(Line(at))
<1> DEFINE line == Line(at)
<1>1. /\ at \in Nat \ {0} /\ blockStart \in Nat /\ code \subseteq Span
      /\ (paragraphOpen => blockStart = 0) /\ blockStart < at
      /\ \A c \in code : c.end <= at
  BY DEF ParseTypeOK, Positions, SpanInv
<1>2. \/ CodeLine(line) \/ LazyLine(line) \/ MarkerLine(line)
      \/ ContinuedLine(line) \/ TextLine(line) \/ BlankLine(line)
  BY Zenon DEF OpenLine
<1> HIDE DEF line
<1>3. CASE /\ IsCode(line) /\ code' = code /\ paragraphOpen' = FALSE
           /\ blockStart' = IF blockStart = 0 THEN at ELSE blockStart
  <2>1. SpanInv'
    <3>1. \A c \in code' : c.end <= n
      BY <1>1, <1>3 DEF Span
    <3>2. blockStart' < n
      BY <1>1, <1>3
    <3> QED
      BY <1>3, <3>1, <3>2 DEF SpanInv
  <2>2. ASSUME NEW k \in Nat PROVE InCode(k)' <=> InCode(k)
    BY <1>3 DEF InCode
  <2>3. ASSUME NEW k \in Nat, k < at PROVE ToldCode(k)' <=> ToldCode(k)
    BY <1>1, <1>3, <2>2, <2>3 DEF ToldCode
  <2>4. ASSUME NEW k \in Nat, k = at PROVE ToldCode(k)'
    BY <1>1, <1>3, <2>4 DEF ToldCode
  <2>5. blockStart' # 0
    BY <1>1, <1>3
  <2> QED
    BY <1>3, <2>1, <2>3, <2>4, <2>5 DEF line
<1>4. CASE /\ ~IsCode(line) /\ blockStart' = 0
           /\ code' = IF blockStart = 0 THEN code
                      ELSE code \cup {[start |-> blockStart, end |-> at]}
  <2>1. \A c \in code' : c.end <= at
    BY <1>1, <1>4
  <2>2. SpanInv'
    <3>1. \A c \in code' : c.end <= n
      <4> SUFFICES ASSUME NEW c \in code' PROVE c.end <= n
        OBVIOUS
      <4>1. c \in Span
        BY <1>1, <1>4 DEF Span
      <4>2. c.end \in Nat /\ c.end <= at
        BY <2>1, <4>1 DEF Span
      <4> QED
        BY <1>1, <4>2
    <3> QED
      BY <1>1, <1>4, <3>1 DEF SpanInv
  <2>3. ASSUME NEW k \in Nat, k < at PROVE ToldCode(k)' <=> ToldCode(k)
    <3>1. InCode(k)' <=> InCode(k) \/ (blockStart # 0 /\ blockStart <= k /\ k < at)
      <4>1. CASE blockStart = 0
        BY <1>4, <4>1 DEF InCode
      <4>2. CASE blockStart # 0
        <5>1. PICK r : r = [start |-> blockStart, end |-> at]
          OBVIOUS
        <5>2. code' = code \cup {r} /\ r.start = blockStart /\ r.end = at
          BY <1>4, <4>2, <5>1
        <5>3. InCode(k)' <=> InCode(k) \/ (r.start <= k /\ k < r.end)
          BY <5>2 DEF InCode
        <5> QED
          BY <4>2, <5>2, <5>3
      <4> QED
        BY <4>1, <4>2
    <3> QED
      BY <1>4, <3>1 DEF ToldCode
  <2>4. ASSUME NEW k \in Nat, k = at PROVE ~ToldCode(k)'
    <3>1. \A c \in code' : ~(k < c.end)
      <4> SUFFICES ASSUME NEW c \in code' PROVE ~(k < c.end)
        OBVIOUS
      <4>1. c \in Span
        BY <1>1, <1>4 DEF Span
      <4>2. c.end \in Nat /\ c.end <= at
        BY <2>1, <4>1 DEF Span
      <4> QED
        BY <1>1, <2>4, <4>2
    <3> QED
      BY <1>4, <3>1 DEF ToldCode, InCode
  <2> QED
    BY <1>4, <2>2, <2>3, <2>4 DEF line
<1> QED
  BY <1>1, <1>2, <1>3, <1>4, LineEffect

\* In a text without a fence every line is open.
LEMMA NoFenceNoSpan ==
    ASSUME Text, NoFence
    PROVE  fencedCodeBlockRanges = {} /\ \A k : ~InFence(k)
<1>1. \A k \in Positions : content[k] \notin DOMAIN [t \in {"fence"} |-> {"fence"}]
  BY DEF NoFence
<1>2. fencedCodeBlockRanges = {}
  BY <1>1, NoMarkNoSpan DEF fencedCodeBlockRanges
<1> QED
  BY <1>2 DEF InFence

\* What is read off the text alone stays.
LEMMA SameLines ==
    ASSUME content' = content
    PROVE  /\ LineStarts' = LineStarts /\ Positions' = Positions
           /\ \A k : LineEnd(k)' = LineEnd(k) /\ Line(k)' = Line(k) /\ Before(k)' = Before(k)
           /\ \A k : PlainRun(k)' <=> PlainRun(k)
           /\ \A k : (ListAbove(k)' <=> ListAbove(k)) /\ (NoListTo(k)' <=> NoListTo(k))
           /\ \A k : FirstItem(k)' <=> FirstItem(k)
           /\ \A m, k : EmptyBetween(m, k)' <=> EmptyBetween(m, k)
           /\ \A k : ItemAbove(k)' = ItemAbove(k)
           /\ \A k, m : PastItem(k, m)' <=> PastItem(k, m)
           /\ NoFence' <=> NoFence
<1>1. Positions' = Positions /\ (\A k : LineEnd(k)' = LineEnd(k)) /\ \A k : LineStart(k)' = LineStart(k)
  BY DEF Positions, LineEnd, LineStart
<1>2. LineStarts' = LineStarts
  BY DEF LineStarts, Positions
<1>3. (\A k : Line(k)' = Line(k)) /\ \A k : Before(k)' = Before(k)
  BY <1>1 DEF Line, Before
<1>4. \A k : PlainRun(k)' <=> PlainRun(k)
  BY <1>2, <1>3 DEF PlainRun
<1>5. \A k : (ListAbove(k)' <=> ListAbove(k)) /\ (NoListTo(k)' <=> NoListTo(k))
  BY <1>1 DEF ListAbove, NoListTo, Positions
<1>6. \A k : FirstItem(k)' <=> FirstItem(k)
  BY <1>2, <1>3, <1>5 DEF FirstItem
<1>7. \A m, k : EmptyBetween(m, k)' <=> EmptyBetween(m, k)
  BY <1>1, <1>2 DEF EmptyBetween
<1>8. \A k : ItemAbove(k)' = ItemAbove(k)
  BY <1>1, <1>2, <1>3, <1>5 DEF ItemAbove
<1>9. \A k, m : PastItem(k, m)' <=> PastItem(k, m)
  BY <1>3 DEF PastItem
<1>10. NoFence' <=> NoFence
  BY <1>1 DEF NoFence
<1> QED
  BY <1>1, <1>2, <1>3, <1>4, <1>5, <1>6, <1>7, <1>8, <1>9, <1>10

\* Where a line of a text without a fence leaves the loop.
LEMMA LineStep ==
    ASSUME ParseTypeOK, InText, CodeInv, NoFence, NextLine
    PROVE  /\ Text /\ content' = content /\ phase = "lines" /\ phase' = "lines"
           /\ at \in LineStarts /\ at \in Positions /\ at \in Nat \ {0}
           /\ OpenLine /\ prevBlank' = Blank(Line(at))
           /\ \E n \in Nat : /\ at' = n /\ n = LineEnd(at) + 1 /\ at < n
                             /\ n <= Len(content) => Before(n) = at
                             /\ \A s \in LineStarts : s < n => s < at \/ s = at
<1>1. /\ Text /\ content' = content /\ phase = "lines" /\ phase' = "lines"
      /\ at \in Nat \ {0} /\ at <= Len(content) /\ Len(content) \in Nat
  BY TextTyped DEF NextLine, ParseTypeOK, InText, Text
<1>2. at \in Positions /\ at \in LineStarts
  BY <1>1 DEF Positions, CodeInv, LineBegin, LineStarts
<1>3. ~InFence(at)
  BY <1>1, NoFenceNoSpan
<1>4. OpenLine
  BY <1>3 DEF NextLine, FencedLine
<1>5. prevBlank' = Blank(Line(at))
  BY <1>4 DEF OpenLine
<1>6. at' = LineEnd(at) + 1
  BY DEF NextLine
<1>7. PICK e \in Nat : e = LineEnd(at) /\ at <= e
  BY <1>1, <1>2, NextStart
<1>8. \A s \in LineStarts : ~(at < s /\ s < e + 1)
  BY <1>1, <1>2, <1>7, NextStart
<1>9. e + 1 <= Len(content) => Before(e + 1) = at
  BY <1>1, <1>2, <1>7, NextStart
<1>10. \A s \in LineStarts : s < e + 1 => s < at \/ s = at
  BY <1>1, <1>8 DEF LineStarts, Positions
<1>11. /\ at' = e + 1 /\ e + 1 = LineEnd(at) + 1 /\ at < e + 1 /\ e + 1 \in Nat
  BY <1>1, <1>6, <1>7
<1> QED
  BY <1>1, <1>2, <1>4, <1>5, <1>9, <1>10, <1>11

-----------------------------------------------------------------------------
(* The loop of indentedCodeBlockRanges tells code exactly.                 *)

BlankInv ==
    /\ at = 1 => prevBlank /\ blockStart = 0
    /\ 1 < at /\ at <= Len(content) => (prevBlank <=> Blank(Line(Before(at))))

\* As long as no list has begun no item is open, and a block is pending after a
\* line of code.
PlainInv ==
    /\ NoListTo(at) => columns = <<>>
    /\ NoListTo(at) /\ 1 < at /\ at <= Len(content) => (blockStart # 0 <=> PlainRun(Before(at)))
    /\ \A k \in LineStarts : k < at /\ ~ListAbove(k) => (ToldCode(k) <=> PlainRun(k))

\* Below the first item, with empty lines only since, that item alone is open.
ItemInv ==
    /\ \A m \in LineStarts :
          m < at /\ FirstItem(m) /\ EmptyBetween(m, at) =>
             /\ columns = <<ContentColumn(Line(m))>> /\ blockStart = 0
             /\ prevBlank <=> \E s \in LineStarts : m < s /\ s < at
    /\ \A k \in LineStarts :
          k < at /\ ~Blank(Line(k)) =>
             \A m \in ItemAbove(k) : ToldCode(k) <=> PastItem(k, m)

LEMMA NoListStays ==
    ASSUME NEW k \in Nat, NEW n \in Nat, k <= n, NoListTo(n)
    PROVE  NoListTo(k)
<1>1. \A j \in Positions : j \in Int
  BY DEF Positions
<1>2. ASSUME NEW j \in Positions, j < k PROVE content[j] # "- "
  <2>1. j < n
    BY <1>1, <1>2
  <2> QED
    BY <2>1 DEF NoListTo
<1> QED
  BY <1>2 DEF NoListTo

\* Above every list, a line is code where it continues a run of indented lines
\* or begins one after a blank line.
LEMMA NoItemIsOpen ==
    ASSUME ParseTypeOK, at \in LineStarts, BlankInv, PlainInv, NoListTo(at)
    PROVE  /\ columns = <<>> /\ OpenItems(Line(at)) = <<>>
           /\ Closed(columns, Indent(Line(at))) = <<>>
           /\ Indent(Line(at)) \in Nat
           /\ IsCode(Line(at)) <=> PlainRun(at)
<1> DEFINE line == Line(at)
<1>1. /\ Text /\ at \in Nat \ {0} /\ at <= Len(content) + 1 /\ at <= Len(content)
      /\ Len(content) \in Nat
  BY TextTyped DEF ParseTypeOK, LineStarts, Positions, Text
<1>2. line \in Seq(Tokens)
  BY <1>1, LineIs
<1>3. Indent(line) \in Nat
  BY <1>2, IndentNat
<1>4. columns = <<>>
  BY DEF PlainInv
<1>5. Closed(columns, Indent(line)) = <<>>
  BY <1>3, <1>4, ClosedNone
<1>6. OpenItems(line) = <<>>
  BY <1>4, <1>5 DEF OpenItems
<1>7. Threshold(OpenItems(line)) = 4
  BY <1>6 DEF Threshold
<1>8. IsCode(line) <=> Indent(line) >= 4 /\ (blockStart # 0 \/ prevBlank)
  BY <1>7 DEF IsCode
<1>9. PlainRun(at) <=> Indent(line) >= 4 /\ (at = 1 \/ Blank(Line(Before(at))) \/ PlainRun(Before(at)))
  BY <1>1, PlainRunStep
<1>10. (blockStart # 0 \/ prevBlank) <=> (at = 1 \/ Blank(Line(Before(at))) \/ PlainRun(Before(at)))
  <2>1. CASE at = 1
    BY <2>1 DEF BlankInv
  <2>2. CASE at # 1
    BY <1>1, <2>2 DEF BlankInv, PlainInv
  <2> QED
    BY <2>1, <2>2
<1> QED
  BY <1>3, <1>4, <1>5, <1>6, <1>8, <1>9, <1>10

LEMMA PlainNext ==
    ASSUME ParseTypeOK, InText, CodeInv, NoFence, SpanInv, BlankInv, PlainInv, NextLine
    PROVE  BlankInv' /\ PlainInv'
<1> DEFINE line == Line(at)
<1>1. /\ Text /\ content' = content /\ at \in LineStarts /\ at \in Positions /\ at \in Nat \ {0}
      /\ OpenLine /\ prevBlank' = Blank(line)
  BY LineStep
<1>2. PICK n \in Nat : /\ at' = n /\ n = LineEnd(at) + 1 /\ at < n
                       /\ n <= Len(content) => Before(n) = at
                       /\ \A s \in LineStarts : s < n => s < at \/ s = at
  BY LineStep
<1>3. /\ LineStarts' = LineStarts
      /\ \A k : Line(k)' = Line(k) /\ Before(k)' = Before(k)
      /\ \A k : PlainRun(k)' <=> PlainRun(k)
      /\ \A k : (ListAbove(k)' <=> ListAbove(k)) /\ (NoListTo(k)' <=> NoListTo(k))
  BY <1>1, SameLines
<1>4. /\ \A k \in Nat : k < at => (ToldCode(k)' <=> ToldCode(k))
      /\ \A k \in Nat : k = at => (ToldCode(k)' <=> IsCode(line))
      /\ blockStart' # 0 <=> IsCode(line)
  BY <1>1, <1>2, ToldStep
<1>5. BlankInv'
  <2>1. at' # 1
    BY <1>1, <1>2
  <2>2. n <= Len(content) => (prevBlank' <=> Blank(Line(Before(n))))
    BY <1>1, <1>2
  <2>3. at' <= Len(content') => (prevBlank' <=> Blank(Line(Before(n))'))
    BY <1>1, <1>2, <1>3, <2>2
  <2>4. Blank(Line(Before(n))') = Blank(Line(Before(at)))'
    BY <1>2, <1>3
  <2> QED
    BY <2>1, <2>3, <2>4 DEF BlankInv
<1>6. ASSUME NoListTo(n)
      PROVE  /\ columns' = <<>>
             /\ IsCode(line) <=> PlainRun(at)
  <2>1. NoListTo(at)
    BY <1>1, <1>2, <1>6, NoListStays
  <2>2. /\ columns = <<>> /\ OpenItems(line) = <<>> /\ Closed(columns, Indent(line)) = <<>>
        /\ IsCode(line) <=> PlainRun(at)
    BY <1>1, <2>1, NoItemIsOpen
  <2>3. ~IsMarker(line)
    BY <1>1, <1>2, <1>6, NoMarkerLine
  <2>4. \/ CodeLine(line) \/ LazyLine(line) \/ MarkerLine(line)
        \/ ContinuedLine(line) \/ TextLine(line) \/ BlankLine(line)
    BY <1>1, Zenon DEF OpenLine
  <2> HIDE DEF line
  <2>5. columns' = <<>>
    BY <2>2, <2>3, <2>4 DEF CodeLine, LazyLine, MarkerLine, ContinuedLine, TextLine, BlankLine
  <2> QED
    BY <2>2, <2>5
<1>7. ASSUME NEW k \in LineStarts, k < n, ~ListAbove(k) PROVE ToldCode(k)' <=> PlainRun(k)
  <2>1. k \in Nat
    BY DEF LineStarts, Positions
  <2>2. CASE k < at
    BY <1>4, <1>7, <2>1, <2>2 DEF PlainInv
  <2>3. CASE k = at
    <3>1. NoListTo(n)
      BY <1>1, <1>2, <1>7, <2>3, ListAboveIs
    <3> QED
      BY <1>4, <1>6, <2>1, <2>3, <3>1
  <2> QED
    BY <1>2, <1>7, <2>2, <2>3
<1>8. PlainInv'
  <2>1. NoListTo(at)' => columns' = <<>>
    BY <1>2, <1>3, <1>6
  <2>2. ASSUME NoListTo(at)', at' <= Len(content')
        PROVE  blockStart' # 0 <=> PlainRun(Before(at))'
    <3>1. NoListTo(n) /\ Before(n) = at
      BY <1>1, <1>2, <1>3, <2>2
    <3>2. blockStart' # 0 <=> PlainRun(at)
      BY <1>4, <1>6, <3>1
    <3>3. PlainRun(Before(at))' <=> PlainRun(Before(n))
      BY <1>2, <1>3
    <3> QED
      BY <3>1, <3>2, <3>3
  <2>3. \A k \in LineStarts' : k < at' /\ ~ListAbove(k)' => (ToldCode(k)' <=> PlainRun(k)')
    BY <1>2, <1>3, <1>7
  <2> QED
    BY <2>1, <2>2, <2>3 DEF PlainInv
<1> QED
  BY <1>5, <1>8

\* An empty line leaves the open items and ends the pending block.
LEMMA EmptyLineStep ==
    ASSUME ParseTypeOK, at \in LineStarts, OpenLine, LineEnd(at) = at
    PROVE  columns' = columns /\ blockStart' = 0
<1> DEFINE line == Line(at)
<1>1. Text
  BY TextTyped
<1>2. Blank(line) /\ Indent(line) = 0
  BY <1>1, EmptyLine
<1>3. \/ CodeLine(line) \/ LazyLine(line) \/ MarkerLine(line)
      \/ ContinuedLine(line) \/ TextLine(line) \/ BlankLine(line)
  BY Zenon DEF OpenLine
<1> HIDE DEF line
<1>4. OpenItems(line) = columns
  BY <1>2 DEF OpenItems
<1>5. Threshold(columns) >= 4
  <2>1. CASE columns = <<>>
    BY <2>1 DEF Threshold
  <2>2. CASE columns # <<>>
    <3>1. Last(columns) \in Nat
      BY <2>2 DEF Last, ParseTypeOK
    <3> QED
      BY <2>2, <3>1 DEF Threshold
  <2> QED
    BY <2>1, <2>2
<1>6. ~IsCode(line) /\ ~IsLazy(line)
  <2>1. Threshold(columns) \in Nat
    <3>1. columns # <<>> => Last(columns) \in Nat
      BY DEF Last, ParseTypeOK
    <3> QED
      BY <3>1 DEF Threshold
  <2>2. ~(Indent(line) >= Threshold(columns))
    BY <1>2, <1>5, <2>1
  <2> QED
    BY <1>4, <2>2 DEF IsCode, IsLazy
<1>7. BlankLine(line)
  BY <1>2, <1>3, <1>6 DEF CodeLine, LazyLine, MarkerLine, ContinuedLine, TextLine, IsMarker
<1> QED
  BY <1>7 DEF BlankLine, EndBlock

\* The first item of the text opens: its content column is the only one.
LEMMA FirstItemStep ==
    ASSUME ParseTypeOK, at \in LineStarts, BlankInv, PlainInv, OpenLine, FirstItem(at)
    PROVE  /\ columns' = <<ContentColumn(Line(at))>> /\ blockStart' = 0
           /\ prevBlank' = FALSE
<1> DEFINE line == Line(at)
<1>1. IsMarker(line) /\ Indent(line) < 4 /\ NoListTo(at)
  BY DEF FirstItem
<1>2. /\ columns = <<>> /\ OpenItems(line) = <<>> /\ Closed(columns, Indent(line)) = <<>>
      /\ Indent(line) \in Nat
  BY <1>1, NoItemIsOpen
<1>3. \/ CodeLine(line) \/ LazyLine(line) \/ MarkerLine(line)
      \/ ContinuedLine(line) \/ TextLine(line) \/ BlankLine(line)
  BY Zenon DEF OpenLine
<1>4. prevBlank' = Blank(line)
  BY DEF OpenLine
<1> HIDE DEF line
<1>5. ~Blank(line)
  BY <1>1 DEF IsMarker
<1>6. ~IsCode(line) /\ ~IsLazy(line)
  <2>1. Threshold(<<>>) = 4
    BY DEF Threshold
  <2>2. ~(Indent(line) >= 4)
    BY <1>1, <1>2
  <2> QED
    BY <1>2, <2>1, <2>2 DEF IsCode, IsLazy
<1>7. MarkerLine(line)
  BY <1>1, <1>3, <1>5, <1>6 DEF CodeLine, LazyLine, ContinuedLine, TextLine, BlankLine
<1>8. columns' = Append(<<>>, ContentColumn(line)) /\ blockStart' = 0
  BY <1>2, <1>7 DEF MarkerLine, EndBlock
<1>9. Append(<<>>, ContentColumn(line)) = <<ContentColumn(line)>>
  OBVIOUS
<1> QED
  BY <1>4, <1>5, <1>8, <1>9 DEF line, Blank

\* Below the first item, a line is code four columns past the text of the item,
\* or past the margin where it is left of that text.
LEMMA ItemIsOpen ==
    ASSUME ParseTypeOK, at \in LineStarts, ItemInv, ~Blank(Line(at)),
           NEW m \in ItemAbove(at)
    PROVE  IsCode(Line(at)) <=> PastItem(at, m)
<1> DEFINE line == Line(at)
           column == ContentColumn(Line(m))
<1>1. /\ Text /\ at \in Nat \ {0} /\ at <= Len(content) + 1
      /\ Len(content) \in Nat
  BY TextTyped DEF ParseTypeOK, LineStarts, Positions, Text
<1>2. m < at /\ FirstItem(m) /\ EmptyBetween(m, at) /\ m \in LineStarts
  BY <1>1, ItemAboveIs DEF FirstItem
<1>3. /\ columns = <<column>> /\ blockStart = 0
      /\ prevBlank <=> \E s \in LineStarts : m < s /\ s < at
  BY <1>2 DEF ItemInv
<1>4. m \in Nat \ {0} /\ m <= Len(content) + 1
  BY <1>1, <1>2 DEF LineStarts, Positions
<1>5. Indent(line) \in Nat /\ column \in Nat
  BY <1>1, <1>4, LineIs, IndentNat
<1>6. prevBlank <=> Before(at) # m
  <2>1. /\ Before(at) \in LineStarts /\ Before(at) < at
        /\ \A s \in LineStarts : ~(Before(at) < s /\ s < at)
    BY <1>1, <1>2, <1>4, BeforeIs
  <2>2. PICK b \in LineStarts : b = Before(at)
    BY <2>1
  <2>3. \A s \in LineStarts : s \in Nat
    BY DEF LineStarts, Positions
  <2>4. ASSUME b # m PROVE m < b /\ b < at
    BY <1>2, <2>1, <2>2, <2>3, <2>4
  <2>5. ASSUME NEW s \in LineStarts, m < s, s < at, b = m PROVE FALSE
    BY <2>1, <2>2, <2>5
  <2> QED
    BY <1>3, <2>2, <2>4, <2>5
<1> HIDE DEF line, column
<1>7. ~Blank(line)
  BY DEF line
<1>8. IsCode(line) <=> Indent(line) >= Threshold(OpenItems(line)) /\ prevBlank
  BY <1>3 DEF IsCode
<1>9. Last(<<column>>) = column
  <2>1. <<column>>[1] = column /\ Len(<<column>>) = 1
    OBVIOUS
  <2> QED
    BY <2>1 DEF Last
<1>10. Threshold(<<column>>) = column + 4 /\ Threshold(<<>>) = 4
  <2>1. <<column>> # <<>>
    OBVIOUS
  <2> QED
    BY <1>9, <2>1 DEF Threshold
<1>11. ASSUME prevBlank
       PROVE  Indent(line) >= Threshold(OpenItems(line)) <=>
                 Indent(line) >= 4 /\ (Indent(line) >= column => Indent(line) >= column + 4)
  <2>1. CASE ~(Indent(line) >= 4)
    <3>1. OpenItems(line) = <<column>>
      BY <1>3, <2>1 DEF OpenItems
    <3> QED
      BY <1>5, <1>10, <2>1, <3>1
  <2>2. CASE Indent(line) >= 4
    <3>1. OpenItems(line) = Closed(<<column>>, Indent(line))
      BY <1>3, <1>7, <1>11, <2>2 DEF OpenItems
    <3>2. CASE column <= Indent(line)
      <4>1. OpenItems(line) = <<column>>
        BY <1>5, <3>1, <3>2, ClosedOne
      <4> QED
        BY <1>5, <1>10, <2>2, <3>2, <4>1
    <3>3. CASE ~(column <= Indent(line))
      <4>1. OpenItems(line) = <<>>
        BY <1>5, <3>1, <3>3, ClosedOne
      <4> QED
        BY <1>5, <1>10, <2>2, <3>3, <4>1
    <3> QED
      BY <3>2, <3>3
  <2> QED
    BY <2>1, <2>2
<1>12. PastItem(at, m) <=> /\ Before(at) # m
                           /\ Indent(line) >= 4
                           /\ Indent(line) >= column => Indent(line) >= column + 4
  BY DEF PastItem, line, column
<1>13. IsCode(line) <=> PastItem(at, m)
  BY <1>6, <1>8, <1>11, <1>12
<1> QED
  BY <1>13 DEF line

LEMMA ItemNext ==
    ASSUME ParseTypeOK, InText, CodeInv, NoFence, SpanInv, BlankInv, PlainInv, ItemInv, NextLine
    PROVE  ItemInv'
<1> DEFINE line == Line(at)
<1>1. /\ Text /\ content' = content /\ at \in LineStarts /\ at \in Positions /\ at \in Nat \ {0}
      /\ OpenLine /\ prevBlank' = Blank(line)
  BY LineStep
<1>2. PICK n \in Nat : /\ at' = n /\ n = LineEnd(at) + 1 /\ at < n
                       /\ \A s \in LineStarts : s < n => s < at \/ s = at
  BY LineStep
<1>3. /\ LineStarts' = LineStarts
      /\ \A k : Line(k)' = Line(k)
      /\ \A k : FirstItem(k)' <=> FirstItem(k)
      /\ \A m, k : EmptyBetween(m, k)' <=> EmptyBetween(m, k)
      /\ \A k : ItemAbove(k)' = ItemAbove(k)
      /\ \A k, m : PastItem(k, m)' <=> PastItem(k, m)
  BY <1>1, SameLines
<1>4. /\ \A k \in Nat : k < at => (ToldCode(k)' <=> ToldCode(k))
      /\ \A k \in Nat : k = at => (ToldCode(k)' <=> IsCode(line))
  BY <1>1, <1>2, ToldStep
<1>5. \A s \in LineStarts : s \in Nat
  BY DEF LineStarts, Positions
<1>6. ASSUME NEW m \in LineStarts, m < n, FirstItem(m), EmptyBetween(m, n)
      PROVE  /\ columns' = <<ContentColumn(Line(m))>> /\ blockStart' = 0
             /\ prevBlank' <=> \E s \in LineStarts : m < s /\ s < n
  <2>1. CASE m = at
    <3>1. /\ columns' = <<ContentColumn(Line(at))>> /\ blockStart' = 0
          /\ prevBlank' = FALSE
      BY <1>1, <1>6, <2>1, FirstItemStep
    <3>2. ASSUME NEW s \in LineStarts, m < s, s < n PROVE FALSE
      BY <1>1, <1>2, <1>5, <2>1, <3>2
    <3> QED
      BY <2>1, <3>1, <3>2
  <2>2. CASE m # at
    <3>1. m < at
      BY <1>2, <1>6, <2>2
    <3>2. LineEnd(at) = at
      BY <1>1, <1>2, <1>6, <3>1 DEF EmptyBetween
    <3>3. EmptyBetween(m, at)
      BY <1>1, <1>2, <1>5, <1>6 DEF EmptyBetween
    <3>4. columns' = columns /\ blockStart' = 0
      BY <1>1, <3>2, EmptyLineStep
    <3>5. columns = <<ContentColumn(Line(m))>>
      BY <1>6, <3>1, <3>3 DEF ItemInv
    <3>6. prevBlank' = TRUE
      <4>1. Blank(line)
        BY <1>1, <3>2, EmptyLine
      <4> QED
        BY <1>1, <4>1 DEF Blank
    <3> QED
      BY <1>1, <1>2, <3>1, <3>4, <3>5, <3>6
  <2> QED
    BY <2>1, <2>2
<1>7. ASSUME NEW k \in LineStarts, k < n, ~Blank(Line(k)), NEW m \in ItemAbove(k)
      PROVE  ToldCode(k)' <=> PastItem(k, m)
  <2>1. CASE k < at
    BY <1>4, <1>5, <1>7, <2>1 DEF ItemInv
  <2>2. CASE k = at
    <3>1. IsCode(line) <=> PastItem(at, m)
      BY <1>1, <1>7, <2>2, ItemIsOpen
    <3> QED
      BY <1>4, <1>5, <2>2, <3>1
  <2> QED
    BY <1>2, <1>7, <2>1, <2>2
<1>8. \A m \in LineStarts' :
          m < at' /\ FirstItem(m)' /\ EmptyBetween(m, at)' =>
             /\ columns' = <<ContentColumn(Line(m)')>> /\ blockStart' = 0
             /\ prevBlank' <=> \E s \in LineStarts' : m < s /\ s < at'
  <2>1. \A m : EmptyBetween(m, at)' <=> EmptyBetween(m, n)
    BY <1>2, <1>3
  <2> QED
    BY <1>2, <1>3, <1>6, <2>1
<1>9. \A k \in LineStarts' :
          k < at' /\ ~Blank(Line(k)') =>
             \A m \in ItemAbove(k)' : ToldCode(k)' <=> PastItem(k, m)'
  BY <1>2, <1>3, <1>7
<1>10. /\ \A k, m : ContentColumn(Line(m)') = ContentColumn(Line(m))'
       /\ \A k : Blank(Line(k)') <=> Blank(Line(k))'
  BY DEF ContentColumn, Blank, HasItemContent, AfterMarker, Indent, Leading
<1> QED
  BY <1>8, <1>9, <1>10 DEF ItemInv

LEMMA SpanNext ==
    ASSUME ParseTypeOK, InText, SpanInv, NextLine
    PROVE  SpanInv'
<1>1. /\ Text /\ at \in Nat \ {0} /\ at <= Len(content) /\ at <= Len(content) + 1
      /\ Len(content) \in Nat
  BY TextTyped DEF NextLine, ParseTypeOK, InText, Text
<1>2. at \in Positions
  BY <1>1 DEF Positions
<1>3. LineEnd(at) \in at .. Len(content) + 1
  BY <1>1, LineEndIs
<1>4. at' = LineEnd(at) + 1
  BY DEF NextLine
<1>5. PICK n \in Nat : n = at' /\ at < n
  BY <1>1, <1>3, <1>4
<1>6. CASE OpenLine
  BY <1>2, <1>5, <1>6, ToldStep
<1>7. CASE FencedLine
  <2>1. blockStart' = blockStart /\ paragraphOpen' = paragraphOpen /\ code' = code
    BY <1>7 DEF FencedLine, lineVars
  <2>2. \A c \in code : c.end \in Nat
    BY DEF ParseTypeOK, Span
  <2>3. \A c \in code : c.end <= n
    BY <1>1, <1>5, <2>2 DEF SpanInv
  <2>4. blockStart < n
    BY <1>1, <1>5 DEF SpanInv, ParseTypeOK
  <2> QED
    BY <1>5, <2>1, <2>3, <2>4 DEF SpanInv
<1> QED
  BY <1>6, <1>7 DEF NextLine

\* After the last line the blocks hold what the loop told.
LEMMA ToldAtEnd ==
    ASSUME ParseTypeOK, EndOfLines, NEW k \in Positions
    PROVE  InCode(k)' <=> ToldCode(k)
<1>1. /\ k \in Nat /\ k < at /\ k < Len(content) + 1 /\ Len(content) \in Nat
  BY DEF EndOfLines, ParseTypeOK, Positions
<1>2. code' = IF blockStart = 0 THEN code
              ELSE code \cup {[start |-> blockStart, end |-> Len(content) + 1]}
  BY DEF EndOfLines
<1>3. CASE blockStart = 0
  BY <1>2, <1>3 DEF InCode, ToldCode
<1>4. CASE blockStart # 0
  <2>1. PICK r : r = [start |-> blockStart, end |-> Len(content) + 1]
    OBVIOUS
  <2>2. code' = code \cup {r} /\ r.start = blockStart /\ r.end = Len(content) + 1
    BY <1>2, <1>4, <2>1
  <2>3. InCode(k)' <=> InCode(k) \/ (r.start <= k /\ k < r.end)
    BY <2>2 DEF InCode
  <2> QED
    BY <1>1, <1>4, <2>2, <2>3 DEF ToldCode
<1> QED
  BY <1>3, <1>4

\* The blocks are the runs of lines the parser goes by.
ToldExactly ==
    phase # "lines" /\ NoFence =>
        \A k \in LineStarts :
            ~Blank(Line(k)) =>
               /\ ~ListAbove(k) => (InCode(k) <=> PlainRun(k))
               /\ \A m \in ItemAbove(k) : InCode(k) <=> PastItem(k, m)

ExactInv ==
    /\ phase = "lines" => SpanInv
    /\ phase = "lines" /\ NoFence => BlankInv /\ PlainInv /\ ItemInv
    /\ ToldExactly

LEMMA ExactInit == ParseInit => ExactInv
<1> SUFFICES ASSUME ParseInit PROVE ExactInv
  OBVIOUS
<1>1. /\ phase = "lines" /\ at = 1 /\ prevBlank = TRUE /\ blockStart = 0 /\ columns = <<>>
      /\ paragraphOpen = FALSE /\ code = {}
  BY DEF ParseInit
<1>2. \A k \in LineStarts : k \in Nat /\ ~(k < 1)
  BY DEF LineStarts, Positions
<1>3. SpanInv
  BY <1>1 DEF SpanInv
<1>4. BlankInv /\ PlainInv
  BY <1>1, <1>2 DEF BlankInv, PlainInv
<1>5. ItemInv
  BY <1>1, <1>2 DEF ItemInv
<1> QED
  BY <1>1, <1>3, <1>4, <1>5 DEF ExactInv, ToldExactly

LEMMA ExactEnd ==
    ASSUME ParseTypeOK, InText, ExactInv, EndOfLines
    PROVE  ExactInv'
<1>1. phase = "lines" /\ phase' = "scan" /\ content' = content /\ at > Len(content)
  BY DEF EndOfLines
<1>2. /\ LineStarts' = LineStarts /\ Positions' = Positions
      /\ \A k : Line(k)' = Line(k)
      /\ \A k : PlainRun(k)' <=> PlainRun(k)
      /\ \A k : ListAbove(k)' <=> ListAbove(k)
      /\ \A k : ItemAbove(k)' = ItemAbove(k)
      /\ \A k, m : PastItem(k, m)' <=> PastItem(k, m)
      /\ NoFence' <=> NoFence
  BY <1>1, SameLines
<1>3. \A k \in LineStarts : k \in Positions /\ k < at
  BY <1>1 DEF LineStarts, Positions, ParseTypeOK
<1>4. ASSUME NoFence, NEW k \in LineStarts, ~Blank(Line(k))
      PROVE  /\ ~ListAbove(k) => (InCode(k)' <=> PlainRun(k))
             /\ \A m \in ItemAbove(k) : InCode(k)' <=> PastItem(k, m)
  <2>1. InCode(k)' <=> ToldCode(k)
    BY <1>3, ToldAtEnd
  <2>2. ~ListAbove(k) => (ToldCode(k) <=> PlainRun(k))
    BY <1>1, <1>3, <1>4 DEF ExactInv, PlainInv
  <2>3. \A m \in ItemAbove(k) : ToldCode(k) <=> PastItem(k, m)
    BY <1>1, <1>3, <1>4 DEF ExactInv, ItemInv
  <2> QED
    BY <2>1, <2>2, <2>3
<1>6. \A k : Blank(Line(k)') <=> Blank(Line(k))'
  BY DEF Blank, Leading
<1>7. ToldExactly'
  BY <1>2, <1>4, <1>6 DEF ToldExactly
<1> QED
  BY <1>1, <1>7 DEF ExactInv

\* The loops after the first read the blocks and leave them.
LEMMA ExactStays ==
    ASSUME ExactInv, content' = content, code' = code, phase # "lines", phase' # "lines"
    PROVE  ExactInv'
<1>1. /\ LineStarts' = LineStarts /\ Positions' = Positions
      /\ \A k : Line(k)' = Line(k)
      /\ \A k : PlainRun(k)' <=> PlainRun(k)
      /\ \A k : ListAbove(k)' <=> ListAbove(k)
      /\ \A k : ItemAbove(k)' = ItemAbove(k)
      /\ \A k, m : PastItem(k, m)' <=> PastItem(k, m)
      /\ NoFence' <=> NoFence
  BY SameLines
<1>2. \A k : InCode(k)' <=> InCode(k)
  BY DEF InCode
<1>3. \A k : Blank(Line(k)') <=> Blank(Line(k))'
  BY DEF Blank, Leading
<1>5. ToldExactly
  BY DEF ExactInv
<1>6. ToldExactly'
  BY <1>1, <1>2, <1>3, <1>5 DEF ToldExactly
<1> QED
  BY <1>6 DEF ExactInv

LEMMA ExactNext ==
    ASSUME ParseTypeOK, InText, CodeInv, ExactInv, [ParseNext]_parseVars
    PROVE  ExactInv'
<1>1. CASE NextLine
  <2>1. phase = "lines" /\ phase' = "lines" /\ content' = content
    BY <1>1 DEF NextLine
  <2>2. SpanInv'
    BY <1>1, <2>1, SpanNext DEF ExactInv
  <2>3. NoFence' => NoFence
    BY <2>1, SameLines
  <2>4. ASSUME NoFence PROVE BlankInv' /\ PlainInv' /\ ItemInv'
    BY <1>1, <2>1, <2>4, PlainNext, ItemNext DEF ExactInv
  <2>5. ToldExactly'
    BY <2>1 DEF ToldExactly
  <2> QED
    BY <2>2, <2>3, <2>4, <2>5 DEF ExactInv
<1>2. CASE EndOfLines
  BY <1>2, ExactEnd
<1>3. CASE SkipText
  BY <1>3, ExactStays DEF SkipText, Scanning, lineVars
<1>4. CASE SkipBracket
  BY <1>4, ExactStays DEF SkipBracket, Scanning, lineVars
<1>5. CASE TakeToken
  BY <1>5, ExactStays DEF TakeToken, Scanning, lineVars
<1>6. CASE EndOfScan
  BY <1>6, ExactStays DEF EndOfScan, lineVars
<1>7. CASE DropToken
  BY <1>7, ExactStays DEF DropToken, Selecting, lineVars
<1>8. CASE PlainLink
  BY <1>8, ExactStays DEF PlainLink, Selecting, lineVars
<1>9. CASE LinkWithDestination
  BY <1>9, ExactStays DEF LinkWithDestination, Selecting, lineVars
<1>10. CASE EndOfTokens
  BY <1>10, ExactStays DEF EndOfTokens, lineVars
<1>11. CASE UNCHANGED parseVars
  <2>1. CASE phase = "lines"
    <3>1. /\ content' = content /\ phase' = phase /\ at' = at /\ columns' = columns
          /\ blockStart' = blockStart /\ prevBlank' = prevBlank
          /\ paragraphOpen' = paragraphOpen /\ code' = code
      BY <1>11 DEF parseVars, lineVars
    <3>2. SpanInv' <=> SpanInv
      BY <3>1 DEF SpanInv
    <3>3. (\A k : InCode(k)' <=> InCode(k)) /\ \A k : ToldCode(k)' <=> ToldCode(k)
      BY <3>1 DEF InCode, ToldCode
    <3>4. /\ LineStarts' = LineStarts
          /\ \A k : Line(k)' = Line(k) /\ Before(k)' = Before(k)
          /\ \A k : PlainRun(k)' <=> PlainRun(k)
          /\ \A k : (ListAbove(k)' <=> ListAbove(k)) /\ (NoListTo(k)' <=> NoListTo(k))
          /\ \A k : FirstItem(k)' <=> FirstItem(k)
          /\ \A m, k : EmptyBetween(m, k)' <=> EmptyBetween(m, k)
          /\ \A k : ItemAbove(k)' = ItemAbove(k)
          /\ \A k, m : PastItem(k, m)' <=> PastItem(k, m)
          /\ NoFence' <=> NoFence
      BY <3>1, SameLines
    <3>5. BlankInv' <=> BlankInv
      BY <3>1, <3>4 DEF BlankInv, Blank, Leading
    <3>6. PlainInv' <=> PlainInv
      BY <3>1, <3>3, <3>4 DEF PlainInv
    <3>7. /\ \A k : ContentColumn(Line(k))' = ContentColumn(Line(k))
          /\ \A k : Blank(Line(k))' <=> Blank(Line(k))
      <4>1. /\ \A k : ContentColumn(Line(k)') = ContentColumn(Line(k))'
            /\ \A k : Blank(Line(k)') <=> Blank(Line(k))'
        BY DEF ContentColumn, Blank, HasItemContent, AfterMarker, Indent, Leading
      <4> QED
        BY <3>4, <4>1
    <3>8. ItemInv' <=> ItemInv
      BY <3>1, <3>3, <3>4, <3>7 DEF ItemInv
    <3>9. ToldExactly'
      BY <2>1, <3>1 DEF ToldExactly
    <3> QED
      BY <2>1, <3>1, <3>2, <3>4, <3>5, <3>6, <3>8, <3>9 DEF ExactInv
  <2>2. CASE phase # "lines"
    BY <1>11, <2>2, ExactStays DEF parseVars, lineVars
  <2> QED
    BY <2>1, <2>2
<1> QED
  BY <1>1, <1>2, <1>3, <1>4, <1>5, <1>6, <1>7, <1>8, <1>9, <1>10, <1>11 DEF ParseNext

\* The variables of the parser keep their types.
THEOREM ParseTypes == ParseSpec => []ParseTypeOK
<1>1. ParseSpec => []ParseIInv
  BY ParseIInvInit, ParseIInvNext, PTL DEF ParseSpec
<1>2. ParseIInv => ParseTypeOK
  BY DEF ParseIInv, ScanIInv
<1> QED
  BY <1>1, <1>2, PTL

\* Of a run of indented lines below a heading, the parser tells what follows a
\* blank line.
LEMMA RunBelowHeading ==
    ASSUME Text, NEW k \in LineStarts, ~Blank(Line(k)), PlainCode(k)
    PROVE  PlainRun(k) \/ MissedBelowHeading(k)
<1>1. k \in Nat \ {0} /\ k <= Len(content) /\ Len(content) \in Nat
      /\ \A s \in LineStarts : s \in Nat \ {0} /\ s <= Len(content)
  BY DEF LineStarts, Positions, Text
<1>2. PICK j \in LineStarts : /\ j <= k /\ (BlankAbove(j) \/ HeadingAbove(j))
                              /\ \A s \in LineStarts \cap j .. k : Indent(Line(s)) >= 4
  BY DEF PlainCode, Indented
<1>3. CASE BlankAbove(j)
  BY <1>2, <1>3 DEF PlainRun, BlankAbove
<1>4. CASE HeadingAbove(j) /\ \A s \in LineStarts \cap j .. k : ~Blank(Line(s))
  BY <1>2, <1>4 DEF MissedBelowHeading, Indented
<1>5. CASE \E s \in LineStarts \cap j .. k : Blank(Line(s))
  <2>1. PICK s \in LineStarts : s \in j .. k /\ Blank(Line(s))
    BY <1>5
  <2>2. s \in Nat /\ j <= s /\ s < k /\ j \in Nat
    <3>1. s # k
      BY <2>1
    <3> QED
      BY <1>1, <1>2, <2>1, <3>1
  <2>3. PICK e \in Nat : e = LineEnd(s) + 1 /\ s < e
    BY <2>2, NextStart
  <2>4. ~(k < e)
    BY <2>2, <2>3, NextStart
  <2>5. e <= k /\ e <= Len(content)
    BY <1>1, <2>3, <2>4
  <2>6. e \in LineStarts /\ Before(e) = s
    BY <2>3, <2>5, NextStart
  <2>7. \A r \in LineStarts \cap e .. k : Indent(Line(r)) >= 4
    BY <1>1, <1>2, <2>2, <2>3
  <2> QED
    BY <2>1, <2>5, <2>6, <2>7 DEF PlainRun
<1> QED
  BY <1>2, <1>3, <1>4, <1>5

\* What the parser goes by is markdown's, but for the blocks it misses.
LEMMA ToldIsMarkdown ==
    ASSUME Text, ToldExactly
    PROVE  CodeAsMarkdown
<1> SUFFICES ASSUME phase = "done", {"fence", "<!--"} \cap {content[j] : j \in Positions} = {},
                    NEW k \in LineStarts, ~Blank(Line(k))
             PROVE  /\ ~ListAbove(k) => /\ InCode(k) => PlainCode(k)
                                        /\ PlainCode(k) => InCode(k) \/ MissedBelowHeading(k)
                    /\ \A m \in FirstItemAbove(k) :
                          /\ InCode(k) => ItemCode(k, m)
                          /\ ItemCode(k, m) => InCode(k) \/ ~HasItemContent(Line(m))
  BY DEF CodeAsMarkdown
<1>1. NoFence /\ phase # "lines"
  BY DEF NoFence
<1>2. /\ ~ListAbove(k) => (InCode(k) <=> PlainRun(k))
      /\ \A m \in ItemAbove(k) : InCode(k) <=> PastItem(k, m)
  BY <1>1 DEF ToldExactly
<1>3. PlainRun(k) => PlainCode(k)
  BY DEF PlainRun, PlainCode, BlankAbove, Indented
<1>4. PlainCode(k) => PlainRun(k) \/ MissedBelowHeading(k)
  BY RunBelowHeading
<1>5. ASSUME NEW m \in FirstItemAbove(k)
      PROVE  /\ m \in ItemAbove(k)
             /\ PastItem(k, m) => ItemCode(k, m)
             /\ ItemCode(k, m) => PastItem(k, m) \/ ~HasItemContent(Line(m))
  <2>1. m \in ItemAbove(k)
    BY DEF FirstItemAbove, ItemAbove
  <2> QED
    BY <2>1 DEF PastItem, ItemCode
<1> QED
  BY <1>2, <1>3, <1>4, <1>5

\* In a text without fences and comments, a line above every list, or below the
\* first item with empty lines between, is in an indented code block only if
\* markdown calls it code, and if markdown does, unless the block is directly
\* below a heading or below an empty item (indentedCodeBlockRanges).
THEOREM CodeIsAsMarkdown == ParseSpec => []CodeAsMarkdown
<1>1. ParseIInv => ParseTypeOK /\ InText /\ CodeInv
  BY DEF ParseIInv, ScanIInv
<1>2. ParseIInv /\ ExactInv /\ [ParseNext]_parseVars => ParseIInv' /\ ExactInv'
  BY <1>1, ParseIInvNext, ExactNext
<1>3. ParseInit => ParseIInv /\ ExactInv
  BY ParseIInvInit, ExactInit
<1>4. ParseSpec => [](ParseIInv /\ ExactInv)
  BY <1>2, <1>3, PTL DEF ParseSpec
<1>5. ParseIInv /\ ExactInv => CodeAsMarkdown
  BY <1>1, ToldIsMarkdown, TextTyped DEF ExactInv
<1> QED
  BY <1>4, <1>5, PTL
=============================================================================
