---------------------------- MODULE PageCommands ----------------------------
(***************************************************************************)
(* What each page command does to a knowledge base, one step per command:  *)
(* which page an input addresses, whether the page that would result is    *)
(* accepted, and which search row, link-graph row and index entry follow   *)
(* it.  The steps inside a command, and what other processes do between    *)
(* them, are module PageStore.                                             *)
(*                                                                         *)
(* A path is the sequence of its components below kb/; an input is what    *)
(* the user types, which may begin with "kb" or with the name of a type    *)
(* directory and may hold "." and "..".  "/" begins an absolute input.     *)
(***************************************************************************)
EXTENDS Naturals, FiniteSets, SequencesExt

CONSTANTS
    Types,      \* names of templates
    Fields,     \* frontmatter keys other than type and is_draft
    Offered,    \* the templates that may be written for each type
    DirOrder,   \* the type directories in ascending order
    Inputs,     \* the paths a user may type
    Managed,    \* file names akb writes itself: index.md and log.md
    None,
    MaxPages,   \* bound: pages in the base
    MaxEntries  \* bound: entries after an `index add`

Template == [dir : Seq(STRING), required : SUBSET Fields]

\* What a user types names a file: `akb write` demands the .md suffix, and
\* every other path names no page.  A template's directory is taken to lie below
\* kb/, as its author means it; the code only keeps it inside the base.
ASSUME PageCommandsAssumption ==
    /\ "title" \in Fields
    /\ \A t \in Types : Offered[t] \subseteq Template
    /\ DirOrder \in Seq(Seq(STRING)) /\ <<>> \notin ToSet(DirOrder)
    /\ \A t \in Types : \A c \in Offered[t] : c.dir \in ToSet(DirOrder) \cup {<<>>}
    /\ \A t \in Types : \A c \in Offered[t] : ".." \notin ToSet(c.dir)
    /\ Inputs \subseteq Seq(STRING) \ {<<>>}
    /\ \A i \in Inputs : Last(i) # "."
    /\ None \notin Template

VARIABLES
    template,   \* type -> its template, or None
    page,       \* path -> the frontmatter of the page stored there
    rows,       \* path -> the type its search row records
    entries,    \* the paths of the entries of kb/index.md
    checked,    \* ghost: pages accepted under the present template of their type
    strays,     \* ghost: entries added for a page that was found in a type directory
    last        \* ghost: the input and the path of the last `akb write`, or None

vars == <<template, page, rows, entries, checked, strays, last>>

Pages == DOMAIN page
Page == [type : Types, has : SUBSET Fields, draft : BOOLEAN]

TypeOK ==
    /\ template \in [Types -> Template \cup {None}]
    /\ \A t \in Types : template[t] \in Offered[t] \cup {None}
    /\ page \in [Pages -> Page]
    /\ \A p \in DOMAIN rows : rows[p] \in Types
    /\ checked \subseteq Pages
    /\ last # None => last.input \in Inputs /\ last.page \in Pages

Init ==
    /\ template = [t \in Types |-> None]
    /\ page = <<>>
    /\ rows = <<>>
    /\ entries = {}
    /\ checked = {}
    /\ strays = {}
    /\ last = None

-----------------------------------------------------------------------------
(* Which page an input addresses.                                          *)

\* strings.TrimPrefix of a path prefix and its slash: once, if at all.
TrimPrefix(d, i) == IF IsStrictPrefix(d, i) THEN SubSeq(i, Len(d) + 1, Len(i)) ELSE i

\* The elements of seq at the positions of keep, in order.
Picked(seq, keep) ==
    LET upTo[n \in 0 .. Len(seq)] ==
            IF n = 0 THEN <<>>
            ELSE IF n \in keep THEN Append(upTo[n - 1], seq[n]) ELSE upTo[n - 1]
    IN  upTo[Len(seq)]

\* filepath.Clean of a path without "..".
Clean(i) == IF "." \in ToSet(i) THEN Picked(i, {k \in DOMAIN i : i[k] # "."}) ELSE i

\* The guards of ResolveKBPath: absolute, "..", and the raw/ prefix.
RefusedOnceTrimmed(i) == i[1] = "/" \/ ".." \in ToSet(i) \/ TrimPrefix(<<"kb">>, i)[1] = "raw"
Refused(i) == i[1] \in {"/", "raw"} \/ ".." \in ToSet(i)

BelowKB(i) == TrimPrefix(<<"kb">>, i)
Named(i) == Clean(BelowKB(i))
In(dir, i) == Clean(dir \o BelowKB(i))

Declared == {template[t].dir : t \in {u \in Types : template[u] # None}}

\* resolveExistingPage: the named path, then the first declared directory in
\* ascending order that has the page.
NamedOnly(i) == {}
Holding(i) == {k \in DOMAIN DirOrder : DirOrder[k] \in Declared /\ In(DirOrder[k], i) \in Pages}

Resolved(i) ==
    IF Named(i) \in Pages THEN Named(i)
    ELSE IF Holding(i) = {} THEN None
    ELSE In(DirOrder[Min(Holding(i))], i)

\* A full write computes the path of the file and the key of its rows apart:
\* the type directory is stripped from the input if it leads, then prepended.
WriteTarget(i, dir) ==
    IF dir = <<>> THEN Named(i) ELSE Clean(dir \o TrimPrefix(dir, BelowKB(i)))
WriteKeyDoubled(i, dir) == Clean(dir \o BelowKB(i))
WriteKey(i, dir) == Clean(dir \o TrimPrefix(dir, BelowKB(i)))

\* The inputs every page command but approve takes.
Accepted(i) == ~Refused(i) /\ Last(i) \notin Managed

-----------------------------------------------------------------------------
(* Whether a page is accepted.                                             *)

Known(t) == template[t] # None
Complete(f) == template[f.type].required \subseteq f.has

\* ValidateType and ValidateTitle.
Valid(f) == Known(f.type) /\ "title" \in f.has

\* checkRequiredFields against the template of the resulting page; the CEL
\* rules may refuse what passes it, which changes nothing.
GateOfOldType(old, new) == Known(new.type) /\ template[old.type].required \subseteq new.has
Gate(old, new) == Known(new.type) /\ Complete(new)

-----------------------------------------------------------------------------
(* The commands.                                                           *)

With(f, p, v) == [q \in DOMAIN f \cup {p} |-> IF q = p THEN v ELSE f[q]]
Without(f, p) == [q \in DOMAIN f \ {p} |-> f[q]]

\* The page write and the transaction on its rows (IndexPageTx, UpdatePageLinksTx).
Store(p, key, f) ==
    /\ page' = With(page, p, f)
    /\ rows' = With(rows, key, f.type)
    /\ UNCHANGED <<template, entries, strays>>

\* `akb write`: the frontmatter is given, and is_draft: true is dropped.
Write(i) ==
    /\ Accepted(i)
    /\ \E f \in Page :
       /\ Valid(f)
       /\ Gate(f, f)
       /\ LET dir == template[f.type].dir
              p == WriteTarget(i, dir)
          IN  /\ Cardinality(Pages \cup {p}) <= MaxPages
              /\ Store(p, WriteKey(i, dir), f)
              /\ checked' = checked \cup {p}
              /\ last' = [input |-> i, page |-> p]

\* `akb write --frontmatter`: keys are set, none is removed, but a title may be
\* set to nothing.  The page stays where it is, whatever its type becomes.
Update(i) ==
    /\ Accepted(i)
    /\ \E p \in Pages :
          /\ p = Resolved(i)
          /\ Valid(page[p])
          /\ \E f \in Page :
                /\ page[p].has \ {"title"} \subseteq f.has
                /\ Gate(page[p], f)
                /\ Store(p, p, f)
          /\ checked' = checked \cup {p}
    /\ UNCHANGED last

\* `akb append` and `akb write --append`.
Append_(i) ==
    /\ Accepted(i)
    /\ \E p \in Pages :
          /\ p = Resolved(i)
          /\ Valid(page[p])
          /\ Gate(page[p], page[p])
          /\ Store(p, p, page[p])
          /\ checked' = checked \cup {p}
    /\ UNCHANGED last

\* `akb approve`: only by the named path, and a type without a template passes.
Approve(i) ==
    LET p == Named(i) IN
    /\ ~Refused(i)
    /\ p \in Pages
    /\ page[p].draft
    /\ Known(page[p].type) => Complete(page[p])
    /\ Store(p, p, [page[p] EXCEPT !.draft = FALSE])
    /\ UNCHANGED <<checked, last>>

\* `akb delete`, also with the paths that --orphans reads from the rows.
EntriesWithoutTyped(i) == entries \ {i}
EntriesWithout(i) == entries \ {Named(i)}
Delete(i) ==
    LET p == Named(i) IN
    /\ Accepted(i)
    /\ p \in Pages
    /\ page' = Without(page, p)
    /\ rows' = Without(rows, p)
    /\ entries' = EntriesWithout(i)
    /\ strays' = strays \ {p}
    /\ checked' = checked \ {p}
    /\ last' = IF last # None /\ last.page = p THEN None ELSE last
    /\ UNCHANGED template

\* `akb index add`: the entry is of the named path.  When no page is there, the
\* title and type are read from a type directory that has a page of its type.
InTypeDir(i) ==
    \E t \in Types : /\ Known(t) /\ template[t].dir # <<>>
                     /\ In(template[t].dir, i) \in Pages
                     /\ page[In(template[t].dir, i)].type = t
IndexAdd(i) ==
    LET p == Named(i) IN
    /\ Accepted(i)
    /\ p \in Pages \/ InTypeDir(i)
    /\ entries' = entries \cup {p}
    /\ Cardinality(entries') <= MaxEntries
    /\ strays' = IF p \in Pages THEN strays ELSE strays \cup {p}
    /\ UNCHANGED <<template, page, rows, checked, last>>

IndexRemove(i) ==
    /\ Accepted(i)
    /\ entries' = EntriesWithout(i)
    /\ strays' = strays \ {Named(i)}
    /\ UNCHANGED <<template, page, rows, checked, last>>

IndexRebuild ==
    /\ entries' = Pages
    /\ strays' = {}
    /\ rows' = [p \in Pages |-> page[p].type]
    /\ UNCHANGED <<template, page, checked, last>>

\* A template is written, replaced or deleted: its pages stay as they are.
SetTemplate(t, value) ==
    /\ template' = [template EXCEPT ![t] = value]
    /\ checked' = {p \in checked : page[p].type # t}
    /\ last' = None
    /\ UNCHANGED <<page, rows, entries, strays>>

TemplateWrite(t) == \E c \in Offered[t] : SetTemplate(t, c)
TemplateDelete(t) == Known(t) /\ SetTemplate(t, None)

Next ==
    \/ \E i \in Inputs : \/ Write(i) \/ Update(i) \/ Append_(i) \/ Approve(i) \/ Delete(i)
                         \/ IndexAdd(i) \/ IndexRemove(i)
    \/ IndexRebuild
    \/ \E t \in Types : TemplateWrite(t) \/ TemplateDelete(t)

Spec == Init /\ [][Next]_vars

-----------------------------------------------------------------------------
\* The rows of the search database name exactly the pages, by the path of the
\* file and with the type it has, by whatever spelling of its path and under
\* whatever template a page was written, changed or deleted.
RecordsFollowPages == rows = [p \in Pages |-> page[p].type]

\* The path akb prints for a page ("Written to kb/..."), and every path the
\* records hold, is taken by every command and addresses that page only, also
\* when directories below kb/ are called kb or raw (ResolveKBPath).
ReportedPathAddresses ==
    \A p \in Pages : LET i == <<"kb">> \o p IN
       Accepted(i) /\ Named(i) = p /\ Resolved(i) = p

\* The input a page was written by addresses that page in later appends and
\* updates, as long as no other page has its file name and its templates stay:
\* what `akb write` and resolveExistingPage make of one input agrees.
WrittenIsAddressed ==
    last # None /\ (\A q \in Pages \ {last.page} : Last(q) # Last(last.page))
       => Resolved(last.input) = last.page

\* A page that passed the gate has the fields that the template of its type
\* requires, also after its type was changed or it was approved, until that
\* template is replaced (checkRequiredFields).
GateHolds ==
    \A p \in checked : Known(page[p].type) /\ Complete(page[p])

\* An entry of kb/index.md names a page, unless `akb index add` was given the
\* bare name of a page in a type directory (runIndexAdd, RemoveEntry).
StrayEntryHasCause == entries \subseteq Pages \cup strays

\* "akb index add <page-name>.md", after "akb write <page-name>.md", lists the
\* page: an entry of kb/index.md names a page.
EntriesNamePages == entries \subseteq Pages
=============================================================================
