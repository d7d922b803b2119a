---------------------------- MODULE ManagedFiles ----------------------------
(***************************************************************************)
(* kb/index.md and kb/log.md: akb keeps neither elsewhere, so a command    *)
(* that changes one entry reads the whole file, parses it, and renders it  *)
(* again.  What an entry holds comes from users (argv, frontmatter), and   *)
(* the parsers of internal/index and internal/log tell an entry from its   *)
(* neighbours by the marks that it may hold itself.                        *)
(*                                                                         *)
(* A text is a sequence of words: the marks of the two formats, "NL" for a *)
(* line break, " " for leading space, and words that hold no mark.  A file *)
(* is the sequence of its lines.                                           *)
(***************************************************************************)
EXTENDS Naturals, FiniteSets, SequencesExt

CONSTANTS
    Words,      \* the words and marks of a text
    Order,      \* the paths of the pages, as filepath.WalkDir visits them
    Forms,      \* path -> the frontmatter its page may have
    Summaries,  \* the summaries given to `akb index add`
    Lowered,    \* strings.ToLower of a type
    Notes,      \* the titles and descriptions given to `akb log append`
    None,
    MaxEntries  \* bound: entries of the two files together

Text == Seq(Words)
Form == [title : Text, summary : Text, type : Words]
Entry == [path : Text, title : Text, summary : Text, type : Words]
LogEntry == [op : Words, title : Text, note : Text]
Pages == ToSet(Order)
AnyForm == UNION {Forms[p] : p \in Pages}

\* Every file is visited once.
ASSUME ManagedFilesAssumption ==
    /\ {"NL", " ", "- [", "](", ")", " -- ", "## ", "##D", " | ", "# "} \subseteq Words
    /\ {"", "Removed", "delete", "ingest"} \subseteq Words
    /\ Order \in Seq(Text) /\ \A j, k \in DOMAIN Order : Order[j] = Order[k] => j = k
    /\ \A p \in Pages : Forms[p] \subseteq Form /\ None \notin Forms[p]
    /\ Summaries \subseteq Text
    /\ Notes \subseteq [title : Text, note : Text]
    /\ Lowered \in [Words -> Words] /\ \A t \in Words : Lowered[Lowered[t]] = Lowered[t]

VARIABLES
    page,       \* the frontmatter of the page at each path, or None
    index,      \* the lines of kb/index.md that are no blank line or title
    log,        \* the lines of kb/log.md after its title
    listed,     \* ghost: the entry last given for each path that is listed
    garbled,    \* ghost: an entry that cannot be read back was added since a rebuild
    said        \* ghost: the log entries as they were given

filesVars == <<page, index, log, listed, garbled, said>>

FilesTypeOK ==
    /\ page \in [Pages -> AnyForm \cup {None}]
    /\ \A p \in Pages : page[p] \in Forms[p] \cup {None}
    /\ index \in Seq(Text) /\ log \in Seq(Text)
    /\ DOMAIN listed \subseteq Pages /\ \A p \in DOMAIN listed : listed[p] \in Entry
    /\ garbled \in BOOLEAN
    /\ said \in Seq(LogEntry)

FilesInit ==
    /\ page \in [Pages -> AnyForm \cup {None}]
    /\ \A p \in Pages : page[p] \in Forms[p] \cup {None}
    /\ index = <<>> /\ log = <<>>
    /\ listed = <<>>
    /\ garbled = FALSE
    /\ said = <<>>

-----------------------------------------------------------------------------
\* The numbers of a set in their order, and the elements of a sequence at them.
InOrder(S) == [n \in 1 .. Cardinality(S) |->
                  CHOOSE k \in S : Cardinality({j \in S : j <= k}) = n]
Picked(seq, S) == LET ks == InOrder(S) IN [n \in DOMAIN ks |-> seq[ks[n]]]

Where(text, mark) == {k \in DOMAIN text : text[k] = mark}

\* strings.Split(text, "\n").
Lines(text) ==
    LET breaks == InOrder({0, Len(text) + 1} \cup Where(text, "NL"))
    IN  [n \in 1 .. Len(breaks) - 1 |-> SubSeq(text, breaks[n] + 1, breaks[n + 1] - 1)]

Begins(line, mark) == line # <<>> /\ line[1] = mark

-----------------------------------------------------------------------------
(* internal/index.                                                         *)

EntryText(e) ==
    <<"- [">> \o e.title \o <<"](">> \o e.path \o <<")">>
      \o IF e.summary = <<>> THEN <<>> ELSE <<" -- ">> \o e.summary

\* RenderIndex: the entries by type, the types in order of their first entry.
OfType(es, type) == Picked(es, {k \in DOMAIN es : es[k].type = type})
Firsts(es) == {k \in DOMAIN es : \A j \in 1 .. k - 1 : es[j].type # es[k].type}
Group(es, type) ==
    LET same == OfType(es, type)
    IN  << <<"## ", type>> >> \o FlattenSeq([n \in DOMAIN same |-> Lines(EntryText(same[n]))])
RenderIndex(es) ==
    LET firsts == Picked(es, Firsts(es))
    IN  FlattenSeq([n \in DOMAIN firsts |-> Group(es, firsts[n].type)])

\* parseEntryLine: the last boundary, the first ")" after it, the first dash
\* after that.
FirstBoundary(line) == Min(Where(line, "]("))
Boundary(line) == Max(Where(line, "]("))

IsEntry(line) ==
    /\ Begins(line, "- [")
    /\ Where(line, "](") # {}
    /\ \E k \in Where(line, ")") : k > Boundary(line)

ParseEntryLine(line, type) ==
    LET b == Boundary(line)
        c == Min({k \in Where(line, ")") : k > b})
        after == {k \in Where(line, " -- ") : k > c}
    IN  [path |-> SubSeq(line, b + 1, c - 1),
         title |-> SubSeq(line, 2, b - 1),
         summary |-> IF after = {} THEN <<>> ELSE SubSeq(line, Min(after) + 1, Len(line)),
         type |-> type]

\* parseIndex: a heading sets the type of the entries below it.
Headings(lines, k) == {j \in 1 .. k : Begins(lines[j], "## ")}
HeadingType(line) == IF Len(line) = 1 THEN "" ELSE line[2]
TypeAt(lines, k) ==
    IF Headings(lines, k) = {} THEN ""
    ELSE Lowered[HeadingType(lines[Max(Headings(lines, k))])]
ParseIndex(lines) ==
    LET entries == InOrder({k \in DOMAIN lines : IsEntry(lines[k])})
    IN  [n \in DOMAIN entries |-> ParseEntryLine(lines[entries[n]], TypeAt(lines, entries[n]))]

ReadIndex == ParseIndex(index)

\* AddEntry replaces the first entry of the path; RemoveEntry drops them all.
AppendedOnly(es, e) == Append(es, e)
Added(es, e) ==
    LET same == {k \in DOMAIN es : es[k].path = e.path}
    IN  IF same = {} THEN Append(es, e) ELSE [es EXCEPT ![Min(same)] = e]

Removed(es, p) == Picked(es, {k \in DOMAIN es : es[k].path # p})

EntryOf(p, summary) ==
    [path |-> p, title |-> page[p].title, summary |-> summary, type |-> page[p].type]

-----------------------------------------------------------------------------
(* internal/log.                                                           *)

\* headingRe, where "##D" stands for "## " and a date.
IsHeading(line) ==
    /\ Begins(line, "##D")
    /\ Len(line) = 2 \/ (Len(line) > 3 /\ line[3] = " | ")

\* strings.TrimSpace.
Trimmed(text) ==
    LET solid == {k \in DOMAIN text : text[k] \notin {"NL", " "}}
    IN  IF solid = {} THEN <<>> ELSE SubSeq(text, Min(solid), Max(solid))

HeadingText(e) == <<"##D", e.op>> \o (IF e.title = <<>> THEN <<>> ELSE <<" | ">> \o e.title)
RenderEntry(e) == Lines(HeadingText(e)) \o << <<>> >> \o Lines(e.note) \o << <<>> >>

RenderLog(es) == FlattenSeq([n \in DOMAIN es |-> RenderEntry(es[n])])

\* ReadLog: what is below a heading, without the lines that begin with "# ".
KeptText(line) == line # <<>> /\ ~Begins(line, "# ")
Kept(line) == ~Begins(line, "# ")
NoteOf(lines) ==
    LET kept == Picked(lines, {k \in DOMAIN lines : Kept(lines[k])})
    IN  Trimmed(FlattenSeq([m \in DOMAIN kept |-> Append(kept[m], "NL")]))
ReadLog(lines) ==
    LET heads == InOrder({k \in DOMAIN lines : IsHeading(lines[k])})
        End(n) == IF n = Len(heads) THEN Len(lines) ELSE heads[n + 1] - 1
    IN  [n \in DOMAIN heads |->
            [op |-> lines[heads[n]][2],
             title |-> SubSeq(lines[heads[n]], 4, Len(lines[heads[n]])),
             note |-> NoteOf(SubSeq(lines, heads[n] + 1, End(n)))]]

\* AppendLog.
AppendedToLog(e) == RenderLog(Append(ReadLog(log), e))
AppendLog(op, note, title) ==
    LET e == [op |-> op, title |-> title, note |-> note]
    IN  /\ Len(said) + Len(ReadIndex) < MaxEntries
        /\ log' = AppendedToLog(e)
        /\ said' = Append(said, e)

-----------------------------------------------------------------------------
(* What can be read back.                                                  *)

Free(text, marks) == ToSet(text) \cap marks = {}

\* A title may hold any mark of its line, a summary any but a boundary.
CleanEntry(e) ==
    /\ Free(e.path, {"NL", "](", ")"})
    /\ Free(e.title, {"NL"})
    /\ Free(e.summary, {"NL", "]("})

CleanNote(e) ==
    /\ e.note = Trimmed(e.note)
    /\ \A line \in ToSet(Lines(e.note)) : ~Begins(line, "# ") /\ ~IsHeading(line)
    /\ Free(e.title, {"NL"})

-----------------------------------------------------------------------------
(* The commands.                                                           *)

WritePage(p) ==
    /\ \E f \in Forms[p] : page' = [page EXCEPT ![p] = f]
    /\ UNCHANGED <<index, log, listed, garbled, said>>

IndexAdd(p) ==
    \E summary \in Summaries :
       /\ page[p] # None
       /\ LET e == EntryOf(p, summary)
              es == Added(ReadIndex, e)
          IN  /\ Len(es) + Len(said) <= MaxEntries
              /\ index' = RenderIndex(es)
              /\ listed' = [q \in DOMAIN listed \cup {p} |-> IF q = p THEN e ELSE listed[q]]
              /\ garbled' = (garbled \/ ~CleanEntry(e))
       /\ UNCHANGED <<page, log, said>>

RemoveEntry(p) ==
    /\ index' = RenderIndex(Removed(ReadIndex, p))
    /\ listed' = [q \in DOMAIN listed \ {p} |-> listed[q]]
    /\ UNCHANGED garbled

IndexRemove(p) == RemoveEntry(p) /\ UNCHANGED <<page, log, said>>

\* The managed files of `akb delete`.
DeletePage(p) ==
    /\ page[p] # None
    /\ page' = [page EXCEPT ![p] = None]
    /\ RemoveEntry(p)
    /\ AppendLog("delete", <<"Removed">>, page[p].title)

\* RebuildIndex: the summaries are those of the frontmatter.
IndexRebuild ==
    LET walked == Picked(Order, {k \in DOMAIN Order : page[Order[k]] # None})
        es == [n \in DOMAIN walked |-> EntryOf(walked[n], page[walked[n]].summary)]
    IN  /\ index' = RenderIndex(es)
        /\ listed' = [p \in ToSet(walked) |-> EntryOf(p, page[p].summary)]
        /\ garbled' = (\E n \in DOMAIN es : ~CleanEntry(es[n]))
        /\ UNCHANGED <<page, log, said>>

LogAppend ==
    /\ \E n \in Notes : AppendLog("ingest", n.note, n.title)
    /\ UNCHANGED <<page, index, listed, garbled>>

FilesNext ==
    \/ \E p \in Pages : WritePage(p) \/ IndexAdd(p) \/ IndexRemove(p) \/ DeletePage(p)
    \/ IndexRebuild
    \/ LogAppend

FilesSpec == FilesInit /\ [][FilesNext]_filesVars

-----------------------------------------------------------------------------
Says(e, given) == e.path = given.path /\ e.title = given.title /\ e.summary = given.summary

\* An entry without a link in its summary, a ")" in its path or a line break is
\* read as it was given until it is replaced or removed, whatever its title
\* holds and whatever entries are added, garbled or removed around it.
CleanEntriesSurvive ==
    LET read == ToSet(ReadIndex)
    IN  \A p \in DOMAIN listed : CleanEntry(listed[p]) => \E e \in read : Says(e, listed[p])

\* As long as no other entries are added, and again after a rebuild, the index
\* reads as exactly what was added, one entry per page, under its type in the
\* case the heading gives back.
IndexTellsWhatWasAdded ==
    ~garbled =>
       LET read == ReadIndex IN
       /\ Len(read) = Cardinality(DOMAIN listed)
       /\ \A e \in ToSet(read) : /\ e.path \in DOMAIN listed
                                /\ Says(e, listed[e.path])
                                /\ e.type = Lowered[listed[e.path].type]

\* A log entry whose description holds no heading stays as it was given, in its
\* place, however many later entries are appended and whatever they hold; only
\* a title that begins with a line break is taken for its text.
Survivors ==
    {n \in DOMAIN said : /\ CleanNote(said[n])
                         /\ n < Len(said) => ~Begins(said[n + 1].title, "NL")}
CleanLogSurvives ==
    LET read == ReadLog(log)
    IN  \E f \in [Survivors -> DOMAIN read] :
           \A m, n \in Survivors : read[f[n]] = said[n] /\ (m < n => f[m] < f[n])
=============================================================================
