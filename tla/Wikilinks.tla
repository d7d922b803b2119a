------------------------------ MODULE Wikilinks ------------------------------
(***************************************************************************)
(* internal/markdown/wikilink.go: ParseWikilinks, which finds the links of *)
(* a page for the link graph and for the validation rules without parsing  *)
(* markdown.  It computes the spans that hold literal text, the indented   *)
(* code blocks line by line, scans the text for bracket tokens, and keeps  *)
(* those outside of every span as links.  One step of the module is one    *)
(* turn of one of the three loops.                                         *)
(*                                                                         *)
(* A text is a sequence of tokens: "s2" and "s4" are two and four spaces,  *)
(* "- " a list marker, "# " a heading, "NL" a line break, "a" any word,    *)
(* "tick" and "fence" one and three backticks, and brackets and the other  *)
(* marks themselves.  A position is the index of a token, a span is        *)
(* [start, end).                                                           *)
(* Tabs, numbered items, quoted titles and other HTML are left out.        *)
(***************************************************************************)
EXTENDS Naturals, FiniteSets, SequencesExt

CONSTANT Contents   \* the texts to parse

Spaces == {"s2", "s4"}
Ticks == {"tick", "fence"}
Common == Spaces \cup Ticks \cup {"NL", "a", "[", "]", "\\"}
BlockTokens == Common \cup {"- ", "# ", "<!--", "-->"}
LinkTokens == Common \cup {"(", ")"}

\* A run of backticks is one token, and a text that tries the blocks of a page
\* has no parentheses.
ASSUME WikilinksAssumption ==
    /\ Contents \subseteq Seq(BlockTokens) \cup Seq(LinkTokens)
    /\ \A c \in Contents : \A k \in 1 .. Len(c) - 1 :
           ~(c[k] \in Ticks /\ c[k + 1] \in Ticks)

VARIABLES
    content,        \* the text
    phase,          \* "lines", "scan", "select" or "done": the loop that runs
    at,             \* where the loop is: a line, a token of the text, a count
    columns,        \* content columns of the open list items, outermost first
    blockStart,     \* where the pending indented code block begins, 0 for none
    prevBlank,      \* the previous line was blank
    paragraphOpen,  \* the previous line left a paragraph open
    code,           \* the indented code blocks so far
    tokens,         \* what scanWikilinkTokens found so far
    found,          \* the spans of the links so far
    suppressedUntil \* the end of an explicit destination that holds no link

lineVars == <<columns, blockStart, paragraphOpen, code>>
scanVars == <<tokens, found, suppressedUntil>>
parseVars == <<content, phase, at, lineVars, prevBlank, scanVars>>

Positions == 1 .. Len(content)
Span == [start : Nat, end : Nat]
Token == [start : Nat, innerStart : Nat, innerEnd : Nat, end : Nat]

ParseTypeOK ==
    /\ content \in Seq(BlockTokens \cup LinkTokens)
    /\ phase \in {"lines", "scan", "select", "done"}
    /\ at \in Nat /\ suppressedUntil \in Nat /\ blockStart \in Nat
    /\ columns \in Seq(Nat)
    /\ prevBlank \in BOOLEAN /\ paragraphOpen \in BOOLEAN
    /\ code \in SUBSET Span
    /\ tokens \in Seq(Token)
    /\ found \in SUBSET [start : Nat, bracketEnd : Nat, end : Nat]

ParseInit ==
    /\ content \in Contents
    /\ phase = "lines" /\ at = 1
    /\ columns = <<>> /\ blockStart = 0 /\ prevBlank = TRUE /\ paragraphOpen = FALSE
    /\ code = {} /\ tokens = <<>> /\ found = {} /\ suppressedUntil = 0

-----------------------------------------------------------------------------
(* Spans of literal text that a pair of marks makes.                       *)

\* The first position from k on that holds one of the marks; none if none does.
FirstOf(k, marks) == {j \in k .. Len(content) : /\ content[j] \in marks
                                                /\ \A m \in k .. j - 1 : content[m] \notin marks}

\* Left to right, a mark that has a closing one makes a span, and what is in
\* the span makes none.
Spans(closing) ==
    LET Close(k) == FirstOf(k + 1, closing[content[k]])
        opens[k \in Positions] ==
            /\ content[k] \in DOMAIN closing
            /\ Close(k) # {}
            /\ \A j \in 1 .. k - 1 : opens[j] => \A e \in Close(j) : e < k
    IN  UNION {{[start |-> k, end |-> e + 1] : e \in Close(k)} : k \in {j \in Positions : opens[j]}}

fencedCodeBlockRanges == Spans([t \in {"fence"} |-> {"fence"}])
\* The last backtick of a longer run closes a single one.
inlineCodeRanges == Spans([t \in Ticks |-> IF t = "tick" THEN Ticks ELSE {"fence"}])
htmlCommentRanges == Spans([t \in {"<!--"} |-> {"-->"}])

LineEnd(k) == CHOOSE e \in k .. Len(content) + 1 :
                 /\ e = Len(content) + 1 \/ content[e] = "NL"
                 /\ \A j \in k .. e - 1 : content[j] # "NL"
LineStart(k) == CHOOSE s \in 1 .. k : /\ s = 1 \/ content[s - 1] = "NL"
                                      /\ \A j \in s .. k - 1 : content[j] # "NL"
Line(k) == SubSeq(content, k, LineEnd(k) - 1)

\* The line that starts at k is strictly inside a fence; one without a single
\* character overlaps no span unless it is inside one that begins before it.
InFence(k) == \E f \in fencedCodeBlockRanges :
                 LET from == LineEnd(f.start) + 1
                     to == LineStart(f.end - 1)
                 IN  from < to /\ k < to /\ LineEnd(k) > from

-----------------------------------------------------------------------------
(* The shape of a line.                                                    *)

Leading(line) == {k \in DOMAIN line : \A j \in 1 .. k : line[j] \in Spaces}
Indent(line) == 2 * Cardinality(Leading(line))
                  + 2 * Cardinality({k \in Leading(line) : line[k] = "s4"})
Blank(line) == Leading(line) = DOMAIN line
First(line) == line[Cardinality(Leading(line)) + 1]

IsThematicBreak(line) ==
    /\ \A k \in DOMAIN line : line[k] \in Spaces \cup {"- "}
    /\ Cardinality({k \in DOMAIN line : line[k] = "- "}) >= 3

\* scanListMarker and hasItemContent: the text of an item begins up to four
\* columns after its marker; where there are more, they belong to the text.
IsMarker(line) == ~Blank(line) /\ First(line) = "- " /\ ~IsThematicBreak(line)
AfterMarker(line) == SubSeq(line, Cardinality(Leading(line)) + 2, Len(line))
HasItemContent(line) == ~Blank(AfterMarker(line))
ContentColumn(line) ==
    LET spaces == Indent(AfterMarker(line))
    IN  Indent(line) + 2 + (IF HasItemContent(line) /\ spaces + 1 <= 4 THEN spaces ELSE 0)

StartsParagraphInterrupt(line) ==
    \/ First(line) = "fence"
    \/ IsThematicBreak(line)
    \/ First(line) \in {"# ", "<!--"} /\ Indent(line) <= 3

-----------------------------------------------------------------------------
(* indentedCodeBlockRanges, one line at a time.                            *)

Threshold(cols) == (IF cols = <<>> THEN 0 ELSE Last(cols)) + 4

\* Items close from the innermost one, as long as the line falls outside.
Closed(cols, indent) ==
    SubSeq(cols, 1, Max({0} \cup {k \in DOMAIN cols : cols[k] <= indent}))

\* After a blank line the items close before the line is told code from prose.
OpenItems(line) ==
    IF blockStart = 0 /\ prevBlank /\ ~Blank(line) /\ Indent(line) >= 4
    THEN Closed(columns, Indent(line)) ELSE columns

CodeAnywhere(line) == Indent(line) >= Threshold(OpenItems(line))
IsCode(line) == /\ Indent(line) >= Threshold(OpenItems(line))
                /\ blockStart # 0 \/ prevBlank
IsLazy(line) == /\ Indent(line) >= Threshold(columns)
                /\ blockStart = 0 /\ ~prevBlank
IsOther(line) == ~IsCode(line) /\ ~IsLazy(line)

EndBlock == /\ blockStart' = 0
            /\ code' = IF blockStart = 0 THEN code
                       ELSE code \cup {[start |-> blockStart, end |-> at]}

CodeLine(line) ==
    /\ IsCode(line)
    /\ columns' = OpenItems(line)
    /\ paragraphOpen' = FALSE
    /\ blockStart' = IF blockStart = 0 THEN at ELSE blockStart
    /\ UNCHANGED code

LazyLine(line) ==
    /\ IsLazy(line)
    /\ paragraphOpen' = TRUE
    /\ UNCHANGED <<columns, blockStart, code>>

MarkerLine(line) ==
    /\ IsOther(line) /\ IsMarker(line)
    /\ columns' = Append(Closed(columns, Indent(line)), ContentColumn(line))
    /\ paragraphOpen' = HasItemContent(line)
    /\ EndBlock

ContinuedLine(line) ==
    /\ IsOther(line) /\ ~IsMarker(line) /\ ~Blank(line)
    /\ paragraphOpen /\ ~StartsParagraphInterrupt(line)
    /\ columns' = OpenItems(line)
    /\ UNCHANGED <<blockStart, paragraphOpen, code>>

TextLine(line) ==
    /\ IsOther(line) /\ ~IsMarker(line) /\ ~Blank(line)
    /\ paragraphOpen => StartsParagraphInterrupt(line)
    /\ columns' = Closed(columns, Indent(line))
    /\ paragraphOpen' = ~StartsParagraphInterrupt(line)
    /\ EndBlock

BlankLine(line) ==
    /\ IsOther(line) /\ Blank(line)
    /\ paragraphOpen' = FALSE
    /\ EndBlock
    /\ UNCHANGED columns

FencedLine == /\ InFence(at)
              /\ UNCHANGED <<lineVars, prevBlank>>

OpenLine == LET line == Line(at)
            IN  /\ ~InFence(at)
                /\ \/ CodeLine(line) \/ LazyLine(line) \/ MarkerLine(line)
                   \/ ContinuedLine(line) \/ TextLine(line) \/ BlankLine(line)
                /\ prevBlank' = Blank(line)

NextLine ==
    /\ phase = "lines" /\ at <= Len(content)
    /\ FencedLine \/ OpenLine
    /\ at' = LineEnd(at) + 1
    /\ UNCHANGED <<content, phase, scanVars>>

EndOfLines ==
    /\ phase = "lines" /\ at > Len(content)
    /\ blockStart' = 0
    /\ code' = IF blockStart = 0 THEN code
               ELSE code \cup {[start |-> blockStart, end |-> Len(content) + 1]}
    /\ phase' = "scan" /\ at' = 1
    /\ UNCHANGED <<content, columns, prevBlank, paragraphOpen, scanVars>>

-----------------------------------------------------------------------------
(* scanWikilinkTokens, one run of brackets at a time.                      *)

RunLength(k, t) == Cardinality({j \in k .. Len(content) : \A m \in k .. j : content[m] = t})

\* A run that cannot close is tried again without its first bracket.
NextTryAfter(open) == at + open
NextTryHere(open) == at
NextTry(open) == at + 1

Scanning == phase = "scan" /\ at < Len(content)

SkipText ==
    /\ Scanning /\ content[at] # "["
    /\ at' = Min(FirstOf(at, {"["}) \cup {Len(content) + 1})
    /\ UNCHANGED <<content, phase, lineVars, prevBlank, scanVars>>

SkipBracket ==
    /\ Scanning /\ RunLength(at, "[") = 1
    /\ at' = at + 1
    /\ UNCHANGED <<content, phase, lineVars, prevBlank, scanVars>>

\* The closing run begins with the first closing bracket there is, and a token
\* takes as many of it as it opened with.
Closes(open, closeStart) == /\ closeStart # at + open
                            /\ RunLength(closeStart, "]") >= open

TakeToken ==
    /\ Scanning
    /\ LET open == RunLength(at, "[")
       IN  /\ open >= 2
           /\ \E closeStart \in FirstOf(at + open, {"]"}) :
                 \/ /\ Closes(open, closeStart)
                    /\ tokens' = Append(tokens, [start |-> at, innerStart |-> at + open,
                                         innerEnd |-> closeStart, end |-> closeStart + open])
                    /\ at' = closeStart + open
                 \/ /\ ~Closes(open, closeStart)
                    /\ at' = NextTry(open)
                    /\ UNCHANGED tokens
    /\ UNCHANGED <<content, phase, lineVars, prevBlank, found, suppressedUntil>>

EndOfScan ==
    /\ phase = "scan"
    /\ \/ at >= Len(content)
       \/ LET open == RunLength(at, "[")
          IN  open >= 2 /\ FirstOf(at + open, {"]"}) = {}
    /\ phase' = "select" /\ at' = 1
    /\ UNCHANGED <<content, lineVars, prevBlank, scanVars>>

-----------------------------------------------------------------------------
(* ParseWikilinks, one token at a time.                                    *)

Escaped(k) == Cardinality({j \in 1 .. k - 1 : \A m \in j .. k - 1 : content[m] = "\\"}) % 2 = 1

Excluded(token) ==
    \/ \E e \in fencedCodeBlockRanges \cup code \cup inlineCodeRanges \cup htmlCommentRanges :
          e.start <= token.innerStart /\ token.innerEnd <= e.end
    \/ Escaped(token.start) \/ Escaped(token.innerEnd)

Marks(from, to, mark) == {k \in from .. to : content[k] = mark /\ ~Escaped(k)}

\* scanParenDestination: the parenthesis that balances the one at open.
Balancing(open) ==
    {k \in Marks(open, Len(content), ")") :
        /\ Cardinality(Marks(open, k, ")")) = Cardinality(Marks(open, k, "("))
        /\ \A m \in open .. k - 1 : Cardinality(Marks(open, m, ")")) < Cardinality(Marks(open, m, "("))}

White == Spaces \cup {"NL"}
NotWhite(from, to) == {k \in from .. to : content[k] \notin White}

\* isValidLinkDestination: a destination without whitespace, with nothing after
\* it but a title in parentheses.
Destination(open, close) ==
    LET inner == NotWhite(open + 1, close - 1)
        from == Min(inner)
        to == Max({k \in inner : from .. k \subseteq inner})
        title == NotWhite(to + 1, close - 1)
    IN  IF inner = {} THEN {}
        ELSE {d \in {[start |-> from, end |-> to + 1]} :
                \/ title = {}
                \/ /\ Marks(to + 1, close - 1, "(") = {Min(title)}
                   /\ Marks(to + 1, close - 1, ")") = {Max(title)}}

\* The link a token and the text adjacent to it make.
Candidates(token) ==
    {[start |-> token.start, bracketEnd |-> token.end, end |-> close + 1] :
        close \in {k \in Balancing(token.end) : Destination(token.end, k) # {}}}
Adjacent(token) == token.end <= Len(content) /\ content[token.end] = "("

NestsAlways(link) == TRUE

\* A destination that begins with a token of its own leaves that token a link.
Nests(link) == \A d \in Destination(link.bracketEnd, link.end - 1) :
                  SubSeq(content, d.start, d.start + 1) = <<"[", "[">>

Suppressed(token) == token.start < suppressedUntil

Selecting == phase = "select" /\ at <= Len(tokens)

DropToken ==
    /\ Selecting
    /\ Suppressed(tokens[at]) \/ Excluded(tokens[at])
    /\ at' = at + 1
    /\ UNCHANGED <<content, phase, lineVars, prevBlank, scanVars>>

PlainLink ==
    /\ Selecting
    /\ LET token == tokens[at]
       IN  /\ ~Suppressed(token) /\ ~Excluded(token)
           /\ Adjacent(token) => Candidates(token) = {}
           /\ found' = found \cup {[start |-> token.start, bracketEnd |-> token.end, end |-> token.end]}
    /\ at' = at + 1
    /\ UNCHANGED <<content, phase, lineVars, prevBlank, tokens, suppressedUntil>>

LinkWithDestination ==
    /\ Selecting
    /\ LET token == tokens[at]
       IN  /\ ~Suppressed(token) /\ ~Excluded(token)
           /\ Adjacent(token)
           /\ \E link \in Candidates(token) :
                 /\ found' = found \cup {link}
                 /\ suppressedUntil' = IF Nests(link) THEN suppressedUntil ELSE link.end
    /\ at' = at + 1
    /\ UNCHANGED <<content, phase, lineVars, prevBlank, tokens>>

EndOfTokens ==
    /\ phase = "select" /\ at > Len(tokens)
    /\ phase' = "done"
    /\ UNCHANGED <<content, at, lineVars, prevBlank, scanVars>>

ParseNext == \/ NextLine \/ EndOfLines
        \/ SkipText \/ SkipBracket \/ TakeToken \/ EndOfScan
        \/ DropToken \/ PlainLink \/ LinkWithDestination \/ EndOfTokens

\* The parser is a call that runs until it returns.
ParseSpec == ParseInit /\ [][ParseNext]_parseVars /\ WF_parseVars(ParseNext)

-----------------------------------------------------------------------------
(* Properties.                                                             *)

LineStarts == {k \in Positions : k = 1 \/ content[k - 1] = "NL"}
Before(k) == LineStart(k - 1)
InCode(k) == \E c \in code : c.start <= k /\ k < c.end

\* What markdown (CommonMark) calls an indented code block, in two situations a
\* reader can judge without a parser, in a text without fences and comments.
\*   - No list above: the line belongs to a run of indented lines that begins
\*     the text or follows a blank line or a heading: only a paragraph goes on.
\*   - Below the first item of the text, with nothing but empty lines between.
\*     An item that begins with a paragraph: after an empty line, four columns
\*     past the text of the item, or past the margin for a line that is left of
\*     that text.  An empty item: the same of the line directly below it, which
\*     continues no paragraph; an empty line closes the item, and the margin
\*     counts.
ListAbove(k) == "- " \in {content[j] : j \in 1 .. LineEnd(k) - 1}
BlankAbove(j) == j = 1 \/ Blank(Line(Before(j)))
IsHeading(line) == ~Blank(line) /\ First(line) = "# " /\ Indent(line) <= 3
HeadingAbove(j) == j # 1 /\ IsHeading(Line(Before(j)))
Indented(j, k) == \A s \in LineStarts \cap j .. k : Indent(Line(s)) >= 4

PlainCode(k) ==
    \E j \in {s \in LineStarts : s <= k} : (BlankAbove(j) \/ HeadingAbove(j)) /\ Indented(j, k)

BeginsParagraph(line) ==
    /\ HasItemContent(line) /\ Indent(AfterMarker(line)) <= 3
    /\ First(AfterMarker(line)) \notin {"- ", "# "}
FirstItemAbove(k) ==
    {m \in LineStarts : /\ m < k /\ IsMarker(Line(m)) /\ Indent(Line(m)) < 4
                        /\ m = 1 \/ ~ListAbove(Before(m))
                        /\ \A s \in LineStarts \cap (m + 1) .. (k - 1) : LineEnd(s) = s
                        /\ \/ BeginsParagraph(Line(m))
                           \/ ~HasItemContent(Line(m)) /\ BlankAbove(m)}
ItemCode(k, m) ==
    LET column == ContentColumn(Line(m))
        itemOpen == HasItemContent(Line(m)) \/ Before(k) = m
    IN  /\ HasItemContent(Line(m)) => Before(k) # m
        /\ Indent(Line(k)) >= 4
        /\ itemOpen /\ Indent(Line(k)) >= column => Indent(Line(k)) >= column + 4

\* Markdown's code that the parser misses: the block directly below a heading.
\* It also misses some below an empty item.
MissedBelowHeading(k) ==
    \E j \in {s \in LineStarts : s <= k} :
        HeadingAbove(j) /\ Indented(j, k) /\ \A s \in LineStarts \cap j .. k : ~Blank(Line(s))

\* indentedCodeBlockRanges hides no text that markdown reads as prose, neither
\* the text of a list item nor the continuation of a paragraph; and of the code
\* of these two situations it misses only blocks directly below a heading and
\* blocks below an empty item, whose text it takes for links.
CodeAsMarkdown ==
    phase = "done" /\ {"fence", "<!--"} \cap {content[j] : j \in Positions} = {} =>
        \A k \in LineStarts :
            ~Blank(Line(k)) =>
               /\ ~ListAbove(k) => /\ InCode(k) => PlainCode(k)
                                   /\ PlainCode(k) => InCode(k) \/ MissedBelowHeading(k)
               /\ \A m \in FirstItemAbove(k) :
                     /\ InCode(k) => ItemCode(k, m)
                     /\ ItemCode(k, m) => InCode(k) \/ ~HasItemContent(Line(m))

\* The links ParseWikilinks returns are whole tokens outside of literal text:
\* each is a run of brackets around a text that does not begin with one more,
\* in code or a comment there is none, and two overlap only where the second
\* opens in a destination of the first that begins with two brackets (it may
\* close after that destination: [[a]]([[b)]] gives two).
LinksAreWhole ==
    /\ \A i \in DOMAIN tokens :
          LET t == tokens[i] IN
          /\ t.innerStart - t.start = t.end - t.innerEnd /\ t.innerStart >= t.start + 2
          /\ t.innerStart < t.innerEnd
          /\ content[t.innerStart] # "["
          /\ \A j \in t.innerStart .. t.innerEnd - 1 : content[j] # "]"
          /\ \A j \in t.start .. t.innerStart - 1 : content[j] = "["
          /\ \A j \in t.innerEnd .. t.end - 1 : content[j] = "]"
    /\ \A l \in found :
          /\ ~\E e \in code \cup fencedCodeBlockRanges \cup inlineCodeRanges \cup htmlCommentRanges :
                e.start <= l.start /\ l.end <= e.end
          /\ \A m \in found : l.start < m.start /\ m.start < l.end =>
                /\ l.bracketEnd < m.start
                /\ LET first == Min(NotWhite(l.bracketEnd + 1, m.start))
                   IN  content[first] = "[" /\ content[first + 1] = "["

\* Every [[a]] of a text without backticks, escapes and comments is a link or
\* part of one, whatever brackets and parentheses are around it, unless an
\* indented code block holds it, or a token that opens in the destination of
\* a link and ends after it.
Straddles(token) == \E l \in found : /\ l.bracketEnd < token.start /\ token.start < l.end
                                     /\ l.end < token.end
PlainLinksFound ==
    phase = "done" /\ {content[k] : k \in Positions} \cap {"tick", "fence", "\\", "<!--"} = {} =>
        \A k \in 1 .. Len(content) - 4 :
            SubSeq(content, k, k + 4) = <<"[", "[", "a", "]", "]">> =>
                \/ InCode(k)
                \/ \E l \in found : l.start <= k /\ k < l.end
                \/ \E i \in DOMAIN tokens : /\ Straddles(tokens[i])
                                            /\ tokens[i].start <= k /\ k < tokens[i].end

\* The parser returns: no run of brackets is tried for ever.
Terminates == <>(phase = "done")
=============================================================================
