--------------------------- MODULE MCManagedFiles ---------------------------
(* A small instance of ManagedFiles for TLC: a page whose title holds the  *)
(* marks of its line, one of a type in capitals whose summary holds a line *)
(* break, and one with a ")" in its path; summaries that hold a link to    *)
(* another page, and an entry on a line of its own.                        *)
EXTENDS ManagedFiles

P == <<"kb/p">>
Q == <<"kb/q">>
R == <<"kb/r", ")", ".md">>

MCOrder == <<P, Q, R>>

Page(title, summary, type) == [title |-> title, summary |-> summary, type |-> type]
MCForms == [p \in {P, Q, R} |->
    CASE p = P -> {Page(<<"a", "](", "b", ")", " -- ">>, <<"s">>, "adr")}
      [] p = Q -> {Page(<<"q">>, <<>>, "ADR"), Page(<<"q">>, <<"s", "NL", "## ", "x">>, "ADR")}
      [] p = R -> {Page(<<"r", "NL", "r">>, <<>>, "adr")}]

MCSummaries == { <<"t", " -- ">>, <<"[", "l", "](", "kb/p", ")">>,
                 <<"t", "NL", "- [", "u", "](", "kb/p", ")">> }
MCWords == { "NL", " ", "- [", "](", ")", " -- ", "## ", "##D", " | ", "# ", "[",
             "", "Removed", "delete", "ingest", "lint", "kb/p", "kb/q", "kb/r", ".md",
             "a", "b", "q", "r", "s", "t", "u", "l", "x", "n", "h", "adr", "ADR" }
MCLowered == [t \in MCWords |-> IF t = "ADR" THEN "adr" ELSE t]

Note(title, note) == [title |-> title, note |-> note]
MCNotes == { Note(<<>>, <<"n", "NL", "NL", "n">>), Note(<<"t">>, <<"# ", "h">>),
             Note(<<"NL", "t">>, <<" ", "##D", "ingest">>),
             Note(<<>>, <<"##D", "lint", "NL", "n">>) }
=============================================================================
