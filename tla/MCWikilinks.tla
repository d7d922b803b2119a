---------------------------- MODULE MCWikilinks ----------------------------
(* A small instance of Wikilinks for TLC: every text of up to four lines   *)
(* of ten kinds, every line of up to four brackets, links and marks, and   *)
(* every link whose destination is of up to four parts, closed or not.     *)
EXTENDS Wikilinks

Link == <<"[", "[", "a", "]", "]">>
LineKinds == { <<>>, Link, <<"s4">> \o Link, <<"- ">> \o Link, <<"s2", "- ", "s2", "a">>,
               <<"s4", "s4">>, <<"s4", "s4">> \o Link,
               <<"# ", "a">>, <<"- ">>, <<"fence">> }
Pieces == { Link, <<"[">>, <<"]">>, <<"(">>, <<")">>, <<"\\">>, <<"tick">> }
Inner == { <<"[">>, <<"]">>, <<"(">>, <<")">>, <<"s2">>, <<"a">>, Link }
Parts == { <<"[", "[">>, <<"]", "]">>, <<")">>, <<"a">>, Link }
Comments == { Link, <<"<!--">>, <<"-->">>, <<"tick">>, <<"fence">> }

UpTo(n, S) == UNION {[1 .. k -> S] : k \in 1 .. n}
Joined(pieces) == FoldLeft(LAMBDA a, b : a \o b, <<>>, pieces)
Lines(lines) == FoldLeft(LAMBDA a, b : IF a = <<"start">> THEN b ELSE a \o <<"NL">> \o b,
                         <<"start">>, lines)

MCContents ==
    {c \in {Lines(q) : q \in UpTo(4, LineKinds)}
           \cup {Joined(q) : q \in UpTo(4, Pieces)}
           \cup {Link \o <<"(">> \o Joined(q) \o <<")">> : q \in UpTo(3, Inner)}
           \cup {Link \o <<"(">> \o Joined(q) : q \in UpTo(4, Parts)}
           \cup {Joined(q) : q \in UpTo(4, Comments)} :
        \A k \in 1 .. Len(c) - 1 : ~(c[k] \in Ticks /\ c[k + 1] \in Ticks)}
=============================================================================
