----------------------------- MODULE MCRawStore -----------------------------
(* The raw file a; ./a, an argument that opens the same file; and padded,  *)
(* a file whose name ends in a space: ValidateFilename accepts it, and its *)
(* line is read back as one of a.  A smaller instance has a file with a    *)
(* newline in its name, whose line is none.                                *)
EXTENDS RawStore, TLC

CONSTANTS a, dotA, padded, newline

TwoNames == {a, padded}
NewlineName == {newline}
DotA == {dotA}

MCFileOf == [k \in Keys |-> IF k = dotA THEN a ELSE k]

MCReadAs == [k \in Keys |-> CASE k = padded -> a [] k = newline -> Broken [] OTHER -> k]

Symm == Permutations(Procs) \cup Permutations(Contents)
=============================================================================
