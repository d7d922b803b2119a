---------------------------- MODULE MCPageStore -----------------------------
(* Small instances of PageStore for TLC.                                   *)
EXTENDS PageStore, TLC

CONSTANTS a, b

\* kb/a.md is also the bare name of kb/concepts/a.md, the page b.
BareName == (a :> {b}) @@ (b :> {})
NoBareName == [t \in Pages |-> {}]

Symm == Permutations(Procs)

\* All commands, and the ones of the race between a lint and a deletion.
AllCommands == PageKinds \cup ListKinds \cup BatchKinds \cup LintKinds
LintCommands == {"write", "delete", "lint"}
=============================================================================
