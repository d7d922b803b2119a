---------------------------- MODULE MCLinkGraph -----------------------------
(* A small instance of LinkGraph for TLC: two pages of the same name in    *)
(* different directories, so that a short target may be ambiguous, and one *)
(* more in kb/ itself.  One of the directories is kb/kb, so that a target  *)
(* kb/n may be kb/n.md or kb/kb/n.md.                                      *)
EXTENDS LinkGraph, TLC

At(dir, name) == [dir |-> dir, name |-> name]

MCPaths == {At("x", "n"), At("kb", "n"), At("top", "m")}
MCKbDirs == "kb" :> "top"
MCTargets == {At("short", "n"), At("kb", "n"), At("kb", "m"), At("short", "m")}
MCLinkSets == {{}, {At("short", "n")}, {At("kb", "n"), At("kb", "m"), At("short", "m")}}
MCWalkOrder == <<At("kb", "n"), At("top", "m"), At("x", "n")>>
=============================================================================
