----------------------------- MODULE MCGitStore -----------------------------
(***************************************************************************)
(* One page and one host file, or the file set of a raw command, against a *)
(* host project that takes a few steps of its own.                         *)
(***************************************************************************)
EXTENDS GitStore, TLC

CONSTANTS a, b, h, v1, v2

RawFileSet == {{"raw/x", "files.log"}}
NoFileSets == {}
=============================================================================
