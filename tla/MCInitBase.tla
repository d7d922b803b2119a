----------------------------- MODULE MCInitBase -----------------------------
(* Every world InitBase describes is an initial state, so the instance has  *)
(* no constants to bound.                                                   *)
EXTENDS InitBase
=============================================================================
