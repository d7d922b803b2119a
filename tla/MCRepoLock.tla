----------------------------- MODULE MCRepoLock -----------------------------
(***************************************************************************)
(* Two bases of one repository (the main checkout and a linked worktree)   *)
(* and one base that is not versioned.                                     *)
(***************************************************************************)
EXTENDS RepoLock, TLC

CONSTANTS p1, p2, main, linked, plain, repo

MCModeOf == main :> "git" @@ linked :> "git" @@ plain :> "none"
MCRepoOf == main :> repo @@ linked :> repo @@ plain :> repo
=============================================================================
