\* Two processes on the bases of one repository and an unversioned one.
SPECIFICATION FairSpec
CONSTANTS
    p1 = p1  p2 = p2
    main = main  linked = linked  plain = plain  repo = repo
    Procs = {p1, p2}
    KBs = {main, linked, plain}
    Repos = {repo}
    ModeOf <- MCModeOf
    RepoOf <- MCRepoOf
    Handles = {h1, h2, h3}
    NoProc = NoProc  NoKB = NoKB  NoHandle = NoHandle
INVARIANTS MutualExclusion LockInv
PROPERTIES ImplementsMutex WaiterProceeds
