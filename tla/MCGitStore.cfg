\* Every kind of command, two of them, with the host between their steps.
SPECIFICATION FairSpec
CONSTANTS
    a = a  b = b  h = h  v1 = v1  v2 = v2
    Pages = {a}
    FileSets <- RawFileSet
    HostPaths = {h}
    Contents = {v1, v2}
    Absent = Absent
    MaxAttempts = 2
    MaxOps = 2
    MaxHostSteps = 3
INVARIANT MergeBlocksMutation
PROPERTIES EveryOperationEnds UnrelatedSurvive SuccessIsCommitted NoCommitStaysUnstaged
CHECK_DEADLOCK FALSE
