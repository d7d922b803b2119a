\* Two processes run up to three commands on two files, under three names; the host takes one step.
SPECIFICATION Spec
CONSTANTS
    a = a  dotA = dotA  padded = padded  newline = newline
    Procs = {p1, p2}
    Names <- TwoNames
    Spellings <- DotA
    FileOf <- MCFileOf
    ReadAs <- MCReadAs
    Comment = Comment
    Broken = Broken
    Unlistable = {}
    Nested = Nested
    Temp = Temp
    Contents = {v1, v2}
    Absent = Absent
    Corrupt = Corrupt
    NoOne = NoOne
    MaxOps = 3
    MaxHost = 1
SYMMETRY Symm
CHECK_DEADLOCK FALSE
INVARIANT DriftHasACause
PROPERTIES NoLineLost CommitsBoth
