\* Two processes write, delete and lint one page.
SPECIFICATION Spec
CONSTANTS
    Procs = {p1, p2}
    a = a  b = b
    Pages = {a}
    InTypeDirs <- NoBareName
    Kinds <- LintCommands
    Absent = Absent
    NoOne = NoOne
    MaxOps = 3
SYMMETRY Symm
CHECK_DEADLOCK FALSE
INVARIANT NoPhantomRows
