\* Two processes run up to three commands of any kind on two pages; the file name of
\* the one is the bare name of the other.
SPECIFICATION Spec
CONSTANTS
    Procs = {p1, p2}
    a = a  b = b
    Pages = {a, b}
    InTypeDirs <- BareName
    Kinds <- AllCommands
    Absent = Absent
    NoOne = NoOne
    MaxOps = 3
SYMMETRY Symm
CHECK_DEADLOCK FALSE
INVARIANTS RecordsAgree NoPhantomHits
PROPERTIES NoStaleWrite ApprovesDraftsOnly DanglingHasACause NoEntryLost
