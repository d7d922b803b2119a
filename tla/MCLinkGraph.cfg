\* Every sequence of commands, with one change that the tables do not follow.
SPECIFICATION Spec
CONSTANTS
    Paths <- MCPaths
    Top = "top"
    Targets <- MCTargets
    Short = "short"
    KbDirs <- MCKbDirs
    LinkSets <- MCLinkSets
    WalkOrder <- MCWalkOrder
    Absent = Absent
    MaxUntracked = 1
INVARIANTS RowsFollowFiles LinksNameRows
PROPERTY RebuiltLinksAreExact
