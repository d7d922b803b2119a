\* One process; a name that ValidateFilename rejects, on disk.
SPECIFICATION Spec
CONSTANTS
    a = a  dotA = dotA  padded = padded  newline = newline
    Procs = {p1}
    Names <- NewlineName
    Spellings = {}
    FileOf <- MCFileOf
    ReadAs <- MCReadAs
    Comment = Comment
    Broken = Broken
    Unlistable <- NewlineName
    Nested = Nested
    Temp = Temp
    Contents = {v1}
    Absent = Absent
    Corrupt = Corrupt
    NoOne = NoOne
    MaxOps = 2
    MaxHost = 1
CHECK_DEADLOCK FALSE
PROPERTY CorruptedIsRebuilt
