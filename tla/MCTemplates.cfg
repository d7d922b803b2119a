\* Two processes run up to three commands on one template.
SPECIFICATION Spec
CONSTANTS
    y1 = y1  y2 = y2  m1 = m1  m2 = m2  f1 = f1
    Procs = {p1, p2}
    Yamls = {y1, y2}
    Passes = {m1, m2}
    Fails = {f1}
    PassOK <- MCPassOK
    FailOK <- MCFailOK
    Absent = Absent
    NoOne = NoOne
    MaxOps = 3
SYMMETRY Symm
CHECK_DEADLOCK FALSE
INVARIANTS TemplateFits HeadFits
PROPERTY WriteIsRecorded
