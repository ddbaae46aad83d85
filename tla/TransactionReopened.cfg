\* Two resumes of one transaction: a stale manifest reopens a committed one.
CONSTANTS
    Tx = {t1}
    Proc = {p1, p2, p3}
    Menu <- TwoAgents
    f = f  g = g  d = d  v1 = v1  v2 = v2  p1 = p1  p2 = p2
    File = {f}
    Dir = {}
    Value = {v1, v2}
    Absent = Absent
    Root = Root
    Ignored = {}
    DirOf <- MCDirOf
    Edits <- OneFile
    None = None
    Overlap = TRUE
    Intruder = FALSE
    MaxCalls = 2
    MaxUser = 0
    MaxCrash = 0
SPECIFICATION Spec
SYMMETRY Symmetric
CHECK_DEADLOCK FALSE
PROPERTY CommittedStays
