\* One transaction with an ignored file, no crash, no other writer: every command comes to its end.
CONSTANTS
    Tx = {t1}
    Proc = {p1, p2, p3}
    Menu <- TwoAgents
    f = f  g = g  d = d  v1 = v1  v2 = v2  p1 = p1  p2 = p2
    File = {f, g}
    Dir = {}
    Value = {v1, v2}
    Absent = Absent
    Root = Root
    Ignored = {g}
    DirOf <- MCDirOf
    Edits <- OneIgnored
    None = None
    Overlap = FALSE
    Intruder = FALSE
    MaxCalls = 3
    MaxUser = 0
    MaxCrash = 0
SPECIFICATION QuietSpec
CHECK_DEADLOCK FALSE
INVARIANTS CommitFailsClosed
PROPERTY InvocationEnds
