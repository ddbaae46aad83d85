\* The last file of a directory is deleted: commit writes the source and fails.
CONSTANTS
    Tx = {t1}
    Proc = {p1, p2, p3}
    Menu <- AnyCommand
    f = f  g = g  d = d  v1 = v1  v2 = v2  p1 = p1  p2 = p2
    File = {f, g}
    Dir = {d}
    Value = {v1, v2}
    Absent = Absent
    Root = Root
    Ignored = {}
    DirOf <- MCDirOf
    Edits <- OneDirectory
    None = None
    Overlap = FALSE
    Intruder = FALSE
    MaxCalls = 3
    MaxUser = 0
    MaxCrash = 0
SPECIFICATION Spec
SYMMETRY Symmetric
CHECK_DEADLOCK FALSE
INVARIANT AbortLeavesSource
