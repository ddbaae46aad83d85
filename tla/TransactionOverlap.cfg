\* Commands on one transaction at the same time; one transaction with an ignored
\* file, one crash and one write from outside, to the source or to the worktree.
CONSTANTS
    Tx = {t1}
    Proc = {p1, p2, p3}
    Menu <- AnyCommand
    f = f  g = g  d = d  v1 = v1  v2 = v2  p1 = p1  p2 = p2
    t1 = t1  t2 = t2  p3 = p3  p4 = p4
    Scenario = {"overlap", "conflict"}
    File = {f, g}
    Dir = {}
    Value = {v1, v2}
    Absent = Absent
    Root = Root
    Ignored = {g}
    DirOf <- MCDirOf
    Edits <- OneIgnored
    None = None
    Overlap = TRUE
    Intruder = TRUE
    MaxCalls = 3
    MaxUser = 1
    MaxCrash = 1
    w1 = w1  w2 = w2
    Writer = {w1, w2}
    Remover = Remover
    FirstText = FirstText
    Blank = Blank
    Missing = Missing
    Folder = Folder
    Parts = 1
    MaxIntrusions = 1
    MaxOutages = 1
    StepCeiling = 1
    StepMargin = 1
    MaxTries = 4
    MaxBreaks = 2
    MaxEdits = 2
SPECIFICATION MCSpec
CHECK_DEADLOCK FALSE
INVARIANTS LockExclusive PreparedWasTested
PROPERTY CommittedSourceIsTested
