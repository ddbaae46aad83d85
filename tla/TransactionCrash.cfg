\* One transaction whose commands may crash; two that run and commit at the same time;
\* the replacement of a file, with a power failure; the audit of the attempts.
CONSTANTS
    Tx = {t1, t2}
    Proc = {p1, p2, p3, p4}
    Menu <- AnyCommand
    f = f  g = g  d = d  v1 = v1  v2 = v2  p1 = p1  p2 = p2
    t1 = t1  t2 = t2  p3 = p3  p4 = p4
    Scenario = {"crash", "pair", "files", "attempts"}
    File = {f, g}
    Dir = {}
    Value = {v1, v2}
    Absent = Absent
    Root = Root
    Ignored = {}
    DirOf <- MCDirOf
    Edits <- EitherFile
    None = None
    Overlap = FALSE
    Intruder = FALSE
    MaxCalls = 3
    MaxUser = 0
    MaxCrash = 1
    w1 = w1  w2 = w2
    Writer = {w1, w2}
    Remover = Remover
    FirstText = FirstText
    Blank = Blank
    Missing = Missing
    Folder = Folder
    Parts = 1
    MaxIntrusions = 1
    MaxOutages = 1
    StepCeiling = 1
    StepMargin = 1
    MaxTries = 4
    MaxBreaks = 2
    MaxEdits = 2
SPECIFICATION MCSpec
CHECK_DEADLOCK FALSE
INVARIANTS
    TypeOK LoggedBeforeEffect PreparedIsCommittable FirstCommitterWins
    WritesAreWhole AuditIsTrue
PROPERTY TerminalStates
