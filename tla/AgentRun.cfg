\* Attempts with two checks, an outside write, a Ctrl-C and a kill; and the
\* undo, the compacted history and the commands of a run.
CONSTANTS
    Content = {a, b}
    None = None
    Checks = 2
    MaxBatch = 2
    MaxWrites = 1
    MaxSteps = 2
    MaxAttempts = 3
    MaxInterrupts = 1
    MaxCrashes = 1
    Path = {src, doc}
    FileText = {one, two}
    Absent = Absent
    Unread = Unread
    MaxFileEdits = 3
    MaxOthers = 1
    MaxToolCalls = 2
    ContextBudget = 1500
    Lengths = {50, 900}
    FanOut = {0, 3}
    MaxHistory = 6
    Leader = Leader
    Descendant = {d1, d2}
    src = src  doc = doc  one = one  two = two
    Part = {"run", "undo", "context", "command"}
SPECIFICATION HostSpec
CHECK_DEADLOCK FALSE
INVARIANTS
    HostTypeOK
    SubmittedIsTested
    NearlyCumulativeCeiling
    UndoneIsBaseline
    CallsKeepResults
    CommandIsGone
PROPERTY AttemptEnds
