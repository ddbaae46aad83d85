\* Ctrl-C while a tool runs.
CONSTANTS
    Content = {a, b}
    None = None
    Checks = 1
    MaxBatch = 1
    MaxWrites = 0
    MaxSteps = 1
    Coding = TRUE
SPECIFICATION Spec
SYMMETRY Symmetric
CHECK_DEADLOCK FALSE
INVARIANT ClosedIsResumable
