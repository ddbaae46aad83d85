\* Any number of turns and restarts, with an outside write; and scans of two
\* files and a Git control, with two changes by other processes; and three
\* processes that start at once and append to one log, two faults among them; and
\* recalls while three writes are made elsewhere.
CONSTANTS
    Content = {a, b}
    None = None
    Checks = 1
    MaxBatch = 1
    MaxWrites = 1
    MaxSteps = 2
    Coding = TRUE
    Listed = {x, y}
    Control = {config}
    Target = {one, two}
    Gone = Gone
    NoTarget = NoTarget
    Torn = Torn
    MaxScanned = 2
    one = one
    Writer = {p, q, r}
    Protocol = {"ledger", "store", "poll"}
    Missing = Missing
    MaxPolls = 1
    MaxTexts = 4
    MaxFaults = 2
    Anchor = {words, sense}
    words = words
    sense = sense
    Nobody = Nobody
    MaxNow = 1
    Similar <- MCSimilar
    Meaning <- MCMeaning
    MinExcluded = 35
    MinMargin = 5
    MinMeaning = 25
    MaxItems = 2
    MaxContext = 1
    MaxChanges = 3
    Part = {"chat", "scan", "log", "recall"}
SPECIFICATION SessionSpec
CHECK_DEADLOCK FALSE
INVARIANTS SessionTypeOK VerifiedTurnWasTested ScanIsTrue RowsAreKept RecallIsTrue
PROPERTIES AcceptsOnlyCovered TurnEnds
