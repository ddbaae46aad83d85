\* Two processes that append to one log, one of which is killed.
CONSTANTS
    Writer = {p, q}
    Protocol = {"ledger"}
    Missing = Missing
    MaxPolls = 1
    MaxTexts = 2
    MaxFaults = 1
SPECIFICATION LogSpec
CHECK_DEADLOCK FALSE
INVARIANT AppendLeavesReadable
