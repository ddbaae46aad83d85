\* Two sessions decide one candidate.
SPECIFICATION Spec
SYMMETRY Symmetric
CONSTANTS
    None = None
    HostId = {h1}
    MessageInterval = 2
    CharacterInterval = 3
    ProtectRecent = 1
    MaxBatch = 2
    Mode = "background"
    MaxMessages = 4
    MaxEdits = 1
    MaxCheckpoints = 3
    Nothing = Nothing
    Field = {name, mood}
    Value = {Eddy, Lin}
    Schema = {identity, scene}
    Draft <- MCDraft
    Fields <- MCFields
    Typed <- MCTyped
    Limit <- MCLimit
    Retained <- MCRetained
    MaxSent = 4
    name = name
    mood = mood
    Eddy = Eddy
    Lin = Lin
    identity = identity
    scene = scene
    NoMemory = NoMemory
    NoAnchor = NoAnchor
    alice = alice
    Kind <- MCKind
    MaxRecords = 3
    MaxChars = 5
    ProtectCore = FALSE
    ProtectDurable = FALSE
    ProtectPinned = TRUE
    PreserveAnchors = TRUE
    BatchRecords = 2
    MaxTold = 2
    MaxToldChars = 3
    CheckpointChars = {1, 2}
    MaxId = 4
    Part = {"chats"}
    Anchor = {pytest, ruff}
    Nobody = Nobody
    MaxNow = 1
    Admitter = {p1, p2}
    Receipt = {r1, r2, r3}
    IssuedAt <- MCIssuedAt
    Checks <- MCChecks
    PatchChars <- MCPatchChars
    MaxRepairs = 2
    MaxRepairChars = 3
    MaxEvents = 4
    NoReceipt = NoReceipt
    Chat = {p1, p2}
    Log = {l1}
    Candidates = Candidates
    MaxRows = 3
    NoEvent = NoEvent
    Database = Database
    Agent = {p1, p2}
    Advice = {tip}
    Score <- MCScore
    MinUtility = 42
    MaxDecisions = 2
    NoDecision = NoDecision
    r1 = r1  r2 = r2  r3 = r3  pytest = pytest  ruff = ruff  p1 = p1  p2 = p2  tip = tip
INVARIANT DecidedOnce
CHECK_DEADLOCK FALSE
