SPECIFICATION Spec
CONSTANTS
    Requests = {r1}
    Workspaces = {w1}
    Paths = {"a", "d", "s"}
    Nested = {"d"}
    Sensitive = {"s"}
    Contents = {"old", "new", "bin"}
    NotText = {"bin"}
    Decoded <- LosslessDecode
    NoContent = "null"
    PlanSet <- DistinctPlans
    MaxCrashes = 1
    MaxEdits = 1
    MaxMoves = 0
    MaxCommands = 5
CHECK_DEADLOCK FALSE
INVARIANTS
    TypeOK
    RollbackRestores
    LogTellsTruth
    FailFast
    BackupsMatchLog
    CommandsOnce
    PreviewFaithful
PROPERTIES
    LedgerSpec
