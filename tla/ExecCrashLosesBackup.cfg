SPECIFICATION Spec
CONSTANTS
    Requests = {r1}
    Workspaces = {w1}
    Paths = {"a"}
    Nested = {}
    Sensitive = {}
    Contents = {"old", "new"}
    NotText = {}
    Decoded <- LosslessDecode
    NoContent = "null"
    PlanSet <- ModifyOnly
    MaxCrashes = 1
    MaxEdits = 0
    MaxMoves = 0
    MaxCommands = 5
CHECK_DEADLOCK FALSE
INVARIANTS
    OriginalRecoverable
