SPECIFICATION Spec
CONSTANTS
    Requests = {r1}
    Workspaces = {w1}
    Paths = {"a"}
    Nested = {}
    Sensitive = {}
    Contents = {"old", "new"}
    NotText = {}
    Decoded <- LosslessDecode
    NoContent = "null"
    PlanSet <- CreateThenModify
    MaxCrashes = 0
    MaxEdits = 0
    MaxMoves = 0
    MaxCommands = 5
CHECK_DEADLOCK FALSE
INVARIANTS
    RollbackRestores
