SPECIFICATION Spec
CONSTANTS
    Requests = {r1, r2}
    Workspaces = {w1}
    Paths = {"a", "d"}
    Nested = {"d"}
    Sensitive = {}
    Contents = {"old", "new", "crlf"}
    NotText = {}
    Decoded <- LossyDecode
    NoContent = "null"
    PlanSet <- TwoRunPlans
    MaxCrashes = 1
    MaxEdits = 0
    MaxMoves = 0
    MaxCommands = 5
CHECK_DEADLOCK FALSE
INVARIANTS
    RollbackRestores
