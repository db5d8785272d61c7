SPECIFICATION FairSpec
CONSTANTS
    Requests = {r1}
    Workspaces = {w1, w2}
    Paths = {"a", "d"}
    Nested = {"d"}
    Sensitive = {}
    Contents = {"old", "new"}
    NotText = {}
    Decoded <- LosslessDecode
    NoContent = "null"
    PlanSet <- AwkwardPlans
    MaxCrashes = 0
    MaxEdits = 0
    MaxMoves = 1
    MaxCommands = 5
CHECK_DEADLOCK FALSE
INVARIANTS
    PreviewFaithful
PROPERTIES
    JobRecorded
