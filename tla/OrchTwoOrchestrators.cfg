SPECIFICATION Spec
CONSTANTS
    Tasks = {t1}
    Calls = {c1, c2}
    MAX_REJECTIONS = 3
    ParticipantSets <- FullConfig
    Patches <- FailAndRetry
    MayCrash = FALSE
CHECK_DEADLOCK FALSE
INVARIANTS
    OneOrchestrator
