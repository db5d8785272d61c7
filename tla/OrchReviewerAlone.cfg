SPECIFICATION Spec
CONSTANTS
    Tasks = {t1}
    Calls = {c1}
    MAX_REJECTIONS = 3
    ParticipantSets <- ReviewerOnly
    Patches <- NoPatch
    MayCrash = FALSE
CHECK_DEADLOCK FALSE
PROPERTIES
    ApprovalAdvances
