SPECIFICATION FairSpec
CONSTANTS
    Tasks = {t1}
    Calls = {c1, c2}
    MAX_REJECTIONS = 2
    ParticipantSets <- ShortConfig
    Patches <- AllStatuses
    MayCrash = TRUE
INVARIANTS
    TypeOK
    AttemptsCountRejections
    ReviewedAfresh
    DoneIsReviewed
    RunningMeansAgent
    OneProposalPerReview
PROPERTIES
    ReplyTruthful
    TaskSettles
