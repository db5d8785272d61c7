SPECIFICATION FairSpec
CONSTANTS
    Providers = {"anthropic", "openai", "gemini"}
    JSON_RETRY_MAX = 2
    TOOL_LOOP_MAX_ROUNDS = 3
INVARIANTS
    TypeOK
    InformersNeverVeto
    CallBudget
    RequestsAlternate
    ReadsOnly
    RecordsLastAttempt
    SummaryTruthful
    RetriesUsedUp
    AnswerIsUsed
PROPERTIES
    CallEnds
