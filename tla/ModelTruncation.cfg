SPECIFICATION FairSpec
CONSTANTS
    Providers = {"anthropic"}
    JSON_RETRY_MAX = 2
    TOOL_LOOP_MAX_ROUNDS = 5
PROPERTIES
    TruncationNotRetried
