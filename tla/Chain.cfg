SPECIFICATION RuntimeFairSpec
CONSTANTS
    Proposals = {p1}
    Calls = {c1, c2}
    Unknown = unknown
    Installed = {0, 1, 2, 3, 4, 5, 6, 7, 8, 9, 10, 11, 12, 13, 14, 15, 16, 17, 18, 19, 20, 21, 22, 23, 24}
    MaxDeaths = 1
CHECK_DEADLOCK FALSE
INVARIANTS
    RuntimeTypeOK
    ExecutionGated
    OneRunPerApproval
    SpentIsAccounted
    RowsSurvive
    ServesLatest
PROPERTIES
    VetoIsFinal
    LedgerSpec
    AuditTrailGrows
    ApprovedIsRehearsed
    UpgradeEnds
