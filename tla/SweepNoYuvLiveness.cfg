CONSTANTS
    d1 = d1
    d2 = d2
    d3 = d3
    k1 = k1
    k2 = k2
    Desc <- MCDescLive
    Classes <- MCClasses
    Class <- MCClassLive
    MaxDeposits = 2
    MaxCrashes = 1
    MaxFunding = 1
    YuvConfigured = FALSE
    SpendMayFail = TRUE
    EmulateMayReject = TRUE
    BroadcastMayFail = TRUE
    TornWrites = FALSE
SPECIFICATION FairSpec
PROPERTIES
    EveryDepositAttempted
CHECK_DEADLOCK FALSE
