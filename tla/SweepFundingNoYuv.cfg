CONSTANTS
    d1 = d1
    d2 = d2
    d3 = d3
    k1 = k1
    k2 = k2
    Desc <- MCDesc
    Classes <- MCClasses
    Class <- MCClass
    MaxDeposits = 3
    MaxCrashes = 1
    MaxFunding = 1
    YuvConfigured = FALSE
    SpendMayFail = TRUE
    EmulateMayReject = TRUE
    BroadcastMayFail = TRUE
    TornWrites = TRUE
SPECIFICATION FairSpec
PROPERTIES
    FundingProceeds
CHECK_DEADLOCK FALSE
