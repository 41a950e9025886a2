CONSTANTS
    h1 = h1
    h2 = h2
    i1 = i1
    OutHashes <- MCOutHashes
    InHashes <- MCInHashes
    MaxSends = 3
    MaxCrashes = 1
    SendMayFail = TRUE
SPECIFICATION FairSpec
PROPERTIES
    AcceptedPaymentSettles
    ClaimedPaymentRecorded
CHECK_DEADLOCK FALSE
