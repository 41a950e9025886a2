CONSTANTS
    h1 = h1
    h2 = h2
    i1 = i1
    OutHashes <- MCOutHashes
    InHashes <- MCInHashes
    MaxSends = 3
    MaxCrashes = 0
    SendMayFail = FALSE
SPECIFICATION Spec
PROPERTIES
    SucceededStaysSucceeded
CHECK_DEADLOCK FALSE
