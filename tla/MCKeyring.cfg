SPECIFICATION Spec
CONSTANTS
    Procs <- OneAtATime
    MaxKeys = 3
    MaxCommands = 4
    MaxCrashes = 1
    MaxMoment = 3
INVARIANTS
    PrivateKeysKept
    RevokedStaysRevoked
    SealsVerify
    WindowsMeet
CHECK_DEADLOCK FALSE
