SPECIFICATION Spec
CONSTANTS
    Procs <- TwoAtOnce
    MaxKeys = 3
    MaxCommands = 3
    MaxCrashes = 0
    MaxMoment = 2
INVARIANT PrivateKeysKept
CHECK_DEADLOCK FALSE
