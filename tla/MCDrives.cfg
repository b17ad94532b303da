CONSTANTS
    Drives = {1, 2}
    StopRetries = 1
    Dwell = 1
    CoilHold = 1
    Fresh = 2
    Reconnect = 4
    Coast = 1
    MaxScan = 1
    MaxAttempts = 3
SPECIFICATION McSpec
INVARIANTS PowerIsAccounted NeverBothOn GoalsAreAccounted
PROPERTIES ExpiredNeverSent FaultStops RestIsReached ReleasedOnlyWhenOver
CHECK_DEADLOCK FALSE
