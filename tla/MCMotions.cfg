CONSTANTS
    MaxAttempts = 2
    Route <- MCRoute
    Chained <- MCChained
    NPasses = 2
    AutoResume = TRUE
    AutoResumeEstop = FALSE
    WarningTicks = 2
    SafetyTicks = 1
    MaxMoves = 2
    MaxJogs = 1
    Target = 2
    Stall = 1
    TimeLimit = 4
    Settle = 1
SPECIFICATION McSpec
INVARIANTS MotionIsPermitted
PROPERTIES GoalSpec NoSilentRestart ProgressIsVerified EndedMovesNothing MotionsEnd
CHECK_DEADLOCK FALSE
