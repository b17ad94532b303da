CONSTANTS
    MaxAttempts = 2
    Route <- MCRoute
    Chained <- MCChained
    NPasses = 2
    AutoResume = TRUE
    AutoResumeEstop = FALSE
    WarningTicks = 2
    SafetyTicks = 1
SPECIFICATION Spec

PROPERTY BarrierBlocksGoals
