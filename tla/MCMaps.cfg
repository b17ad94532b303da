CONSTANTS
    Workers = {w1, w2}
    MissionNames = {m1}
    MaxRevision = 2
    MaxRoute = 2
    MaxMade = 3
    MaxLabels = 1
    MaxDirs = 4
    MaxSteps = 3
    MaxOwn = 2
    MaxMains = 2
    LabelIds = {la, lb}
    LabelNames = {n1, n2}
    FixFrames = 1
    Stationary = 2
    StaleAfter = 1
    MaxSets = 2
    Streams = {"wheels", "tf"}
    Graced = {"wheels"}
    AgeLimit = 1
    Grace = 1
    AmclAge = 2
    MatchAge = 1
    BadHold = 1
    Settle = 1
    Snap = 1
    DrivesAge = 1
SYMMETRY RequestsAlike
SPECIFICATION McSpec
INVARIANTS NamesAreTrue ReadyIsEarned RecordedWhereItLies
INVARIANTS DrivenIsCleared GoalIsReachedLast SpeedFitsTheStep MainRunsAsDrawn
PROPERTIES NothingRewritten NoLabelIsLost
CHECK_DEADLOCK FALSE
