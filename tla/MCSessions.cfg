CONSTANTS
    MaxGen = 4
    MaxOps = 3
    None = None
    Scans = 2
    LowScans = 2
    Timeout = 2
    MaxBehind = 2
    Untold = Untold
    MaxSurveys = 2
    MaxLate = 1
    Owners = {"a"}
    MaxSessions = 2
    MaxJogGen = 2
    Tombstones = 1
    MaxUnderWay = 2
SPECIFICATION McSpec
INVARIANTS PendingIsOwned OneLayerRuns SurveyIsRecorded
PROPERTIES GrantSpec EmergencyIsHonest SessionsEnd JogFollowsHand
CHECK_DEADLOCK FALSE
