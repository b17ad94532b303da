CONSTANTS
    Missions = {m1, m2}
    NPlaces = 3
    Waits = {2}
    MaxStops = 2
    MaxRestarts = 1
    None = None
    Requests = {"r1"}
    NoRequest = ""
    HistoryLimit = 2
    DiskRefuses = TRUE
    MaxRecords = 5
    MaxStarts = 3
    MaxBoots = 3
    Loops = {1, 3}
    CoilHolds = {1, 4, 6, 12}
    Late = 1
    MaxAge = 22
    Scans = 2
    Holds = {2}
    DebounceScans = 2
    HoldScans = 3
    Directions = {"fwd", "left"}
    Destinations = {"d1", "d2"}
SPECIFICATION McSpec
INVARIANTS CheckpointIsTrue RunsOnce 
PROPERTIES VerdictIsTrue OnePressOnce PhantomIsWithheld
CHECK_DEADLOCK FALSE
