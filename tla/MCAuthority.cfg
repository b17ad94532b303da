CONSTANTS
    MaxGen = 2
    None = None
    MaxInstance = 2
    MaxLease = 2
    Scales = {1, 2}
    Segments = 2
    Distance = 2
    Overrun = 1
    Stride = 2
    Budget = 3
    SettleFor = 2
    SettleLimit = 1
    Unbound = Unbound
SPECIFICATION McSpec
INVARIANTS AuthorityIsFollowed
PROPERTIES MotionNeedsLeases RunIsAccounted RunsEnd
CHECK_DEADLOCK FALSE
