CONSTANTS
    Missions = {m1, m2}
    NPlaces = 3
    Waits = {2}
    MaxStops = 2
    MaxRestarts = 1
    None = None
SPECIFICATION Spec
PROPERTY ContinuedWaitWaits
