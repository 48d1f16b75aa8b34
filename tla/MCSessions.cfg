CONSTANTS
    Client = {p1, p2}
    Nobody = Nobody
    Killed = Killed
    MaxEnds = 2
    MaxCrashes = 1
    Wrappers = {w1, w2}
    NoWrapper = NoWrapper
    MaxBeats = 2
    MaxVersion = 2
    MaxFaults = 2
    NoFrame = 99
SPECIFICATION SpecOne
CHECK_DEADLOCK FALSE
INVARIANT OverlapOnlyUnrecorded
PROPERTY StampedOnce
PROPERTY LeftLockIsRemoved
PROPERTY ConsumedWasRendered
PROPERTY GateIsFreed
PROPERTY PanelShowsStore
PROPERTY ReapsOnlyAbandoned
PROPERTY OldFilesReaped
