CONSTANTS
    Client = {p1, p2}
    Nobody = Nobody
    Killed = Killed
    MaxEnds = 1
    MaxCrashes = 1
SPECIFICATION Spec
PROPERTY StampsAreFinal
CHECK_DEADLOCK FALSE
