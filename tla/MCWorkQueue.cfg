CONSTANTS
    Client = {daemon, cli}
    Daemon = daemon
    Item = {w1}
    Guarded = {w1}
    MaxAttempts = 2
SPECIFICATION FairSpec
INVARIANT NoWorkWithoutGo
PROPERTY ReplacedStaysOut
PROPERTY RevokedStaysOut
PROPERTY ExpiredLeaseIsNoticed
CHECK_DEADLOCK FALSE
