CONSTANTS
    Client = {daemon}
    Daemon = daemon
    Item = {w1}
    Guarded = {w1}
    MaxAttempts = 2
SPECIFICATION Spec
PROPERTY ReplacementIsNotFenced
CHECK_DEADLOCK FALSE
