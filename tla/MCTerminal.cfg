CONSTANTS
    Client = {daemon, cli}
    Daemon = daemon
    Item = {w1}
    Guarded = {w1}
    MaxAttempts = 1
SPECIFICATION Spec
PROPERTY TerminalIsFinal
CHECK_DEADLOCK FALSE
