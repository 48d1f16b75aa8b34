CONSTANTS
    heavy = heavy
    cdp = cdp
    provider = provider
    account = account
    NoSource = NoSource
    NoSlot = NoSlot
    NoProc = NoProc
    Pool <- AccountPool
    Capacity <- AccountCapacity
    SourceOf <- AccountSource
    SourceCapacity <- AccountBound
    MaxHoldPool <- NoPools
    ProviderPool <- ProviderOnly
    Attempt = {a1, a2}
    Registered = {a1, a2}
    Slot = {k}
    Priority = {50}
    Proc = {}
    MaxRequests = 3
    MaxSequence = 1
SPECIFICATION Spec
INVARIANT RunningWithinAccount
INVARIANT NoStrandedWaiter
INVARIANT SlotsExclusive
PROPERTY RevokedNeverGranted
SYMMETRY Symmetry
VIEW Seen
CHECK_DEADLOCK FALSE
