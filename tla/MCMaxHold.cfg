CONSTANTS
    heavy = heavy
    cdp = cdp
    provider = provider
    account = account
    NoSource = NoSource
    NoSlot = NoSlot
    NoProc = NoProc
    Pool <- LanePool
    Capacity <- LaneCapacity
    SourceOf <- LaneSource
    SourceCapacity <- AccountBound
    MaxHoldPool <- LanePool
    ProviderPool <- NoPools
    Attempt = {a1, a2}
    Registered = {a1, a2}
    Slot = {}
    Priority = {50}
    Proc = {}
    MaxRequests = 2
    MaxSequence = 1
SPECIFICATION FairSpec
PROPERTY MaxHoldIsEnforced
CHECK_DEADLOCK FALSE
