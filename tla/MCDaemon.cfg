CONSTANTS
    heavy = heavy
    cdp = cdp
    provider = provider
    account = account
    NoSource = NoSource
    NoSlot = NoSlot
    NoProc = NoProc
    Pool <- LanePool
    Capacity <- LaneCapacity
    SourceOf <- LaneSource
    SourceCapacity <- AccountBound
    MaxHoldPool <- LanePool
    ProviderPool <- NoPools
    Attempt = {a1}
    Registered = {a1}
    Slot = {}
    Priority = {50}
    Proc = {p1}
    MaxRequests = 2
    MaxSequence = 1
SPECIFICATION FairSpec
PROPERTY DeadFenceIsFreed
CHECK_DEADLOCK FALSE
