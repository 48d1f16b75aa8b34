CONSTANTS
    heavy = heavy
    cdp = cdp
    provider = provider
    account = account
    NoSource = NoSource
    NoSlot = NoSlot
    NoProc = NoProc
    Pool <- HeavyPool
    Capacity <- HeavyCapacity
    SourceOf <- HeavySource
    SourceCapacity <- NoSources
    MaxHoldPool <- NoPools
    ProviderPool <- NoPools
    Attempt = {a1, a2}
    Registered = {a1, a2}
    Slot = {}
    Priority = {50}
    Proc = {p1}
    MaxRequests = 2
    MaxSequence = 1
SPECIFICATION Spec
PROPERTY AttestationNeverOverrides
CHECK_DEADLOCK FALSE
