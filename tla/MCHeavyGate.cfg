CONSTANTS
    heavy = heavy
    cdp = cdp
    provider = provider
    account = account
    NoSource = NoSource
    NoSlot = NoSlot
    NoProc = NoProc
    Pool <- HeavyPool
    Capacity <- HeavyCapacity
    SourceOf <- HeavySource
    SourceCapacity <- NoSources
    MaxHoldPool <- NoPools
    ProviderPool <- NoPools
    Attempt = {a1, a2}
    Registered = {a1, a2}
    Slot = {}
    Priority = {50, 60}
    Proc = {p1}
    MaxRequests = 3
    MaxSequence = 2
SPECIFICATION Spec
INVARIANT FencedKeepTheirPlace
INVARIANT ChildUnderHeldParent
INVARIANT VerdictForetells
INVARIANT OfferedRecoveryWorks
PROPERTY SweepSparesLiveOwners
PROPERTY KeepsLine
SYMMETRY Symmetry
VIEW Seen
CHECK_DEADLOCK FALSE
