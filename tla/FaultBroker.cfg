SPECIFICATION Spec
CONSTANTS
    RequestSlots = 2
    WaiterSlots = 3
    Handlers = {h1, h2}
    Keys = {k1, k2}
    Results = {c1, c2}
    None = None
    PoolCapacity = 3
    MaxGeneration = 2
    MaxOthers = 1
INVARIANTS NeverInconsistent WaitersObserve CreditsMatch
PROPERTIES KeepsPromise
SYMMETRY Symmetric
CHECK_DEADLOCK FALSE
