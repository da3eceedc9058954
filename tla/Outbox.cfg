SPECIFICATION LiveSpec
CONSTANTS
    e1 = e1
    e2 = e2
    r1 = r1
    r2 = r2
    Events = {e1, e2}
    Poison = {e2}
    Relays = {r1, r2}
    Stoppable = {r1}
    Batch = 2
    MaxFaults = 3
INVARIANTS
    NoPhantom
    NoNeedlessDuplicate
PROPERTIES
    RefinesOutboxPromise
    OnlyPoisonHoldsUp
    StopReturns
