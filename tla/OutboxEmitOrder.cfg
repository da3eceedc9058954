SPECIFICATION Spec
CONSTANTS
    e1 = e1
    e2 = e2
    r1 = r1
    r2 = r2
    Events = {e1, e2}
    Poison = {}
    Relays = {r1}
    Stoppable = {}
    Batch = 2
    MaxFaults = 0
INVARIANT EmitOrder
