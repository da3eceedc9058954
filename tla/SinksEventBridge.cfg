SPECIFICATION Spec
CONSTANTS
    Items = {"good", "invalid", "alien"}
    NameOf <- MCNameOf
    KindOf <- MCKindOf
    Names = {"n1", "n2"}
    Handlers = {"h1", "h2", "h3"}
    OnName <- MCOnName
    Transports = {"eventbridge"}
    Coercers = {"default"}
    Topics = {"n1"}
    Slots = {"d1"}
    MaxDeliveries = 2
    MaxFaults = 1
INVARIANT TraceContinues
CHECK_DEADLOCK FALSE
