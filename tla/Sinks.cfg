SPECIFICATION LiveSpec
CONSTANTS
    Items = {"good", "invalid", "alien"}
    NameOf <- MCNameOf
    KindOf <- MCKindOf
    Names = {"n1", "n2"}
    Handlers = {"h1", "h2", "h3"}
    OnName <- MCOnName
    Transports = {"mem", "pull", "gcp_push", "sns"}
    Coercers = {"default", "lenient"}
    Topics = {"n1"}
    Slots = {"d1"}
    MaxDeliveries = 2
    MaxFaults = 1
INVARIANTS
    TraceContinues
    ErrorsNameTheirEvent
PROPERTIES
    RefinesAtLeastOnce
    EventFires
    CancelledReceiveReturns
CHECK_DEADLOCK FALSE
