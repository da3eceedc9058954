CONSTANTS
    s1 = s1
    s2 = s2
    p1 = p1
    Callers <- Mixed
    Serializable <- Pair
    Nesting <- Plain
    Cancellable <- One
    Exiting <- One
    PoolSize = 3
    MaxRetries = 1
    MaxFaults = 2
SPECIFICATION LiveSpec
INVARIANTS
    TypeOK
    ConnsReturned
    SomeoneGivesBack
PROPERTIES
    RefinesTxPromise
    CallsReturn
