SPECIFICATION LiveSpec
CONSTANTS
    w1 = w1
    w2 = w2
    h1 = h1
    h2 = h2
    m1 = m1
    m2 = m2
    user = user
    Loops = {w1, w2}
    Msgs = {m1}
    Names = {user}
    EventOf <- MCOneName
    Handlers = {h1}
    Registrations <- MCRegistered
    Stoppable = {w1}
    BatchSize = 2
    MaxReceives = 2
    MaxFailures = 1
    MaxCrashes = 1
PROPERTIES
    EveryMessageWorked
    ShutdownReturns
