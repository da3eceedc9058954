SPECIFICATION LivePathSpec
CONSTANTS
    w1 = w1
    w2 = w2
    h1 = h1
    m1 = m1
    m2 = m2
    user = user
    e1 = e1
    Loops = {w1, w2}
    Msgs = {m1, m2}
    Names = {user}
    EventOf <- MCOneName
    Handlers = {h1}
    Registrations <- MCRegistered
    Stoppable = {}
    BatchSize = 1
    MaxReceives = 2
    MaxFailures = 0
    MaxCrashes = 0
    Events = {e1}
    Carries <- MCOneEvent
INVARIANTS
    NoPhantomHandled
    HandledOnce
PROPERTIES
    PathRefinesAtLeastOnce
    EventGetsThere
