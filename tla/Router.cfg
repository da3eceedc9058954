SPECIFICATION Spec
CONSTANTS
    Procs = {"p1", "p2"}
    Types <- MCTypes
    Programs <- MCPrograms
INVARIANTS
    RouteKeepsItsChain
    ReasonsAreOwn
    OneBinder
    EveryBadInputNamed
    ErrorsKeepTheirSide
    SuiteHolds
CHECK_DEADLOCK FALSE
