SPECIFICATION Spec
CONSTANTS
    Raws <- MCRaws
    Blank = ""
    Trim <- MCTrim
    Spells <- MCSpells
    Formats <- MCFormats
    Options <- MCOptions
    Routes = {"a", "b"}
    Requests <- MCRequests
    Declarable <- MCDeclarable
    MaxCalls <- MCMaxCalls
INVARIANTS
    DispatchesNewest
    OffersWork
    FloatsAsPinned
    FallbackResolves
PROPERTY
    PinKeepsBehaviour
CHECK_DEADLOCK FALSE
