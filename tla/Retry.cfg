SPECIFICATION LiveSpec
CONSTANTS
    e1 = e1
    e2 = e2
    w1 = w1
    w2 = w2
    Events = {e1, e2}
    Workers = {w1, w2}
    Stoppable = {w1}
    Attempts = 2
    Waits = {1}
    Policy <- NackOrGiveUp
    MaxFaults = 1
INVARIANT SpentBeforeExhausted
PROPERTIES
    RefinesAtLeastOnce
    LateWriteIsWorked
