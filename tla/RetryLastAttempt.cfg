SPECIFICATION Spec
CONSTANTS
    e1 = e1
    e2 = e2
    w1 = w1
    w2 = w2
    Events = {e1}
    Workers = {w1, w2}
    Stoppable = {w1}
    Attempts = 3
    Waits = {1, 2}
    Policy <- AllDrop
    MaxFaults = 0
INVARIANT ExhaustedMeansNoWrite
