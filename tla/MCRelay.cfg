SPECIFICATION Spec
CONSTANTS
    Events = {1, 2, 3}
    Dispatchers = {d1, d2}
    Workers = {w1}
    ReadyEvents = {2}
    Nobody = Nobody
    MaxFaults = 2
SYMMETRY RelaySymmetry
INVARIANTS MarkedMeansHandled DuplicatesNeedFaults
CHECK_DEADLOCK FALSE
