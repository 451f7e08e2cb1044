SPECIFICATION Spec
CONSTANTS
    Events = {1, 2, 3}
    Dispatchers = {d1}
    Workers = {w1}
    ReadyEvents = {2}
    Nobody = Nobody
    MaxFaults = 0
INVARIANT ReadyEventsReachTheWorker
CHECK_DEADLOCK FALSE
