SPECIFICATION Spec
CONSTANTS
    Intents = {1, 2, 3}
    Workers = {w1, w2}
    Nobody = Nobody
    Ghosts = {3}
    Unproven = {}
    OrderTypes = {"LIMIT", "MARKET"}
    Dedup = FALSE
    SessionsDrop = FALSE
    MaxFaults = 1
SYMMETRY WorkerSymmetry
INVARIANTS TypeOK AtMostOneOrder  RowAgreesWithBroker
PROPERTIES OnlyQueuedIsSent ImplementsLifecycle
CHECK_DEADLOCK FALSE
