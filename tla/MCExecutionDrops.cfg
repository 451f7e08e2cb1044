SPECIFICATION FairSpec
CONSTANTS
    Intents = {1, 2, 3}
    Workers = {w1, w2}
    Nobody = Nobody
    Ghosts = {3}
    Unproven = {2}
    OrderTypes = {"LIMIT"}
    Dedup = TRUE
    SessionsDrop = TRUE
    MaxFaults = 2
PROPERTIES EventsAreConsumed 
CHECK_DEADLOCK FALSE
