SPECIFICATION FairSpec
CONSTANTS
    Intents = {1, 2}
    Workers = {w1}
    Nobody = Nobody
    Ghosts = {}
    Unproven = {}
    OrderTypes = {"LIMIT", "MARKET"}
    Dedup = FALSE
    SessionsDrop = FALSE
    MaxFaults = 0
PROPERTIES UnloadableRowsAreConsumed
CHECK_DEADLOCK FALSE
