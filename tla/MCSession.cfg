SPECIFICATION FairSpec
CONSTANTS
    Callers = {c1, c2}
    Starter = starter
    Closer = closer
    Nobody = Nobody
INVARIANTS TypeOK GivenUpIsNotQueued
PROPERTIES EveryCallEnds HangsAreNoticed
CHECK_DEADLOCK FALSE
