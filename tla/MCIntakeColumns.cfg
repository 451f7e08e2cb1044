SPECIFICATION Spec
CONSTANTS
    Clients = {c1, c2}
    Asking = {"exit", "plain"}
    Requests <- AskedFor
    LastTime = 1
    MaxAnswers = 3
    MaxFaults = 1
INVARIANT WhatWasApprovedIsStored
CHECK_DEADLOCK FALSE
