SPECIFICATION Spec
CONSTANTS
    Clients = {c1, c2}
    Asking = {"plain", "spelled", "exit", "losing", "lax", "crossed", "ruined"}
    Requests <- AskedFor
    LastTime = 1
    MaxAnswers = 3
    MaxFaults = 1
SYMMETRY ClientSymmetry
INVARIANTS
    OneRowPerOrder EvidenceIsComplete AnswersAreTrue
    RejectionsAreAudited LimitsBindEntries
PROPERTY CreatesAlongTheLifecycle
CHECK_DEADLOCK FALSE
