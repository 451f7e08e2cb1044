SPECIFICATION Spec
CONSTANTS
    Prices = {4, 5, 6, 7}
    MaxBars = 5
    InitialEquity = 1
    Config <- HalfAtRisk
    Symbol <- WholeLots
    ConfirmOverBudget = TRUE
    RrMult = 1
    UseHullExit = TRUE
    OnlyAfterBe = FALSE
    MaxEntryGapBps = 3000
INVARIANTS BooksAgree NoPositionIsLost BreakevenIsEarned ClosesNameTheQuantity
PROPERTY RuinIsFinal
CHECK_DEADLOCK FALSE
