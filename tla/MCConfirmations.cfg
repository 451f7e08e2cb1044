SPECIFICATION FairSpec
CONSTANTS
    Bot = bot
    Script = script
    signal = signal
    drill = drill
    Asks <- AskedBy
    NoOffset = NoOffset
    Patience = 1
    Batch = 2
    MaxTime = 1
    MaxUpdates = 3
    MaxFaults = 1
INVARIANTS
    AwaitedMeansShown NothingForgottenUnread RepeatsNeedANewNotifier
    InTimeMeansPressedInTime
PROPERTY PressesAreReturned
CHECK_DEADLOCK FALSE
