CONSTANTS
    Sources <- MCSources
    HasPrecomp = TRUE
    AwgReady = TRUE
SPECIFICATION Spec
INVARIANTS
    TreeIsWhole
    PlaysAreKept
    LoadsInFront
    SwapExchanges
    PlaysItsWave
    ConfigInForceIfTaken
PROPERTIES
    OnlyPlans
CHECK_DEADLOCK FALSE
