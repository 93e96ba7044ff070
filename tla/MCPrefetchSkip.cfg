CONSTANTS
    Sources <- ShortSources
    HasPrecomp = FALSE
    AwgReady = TRUE
SPECIFICATION Spec
INVARIANT ConfigInForce
CHECK_DEADLOCK FALSE
