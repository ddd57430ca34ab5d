CONSTANTS
    Clients = {c1}
    MaxSignals = 2
    MaxAcceptErrors = 1
    MAX_QUEUE_SIZE = 1
SPECIFICATION DSpec
INVARIANTS NoUseAfterRelease NoJoinableDestroyed ExitIsClean
PROPERTIES SignalEndsProcess EarlyRequestAnswered
CHECK_DEADLOCK FALSE
