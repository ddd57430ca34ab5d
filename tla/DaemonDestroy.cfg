CONSTANTS
    Clients = {}
    MaxSignals = 1
    MaxAcceptErrors = 0
    MAX_QUEUE_SIZE = 2
SPECIFICATION DSpec
INVARIANT NoEventAfterPacketStats
CHECK_DEADLOCK FALSE
