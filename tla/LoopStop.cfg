CONSTANTS
    Clients = {c1, c2}
    MaxSignals = 2
    MaxAcceptErrors = 1
SPECIFICATION TimeoutSpec
PROPERTY StopEndsLoop
CHECK_DEADLOCK FALSE
