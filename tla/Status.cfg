CONSTANTS
    Word = 5
    timeout_ms = 1
    window_ms = 2
    PerSecond = 2
    Times = {1, 2, 3}
    Jumps <- MCJumps
    MaxTicks = 3
    MaxMoves = 3
    Arrivals = {0, 2}
SPECIFICATION Spec
INVARIANTS AnswerIsOneTick HealthReports SmoothedWithinRaw
PROPERTIES AnswersMoveForward
CHECK_DEADLOCK FALSE
