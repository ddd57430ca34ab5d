CONSTANTS
    Publishers = {epoll, player}
    MAX_QUEUE_SIZE = 2
    MaxPackets = 3
    Policies = {{}, {2}}
    Refusals = {{}, {1}}
    Player = player
SPECIFICATION RSpec
INVARIANTS HandoffIsFifo RecordedInOrder OneOutcomeEach ReplayAgrees ReplayOrder
PROPERTIES AdmittedIsProcessed
CHECK_DEADLOCK FALSE
