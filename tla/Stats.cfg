CONSTANTS
    Threads = {epoll, worker}
    Ids = {1, 2}
    Latencies = {1, 3}
    MaxEvents = 3
    NoThread = NoThread
SPECIFICATION Spec
INVARIANTS SnapshotLedger LatencyLedger
PROPERTIES SnapshotsMonotone 
CHECK_DEADLOCK FALSE
