CONSTANTS
    MAX_QUEUE_SIZE = 2
    MaxPacketsPerWakeup = 2
    MaxDatagrams = 3
    MaxSynthetic = 2
    Bursts <- MCBursts
    enabled = TRUE
    every_n_packets = 3
    failure_type = "SimulatedLoss"
    lifecycle_rules <- MCRules
SPECIFICATION Spec
INVARIANTS TypeOK Conservation NoLifecycleLost TerminalAccounting PendingBounded UdpOrder InjectionSchedule
PROPERTIES EveryLifecycleEnds SocketDrained LifecycleRefinement
CHECK_DEADLOCK FALSE
