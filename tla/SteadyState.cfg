CONSTANTS
    MAX_QUEUE_SIZE = 2
    MaxPacketsPerWakeup = 2
    MaxDatagrams = 1
    MaxSynthetic = 2
    Bursts <- BroadcastOnly
    enabled = FALSE
    every_n_packets = 0
    failure_type = "None"
    lifecycle_rules <- NoRules
SPECIFICATION Spec
INVARIANT SteadyStateNothingPending
CHECK_DEADLOCK FALSE
