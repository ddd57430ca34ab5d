CONSTANTS
    Macs = {1, 2, 3}
    Broadcast = 3
    PortIds = {1, 2, 3}
    Registered = {1, 2}
    Backends = {1}
    capacity = 2
    Ticks <- MCTicks
    Traffic <- MCTraffic
    Word = 4
    MaxPackets = 3
    None = None
SPECIFICATION Spec
INVARIANTS LatestPortWins EgressSound TransportLedger
PROPERTIES EvictionIsOldest
