CONSTANTS
    Publishers = {epoll}
    MAX_QUEUE_SIZE = 2
    MaxPackets = 1
SPECIFICATION Spec
PROPERTY DestructorReturns
CHECK_DEADLOCK FALSE
