CONSTANTS
    Threads = {main, epoll}
    Objects = {a, b, c}
    Fds = {0, 1, 2}
    None = None
SPECIFICATION Spec
INVARIANTS OneHolder RegistryMatchesOwners
CHECK_DEADLOCK FALSE
