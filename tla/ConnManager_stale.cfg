SPECIFICATION Spec
CONSTANTS
    Calls = {c1, c2}
    Devices = {d1, d2, d3}
    Proxies = {p1, p2}
    Addrs = {a1}
    NoDev = NoDev
    NoPx = NoPx
    NoThread = NoThread
    ReconnectAttempts = 1
    BuildAttempts = 1
PROPERTY ReconnectOwnOnly
CHECK_DEADLOCK FALSE
