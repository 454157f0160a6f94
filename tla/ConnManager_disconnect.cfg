SPECIFICATION HSpec
CONSTANTS
    Calls = {c1, c2}
    Devices = {d1, d2}
    Proxies = {p1, p2}
    Addrs = {a1}
    NoDev = NoDev
    NoPx = NoPx
    NoThread = NoThread
    ReconnectAttempts = 1
    BuildAttempts = 1
INVARIANT DisconnectWins
CHECK_DEADLOCK FALSE
