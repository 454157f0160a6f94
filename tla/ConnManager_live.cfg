SPECIFICATION FairSpec
CONSTANTS
    Calls = {c1}
    Devices = {d1, d2}
    Proxies = {p1}
    Addrs = {a1}
    NoDev = NoDev
    NoPx = NoPx
    NoThread = NoThread
    ReconnectAttempts = 2
    BuildAttempts = 2
PROPERTIES
    CallsReturn
    ConnectingEnds
    RefreshMuFreed
    DevicesSettle
    LoopsStop
CHECK_DEADLOCK FALSE
