SPECIFICATION Spec
CONSTANTS
    Calls = {c1, c2}
    Devices = {d1, d2}
    Proxies = {p1, p2}
    Addrs = {a1}
    NoDev = NoDev
    NoPx = NoPx
    NoThread = NoThread
    ReconnectAttempts = 2
    BuildAttempts = 2
SYMMETRY Symm
INVARIANTS
    InstalledWhole
    ServingTunnelOpen
    NoOrphans
PROPERTIES
    ImplementsGateway
    DisconnectFinal
    NothingOverwritten
CHECK_DEADLOCK FALSE
