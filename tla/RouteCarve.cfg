SPECIFICATION RouteSpec
CONSTANTS
    W = 3
    Junk = junk
    NoCIDR = none
    RouteSets <- MCRouteSets
    Peers <- MCPeers
    DNSSets <- MCDNSSets
CHECK_DEADLOCK FALSE
INVARIANTS PeerOutside RoutesExact
