CONSTANTS
    NumNodes = 2
    Probers = {p1}
    Builders = {b}
SPECIFICATION Spec
INVARIANTS PeerOfEndpoint
