CONSTANTS
    NumNodes = 2
    Probers = {}
    Builders = {b1, b2}
SPECIFICATION Spec
INVARIANTS PingMeetsOwn
