SPECIFICATION AdminSpec
CONSTANTS
    Clients = {c1, c2}
    Tokens = {t1, t2, t3}
    Attempts = {f1, f2, f3, f4}
    TTL = 2
    Window = 2
    MaxSessions = 2
    MaxFailures = 2
    Threshold = 2
SYMMETRY Symmetry
INVARIANTS AdminTypeOK SessionKept RateLimited
