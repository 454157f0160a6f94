SPECIFICATION FairSpec
CONSTANTS
    Callers = {c1, c2, c3}
    Addrs = {ip, fake}
    FakeIPs = {fake}
    TTL = 1
    Retries = 2
    MaxTime = 2
    None = None
INVARIANT OneFlight
PROPERTY CacheAdvances
PROPERTY ServedFresh
PROPERTY LookupsReturn
