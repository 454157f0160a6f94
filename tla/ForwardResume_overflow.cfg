SPECIFICATION Spec
CONSTANTS
    Reqs = {r1}
    Kinds = {"get"}
    MaxLen = 3
    ErrLen = 2
    BufferedMax = 2
    MaxObject = 3
    MaxAttempts = 3
    ResumeAttempts = 2
    RangeFrom = 1
    StableOrigin = TRUE
    None = None
INVARIANT OverflowUnframed
