SPECIFICATION Spec
CONSTANTS
    Reqs = {r1}
    Kinds = {"asset"}
    MaxLen = 3
    ErrLen = 2
    BufferedMax = 2
    MaxObject = 3
    MaxAttempts = 3
    ResumeAttempts = 2
    RangeFrom = 1
    StableOrigin = FALSE
    None = None
INVARIANT OnlyWhole200Cached
