SPECIFICATION FairSpec
CONSTANTS
    Reqs = {r1}
    Kinds = {"asset", "get", "head", "post", "range"}
    MaxLen = 5
    ErrLen = 2
    BufferedMax = 3
    MaxObject = 3
    MaxAttempts = 4
    ResumeAttempts = 2
    RangeFrom = 1
    StableOrigin = TRUE
    None = None
INVARIANT SeamlessBody
INVARIANT KeepAliveFramed
INVARIANT HeaderOnce
INVARIANT SentOnce
PROPERTY RequestsEnd
