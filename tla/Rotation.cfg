CONSTANTS
    KickFloor = 1
    Floor = 2
    RefreshAfter = 3
    StallAfter = 4
    WatchEvery = 2
    BuildMax = 3
    HandshakeStale = 8
SPECIFICATION Spec
INVARIANTS NoOldEvidence AgeBounded DeadDetected
PROPERTIES VerdictEarned
