SPECIFICATION FairSpec
CONSTANTS
    Requests = {r1, r2}
    MaxGen = 2
INVARIANT OneKickPerGen
PROPERTY RequestsMoveOn
