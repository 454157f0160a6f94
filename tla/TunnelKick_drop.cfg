SPECIFICATION Spec
CONSTANTS
    Requests = {r1, r2}
    MaxGen = 2
INVARIANT SuppressedOnlyWhenKicked
