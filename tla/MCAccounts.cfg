SPECIFICATION Spec
CONSTANTS
    Null = Null
    root = root
    ann = ann
    r1 = r1
    r2 = r2
    r3 = r3
    Users = {root, ann}
    Calls = {r1, r2, r3}
    Asks <- MCAsks
    Initial <- MCInitial
    MaxTokens = 4
    MaxNow = 2
    TokenTTL = 2
    GraceWindow = 0
    MaxFailed = 2
    Lockout = 1
INVARIANTS
    TypeOK
    OneLiveTokenPerChain
    BarredUserHoldsNoLiveToken
    LockoutEarned
PROPERTIES
    KeepsTokens
CHECK_DEADLOCK FALSE
