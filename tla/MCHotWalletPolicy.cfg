CONSTANTS
    o1 = o1
    o2 = o2
    v1 = v1
    v2 = v2
    Amounts = {1, 2}
    MaxAmount = 1
    DailyLimit = 2
    DefaultMax = 1
    MaxCalls = 3
    MaxLocked = 2
    Parties = {v1, v2}
    Patches <- MCPatches
    Party = v1
    Expiry = 1
    Owners = {o1, o2}
    Midnight = 1
    MaxTime = 2
SYMMETRY OwnerSymmetry
SPECIFICATION Spec
INVARIANT PausedCannotSign
CHECK_DEADLOCK FALSE
