CONSTANTS
    c1 = c1
    c2 = c2
    r1 = r1
    r2 = r2
    v1 = v1
    v2 = v2
    s1 = s1
    s2 = s2
    i1 = i1
    k1 = k1
    k2 = k2
    k3 = k3
    k4 = k4
    k5 = k5
    Null = Null
    Kinds = {"order", "booking", "invoice"}
    Calls = {c1, c2}
    Ids = {r1, r2}
    MaxCalls = 5
    Vendors = {v1, v2}
    Vendor <- MCVendor
    Symbols = {"LYTH", "pLYTH", "wUSD", "oldUSD"}
    Asset <- MCAsset
    PolicyPatches <- MCPolicyPatches
    OrderTasks <- MCOrderTasks
    MaxOrderCalls = 3
    Amounts = {1, 2}
    Parties = {v1}
    LimitPatches <- MCLimitPatches
    MaxAmount = 1
    DailyLimit = 1
    DefaultMax = 2
    MaxWalletCalls = 2
    MaxLocked = 2
    Party = v1
    Expiry = 0
    Midnight = 1
    MaxTime = 1
    Seats = {s1, s2}
    SeatCount = 2
    Window = 3
    SeatLimit = 1
    MaxHeight = 5
    MaxBroken = 0
    Clusters = {k1, k2}
    Page = {k1}
    SearchLimit = 1
    MaxChanges = 1
    SecretIds = {i1}
    Secrets = {v1}
    Passphrases = {v2}
    MaxKeys = 2
    Addresses = {v1, v2}
    MaxApprovals = 2
    Delegates = {k1, k2, k3, k4, k5}
    CapPercent = 25
    MinimumClusters = 4
    Deposits = {0, 1}
    MaxHeld = 2
    Registries <- MCRegistries
SPECIFICATION MarketSpec
CHECK_DEADLOCK FALSE
SYMMETRY MarketSymmetry
INVARIANTS
    MarketTypeOK
    RecordsCohere
    OrdersHeedPolicies
    HotSigningHolds
    ReportsAgree
    SeatListIsExact
    AnswersAreHonest
    SecretsSurvive
    OrdersAreAccountedFor
    SwapsAreApproved
PROPERTIES
    FinishedStaysFinished
    FactsAreKept
    PoliciesAreKept
    DraftsAreHonest
