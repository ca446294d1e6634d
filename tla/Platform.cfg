SPECIFICATION PlatformSpec
CONSTANTS
    None = None
    Transactions = {x1, x2}
    Amounts = {1, 2, 4}
    Limit = 3
    ValidFrom = 0
    ValidUntil = 0
    LastTick = 1
    MaxCopies = 4
    Serial = TRUE
    A2AHandlers <- a2aHandlers
    A2ACards <- a2aCards
    A2ATenants = {"t1", "t2"}
    A2ATasks = {"task"}
    Payloads = {"p", "q"}
    MaxMessages = 2
    Bytes = {0, 1}
    MaxBytes = 5
    CHUNK_SIZE = 2
    MAX_CONTEXT_TOKENS = 3
    STREAMING_THRESHOLD = 3
    Providers <- providers
    Runs = {1, 2}
    Answers <- answers
    IngestTags = {"owner", "tenant_id"}
    Minutes = 3
    MaxFailures = 2
    UnreachableAfter = 2
    Publications = {p1, p2, p3}
    KillEvents = {p1, p2}
    StartCalls = {s1, s2}
    StopCalls = {e1, e2}
    MaxRecords = 3
    TopicTenants = {"t1", "events"}
    EventTypes = {"carbon", "governance"}
    MaxClients = 3
    Adders = {a1, a2, a3}
    AddAmounts = {1, 2}
    LimitUsd = 3
    MaxHour = 4
    WindowHours = 3
    Markers = {m1, m2}
    MaxBeats = 3
    HealthTtl = 2
    CacheResource <- cacheResource
    TwinKeys = {"r1", "r2", "r3"}
    Closers = {c1, c2}
    MaxOpened = 4
    TenantCalls = {q1, q2, q3}
    Malformed = {q3}
    Connections = {d1, d2}
    NoConnection = none
    Attempts = {v1, v2}
    BudgetRuns = {b1, b2, b3}
    MaxBudget = 3
    WorkCosts = {0, 1, 2, 4}
    Signals = {0, 30, 60, 100}
    Impacts = {0, 9, 10, 300, 500, 501}
    Remainders = {0, 1, 2, 10, 11}
    Conclusions <- conclusions
    Confidences = {10, 50}
    ClaimOutcomes <- claimOutcomes
    MaxClaims = 6
    KeyTenants <- keyTenants
    Requests = {r1, r2}
    Attempted = {"read:metrics", "activate:kill_switch"}
SYMMETRY Symmetry
INVARIANTS
    ApprovalPrecedesSubmission
    TotalIsWithinLimit
    ProtocolsInv
    PipelineInv
    StorageInv
    DecisionInv
CHECK_DEADLOCK FALSE
