CONSTANTS
    OrchHandles <- orchHandles
    OrchEvents <- orchEvents
    OrchRequests = {1}
    MaxPings = 1
    GovAgents = {"a"}
    Rates = {1, 2, 9}
    LastDay = 9
    MaxSamples = 4
    HistoryDays = {0, 7}
    Payload = {{}, {"role_override"}}
    RequiredTags = {"owner", "env"}
    Contracts <- contracts
    Metrics = {"l", "e"}
    Readings = {1, 9, 10}
    MaxEvaluations = 3
    Costs = {1, 2, 8, 9}
    Days = {1, 9}
    MaxWindow = 4
    Utilizations = {0, 10, 50}
    Imports = {i1, i2}
    Batches <- batches
    DupWindow = 1
    MinImprovement = 50
    ExecutedActions = {"x", "y"}
    Projected = {0, 100}
    Billed = {80, 90, 140, 160}
    Step = 12
    LastHour = 36
    Period = 24
    MaxBills = 2
    MaxSessions = 3
    Intensities = {0, 70, 90, 100}
    Tick = 15
    LastMinute = 60
    StaleThreshold = 30
    MaxPolls = 2
    NoReading = NoReading
SPECIFICATION HealthSpec
PROPERTIES
    NoResponseIsUnavailable
CHECK_DEADLOCK FALSE
