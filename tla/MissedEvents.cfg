SPECIFICATION MessagingSpec
CONSTANTS
    Publications = {}
    KillEvents = {}
    StartCalls = {}
    StopCalls = {}
    MaxRecords = 2
    TopicTenants = {}
    EventTypes = {"carbon"}
    MaxClients = 0
INVARIANT
    EveryEventIsReceived
CHECK_DEADLOCK FALSE
