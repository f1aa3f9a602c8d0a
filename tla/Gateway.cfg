SPECIFICATION Spec
CONSTANTS
    None = None
    GateRequests = {"r1", "r2"}
    GateWaiters = {"w1", "w2"}
    GateMaxResolves = 3
    DevRequests = {"r1", "r2"}
    DevDevices = {"d"}
    DevDeviceOf <- MCDevDeviceOf
    DevRoles = {"op", "node"}
    DevRoleOf <- MCDevRoleOf
    DevScopes = {"s", "t"}
    DevScopesOf <- MCDevScopesOf
    DevCallers = {"c1", "c2"}
    DevMaxCalls = 3
    DevMaxFaults = 1
    NodeRequests = {"r1", "r2"}
    NodeNodes = {"n", "m"}
    NodeNodeOf <- MCNodeNodeOf
    NodeInvokes = {"i1"}
    NodeInvokedOn <- MCNodeInvokedOn
    NodeMaxPending = 1
    SendCalls = {"m1", "m2", "m3", "m4", "m5"}
    SendKeyless = {"m4"}
    SendKeys = {"k", "j"}
    SendKeyOf <- MCSendKeyOf
    SetClients = {"c1", "c2", "c3"}
    SetMixes <- MCSetMixes
    SetMaxFaults = 1
    UpdCalls = {1, 2}
    UpdWanted = {1, 2}
    UpdMaxVersion = 2
    ConnRaw = {}
    ConnRouted = {"w"}
    ConnCapacity = 1
    ConnMaxFrames = 2
    ConnMaxEvents = 3
    CompRequests = {1, 2}
    CompMaxRounds = 1
    CompMaxChunks = 1
CHECK_DEADLOCK FALSE
INVARIANTS  DecisionsStand PairingsHold ClientsAreServed ModelsAreHeard MessagesAreRouted
PROPERTIES  SessionToolsHold ImplementsOnceByKey
