SPECIFICATION RecoverySpec
CONSTANTS
    Agents = {a1}
    Requests = {r1, r2}
    NoAgent = NoAgent
    PlanAgents = 1
    PlanReplicas = 2
    MaxLive = 3
    MaxOps = 2
    MaxFaults = 1
    MaxAutoScales = 1
    Configs <- AutoOrLargerBuild
    Counts = {1}
    k1 = k1
    k2 = k2
    u1 = u1
    u2 = u2
    Keys = {k1, k2}
    Users = {u1, u2}
    Owner <- TwoOwners
    MaxRequests = 2
    MaxFailures = 1
    MaxLostAcks = 1
    MaxStops = 1
PROPERTY EventuallySynced
PROPERTY StartingResolves
INVARIANT MeteringTypeOK
INVARIANT Conservation
INVARIANT DroppedOnlyIfDeleted
INVARIANT UnwrittenForOneIntervalPerFailure
PROPERTY EventuallyWritten
PROPERTY ImplementsLedger
