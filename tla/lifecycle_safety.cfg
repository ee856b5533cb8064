SPECIFICATION Spec
CONSTANTS
    Agents = {a1}
    Requests = {r1, r2}
    NoAgent = NoAgent
    PlanAgents = 1
    PlanReplicas = 2
    MaxLive = 3
    MaxOps = 3
    MaxFaults = 1
    MaxAutoScales = 1
    Configs <- AutoOrBuild
    Counts = {1}
SYMMETRY AnyRequest
INVARIANT TypeOK
INVARIANT PendingHasNoContainers
INVARIANT OrphansAreExcused
