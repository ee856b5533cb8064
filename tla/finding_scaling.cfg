SPECIFICATION FairSpec
CONSTANTS
    Agents = {a1}
    Requests = {r1}
    NoAgent = NoAgent
    PlanAgents = 1
    PlanReplicas = 2
    MaxLive = 3
    MaxOps = 2
    MaxFaults = 1
    MaxAutoScales = 0
    Configs <- One
    Counts = {1}
PROPERTY ScalingResolves
