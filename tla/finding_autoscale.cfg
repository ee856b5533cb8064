SPECIFICATION SerialSpec
CONSTANTS
    Agents = {a1, a2}
    Requests = {r1}
    NoAgent = NoAgent
    PlanAgents = 2
    PlanReplicas = 3
    MaxLive = 3
    MaxOps = 2
    MaxFaults = 0
    MaxAutoScales = 2
    Configs <- OneAuto
    Counts = {1}
PROPERTY AutoScaleWithinPlan
