SPECIFICATION PlansSpec
CONSTANTS
    Agents = {a1, a2, a3}
    Requests = {r1}
    NoAgent = NoAgent
    PlanAgents = 3
    PlanReplicas = 2
    MaxLive = 3
    MaxOps = 6
    MaxFaults = 0
    MaxAutoScales = 0
    Configs <- OneOrTwo
    Counts = {1, 2}
    Subs = {s1, s2}
    Customers = {c1}
    Tasks = {h1, h2}
    None = None
    MaxEvents = 5
    MaxMishaps = 1
SYMMETRY AnyTaskOrSub
CHECK_DEADLOCK FALSE
PROPERTY GrowthWithinPlan
INVARIANT BillingTypeOK
INVARIANT ProWasPaid
INVARIANT PlanMatchesStatus
INVARIANT PlanFollowsStripe
