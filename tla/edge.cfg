SPECIFICATION EdgeSpec
CONSTANTS
    a1 = a1
    a2 = a2
    k1 = k1
    k2 = k2
    c1 = c1
    r1 = r1
    r2 = r2
    h1 = h1
    h2 = h2
    NoKey = NoKey
    Agents = {a1, a2}
    Keys = {k1, k2}
    Clients = {c1}
    Requests = {r1, r2}
    Handlers = {h1, h2}
    Rpm <- PlanRpm
    DefaultRpm = 2
    Limits = {1}
    WindowSeconds = 2
    PartsPerSecond = 2
    MaxTime = 4
    MaxRoutes = 3
    MaxOps = 3
    Users = {h1, h2}
    ApiKeys = {k1, k2}
    Callers = {r1, r2}
    Changes <- AdminChanges
    MaxCalls = 3
    MaxScripts = 1
SYMMETRY Symmetry
CHECK_DEADLOCK FALSE
INVARIANT TypeOK
INVARIANT RoutedWithPermission
INVARIANT AllowanceSpentByCallers
INVARIANT ServedWithinPlan
INVARIANT RetryAfterSuffices
INVARIANT PrivateComesWithKey
INVARIANT ActedWithAuthority
INVARIANT AdminRemains
