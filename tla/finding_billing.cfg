SPECIFICATION BillingSpec
CONSTANTS
    Subs = {s1}
    Customers = {c1}
    Tasks = {h1}
    None = None
    MaxEvents = 4
    MaxMishaps = 0
CHECK_DEADLOCK FALSE
INVARIANT PlanInSync
