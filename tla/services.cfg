SPECIFICATION ServicesSpec
CONSTANTS
    v1 = v1
    v2 = v2
    Attempts = {s1, s2}
    MaxAllowed = 2
    LifeTime = 2
    MaxLogins = 5
    MaxRedisErrors = 1
    Metered = {1}
    Replicas = 1
    Interval = 1
    HourLength = 3
    MaxClock = 7
    MaxTickFaults = 2
    Values = {v0, v1, v2}
    Envs <- EnvLists
    ProviderKeys = {"P", "Q"}
    Provider = "P"
    ApiKey = v0
    Deploys = {d1, d2}
    MaxDeploys = 3
    ReplicaIds = {p1, p2}
    Limit = 2
    MaxLines = 4
    MaxPollErrors = 1
    Invites = {i1, i2}
    Emails = {e1, e2}
    Requests = {r1, r2}
    MaxUses = {1, 2}
    NoInvite = NoInvite
    NoAccount = NoAccount
    MaxFaults = 1
CHECK_DEADLOCK FALSE
INVARIANT UsesAreAccounts
INVARIANT WithinMaxUses
PROPERTY RevokedIsFinal
PROPERTY RequestsEnd
INVARIANT HourWithinTime
INVARIANT PeriodWithinTime
INVARIANT AttemptsWithinLimit
INVARIANT CounterWillEnd
INVARIANT ProviderKeyKept
INVARIANT RunsWhatWasSent
INVARIANT SentOnceInOrder
INVARIANT MissedOnlyInBurst
INVARIANT EveryAnswerHasItsId
INVARIANT LogTellsTheStatus
INVARIANT CodeOfNearestBase
