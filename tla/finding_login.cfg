SPECIFICATION LoginFairSpec
CONSTANTS
    Attempts = {s1, s2}
    MaxAllowed = 2
    LifeTime = 2
    MaxLogins = 5
    MaxRedisErrors = 1
CHECK_DEADLOCK FALSE
PROPERTY BlockedClientRecovers
