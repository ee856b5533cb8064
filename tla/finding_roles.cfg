SPECIFICATION AccessSpec
CONSTANTS
    Users = {u1, u2}
    ApiKeys = {k1}
    Callers = {r1}
    Changes = {}
    MaxCalls = 2
    MaxScripts = 1
CHECK_DEADLOCK FALSE
PROPERTY KeysNeedDeveloper
