SPECIFICATION FairLogSpec
CONSTANTS
    ReplicaIds = {p1}
    Limit = 2
    MaxLines = 2
    MaxPollErrors = 1
CHECK_DEADLOCK FALSE
PROPERTY StreamOutlivesErrors
