SPECIFICATION MeteringSpec
CONSTANTS
    k1 = k1
    k2 = k2
    u1 = u1
    u2 = u2
    Keys = {k1, k2}
    Users = {u1, u2}
    Owner <- TwoOwners
    MaxRequests = 1
    MaxFailures = 0
    MaxLostAcks = 0
    MaxStops = 1
PROPERTY GracefulStopLosesNothing
