-------------------------- MODULE MCRequestMetering --------------------------
EXTENDS RequestMetering

CONSTANTS k1, k2, u1, u2

\* Two agents of two accounts.
TwoOwners == [k \in {k1, k2} |-> IF k = k1 THEN u1 ELSE u2]
=============================================================================
