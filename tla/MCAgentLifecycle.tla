-------------------------- MODULE MCAgentLifecycle --------------------------
EXTENDS AgentLifecycle, TLC

Cfg(replicas, auto, build) == [replicas |-> replicas, auto |-> auto, build |-> build]
OneOrTwo == {Cfg(1, FALSE, FALSE), Cfg(2, FALSE, FALSE)}
One == {Cfg(1, FALSE, FALSE)}
OneAuto == {Cfg(1, TRUE, FALSE)}
AutoOrBuild == {Cfg(1, TRUE, FALSE), Cfg(1, FALSE, TRUE)}
AutoOrLargerBuild == {Cfg(1, TRUE, FALSE), Cfg(2, FALSE, TRUE)}

\* Request slots are interchangeable.
AnyRequest == Permutations(Requests)
=============================================================================
