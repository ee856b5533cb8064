------------------------------- MODULE MCEdge -------------------------------
(***************************************************************************)
(* The two places where the gateway decides who may call: the public URLs  *)
(* of agents (Ingress) and its own API (AccessControl).  They share no     *)
(* state: `part' is the one that moves, the other stays as it began.       *)
(***************************************************************************)
EXTENDS Ingress, AccessControl, TLC

CONSTANTS
    a1, a2, k1, k2, c1, r1, r2, h1, h2

VARIABLE part

ASSUME EdgeAssumption == AccessConstantsOK

EdgeInit ==
    /\ part \in {"ingress", "access"}
    /\ Init /\ AccessInit
    /\ part # "access" => \A u \in Users : users[u].role = 3

EdgeNext ==
    \/ part = "ingress" /\ Next /\ UNCHANGED <<part, accessVars>>
    \/ part = "access" /\ AccessNext /\ UNCHANGED <<part, vars>>

EdgeSpec == EdgeInit /\ [][EdgeNext]_<<part, vars, accessVars>>

-----------------------------------------------------------------------------
\* One request a window and agent on the free plan, two on the pro plan.
PlanRpm == [free |-> 1, pro |-> 2]

\* Demote, deactivate and activate; the script promotes.
AdminChanges == {[role |-> 1, active |-> "keep"], [role |-> 0, active |-> "no"],
                 [role |-> 0, active |-> "yes"]}

\* No definition tells two agents, users, keys, requests or handlers apart.
Symmetry == Permutations({a1, a2}) \cup Permutations({k1, k2})
            \cup Permutations({r1, r2}) \cup Permutations({h1, h2})
=============================================================================
