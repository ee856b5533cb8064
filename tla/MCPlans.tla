------------------------------- MODULE MCPlans -------------------------------
(***************************************************************************)
(* The plan of an account: which one it has (Billing) and what its agents  *)
(* may use under it when nothing overlaps (AgentLifecycle, SerialNext).    *)
(* The two share no state: `part' is the one that moves.                   *)
(***************************************************************************)
EXTENDS MCAgentLifecycle, Billing

VARIABLE part

PlansInit == part \in {"billing", "agents"} /\ BillingInit /\ Init

PlansNext ==
    \/ part = "billing" /\ BillingNext /\ UNCHANGED <<part, vars>>
    \/ part = "agents" /\ SerialNext /\ UNCHANGED <<part, billingVars>>

PlansSpec == PlansInit /\ [][PlansNext]_<<part, vars, billingVars>>

\* Billing's requests are interchangeable, and so are subscriptions.
AnyTaskOrSub == Permutations(Tasks) \cup Permutations(Subs)
=============================================================================
