----------------------------- MODULE MCRecovery -----------------------------
(***************************************************************************)
(* What the scheduler's ticks make good in the end: agents and containers  *)
(* (AgentLifecycle) and the counts of routed requests (RequestMetering).   *)
(* The two share no state: `part' is the one that moves.                   *)
(***************************************************************************)
EXTENDS MCAgentLifecycle, MCRequestMetering

VARIABLE part

RecoveryInit == part \in {"agents", "metering"} /\ Init /\ MeteringInit

RecoveryNext ==
    \/ part = "agents" /\ Next /\ UNCHANGED <<part, meteringVars>>
    \/ part = "metering" /\ MeteringNext /\ UNCHANGED <<part, vars>>

\* The fairness of the two parts, FairSpec and FairMeteringSpec.  A step of the one that
\* does not move cannot be taken, although its own conditions may hold.
Moves(which, action) == part = which /\ action /\ UNCHANGED part
RecoverySpec ==
    /\ RecoveryInit /\ [][RecoveryNext]_<<part, vars, meteringVars>>
    /\ \A r \in Requests : WF_vars(Moves("agents", RequestStep(r)))
    /\ WF_vars(Moves("agents", SchedulerStep))
    /\ WF_meteringVars(Moves("metering", FlushStep))
    /\ WF_meteringVars(Moves("metering", Tick))
    /\ WF_meteringVars(Moves("metering", ShutdownFlush))
    /\ WF_meteringVars(Moves("metering", Restart))
=============================================================================
