----------------------------- MODULE MCServices -----------------------------
(***************************************************************************)
(* Six parts of the gateway that share no state with one another, in one   *)
(* model: `part' is the one that moves, the others stay as they began.     *)
(***************************************************************************)
EXTENDS Registration, LoginRateLimit, UsageClock, AgentEnv, LogStream, RequestPipeline

CONSTANTS v1, v2

VARIABLE part

ASSUME ServicesAssumption ==
    LoginConstantsOK /\ ClockConstantsOK /\ EnvConstantsOK /\ LogConstantsOK

\* A part that is not the one that moves begins in one of its initial states only.
ServicesInit ==
    /\ part \in {"registration", "login", "usage", "env", "log", "pipe"}
    /\ Init /\ LoginInit /\ ClockInit
    /\ EnvInit /\ LogInit /\ PipeInit
    /\ part # "registration" => mode = "closed"
    /\ part # "env" => DOMAIN wanted = {Provider} /\ wanted[Provider] = ApiKey
    /\ part # "pipe" => ~quiet

ServicesNext ==
    \/ part = "registration" /\ Next /\ UNCHANGED <<part, loginVars, clockVars, envVars, logVars, pipeVars>>
    \/ part = "login" /\ LoginNext /\ UNCHANGED <<part, vars, clockVars, envVars, logVars, pipeVars>>
    \/ part = "usage" /\ ClockNext /\ UNCHANGED <<part, vars, loginVars, envVars, logVars, pipeVars>>
    \/ part = "env" /\ EnvNext /\ UNCHANGED <<part, vars, loginVars, clockVars, logVars, pipeVars>>
    \/ part = "log" /\ LogNext /\ UNCHANGED <<part, vars, loginVars, clockVars, envVars, pipeVars>>
    \/ part = "pipe" /\ PipeNext /\ UNCHANGED <<part, vars, loginVars, clockVars, envVars, logVars>>

\* Registration's own fairness; the properties of the other parts are invariants.
ServicesSpec ==
    /\ ServicesInit /\ [][ServicesNext]_<<part, vars, loginVars, clockVars, envVars, logVars, pipeVars>>
    /\ \A r \in Requests : WF_vars(RequestStep(r))

-----------------------------------------------------------------------------
\* Nothing; a variable given twice; a secret with the provider key redefined; the
\* provider key alone; the key of another provider, with a variable.
EnvLists ==
    LET v(key, value, secret) == [key |-> key, value |-> value, secret |-> secret]
    IN  {<<>>, <<v("X", v1, TRUE), v("X", v2, FALSE)>>,
         <<v("X", v2, TRUE), v(Provider, v1, TRUE)>>, <<v(Provider, v2, FALSE)>>,
         <<v("Q", v2, TRUE), v("X", v1, FALSE)>>}
=============================================================================
