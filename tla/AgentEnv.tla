------------------------------ MODULE AgentEnv ------------------------------
(***************************************************************************)
(* An agent's environment variables, from the caller's DeployConfig to the *)
(* container (agent_service.py): stored with the secrets encrypted and     *)
(* decrypted for the container.  The key of the LLM provider, given once   *)
(* when the agent is created, is stored among them.  A deployment carries  *)
(* over what is stored under the name of any provider's key and not        *)
(* redefined, whoever sent it.                                             *)
(*                                                                         *)
(* A deployment reads the row, commits its own environment, reads the row  *)
(* again and hands it to the runtime, with awaits in between.              *)
(***************************************************************************)
EXTENDS Integers, Sequences, Selection

CONSTANTS
    Values,         \* values of variables
    Envs,           \* the env lists of the DeployConfigs callers send
    ProviderKeys,   \* the names that providers' keys go by (_PROVIDER_KEY_ENV.values())
    Provider,       \* the one of this agent's model
    ApiKey,         \* AgentConfigIn.api_key
    Deploys,        \* deployments that can be in flight together
    MaxDeploys      \* bound: deployments

EnvVar == [key : STRING, value : Values, secret : BOOLEAN]
EnvConstantsOK ==
    /\ Envs \subseteq Seq(EnvVar) /\ ApiKey \in Values
    /\ Provider \in ProviderKeys /\ ProviderKeys \subseteq STRING

Nothing == <<>>     \* a deployment without a DeployConfig

VARIABLES
    row,        \* agents.env
    dep,        \* deployments in flight: the await, the config sent, the env held
    running,    \* the environments that containers run with
    wanted,     \* history: what the configs sent so far ask for
    fresh,      \* history: containers were started since the latest config
    overlapped, \* history: two deployments were in flight together
    deploys

envVars == <<row, dep, running, wanted, fresh, overlapped, deploys>>

-----------------------------------------------------------------------------
(* Conversions *)

encrypt_secret(v) == [cipher |-> v]
decrypt_secret(c) == c.cipher

_env_to_storage(env) ==
    [i \in DOMAIN env |->
        IF env[i].secret THEN [env[i] EXCEPT !.value = encrypt_secret(@)] ELSE env[i]]

Names(env) == {env[i].key : i \in DOMAIN env}

\* Where env names n last.
LastAt(env, n) ==
    CHOOSE i \in DOMAIN env :
        env[i].key = n /\ \A j \in DOMAIN env : env[j].key = n => j <= i

\* Of two entries with one name the container sees the later one.
_env_for_container(stored) ==
    [n \in Names(stored) |->
        LET e == stored[LastAt(stored, n)]
        IN  IF e.secret THEN decrypt_secret(e.value) ELSE e.value]

\* Mutant of _apply_deploy_config: what is redefined is kept all the same.
_apply_keeping_all(stored, env) ==
    _env_to_storage(env) \o Keep(stored, {i \in DOMAIN stored : stored[i].key \in ProviderKeys})

\* Mutant of _apply_deploy_config: nothing is kept.
_apply_keeping_none(stored, env) == _env_to_storage(env)

_apply_deploy_config(stored, env) ==
    LET kept == {i \in DOMAIN stored : stored[i].key \in ProviderKeys \ Names(env)}
    IN  _env_to_storage(env) \o Keep(stored, kept)

_with_provider_key(stored) ==
    Keep(stored, {i \in DOMAIN stored : stored[i].key # Provider})
        \o <<[key |-> Provider, value |-> encrypt_secret(ApiKey), secret |-> TRUE]>>

-----------------------------------------------------------------------------
\* What a caller who sends env on top of `old' gets: for every name the last value
\* sent and, unless env names them, the providers' keys as they were.
Want(old, env) ==
    [n \in Names(env) \cup (ProviderKeys \cap DOMAIN old) |->
        IF n \in Names(env) THEN env[LastAt(env, n)].value ELSE old[n]]

NoDeploy == [pc |-> "idle"]
InFlight == \E d \in Deploys : dep[d] # NoDeploy

\* create_agent with an api_key and the env of its DeployConfig.
EnvInit ==
    \E env \in Envs :
        /\ row = _with_provider_key(_apply_deploy_config(<<>>, env))
        /\ wanted = [Want([n \in {Provider} |-> ApiKey], env) EXCEPT ![Provider] = ApiKey]
        /\ dep = [d \in Deploys |-> NoDeploy] /\ running = {}
        /\ fresh = FALSE /\ overlapped = FALSE /\ deploys = 0

\* deploy_agent loads the row, and applies the config if one is sent ...
BeginDeploy(d, config, env) ==
    /\ dep[d] = NoDeploy /\ deploys < MaxDeploys /\ deploys' = deploys + 1
    /\ dep' = [dep EXCEPT ![d] =
                IF config
                THEN [pc |-> "commit", sent |-> env, loaded |-> row,
                      env |-> _apply_deploy_config(row, env)]
                ELSE [pc |-> "start", env |-> row]]
    /\ overlapped' = (overlapped \/ InFlight)
    /\ UNCHANGED <<row, running, wanted, fresh>>

\* ... unless ensure_resources finds that it does not fit the plan ...
RefuseDeploy(d) ==
    /\ dep[d].pc = "commit"
    /\ dep' = [dep EXCEPT ![d] = NoDeploy]
    /\ UNCHANGED <<row, running, wanted, fresh, overlapped, deploys>>

\* ... commits it: the session writes the column only if its value is not the one it
\* loaded, which a value encrypted anew never is ...
CommitConfig(d) ==
    LET c == dep[d]
        changed == c.env # c.loaded \/ \E i \in DOMAIN c.sent : c.sent[i].secret
    IN  /\ c.pc = "commit"
        /\ row' = IF changed THEN c.env ELSE row
        /\ dep' = [dep EXCEPT ![d] = [pc |-> "refresh"]]
        /\ wanted' = Want(wanted, c.sent) /\ fresh' = FALSE
        /\ UNCHANGED <<running, overlapped, deploys>>

\* ... reads the row again ...
RefreshConfig(d) ==
    /\ dep[d].pc = "refresh"
    /\ dep' = [dep EXCEPT ![d] = [pc |-> "start", env |-> row]]
    /\ UNCHANGED <<row, running, wanted, fresh, overlapped, deploys>>

\* ... and starts containers with what it has loaded.
StartContainers(d) ==
    /\ dep[d].pc = "start"
    /\ running' = {_env_for_container(dep[d].env)}
    /\ dep' = [dep EXCEPT ![d] = NoDeploy] /\ fresh' = TRUE
    /\ UNCHANGED <<row, wanted, overlapped, deploys>>

\* A deployment that the plan or the runtime refuses; the runtime may have stopped the
\* old containers by then.
DeployFails(d, stopped) ==
    /\ dep[d].pc = "start"
    /\ running' = IF stopped THEN {} ELSE running
    /\ dep' = [dep EXCEPT ![d] = NoDeploy] /\ fresh' = (fresh /\ ~stopped)
    /\ UNCHANGED <<row, wanted, overlapped, deploys>>

EnvNext ==
    \E d \in Deploys :
        \/ \E env \in Envs : BeginDeploy(d, TRUE, env)
        \/ BeginDeploy(d, FALSE, Nothing)
        \/ RefuseDeploy(d) \/ CommitConfig(d) \/ RefreshConfig(d) \/ StartContainers(d)
        \/ \E stopped \in BOOLEAN : DeployFails(d, stopped)

EnvSpec == EnvInit /\ [][EnvNext]_envVars

-----------------------------------------------------------------------------
\* agent_service.py: a redeploy must not drop the provider key.  However deployments
\* overlap and fail, the row always has one and so has every container.
ProviderKeyKept ==
    Provider \in Names(row) /\ \A env \in running : Provider \in DOMAIN env

\* Encrypted, carried over and decrypted, each variable of the latest config reaches
\* the containers with the value last given for it, and so does every provider's key
\* given earlier, the agent's own or another's; nothing else does.  This holds across
\* failed and repeated deployments, as long as those of the agent do not overlap.
RunsWhatWasSent == fresh /\ ~overlapped => running = {wanted}
=============================================================================
