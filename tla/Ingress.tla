------------------------------- MODULE Ingress -------------------------------
(***************************************************************************)
(* The public URLs of one owner's agents: the edge's question `route'      *)
(* (routers/ingress.py), the two in-memory rate limits it goes through     *)
(* (security/ingress_limits.py), access keys (access_key_service.py), and  *)
(* the owner's requests that change what it decides on: creating, patching *)
(* and deleting an agent, creating and deleting its keys.                  *)
(*                                                                         *)
(* route has two awaits, the SELECT of the agent with its owner and, for a *)
(* private agent, the SELECT of the key; everything between them is one    *)
(* step.  What the first one returned is used after the second.            *)
(*                                                                         *)
(* Time is counted in parts of a second; windows follow the wall clock.    *)
(***************************************************************************)
EXTENDS Integers

CONSTANTS
    Agents,         \* agent ids, each given out once
    Keys,           \* access keys, each created at most once
    NoKey,          \* a request without a bearer token of the right form
    Clients,        \* client addresses
    Requests,       \* questions of the edge that can be in flight together
    Handlers,       \* requests of the owner that can be in flight together
    Rpm,            \* max_agent_rpm of each plan
    DefaultRpm,     \* settings.ingress_default_rpm_per_ip
    Limits,         \* the rate_limit_rpm owners choose
    WindowSeconds,  \* FixedWindowLimiter's window
    PartsPerSecond, \* the resolution of the clock
    MaxTime,        \* bound: the clock
    MaxRoutes,      \* bound: questions of the edge
    MaxOps          \* bound: owner's requests, changes of plan, restarts

\* What the owner's row says of the agent limit: the plan, or an admin's exemption.
Terms == {"free", "pro", "exempt"}
Unset == 0      \* rate_limit_rpm is NULL

ASSUME IngressAssumption ==
    /\ NoKey \notin Keys /\ {"none", "gone"} \cap Agents = {}
    /\ Rpm \in [{"free", "pro"} -> Nat] /\ DefaultRpm \in Nat \ {0} /\ Limits \subseteq Nat \ {0}
    /\ WindowSeconds \in Nat \ {0} /\ PartsPerSecond \in Nat \ {0}
    /\ MaxTime \in Nat /\ MaxRoutes \in Nat /\ MaxOps \in Nat

VARIABLES
    now,        \* time.time()
    agents,     \* rows of the agents table
    keys,       \* rows of agent_access_keys
    owner,      \* the owner's terms
    per_client, \* the limiter of (agent, client) pairs
    per_agent,  \* the limiter of agents
    req,        \* the edge's questions in flight
    api,        \* the owner's requests in flight
    spent,      \* history: requests of this window that both limits let through
    terms,      \* history: the owner's terms of this window, or held by a request in it
    excused,    \* history: agents whose creation failed, or whose owner locked them
                \* once they were created or deleted a key
    trespass,   \* history: a request was routed that was at no time permitted
    routes, ops

bounds == <<routes, ops>>
vars == <<now, agents, keys, owner, per_client, per_agent, req, api,
          spent, terms, excused, trespass, bounds>>

Row == [there : BOOLEAN, used : BOOLEAN, access : {"public", "private"},
        limit : Limits \cup {Unset}]
NoRow == [there |-> FALSE, used |-> FALSE, access |-> "private", limit |-> Unset]

Limiter(S) == [window : Int, counts : [S -> Nat]]
Empty(S) == [window |-> -1, counts |-> [s \in S |-> 0]]
Pairs == Agents \X Clients

Request == [on : BOOLEAN, agent : Agents, key : Keys, owner : Terms, ok : BOOLEAN]
Idle == [on |-> FALSE]
\* An owner's request: the await it is at, the columns its session loaded and those
\* it was sent.
Columns == [access : {"public", "private"}, limit : Limits \cup {Unset}]
Api == [pc : {"create", "first", "key", "unkey", "patch", "erase"},
        agent : Agents, key : Keys \cup {NoKey}, old : Columns, new : Columns]
Done == [pc |-> "idle"]

TypeOK ==
    /\ now \in Nat
    /\ agents \in [Agents -> Row]
    /\ keys \in [Keys -> {a \in Agents : agents[a].there} \cup {"none", "gone"}]
    /\ owner \in Terms /\ terms \in SUBSET Terms
    /\ per_client \in Limiter(Pairs) /\ per_agent \in Limiter(Agents)
    /\ req \in [Requests -> Request \cup {Idle}]
    /\ api \in [Handlers -> Api \cup {Done}]
    /\ spent \in [Agents -> Nat] /\ excused \in SUBSET Agents /\ trespass \in BOOLEAN
    /\ routes \in Nat /\ ops \in Nat

Init ==
    /\ now = 0
    /\ agents = [a \in Agents |-> NoRow] /\ keys = [k \in Keys |-> "none"]
    /\ owner = "free" /\ terms = {"free"}
    /\ per_client = Empty(Pairs) /\ per_agent = Empty(Agents)
    /\ req = [r \in Requests |-> Idle] /\ api = [h \in Handlers |-> Done]
    /\ spent = [a \in Agents |-> 0] /\ excused = {} /\ trespass = FALSE
    /\ routes = 0 /\ ops = 0

-----------------------------------------------------------------------------
(* FixedWindowLimiter *)

WindowParts == WindowSeconds * PartsPerSecond
Window == now \div WindowParts

\* Every window starts from an empty table, when its first hit comes.
Fresh(limiter) ==
    IF limiter.window = Window THEN limiter
    ELSE [window |-> Window, counts |-> [s \in DOMAIN limiter.counts |-> 0]]

\* Mutant of Full: one hit too many.
FullOffByOne(limiter, s, limit) == Fresh(limiter).counts[s] > limit

Full(limiter, s, limit) == Fresh(limiter).counts[s] >= limit

\* hit: the limiter after a hit of s, which is counted only if it is within the limit.
Hit(limiter, s, limit) ==
    IF Full(limiter, s, limit) THEN Fresh(limiter)
    ELSE [Fresh(limiter) EXCEPT !.counts[s] = @ + 1]

\* Mutant of RetryAfter: rounded down.
RetryAfterFloor ==
    LET left == (Window + 1) * WindowParts - now
    IN  IF left \div PartsPerSecond > 1 THEN left \div PartsPerSecond ELSE 1

\* What hit returns instead: the seconds until the window resets, rounded up.
RetryAfter ==
    LET left == (Window + 1) * WindowParts - now
        ceil == (left + PartsPerSecond - 1) \div PartsPerSecond
    IN  IF ceil > 1 THEN ceil ELSE 1

-----------------------------------------------------------------------------
(* route *)

Permits(rows, ks, a, k) == rows[a].access = "public" \/ (k # NoKey /\ ks[k] = a)

\* The requests in flight have seen the tables as `rows' and `ks'.
Witness(rows, ks) ==
    [r \in Requests |->
        IF req[r].on THEN [req[r] EXCEPT !.ok = @ \/ Permits(rows, ks, req[r].agent, req[r].key)]
                     ELSE req[r]]

Answer(r) == req' = [req EXCEPT ![r] = Idle]

\* From the key check on: the agent's limit, then 503 unless a container has an
\* address, or the request is counted and routed.
Admit(r, a, term, ok) ==
    LET refused == term # "exempt" /\ Full(per_agent, a, Rpm[term]) IN
    /\ per_agent' = IF term = "exempt" THEN per_agent ELSE Hit(per_agent, a, Rpm[term])
    /\ spent' = IF refused THEN spent ELSE [spent EXCEPT ![a] = @ + 1]
    /\ trespass' = (trespass \/ (~refused /\ ~ok))
    /\ Answer(r)

Refuse(r) == Answer(r) /\ UNCHANGED <<per_agent, spent, trespass>>

\* Mutant of Route: the agent's limit is asked before the key.
RouteAgentFirst(r, a, c, k) ==
    LET row == agents[a]
        limit == IF row.limit = Unset THEN DefaultRpm ELSE row.limit
    IN  /\ ~req[r].on /\ row.there /\ routes < MaxRoutes
        /\ per_client' = Hit(per_client, <<a, c>>, limit)
        /\ IF Full(per_client, <<a, c>>, limit)
           THEN Refuse(r)
           ELSE IF row.access = "public"
           THEN Admit(r, a, owner, TRUE)
           ELSE /\ per_agent' = IF owner = "exempt" THEN per_agent ELSE Hit(per_agent, a, Rpm[owner])
                /\ IF k = NoKey THEN Answer(r)
                   ELSE req' = [req EXCEPT ![r] = [on |-> TRUE, agent |-> a, key |-> k,
                                                   owner |-> owner, ok |-> keys[k] = a]]
                /\ UNCHANGED <<spent, trespass>>
        /\ routes' = routes + 1
        /\ UNCHANGED <<now, agents, keys, owner, api, terms, excused, ops>>

\* route once the agent and its owner are loaded: the caller's own limit comes
\* before the key, and a token of the wrong form is refused without a query.
Route(r, a, c, k) ==
    LET row == agents[a]
        limit == IF row.limit = Unset THEN DefaultRpm ELSE row.limit
    IN  /\ ~req[r].on /\ row.there /\ routes < MaxRoutes
        /\ per_client' = Hit(per_client, <<a, c>>, limit)
        /\ IF Full(per_client, <<a, c>>, limit) \/ (row.access = "private" /\ k = NoKey)
           THEN Refuse(r)
           ELSE IF row.access = "public"
           THEN Admit(r, a, owner, TRUE)
           ELSE /\ req' = [req EXCEPT ![r] = [on |-> TRUE, agent |-> a, key |-> k,
                                              owner |-> owner, ok |-> keys[k] = a]]
                /\ UNCHANGED <<per_agent, spent, trespass>>
        /\ routes' = routes + 1
        /\ UNCHANGED <<now, agents, keys, owner, api, terms, excused, ops>>

\* Mutant of is_valid_access_key: any agent's key will do.
AnyAccessKey(a, k) == keys[k] \in Agents

is_valid_access_key(a, k) == keys[k] = a

\* route once the key is looked up, with the agent and owner loaded before.
CheckKey(r) ==
    LET q == req[r] IN
    /\ q.on
    /\ IF is_valid_access_key(q.agent, q.key)
       THEN Admit(r, q.agent, q.owner, q.ok)
       ELSE Refuse(r)
    /\ UNCHANGED <<now, agents, keys, owner, per_client, api, terms, excused, bounds>>

-----------------------------------------------------------------------------
(* The owner's requests *)

\* The agent's row is loaded; the request goes on to its next await.
Begin(h, pc, a, k, old, new) ==
    /\ api[h] = Done /\ ops < MaxOps
    /\ api' = [api EXCEPT ![h] = [pc |-> pc, agent |-> a, key |-> k, old |-> old, new |-> new]]
    /\ ops' = ops + 1

Private == [access |-> "private", limit |-> Unset]

At(h, pc) == api[h].pc = pc
Goto(h, pc) == api' = [api EXCEPT ![h].pc = pc]
Return(h) == api' = [api EXCEPT ![h] = Done]

edgeVars == <<now, owner, per_client, per_agent, spent, terms, trespass, routes>>

\* create_agent: the INSERT.  The deployment, if any, is next; either way the row is
\* read again afterwards.
CreateAgent(h, a, access) ==
    /\ ~agents[a].used
    /\ Begin(h, "create", a, NoKey, Private, [Private EXCEPT !.access = access])
    /\ agents' = [agents EXCEPT ![a] = [NoRow EXCEPT !.there = TRUE, !.used = TRUE,
                                                     !.access = access]]
    /\ UNCHANGED <<edgeVars, keys, req, excused>>

\* The handlers that create agent a.
Creating(a) ==
    \E h \in Handlers : api[h].pc \in {"create", "first"} /\ api[h].agent = a

\* DeploymentFailedError leaves the router before the first key is made; so does a
\* quota or a build_path that is refused, or a database error.
CreateFails(h) ==
    /\ At(h, "create") \/ At(h, "first")
    /\ excused' = excused \cup {api[h].agent}
    /\ Return(h)
    /\ UNCHANGED <<edgeVars, agents, keys, req, ops>>

\* Mutant of FirstKey: looks at the access the caller asked for.
FirstKeyAsAsked(h) ==
    /\ At(h, "create")
    /\ IF agents[api[h].agent].there /\ api[h].new.access = "private"
       THEN Goto(h, "first")
       ELSE Return(h)
    /\ UNCHANGED <<edgeVars, agents, keys, req, excused, ops>>

\* create_agent refreshes the row; a private agent comes with its first key.
FirstKey(h) ==
    /\ At(h, "create")
    /\ IF agents[api[h].agent].there /\ agents[api[h].agent].access = "private"
       THEN Goto(h, "first")
       ELSE Return(h)
    /\ UNCHANGED <<edgeVars, agents, keys, req, excused, ops>>

CreateKey(h, a) ==
    /\ agents[a].there
    /\ Begin(h, "key", a, NoKey, Private, Private)
    /\ UNCHANGED <<edgeVars, agents, keys, req, excused>>

\* Mutant of InsertKey: no foreign key.
InsertKeyUnchecked(h, k) ==
    /\ At(h, "key") \/ At(h, "first")
    /\ keys[k] = "none"
    /\ keys' = [keys EXCEPT ![k] = api[h].agent]
    /\ req' = Witness(agents, keys')
    /\ Return(h)
    /\ UNCHANGED <<edgeVars, agents, excused, ops>>

\* create_access_key: the INSERT breaks the foreign key if the agent is gone.
InsertKey(h, k) ==
    /\ At(h, "key") \/ At(h, "first")
    /\ keys[k] = "none"
    /\ keys' = IF agents[api[h].agent].there THEN [keys EXCEPT ![k] = api[h].agent] ELSE keys
    /\ req' = Witness(agents, keys')
    /\ Return(h)
    /\ UNCHANGED <<edgeVars, agents, excused, ops>>

\* delete_access_key: a key of another agent is not found.
DeleteKey(h, a, k) ==
    /\ agents[a].there /\ keys[k] = a
    /\ Begin(h, "unkey", a, k, Private, Private)
    /\ UNCHANGED <<edgeVars, agents, keys, req, excused>>

RemoveKey(h) ==
    /\ At(h, "unkey")
    /\ keys' = [keys EXCEPT ![api[h].key] = "gone"]
    /\ excused' = excused \cup {api[h].agent}
    /\ Return(h)
    /\ UNCHANGED <<edgeVars, agents, req, ops>>

\* update_agent loads the row ...
Patch(h, a, access, limit) ==
    /\ agents[a].there
    /\ Begin(h, "patch", a, NoKey, [access |-> agents[a].access, limit |-> agents[a].limit],
                               [access |-> access, limit |-> limit])
    /\ UNCHANGED <<edgeVars, agents, keys, req, excused>>

\* ... and commits the columns it changed, unless the row is gone.
CommitPatch(h) ==
    LET old == api[h].old
        new == api[h].new
        a == api[h].agent
        row == [agents[a] EXCEPT !.access = IF new.access # old.access THEN new.access ELSE @,
                                 !.limit = IF new.limit # old.limit THEN new.limit ELSE @]
    IN  /\ At(h, "patch")
        /\ agents' = IF agents[a].there THEN [agents EXCEPT ![a] = row] ELSE agents
        /\ req' = Witness(agents', keys)
        /\ excused' = IF row.access = "private" /\ agents[a].access = "public" /\ ~Creating(a)
                      THEN excused \cup {a} ELSE excused
        /\ Return(h)
        /\ UNCHANGED <<edgeVars, keys, ops>>

\* delete_agent: the containers go first, then the row, and its keys with it.
DeleteAgent(h, a) ==
    /\ agents[a].there
    /\ Begin(h, "erase", a, NoKey, Private, Private)
    /\ UNCHANGED <<edgeVars, agents, keys, req, excused>>

EraseAgent(h) ==
    LET a == api[h].agent IN
    /\ At(h, "erase")
    /\ agents' = [agents EXCEPT ![a] = [NoRow EXCEPT !.used = TRUE]]
    /\ keys' = [k \in Keys |-> IF keys[k] = a THEN "gone" ELSE keys[k]]
    /\ Return(h)
    /\ UNCHANGED <<edgeVars, req, excused, ops>>

-----------------------------------------------------------------------------
(* The world around *)

\* The wall clock.  With a new window the history starts again, from the terms in
\* force and those a request in flight has read.
Clock ==
    LET next == (now + 1) \div WindowParts # Window IN
    /\ now < MaxTime /\ now' = now + 1
    /\ spent' = IF next THEN [a \in Agents |-> 0] ELSE spent
    /\ terms' = IF next THEN {owner} \cup {req[r].owner : r \in {q \in Requests : req[q].on}}
                        ELSE terms
    /\ UNCHANGED <<agents, keys, owner, per_client, per_agent, req, api, excused, trespass, bounds>>

\* A webhook or an admin changes the owner's plan or role.
OwnerChanges(term) ==
    /\ term # owner /\ ops < MaxOps /\ ops' = ops + 1
    /\ owner' = term /\ terms' = terms \cup {term}
    /\ UNCHANGED <<now, agents, keys, per_client, per_agent, req, api, spent, excused, trespass,
                   routes>>

\* A restart empties the limiters and ends what was in flight.
Restart ==
    /\ ops < MaxOps /\ ops' = ops + 1
    /\ per_client' = Empty(Pairs) /\ per_agent' = Empty(Agents)
    /\ req' = [r \in Requests |-> Idle] /\ api' = [h \in Handlers |-> Done]
    /\ spent' = [a \in Agents |-> 0] /\ terms' = {owner}
    /\ excused' = excused \cup {a \in Agents : Creating(a)}
    /\ UNCHANGED <<now, agents, keys, owner, trespass, routes>>

-----------------------------------------------------------------------------
OwnerRequest(h) ==
    \E a \in Agents :
        \/ \E access \in {"public", "private"} : CreateAgent(h, a, access)
        \/ \E access \in {"public", "private"}, limit \in Limits \cup {Unset} :
              Patch(h, a, access, limit)
        \/ \E k \in Keys : DeleteKey(h, a, k)
        \/ CreateKey(h, a) \/ DeleteAgent(h, a)

OwnerStep(h) ==
    \/ CreateFails(h) \/ FirstKey(h) \/ RemoveKey(h) \/ CommitPatch(h)
    \/ EraseAgent(h)
    \/ \E k \in Keys : InsertKey(h, k)

Next ==
    \/ \E r \in Requests :
         \/ \E a \in Agents, c \in Clients, k \in Keys \cup {NoKey} : Route(r, a, c, k)
         \/ CheckKey(r)
    \/ \E h \in Handlers : OwnerRequest(h) \/ OwnerStep(h)
    \/ Clock
    \/ \E term \in Terms : OwnerChanges(term)
    \/ Restart

Spec == Init /\ [][Next]_vars

-----------------------------------------------------------------------------
(* Properties *)

\* route reads the agent before it waits for the key, and owners lock agents and
\* delete keys meanwhile.  Even so no request is routed that was not permitted at
\* some time while it was in flight: the agent public, or its key one of the
\* agent's.  What was withdrawn before a request came in never lets it through.
RoutedWithPermission == ~trespass

\* ingress.py: callers without a key spend their own allowance rather than the one
\* the agent's real callers share.  What the agent's limiter has counted in this
\* window is no more than the requests that both limits let through, so a caller is
\* refused for the agent's limit only once the agent has served that many.
AllowanceSpentByCallers ==
    \A a \in Agents : per_agent.window = Window => per_agent.counts[a] <= spent[a]

\* plans.py: max_agent_rpm is what one agent's URL serves in a window, across all
\* callers.  It holds for the most generous terms that were in force in the window
\* or that a request still waiting for its key check had read before it began.
ServedWithinPlan ==
    "exempt" \notin terms =>
        \A a \in Agents : \E t \in terms : spent[a] <= Rpm[t]

\* FixedWindowLimiter.hit: a caller that waits the Retry-After it was given finds a
\* new window, and is never told to wait longer than a window.
RetryAfterSuffices ==
    /\ (now + RetryAfter * PartsPerSecond) \div WindowParts > Window
    /\ RetryAfter <= WindowSeconds

\* routers/agents.py: a private agent refuses every request until it has a key, so it
\* comes with its first one.  An agent that is private and has none was left so by a
\* creation that failed, or by its owner, or is still being created.
PrivateComesWithKey ==
    \A a \in Agents :
        agents[a].there /\ agents[a].access = "private" /\ (\A k \in Keys : keys[k] # a) =>
            a \in excused \/ Creating(a)
=============================================================================
