---------------------------- MODULE AgentLifecycle ----------------------------
(***************************************************************************)
(* The control plane of one account: its rows of the agents table, the     *)
(* containers that run for them, the API handlers that create, deploy,     *)
(* scale and delete agents (services/agent_service.py), the plan's quota   *)
(* (services/quota_service.py) and the scheduler's tick (scheduler.py).    *)
(*                                                                         *)
(* Handlers and tick are asyncio tasks of one process: they interleave at  *)
(* every await, so every await is a step.  Each has its own database       *)
(* session and works on the row as it was when the session loaded it; a    *)
(* commit sends only the columns whose value differs from the loaded one,  *)
(* and fails if the row has been deleted.  Container operations run in a   *)
(* thread (runtime.py) and take effect while the task waits.               *)
(*                                                                         *)
(* One replica is the unit of the quota: the vCPU and memory limits have   *)
(* the same shape as the replica limit.                                    *)
(***************************************************************************)
EXTENDS Integers, FiniteSets, Functions

CONSTANTS
    Agents,         \* agent ids, each given out once
    NoAgent,        \* the agent of an idle request slot
    Requests,       \* API requests that can be in flight together
    PlanAgents,     \* plan limit: agents
    PlanReplicas,   \* plan limit: running replicas
    Configs,        \* the DeployConfigs callers send
    Counts,         \* the counts of scale requests
    MaxLive,        \* bound: containers of one agent
    MaxOps,         \* bound: API requests
    MaxFaults,      \* bound: container deaths, runtime errors, crashes
    MaxAutoScales   \* bound: auto-scaling decisions that change something

\* DeployConfig as far as the control plane looks at it.  build: no image but a
\* build_path, which the gateway refuses.
Config == [replicas : Nat \ {0}, auto : BOOLEAN, build : BOOLEAN]
NoConfig == [replicas |-> 0, auto |-> FALSE, build |-> FALSE]

ASSUME AgentsAssumption == IsFiniteSet(Agents) /\ NoAgent \notin Agents
ASSUME InputsAssumption == Configs \subseteq Config /\ Counts \subseteq Nat \ {0}
ASSUME BoundsAssumption ==
    /\ PlanAgents \in Nat /\ PlanReplicas \in Nat /\ MaxLive \in Nat
    /\ MaxOps \in Nat /\ MaxFaults \in Nat /\ MaxAutoScales \in Nat

VARIABLES
    rows,       \* the agents table
    live,       \* containers running in Docker, per agent
    known,      \* agents whose containers the AgentRuntime tracks
    req,        \* the API requests in flight
    sched,      \* the scheduler task
    excused,    \* history: agents deleted while another request was at work on
                \* them, or while the runtime did not track their containers
    ops, faults, autoScales

bounds == <<ops, faults, autoScales>>
vars == <<rows, live, known, req, sched, excused, bounds>>

\* "none": not inserted yet; "deleted": the row is gone.
Status == {"none", "pending", "starting", "running", "scaling",
           "stopped", "failed", "crashed", "deleted"}
\* Mutant of Active: "starting" is forgotten.
ActiveWithoutStarting == {"running", "scaling"}

\* _ACTIVE_STATUSES / ACTIVE_STATUSES.
Active == {"running", "scaling", "starting"}

Row == [status : Status, replicas : Nat, auto : BOOLEAN, build : BOOLEAN]
NoRow == [status |-> "none", replicas |-> 0, auto |-> FALSE, build |-> FALSE]
Exists(a) == rows[a].status \notin {"none", "deleted"}

\* A request: which await it is at, what it was asked, the row its session holds.
Request == [pc : {"idle", "resources", "insert", "quota", "apply", "refresh", "start",
                  "runtime", "finish", "fail", "erase"},
            op : {"none", "create", "deploy", "up", "down", "delete"},
            agent : Agents \cup {NoAgent},
            config : Config \cup {NoConfig},
            count : Nat,
            row : Row]
Idle == [pc |-> "idle", op |-> "none", agent |-> NoAgent,
         config |-> NoConfig, count |-> 0, row |-> NoRow]

\* The scheduler: the rows its session loaded, the agents of this tick still to
\* come, the agent it is at and what the health check reported of it.
Scheduler == [pc : {"next", "sync", "headroom", "autoscale"},
              loaded : SUBSET Agents, todo : SUBSET Agents,
              agent : Agents \cup {NoAgent},
              row : [Agents -> Row],
              seen : Nat, down : BOOLEAN]
Resting == [pc |-> "next", loaded |-> {}, todo |-> {}, agent |-> NoAgent,
            row |-> [a \in Agents |-> NoRow], seen |-> 0, down |-> FALSE]

TypeOK ==
    /\ rows \in [Agents -> Row]
    /\ live \in [Agents -> Nat]
    /\ known \in SUBSET Agents
    /\ req \in [Requests -> Request]
    /\ \A r \in Requests : req[r].pc # "idle" => req[r].agent \in Agents
    /\ sched \in Scheduler
    /\ sched.pc # "next" => sched.agent \in Agents
    /\ excused \in SUBSET Agents
    /\ ops \in Nat /\ faults \in Nat /\ autoScales \in Nat

Init ==
    /\ rows = [a \in Agents |-> NoRow]
    /\ live = [a \in Agents |-> 0]
    /\ known = Agents
    /\ req = [r \in Requests |-> Idle]
    /\ sched = Resting
    /\ excused = {}
    /\ ops = 0 /\ faults = 0 /\ autoScales = 0

-----------------------------------------------------------------------------
(* The database session *)

\* The row after UPDATE SET of the columns the session changed.
Merge(row, loaded, new) ==
    [status   |-> IF new.status # loaded.status THEN new.status ELSE row.status,
     replicas |-> IF new.replicas # loaded.replicas THEN new.replicas ELSE row.replicas,
     auto     |-> IF new.auto # loaded.auto THEN new.auto ELSE row.auto,
     build    |-> IF new.build # loaded.build THEN new.build ELSE row.build]

\* The commit goes through: nothing to send, or the row is still there
\* (otherwise SQLAlchemy raises StaleDataError).
CanSave(a, loaded, new) == new = loaded \/ Exists(a)

Save(a, loaded, new) ==
    rows' = IF CanSave(a, loaded, new)
            THEN [rows EXCEPT ![a] = Merge(@, loaded, new)]
            ELSE rows

(* Quota *)

\* Replicas held by the account's active agents other than those of `except'.
CurrentUsage(except) ==
    SumFunctionOnSet([a \in Agents |-> rows[a].replicas],
                     {a \in Agents \ except : rows[a].status \in Active})

\* Mutant of EnsureResources: off by one.
EnsureResourcesOffByOne(except, replicas) == CurrentUsage(except) + replicas <= PlanReplicas + 1

EnsureResources(except, replicas) == CurrentUsage(except) + replicas <= PlanReplicas

EnsureCanCreateAgent == Cardinality({a \in Agents : Exists(a)}) + 1 <= PlanAgents

\* In the scheduler's session the query returns the rows that are active now, but
\* the objects it loaded at the start of the tick keep the values they had.
HasHeadroomForReplica(a) ==
    SumFunctionOnSet([b \in Agents |-> IF b \in sched.loaded THEN sched.row[b].replicas
                                                             ELSE rows[b].replicas],
                     {b \in Agents \ {a} : rows[b].status \in Active})
        + sched.row[a].replicas + 1 <= PlanReplicas

(* The runtime *)

\* get_containers / health_check: the containers the runtime knows of.
Reported(a) == IF a \in known THEN live[a] ELSE 0

-----------------------------------------------------------------------------
(* API handlers.  A step is the code between two awaits. *)

At(r, pc) == req[r].pc = pc
Goto(r, q) == req' = [req EXCEPT ![r] = q]
Return(r) == Goto(r, Idle)

\* Another request works on agent a, and it or the new one deletes it.
Overlaps(a, op) == \E q \in Requests : req[q].agent = a /\ "delete" \in {op, req[q].op}

\* create_agent up to its second await: the agent limit.  The new id is random.
BeginCreate(r, a, config) ==
    /\ At(r, "idle") /\ ops < MaxOps
    /\ rows[a].status = "none" /\ \A q \in Requests : req[q].agent # a
    /\ EnsureCanCreateAgent
    /\ Goto(r, [pc |-> IF config = NoConfig THEN "insert" ELSE "resources",
                op |-> "create", agent |-> a, config |-> config, count |-> 0, row |-> NoRow])
    /\ ops' = ops + 1
    /\ UNCHANGED <<rows, live, known, sched, excused, faults, autoScales>>

\* create_agent: resources are checked before inserting.
CheckResources(r) ==
    /\ At(r, "resources")
    /\ IF EnsureResources({}, req[r].config.replicas)
       THEN Goto(r, [req[r] EXCEPT !.pc = "insert"])
       ELSE Return(r)
    /\ UNCHANGED <<rows, live, known, sched, excused, bounds>>

\* create_agent: INSERT with status "pending"; with a config, on to deploy_agent.
Insert(r) ==
    LET q == req[r]
        row == [status |-> "pending", replicas |-> q.config.replicas,
                auto |-> q.config.auto, build |-> q.config.build]
    IN  /\ At(r, "insert")
        /\ rows' = [rows EXCEPT ![q.agent] = row]
        /\ IF q.config = NoConfig
           THEN Return(r)
           ELSE Goto(r, [q EXCEPT !.pc = "quota", !.row = row])
        /\ UNCHANGED <<live, known, sched, excused, bounds>>

\* deploy_agent, scale_agent and delete_agent read the row first.  Scaling down
\* and deleting ask no quota.
Begin(r, op, a, config, count) ==
    /\ At(r, "idle") /\ ops < MaxOps
    /\ Exists(a)
    /\ Goto(r, [pc |-> CASE op = "down"   -> "start"
                         [] op = "delete" -> "runtime"
                         [] OTHER         -> "quota",
                op |-> op, agent |-> a, config |-> config, count |-> count, row |-> rows[a]])
    /\ excused' = IF Overlaps(a, op) THEN excused \cup {a} ELSE excused
    /\ ops' = ops + 1
    /\ UNCHANGED <<rows, live, known, sched, faults, autoScales>>

\* The replicas the request would have its agent run.
Wanted(q) ==
    CASE q.op = "up"                              -> q.row.replicas + q.count
      [] q.op = "deploy" /\ q.config # NoConfig   -> q.config.replicas
      [] OTHER                                    -> q.row.replicas

\* ensure_resources; then deploy_agent applies a new config or, without one,
\* refuses an agent that would have to be built.  On the way from create_agent
\* the row is looked up again and may be gone.
Quota(r) ==
    LET q == req[r] IN
    /\ At(r, "quota")
    /\ IF \/ ~EnsureResources({q.agent}, Wanted(q))
          \/ q.op = "create" /\ ~Exists(q.agent)
       THEN Return(r)
       ELSE IF q.op = "deploy" /\ q.config # NoConfig
       THEN Goto(r, [q EXCEPT !.pc = "apply"])
       ELSE IF q.op # "up" /\ q.row.build
       THEN Return(r)
       ELSE Goto(r, [q EXCEPT !.pc = "start"])
    /\ UNCHANGED <<rows, live, known, sched, excused, bounds>>

\* deploy_agent: _apply_deploy_config and commit.
Apply(r) ==
    LET q == req[r]
        new == [q.row EXCEPT !.replicas = q.config.replicas, !.auto = q.config.auto,
                             !.build = q.config.build]
    IN  /\ At(r, "apply")
        /\ Save(q.agent, q.row, new)
        /\ IF CanSave(q.agent, q.row, new)
           THEN Goto(r, [q EXCEPT !.pc = "refresh"])
           ELSE Return(r)
        /\ UNCHANGED <<live, known, sched, excused, bounds>>

\* deploy_agent: refresh, then refuse a build_path without image.
Refresh(r) ==
    LET q == req[r] IN
    /\ At(r, "refresh")
    /\ IF Exists(q.agent) /\ ~rows[q.agent].build
       THEN Goto(r, [q EXCEPT !.pc = "start", !.row = rows[q.agent]])
       ELSE Return(r)
    /\ UNCHANGED <<rows, live, known, sched, excused, bounds>>

\* Mutant of Start: the status is set but not committed.
StartUncommitted(r) ==
    LET q == req[r]
        new == [q.row EXCEPT !.status = IF q.op \in {"up", "down"} THEN "scaling"
                                                                   ELSE "starting"]
    IN  /\ At(r, "start")
        /\ Goto(r, [q EXCEPT !.pc = "runtime", !.row = new])
        /\ UNCHANGED <<rows, live, known, sched, excused, bounds>>

\* Commit "starting" or "scaling" before Docker is touched.
Start(r) ==
    LET q == req[r]
        new == [q.row EXCEPT !.status = IF q.op \in {"up", "down"} THEN "scaling"
                                                                   ELSE "starting"]
    IN  /\ At(r, "start")
        /\ Save(q.agent, q.row, new)
        /\ IF CanSave(q.agent, q.row, new)
           THEN Goto(r, [q EXCEPT !.pc = "runtime", !.row = new])
           ELSE Return(r)
        /\ UNCHANGED <<live, known, sched, excused, bounds>>

\* AgentRuntime.deploy: the agent's containers are replaced by the number asked.
RuntimeDeploys(r) ==
    LET q == req[r] IN
    /\ At(r, "runtime") /\ q.op \in {"create", "deploy"}
    /\ live' = [live EXCEPT ![q.agent] = q.row.replicas]
    /\ known' = known \cup {q.agent}
    /\ Goto(r, [q EXCEPT !.pc = "finish", !.count = q.row.replicas])
    /\ UNCHANGED <<rows, sched, excused, bounds>>

\* AgentRuntime.deploy raises: the old containers are still there, or not.
RuntimeDeployFails(r) ==
    LET q == req[r] IN
    /\ At(r, "runtime") /\ q.op \in {"create", "deploy"}
    /\ faults < MaxFaults /\ faults' = faults + 1
    /\ \E left \in {0, live[q.agent]} : live' = [live EXCEPT ![q.agent] = left]
    /\ Goto(r, [q EXCEPT !.pc = "fail"])
    /\ UNCHANGED <<rows, known, sched, excused, ops, autoScales>>

\* deploy_agent's success path.
FinishDeploy(r) ==
    LET q == req[r]
        new == [q.row EXCEPT !.status = "running", !.replicas = q.count]
    IN  /\ At(r, "finish") /\ q.op \in {"create", "deploy"}
        /\ Save(q.agent, q.row, new)
        /\ Return(r)
        /\ UNCHANGED <<live, known, sched, excused, bounds>>

\* Mutant of Fail: a status that AgentStatus does not have.
FailWithUnknownStatus(r) ==
    LET q == req[r] IN
    /\ At(r, "fail")
    /\ Save(q.agent, q.row, [q.row EXCEPT !.status = "error"])
    /\ Return(r)
    /\ UNCHANGED <<live, known, sched, excused, bounds>>

\* The exception paths of deploy_agent and scale_agent.
Fail(r) ==
    LET q == req[r] IN
    /\ At(r, "fail")
    /\ Save(q.agent, q.row, [q.row EXCEPT !.status = "failed"])
    /\ Return(r)
    /\ UNCHANGED <<live, known, sched, excused, bounds>>

\* What AgentRuntime.scale refuses: no containers to scale (ContainerNotFoundError),
\* more removed than there are or no room for more (ScalingError).
Scaled(q) == IF q.op = "up" THEN live[q.agent] + q.count ELSE live[q.agent] - q.count
CanScale(q) == Reported(q.agent) > 0 /\ Scaled(q) \in 0 .. MaxLive

RuntimeScales(r) ==
    LET q == req[r] IN
    /\ At(r, "runtime") /\ q.op \in {"up", "down"}
    /\ IF CanScale(q)
       THEN /\ live' = [live EXCEPT ![q.agent] = Scaled(q)]
            /\ Goto(r, [q EXCEPT !.pc = "finish"])
       ELSE /\ Goto(r, [q EXCEPT !.pc = "fail"])
            /\ UNCHANGED live
    /\ UNCHANGED <<rows, known, sched, excused, bounds>>

\* scale_agent's success path: replicas = len(live_containers) or agent.replicas.
FinishScale(r) ==
    LET q == req[r]
        found == Reported(q.agent)
        new == [q.row EXCEPT !.status = "running",
                             !.replicas = IF found > 0 THEN found ELSE q.row.replicas]
    IN  /\ At(r, "finish") /\ q.op \in {"up", "down"}
        /\ Save(q.agent, q.row, new)
        /\ Return(r)
        /\ UNCHANGED <<live, known, sched, excused, bounds>>

\* Mutant of RuntimeRemoves: one replica is removed instead of all.
RuntimeRemovesOne(r) ==
    LET q == req[r] IN
    /\ At(r, "runtime") /\ q.op = "delete"
    /\ IF q.agent \in known
       THEN live' = [live EXCEPT ![q.agent] = IF @ > 0 THEN @ - 1 ELSE 0] /\ UNCHANGED excused
       ELSE excused' = excused \cup {q.agent} /\ UNCHANGED live
    /\ Goto(r, [q EXCEPT !.pc = "erase"])
    /\ UNCHANGED <<rows, known, sched, bounds>>

\* delete_agent: AgentRuntime.remove takes away the containers it knows of.
RuntimeRemoves(r) ==
    LET q == req[r] IN
    /\ At(r, "runtime") /\ q.op = "delete"
    /\ IF q.agent \in known
       THEN live' = [live EXCEPT ![q.agent] = 0] /\ UNCHANGED excused
       ELSE excused' = excused \cup {q.agent} /\ UNCHANGED live
    /\ Goto(r, [q EXCEPT !.pc = "erase"])
    /\ UNCHANGED <<rows, known, sched, bounds>>

\* delete_agent: DELETE; a row that is gone already is only warned about.
Erase(r) ==
    LET q == req[r] IN
    /\ At(r, "erase")
    /\ rows' = [rows EXCEPT ![q.agent] = [NoRow EXCEPT !.status = "deleted"]]
    /\ Return(r)
    /\ UNCHANGED <<live, known, sched, excused, bounds>>

\* An exception no handler catches: the database fails at some await, or the
\* runtime with anything but the two errors scale_agent expects.
RequestAborts(r) ==
    /\ ~At(r, "idle")
    /\ ~(At(r, "runtime") /\ req[r].op \in {"create", "deploy"})
    /\ faults < MaxFaults /\ faults' = faults + 1
    /\ Return(r)
    /\ UNCHANGED <<rows, live, known, sched, excused, ops, autoScales>>

-----------------------------------------------------------------------------
(* The scheduler's tick *)

\* On to the next agent with the session's rows as they are in `row'; after the
\* last agent the session is closed.
NextAgent(row) ==
    LET rest == sched.todo \ {sched.agent} IN
    sched' = IF rest = {}
             THEN Resting
             ELSE [sched EXCEPT !.pc = "next", !.todo = rest, !.agent = NoAgent,
                                !.row = row, !.seen = 0, !.down = FALSE]

\* _tick: load every agent the database thinks is active.
TickBegins ==
    LET active == {a \in Agents : rows[a].status \in Active} IN
    /\ sched = Resting
    /\ sched' = [Resting EXCEPT !.loaded = active, !.todo = active,
                                !.row = [a \in Agents |-> IF a \in active THEN rows[a] ELSE NoRow]]
    /\ UNCHANGED <<rows, live, known, req, excused, bounds>>

HealthCheck(a) ==
    /\ sched.pc = "next" /\ a \in sched.todo
    /\ sched' = [sched EXCEPT !.pc = "sync", !.agent = a, !.seen = Reported(a)]
    /\ UNCHANGED <<rows, live, known, req, excused, bounds>>

\* Unhealthy, and for the third time in a row.
HealthCheckFindsDown(a) ==
    /\ sched.pc = "next" /\ a \in sched.todo /\ Reported(a) > 0
    /\ faults < MaxFaults /\ faults' = faults + 1
    /\ sched' = [sched EXCEPT !.pc = "sync", !.agent = a, !.seen = Reported(a), !.down = TRUE]
    /\ UNCHANGED <<rows, live, known, req, excused, ops, autoScales>>

\* health_check raises: logged, next agent.
HealthCheckError(a) ==
    /\ sched.pc = "next" /\ a \in sched.todo
    /\ faults < MaxFaults /\ faults' = faults + 1
    /\ sched' = IF sched.todo = {a} THEN Resting ELSE [sched EXCEPT !.todo = @ \ {a}]
    /\ UNCHANGED <<rows, live, known, req, excused, ops, autoScales>>

\* Mutant of Sync: the replica count is only written along with a new status.
SyncStatusOnly ==
    LET a == sched.agent
        old == sched.row[a]
        status == IF sched.seen = 0 THEN "stopped"
                  ELSE IF sched.down THEN "crashed"
                  ELSE IF old.status # "scaling" THEN "running"
                  ELSE old.status
        new == IF status = old.status THEN old
               ELSE [old EXCEPT !.replicas = sched.seen, !.status = status]
        row == [sched.row EXCEPT ![a] = new]
    IN  /\ sched.pc = "sync"
        /\ Save(a, old, new)
        /\ IF ~CanSave(a, old, new)
           THEN sched' = Resting
           ELSE IF new.auto /\ new.status = "running" /\ sched.seen > 0
           THEN sched' = [sched EXCEPT !.pc = "headroom", !.row = row]
           ELSE NextAgent(row)
        /\ UNCHANGED <<live, known, req, excused, bounds>>

\* Status and replica count from what Docker reported, committed if changed.  A
\* row deleted meanwhile ends the whole tick (StaleDataError).
Sync ==
    LET a == sched.agent
        old == sched.row[a]
        new == [old EXCEPT !.replicas = sched.seen,
                           !.status = IF sched.seen = 0 THEN "stopped"
                                      ELSE IF sched.down THEN "crashed"
                                      ELSE IF old.status # "scaling" THEN "running"
                                      ELSE old.status]
        row == [sched.row EXCEPT ![a] = new]
    IN  /\ sched.pc = "sync"
        /\ Save(a, old, new)
        /\ IF ~CanSave(a, old, new)
           THEN sched' = Resting
           ELSE IF new.auto /\ new.status = "running" /\ sched.seen > 0
           THEN sched' = [sched EXCEPT !.pc = "headroom", !.row = row]
           ELSE NextAgent(row)
        /\ UNCHANGED <<live, known, req, excused, bounds>>

Headroom ==
    /\ sched.pc = "headroom"
    /\ IF HasHeadroomForReplica(sched.agent)
       THEN sched' = [sched EXCEPT !.pc = "autoscale"]
       ELSE NextAgent(sched.row)
    /\ UNCHANGED <<rows, live, known, req, excused, bounds>>

\* AgentRuntime.auto_scale decides for itself: one replica more, one less, or
\* none; it raises when it knows no container of the agent.
AutoScale ==
    LET a == sched.agent IN
    /\ sched.pc = "autoscale"
    /\ \/ UNCHANGED <<live, autoScales>>
       \/ /\ Reported(a) > 0 /\ autoScales < MaxAutoScales
          /\ \E n \in {live[a] - 1, live[a] + 1} \cap (1 .. MaxLive) :
                live' = [live EXCEPT ![a] = n]
          /\ autoScales' = autoScales + 1
    /\ NextAgent(sched.row)
    /\ UNCHANGED <<rows, known, req, excused, ops, faults>>

\* The database fails at one of the tick's awaits; run_scheduler_loop logs it.
TickAborts ==
    /\ sched # Resting
    /\ faults < MaxFaults /\ faults' = faults + 1
    /\ sched' = Resting
    /\ UNCHANGED <<rows, live, known, req, excused, ops, autoScales>>

-----------------------------------------------------------------------------
(* The environment *)

ContainerDies(a) ==
    /\ live[a] > 0
    /\ faults < MaxFaults /\ faults' = faults + 1
    /\ live' = [live EXCEPT ![a] = @ - 1]
    /\ UNCHANGED <<rows, known, req, sched, excused, ops, autoScales>>

\* The process dies with every task in it and is started again.  Containers
\* outlive it; startup_reconcile finds them again unless it fails, which is
\* only logged.
CrashAndRestart(reconciled) ==
    /\ faults < MaxFaults /\ faults' = faults + 1
    /\ req' = [r \in Requests |-> Idle]
    /\ sched' = Resting
    /\ known' = IF reconciled THEN Agents ELSE {}
    /\ UNCHANGED <<rows, live, excused, ops, autoScales>>

-----------------------------------------------------------------------------
\* What a request in flight does next, and what the runtime answers it.
RequestStep(r) ==
    \/ CheckResources(r) \/ Insert(r) \/ Quota(r) \/ Apply(r) \/ Refresh(r) \/ Start(r)
    \/ RuntimeDeploys(r) \/ FinishDeploy(r) \/ Fail(r)
    \/ RuntimeScales(r) \/ FinishScale(r)
    \/ RuntimeRemoves(r) \/ Erase(r)

RequestError(r) == RuntimeDeployFails(r) \/ RequestAborts(r)

NewRequest(r) ==
    \E a \in Agents :
        \/ \E config \in Configs \cup {NoConfig} :
              \/ BeginCreate(r, a, config)
              \/ Begin(r, "deploy", a, config, 0)
        \/ \E op \in {"up", "down"}, count \in Counts : Begin(r, op, a, NoConfig, count)
        \/ Begin(r, "delete", a, NoConfig, 0)

SchedulerStep ==
    \/ TickBegins
    \/ \E a \in Agents : HealthCheck(a)
    \/ Sync
    \/ Headroom
    \/ AutoScale

SchedulerError ==
    \/ \E a \in Agents : HealthCheckFindsDown(a) \/ HealthCheckError(a)
    \/ TickAborts

Fault ==
    \/ \E a \in Agents : ContainerDies(a)
    \/ \E reconciled \in BOOLEAN : CrashAndRestart(reconciled)

Next ==
    \/ \E r \in Requests : NewRequest(r) \/ RequestStep(r) \/ RequestError(r)
    \/ SchedulerStep \/ SchedulerError
    \/ Fault

Spec == Init /\ [][Next]_vars

\* The event loop resumes every task whose await is over, container operations
\* end, and the scheduler loop never stops.
FairSpec == Spec /\ (\A r \in Requests : WF_vars(RequestStep(r))) /\ WF_vars(SchedulerStep)

\* Nothing overlaps and nothing fails: one request at a time, none during a tick.
Quiet == \A r \in Requests : At(r, "idle")
SerialNext ==
    \/ /\ sched = Resting
       /\ \E r \in Requests : /\ \A q \in Requests \ {r} : At(q, "idle")
                              /\ NewRequest(r) \/ RequestStep(r)
    \/ Quiet /\ SchedulerStep

SerialSpec == Init /\ [][SerialNext]_vars

-----------------------------------------------------------------------------
(* Properties *)

\* deploy_agent commits "starting" before Docker is touched, and nothing takes a
\* row back to "pending": an agent shown as never deployed has no container,
\* whichever handlers and ticks overlap and wherever the process dies.
PendingHasNoContainers ==
    \A a \in Agents : rows[a].status \in {"none", "pending"} => live[a] = 0

\* delete_agent stops and removes the containers before it deletes the row: a
\* container without a row is left only where another request worked on the
\* agent while it was being deleted, or the runtime had lost track of it.
\* Neither the scheduler nor a crash can leave one.
OrphansAreExcused ==
    \A a \in Agents : rows[a].status = "deleted" /\ live[a] > 0 => a \in excused

\* The scheduler syncs the row of an active agent from live Docker state: once
\* requests and faults have ceased, every active agent's replica count is, for
\* good, the number of containers the runtime reports.
EventuallySynced ==
    <>[](\A a \in Agents : rows[a].status \in Active => rows[a].replicas = Reported(a))

\* No agent stays "starting": the handler, or after a crash or an error the
\* scheduler, moves it on.
StartingResolves ==
    \A a \in Agents : rows[a].status = "starting" ~> rows[a].status # "starting"

\* scheduler.py: the tick updates the status of running and scaling agents from
\* live Docker state.  So no agent stays "scaling" for ever.
ScalingResolves ==
    \A a \in Agents : rows[a].status = "scaling" ~> rows[a].status # "scaling"

\* plans.py: resource limits count running replicas, and an action that would
\* take an account past its plan is refused.  So whatever adds containers leaves
\* those of the agents the quota counts (the active ones) within the plan,
\* although the checks read replica counts of rows and not the containers.
Containers(agents) == SumFunctionOnSet(live, agents)
GrowthWithinPlan ==
    [][Containers(Agents)' > Containers(Agents) =>
         Containers({a \in Agents : rows[a].status \in Active})' <= PlanReplicas]_vars

\* scheduler.py: auto-scaling never takes an account past its plan.
AutoScaleWithinPlan ==
    [][sched.pc = "autoscale" /\ live' # live =>
         Containers(Agents)' <= PlanReplicas
         \/ live'[sched.agent] < live[sched.agent]]_vars
=============================================================================
