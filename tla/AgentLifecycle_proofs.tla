------------------------ MODULE AgentLifecycle_proofs ------------------------
(***************************************************************************)
(* Proofs about AgentLifecycle, for any number of agents and of requests   *)
(* in flight, any plan and any bounds.                                     *)
(***************************************************************************)
EXTENDS AgentLifecycle, SumTheorems, TLAPS

Fresh == {"none", "pending"}
Busy(r) == req[r].pc # "idle"
Creating(r) == req[r].pc \in {"resources", "insert"}

\* What program counters say of the other fields.
Shape ==
    /\ \A r \in Requests :
          /\ req[r].pc = "idle" => req[r].agent = NoAgent
          /\ req[r].pc = "erase" => req[r].op = "delete"
          /\ req[r].pc = "runtime" /\ req[r].op \in {"create", "deploy"}
               => req[r].row.status \notin Fresh
    /\ sched.pc # "next" => sched.agent \in sched.todo

\* Nobody but its creator knows an agent before it is inserted.
IdsInv ==
    \A r \in Requests :
        /\ Creating(r) => /\ rows[req[r].agent].status = "none"
                          /\ \A q \in Requests : req[q].agent = req[r].agent => q = r
        /\ Busy(r) /\ ~Creating(r) => rows[req[r].agent].status # "none"

\* No row becomes fresh again: whoever has seen it otherwise may rely on it.
FreshInv ==
    /\ PendingHasNoContainers
    /\ \A r \in Requests :
          Busy(r) /\ req[r].row.status \notin Fresh => rows[req[r].agent].status \notin Fresh
    /\ \A a \in sched.todo : rows[a].status \notin Fresh

\* Unless it is excused, an agent being deleted is left alone by other requests,
\* has no containers once they are removed, and nobody is at work on it once its
\* row is gone.
OrphanInv ==
    \A a \in Agents \ excused :
        /\ rows[a].status = "deleted" => live[a] = 0 /\ \A r \in Requests : req[r].agent # a
        /\ \A r \in Requests :
              req[r].agent = a /\ req[r].op = "delete" =>
                 /\ \A q \in Requests : req[q].agent = a => q = r
                 /\ req[r].pc = "erase" => live[a] = 0

IInv == TypeOK /\ Shape /\ IdsInv /\ FreshInv /\ OrphanInv

-----------------------------------------------------------------------------
(* Sessions and requests *)

LEMMA IdleIsRequest == Idle \in Request /\ NoRow \in Row
  BY Zenon DEF Idle, Request, NoRow, Row, Status, NoConfig, Config

\* A commit touches one row, and its status only to the one the session set.
LEMMA SaveStep ==
  ASSUME TypeOK, NEW a \in Agents, NEW loaded \in Row, NEW new \in Row,
         Save(a, loaded, new)
  PROVE  /\ rows' \in [Agents -> Row]
         /\ \A b \in Agents : b # a => rows'[b] = rows[b]
         /\ \/ rows'[a].status = rows[a].status
            \/ Exists(a) /\ new.status # loaded.status /\ rows'[a].status = new.status
         /\ CanSave(a, loaded, new) /\ new.status # loaded.status
              => rows'[a].status = new.status
<1>1. Merge(rows[a], loaded, new) \in Row
  BY Zenon DEF Merge, Row, TypeOK
<1>2. Merge(rows[a], loaded, new).status
        = IF new.status # loaded.status THEN new.status ELSE rows[a].status
  BY Zenon DEF Merge
<1>3. CASE CanSave(a, loaded, new)
  <2>1. /\ rows' \in [Agents -> Row]
        /\ \A b \in Agents : b # a => rows'[b] = rows[b]
        /\ rows'[a] = Merge(rows[a], loaded, new)
    BY Zenon, <1>1, <1>3 DEF Save, TypeOK
  <2>2. new.status # loaded.status => Exists(a)
    BY Zenon, <1>3 DEF CanSave
  <2>3. QED
    BY Zenon, <1>2, <2>1, <2>2
<1>4. CASE ~CanSave(a, loaded, new)
  BY Zenon, <1>4 DEF Save, TypeOK
<1>5. QED
  BY Zenon, <1>3, <1>4

LEMMA GotoStep ==
  ASSUME TypeOK, NEW r \in Requests, NEW q \in Request, Goto(r, q)
  PROVE  /\ req' \in [Requests -> Request]
         /\ req'[r] = q
         /\ \A p \in Requests : p # r => req'[p] = req[p]
  BY Zenon DEF Goto, TypeOK

\* What most steps of a handler have in common: request r goes on as q, or
\* returns; it changes the row and the containers of its own agent only; the
\* status it writes is one of an agent that has been started; and it adds
\* containers only to such an agent, and never when it is deleting it.
RequestMove(r, q) ==
    /\ Goto(r, q)
    /\ UNCHANGED <<sched, excused>>
    /\ known' \in SUBSET Agents
    /\ ops' \in Nat /\ faults' \in Nat /\ autoScales' \in Nat
    /\ rows' \in [Agents -> Row] /\ live' \in [Agents -> Nat]
    /\ \A b \in Agents : b # req[r].agent => rows'[b] = rows[b] /\ live'[b] = live[b]
    /\ \/ rows'[req[r].agent].status = rows[req[r].agent].status
       \/ /\ Exists(req[r].agent)
          /\ rows'[req[r].agent].status \notin {"none", "pending", "deleted"}
    /\ \/ live'[req[r].agent] = live[req[r].agent]
       \/ req[r].op # "delete" /\ rows'[req[r].agent].status \notin Fresh
    /\ \/ q = Idle
       \/ /\ q.pc \notin {"idle", "resources", "erase"}
          /\ q.agent = req[r].agent /\ q.op = req[r].op
          /\ q.pc = "insert" <=> Creating(r)
          /\ q.pc = "runtime" /\ q.op \in {"create", "deploy"} => q.row.status \notin Fresh
          /\ q.row.status \notin Fresh => rows'[q.agent].status \notin Fresh

\* Such a step preserves the invariant.
LEMMA RequestMoves ==
  ASSUME IInv, NEW r \in Requests, Busy(r), NEW q \in Request, RequestMove(r, q)
  PROVE  IInv'
<1> USE DEF RequestMove
<1> DEFINE a == req[r].agent
<1>a. a \in Agents /\ a # NoAgent
  BY Zenon, AgentsAssumption DEF IInv, TypeOK, Busy
<1>q. /\ req' \in [Requests -> Request] /\ req'[r] = q
      /\ \A p \in Requests : p # r => req'[p] = req[p]
  BY Zenon, GotoStep DEF IInv
<1>i. Idle.pc = "idle" /\ Idle.agent = NoAgent /\ Idle.op = "none" /\ Idle.row.status = "none"
  BY Zenon DEF Idle, NoRow
<1>1. TypeOK'
  <2>1. \A p \in Requests : req'[p].pc # "idle" => req'[p].agent \in Agents
    BY Zenon, <1>a, <1>q, <1>i DEF IInv, TypeOK
  <2>2. QED
    BY Zenon, <1>q, <2>1 DEF IInv, TypeOK
<1>2. Shape'
  BY <1>q, <1>i DEF IInv, Shape
<1>3. IdsInv'
  <2>1. ASSUME NEW p \in Requests, Creating(p)'
        PROVE  /\ rows'[req'[p].agent].status = "none"
               /\ \A o \in Requests : req'[o].agent = req'[p].agent => o = p
    <3>1. Creating(p) /\ req'[p].agent = req[p].agent
      BY Zenon, <1>q, <1>i, <2>1 DEF Creating
    <3>2. rows[req[p].agent].status = "none" /\ req[p].agent \in Agents
      BY Zenon, <3>1 DEF IInv, IdsInv, TypeOK, Creating
    <3>3. rows'[req[p].agent].status = "none"
      BY Zenon, <1>a, <3>2 DEF Exists
    <3>4. \A o \in Requests : req'[o].agent = req[p].agent => req[o].agent = req[p].agent
      BY Zenon, <1>q, <1>i, <3>2, AgentsAssumption
    <3>5. QED
      BY <3>1, <3>3, <3>4 DEF IInv, IdsInv
  <2>2. ASSUME NEW p \in Requests, Busy(p)', ~Creating(p)'
        PROVE  rows'[req'[p].agent].status # "none"
    <3>1. Busy(p) /\ ~Creating(p) /\ req'[p].agent = req[p].agent
      BY Zenon, <1>q, <1>i, <2>2 DEF Busy, Creating
    <3>2. rows[req[p].agent].status # "none" /\ req[p].agent \in Agents
      BY Zenon, <3>1 DEF IInv, IdsInv, TypeOK, Busy
    <3>3. QED
      BY Zenon, <1>a, <3>1, <3>2
  <2>3. QED
    BY Zenon, <2>1, <2>2 DEF IdsInv
<1>4. FreshInv'
  <2>1. PendingHasNoContainers'
    BY Zenon, <1>a DEF IInv, FreshInv, PendingHasNoContainers, Fresh, Exists
  <2>2. ASSUME NEW p \in Requests, Busy(p)', req'[p].row.status \notin Fresh
        PROVE  rows'[req'[p].agent].status \notin Fresh
    <3>1. CASE p = r
      BY Zenon, <1>q, <1>i, <2>2, <3>1 DEF Fresh, Busy
    <3>2. CASE p # r
      <4>1. req'[p] = req[p] /\ req[p].agent \in Agents /\ rows[req[p].agent].status \notin Fresh
        BY Zenon, <1>q, <2>2, <3>2 DEF IInv, FreshInv, TypeOK, Busy
      <4>2. QED
        BY Zenon, <1>a, <4>1 DEF Fresh
    <3>3. QED
      BY Zenon, <3>1, <3>2
  <2>3. ASSUME NEW b \in sched'.todo PROVE rows'[b].status \notin Fresh
    <3>1. b \in Agents /\ rows[b].status \notin Fresh
      BY Zenon, <2>3 DEF IInv, FreshInv, TypeOK, Scheduler
    <3>2. QED
      BY Zenon, <1>a, <3>1 DEF Fresh
  <2>4. QED
    BY Zenon, <2>1, <2>2, <2>3 DEF FreshInv
<1>5. OrphanInv'
  <2> SUFFICES ASSUME NEW b \in Agents, b \notin excused
               PROVE  /\ rows'[b].status = "deleted" =>
                            live'[b] = 0 /\ \A p \in Requests : req'[p].agent # b
                      /\ \A p \in Requests :
                            req'[p].agent = b /\ req'[p].op = "delete" =>
                               /\ \A o \in Requests : req'[o].agent = b => o = p
                               /\ req'[p].pc = "erase" => live'[b] = 0
    BY Zenon DEF OrphanInv
  <2>1. \A p \in Requests : req'[p].agent = b =>
              req[p].agent = b /\ req'[p].op = req[p].op
    BY <1>q, <1>i, AgentsAssumption
  <2>2. rows'[b].status = "deleted" => rows[b].status = "deleted"
    BY Zenon, <1>a
  <2>3. rows[b].status = "deleted" => live[b] = 0 /\ b # a
    BY DEF IInv, OrphanInv
  <2>4. ASSUME NEW p \in Requests, req'[p].agent = b, req'[p].op = "delete"
        PROVE  /\ \A o \in Requests : req'[o].agent = b => o = p
               /\ req'[p].pc = "erase" => live'[b] = 0
    <3>1. \A o \in Requests : req[o].agent = b => o = p
      BY <2>1, <2>4 DEF IInv, OrphanInv
    <3>2. ASSUME req'[p].pc = "erase" PROVE live'[b] = 0
      <4>1. p # r
        BY Zenon, <1>q, <1>i, <3>2
      <4>2. live[b] = 0
        BY <1>q, <2>1, <2>4, <3>2, <4>1 DEF IInv, OrphanInv
      <4>3. QED
        BY Zenon, <3>1, <4>1, <4>2
    <3>3. QED
      BY Zenon, <2>1, <3>1, <3>2
  <2>5. QED
    BY Zenon, <1>a, <2>1, <2>2, <2>3, <2>4 DEF IInv, OrphanInv
<1>6. QED
  BY Zenon, <1>1, <1>2, <1>3, <1>4, <1>5 DEF IInv

-----------------------------------------------------------------------------
(* The handlers *)

\* The request r and its agent, as every step below uses them.
LEMMA RequestFacts ==
  ASSUME IInv, NEW r \in Requests, Busy(r)
  PROVE  /\ TypeOK
         /\ req[r] \in Request /\ req[r].row \in Row /\ req[r].agent \in Agents
         /\ req[r].row.status \notin Fresh => rows[req[r].agent].status \notin Fresh
  BY Zenon DEF IInv, TypeOK, FreshInv, Busy, Request

LEMMA ConfigFacts ==
  ASSUME NEW q \in Request
  PROVE  q.config.replicas \in Nat /\ q.config.auto \in BOOLEAN /\ q.config.build \in BOOLEAN
<1>1. q.config \in Config \cup {NoConfig}
  BY Zenon DEF Request
<1>2. CASE q.config \in Config
  BY Zenon, <1>2 DEF Config
<1>3. CASE q.config = NoConfig
  BY <1>3 DEF NoConfig
<1>4. QED
  BY Zenon, <1>1, <1>2, <1>3

LEMMA CheckResourcesStep ==
  ASSUME IInv, NEW r \in Requests, CheckResources(r)
  PROVE  IInv'
<1>1. Busy(r) /\ Creating(r)
  BY Zenon DEF CheckResources, At, Busy, Creating
<1>2. PICK q \in Request :
        /\ Goto(r, q)
        /\ \/ q = Idle
           \/ /\ q.pc = "insert" /\ q.agent = req[r].agent /\ q.op = req[r].op
              /\ q.row = req[r].row
  BY <1>1, RequestFacts, IdleIsRequest DEF CheckResources, Return, Request
<1>3. RequestMove(r, q)
  BY Zenon, <1>1, <1>2, RequestFacts DEF RequestMove, CheckResources, TypeOK, bounds
<1>4. QED
  BY Zenon, <1>1, <1>2, <1>3, RequestMoves

LEMMA QuotaStep ==
  ASSUME IInv, NEW r \in Requests, Quota(r)
  PROVE  IInv'
<1>1. Busy(r) /\ ~Creating(r)
  BY Zenon DEF Quota, At, Busy, Creating
<1>2. PICK q \in Request :
        /\ Goto(r, q)
        /\ \/ q = Idle
           \/ /\ q.pc \in {"apply", "start"} /\ q.agent = req[r].agent /\ q.op = req[r].op
              /\ q.row = req[r].row
  BY <1>1, RequestFacts, IdleIsRequest DEF Quota, Return, Request
<1>3. RequestMove(r, q)
  BY Zenon, <1>1, <1>2, RequestFacts DEF RequestMove, Quota, TypeOK, bounds
<1>4. QED
  BY Zenon, <1>1, <1>2, <1>3, RequestMoves

LEMMA ApplyStep ==
  ASSUME IInv, NEW r \in Requests, Apply(r)
  PROVE  IInv'
<1> DEFINE new == [req[r].row EXCEPT !.replicas = req[r].config.replicas,
                                     !.auto = req[r].config.auto,
                                     !.build = req[r].config.build]
<1>1. Busy(r) /\ ~Creating(r)
  BY Zenon DEF Apply, At, Busy, Creating
<1>2. new \in Row /\ new.status = req[r].row.status
  BY Zenon, <1>1, RequestFacts, ConfigFacts DEF Row
<1>3. PICK q \in Request :
        /\ Goto(r, q)
        /\ \/ q = Idle
           \/ /\ q.pc = "refresh" /\ q.agent = req[r].agent /\ q.op = req[r].op
              /\ q.row = req[r].row
  BY <1>1, RequestFacts, IdleIsRequest DEF Apply, Return, Request
<1>4. Save(req[r].agent, req[r].row, new)
  BY Zenon DEF Apply
<1> HIDE DEF new
<1>5. /\ rows' \in [Agents -> Row]
      /\ \A b \in Agents : b # req[r].agent => rows'[b] = rows[b]
      /\ rows'[req[r].agent].status = rows[req[r].agent].status
  BY Zenon, <1>1, <1>2, <1>4, RequestFacts, SaveStep
<1>6. RequestMove(r, q)
  BY Zenon, <1>1, <1>3, <1>5, RequestFacts DEF RequestMove, Apply, TypeOK, bounds
<1>7. QED
  BY Zenon, <1>1, <1>3, <1>6, RequestMoves

LEMMA RefreshStep ==
  ASSUME IInv, NEW r \in Requests, Refresh(r)
  PROVE  IInv'
<1>1. Busy(r) /\ ~Creating(r)
  BY Zenon DEF Refresh, At, Busy, Creating
<1>2. PICK q \in Request :
        /\ Goto(r, q)
        /\ \/ q = Idle
           \/ /\ q.pc = "start" /\ q.agent = req[r].agent /\ q.op = req[r].op
              /\ q.row = rows[req[r].agent]
  <2>r. req[r] \in Request
    BY Zenon, <1>1, RequestFacts
  <2>1. rows[req[r].agent] \in Row
    BY Zenon, <1>1, RequestFacts DEF TypeOK
  <2> DEFINE q == [req[r] EXCEPT !.pc = "start", !.row = rows[req[r].agent]]
  <2>2. q \in Request /\ q.pc = "start" /\ q.agent = req[r].agent /\ q.op = req[r].op
        /\ q.row = rows[req[r].agent]
    <3>1. q = [req[r] EXCEPT !.pc = "start", !.row = rows[req[r].agent]]
      BY Zenon
    <3>2. [req[r] EXCEPT !.pc = "start"] \in Request
      BY Zenon, <2>r DEF Request
    <3>3. [[req[r] EXCEPT !.pc = "start"] EXCEPT !.row = rows[req[r].agent]] \in Request
      BY Zenon, <2>1, <3>2 DEF Request
    <3>4. QED
      BY Zenon, <2>r, <3>1, <3>3 DEF Request
  <2>3. Goto(r, q) \/ Goto(r, Idle)
    BY Zenon DEF Refresh, Return
  <2> HIDE DEF q
  <2>4. QED
    BY Zenon, <2>2, <2>3, IdleIsRequest
<1>3. RequestMove(r, q)
  BY Zenon, <1>1, <1>2, RequestFacts DEF RequestMove, Refresh, TypeOK, bounds
<1>4. QED
  BY Zenon, <1>1, <1>2, <1>3, RequestMoves

LEMMA StartStep ==
  ASSUME IInv, NEW r \in Requests, Start(r)
  PROVE  IInv'
<1> DEFINE new == [req[r].row EXCEPT !.status = IF req[r].op \in {"up", "down"} THEN "scaling"
                                                                               ELSE "starting"]
<1>1. Busy(r) /\ ~Creating(r)
  BY Zenon DEF Start, At, Busy, Creating
<1>2. new \in Row /\ new.status \in {"scaling", "starting"}
  BY Zenon, <1>1, RequestFacts DEF Row, Status
<1>3. PICK q \in Request :
        /\ Goto(r, q)
        /\ \/ q = Idle
           \/ /\ CanSave(req[r].agent, req[r].row, new)
              /\ q.pc = "runtime" /\ q.agent = req[r].agent /\ q.op = req[r].op
              /\ q.row = new
  <2> DEFINE q == [req[r] EXCEPT !.pc = "runtime", !.row = new]
  <2>r. req[r] \in Request
    BY <1>1, RequestFacts
  <2>1. q \in Request /\ q.pc = "runtime" /\ q.agent = req[r].agent /\ q.op = req[r].op
        /\ q.row = new
    <3>1. q = [req[r] EXCEPT !.pc = "runtime", !.row = new]
      BY Zenon
    <3> HIDE DEF new
    <3>2. [req[r] EXCEPT !.pc = "runtime"] \in Request
      BY Zenon, <2>r DEF Request
    <3>3. [[req[r] EXCEPT !.pc = "runtime"] EXCEPT !.row = new] \in Request
      BY Zenon, <1>2, <3>2 DEF Request
    <3>4. QED
      BY Zenon, <2>r, <3>1, <3>3 DEF Request
  <2>2. (CanSave(req[r].agent, req[r].row, new) /\ Goto(r, q)) \/ Goto(r, Idle)
    BY Zenon DEF Start, Return
  <2> HIDE DEF q
  <2>3. QED
    BY Zenon, <2>1, <2>2, IdleIsRequest
<1>4. Save(req[r].agent, req[r].row, new)
  BY Zenon DEF Start
<1> HIDE DEF new
<1>5. /\ rows' \in [Agents -> Row]
      /\ \A b \in Agents : b # req[r].agent => rows'[b] = rows[b]
      /\ \/ rows'[req[r].agent].status = rows[req[r].agent].status
         \/ Exists(req[r].agent) /\ rows'[req[r].agent].status \in {"scaling", "starting"}
      /\ CanSave(req[r].agent, req[r].row, new) /\ new.status # req[r].row.status
           => rows'[req[r].agent].status = new.status
  BY <1>1, <1>2, <1>4, RequestFacts, SaveStep
<1>6. CanSave(req[r].agent, req[r].row, new) => rows'[req[r].agent].status \notin Fresh
  BY Zenon, <1>1, <1>2, <1>5, RequestFacts DEF Fresh
<1>7. RequestMove(r, q)
  BY Zenon, <1>1, <1>2, <1>3, <1>5, <1>6, RequestFacts DEF RequestMove, Start, Fresh, TypeOK, bounds
<1>8. QED
  BY Zenon, <1>1, <1>3, <1>7, RequestMoves

LEMMA RuntimeDeploysStep ==
  ASSUME IInv, NEW r \in Requests, RuntimeDeploys(r)
  PROVE  IInv'
<1>1. Busy(r) /\ ~Creating(r) /\ req[r].op \in {"create", "deploy"}
  BY Zenon DEF RuntimeDeploys, At, Busy, Creating
<1>2. rows[req[r].agent].status \notin Fresh
  BY Zenon, <1>1, RequestFacts DEF RuntimeDeploys, At, IInv, Shape
<1>3. req[r].row.replicas \in Nat
  BY Zenon, <1>1, RequestFacts DEF Row
<1>4. PICK q \in Request :
        /\ Goto(r, q)
        /\ q.pc = "finish" /\ q.agent = req[r].agent /\ q.op = req[r].op /\ q.row = req[r].row
  <2>1. [req[r] EXCEPT !.pc = "finish"] \in Request
    BY Zenon, <1>1, RequestFacts DEF Request
  <2>2. [[req[r] EXCEPT !.pc = "finish"] EXCEPT !.count = req[r].row.replicas] \in Request
    BY Zenon, <1>3, <2>1 DEF Request
  <2>3. QED
    BY Zenon, <1>1, <2>2, RequestFacts DEF RuntimeDeploys, Request
<1>5. /\ live' \in [Agents -> Nat]
      /\ \A b \in Agents : b # req[r].agent => live'[b] = live[b]
  BY Zenon, <1>1, <1>3, RequestFacts DEF RuntimeDeploys, TypeOK
<1>6. RequestMove(r, q)
  BY Zenon, <1>1, <1>2, <1>4, <1>5, RequestFacts DEF RequestMove, RuntimeDeploys, TypeOK, bounds
<1>7. QED
  BY Zenon, <1>1, <1>4, <1>6, RequestMoves

LEMMA RuntimeDeployFailsStep ==
  ASSUME IInv, NEW r \in Requests, RuntimeDeployFails(r)
  PROVE  IInv'
<1>1. Busy(r) /\ ~Creating(r) /\ req[r].op \in {"create", "deploy"}
  BY Zenon DEF RuntimeDeployFails, At, Busy, Creating
<1>2. rows[req[r].agent].status \notin Fresh
  BY Zenon, <1>1, RequestFacts DEF RuntimeDeployFails, At, IInv, Shape
<1>3. PICK q \in Request :
        /\ Goto(r, q)
        /\ q.pc = "fail" /\ q.agent = req[r].agent /\ q.op = req[r].op /\ q.row = req[r].row
  BY <1>1, RequestFacts DEF RuntimeDeployFails, Request
<1>4. /\ live' \in [Agents -> Nat]
      /\ \A b \in Agents : b # req[r].agent => live'[b] = live[b]
  BY <1>1, RequestFacts DEF RuntimeDeployFails, TypeOK
<1>5. RequestMove(r, q)
  BY <1>1, <1>2, <1>3, <1>4, RequestFacts DEF RequestMove, RuntimeDeployFails, TypeOK
<1>6. QED
  BY Zenon, <1>1, <1>3, <1>5, RequestMoves

LEMMA RuntimeScalesStep ==
  ASSUME IInv, NEW r \in Requests, RuntimeScales(r)
  PROVE  IInv'
<1>1. Busy(r) /\ ~Creating(r) /\ req[r].op # "delete"
  BY Zenon DEF RuntimeScales, At, Busy, Creating
<1>2. PICK q \in Request :
        /\ Goto(r, q)
        /\ q.pc \in {"finish", "fail"} /\ q.agent = req[r].agent /\ q.op = req[r].op
        /\ q.row = req[r].row
  BY <1>1, RequestFacts DEF RuntimeScales, Request
<1>3. /\ live' \in [Agents -> Nat]
      /\ \A b \in Agents : b # req[r].agent => live'[b] = live[b]
      /\ live'[req[r].agent] # live[req[r].agent] => live[req[r].agent] > 0
  <2>1. CASE CanScale(req[r])
    <3>1. Scaled(req[r]) \in Nat /\ live[req[r].agent] > 0
      BY <2>1, BoundsAssumption DEF CanScale, Reported
    <3>2. QED
      BY Zenon, <1>1, <2>1, <3>1, RequestFacts DEF RuntimeScales, TypeOK
  <2>2. CASE ~CanScale(req[r])
    BY Zenon, <2>2, RequestFacts, <1>1 DEF RuntimeScales, TypeOK
  <2>3. QED
    BY Zenon, <2>1, <2>2
<1>4. live[req[r].agent] > 0 => rows[req[r].agent].status \notin Fresh
  BY <1>1, RequestFacts DEF IInv, FreshInv, PendingHasNoContainers, Fresh
<1>5. RequestMove(r, q)
  BY Zenon, <1>1, <1>2, <1>3, <1>4, RequestFacts DEF RequestMove, RuntimeScales, TypeOK, bounds
<1>6. QED
  BY Zenon, <1>1, <1>2, <1>5, RequestMoves

\* The last commit of a handler: whatever it writes, the agent was started.
LEMMA LastCommit ==
  ASSUME IInv, NEW r \in Requests, Busy(r), ~Creating(r), NEW new \in Row,
         new.status \in {"running", "failed"},
         Save(req[r].agent, req[r].row, new), Return(r),
         UNCHANGED <<live, known, sched, excused, bounds>>
  PROVE  IInv'
<1>1. /\ rows' \in [Agents -> Row]
      /\ \A b \in Agents : b # req[r].agent => rows'[b] = rows[b]
      /\ \/ rows'[req[r].agent].status = rows[req[r].agent].status
         \/ Exists(req[r].agent) /\ rows'[req[r].agent].status \in {"running", "failed"}
  BY RequestFacts, SaveStep
<1>2. RequestMove(r, Idle)
  BY Zenon, <1>1, RequestFacts DEF RequestMove, Return, TypeOK, bounds
<1>3. QED
  BY Zenon, <1>2, IdleIsRequest, RequestMoves

LEMMA FinishStep ==
  ASSUME IInv, NEW r \in Requests, FinishDeploy(r) \/ FinishScale(r) \/ Fail(r)
  PROVE  IInv'
<1>1. Busy(r) /\ ~Creating(r)
  BY Zenon DEF FinishDeploy, FinishScale, Fail, At, Busy, Creating
<1>2. req[r].row \in Row /\ req[r].count \in Nat /\ Reported(req[r].agent) \in Nat
  BY Zenon, <1>1, RequestFacts DEF Request, Reported, TypeOK
<1>3. CASE FinishDeploy(r)
  <2> DEFINE new == [req[r].row EXCEPT !.status = "running", !.replicas = req[r].count]
  <2>1. new \in Row /\ new.status = "running"
    BY Zenon, <1>2 DEF Row, Status
  <2>2. Save(req[r].agent, req[r].row, new)
    BY Zenon, <1>3 DEF FinishDeploy
  <2> HIDE DEF new
  <2>3. QED
    BY Zenon, <1>1, <1>3, <2>1, <2>2, LastCommit DEF FinishDeploy
<1>4. CASE FinishScale(r)
  <2> DEFINE found == Reported(req[r].agent)
             new == [req[r].row EXCEPT !.status = "running",
                              !.replicas = IF found > 0 THEN found ELSE req[r].row.replicas]
  <2>1. new \in Row /\ new.status = "running"
    BY Zenon, <1>2 DEF Row, Status
  <2>2. Save(req[r].agent, req[r].row, new)
    BY Zenon, <1>4 DEF FinishScale
  <2> HIDE DEF new
  <2>3. QED
    BY Zenon, <1>1, <1>4, <2>1, <2>2, LastCommit DEF FinishScale
<1>5. CASE Fail(r)
  <2> DEFINE new == [req[r].row EXCEPT !.status = "failed"]
  <2>1. new \in Row /\ new.status = "failed"
    BY Zenon, <1>2 DEF Row, Status
  <2>2. Save(req[r].agent, req[r].row, new)
    BY Zenon, <1>5 DEF Fail
  <2> HIDE DEF new
  <2>3. QED
    BY Zenon, <1>1, <1>5, <2>1, <2>2, LastCommit DEF Fail
<1>6. QED
  BY Zenon, <1>3, <1>4, <1>5

LEMMA RequestAbortsStep ==
  ASSUME IInv, NEW r \in Requests, RequestAborts(r)
  PROVE  IInv'
<1>1. Busy(r) /\ Goto(r, Idle)
  BY Zenon DEF RequestAborts, At, Busy, Return
<1>2. RequestMove(r, Idle)
  BY <1>1, RequestFacts DEF RequestMove, RequestAborts, TypeOK
<1>3. QED
  BY Zenon, <1>1, <1>2, IdleIsRequest, RequestMoves

\* The INSERT: only r knows the agent, so nothing anybody holds becomes stale.
LEMMA InsertStep ==
  ASSUME IInv, NEW r \in Requests, Insert(r)
  PROVE  IInv'
<1> DEFINE a == req[r].agent
           row == [status |-> "pending", replicas |-> req[r].config.replicas,
                   auto |-> req[r].config.auto, build |-> req[r].config.build]
<1>1. Busy(r) /\ Creating(r) /\ TypeOK /\ a \in Agents /\ req[r] \in Request
  <2>1. Busy(r) /\ Creating(r)
    BY Zenon DEF Insert, At, Busy, Creating
  <2>2. QED
    BY Zenon, <2>1, RequestFacts
<1>2. /\ rows[a].status = "none"
      /\ \A p \in Requests : req[p].agent = a => p = r
  BY Zenon, <1>1 DEF IInv, IdsInv
<1>3. row \in Row /\ row.status = "pending"
  BY Zenon, <1>1, ConfigFacts DEF Row, Status
<1>4. rows' = [rows EXCEPT ![a] = row]
  BY Zenon DEF Insert
<1>5. PICK q \in Request :
        /\ Goto(r, q)
        /\ \/ q = Idle
           \/ q.pc = "quota" /\ q.agent = a /\ q.op = req[r].op /\ q.row = row
  <2> HIDE DEF row
  <2>1. [req[r] EXCEPT !.pc = "quota"] \in Request
    BY Zenon, <1>1 DEF Request
  <2>2. [[req[r] EXCEPT !.pc = "quota"] EXCEPT !.row = row] \in Request
    BY Zenon, <1>3, <2>1 DEF Request
  <2>3. Goto(r, [req[r] EXCEPT !.pc = "quota", !.row = row]) \/ Goto(r, Idle)
    BY Zenon DEF Insert, Return, row
  <2>4. QED
    BY Zenon, <1>1, <2>2, <2>3, IdleIsRequest DEF Request
<1> HIDE DEF row
<1>6. /\ req' \in [Requests -> Request] /\ req'[r] = q
      /\ \A p \in Requests : p # r => req'[p] = req[p]
  BY Zenon, <1>1, <1>5, GotoStep
<1>7. /\ rows' \in [Agents -> Row] /\ rows'[a].status = "pending"
      /\ \A b \in Agents : b # a => rows'[b] = rows[b]
  BY Zenon, <1>1, <1>3, <1>4 DEF TypeOK
<1>8. UNCHANGED <<live, known, sched, excused, ops, faults, autoScales>>
  BY Zenon DEF Insert, bounds
<1>9. Idle.pc = "idle" /\ Idle.agent = NoAgent /\ Idle.op = "none"
  BY Zenon DEF Idle
<1>10. \A p \in Requests : p # r /\ Busy(p) => req[p].agent \in Agents /\ req[p].agent # a
  BY Zenon, <1>1, <1>2 DEF TypeOK, Busy
<1>11. TypeOK'
  <2>1. \A p \in Requests : req'[p].pc # "idle" => req'[p].agent \in Agents
    BY Zenon, <1>1, <1>5, <1>6, <1>9 DEF TypeOK
  <2>2. QED
    BY Zenon, <1>1, <1>6, <1>7, <1>8, <2>1 DEF TypeOK
<1>12. Shape'
  BY Zenon, <1>5, <1>6, <1>8, <1>9 DEF IInv, Shape
<1>13. IdsInv'
  <2>1. ASSUME NEW p \in Requests, Creating(p)'
        PROVE  /\ rows'[req'[p].agent].status = "none"
               /\ \A o \in Requests : req'[o].agent = req'[p].agent => o = p
    <3>1. p # r /\ Creating(p) /\ req'[p] = req[p]
      BY Zenon, <1>5, <1>6, <1>9, <2>1 DEF Creating
    <3>2. req[p].agent \in Agents /\ req[p].agent # a
      BY Zenon, <1>10, <3>1 DEF Creating, Busy
    <3>3. rows[req[p].agent].status = "none"
          /\ \A o \in Requests : req[o].agent = req[p].agent => o = p
      BY Zenon, <3>1 DEF IInv, IdsInv
    <3>4. req'[r].agent # req[p].agent
      BY Zenon, <1>5, <1>6, <1>9, <3>2, AgentsAssumption
    <3>5. QED
      BY Zenon, <1>6, <1>7, <3>1, <3>2, <3>3, <3>4
  <2>2. ASSUME NEW p \in Requests, Busy(p)', ~Creating(p)'
        PROVE  rows'[req'[p].agent].status # "none"
    <3>1. CASE p = r
      BY Zenon, <1>5, <1>6, <1>7, <1>9, <2>2, <3>1 DEF Busy
    <3>2. CASE p # r
      BY <1>6, <1>7, <1>10, <2>2, <3>2 DEF IInv, IdsInv, Busy, Creating
    <3>3. QED
      BY Zenon, <3>1, <3>2
  <2>3. QED
    BY Zenon, <2>1, <2>2 DEF IdsInv
<1>14. FreshInv'
  <2>1. PendingHasNoContainers'
    BY Zenon, <1>1, <1>2, <1>7, <1>8 DEF IInv, FreshInv, PendingHasNoContainers
  <2>2. ASSUME NEW p \in Requests, Busy(p)', req'[p].row.status \notin Fresh
        PROVE  rows'[req'[p].agent].status \notin Fresh
    <3>1. p # r
      BY Zenon, <1>3, <1>5, <1>6, <1>9, <2>2 DEF Fresh, Busy
    <3>2. QED
      BY <1>6, <1>7, <1>10, <2>2, <3>1 DEF IInv, FreshInv, Busy
  <2>3. ASSUME NEW b \in sched'.todo PROVE rows'[b].status \notin Fresh
    <3>1. b \in Agents /\ rows[b].status \notin Fresh
      BY Zenon, <1>8, <2>3 DEF IInv, FreshInv, TypeOK, Scheduler
    <3>2. QED
      BY Zenon, <1>2, <1>7, <3>1 DEF Fresh
  <2>4. QED
    BY Zenon, <2>1, <2>2, <2>3 DEF FreshInv
<1>15. OrphanInv'
  <2> SUFFICES ASSUME NEW b \in Agents, b \notin excused
               PROVE  /\ rows'[b].status = "deleted" =>
                            live'[b] = 0 /\ \A p \in Requests : req'[p].agent # b
                      /\ \A p \in Requests :
                            req'[p].agent = b /\ req'[p].op = "delete" =>
                               /\ \A o \in Requests : req'[o].agent = b => o = p
                               /\ req'[p].pc = "erase" => live'[b] = 0
    BY Zenon, <1>8 DEF OrphanInv
  <2>1. \A p \in Requests : req'[p].agent = b =>
              req[p].agent = b /\ req'[p].op = req[p].op /\ (req'[p].pc = "erase" => req[p].pc = "erase")
    BY Zenon, <1>5, <1>6, <1>9, AgentsAssumption
  <2>2. rows'[b].status = "deleted" => rows[b].status = "deleted"
    BY Zenon, <1>7
  <2>3. QED
    BY <1>8, <2>1, <2>2 DEF IInv, OrphanInv
<1>16. QED
  BY Zenon, <1>11, <1>12, <1>13, <1>14, <1>15 DEF IInv

LEMMA BeginCreateStep ==
  ASSUME IInv, NEW r \in Requests, NEW a \in Agents, NEW config \in Configs \cup {NoConfig},
         BeginCreate(r, a, config)
  PROVE  IInv'
<1>1. /\ ~Busy(r) /\ TypeOK /\ rows[a].status = "none"
      /\ \A p \in Requests : req[p].agent # a
      /\ UNCHANGED <<rows, live, known, sched, excused, faults, autoScales>> /\ ops' = ops + 1
  BY Zenon DEF BeginCreate, At, Busy, IInv
<1>2. PICK q \in Request :
        /\ Goto(r, q)
        /\ q.pc \in {"resources", "insert"} /\ q.agent = a /\ q.op = "create" /\ q.row = NoRow
  <2> DEFINE pc == IF config = NoConfig THEN "insert" ELSE "resources"
             q == [pc |-> pc, op |-> "create", agent |-> a, config |-> config, count |-> 0,
                   row |-> NoRow]
  <2>1. config \in Config \cup {NoConfig} /\ pc \in {"resources", "insert"}
    BY Zenon, InputsAssumption
  <2>2. Goto(r, q)
    BY Zenon DEF BeginCreate
  <2> HIDE DEF pc
  <2>3. q \in Request
    BY Zenon, <2>1, IdleIsRequest DEF Request
  <2>4. QED
    BY Zenon, <2>1, <2>2, <2>3
<1>3. /\ req' \in [Requests -> Request] /\ req'[r] = q
      /\ \A p \in Requests : p # r => req'[p] = req[p]
  BY Zenon, <1>1, <1>2, GotoStep
<1>4. TypeOK'
  BY <1>1, <1>2, <1>3 DEF TypeOK
<1>5. Shape'
  BY Zenon, <1>1, <1>2, <1>3 DEF IInv, Shape
<1>6. IdsInv'
  BY <1>1, <1>2, <1>3 DEF IInv, IdsInv, Creating, Busy
<1>7. FreshInv'
  BY <1>1, <1>2, <1>3 DEF IInv, FreshInv, PendingHasNoContainers, Fresh, NoRow, Busy
<1>8. OrphanInv'
  BY <1>1, <1>2, <1>3 DEF IInv, OrphanInv
<1>9. QED
  BY Zenon, <1>4, <1>5, <1>6, <1>7, <1>8 DEF IInv

\* A new request on an agent somebody is deleting, or a new deletion of an agent
\* somebody works on, is what excuses the agent.
LEMMA BeginStep ==
  ASSUME IInv, NEW r \in Requests, NEW op \in {"deploy", "up", "down", "delete"},
         NEW a \in Agents, NEW config \in Configs \cup {NoConfig}, NEW count \in Nat,
         Begin(r, op, a, config, count)
  PROVE  IInv'
<1>1. /\ ~Busy(r) /\ TypeOK /\ Exists(a)
      /\ UNCHANGED <<rows, live, known, sched, faults, autoScales>> /\ ops' = ops + 1
      /\ excused' = IF Overlaps(a, op) THEN excused \cup {a} ELSE excused
  BY Zenon DEF Begin, At, Busy, IInv
<1>2. PICK q \in Request :
        /\ Goto(r, q)
        /\ q.pc \in {"start", "runtime", "quota"} /\ q.agent = a /\ q.op = op
        /\ q.row = rows[a]
        /\ q.pc = "runtime" => op = "delete"
  <2> DEFINE pc == CASE op = "down" -> "start" [] op = "delete" -> "runtime" [] OTHER -> "quota"
             q == [pc |-> pc, op |-> op, agent |-> a, config |-> config, count |-> count,
                   row |-> rows[a]]
  <2>1. config \in Config \cup {NoConfig} /\ rows[a] \in Row
    BY Zenon, <1>1, InputsAssumption DEF TypeOK
  <2>2. pc \in {"start", "runtime", "quota"} /\ (pc = "runtime" => op = "delete")
    BY Zenon
  <2>3. Goto(r, q)
    BY Zenon DEF Begin
  <2> HIDE DEF pc
  <2>4. q \in Request
    BY Zenon, <2>1, <2>2 DEF Request
  <2>5. QED
    BY Zenon, <2>2, <2>3, <2>4
<1>3. /\ req' \in [Requests -> Request] /\ req'[r] = q
      /\ \A p \in Requests : p # r => req'[p] = req[p]
  BY Zenon, <1>1, <1>2, GotoStep
<1>4. TypeOK'
  BY <1>1, <1>2, <1>3 DEF TypeOK
<1>5. Shape'
  BY Zenon, <1>1, <1>2, <1>3 DEF IInv, Shape
<1>6. IdsInv'
  BY <1>1, <1>2, <1>3 DEF IInv, IdsInv, Creating, Busy, Exists
<1>7. FreshInv'
  BY Zenon, <1>1, <1>2, <1>3 DEF IInv, FreshInv, PendingHasNoContainers, Fresh, Busy
<1>8. OrphanInv'
  <2>1. req[r].agent # a
    BY Zenon, <1>1, AgentsAssumption DEF IInv, Shape, Busy
  <2>2. CASE Overlaps(a, op)
    BY <1>1, <1>2, <1>3, <2>1, <2>2 DEF IInv, OrphanInv
  <2>3. CASE ~Overlaps(a, op)
    <3>1. \A p \in Requests : req[p].agent = a => op # "delete" /\ req[p].op # "delete"
      BY Zenon, <2>3 DEF Overlaps
    <3>2. QED
      BY <1>1, <1>2, <1>3, <2>1, <2>3, <3>1 DEF IInv, OrphanInv, Exists
  <2>4. QED
    BY Zenon, <2>2, <2>3
<1>9. QED
  BY Zenon, <1>4, <1>5, <1>6, <1>7, <1>8 DEF IInv

LEMMA RuntimeRemovesStep ==
  ASSUME IInv, NEW r \in Requests, RuntimeRemoves(r)
  PROVE  IInv'
<1> DEFINE a == req[r].agent
<1>1. /\ Busy(r) /\ ~Creating(r) /\ req[r].op = "delete"
      /\ UNCHANGED <<rows, known, sched, ops, faults, autoScales>>
  BY Zenon DEF RuntimeRemoves, At, Busy, Creating, bounds
<1>2. TypeOK /\ a \in Agents /\ req[r] \in Request
  BY Zenon, <1>1, RequestFacts
<1>3. PICK q \in Request :
        /\ Goto(r, q)
        /\ q.pc = "erase" /\ q.agent = a /\ q.op = "delete" /\ q.row = req[r].row
  BY <1>1, <1>2 DEF RuntimeRemoves, Request
<1>4. /\ req' \in [Requests -> Request] /\ req'[r] = q
      /\ \A p \in Requests : p # r => req'[p] = req[p]
  BY Zenon, <1>2, <1>3, GotoStep
<1>5. /\ live' \in [Agents -> Nat] /\ \A b \in Agents : live'[b] = live[b] \/ live'[b] = 0
      /\ excused' \in SUBSET Agents /\ excused \subseteq excused'
      /\ live'[a] = 0 \/ a \in excused'
  BY <1>2 DEF RuntimeRemoves, TypeOK
<1>6. TypeOK'
  BY Zenon, <1>1, <1>2, <1>3, <1>4, <1>5 DEF TypeOK
<1>7. Shape'
  BY Zenon, <1>1, <1>3, <1>4 DEF IInv, Shape
<1>8. IdsInv'
  BY <1>1, <1>3, <1>4 DEF IInv, IdsInv, Creating, Busy
<1>9. FreshInv'
  BY Zenon, <1>1, <1>3, <1>4, <1>5 DEF IInv, FreshInv, PendingHasNoContainers, Busy
<1>10. OrphanInv'
  BY <1>1, <1>3, <1>4, <1>5 DEF IInv, OrphanInv
<1>11. QED
  BY Zenon, <1>6, <1>7, <1>8, <1>9, <1>10 DEF IInv

LEMMA EraseStep ==
  ASSUME IInv, NEW r \in Requests, Erase(r)
  PROVE  IInv'
<1> DEFINE a == req[r].agent
           gone == [NoRow EXCEPT !.status = "deleted"]
<1>1. /\ Busy(r) /\ ~Creating(r) /\ req[r].op = "delete" /\ req[r].pc = "erase"
      /\ UNCHANGED <<live, known, sched, excused, ops, faults, autoScales>>
  BY Zenon DEF Erase, At, Busy, Creating, bounds, IInv, Shape
<1>2. TypeOK /\ a \in Agents
  BY Zenon, <1>1, RequestFacts
<1>3. gone \in Row /\ gone.status = "deleted"
  BY Zenon DEF NoRow, Row, Status
<1>4. rows' = [rows EXCEPT ![a] = gone]
  BY Zenon DEF Erase
<1> HIDE DEF gone
<1>5. /\ rows' \in [Agents -> Row] /\ rows'[a].status = "deleted"
      /\ \A b \in Agents : b # a => rows'[b] = rows[b]
  BY Zenon, <1>2, <1>3, <1>4 DEF TypeOK
<1>6. /\ req' \in [Requests -> Request] /\ req'[r] = Idle
      /\ \A p \in Requests : p # r => req'[p] = req[p]
  BY Zenon, <1>2, GotoStep, IdleIsRequest DEF Erase, Return
<1>7. Idle.pc = "idle" /\ Idle.agent = NoAgent /\ Idle.op = "none"
  BY Zenon DEF Idle
<1>8. rows[a].status # "none"
  BY Zenon, <1>1 DEF IInv, IdsInv
<1>9. TypeOK'
  BY Zenon, <1>1, <1>2, <1>5, <1>6, <1>7 DEF TypeOK
<1>10. Shape'
  BY Zenon, <1>1, <1>6, <1>7 DEF IInv, Shape
<1>11. IdsInv'
  <2>1. ASSUME NEW p \in Requests, Creating(p)'
        PROVE  /\ rows'[req'[p].agent].status = "none"
               /\ \A o \in Requests : req'[o].agent = req'[p].agent => o = p
    <3>1. p # r /\ Creating(p) /\ req'[p] = req[p] /\ req[p].agent \in Agents
      BY Zenon, <1>2, <1>6, <1>7, <2>1 DEF Creating, TypeOK
    <3>2. rows[req[p].agent].status = "none"
          /\ \A o \in Requests : req[o].agent = req[p].agent => o = p
      BY Zenon, <3>1 DEF IInv, IdsInv
    <3>3. req[p].agent # a /\ req[p].agent # NoAgent
      BY Zenon, <1>8, <3>1, <3>2, AgentsAssumption
    <3>4. QED
      BY Zenon, <1>5, <1>6, <1>7, <3>1, <3>2, <3>3
  <2>2. ASSUME NEW p \in Requests, Busy(p)', ~Creating(p)'
        PROVE  rows'[req'[p].agent].status # "none"
    <3>1. p # r /\ Busy(p) /\ ~Creating(p) /\ req'[p] = req[p] /\ req[p].agent \in Agents
      BY Zenon, <1>2, <1>6, <1>7, <2>2 DEF Creating, Busy, TypeOK
    <3>2. QED
      BY Zenon, <1>5, <3>1 DEF IInv, IdsInv
  <2>3. QED
    BY Zenon, <2>1, <2>2 DEF IdsInv
<1>12. FreshInv'
  <2>1. PendingHasNoContainers'
    BY Zenon, <1>1, <1>5 DEF IInv, FreshInv, PendingHasNoContainers
  <2>2. ASSUME NEW p \in Requests, Busy(p)', req'[p].row.status \notin Fresh
        PROVE  rows'[req'[p].agent].status \notin Fresh
    <3>1. Busy(p) /\ req'[p] = req[p] /\ req[p].agent \in Agents
      BY Zenon, <1>2, <1>6, <1>7, <2>2 DEF Busy, TypeOK
    <3>2. QED
      BY Zenon, <1>5, <2>2, <3>1 DEF IInv, FreshInv, Fresh
  <2>3. ASSUME NEW b \in sched'.todo PROVE rows'[b].status \notin Fresh
    <3>1. b \in Agents /\ rows[b].status \notin Fresh
      BY Zenon, <1>1, <2>3 DEF IInv, FreshInv, TypeOK, Scheduler
    <3>2. QED
      BY Zenon, <1>5, <3>1 DEF Fresh
  <2>4. QED
    BY Zenon, <2>1, <2>2, <2>3 DEF FreshInv
<1>13. OrphanInv'
  <2> SUFFICES ASSUME NEW b \in Agents, b \notin excused
               PROVE  /\ rows'[b].status = "deleted" =>
                            live'[b] = 0 /\ \A p \in Requests : req'[p].agent # b
                      /\ \A p \in Requests :
                            req'[p].agent = b /\ req'[p].op = "delete" =>
                               /\ \A o \in Requests : req'[o].agent = b => o = p
                               /\ req'[p].pc = "erase" => live'[b] = 0
    BY Zenon, <1>1 DEF OrphanInv
  <2>1. \A p \in Requests : req'[p].agent = b => p # r /\ req'[p] = req[p]
    BY Zenon, <1>6, <1>7, AgentsAssumption
  <2>2. CASE b = a
    <3>1. live[a] = 0 /\ \A p \in Requests : req[p].agent = a => p = r
      BY Zenon, <1>1, <1>2, <2>2 DEF IInv, OrphanInv
    <3>2. QED
      BY Zenon, <1>1, <2>1, <2>2, <3>1
  <2>3. CASE b # a
    BY <1>1, <1>5, <2>1, <2>3 DEF IInv, OrphanInv
  <2>4. QED
    BY Zenon, <2>2, <2>3
<1>14. QED
  BY Zenon, <1>9, <1>10, <1>11, <1>12, <1>13 DEF IInv

-----------------------------------------------------------------------------
(* The scheduler *)

\* What the tick's steps have in common: they write the row of one started agent
\* and change the number of its containers only where there are some.
SchedulerMove ==
    /\ UNCHANGED <<known, req, excused>>
    /\ ops' \in Nat /\ faults' \in Nat /\ autoScales' \in Nat
    /\ rows' \in [Agents -> Row] /\ live' \in [Agents -> Nat]
    /\ \A b \in Agents :
          /\ \/ rows'[b].status = rows[b].status
             \/ Exists(b) /\ rows'[b].status \notin {"none", "pending", "deleted"}
          /\ live'[b] # live[b] => live[b] > 0
    /\ sched' \in Scheduler
    /\ sched'.pc # "next" => sched'.agent \in sched'.todo
    /\ \A b \in sched'.todo : b \in sched.todo \/ rows[b].status \notin Fresh

\* Such a step preserves the invariant.
LEMMA SchedulerMoves ==
  ASSUME IInv, SchedulerMove
  PROVE  IInv'
<1> USE DEF SchedulerMove
<1>0. /\ TypeOK /\ sched'.todo \subseteq Agents /\ sched.todo \subseteq Agents
      /\ \A p \in Requests : Busy(p) => req[p].agent \in Agents
  BY Zenon DEF IInv, TypeOK, Scheduler, Busy
<1>1. TypeOK'
  BY Zenon, <1>0 DEF TypeOK
<1>2. Shape'
  BY Zenon DEF IInv, Shape
<1>3. IdsInv'
  <2>1. \A p \in Requests : Creating(p) => Busy(p)
    BY Zenon DEF Creating, Busy
  <2>2. QED
    BY Zenon, <1>0, <2>1 DEF IInv, IdsInv, Exists, Creating, Busy
<1>4. FreshInv'
  <2>1. PendingHasNoContainers'
    BY DEF IInv, FreshInv, PendingHasNoContainers
  <2>2. QED
    BY Zenon, <1>0, <2>1 DEF IInv, FreshInv, Fresh, Busy
<1>5. OrphanInv'
  <2> SUFFICES ASSUME NEW b \in Agents, b \notin excused
               PROVE  /\ rows'[b].status = "deleted" =>
                            live'[b] = 0 /\ \A p \in Requests : req[p].agent # b
                      /\ \A p \in Requests :
                            req[p].agent = b /\ req[p].op = "delete" =>
                               /\ \A o \in Requests : req[o].agent = b => o = p
                               /\ req[p].pc = "erase" => live'[b] = 0
    BY Zenon DEF OrphanInv
  <2>1. live[b] = 0 => live'[b] = 0
    OBVIOUS
  <2>2. QED
    BY Zenon, <2>1 DEF IInv, OrphanInv
<1>6. QED
  BY Zenon, <1>1, <1>2, <1>3, <1>4, <1>5 DEF IInv

LEMMA RestingFacts ==
  /\ Resting \in Scheduler
  /\ Resting.pc = "next" /\ Resting.todo = {}
  BY Zenon, IdleIsRequest DEF Resting, Scheduler

\* After an agent the tick is over or has fewer agents to do.
LEMMA NextAgentFacts ==
  ASSUME sched \in Scheduler, NEW row \in [Agents -> Row], NextAgent(row)
  PROVE  sched' \in Scheduler /\ sched'.pc = "next" /\ sched'.todo \subseteq sched.todo
<1> DEFINE rest == sched.todo \ {sched.agent}
           s1 == [sched EXCEPT !.pc = "next", !.todo = rest, !.agent = NoAgent,
                               !.row = row, !.seen = 0, !.down = FALSE]
<1>1. sched' = Resting \/ sched' = s1
  BY Zenon DEF NextAgent
<1>2. s1 \in Scheduler /\ s1.pc = "next" /\ s1.todo = rest
  BY Zenon DEF Scheduler
<1> HIDE DEF s1
<1>3. QED
  BY Zenon, <1>1, <1>2, RestingFacts

LEMMA TickBeginsStep ==
  ASSUME IInv, TickBegins
  PROVE  IInv'
<1> DEFINE active == {a \in Agents : rows[a].status \in Active}
           row == [a \in Agents |-> IF a \in active THEN rows[a] ELSE NoRow]
           s1 == [Resting EXCEPT !.loaded = active, !.todo = active, !.row = row]
<1>1. sched' = s1 /\ UNCHANGED <<rows, live, known, req, excused, ops, faults, autoScales>>
  BY Zenon DEF TickBegins, bounds
<1>2. row \in [Agents -> Row]
  BY Zenon, IdleIsRequest DEF IInv, TypeOK
<1>3. s1 \in Scheduler /\ s1.pc = "next" /\ s1.todo = active
  <2> HIDE DEF row, active
  <2>1. active \in SUBSET Agents
    BY Zenon DEF active
  <2>2. QED
    BY Zenon, <1>2, <2>1, IdleIsRequest DEF Resting, Scheduler
<1> HIDE DEF s1
<1>4. \A b \in active : rows[b].status \notin Fresh
  BY Zenon DEF Active, Fresh
<1>5. SchedulerMove
  BY Zenon, <1>1, <1>3, <1>4 DEF SchedulerMove, IInv, TypeOK
<1>6. QED
  BY Zenon, <1>5, SchedulerMoves

LEMMA HealthCheckStep ==
  ASSUME IInv, NEW a \in Agents, HealthCheck(a) \/ HealthCheckFindsDown(a) \/ HealthCheckError(a)
  PROVE  IInv'
<1>1. /\ a \in sched.todo /\ sched \in Scheduler /\ Reported(a) \in Nat
      /\ UNCHANGED <<rows, live, known, req, excused, ops, autoScales>> /\ faults' \in Nat
  BY DEF HealthCheck, HealthCheckFindsDown, HealthCheckError, IInv, TypeOK, bounds, Reported
<1>2. /\ sched' \in Scheduler /\ sched'.todo \subseteq sched.todo
      /\ sched'.pc # "next" => sched'.agent \in sched'.todo
  <2>1. CASE HealthCheck(a)
    BY Zenon, <1>1, <2>1 DEF HealthCheck, Scheduler
  <2>2. CASE HealthCheckFindsDown(a)
    BY Zenon, <1>1, <2>2 DEF HealthCheckFindsDown, Scheduler
  <2>3. CASE HealthCheckError(a)
    <3>1. sched.pc = "next"
          /\ (sched' = Resting \/ sched' = [sched EXCEPT !.todo = @ \ {a}])
      BY Zenon, <2>3 DEF HealthCheckError
    <3>2. [sched EXCEPT !.todo = @ \ {a}] \in Scheduler
      BY Zenon, <1>1 DEF Scheduler
    <3>3. QED
      BY <1>1, <3>1, <3>2, RestingFacts DEF Scheduler
  <2>4. QED
    BY Zenon, <2>1, <2>2, <2>3
<1>3. SchedulerMove
  BY Zenon, <1>1, <1>2 DEF SchedulerMove, IInv, TypeOK
<1>4. QED
  BY Zenon, <1>3, SchedulerMoves

LEMMA SyncStep ==
  ASSUME IInv, Sync
  PROVE  IInv'
<1> DEFINE a == sched.agent
           old == sched.row[a]
           new == [old EXCEPT !.replicas = sched.seen,
                              !.status = IF sched.seen = 0 THEN "stopped"
                                         ELSE IF sched.down THEN "crashed"
                                         ELSE IF old.status # "scaling" THEN "running"
                                         ELSE old.status]
           row == [sched.row EXCEPT ![a] = new]
<1>1. /\ TypeOK /\ sched \in Scheduler /\ sched.pc = "sync" /\ a \in Agents /\ a \in sched.todo
      /\ UNCHANGED <<live, known, req, excused, ops, faults, autoScales>>
  BY Zenon DEF Sync, IInv, TypeOK, Shape, bounds
<1>2. old \in Row /\ sched.seen \in Nat /\ sched.row \in [Agents -> Row]
  BY Zenon, <1>1 DEF Scheduler
<1>3. new \in Row /\ (new.status # old.status => new.status \in {"stopped", "crashed", "running"})
  <2> HIDE DEF old
  <2>1. QED
    BY Zenon, <1>2 DEF Row, Status
<1>4. /\ Save(a, old, new)
      /\ \/ sched' = Resting
         \/ sched' = [sched EXCEPT !.pc = "headroom", !.row = row]
         \/ NextAgent(row)
  BY Zenon DEF Sync
<1> HIDE DEF new
<1>5. row \in [Agents -> Row]
  BY Zenon, <1>1, <1>2, <1>3
<1>6. /\ rows' \in [Agents -> Row]
      /\ \A b \in Agents : b # a => rows'[b] = rows[b]
      /\ \/ rows'[a].status = rows[a].status
         \/ Exists(a) /\ rows'[a].status \in {"stopped", "crashed", "running"}
  <2> HIDE DEF a, old
  <2>1. QED
    BY Zenon, <1>1, <1>2, <1>3, <1>4, SaveStep
<1> HIDE DEF row
<1>7. /\ sched' \in Scheduler /\ sched'.todo \subseteq sched.todo
      /\ sched'.pc # "next" => sched'.agent \in sched'.todo
  <2>1. CASE sched' = Resting
    BY Zenon, <2>1, RestingFacts
  <2>2. CASE sched' = [sched EXCEPT !.pc = "headroom", !.row = row]
    BY Zenon, <1>1, <1>5, <2>2 DEF Scheduler
  <2>3. CASE NextAgent(row)
    BY Zenon, <1>1, <1>5, <2>3, NextAgentFacts
  <2>4. QED
    BY Zenon, <1>4, <2>1, <2>2, <2>3
<1>8. SchedulerMove
  <2> HIDE DEF a
  <2>1. QED
    BY Zenon, <1>1, <1>6, <1>7 DEF SchedulerMove, TypeOK
<1>9. QED
  BY Zenon, <1>8, SchedulerMoves

LEMMA HeadroomStep ==
  ASSUME IInv, Headroom
  PROVE  IInv'
<1>1. /\ sched \in Scheduler /\ sched.pc = "headroom" /\ sched.agent \in sched.todo
      /\ sched.row \in [Agents -> Row]
      /\ UNCHANGED <<rows, live, known, req, excused, ops, faults, autoScales>>
  BY Zenon DEF Headroom, IInv, TypeOK, Shape, Scheduler, bounds
<1>2. /\ sched' \in Scheduler /\ sched'.todo \subseteq sched.todo
      /\ sched'.pc # "next" => sched'.agent \in sched'.todo
  <2>1. CASE sched' = [sched EXCEPT !.pc = "autoscale"]
    BY Zenon, <1>1, <2>1 DEF Scheduler
  <2>2. CASE NextAgent(sched.row)
    BY Zenon, <1>1, <2>2, NextAgentFacts
  <2>3. QED
    BY Zenon, <2>1, <2>2 DEF Headroom
<1>3. SchedulerMove
  BY Zenon, <1>1, <1>2 DEF SchedulerMove, IInv, TypeOK
<1>4. QED
  BY <1>3, SchedulerMoves

LEMMA AutoScaleStep ==
  ASSUME IInv, AutoScale
  PROVE  IInv'
<1>1. /\ TypeOK /\ sched \in Scheduler /\ sched.agent \in Agents
      /\ sched.row \in [Agents -> Row]
      /\ UNCHANGED <<rows, known, req, excused, ops, faults>> /\ NextAgent(sched.row)
  BY Zenon DEF AutoScale, IInv, TypeOK, Scheduler
<1>2. /\ live' \in [Agents -> Nat] /\ autoScales' \in Nat
      /\ \A b \in Agents : live'[b] # live[b] => live[b] > 0
  BY <1>1, BoundsAssumption DEF AutoScale, TypeOK, Reported
<1>3. sched' \in Scheduler /\ sched'.pc = "next" /\ sched'.todo \subseteq sched.todo
  BY Zenon, <1>1, NextAgentFacts
<1>4. SchedulerMove
  BY Zenon, <1>1, <1>2, <1>3 DEF SchedulerMove, TypeOK
<1>5. QED
  BY <1>4, SchedulerMoves

LEMMA TickAbortsStep ==
  ASSUME IInv, TickAborts
  PROVE  IInv'
<1>1. /\ sched' = Resting
      /\ UNCHANGED <<rows, live, known, req, excused, ops, autoScales>> /\ faults' \in Nat
  BY DEF TickAborts, IInv, TypeOK
<1>2. SchedulerMove
  BY Zenon, <1>1, RestingFacts DEF SchedulerMove, IInv, TypeOK
<1>3. QED
  BY <1>2, SchedulerMoves

-----------------------------------------------------------------------------
(* The environment *)

LEMMA ContainerDiesStep ==
  ASSUME IInv, NEW a \in Agents, ContainerDies(a)
  PROVE  IInv'
<1>1. /\ UNCHANGED <<rows, known, req, sched, excused, ops, autoScales>> /\ faults' \in Nat
      /\ live' \in [Agents -> Nat]
      /\ \A b \in Agents : live'[b] # live[b] => live[b] > 0
  BY DEF ContainerDies, IInv, TypeOK
<1>2. SchedulerMove
  BY Zenon, <1>1 DEF SchedulerMove, IInv, TypeOK, Shape
<1>3. QED
  BY Zenon, <1>2, SchedulerMoves

LEMMA CrashStep ==
  ASSUME IInv, NEW reconciled \in BOOLEAN, CrashAndRestart(reconciled)
  PROVE  IInv'
<1>1. /\ req' = [r \in Requests |-> Idle] /\ sched' = Resting
      /\ known' \in SUBSET Agents /\ faults' \in Nat
      /\ UNCHANGED <<rows, live, excused, ops, autoScales>>
  BY DEF CrashAndRestart, IInv, TypeOK
<1>2. Idle.pc = "idle" /\ Idle.agent = NoAgent /\ Idle.op = "none"
  BY Zenon DEF Idle
<1>3. TypeOK'
  BY Zenon, <1>1, <1>2, RestingFacts, IdleIsRequest DEF IInv, TypeOK
<1>4. Shape'
  BY Zenon, <1>1, <1>2, RestingFacts DEF Shape
<1>5. IdsInv'
  BY Zenon, <1>1, <1>2 DEF IdsInv, Busy, Creating
<1>6. FreshInv'
  BY Zenon, <1>1, <1>2, RestingFacts DEF IInv, FreshInv, PendingHasNoContainers, Busy
<1>7. OrphanInv'
  BY Zenon, <1>1, <1>2, AgentsAssumption DEF IInv, OrphanInv
<1>8. QED
  BY Zenon, <1>3, <1>4, <1>5, <1>6, <1>7 DEF IInv

-----------------------------------------------------------------------------
LEMMA InitIInv == Init => IInv
<1> SUFFICES ASSUME Init PROVE IInv
  BY Zenon
<1>1. Idle.pc = "idle" /\ Idle.agent = NoAgent /\ Idle.op = "none" /\ NoRow.status = "none"
  BY Zenon DEF Idle, NoRow
<1>2. TypeOK
  BY Zenon, <1>1, RestingFacts, IdleIsRequest DEF Init, TypeOK
<1>3. Shape /\ IdsInv
  BY Zenon, <1>1, RestingFacts DEF Init, Shape, IdsInv, Busy, Creating
<1>4. FreshInv /\ OrphanInv
  BY Zenon, <1>1, RestingFacts, AgentsAssumption
     DEF Init, FreshInv, PendingHasNoContainers, OrphanInv, Busy
<1>5. QED
  BY Zenon, <1>2, <1>3, <1>4 DEF IInv

LEMMA NextIInv == IInv /\ [Next]_vars => IInv'
<1> SUFFICES ASSUME IInv, [Next]_vars PROVE IInv'
  BY Zenon
<1>1. ASSUME NEW r \in Requests, NewRequest(r) PROVE IInv'
  <2>1. PICK a \in Agents :
          \/ \E config \in Configs \cup {NoConfig} :
                \/ BeginCreate(r, a, config)
                \/ Begin(r, "deploy", a, config, 0)
          \/ \E op \in {"up", "down"}, count \in Counts : Begin(r, op, a, NoConfig, count)
          \/ Begin(r, "delete", a, NoConfig, 0)
    BY Zenon, <1>1 DEF NewRequest
  <2>2. ASSUME NEW config \in Configs \cup {NoConfig}, BeginCreate(r, a, config) PROVE IInv'
    BY Zenon, <2>2, BeginCreateStep
  <2>3. ASSUME NEW config \in Configs \cup {NoConfig}, Begin(r, "deploy", a, config, 0)
        PROVE  IInv'
    BY Zenon, <2>3, BeginStep
  <2>4. ASSUME NEW op \in {"up", "down"}, NEW count \in Counts, Begin(r, op, a, NoConfig, count)
        PROVE  IInv'
    <3>1. count \in Nat
      BY Zenon, InputsAssumption
    <3>2. QED
      BY Zenon, <2>4, <3>1, BeginStep
  <2>5. CASE Begin(r, "delete", a, NoConfig, 0)
    BY Zenon, <2>5, BeginStep
  <2>6. QED
    BY Zenon, <2>1, <2>2, <2>3, <2>4, <2>5
<1>2. ASSUME NEW r \in Requests, RequestStep(r) PROVE IInv'
  BY Zenon, <1>2, CheckResourcesStep, InsertStep, QuotaStep, ApplyStep, RefreshStep, StartStep,
     RuntimeDeploysStep, FinishStep, RuntimeScalesStep, RuntimeRemovesStep, EraseStep
     DEF RequestStep
<1>3. ASSUME NEW r \in Requests, RequestError(r) PROVE IInv'
  BY Zenon, <1>3, RuntimeDeployFailsStep, RequestAbortsStep DEF RequestError
<1>4. CASE SchedulerStep
  BY Zenon, <1>4, TickBeginsStep, HealthCheckStep, SyncStep, HeadroomStep, AutoScaleStep
     DEF SchedulerStep
<1>5. CASE SchedulerError
  BY Zenon, <1>5, HealthCheckStep, TickAbortsStep DEF SchedulerError
<1>6. CASE Fault
  BY Zenon, <1>6, ContainerDiesStep, CrashStep DEF Fault
<1>7. CASE UNCHANGED vars
  <2>1. UNCHANGED <<rows, live, known, req, sched, excused, ops, faults, autoScales>>
    BY Zenon, <1>7 DEF vars, bounds
  <2>2. SchedulerMove
    BY Zenon, <2>1 DEF SchedulerMove, IInv, TypeOK, Shape
  <2>3. QED
    BY Zenon, <2>2, SchedulerMoves
<1>8. QED
  BY Zenon, <1>1, <1>2, <1>3, <1>4, <1>5, <1>6, <1>7 DEF Next

\* The inductive invariant: what every handler and the tick may rely on at each of
\* their awaits.
THEOREM SpecIInv == Spec => []IInv
  BY InitIInv, NextIInv, PTL DEF Spec

\* Rows, requests and the scheduler keep their types in every behaviour: a status
\* is one of AgentStatus, a replica count never negative.
THEOREM TypeCorrect == Spec => []TypeOK
<1>1. IInv => TypeOK
  BY Zenon DEF IInv
<1>2. QED
  BY <1>1, SpecIInv, PTL

\* deploy_agent commits "starting" before Docker is touched: for any number of
\* agents and of overlapping requests, ticks, errors and crashes an agent shown
\* as never deployed has no container.
THEOREM PendingHasNoContainersHolds == Spec => []PendingHasNoContainers
<1>1. IInv => PendingHasNoContainers
  BY Zenon DEF IInv, FreshInv
<1>2. QED
  BY <1>1, SpecIInv, PTL

\* delete_agent leaves containers behind only where another request worked on the
\* agent during the deletion, or the runtime did not know its containers.
THEOREM OrphansAreExcusedHolds == Spec => []OrphansAreExcused
<1>1. IInv => OrphansAreExcused
  BY DEF IInv, OrphanInv, OrphansAreExcused, TypeOK
<1>2. QED
  BY <1>1, SpecIInv, PTL

-----------------------------------------------------------------------------
(* One request at a time, no faults (SerialSpec) *)

SerialInv ==
    /\ known = Agents /\ excused = {}
    /\ \A p, q \in Requests : Busy(p) /\ Busy(q) => p = q
    /\ sched # Resting => Quiet

LEMMA SerialIsNext == [SerialNext]_vars => [Next]_vars
  BY Zenon DEF SerialNext, Next

\* The request r is the only one at work.
Alone(r) == sched = Resting /\ \A q \in Requests \ {r} : At(q, "idle")

\* An idle request overlaps with nothing.
LEMMA NoOverlap ==
  ASSUME IInv, NEW r \in Requests, Alone(r), At(r, "idle"), NEW a \in Agents, NEW op
  PROVE  ~Overlaps(a, op)
<1>1. \A q \in Requests : req[q].agent = NoAgent
  BY Zenon DEF Alone, At, IInv, Shape
<1>2. QED
  BY Zenon, <1>1, AgentsAssumption DEF Overlaps

\* It moves nobody else, and takes care of its own agent.
LEMMA AloneStep ==
  ASSUME IInv, SerialInv, NEW r \in Requests, Alone(r), NewRequest(r) \/ RequestStep(r)
  PROVE  /\ \A q \in Requests \ {r} : req'[q] = req[q]
         /\ UNCHANGED <<sched, known, excused>>
<1>1. ASSUME NewRequest(r)
      PROVE  /\ \A q \in Requests \ {r} : req'[q] = req[q]
             /\ UNCHANGED <<sched, known, excused>>
  <2>1. ASSUME NEW a \in Agents, NEW config, BeginCreate(r, a, config)
        PROVE  /\ \A q \in Requests \ {r} : req'[q] = req[q]
               /\ UNCHANGED <<sched, known, excused>>
    BY Zenon, <2>1 DEF BeginCreate, Goto, IInv, TypeOK
  <2>2. ASSUME NEW a \in Agents, NEW config, NEW op, NEW count, Begin(r, op, a, config, count)
        PROVE  /\ \A q \in Requests \ {r} : req'[q] = req[q]
               /\ UNCHANGED <<sched, known, excused>>
    <3>1. ~Overlaps(a, op)
      BY Zenon, <2>2, NoOverlap DEF Begin
    <3>2. QED
      BY Zenon, <2>2, <3>1 DEF Begin, Goto, IInv, TypeOK
  <2>3. QED
    BY Zenon, <1>1, <2>1, <2>2 DEF NewRequest
<1>2. ASSUME RequestStep(r)
      PROVE  /\ \A q \in Requests \ {r} : req'[q] = req[q]
             /\ UNCHANGED <<sched, known, excused>>
  <2>1. Busy(r)
    BY Zenon, <1>2 DEF RequestStep, CheckResources, Insert, Quota, Apply, Refresh, Start,
                RuntimeDeploys, FinishDeploy, Fail, RuntimeScales, FinishScale, RuntimeRemoves,
                Erase, At, Busy
  <2>2. req[r].agent \in known
    BY Zenon, <2>1, RequestFacts DEF SerialInv
  <2>3. \E q : req' = [req EXCEPT ![r] = q]
    BY ZenonT(30), <1>2 DEF RequestStep, CheckResources, Insert, Quota, Apply, Refresh, Start,
                RuntimeDeploys, FinishDeploy, Fail, RuntimeScales, FinishScale, RuntimeRemoves,
                Erase, Goto, Return
  <2>4. UNCHANGED sched /\ UNCHANGED excused
    BY ZenonT(30), <1>2, <2>2 DEF RequestStep, CheckResources, Insert, Quota, Apply, Refresh, Start,
                RuntimeDeploys, FinishDeploy, Fail, RuntimeScales, FinishScale, RuntimeRemoves,
                Erase
  <2>5. known' = known \/ known' = known \cup {req[r].agent}
    BY ZenonT(30), <1>2 DEF RequestStep, CheckResources, Insert, Quota, Apply, Refresh, Start,
                RuntimeDeploys, FinishDeploy, Fail, RuntimeScales, FinishScale, RuntimeRemoves,
                Erase
  <2>6. QED
    BY ZenonT(30), <2>2, <2>3, <2>4, <2>5 DEF IInv, TypeOK
<1>3. QED
  BY Zenon, <1>1, <1>2

LEMMA SchedulerKeeps ==
  ASSUME SchedulerStep
  PROVE  UNCHANGED <<known, req, excused>>
  BY Zenon DEF SchedulerStep, TickBegins, HealthCheck, Sync, Headroom, AutoScale

LEMMA SerialStep == IInv /\ SerialInv /\ [SerialNext]_vars => SerialInv'
<1> SUFFICES ASSUME IInv, SerialInv, [SerialNext]_vars PROVE SerialInv'
  BY Zenon
<1>1. ASSUME NEW r \in Requests, Alone(r), NewRequest(r) \/ RequestStep(r)
      PROVE  SerialInv'
  BY <1>1, AloneStep DEF Alone, SerialInv, At, Busy
<1>2. CASE Quiet /\ SchedulerStep
  BY Zenon, <1>2, SchedulerKeeps DEF SerialInv, Quiet, At, Busy
<1>3. CASE UNCHANGED vars
  BY Zenon, <1>3 DEF vars, SerialInv, Quiet, At, Busy
<1>4. QED
  BY Zenon, <1>1, <1>2, <1>3 DEF SerialNext, Alone

THEOREM SerialSpecInv == SerialSpec => [](IInv /\ SerialInv)
<1>1. Init => SerialInv
  BY DEF Init, SerialInv, Busy, Idle
<1>2. IInv /\ SerialInv /\ [SerialNext]_vars => IInv' /\ SerialInv'
  BY Zenon, SerialIsNext, NextIInv, SerialStep
<1>3. QED
  BY <1>1, <1>2, InitIInv, PTL DEF SerialSpec

-----------------------------------------------------------------------------
(* The plan covers the containers *)

\* The replicas a table holds for the active agents other than a: what the quota holds
\* against a (CurrentUsage).
HeldByOthers(table, a) ==
    SumFunctionOnSet([b \in Agents |-> table[b].replicas],
                     {b \in Agents \ {a} : table[b].status \in Active})

\* A request whose agent may have more containers than its row has replicas: the row
\* has the new configuration already, or not yet the outcome of the scaling.
Uncovered(q) ==
    \/ q.op = "deploy" /\ q.pc \in {"refresh", "start", "runtime"}
    \/ q.op \in {"up", "down"} /\ q.pc = "finish"

\* The containers the request may have its agent run.
Target(q) ==
    CASE q.pc \in {"apply", "refresh"} -> q.config.replicas
      [] q.op = "up"                   -> q.row.replicas + q.count
      [] OTHER                         -> q.row.replicas

\* What request q relies on from one await to the next, for its agent's row, its n
\* containers and the replicas of the other agents: the row is there and as it was
\* loaded, and the quota that was granted still holds.
HeldAs(q, row, n, used) ==
    /\ ~q.config.build
    /\ q.pc \in {"apply", "refresh"} => q.op = "deploy"
    /\ q.pc = "fail" => q.op \in {"up", "down"}
    /\ q.pc \notin {"resources", "insert"} => row.status \notin {"none", "deleted"}
    /\ q.pc \notin {"resources", "insert", "refresh"} => row = q.row
    /\ q.pc = "refresh" => row.replicas = q.config.replicas /\ ~row.build
    /\ q.pc = "finish" /\ q.op \in {"create", "deploy"} => q.count = n
    /\ q.pc \in {"apply", "refresh", "start", "runtime"} /\ q.op \in {"create", "deploy", "up"}
         => used + Target(q) <= PlanReplicas

Held(q) == HeldAs(q, rows[q.agent], live[q.agent], HeldByOthers(rows, q.agent))

\* What the quota reads covers the containers: no agent has more of them than its row
\* has replicas, but for the agent of a request that is about to put it right.
CoverInv ==
    \A a \in Agents : \/ live[a] <= rows[a].replicas
                      \/ \E r \in Requests : req[r].agent = a /\ Uncovered(req[r])

HeldInv == \A r \in Requests : Busy(r) => Held(req[r])

\* The tick works on rows as they are, and on what Docker still runs.
TickInv ==
    /\ \A a \in sched.todo : sched.row[a] = rows[a]
    /\ sched.pc = "sync" => sched.seen = live[sched.agent]

PlanInv == CoverInv /\ HeldInv /\ TickInv

LEMMA UsageIsHeldByOthers ==
  ASSUME NEW a
  PROVE  CurrentUsage({a}) = HeldByOthers(rows, a)
  BY Zenon DEF CurrentUsage, HeldByOthers

LEMMA HeldByOthersType ==
  ASSUME NEW table \in [Agents -> Row], NEW a
  PROVE  HeldByOthers(table, a) \in Nat
<1> DEFINE S == {b \in Agents \ {a} : table[b].status \in Active}
           f == [b \in Agents |-> table[b].replicas]
<1>1. IsFiniteSet(S)
  BY Zenon, AgentsAssumption, FS_Subset
<1>2. \A b \in S : f[b] \in Nat
  BY Zenon DEF Row
<1>3. HeldByOthers(table, a) = SumFunctionOnSet(f, S)
  BY Zenon DEF HeldByOthers
<1> HIDE DEF S, f
<1>4. QED
  BY Zenon, <1>1, <1>2, <1>3, SumType

\* What the quota holds against agent a does not depend on its own row.
LEMMA HeldByOthersKept ==
  ASSUME NEW a, NEW table, NEW other, \A b \in Agents : b # a => table[b] = other[b]
  PROVE  HeldByOthers(table, a) = HeldByOthers(other, a)
<1> DEFINE S == {b \in Agents \ {a} : table[b].status \in Active}
           f == [b \in Agents |-> table[b].replicas]
           g == [b \in Agents |-> other[b].replicas]
<1>1. IsFiniteSet(S)
  BY Zenon, AgentsAssumption, FS_Subset
<1>2. \A b \in S : f[b] = g[b]
  BY Zenon
<1>3. {b \in Agents \ {a} : other[b].status \in Active} = S
  BY Zenon
<1>4. HeldByOthers(table, a) = SumFunctionOnSet(f, S)
      /\ HeldByOthers(other, a) = SumFunctionOnSet(g, S)
  BY Zenon, <1>3 DEF HeldByOthers
<1> HIDE DEF S, f, g
<1>5. QED
  BY Zenon, <1>1, <1>2, <1>4, SumEqual

\* A commit of a session whose row is as it was loaded writes what it says.
LEMMA SaveLoaded ==
  ASSUME TypeOK, NEW a \in Agents, NEW new \in Row, Exists(a), Save(a, rows[a], new)
  PROVE  /\ CanSave(a, rows[a], new)
         /\ rows'[a] = new
         /\ \A b \in Agents : b # a => rows'[b] = rows[b]
<1>1. CanSave(a, rows[a], new)
  BY Zenon DEF CanSave
<1>2. Merge(rows[a], rows[a], new) = new
  BY Zenon DEF Merge, Row, TypeOK
<1>3. QED
  BY Zenon, <1>1, <1>2 DEF Save, TypeOK

\* What every step of a request alone at work comes to: r goes on as q or returns,
\* touching agent a only and leaving its row in order.
PlanMove(r, a, q) ==
    /\ Goto(r, q)
    /\ \A b \in Agents : b # a => rows'[b] = rows[b] /\ live'[b] = live[b]
    /\ live'[a] <= rows'[a].replicas \/ (q.agent = a /\ Uncovered(q))
    /\ q = Idle \/ (q.agent = a /\ HeldAs(q, rows'[a], live'[a], HeldByOthers(rows, a)))

LEMMA PlanMoves ==
  ASSUME IInv, PlanInv, NEW r \in Requests, Alone(r), UNCHANGED sched,
         NEW a \in Agents, req[r].agent \in {a, NoAgent},
         NEW q \in Request, PlanMove(r, a, q)
  PROVE  PlanInv'
<1>1. /\ req'[r] = q
      /\ \A p \in Requests : p # r => req'[p].pc = "idle" /\ req[p].pc = "idle"
  BY Zenon, GotoStep DEF IInv, Alone, At, PlanMove
<1>2. CoverInv'
  <2> SUFFICES ASSUME NEW b \in Agents
               PROVE  \/ live'[b] <= rows'[b].replicas
                      \/ \E p \in Requests : req'[p].agent = b /\ Uncovered(req'[p])
    BY Zenon DEF CoverInv, Uncovered
  <2>1. CASE b = a
    BY Zenon, <1>1, <2>1 DEF PlanMove
  <2>2. CASE b # a
    <3>1. \A p \in Requests : ~(req[p].agent = b /\ Uncovered(req[p]))
      BY Zenon, <1>1, <2>2, AgentsAssumption DEF Uncovered
    <3>2. live[b] <= rows[b].replicas
      BY Zenon, <3>1 DEF PlanInv, CoverInv
    <3>3. QED
      BY Zenon, <2>2, <3>2 DEF PlanMove
  <2>3. QED
    BY Zenon, <2>1, <2>2
<1>3. HeldInv'
  <2>1. HeldByOthers(rows', a) = HeldByOthers(rows, a)
    BY Zenon, HeldByOthersKept DEF PlanMove
  <2>2. q # Idle => HeldAs(q, rows'[q.agent], live'[q.agent], HeldByOthers(rows', q.agent))
    BY Zenon, <2>1 DEF PlanMove
  <2>3. Idle.pc = "idle"
    BY Zenon DEF Idle
  <2>4. ASSUME NEW p \in Requests, req'[p].pc # "idle"
        PROVE  HeldAs(req'[p], rows'[req'[p].agent], live'[req'[p].agent],
                      HeldByOthers(rows', req'[p].agent))
    BY Zenon, <1>1, <2>2, <2>3, <2>4
  <2>5. QED
    BY Zenon, <2>4 DEF HeldInv, Held, Busy
<1>4. TickInv'
  BY Zenon DEF Alone, Resting, TickInv
<1>5. QED
  BY Zenon, <1>2, <1>3, <1>4 DEF PlanInv

LEMMA AloneFacts ==
  ASSUME IInv, PlanInv, NEW r \in Requests, Alone(r), Busy(r)
  PROVE  /\ TypeOK /\ req[r] \in Request /\ req[r].agent \in Agents /\ req[r].row \in Row
         /\ rows[req[r].agent] \in Row /\ live[req[r].agent] \in Nat
         /\ HeldByOthers(rows, req[r].agent) \in Nat
         /\ HeldAs(req[r], rows[req[r].agent], live[req[r].agent],
                   HeldByOthers(rows, req[r].agent))
         /\ Uncovered(req[r]) \/ live[req[r].agent] <= rows[req[r].agent].replicas
<1>1. /\ TypeOK /\ req[r] \in Request /\ req[r].agent \in Agents /\ req[r].row \in Row
      /\ rows[req[r].agent] \in Row /\ live[req[r].agent] \in Nat
  BY Zenon, RequestFacts DEF TypeOK
<1>2. HeldByOthers(rows, req[r].agent) \in Nat
  BY Zenon, <1>1, HeldByOthersType DEF TypeOK
<1>3. HeldAs(req[r], rows[req[r].agent], live[req[r].agent], HeldByOthers(rows, req[r].agent))
  BY Zenon DEF PlanInv, HeldInv, Held
<1>4. Uncovered(req[r]) \/ live[req[r].agent] <= rows[req[r].agent].replicas
  <2>1. \A p \in Requests : Uncovered(req[p]) => p = r
    BY DEF Alone, At, Uncovered
  <2>2. QED
    BY Zenon, <1>1, <2>1 DEF PlanInv, CoverInv
<1>5. QED
  BY Zenon, <1>1, <1>2, <1>3, <1>4

\* The steps of create_agent.
LEMMA CheckResourcesPlan ==
  ASSUME IInv, PlanInv, NEW r \in Requests, Alone(r), CheckResources(r)
  PROVE  PlanInv'
<1>1. Busy(r) /\ req[r].pc = "resources"
  BY Zenon DEF CheckResources, At, Busy
<1>2. PICK q \in Request :
        /\ Goto(r, q)
        /\ \/ q = Idle
           \/ q.pc = "insert" /\ q.agent = req[r].agent /\ q.config = req[r].config
  BY <1>1, AloneFacts, IdleIsRequest DEF CheckResources, Return, Request
<1>3. PlanMove(r, req[r].agent, q)
  BY Zenon, <1>1, <1>2, AloneFacts DEF PlanMove, CheckResources, HeldAs, Uncovered
<1>4. QED
  BY Zenon, <1>1, <1>2, <1>3, AloneFacts, PlanMoves DEF CheckResources

LEMMA InsertPlan ==
  ASSUME IInv, PlanInv, NEW r \in Requests, Alone(r), Insert(r)
  PROVE  PlanInv'
<1> DEFINE row == [status |-> "pending", replicas |-> req[r].config.replicas,
                   auto |-> req[r].config.auto, build |-> req[r].config.build]
<1>1. Busy(r) /\ Creating(r) /\ req[r].pc = "insert"
  BY Zenon DEF Insert, At, Busy, Creating
<1>2. row \in Row
  BY Zenon, <1>1, AloneFacts, ConfigFacts DEF Row, Status
<1>3. live[req[r].agent] = 0
  BY Zenon, <1>1, AloneFacts DEF IInv, IdsInv, FreshInv, PendingHasNoContainers
<1>4. PICK q \in Request :
        /\ Goto(r, q)
        /\ \/ q = Idle
           \/ /\ q.pc = "quota" /\ q.agent = req[r].agent /\ q.config = req[r].config
              /\ q.row = row
  <2> DEFINE q == [req[r] EXCEPT !.pc = "quota", !.row = row]
  <2>1. q \in Request /\ q.pc = "quota" /\ q.agent = req[r].agent /\ q.config = req[r].config
        /\ q.row = row
    <3> HIDE DEF row
    <3>1. [req[r] EXCEPT !.pc = "quota"] \in Request
      BY Zenon, <1>1, AloneFacts DEF Request
    <3>2. [[req[r] EXCEPT !.pc = "quota"] EXCEPT !.row = row] \in Request
      BY ZenonT(30), <1>2, <3>1 DEF Request
    <3>3. QED
      BY Zenon, <1>1, <3>2, AloneFacts DEF Request
  <2>2. Goto(r, q) \/ Goto(r, Idle)
    BY Zenon DEF Insert, Return
  <2> HIDE DEF q
  <2>3. QED
    BY Zenon, <2>1, <2>2, IdleIsRequest
<1>5. rows' = [rows EXCEPT ![req[r].agent] = row] /\ live' = live
  BY Zenon DEF Insert
<1>6. row.status = "pending" /\ row.replicas \in Nat
  BY Zenon, <1>1, AloneFacts, ConfigFacts
<1> HIDE DEF row
<1>7. /\ rows'[req[r].agent] = row /\ live'[req[r].agent] <= row.replicas
      /\ \A b \in Agents : b # req[r].agent => rows'[b] = rows[b] /\ live'[b] = live[b]
  <2>1. live'[req[r].agent] = 0 /\ 0 \in Nat
    BY Zenon, <1>1, <1>3, <1>5, AloneFacts
  <2>2. live'[req[r].agent] <= row.replicas
    BY Zenon, <1>6, <2>1, AtMost
  <2>3. QED
    BY Zenon, <1>1, <1>5, <2>2, AloneFacts DEF TypeOK
<1>8. ~req[r].config.build
  BY Zenon, <1>1, AloneFacts DEF HeldAs
<1>9. PlanMove(r, req[r].agent, q)
  BY Zenon, <1>4, <1>6, <1>7, <1>8 DEF PlanMove, HeldAs
<1>10. QED
  BY Zenon, <1>1, <1>4, <1>9, AloneFacts, PlanMoves DEF Insert

\* ensure_resources grants what the request will have its agent run.
LEMMA QuotaPlan ==
  ASSUME IInv, PlanInv, NEW r \in Requests, Alone(r), Quota(r)
  PROVE  PlanInv'
<1>1. Busy(r) /\ req[r].pc = "quota"
  BY Zenon DEF Quota, At, Busy
<1>2. PICK q \in Request :
        /\ Goto(r, q)
        /\ \/ q = Idle
           \/ /\ EnsureResources({req[r].agent}, Wanted(req[r]))
              /\ q.agent = req[r].agent /\ q.config = req[r].config /\ q.row = req[r].row
              /\ q.op = req[r].op /\ q.count = req[r].count
              /\ \/ q.pc = "apply" /\ q.op = "deploy" /\ q.config # NoConfig
                 \/ q.pc = "start" /\ ~(q.op = "deploy" /\ q.config # NoConfig)
  BY <1>1, AloneFacts, IdleIsRequest DEF Quota, Return, Request
<1>3. q # Idle => HeldByOthers(rows, req[r].agent) + Target(q) <= PlanReplicas
  BY Zenon, <1>2, UsageIsHeldByOthers DEF EnsureResources, Wanted, Target
<1>4. PlanMove(r, req[r].agent, q)
  BY Zenon, <1>1, <1>2, <1>3, AloneFacts DEF PlanMove, Quota, HeldAs, Uncovered
<1>5. QED
  BY Zenon, <1>1, <1>2, <1>4, AloneFacts, PlanMoves DEF Quota

LEMMA ApplyPlan ==
  ASSUME IInv, PlanInv, NEW r \in Requests, Alone(r), Apply(r)
  PROVE  PlanInv'
<1> DEFINE new == [req[r].row EXCEPT !.replicas = req[r].config.replicas,
                                     !.auto = req[r].config.auto,
                                     !.build = req[r].config.build]
<1>1. Busy(r) /\ req[r].pc = "apply"
  BY Zenon DEF Apply, At, Busy
<1>2. /\ new \in Row /\ new.status = req[r].row.status
      /\ new.replicas = req[r].config.replicas /\ new.build = req[r].config.build
  BY Zenon, <1>1, AloneFacts, ConfigFacts DEF Row
<1>3. Save(req[r].agent, req[r].row, new) /\ live' = live
  BY Zenon DEF Apply
<1>4. /\ CanSave(req[r].agent, req[r].row, new) => Goto(r, [req[r] EXCEPT !.pc = "refresh"])
      /\ ~CanSave(req[r].agent, req[r].row, new) => Goto(r, Idle)
  BY Zenon DEF Apply, Return
<1> HIDE DEF new
<1>5. rows[req[r].agent] = req[r].row /\ Exists(req[r].agent)
  BY Zenon, <1>1, AloneFacts DEF HeldAs, Exists
<1>6. /\ CanSave(req[r].agent, req[r].row, new)
      /\ rows'[req[r].agent] = new
      /\ \A b \in Agents : b # req[r].agent => rows'[b] = rows[b]
  BY Zenon, <1>1, <1>2, <1>3, <1>5, AloneFacts, SaveLoaded
<1>7. PICK q \in Request :
        /\ Goto(r, q) /\ q.pc = "refresh" /\ q.agent = req[r].agent /\ q.op = req[r].op
        /\ q.config = req[r].config /\ q.row = req[r].row /\ q.count = req[r].count
  BY <1>1, <1>4, <1>6, AloneFacts DEF Request
<1>8. PlanMove(r, req[r].agent, q)
  BY Zenon, <1>1, <1>2, <1>3, <1>5, <1>6, <1>7, AloneFacts
     DEF PlanMove, HeldAs, Uncovered, Exists, Target
<1>9. QED
  BY Zenon, <1>1, <1>7, <1>8, AloneFacts, PlanMoves DEF Apply

LEMMA RefreshPlan ==
  ASSUME IInv, PlanInv, NEW r \in Requests, Alone(r), Refresh(r)
  PROVE  PlanInv'
<1>1. Busy(r) /\ req[r].pc = "refresh"
  BY Zenon DEF Refresh, At, Busy
<1>2. Exists(req[r].agent) /\ ~rows[req[r].agent].build
  BY Zenon, <1>1, AloneFacts DEF HeldAs, Exists
<1>3. PICK q \in Request :
        /\ Goto(r, q) /\ q.pc = "start" /\ q.agent = req[r].agent /\ q.op = req[r].op
        /\ q.config = req[r].config /\ q.row = rows[req[r].agent] /\ q.count = req[r].count
  <2> DEFINE q == [req[r] EXCEPT !.pc = "start", !.row = rows[req[r].agent]]
  <2>1. /\ q \in Request /\ q.pc = "start" /\ q.agent = req[r].agent /\ q.op = req[r].op
        /\ q.config = req[r].config /\ q.row = rows[req[r].agent] /\ q.count = req[r].count
    <3>1. [req[r] EXCEPT !.pc = "start"] \in Request
      BY Zenon, <1>1, AloneFacts DEF Request
    <3>2. [[req[r] EXCEPT !.pc = "start"] EXCEPT !.row = rows[req[r].agent]] \in Request
      BY Zenon, <1>1, <3>1, AloneFacts DEF Request
    <3>3. QED
      BY Zenon, <1>1, <3>2, AloneFacts DEF Request
  <2>2. Goto(r, q)
    BY Zenon, <1>2 DEF Refresh
  <2> HIDE DEF q
  <2>3. QED
    BY Zenon, <2>1, <2>2
<1>4. PlanMove(r, req[r].agent, q)
  BY Zenon, <1>1, <1>2, <1>3, AloneFacts DEF PlanMove, Refresh, HeldAs, Uncovered, Target, Exists
<1>5. QED
  BY Zenon, <1>1, <1>3, <1>4, AloneFacts, PlanMoves DEF Refresh

LEMMA StartPlan ==
  ASSUME IInv, PlanInv, NEW r \in Requests, Alone(r), Start(r)
  PROVE  PlanInv'
<1> DEFINE new == [req[r].row EXCEPT !.status = IF req[r].op \in {"up", "down"} THEN "scaling"
                                                                               ELSE "starting"]
<1>1. Busy(r) /\ req[r].pc = "start"
  BY Zenon DEF Start, At, Busy
<1>2. /\ new \in Row /\ new.status \in {"scaling", "starting"}
      /\ new.replicas = req[r].row.replicas
  BY Zenon, <1>1, AloneFacts DEF Row, Status
<1>3. Save(req[r].agent, req[r].row, new) /\ live' = live
  BY Zenon DEF Start
<1>4. CanSave(req[r].agent, req[r].row, new)
        => Goto(r, [req[r] EXCEPT !.pc = "runtime", !.row = new])
  BY Zenon DEF Start
<1> HIDE DEF new
<1>5. rows[req[r].agent] = req[r].row /\ Exists(req[r].agent)
  BY Zenon, <1>1, AloneFacts DEF HeldAs, Exists
<1>6. /\ CanSave(req[r].agent, req[r].row, new)
      /\ rows'[req[r].agent] = new
      /\ \A b \in Agents : b # req[r].agent => rows'[b] = rows[b]
  BY Zenon, <1>1, <1>2, <1>3, <1>5, AloneFacts, SaveLoaded
<1>7. PICK q \in Request :
        /\ Goto(r, q) /\ q.pc = "runtime" /\ q.agent = req[r].agent /\ q.op = req[r].op
        /\ q.config = req[r].config /\ q.row = new /\ q.count = req[r].count
  <2> DEFINE q == [req[r] EXCEPT !.pc = "runtime", !.row = new]
  <2>1. /\ q \in Request /\ q.pc = "runtime" /\ q.agent = req[r].agent /\ q.op = req[r].op
        /\ q.config = req[r].config /\ q.row = new /\ q.count = req[r].count
    <3>1. [req[r] EXCEPT !.pc = "runtime"] \in Request
      BY Zenon, <1>1, AloneFacts DEF Request
    <3>2. [[req[r] EXCEPT !.pc = "runtime"] EXCEPT !.row = new] \in Request
      BY Zenon, <1>1, <1>2, <3>1, AloneFacts DEF Request
    <3>3. QED
      BY Zenon, <1>1, <3>2, AloneFacts DEF Request
  <2>2. Goto(r, q)
    BY Zenon, <1>4, <1>6
  <2> HIDE DEF q
  <2>3. QED
    BY Zenon, <2>1, <2>2
<1>8. PlanMove(r, req[r].agent, q)
  BY <1>1, <1>2, <1>3, <1>5, <1>6, <1>7, AloneFacts DEF PlanMove, HeldAs, Uncovered, Target
<1>9. QED
  BY Zenon, <1>1, <1>7, <1>8, AloneFacts, PlanMoves DEF Start

\* AgentRuntime leaves what the row says, or what the scaling makes of it.
LEMMA RuntimeDeploysPlan ==
  ASSUME IInv, PlanInv, NEW r \in Requests, Alone(r), RuntimeDeploys(r)
  PROVE  PlanInv' /\ live'[req[r].agent] = Target(req[r])
<1>1. Busy(r) /\ req[r].pc = "runtime" /\ req[r].op \in {"create", "deploy"}
  BY Zenon DEF RuntimeDeploys, At, Busy
<1>2. req[r].row.replicas \in Nat
  BY Zenon, <1>1, AloneFacts DEF Row
<1>3. PICK q \in Request :
        /\ Goto(r, q) /\ q.pc = "finish" /\ q.agent = req[r].agent /\ q.op = req[r].op
        /\ q.config = req[r].config /\ q.row = req[r].row /\ q.count = req[r].row.replicas
  <2>1. [req[r] EXCEPT !.pc = "finish"] \in Request
    BY Zenon, <1>1, AloneFacts DEF Request
  <2>2. [[req[r] EXCEPT !.pc = "finish"] EXCEPT !.count = req[r].row.replicas] \in Request
    BY ZenonT(30), <1>2, <2>1 DEF Request
  <2>3. QED
    BY Zenon, <1>1, <2>2, AloneFacts DEF RuntimeDeploys, Request
<1>4. live'[req[r].agent] = req[r].row.replicas
      /\ \A b \in Agents : b # req[r].agent => live'[b] = live[b]
  BY Zenon, <1>1, AloneFacts DEF RuntimeDeploys, TypeOK
<1>5. PlanMove(r, req[r].agent, q)
  BY <1>1, <1>2, <1>3, <1>4, AloneFacts DEF PlanMove, RuntimeDeploys, HeldAs
<1>6. PlanInv'
  BY Zenon, <1>1, <1>3, <1>5, AloneFacts, PlanMoves DEF RuntimeDeploys
<1>7. QED
  BY Zenon, <1>1, <1>4, <1>6 DEF Target

LEMMA RuntimeScalesPlan ==
  ASSUME IInv, PlanInv, NEW r \in Requests, Alone(r), RuntimeScales(r)
  PROVE  /\ PlanInv'
         /\ req[r].op = "up" => live'[req[r].agent] <= Target(req[r])
         /\ req[r].op # "up" => live'[req[r].agent] <= live[req[r].agent]
<1>1. Busy(r) /\ req[r].pc = "runtime" /\ req[r].op \in {"up", "down"}
  BY Zenon DEF RuntimeScales, At, Busy
<1>2. PICK q \in Request :
        /\ Goto(r, q) /\ q.agent = req[r].agent /\ q.op = req[r].op
        /\ q.config = req[r].config /\ q.row = req[r].row /\ q.count = req[r].count
        /\ \/ q.pc = "finish"
           \/ q.pc = "fail" /\ UNCHANGED live
  BY <1>1, AloneFacts DEF RuntimeScales, Request
<1>3. /\ \A b \in Agents : b # req[r].agent => live'[b] = live[b]
      /\ \/ live'[req[r].agent] = Scaled(req[r])
         \/ live'[req[r].agent] = live[req[r].agent]
  BY Zenon, <1>1, AloneFacts DEF RuntimeScales, TypeOK
<1>4. PlanMove(r, req[r].agent, q)
  BY Zenon, <1>1, <1>2, <1>3, AloneFacts DEF PlanMove, RuntimeScales, HeldAs, Uncovered
<1>5. PlanInv'
  BY Zenon, <1>1, <1>2, <1>4, AloneFacts, PlanMoves DEF RuntimeScales
<1>6. /\ live[req[r].agent] <= req[r].row.replicas
      /\ live[req[r].agent] \in Nat /\ req[r].count \in Nat /\ req[r].row.replicas \in Nat
  BY Zenon, <1>1, AloneFacts DEF HeldAs, Uncovered, Request, Row
<1>7. QED
  BY <1>1, <1>3, <1>5, <1>6 DEF Scaled, Target

\* The last commit of a handler leaves the row with no fewer replicas than containers.
LEMMA LastCommitPlan ==
  ASSUME IInv, PlanInv, NEW r \in Requests, Alone(r), Busy(r), req[r].pc \in {"finish", "fail"},
         NEW new \in Row, Save(req[r].agent, req[r].row, new),
         live[req[r].agent] <= new.replicas,
         Return(r), UNCHANGED <<live, sched>>
  PROVE  PlanInv'
<1>1. rows[req[r].agent] = req[r].row /\ Exists(req[r].agent)
  BY Zenon, AloneFacts DEF HeldAs, Exists
<1>2. /\ rows'[req[r].agent] = new
      /\ \A b \in Agents : b # req[r].agent => rows'[b] = rows[b]
  BY Zenon, <1>1, AloneFacts, SaveLoaded
<1>3. PlanMove(r, req[r].agent, Idle)
  BY Zenon, <1>2 DEF PlanMove, Return
<1>4. QED
  BY Zenon, <1>3, AloneFacts, IdleIsRequest, PlanMoves

LEMMA FinishDeployPlan ==
  ASSUME IInv, PlanInv, NEW r \in Requests, Alone(r), FinishDeploy(r)
  PROVE  PlanInv'
<1> DEFINE new == [req[r].row EXCEPT !.status = "running", !.replicas = req[r].count]
<1>1. Busy(r) /\ req[r].pc = "finish" /\ req[r].op \in {"create", "deploy"}
  BY Zenon DEF FinishDeploy, At, Busy
<1>2. req[r].count = live[req[r].agent] /\ req[r].count \in Nat
  BY Zenon, <1>1, AloneFacts DEF HeldAs, Request
<1>3. new \in Row /\ new.replicas = req[r].count
  BY Zenon, <1>1, <1>2, AloneFacts DEF Row, Status
<1>4. Save(req[r].agent, req[r].row, new) /\ Return(r) /\ UNCHANGED <<live, sched>>
  BY Zenon DEF FinishDeploy
<1> HIDE DEF new
<1>5. live[req[r].agent] <= new.replicas
  BY <1>2, <1>3
<1>6. QED
  BY Zenon, <1>1, <1>3, <1>4, <1>5, LastCommitPlan

LEMMA FinishScalePlan ==
  ASSUME IInv, SerialInv, PlanInv, NEW r \in Requests, Alone(r), FinishScale(r)
  PROVE  PlanInv'
<1> DEFINE found == Reported(req[r].agent)
           n == IF found > 0 THEN found ELSE req[r].row.replicas
           new == [req[r].row EXCEPT !.status = "running", !.replicas = n]
<1>1. Busy(r) /\ req[r].pc = "finish"
  BY Zenon DEF FinishScale, At, Busy
<1>2. found = live[req[r].agent] /\ found \in Nat
  BY Zenon, <1>1, AloneFacts DEF Reported, SerialInv
<1>3. Save(req[r].agent, req[r].row, new) /\ Return(r) /\ UNCHANGED <<live, sched>>
  BY Zenon DEF FinishScale
<1> HIDE DEF found
<1>4. n \in Nat /\ found <= n
  BY <1>1, <1>2, AloneFacts DEF Row
<1> HIDE DEF n
<1>5. new \in Row /\ new.replicas = n
  BY Zenon, <1>1, <1>4, AloneFacts DEF Row, Status
<1> HIDE DEF new
<1>6. live[req[r].agent] <= new.replicas
  BY Zenon, <1>2, <1>4, <1>5
<1>7. QED
  BY Zenon, <1>1, <1>3, <1>5, <1>6, LastCommitPlan

LEMMA FailPlan ==
  ASSUME IInv, PlanInv, NEW r \in Requests, Alone(r), Fail(r)
  PROVE  PlanInv'
<1> DEFINE new == [req[r].row EXCEPT !.status = "failed"]
<1>1. Busy(r) /\ req[r].pc = "fail"
  BY Zenon DEF Fail, At, Busy
<1>2. new \in Row /\ new.replicas = req[r].row.replicas
  BY Zenon, <1>1, AloneFacts DEF Row, Status
<1>3. Save(req[r].agent, req[r].row, new) /\ Return(r) /\ UNCHANGED <<live, sched>>
  BY Zenon DEF Fail
<1> HIDE DEF new
<1>4. live[req[r].agent] <= new.replicas
  BY Zenon, <1>1, <1>2, AloneFacts DEF HeldAs, Uncovered
<1>5. QED
  BY Zenon, <1>1, <1>2, <1>3, <1>4, LastCommitPlan

\* delete_agent: the containers first, then the row.
LEMMA RuntimeRemovesPlan ==
  ASSUME IInv, SerialInv, PlanInv, NEW r \in Requests, Alone(r), RuntimeRemoves(r)
  PROVE  PlanInv' /\ live'[req[r].agent] = 0
<1>1. Busy(r) /\ req[r].pc = "runtime" /\ req[r].op = "delete"
  BY Zenon DEF RuntimeRemoves, At, Busy
<1>2. live' = [live EXCEPT ![req[r].agent] = 0]
  BY Zenon, <1>1, AloneFacts DEF RuntimeRemoves, SerialInv
<1>3. PICK q \in Request :
        /\ Goto(r, q) /\ q.agent = req[r].agent /\ q.op = req[r].op /\ q.pc = "erase"
        /\ q.config = req[r].config /\ q.row = req[r].row /\ q.count = req[r].count
  BY <1>1, AloneFacts DEF RuntimeRemoves, Request
<1>4. live'[req[r].agent] = 0 /\ \A b \in Agents : b # req[r].agent => live'[b] = live[b]
  BY Zenon, <1>1, <1>2, AloneFacts DEF TypeOK
<1>5. 0 <= rows[req[r].agent].replicas
  BY <1>1, AloneFacts DEF Row
<1>6. PlanMove(r, req[r].agent, q)
  BY Zenon, <1>1, <1>3, <1>4, <1>5, AloneFacts DEF PlanMove, RuntimeRemoves, HeldAs
<1>7. QED
  BY Zenon, <1>1, <1>3, <1>4, <1>6, AloneFacts, PlanMoves DEF RuntimeRemoves

LEMMA ErasePlan ==
  ASSUME IInv, SerialInv, PlanInv, NEW r \in Requests, Alone(r), Erase(r)
  PROVE  PlanInv'
<1>1. Busy(r) /\ req[r].pc = "erase"
  BY Zenon DEF Erase, At, Busy
<1>2. live[req[r].agent] = 0
  BY Zenon, <1>1, AloneFacts DEF IInv, Shape, OrphanInv, SerialInv
<1>3. /\ rows'[req[r].agent].replicas = 0
      /\ \A b \in Agents : b # req[r].agent => rows'[b] = rows[b]
  BY Zenon, <1>1, AloneFacts DEF Erase, TypeOK, NoRow
<1>4. PlanMove(r, req[r].agent, Idle)
  BY <1>2, <1>3 DEF PlanMove, Erase, Return
<1>5. QED
  BY Zenon, <1>1, <1>4, AloneFacts, IdleIsRequest, PlanMoves DEF Erase

\* An agent nobody works on has no more containers than its row has replicas.
LEMMA QuietCovered ==
  ASSUME PlanInv, Quiet, NEW a \in Agents
  PROVE  live[a] <= rows[a].replicas
<1>1. \A r \in Requests : ~Uncovered(req[r])
  BY Zenon DEF Quiet, At, Uncovered
<1>2. QED
  BY Zenon, <1>1 DEF PlanInv, CoverInv

\* No caller sends a build_path without an image.
NoBuilds == \A c \in Configs : ~c.build

LEMMA BeginCreatePlan ==
  ASSUME IInv, PlanInv, NoBuilds, NEW r \in Requests, Alone(r), NEW a \in Agents,
         NEW config \in Configs \cup {NoConfig}, BeginCreate(r, a, config)
  PROVE  PlanInv'
<1> DEFINE q == [pc |-> IF config = NoConfig THEN "insert" ELSE "resources",
                 op |-> "create", agent |-> a, config |-> config, count |-> 0, row |-> NoRow]
<1>1. q \in Request
  BY Zenon, InputsAssumption, IdleIsRequest DEF Request
<1>2. /\ q.agent = a /\ q.op = "create" /\ q.pc \in {"insert", "resources"}
      /\ ~q.config.build
  BY DEF NoBuilds, NoConfig
<1>3. Goto(r, q) /\ UNCHANGED <<rows, live, sched>> /\ rows[a].status = "none"
  BY Zenon DEF BeginCreate
<1>4. req[r].agent = NoAgent
  BY Zenon DEF BeginCreate, At, IInv, Shape
<1>5. live[a] <= rows[a].replicas
  <2>1. live[a] \in Nat /\ rows[a].replicas \in Nat
    BY Zenon DEF IInv, TypeOK, Row
  <2>2. live[a] = 0
    BY Zenon, <1>3 DEF IInv, FreshInv, PendingHasNoContainers
  <2>3. QED
    BY Zenon, <2>1, <2>2, AtMost
<1> HIDE DEF q
<1>6. PlanMove(r, a, q)
  BY Zenon, <1>2, <1>3, <1>5 DEF PlanMove, HeldAs
<1>7. QED
  BY Zenon, <1>1, <1>3, <1>4, <1>6, PlanMoves

LEMMA BeginPlan ==
  ASSUME IInv, PlanInv, NoBuilds, NEW r \in Requests, Alone(r), NEW a \in Agents,
         NEW op \in {"deploy", "up", "down", "delete"},
         NEW config \in Configs \cup {NoConfig}, NEW count \in Nat,
         Begin(r, op, a, config, count)
  PROVE  PlanInv'
<1> DEFINE pc == CASE op = "down"   -> "start"
                   [] op = "delete" -> "runtime"
                   [] OTHER         -> "quota"
           q == [pc |-> pc, op |-> op, agent |-> a, config |-> config, count |-> count,
                 row |-> rows[a]]
<1>1. Goto(r, q) /\ UNCHANGED <<rows, live, sched>> /\ Exists(a) /\ Quiet
  BY Zenon DEF Begin, Alone, Quiet
<1>2. /\ op = "down" => pc = "start"
      /\ op = "delete" => pc = "runtime"
      /\ op \in {"deploy", "up"} => pc = "quota"
  BY Zenon
<1> HIDE DEF pc
<1>3. q \in Request
  <2>1. rows[a] \in Row /\ config \in Config \cup {NoConfig}
    BY Zenon, InputsAssumption DEF IInv, TypeOK
  <2>2. QED
    BY Zenon, <1>2, <2>1 DEF Request
<1>4. q.pc = pc /\ q.op = op /\ q.agent = a /\ q.row = rows[a] /\ ~q.config.build
  BY DEF NoBuilds, NoConfig
<1> HIDE DEF q
<1>5. req[r].agent = NoAgent
  BY Zenon DEF Begin, At, IInv, Shape
<1>6. live[a] <= rows[a].replicas
  BY Zenon, <1>1, QuietCovered
<1>7. PlanMove(r, a, q)
  BY Zenon, <1>1, <1>2, <1>4, <1>6 DEF PlanMove, HeldAs, Exists
<1>8. QED
  BY Zenon, <1>1, <1>3, <1>5, <1>7, PlanMoves

LEMMA NewRequestPlan ==
  ASSUME IInv, PlanInv, NoBuilds, NEW r \in Requests, Alone(r), NewRequest(r)
  PROVE  PlanInv' /\ UNCHANGED live
<1> PICK a \in Agents :
        \/ \E config \in Configs \cup {NoConfig} :
              BeginCreate(r, a, config) \/ Begin(r, "deploy", a, config, 0)
        \/ \E op \in {"up", "down"}, count \in Counts : Begin(r, op, a, NoConfig, count)
        \/ Begin(r, "delete", a, NoConfig, 0)
  BY Zenon DEF NewRequest
<1>1. ASSUME NEW config \in Configs \cup {NoConfig}, BeginCreate(r, a, config)
      PROVE  PlanInv' /\ UNCHANGED live
  BY Zenon, <1>1, BeginCreatePlan DEF BeginCreate
<1>2. ASSUME NEW op \in {"deploy", "up", "down", "delete"},
             NEW config \in Configs \cup {NoConfig}, NEW count \in Nat,
             Begin(r, op, a, config, count)
      PROVE  PlanInv' /\ UNCHANGED live
  BY Zenon, <1>2, BeginPlan DEF Begin
<1>3. Counts \subseteq Nat /\ 0 \in Nat
  BY Zenon, InputsAssumption
<1>4. QED
  BY Zenon, <1>1, <1>2, <1>3

\* A step of the tick, with no request in flight: the containers stay as they are and no
\* row is left with fewer replicas than containers.
TickMove ==
    /\ UNCHANGED <<live, req>>
    /\ \A b \in Agents : live[b] <= rows'[b].replicas
    /\ \A b \in sched'.todo : sched'.row[b] = rows'[b]
    /\ sched'.pc = "sync" => sched'.seen = live[sched'.agent]

LEMMA TickMoves ==
  ASSUME Quiet, TickMove
  PROVE  PlanInv' /\ UNCHANGED live
<1>1. \A r \in Requests : req'[r].pc = "idle"
  BY Zenon DEF Quiet, At, TickMove
<1>2. HeldInv'
  BY Zenon, <1>1 DEF HeldInv, Busy
<1>3. CoverInv' /\ TickInv'
  BY Zenon DEF CoverInv, TickInv, TickMove
<1>4. QED
  BY Zenon, <1>2, <1>3 DEF PlanInv, TickMove

\* The session's rows go on with the tick.
LEMMA NextAgentRows ==
  ASSUME sched \in Scheduler, NEW row \in [Agents -> Row], NextAgent(row)
  PROVE  /\ sched'.pc = "next" /\ sched'.todo \subseteq sched.todo
         /\ \A b \in sched'.todo : sched'.row[b] = row[b]
<1> DEFINE rest == sched.todo \ {sched.agent}
           s1 == [sched EXCEPT !.pc = "next", !.todo = rest, !.agent = NoAgent,
                               !.row = row, !.seen = 0, !.down = FALSE]
<1>1. sched' = Resting \/ sched' = s1
  BY Zenon DEF NextAgent
<1>2. s1.row = row /\ s1.pc = "next" /\ s1.todo = rest
  BY Zenon DEF Scheduler
<1> HIDE DEF s1
<1>3. QED
  BY Zenon, <1>1, <1>2, RestingFacts

LEMMA TickBeginsPlan ==
  ASSUME IInv, PlanInv, Quiet, TickBegins
  PROVE  PlanInv' /\ UNCHANGED live
<1> DEFINE active == {a \in Agents : rows[a].status \in Active}
           row == [a \in Agents |-> IF a \in active THEN rows[a] ELSE NoRow]
           s1 == [Resting EXCEPT !.loaded = active, !.todo = active, !.row = row]
<1>1. sched' = s1 /\ UNCHANGED <<rows, live, req>>
  BY Zenon DEF TickBegins
<1>2. s1.pc = "next" /\ s1.todo = active /\ s1.row = row
  <2> HIDE DEF active, row
  <2>1. QED
    BY Zenon DEF Resting
<1>3. \A b \in active : row[b] = rows[b]
  BY Zenon
<1> HIDE DEF s1, row, active
<1>4. TickMove
  BY Zenon, <1>1, <1>2, <1>3, QuietCovered DEF TickMove
<1>5. QED
  BY Zenon, <1>4, TickMoves

LEMMA HealthCheckPlan ==
  ASSUME IInv, SerialInv, PlanInv, Quiet, NEW a \in Agents, HealthCheck(a)
  PROVE  PlanInv' /\ UNCHANGED live
<1>1. /\ sched' = [sched EXCEPT !.pc = "sync", !.agent = a, !.seen = live[a]]
      /\ sched \in Scheduler /\ UNCHANGED <<rows, live, req>>
  BY Zenon DEF HealthCheck, Reported, SerialInv, IInv, TypeOK
<1>2. /\ sched'.pc = "sync" /\ sched'.agent = a /\ sched'.seen = live[a]
      /\ sched'.todo = sched.todo /\ sched'.row = sched.row
  BY Zenon, <1>1 DEF Scheduler
<1>3. TickMove
  BY Zenon, <1>1, <1>2, QuietCovered DEF TickMove, PlanInv, TickInv
<1>4. QED
  BY Zenon, <1>3, TickMoves

\* Sync writes what Docker runs, unless the row is gone and the tick with it.
LEMMA SyncPlan ==
  ASSUME IInv, PlanInv, Quiet, Sync
  PROVE  PlanInv' /\ UNCHANGED live
<1> DEFINE a == sched.agent
           old == sched.row[a]
           new == [old EXCEPT !.replicas = sched.seen,
                              !.status = IF sched.seen = 0 THEN "stopped"
                                         ELSE IF sched.down THEN "crashed"
                                         ELSE IF old.status # "scaling" THEN "running"
                                         ELSE old.status]
           row == [sched.row EXCEPT ![a] = new]
<1>1. /\ TypeOK /\ sched \in Scheduler /\ sched.pc = "sync" /\ a \in Agents /\ a \in sched.todo
      /\ UNCHANGED <<live, req>>
  BY Zenon DEF Sync, IInv, TypeOK, Shape
<1>2. /\ old \in Row /\ old = rows[a] /\ sched.seen \in Nat /\ sched.seen = live[a]
      /\ sched.row \in [Agents -> Row] /\ sched.todo \subseteq Agents
  BY Zenon, <1>1 DEF Scheduler, PlanInv, TickInv
<1>3. new \in Row /\ new.replicas = live[a]
  <2> HIDE DEF old
  <2>1. QED
    BY Zenon, <1>2 DEF Row, Status
<1>4. /\ Save(a, old, new)
      /\ ~CanSave(a, old, new) => sched' = Resting
      /\ \/ sched' = Resting
         \/ sched' = [sched EXCEPT !.pc = "headroom", !.row = row]
         \/ NextAgent(row)
  BY Zenon DEF Sync
<1> HIDE DEF new
<1>5. \A b \in Agents : live[b] <= rows[b].replicas
  BY Zenon, QuietCovered
<1>6. CASE ~CanSave(a, old, new)
  <2>1. rows' = rows
    BY Zenon, <1>4, <1>6 DEF Save
  <2>2. TickMove
    BY Zenon, <1>1, <1>4, <1>5, <1>6, <2>1, RestingFacts DEF TickMove
  <2>3. QED
    BY Zenon, <2>2, TickMoves
<1>7. CASE CanSave(a, old, new)
  <2>1. rows'[a] = new /\ \A b \in Agents : b # a => rows'[b] = rows[b]
    <3>1. Merge(rows[a], rows[a], new) = new
      BY Zenon, <1>1, <1>2, <1>3 DEF Merge, Row
    <3> HIDE DEF a, old
    <3>2. QED
      BY Zenon, <1>1, <1>2, <1>4, <1>7, <3>1 DEF Save, TypeOK
  <2>2. row \in [Agents -> Row] /\ \A b \in sched.todo : row[b] = rows'[b]
    BY Zenon, <1>1, <1>2, <1>3, <2>1 DEF PlanInv, TickInv
  <2> HIDE DEF row
  <2>3. /\ \A b \in sched'.todo : sched'.row[b] = rows'[b]
        /\ sched'.pc # "sync"
    <3>1. CASE sched' = Resting
      BY Zenon, <3>1, RestingFacts
    <3>2. CASE sched' = [sched EXCEPT !.pc = "headroom", !.row = row]
      <4>1. sched'.pc = "headroom" /\ sched'.row = row /\ sched'.todo = sched.todo
        BY Zenon, <1>1, <3>2 DEF Scheduler
      <4>2. QED
        BY Zenon, <2>2, <4>1
    <3>3. CASE NextAgent(row)
      BY Zenon, <1>1, <2>2, <3>3, NextAgentRows
    <3>4. QED
      BY Zenon, <1>4, <3>1, <3>2, <3>3
  <2>4. \A b \in Agents : live[b] <= rows'[b].replicas
    <3> HIDE DEF a
    <3>1. live[a] <= new.replicas
      BY <1>1, <1>3 DEF TypeOK
    <3>2. QED
      BY Zenon, <1>5, <2>1, <3>1
  <2>5. TickMove
    BY Zenon, <1>1, <2>3, <2>4 DEF TickMove
  <2>6. QED
    BY <2>5, TickMoves
<1>8. QED
  BY Zenon, <1>6, <1>7

LEMMA HeadroomPlan ==
  ASSUME IInv, PlanInv, Quiet, Headroom
  PROVE  PlanInv' /\ UNCHANGED live
<1>1. /\ sched \in Scheduler /\ sched.row \in [Agents -> Row]
      /\ UNCHANGED <<rows, live, req>>
  BY Zenon DEF Headroom, IInv, TypeOK, Scheduler
<1>2. /\ sched'.pc # "sync" /\ sched'.todo \subseteq sched.todo
      /\ \A b \in sched'.todo : sched'.row[b] = sched.row[b]
  <2>1. CASE sched' = [sched EXCEPT !.pc = "autoscale"]
    BY Zenon, <1>1, <2>1 DEF Scheduler
  <2>2. CASE NextAgent(sched.row)
    BY Zenon, <1>1, <2>2, NextAgentRows
  <2>3. QED
    BY Zenon, <2>1, <2>2 DEF Headroom
<1>3. TickMove
  BY Zenon, <1>1, <1>2, QuietCovered DEF TickMove, PlanInv, TickInv
<1>4. QED
  BY <1>3, TickMoves

\* Where auto_scale decides to leave the agent as it is.
LEMMA AutoScalePlan ==
  ASSUME IInv, PlanInv, Quiet, MaxAutoScales = 0, AutoScale
  PROVE  PlanInv' /\ UNCHANGED live
<1>1. /\ sched \in Scheduler /\ sched.row \in [Agents -> Row]
      /\ UNCHANGED <<rows, req>> /\ NextAgent(sched.row)
  BY Zenon DEF AutoScale, IInv, TypeOK, Scheduler
<1>2. UNCHANGED live
  BY DEF AutoScale, IInv, TypeOK
<1>3. TickMove
  BY Zenon, <1>1, <1>2, NextAgentRows, QuietCovered DEF TickMove, PlanInv, TickInv
<1>4. QED
  BY Zenon, <1>3, TickMoves

LEMMA SchedulerPlan ==
  ASSUME IInv, SerialInv, PlanInv, Quiet, MaxAutoScales = 0, SchedulerStep
  PROVE  PlanInv' /\ UNCHANGED live
  BY Zenon, TickBeginsPlan, HealthCheckPlan, SyncPlan, HeadroomPlan, AutoScalePlan DEF SchedulerStep

\* A step of the request alone at work changes the containers of its own agent only; it
\* adds some only as far as the quota it was granted goes.
LEMMA RequestPlan ==
  ASSUME IInv, SerialInv, PlanInv, NEW r \in Requests, Alone(r), RequestStep(r)
  PROVE  /\ PlanInv'
         /\ Busy(r)
         /\ \A b \in Agents : b # req[r].agent => live'[b] = live[b]
         /\ \/ live'[req[r].agent] <= live[req[r].agent]
            \/ /\ req[r].pc = "runtime" /\ req[r].op \in {"create", "deploy", "up"}
               /\ live'[req[r].agent] <= Target(req[r])
               /\ UNCHANGED rows
<1> DEFINE a == req[r].agent
<1>1. Busy(r)
  BY Zenon DEF RequestStep, CheckResources, Insert, Quota, Apply, Refresh, Start,
         RuntimeDeploys, FinishDeploy, Fail, RuntimeScales, FinishScale, RuntimeRemoves,
         Erase, At, Busy
<1>2. a \in Agents /\ live \in [Agents -> Nat]
  BY Zenon, <1>1, AloneFacts DEF TypeOK
<1>3. CASE UNCHANGED live
  <2>1. ~RuntimeDeploys(r) /\ ~RuntimeScales(r) /\ ~RuntimeRemoves(r) => PlanInv'
    BY Zenon, CheckResourcesPlan, InsertPlan, QuotaPlan, ApplyPlan, RefreshPlan, StartPlan,
       FinishDeployPlan, FailPlan, FinishScalePlan, ErasePlan DEF RequestStep
  <2>2. PlanInv'
    BY Zenon, <2>1, RuntimeDeploysPlan, RuntimeScalesPlan, RuntimeRemovesPlan
  <2>3. QED
    BY <1>1, <1>2, <1>3, <2>2
<1>4. CASE RuntimeDeploys(r)
  <2>1. PlanInv' /\ live'[a] = Target(req[r])
    BY Zenon, <1>4, RuntimeDeploysPlan
  <2>2. /\ req[r].pc = "runtime" /\ req[r].op \in {"create", "deploy"}
        /\ live'[a] = req[r].row.replicas
        /\ \A b \in Agents : b # a => live'[b] = live[b]
        /\ UNCHANGED rows
    BY Zenon, <1>2, <1>4 DEF RuntimeDeploys, At
  <2>3. live'[a] <= Target(req[r])
    <3>1. live'[a] \in Nat
      BY Zenon, <1>1, <2>2, AloneFacts DEF Row
    <3>2. QED
      BY Zenon, <2>1, <3>1, AtMost
  <2>4. QED
    BY Zenon, <1>1, <2>1, <2>2, <2>3
<1>5. CASE RuntimeScales(r)
  <2>1. /\ PlanInv'
        /\ req[r].op = "up" => live'[a] <= Target(req[r])
        /\ req[r].op # "up" => live'[a] <= live[a]
    BY Zenon, <1>5, RuntimeScalesPlan
  <2>2. /\ req[r].pc = "runtime" /\ UNCHANGED rows
        /\ \A b \in Agents : b # a => live'[b] = live[b]
    BY Zenon, <1>2, <1>5 DEF RuntimeScales, At
  <2>3. QED
    BY Zenon, <1>1, <2>1, <2>2
<1>6. CASE RuntimeRemoves(r)
  <2>1. PlanInv' /\ live'[a] = 0
    BY Zenon, <1>6, RuntimeRemovesPlan
  <2>2. \A b \in Agents : b # a => live'[b] = live[b]
    BY Zenon, <1>2, <1>6 DEF RuntimeRemoves
  <2>3. QED
    BY <1>1, <1>2, <2>1, <2>2
<1>7. QED
  BY ZenonT(30), <1>3, <1>4, <1>5, <1>6
     DEF RequestStep, CheckResources, Insert, Quota, Apply, Refresh, Start, FinishDeploy,
         Fail, FinishScale, Erase

\* Fewer containers of every agent are fewer in all.
LEMMA NoGrowth ==
  ASSUME NEW l \in [Agents -> Nat], NEW m \in [Agents -> Nat], \A b \in Agents : m[b] <= l[b]
  PROVE  SumFunctionOnSet(m, Agents) <= SumFunctionOnSet(l, Agents)
  BY Zenon, AgentsAssumption, SumMonotone

\* Containers within what the other rows hold and what one agent was granted are
\* within the plan.
LEMMA GrantedGrowth ==
  ASSUME NEW table \in [Agents -> Row], NEW l \in [Agents -> Nat], NEW a \in Agents,
         NEW n \in Int, HeldByOthers(table, a) + n <= PlanReplicas, l[a] <= n,
         \A b \in Agents : b # a => l[b] <= table[b].replicas
  PROVE  SumFunctionOnSet(l, {b \in Agents : table[b].status \in Active}) <= PlanReplicas
<1> DEFINE S == {b \in Agents : table[b].status \in Active}
           f == [b \in Agents |-> table[b].replicas]
<1>1. IsFiniteSet(S) /\ IsFiniteSet(S \ {a})
  BY Zenon, AgentsAssumption, FS_Subset
<1>2. {b \in Agents \ {a} : table[b].status \in Active} = S \ {a}
  BY Zenon
<1>3. HeldByOthers(table, a) = SumFunctionOnSet(f, S \ {a})
  BY Zenon, <1>2 DEF HeldByOthers
<1>4. \A b \in S \ {a} : l[b] \in Nat /\ f[b] \in Nat /\ l[b] <= f[b]
  BY Zenon DEF Row
<1>5. \A b \in S : l[b] \in Nat
  BY Zenon
<1>6. a \notin S => S \ {a} = S
  BY Zenon
<1> HIDE DEF S, f
<1>7. SumFunctionOnSet(l, S \ {a}) <= SumFunctionOnSet(f, S \ {a})
  BY Zenon, <1>1, <1>4, SumMonotone
<1>8. SumFunctionOnSet(l, S \ {a}) \in Nat /\ SumFunctionOnSet(f, S \ {a}) \in Nat
  BY Zenon, <1>1, <1>4, SumType
<1>9. \/ SumFunctionOnSet(l, S) = SumFunctionOnSet(l, S \ {a})
      \/ SumFunctionOnSet(l, S) = l[a] + SumFunctionOnSet(l, S \ {a})
  BY Zenon, <1>1, <1>5, <1>6, SumRemove
<1>10. SumFunctionOnSet(l, S) <= PlanReplicas
  BY <1>3, <1>7, <1>8, <1>9, BoundsAssumption
<1>11. QED
  BY Zenon, <1>10 DEF S

\* What GrowthWithinPlan asks of a step.
Grows == SumFunctionOnSet(live', Agents) > SumFunctionOnSet(live, Agents)
WithinPlan ==
    SumFunctionOnSet(live', {a \in Agents : rows'[a].status \in Active}) <= PlanReplicas

LEMMA RequestGrowth ==
  ASSUME IInv, IInv', SerialInv, PlanInv, NEW r \in Requests, Alone(r), RequestStep(r), Grows
  PROVE  WithinPlan
<1> DEFINE a == req[r].agent
<1>1. live \in [Agents -> Nat] /\ live' \in [Agents -> Nat] /\ rows \in [Agents -> Row]
  BY Zenon DEF IInv, TypeOK
<1>2. Busy(r) /\ \A b \in Agents : b # a => live'[b] = live[b]
  BY Zenon, RequestPlan
<1>3. ~(live'[a] <= live[a])
  <2> SUFFICES ASSUME live'[a] <= live[a] PROVE FALSE
    BY Zenon
  <2>1. \A b \in Agents : live'[b] <= live[b]
    BY <1>1, <1>2
  <2>2. SumFunctionOnSet(live', Agents) <= SumFunctionOnSet(live, Agents)
    BY Zenon, <1>1, <2>1, NoGrowth
  <2>3. SumFunctionOnSet(live', Agents) \in Nat /\ SumFunctionOnSet(live, Agents) \in Nat
    BY Zenon, <1>1, AgentsAssumption, SumType
  <2>4. QED
    BY <2>2, <2>3 DEF Grows
<1>4. /\ req[r].pc = "runtime" /\ req[r].op \in {"create", "deploy", "up"}
      /\ live'[a] <= Target(req[r])
      /\ rows' = rows
  BY Zenon, <1>3, RequestPlan
<1>5. a \in Agents /\ Target(req[r]) \in Int
  BY <1>2, <1>4, AloneFacts DEF Target, Request, Row
<1>6. HeldByOthers(rows, a) + Target(req[r]) <= PlanReplicas
  BY Zenon, <1>2, <1>4, AloneFacts DEF HeldAs
<1>7. \A b \in Agents : b # a => live'[b] <= rows[b].replicas
  <2>1. \A p \in Requests : Uncovered(req[p]) => p = r
    BY DEF Alone, At, Uncovered
  <2>2. QED
    BY Zenon, <1>2, <2>1 DEF PlanInv, CoverInv
<1> HIDE DEF a
<1>8. QED
  BY Zenon, <1>1, <1>4, <1>5, <1>6, <1>7, GrantedGrowth DEF WithinPlan

LEMMA PlanStep ==
  ASSUME IInv, IInv', SerialInv, PlanInv, NoBuilds, MaxAutoScales = 0, [SerialNext]_vars
  PROVE  PlanInv' /\ (Grows => WithinPlan)
<1>1. UNCHANGED live => ~Grows
  <2>1. live \in [Agents -> Nat]
    BY Zenon DEF IInv, TypeOK
  <2>2. SumFunctionOnSet(live, Agents) \in Nat
    BY Zenon, <2>1, AgentsAssumption, SumType
  <2>3. QED
    BY <2>2 DEF Grows
<1>2. ASSUME NEW r \in Requests, Alone(r), NewRequest(r)
      PROVE  PlanInv' /\ (Grows => WithinPlan)
  BY Zenon, <1>1, <1>2, NewRequestPlan
<1>3. ASSUME NEW r \in Requests, Alone(r), RequestStep(r)
      PROVE  PlanInv' /\ (Grows => WithinPlan)
  BY Zenon, <1>3, RequestPlan, RequestGrowth
<1>4. CASE Quiet /\ SchedulerStep
  BY Zenon, <1>1, <1>4, SchedulerPlan
<1>5. CASE UNCHANGED vars
  <2>1. PlanInv'
    BY Zenon, <1>5 DEF vars, PlanInv, CoverInv, HeldInv, Held, Busy, TickInv
  <2>2. QED
    BY Zenon, <1>1, <1>5, <2>1 DEF vars
<1>6. QED
  BY Zenon, <1>2, <1>3, <1>4, <1>5 DEF SerialNext, Alone

\* While requests do not overlap, nothing fails, no agent is auto-scaled and no config asks
\* for a build, the quota (ensure_resources) keeps every deployment and every scaling up
\* within the plan, although it adds up replica counts of rows and never looks at Docker.
\* Both restrictions are needed: a container that auto_scale adds is not in the row before
\* the next tick, and a config refused for its build_path leaves its replica count there.
THEOREM GrowthWithinPlanHolds ==
  ASSUME MaxAutoScales = 0, NoBuilds
  PROVE  SerialSpec => GrowthWithinPlan
<1>1. Init => PlanInv
  BY DEF Init, PlanInv, CoverInv, HeldInv, TickInv, Resting, Busy, Idle, NoRow
<1>2. IInv /\ IInv' /\ SerialInv /\ PlanInv /\ [SerialNext]_vars => PlanInv'
  BY Zenon, PlanStep
<1>3. IInv /\ IInv' /\ SerialInv /\ PlanInv /\ [SerialNext]_vars =>
        [Containers(Agents)' > Containers(Agents) =>
           Containers({a \in Agents : rows[a].status \in Active})' <= PlanReplicas]_vars
  BY Zenon, PlanStep DEF Grows, WithinPlan, Containers
<1>4. QED
  BY <1>1, <1>2, <1>3, SerialSpecInv, PTL DEF SerialSpec, GrowthWithinPlan
=============================================================================
