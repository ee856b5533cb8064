--------------------------- MODULE Billing_proofs ---------------------------
(***************************************************************************)
(* Proofs about Billing, for any subscriptions, customers and requests in  *)
(* flight, and any number of events, deliveries and failures.              *)
(***************************************************************************)
EXTENDS Billing, FiniteSetTheorems, TLAPS

\* The types the arguments need.  A webhook that fetches, loads or commits has its
\* event.
Types ==
    /\ user \in User /\ stripe \in [Subs -> Subscription] /\ sent \subseteq Event
    /\ task \in [Tasks -> Task] /\ everPaid \subseteq Subs
    /\ \A h \in Tasks : task[h].pc \in {"fetch", "load", "commit"} => task[h].event \in Event

\* A request that could put the account on the paid plan.
Tells(t) == t.row.plan = "pro" \/ t.status \in PaidStatuses \/ t.event.type = "completed paid"

\* Before the first payment nothing says that there was one: not the account, not
\* Stripe, no event and no request that carries one or what it has read.
UnpaidInv ==
    everPaid = {} => /\ user.plan = "free"
                     /\ \A s \in Subs : ~IsPaid(s)
                     /\ \A e \in sent : e.type # "completed paid"
                     /\ \A h \in Tasks : ~Tells(task[h])

\* While no two requests have overlapped, at most one is in flight, and what it
\* loaded is what it replaces.
AloneInv ==
    "overlap" \notin excuses =>
        /\ \A g, h \in Tasks : g # h => TaskAt(g, "idle") \/ TaskAt(h, "idle")
        /\ \A h \in Tasks : TaskAt(h, "commit") => task[h].row = user
        /\ user.plan = plan_for_status(user.status)

IInv == Types /\ UnpaidInv /\ AloneInv

LEMMA InitIInv == ASSUME BillingInit PROVE IInv
<1>1. NewUser \in User /\ NoTask \in Task
  BY Zenon DEF NewUser, User, NoTask, Task, SubStatus
<1>2. Types
  BY Zenon, <1>1 DEF Types, BillingInit, Subscription, NoTask, SubStatus
<1>3. UnpaidInv
  BY Zenon DEF UnpaidInv, BillingInit, NewUser, IsPaid, Paying, Tells, NoTask, PaidStatuses, NoEvent
<1>4. AloneInv
  BY Zenon DEF AloneInv, BillingInit, TaskAt, NoTask, NewUser, plan_for_status, PaidStatuses
<1>5. QED
  BY Zenon, <1>2, <1>3, <1>4 DEF IInv

-----------------------------------------------------------------------------
(* Stripe. *)

\* What Stripe does to one subscription and reports, whatever it is.
LEMMA BecomesStep ==
  ASSUME IInv, NEW s \in Subs, NEW status \in SubStatus, Becomes(s, status),
         NEW types \in SUBSET {"completed paid", "completed unpaid", "changed", "deleted"},
         Emit(s, types), "completed paid" \in types => status \in Paying
  PROVE  IInv'
<1>1. /\ UNCHANGED <<user, task>>
      /\ stripe' = [stripe EXCEPT ![s] = [session |-> "done", customer |-> stripe[s].customer,
                                          status |-> status]]
      /\ everPaid' = IF status \in Paying THEN everPaid \cup {s} ELSE everPaid
      /\ excuses \subseteq excuses' /\ sent' = sent \cup [type : types, sub : {s}]
  BY Zenon DEF Becomes, Emit, IInv, Types
<1>2. stripe' \in [Subs -> Subscription]
  BY Zenon, <1>1 DEF IInv, Types, Subscription
<1>3. [type : types, sub : {s}] \subseteq Event
  BY Zenon DEF Event
<1>4. Types'
  BY Zenon, <1>1, <1>2, <1>3 DEF IInv, Types
<1>5. UnpaidInv'
  <2>1. SUFFICES ASSUME everPaid' = {} PROVE UnpaidInv'
    BY Zenon DEF UnpaidInv
  <2>2. everPaid = {} /\ status \notin Paying /\ "completed paid" \notin types
    BY Zenon, <1>1, <2>1
  <2>3. \A q \in Subs : stripe'[q].status = IF q = s THEN status ELSE stripe[q].status
    BY Zenon, <1>1 DEF IInv, Types
  <2>4. \A q \in Subs : ~IsPaid(q)'
    BY Zenon, <2>2, <2>3 DEF IInv, UnpaidInv, IsPaid
  <2>5. \A e \in sent' : e.type # "completed paid"
    BY Zenon, <1>1, <2>2 DEF IInv, UnpaidInv
  <2>6. QED
    BY Zenon, <1>1, <2>2, <2>4, <2>5 DEF IInv, UnpaidInv, Tells
<1>6. AloneInv'
  BY Zenon, <1>1 DEF IInv, AloneInv, TaskAt
<1>7. QED
  BY Zenon, <1>4, <1>5, <1>6 DEF IInv

LEMMA StripeStepIInv == ASSUME IInv, StripeStep PROVE IInv'
<1>0. /\ "active" \in SubStatus /\ "active" \in Paying
      /\ \A x \in {"incomplete", "canceled", "past_due", "unpaid"} : x \in SubStatus
  BY Zenon DEF SubStatus, Paying
<1>1. ASSUME NEW s \in Subs, NEW delayed \in BOOLEAN, CompleteCheckout(s, delayed) PROVE IInv'
  <2> DEFINE types == IF delayed THEN {"completed unpaid", "changed"} ELSE {"changed"}
  <2>1. types \in SUBSET {"completed paid", "completed unpaid", "changed", "deleted"}
        /\ "completed paid" \notin types
    BY Zenon
  <2>2. Becomes(s, "incomplete") /\ Emit(s, types)
    BY Zenon, <1>1 DEF CompleteCheckout
  <2> HIDE DEF types
  <2>3. QED
    BY Zenon, <1>0, <2>1, <2>2, BecomesStep
<1>2. ASSUME NEW s \in Subs, FirstPayment(s) PROVE IInv'
  <2> DEFINE types == IF [type |-> "completed unpaid", sub |-> s] \in sent
                      THEN {"changed"} ELSE {"completed paid", "changed"}
  <2>1. types \in SUBSET {"completed paid", "completed unpaid", "changed", "deleted"}
    BY Zenon
  <2>2. Becomes(s, "active") /\ Emit(s, types)
    BY Zenon, <1>2 DEF FirstPayment
  <2> HIDE DEF types
  <2>3. QED
    BY Zenon, <1>0, <2>1, <2>2, BecomesStep
<1>3. ASSUME NEW s \in Subs, NEW status \in {"active", "past_due", "unpaid"}, Renewal(s, status)
      PROVE  IInv'
  <2>1. {"changed"} \in SUBSET {"completed paid", "completed unpaid", "changed", "deleted"}
        /\ "completed paid" \notin {"changed"} /\ status \in SubStatus
    BY Zenon, <1>0
  <2>2. Becomes(s, status) /\ Emit(s, {"changed"})
    BY Zenon, <1>3 DEF Renewal
  <2>3. QED
    BY Zenon, <2>1, <2>2, BecomesStep
<1>4. ASSUME NEW s \in Subs, Cancel(s) PROVE IInv'
  <2>1. {"deleted"} \in SUBSET {"completed paid", "completed unpaid", "changed", "deleted"}
        /\ "completed paid" \notin {"deleted"}
    BY Zenon
  <2>2. Becomes(s, "canceled") /\ Emit(s, {"deleted"})
    BY Zenon, <1>4 DEF Cancel
  <2>3. QED
    BY Zenon, <1>0, <2>1, <2>2, BecomesStep
<1>5. QED
  BY Zenon, <1>1, <1>2, <1>3, <1>4 DEF StripeStep

-----------------------------------------------------------------------------
(* Requests. *)

\* A step of request h that leaves it as t: it tells of no payment before there is
\* one, and while nothing has overlapped it is alone and commits to the row it loaded.
RequestMove(h, t) ==
    /\ task' = [task EXCEPT ![h] = t] /\ user' \in User
    /\ stripe' \in [Subs -> Subscription]
    /\ \A s \in Subs : stripe'[s].status = stripe[s].status
    /\ UNCHANGED <<sent, everPaid>>
    /\ t.pc \in {"fetch", "load", "commit"} => t.event \in Event
    /\ everPaid = {} => ~Tells(t) /\ user'.plan = "free"
    /\ excuses \subseteq excuses'
    /\ "overlap" \notin excuses' =>
         /\ t.pc = "idle" \/ \A g \in Tasks \ {h} : TaskAt(g, "idle")
         /\ t.pc = "commit" => t.row = user'
         /\ user'.plan = plan_for_status(user'.status)
         /\ user' = user \/ \A g \in Tasks \ {h} : TaskAt(g, "idle")

LEMMA RequestStep ==
  ASSUME IInv, NEW h \in Tasks, NEW t \in Task, RequestMove(h, t)
  PROVE  IInv'
<1>1. \A g \in Tasks : task'[g] = IF g = h THEN t ELSE task[g]
  BY Zenon DEF RequestMove, IInv, Types
<1>2. task' \in [Tasks -> Task]
  BY Zenon DEF RequestMove, IInv, Types
<1>3. Types'
  BY Zenon, <1>1, <1>2 DEF RequestMove, IInv, Types
<1>4. UnpaidInv'
  <2>1. SUFFICES ASSUME everPaid' = {} PROVE UnpaidInv'
    BY Zenon DEF UnpaidInv
  <2>2. /\ everPaid = {} /\ ~Tells(t) /\ user'.plan = "free"
        /\ \A g \in Tasks : ~Tells(task[g])
        /\ \A s \in Subs : ~IsPaid(s)
        /\ \A e \in sent' : e.type # "completed paid"
    BY Zenon, <2>1 DEF RequestMove, IInv, UnpaidInv
  <2>3. \A g \in Tasks : ~Tells(task'[g])
    BY Zenon, <1>1, <2>2
  <2>4. \A s \in Subs : ~IsPaid(s)'
    BY Zenon, <2>2 DEF RequestMove, IsPaid
  <2>5. QED
    BY Zenon, <2>2, <2>3, <2>4 DEF UnpaidInv, Tells
<1>5. AloneInv'
  <2>1. SUFFICES ASSUME "overlap" \notin excuses'
                 PROVE  /\ \A f, g \in Tasks : f # g => TaskAt(f, "idle")' \/ TaskAt(g, "idle")'
                        /\ \A g \in Tasks : TaskAt(g, "commit")' => task'[g].row = user'
                        /\ user'.plan = plan_for_status(user'.status)
    BY Zenon DEF AloneInv, plan_for_status
  <2>2. /\ \A f, g \in Tasks : f # g => TaskAt(f, "idle") \/ TaskAt(g, "idle")
        /\ \A g \in Tasks : TaskAt(g, "commit") => task[g].row = user
    BY Zenon, <2>1 DEF RequestMove, IInv, AloneInv
  <2>3. /\ t.pc = "idle" \/ \A g \in Tasks \ {h} : TaskAt(g, "idle")
        /\ t.pc = "commit" => t.row = user'
        /\ user'.plan = plan_for_status(user'.status)
        /\ user' = user \/ \A g \in Tasks \ {h} : TaskAt(g, "idle")
    BY Zenon, <2>1 DEF RequestMove
  <2>4. \A f, g \in Tasks : f # g => TaskAt(f, "idle")' \/ TaskAt(g, "idle")'
    BY <1>1, <2>2, <2>3 DEF TaskAt
  <2>5. \A g \in Tasks : TaskAt(g, "commit")' => task'[g].row = user'
    BY Zenon, <1>1, <2>2, <2>3 DEF TaskAt
  <2>6. QED
    BY Zenon, <2>3, <2>4, <2>5
<1>6. QED
  BY Zenon, <1>3, <1>4, <1>5 DEF IInv

\* While nothing has overlapped, a request in flight is the only one.
LEMMA Alone ==
  ASSUME IInv, NEW h \in Tasks, ~TaskAt(h, "idle"), "overlap" \notin excuses
  PROVE  \A g \in Tasks \ {h} : TaskAt(g, "idle")
  BY Zenon DEF IInv, AloneInv

LEMMA Known ==
  ASSUME IInv, NEW h \in Tasks
  PROVE  /\ user \in User /\ stripe \in [Subs -> Subscription] /\ task[h] \in Task
         /\ everPaid = {} => user.plan = "free" /\ ~Tells(task[h])
         /\ "overlap" \notin excuses => user.plan = plan_for_status(user.status)
         /\ task \in [Tasks -> Task]
  BY Zenon DEF IInv, Types, UnpaidInv, AloneInv

\* A step that changes only its own request, which stays in flight and does not come
\* to its commit.
LEMMA OnlyTaskStep ==
  ASSUME IInv, NEW h \in Tasks, NEW t \in Task, task' = [task EXCEPT ![h] = t],
         UNCHANGED <<user, sent, everPaid>>, stripe' \in [Subs -> Subscription],
         \A s \in Subs : stripe'[s].status = stripe[s].status,
         excuses' = excuses \/ (TaskAt(h, "idle") /\ excuses' = excuses \cup Overlap),
         ~TaskAt(h, "idle") \/ t.pc = "idle" \/ excuses' = excuses \cup Overlap,
         t.pc \in {"fetch", "load", "commit"} => t.event \in Event,
         t.pc = "commit" => t.row = user,
         everPaid = {} => ~Tells(t)
  PROVE  IInv'
<1>1. \/ t.pc = "idle" \/ "overlap" \in excuses'
      \/ \A g \in Tasks \ {h} : TaskAt(g, "idle")
  <2>1. CASE ~TaskAt(h, "idle")
    BY Zenon, <2>1, Alone
  <2>2. CASE TaskAt(h, "idle") /\ excuses' = excuses \cup Overlap
    BY Zenon, <2>2 DEF Overlap, AtRest
  <2>3. QED
    BY Zenon, <2>1, <2>2
<1>2. RequestMove(h, t)
  BY Zenon, <1>1, Known DEF RequestMove
<1>3. QED
  BY Zenon, <1>2, RequestStep

LEMMA NewUserTypes == NewUser \in User /\ NoTask \in Task /\ ~Tells(NoTask)
  BY Zenon DEF NewUser, User, NoTask, Task, SubStatus, Tells, PaidStatuses, NoEvent

\* What a request is when it starts, is a request.
LEMMA StartTypes ==
  ASSUME NEW pc \in {"fetch", "load", "customer", "session"},
         NEW event \in Event \cup {NoEvent}, NEW again \in BOOLEAN, NEW row \in User
  PROVE  [pc |-> pc, event |-> event, again |-> again, row |-> row,
          status |-> "none", customer |-> row.customer] \in Task
<1>1. row.customer \in Customers \cup {None}
  BY Zenon DEF User
<1>2. "none" \in SubStatus
  BY Zenon DEF SubStatus
<1> DEFINE customer == row.customer
<1>3. customer \in Customers \cup {None}
  BY Zenon, <1>1
<1> HIDE DEF customer
<1>4. [pc |-> pc, event |-> event, again |-> again, row |-> row,
       status |-> "none", customer |-> customer] \in Task
  BY Zenon, <1>2, <1>3 DEF Task
<1>5. QED
  BY Zenon, <1>4 DEF customer

LEMMA StartStep ==
  ASSUME IInv, NEW h \in Tasks, NEW pc \in {"fetch", "load", "customer", "session"},
         NEW event \in Event \cup {NoEvent}, NEW again \in BOOLEAN, NEW row \in User,
         StartTask(h, pc, event, again, row), UNCHANGED <<user, world>>,
         pc \in {"fetch", "load"} => event \in Event,
         everPaid = {} => row.plan = "free" /\ event.type # "completed paid"
  PROVE  IInv'
<1> DEFINE t == [pc |-> pc, event |-> event, again |-> again, row |-> row,
                 status |-> "none", customer |-> row.customer]
<1>1. t \in Task /\ t.pc = pc /\ t.event = event
  BY Zenon, StartTypes
<1>2. everPaid = {} => ~Tells(t)
  BY Zenon DEF Tells, PaidStatuses
<1>3. /\ task' = [task EXCEPT ![h] = t] /\ TaskAt(h, "idle") /\ excuses' = excuses \cup Overlap
      /\ UNCHANGED <<user, sent, everPaid, stripe>>
  BY Zenon DEF StartTask, world
<1> HIDE DEF t
<1>4. QED
  BY Zenon, <1>1, <1>2, <1>3, Known, OnlyTaskStep

LEMMA BeginCheckoutStep == ASSUME IInv, NEW h \in Tasks, BeginCheckout(h) PROVE IInv'
<1>1. NoEvent.type # "completed paid"
  BY Zenon DEF NoEvent
<1> DEFINE pc == IF user.customer = None THEN "customer" ELSE "session"
<1>2. pc \in {"fetch", "load", "customer", "session"} /\ pc \notin {"fetch", "load"}
  BY Zenon
<1>3. StartTask(h, pc, NoEvent, FALSE, user) /\ UNCHANGED <<user, world>>
  BY Zenon DEF BeginCheckout
<1> HIDE DEF pc
<1>4. QED
  BY Zenon, <1>1, <1>2, <1>3, Known, StartStep

LEMMA DeliverStep == ASSUME IInv, NEW h \in Tasks, NEW e \in sent, Deliver(h, e) PROVE IInv'
<1> DEFINE again == Cardinality({g \in Tasks : task[g].event = e /\ ~task[g].again}) >= due[e]
           pc == IF e.type = "changed" THEN "fetch" ELSE "load"
<1>1. e \in Event /\ (everPaid = {} => e.type # "completed paid")
  BY Zenon DEF IInv, Types, UnpaidInv
<1>2. NewUser \in User /\ NewUser.plan = "free"
  BY Zenon, NewUserTypes DEF NewUser
<1>3. pc \in {"fetch", "load", "customer", "session"} /\ again \in BOOLEAN
  OBVIOUS
<1>4. StartTask(h, pc, e, again, NewUser) /\ UNCHANGED <<user, world>>
  BY Zenon DEF Deliver
<1> HIDE DEF pc, again
<1>5. QED
  BY Zenon, <1>1, <1>2, <1>3, <1>4, StartStep

LEMMA CreateCustomerStep == ASSUME IInv, NEW h \in Tasks, CreateCustomer(h) PROVE IInv'
<1>1. PICK c \in Customers : task' = [task EXCEPT ![h].pc = "saveCustomer", ![h].customer = c]
  BY Zenon DEF CreateCustomer
<1> DEFINE t == [task[h] EXCEPT !.pc = "saveCustomer", !.customer = c]
<1>2. t \in Task /\ t.pc = "saveCustomer" /\ (Tells(t) <=> Tells(task[h]))
  BY Zenon, Known DEF Task, Tells
<1>3. task' = [task EXCEPT ![h] = t]
  BY Zenon, <1>1, Known
<1>4. UNCHANGED <<user, stripe, sent, everPaid, excuses>> /\ ~TaskAt(h, "idle")
  BY Zenon DEF CreateCustomer, TaskAt
<1> HIDE DEF t
<1>5. QED
  BY Zenon, <1>2, <1>3, <1>4, Known, OnlyTaskStep

\* The session of a checkout is opened; no status changes.
LEMMA CreateSessionStep == ASSUME IInv, NEW h \in Tasks, CreateSession(h) PROVE IInv'
<1>1. PICK s \in Subs :
        stripe' = [stripe EXCEPT ![s].session = "open", ![s].customer = task[h].customer]
  BY Zenon DEF CreateSession
<1>2. task[h].customer \in Customers \cup {None} /\ stripe \in [Subs -> Subscription]
  BY Zenon, Known DEF Task
<1> DEFINE new == [stripe[s] EXCEPT !.session = "open", !.customer = task[h].customer]
<1>3. new \in Subscription /\ new.status = stripe[s].status
  BY Zenon, <1>2 DEF Subscription
<1>4. stripe' = [stripe EXCEPT ![s] = new]
  BY Zenon, <1>1, <1>2
<1> HIDE DEF new
<1>5. stripe' \in [Subs -> Subscription] /\ \A q \in Subs : stripe'[q].status = stripe[q].status
  BY Zenon, <1>2, <1>3, <1>4
<1>6. UNCHANGED <<user, sent, everPaid, excuses>> /\ task' = [task EXCEPT ![h] = NoTask]
  BY Zenon DEF CreateSession, EndTask
<1>7. NoTask.pc = "idle"
  BY Zenon DEF NoTask
<1>8. QED
  BY Zenon, <1>5, <1>6, <1>7, NewUserTypes, OnlyTaskStep

LEMMA FailStep == ASSUME IInv, NEW h \in Tasks, TaskFails(h) PROVE IInv'
<1>1. UNCHANGED <<user, stripe, sent, everPaid, excuses>> /\ task' = [task EXCEPT ![h] = NoTask]
  BY Zenon DEF TaskFails, EndTask, world
<1>2. NoTask.pc = "idle"
  BY Zenon DEF NoTask
<1>3. QED
  BY Zenon, <1>1, <1>2, Known, NewUserTypes, OnlyTaskStep

\* Fetching asks Stripe, which tells of a payment only when there was one.
LEMMA FetchStep == ASSUME IInv, NEW h \in Tasks, Fetch(h) PROVE IInv'
<1> DEFINE status == stripe[task[h].event.sub].status
           t == [task[h] EXCEPT !.pc = "load", !.status = status]
<1>1. task[h].pc = "fetch" /\ task[h].event \in Event /\ task[h].event.sub \in Subs
  BY Zenon DEF Fetch, TaskAt, IInv, Types, Event
<1>2. status \in SubStatus /\ (everPaid = {} => status \notin PaidStatuses)
  BY Zenon, <1>1, Known DEF IInv, UnpaidInv, IsPaid, Subscription, SubStatus, Paying, PaidStatuses
<1> HIDE DEF status
<1>3. t \in Task /\ t.pc = "load" /\ t.event = task[h].event
      /\ (everPaid = {} => ~Tells(t))
  BY Zenon, <1>2, Known DEF Task, Tells
<1>4. task' = [task EXCEPT ![h] = t]
  BY Zenon, Known DEF Fetch, status
<1>5. UNCHANGED <<user, stripe, sent, everPaid, excuses>> /\ ~TaskAt(h, "idle")
  BY Zenon, <1>1 DEF Fetch, world, TaskAt
<1> HIDE DEF t
<1>6. QED
  BY Zenon, <1>1, <1>3, <1>4, <1>5, Known, OnlyTaskStep

LEMMA LoadStep == ASSUME IInv, NEW h \in Tasks, Load(h) PROVE IInv'
<1> DEFINE t == [task[h] EXCEPT !.pc = "commit", !.row = user]
<1>1. task[h].pc = "load" /\ task[h].event \in Event
  BY Zenon DEF Load, TaskAt, IInv, Types
<1>2. t \in Task /\ t.pc = "commit" /\ t.event = task[h].event /\ t.row = user
      /\ (everPaid = {} => ~Tells(t))
  BY Zenon, Known DEF Task, Tells
<1>3. task' = [task EXCEPT ![h] = t]
  BY Zenon, Known DEF Load
<1>4. UNCHANGED <<user, stripe, sent, everPaid, excuses>> /\ ~TaskAt(h, "idle")
  BY Zenon, <1>1 DEF Load, world, TaskAt
<1> HIDE DEF t
<1>5. QED
  BY Zenon, <1>1, <1>2, <1>3, <1>4, Known, OnlyTaskStep

\* A commit over the very row that was loaded writes the new row as a whole.
LEMMA SaveWhole ==
  ASSUME NEW loaded \in User, NEW new \in User, user \in User, SaveUser(loaded, new)
  PROVE  /\ user' \in User
         /\ user'.plan \in {user.plan, new.plan} /\ user'.status \in {user.status, new.status}
         /\ loaded = user => user' = new
         /\ new.plan = loaded.plan => user'.plan = user.plan
         /\ new.status = loaded.status => user'.status = user.status
<1>1. /\ user' \in User
      /\ user'.plan = IF new.plan # loaded.plan THEN new.plan ELSE user.plan
      /\ user'.status = IF new.status # loaded.status THEN new.status ELSE user.status
  BY Zenon DEF SaveUser, User
<1>2. loaded = user => user' = new
  BY Zenon DEF SaveUser, User
<1>3. QED
  BY Zenon, <1>1, <1>2

LEMMA SaveCustomerStep == ASSUME IInv, NEW h \in Tasks, SaveCustomer(h) PROVE IInv'
<1> DEFINE row == task[h].row
           new == [row EXCEPT !.customer = task[h].customer]
           t == [task[h] EXCEPT !.pc = "session"]
<1>1. row \in User /\ new \in User /\ new.plan = row.plan /\ new.status = row.status
  BY Known DEF Task, User
<1>2. SaveUser(row, new) /\ UNCHANGED <<sent, everPaid, stripe, excuses>> /\ ~TaskAt(h, "idle")
  BY Zenon DEF SaveCustomer, world, TaskAt
<1>3. t \in Task /\ t.pc = "session" /\ task' = [task EXCEPT ![h] = t]
      /\ (everPaid = {} => ~Tells(t))
  BY Zenon, Known DEF Task, Tells, SaveCustomer
<1> HIDE DEF row, new, t
<1>4. user' \in User /\ user'.plan = user.plan /\ user'.status = user.status
  BY Zenon, <1>1, <1>2, Known, SaveWhole
<1>5. RequestMove(h, t)
  BY Zenon, <1>2, <1>3, <1>4, Known, Alone DEF RequestMove
<1>6. QED
  BY Zenon, <1>3, <1>5, RequestStep

\* What a webhook writes: a row of the account that is consistent when the loaded one
\* is, and on the paid plan only if something said so.
WrittenRow(h) ==
    LET e == task[h].event
        row == task[h].row
    IN  CASE e.type \in Completed -> CheckedOut(row, e)
          [] e.type = "changed"   -> Synced(row, e.sub, task[h].status)
          [] e.type = "deleted"   -> Synced(row, e.sub, "canceled")

LEMMA SyncedRow ==
  ASSUME NEW row \in User, NEW s \in Subs, NEW status \in SubStatus, stripe[s] \in Subscription
  PROVE  /\ Synced(row, s, status) \in User
         /\ row.plan = plan_for_status(row.status) =>
              Synced(row, s, status).plan = plan_for_status(Synced(row, s, status).status)
         /\ row.plan = "free" /\ status \notin PaidStatuses => Synced(row, s, status).plan = "free"
<1> DEFINE new == [customer |-> stripe[s].customer, sub |-> s, status |-> status,
                   plan |-> plan_for_status(status)]
<1>1. new \in User /\ new.plan = plan_for_status(new.status)
      /\ (status \notin PaidStatuses => new.plan = "free")
  BY Zenon DEF User, Subscription, plan_for_status
<1>2. Synced(row, s, status) \in {row, new}
  BY Zenon DEF Synced
<1> HIDE DEF new
<1>3. QED
  BY Zenon, <1>1, <1>2

LEMMA CheckedOutRow ==
  ASSUME NEW row \in User, NEW e \in Event, stripe[e.sub] \in Subscription
  PROVE  /\ CheckedOut(row, e) \in User
         /\ row.plan = plan_for_status(row.status) =>
              CheckedOut(row, e).plan = plan_for_status(CheckedOut(row, e).status)
         /\ row.plan = "free" /\ e.type # "completed paid" => CheckedOut(row, e).plan = "free"
<1>1. CASE e.type = "completed paid"
  BY Zenon, <1>1 DEF CheckedOut, User, Event, Subscription, SubStatus, plan_for_status, PaidStatuses
<1>2. CASE e.type # "completed paid"
  BY Zenon, <1>2 DEF CheckedOut, User, Event, Subscription, SubStatus
<1>3. QED
  BY Zenon, <1>1, <1>2

LEMMA WrittenRowHolds ==
  ASSUME IInv, NEW h \in Tasks, TaskAt(h, "commit")
  PROVE  /\ WrittenRow(h) \in User
         /\ task[h].row.plan = plan_for_status(task[h].row.status) =>
              WrittenRow(h).plan = plan_for_status(WrittenRow(h).status)
         /\ everPaid = {} => WrittenRow(h).plan = "free"
<1> DEFINE e == task[h].event
           row == task[h].row
<1>1. /\ e \in Event /\ row \in User /\ task[h].status \in SubStatus /\ e.sub \in Subs
      /\ stripe[e.sub] \in Subscription
      /\ e.type \in {"completed paid", "completed unpaid", "changed", "deleted"}
  BY Zenon, Known DEF IInv, Types, TaskAt, Task, Event
<1>2. "canceled" \in SubStatus /\ "canceled" \notin PaidStatuses
  BY Zenon DEF SubStatus, PaidStatuses
<1>3. everPaid = {} => row.plan = "free" /\ task[h].status \notin PaidStatuses
                       /\ e.type # "completed paid"
  BY Zenon, <1>1, Known DEF Tells, User
<1>4. CASE e.type \in Completed
  <2>1. WrittenRow(h) = CheckedOut(row, e)
    <3>1. e.type # "changed" /\ e.type # "deleted"
      BY Zenon, <1>4 DEF Completed
    <3>2. QED
      BY Zenon, <1>4, <3>1 DEF WrittenRow
  <2>2. QED
    BY Zenon, <1>1, <1>3, <2>1, CheckedOutRow
<1>5. CASE e.type = "changed"
  <2>1. WrittenRow(h) = Synced(row, e.sub, task[h].status)
    BY Zenon, <1>5 DEF WrittenRow, Completed
  <2>2. QED
    <3> HIDE DEF row, e
    <3> DEFINE status == task[h].status
    <3> HIDE DEF status
    <3>1. /\ Synced(row, e.sub, status) \in User
          /\ row.plan = plan_for_status(row.status) =>
               Synced(row, e.sub, status).plan = plan_for_status(Synced(row, e.sub, status).status)
          /\ row.plan = "free" /\ status \notin PaidStatuses =>
               Synced(row, e.sub, status).plan = "free"
      BY Zenon, <1>1, SyncedRow DEF status
    <3>2. QED
      BY Zenon, <1>3, <2>1, <3>1 DEF status, row
<1>6. CASE e.type = "deleted"
  <2>1. WrittenRow(h) = Synced(row, e.sub, "canceled")
    BY Zenon, <1>6 DEF WrittenRow, Completed
  <2>2. QED
    <3> HIDE DEF row, e
    <3>1. /\ Synced(row, e.sub, "canceled") \in User
          /\ row.plan = plan_for_status(row.status) =>
               Synced(row, e.sub, "canceled").plan
                 = plan_for_status(Synced(row, e.sub, "canceled").status)
          /\ row.plan = "free" => Synced(row, e.sub, "canceled").plan = "free"
      BY Zenon, <1>1, <1>2, SyncedRow
    <3>2. QED
      BY Zenon, <1>3, <2>1, <3>1 DEF row
<1>7. QED
  BY Zenon, <1>1, <1>4, <1>5, <1>6 DEF Completed

LEMMA ApplyStep == ASSUME IInv, NEW h \in Tasks, ApplyEvent(h) PROVE IInv'
<1> DEFINE row == task[h].row
           new == WrittenRow(h)
<1>1. /\ TaskAt(h, "commit") /\ ~TaskAt(h, "idle") /\ excuses \subseteq excuses'
      /\ UNCHANGED <<sent, everPaid, stripe>> /\ task' = [task EXCEPT ![h] = NoTask]
  BY Zenon DEF ApplyEvent, EndTask, world, TaskAt
<1>2. SaveUser(row, new)
  BY Zenon DEF ApplyEvent, WrittenRow
<1>3. new \in User /\ row \in User /\ (everPaid = {} => new.plan = "free")
      /\ (row.plan = plan_for_status(row.status) => new.plan = plan_for_status(new.status))
  BY Zenon, <1>1, Known, WrittenRowHolds DEF Task
<1> HIDE DEF row, new
<1>4. user' \in User /\ user'.plan \in {user.plan, new.plan} /\ (row = user => user' = new)
  BY Zenon, <1>2, <1>3, Known, SaveWhole
<1>5. "overlap" \notin excuses => row = user /\ user' = new
  BY Zenon, <1>1, <1>4 DEF IInv, AloneInv, row
<1>6. "overlap" \notin excuses' => user'.plan = plan_for_status(user'.status)
  BY Zenon, <1>1, <1>3, <1>5, Known
<1>7. everPaid = {} => user'.plan = "free"
  BY <1>3, <1>4, Known
<1>8. NoTask.pc = "idle"
  BY Zenon DEF NoTask
<1>9. RequestMove(h, NoTask)
  BY Zenon, <1>1, <1>4, <1>6, <1>7, <1>8, Known, NewUserTypes, Alone DEF RequestMove
<1>10. QED
  BY Zenon, <1>9, NewUserTypes, RequestStep

LEMMA NextIInv == IInv /\ [BillingNext]_billingVars => IInv'
<1> SUFFICES ASSUME IInv, [BillingNext]_billingVars PROVE IInv'
  BY Zenon
<1>1. CASE UNCHANGED billingVars
  BY Zenon, <1>1 DEF IInv, Types, UnpaidInv, AloneInv, Tells, IsPaid, TaskAt, billingVars, world
<1>2. CASE StripeStep
  BY Zenon, <1>2, StripeStepIInv
<1>3. ASSUME NEW h \in Tasks,
             \/ BeginCheckout(h) \/ CreateCustomer(h) \/ SaveCustomer(h) \/ CreateSession(h)
             \/ \E e \in sent : Deliver(h, e)
             \/ Fetch(h) \/ Load(h) \/ ApplyEvent(h)
             \/ TaskFails(h)
      PROVE  IInv'
  BY Zenon, <1>3, BeginCheckoutStep, CreateCustomerStep, SaveCustomerStep, CreateSessionStep,
     DeliverStep, FetchStep, LoadStep, ApplyStep, FailStep
<1>4. QED
  BY Zenon, <1>1, <1>2, <1>3 DEF BillingNext

LEMMA SpecIInv == BillingSpec => []IInv
<1>1. BillingInit => IInv
  BY Zenon, InitIInv
<1>2. QED
  BY <1>1, NextIInv, PTL DEF BillingSpec

-----------------------------------------------------------------------------
\* handle_event never puts an account on the paid plan that Stripe has had no payment
\* for, in whatever order, and however often, its events are handled.
THEOREM ProWasPaidHolds == BillingSpec => []ProWasPaid
<1>1. IInv => ProWasPaid
  BY Zenon DEF IInv, UnpaidInv, ProWasPaid
<1>2. QED
  BY <1>1, SpecIInv, PTL

\* As long as no two requests of the account overlap, users.plan is the plan that
\* subscription_status stands for.
THEOREM PlanMatchesStatusHolds == BillingSpec => []PlanMatchesStatus
<1>1. IInv => PlanMatchesStatus
  BY Zenon DEF IInv, AloneInv, PlanMatchesStatus
<1>2. QED
  BY <1>1, SpecIInv, PTL

-----------------------------------------------------------------------------
(* The events due. *)

\* The requests whose answer will settle event e.
Settling(tasks, e) == {g \in Tasks : tasks[g].event = e /\ ~tasks[g].again}

\* Stripe waits for every answer that is on its way, about events it has sent.
DueInv ==
    /\ customers \subseteq Customers /\ due \in [Event -> Nat]
    /\ excuses \subseteq {"overlap", "double", "unpaid"}
    /\ events \in Nat /\ mishaps \in Nat
    /\ \A e \in Event : Cardinality(Settling(task, e)) <= due[e]
    /\ \A e \in Event : due[e] > 0 => e \in sent
    /\ \A h \in Tasks : /\ task[h].event # NoEvent => task[h].event \in sent
                        /\ TaskAt(h, "idle") => task[h].event = NoEvent

LEMMA NoEventIsNone == NoEvent \notin Event
  BY Zenon DEF NoEvent, Event

LEMMA SettlingFinite ==
  ASSUME NEW tasks, NEW e
  PROVE  IsFiniteSet(Settling(tasks, e)) /\ Cardinality(Settling(tasks, e)) \in Nat
<1>1. Settling(tasks, e) \subseteq Tasks
  BY Zenon DEF Settling
<1>2. QED
  BY Zenon, <1>1, TasksAssumption, FS_Subset, FS_CardinalityType

LEMMA SettlingFewer ==
  ASSUME NEW tasks, NEW others, NEW e, Settling(others, e) \subseteq Settling(tasks, e)
  PROVE  Cardinality(Settling(others, e)) <= Cardinality(Settling(tasks, e))
  BY Zenon, SettlingFinite, FS_Subset

\* What a step that settles nothing and delivers nothing does to the events due.
DueMove(h, t) ==
    /\ task' = [task EXCEPT ![h] = t] /\ UNCHANGED <<sent, due>>
    /\ t.event = NoEvent \/ (t.event = task[h].event /\ (t.again <=> task[h].again))
    /\ t.pc = "idle" => t.event = NoEvent
    /\ customers' \subseteq Customers /\ excuses' \subseteq {"overlap", "double", "unpaid"}
    /\ events' \in Nat /\ mishaps' \in Nat

LEMMA DueMoves ==
  ASSUME IInv, DueInv, NEW h \in Tasks, NEW t, DueMove(h, t)
  PROVE  DueInv'
<1>1. \A g \in Tasks : task'[g] = IF g = h THEN t ELSE task[g]
  BY Zenon DEF DueMove, IInv, Types
<1>2. ASSUME NEW e \in Event
      PROVE  Cardinality(Settling(task', e)) <= due'[e]
  <2>1. Settling(task', e) \subseteq Settling(task, e)
    BY <1>1, NoEventIsNone DEF Settling, DueMove
  <2>2. Cardinality(Settling(task', e)) <= Cardinality(Settling(task, e))
    BY Zenon, <2>1, SettlingFewer
  <2>3. Cardinality(Settling(task, e)) <= due[e] /\ due'[e] = due[e] /\ due[e] \in Nat
    BY Zenon DEF DueInv, DueMove
  <2>4. QED
    BY <2>2, <2>3, SettlingFinite
<1>3. /\ customers' \subseteq Customers /\ due' \in [Event -> Nat]
      /\ excuses' \subseteq {"overlap", "double", "unpaid"}
      /\ events' \in Nat /\ mishaps' \in Nat
      /\ \A e \in Event : due'[e] > 0 => e \in sent'
  BY Zenon DEF DueInv, DueMove
<1>4. \A g \in Tasks : /\ task'[g].event # NoEvent => task'[g].event \in sent'
                       /\ task'[g].pc = "idle" => task'[g].event = NoEvent
  BY <1>1 DEF DueInv, DueMove, TaskAt
<1>5. QED
  BY Zenon, <1>2, <1>3, <1>4 DEF DueInv, TaskAt

LEMMA RequestDue ==
  ASSUME IInv, DueInv, NEW h \in Tasks,
         \/ BeginCheckout(h) \/ CreateCustomer(h) \/ SaveCustomer(h) \/ CreateSession(h)
         \/ Fetch(h) \/ Load(h) \/ TaskFails(h)
  PROVE  DueInv'
<1>0. /\ task \in [Tasks -> Task] /\ task[h] \in Task
      /\ NoTask.event = NoEvent
      /\ customers \subseteq Customers /\ excuses \subseteq {"overlap", "double", "unpaid"}
      /\ events \in Nat /\ mishaps \in Nat
  BY Zenon, Known DEF DueInv, NoTask
<1>1. CASE BeginCheckout(h)
  <2> DEFINE t == [pc |-> IF user.customer = None THEN "customer" ELSE "session",
                   event |-> NoEvent, again |-> FALSE, row |-> user,
                   status |-> "none", customer |-> user.customer]
  <2>1. /\ task' = [task EXCEPT ![h] = t] /\ t.event = NoEvent
        /\ excuses' = excuses \cup Overlap
    BY Zenon, <1>1 DEF BeginCheckout, StartTask
  <2> HIDE DEF t
  <2>2. DueMove(h, t)
    BY Zenon, <1>0, <1>1, <2>1 DEF DueMove, BeginCheckout, Overlap, world
  <2>3. QED
    BY Zenon, <2>2, DueMoves
<1>2. CASE CreateCustomer(h)
  <2>1. PICK c \in Customers : /\ task' = [task EXCEPT ![h].pc = "saveCustomer", ![h].customer = c]
                               /\ customers' = customers \cup {c}
    BY Zenon, <1>2 DEF CreateCustomer
  <2> DEFINE t == [task[h] EXCEPT !.pc = "saveCustomer", !.customer = c]
  <2>2. /\ task' = [task EXCEPT ![h] = t] /\ t.pc = "saveCustomer"
        /\ t.event = task[h].event /\ (t.again <=> task[h].again)
    BY Zenon, <1>0, <2>1 DEF Task
  <2> HIDE DEF t
  <2>3. DueMove(h, t)
    BY Zenon, <1>0, <1>2, <2>1, <2>2 DEF DueMove, CreateCustomer
  <2>4. QED
    BY Zenon, <2>3, DueMoves
<1>3. CASE SaveCustomer(h)
  <2> DEFINE t == [task[h] EXCEPT !.pc = "session"]
  <2>1. /\ task' = [task EXCEPT ![h] = t] /\ t.pc = "session"
        /\ t.event = task[h].event /\ (t.again <=> task[h].again)
    BY Zenon, <1>0, <1>3 DEF Task, SaveCustomer
  <2> HIDE DEF t
  <2>2. DueMove(h, t)
    BY Zenon, <1>0, <1>3, <2>1 DEF DueMove, SaveCustomer, world
  <2>3. QED
    BY <2>2, DueMoves
<1>4. CASE CreateSession(h) \/ TaskFails(h)
  <2>1. DueMove(h, NoTask)
    BY <1>0, <1>4 DEF DueMove, CreateSession, TaskFails, EndTask, world
  <2>2. QED
    BY Zenon, <2>1, DueMoves
<1>5. CASE Fetch(h)
  <2> DEFINE t == [task[h] EXCEPT !.pc = "load", !.status = stripe[task[h].event.sub].status]
  <2>1. /\ task' = [task EXCEPT ![h] = t] /\ t.pc = "load"
        /\ t.event = task[h].event /\ (t.again <=> task[h].again)
    BY Zenon, <1>0, <1>5 DEF Task, Fetch
  <2> HIDE DEF t
  <2>2. DueMove(h, t)
    BY Zenon, <1>0, <1>5, <2>1 DEF DueMove, Fetch, world
  <2>3. QED
    BY Zenon, <2>2, DueMoves
<1>6. CASE Load(h)
  <2> DEFINE t == [task[h] EXCEPT !.pc = "commit", !.row = user]
  <2>1. /\ task' = [task EXCEPT ![h] = t] /\ t.pc = "commit"
        /\ t.event = task[h].event /\ (t.again <=> task[h].again)
    BY Zenon, <1>0, <1>6 DEF Task, Load
  <2> HIDE DEF t
  <2>2. DueMove(h, t)
    BY Zenon, <1>0, <1>6, <2>1 DEF DueMove, Load, world
  <2>3. QED
    BY <2>2, DueMoves
<1>7. QED
  BY Zenon, <1>1, <1>2, <1>3, <1>4, <1>5, <1>6

\* Deliver settles an event only if an answer for it is still missing.
LEMMA DeliverDue ==
  ASSUME IInv, DueInv, NEW h \in Tasks, NEW e \in sent, Deliver(h, e)
  PROVE  DueInv'
<1> DEFINE again == Cardinality({g \in Tasks : task[g].event = e /\ ~task[g].again}) >= due[e]
<1>1. e \in Event /\ e # NoEvent /\ task[h].event = NoEvent
  BY Zenon, NoEventIsNone DEF IInv, Types, DueInv, Deliver, StartTask
<1>2. again <=> Cardinality(Settling(task, e)) >= due[e]
  BY Zenon DEF Settling
<1> DEFINE t == [pc |-> IF e.type = "changed" THEN "fetch" ELSE "load", event |-> e,
                 again |-> again, row |-> NewUser, status |-> "none",
                 customer |-> NewUser.customer]
<1>3. /\ task' = [task EXCEPT ![h] = t] /\ t.event = e /\ (t.again <=> again)
      /\ t.pc # "idle" /\ excuses' = excuses \cup Overlap
  BY Zenon DEF Deliver, StartTask
<1>4. /\ UNCHANGED <<customers, sent, events, due>> /\ mishaps' \in {mishaps, mishaps + 1}
  BY Zenon DEF Deliver, world
<1> HIDE DEF again, t
<1>5. \A g \in Tasks : task'[g] = IF g = h THEN t ELSE task[g]
  BY Zenon, <1>3 DEF IInv, Types
<1>6. ASSUME NEW f \in Event
      PROVE  Cardinality(Settling(task', f)) <= due'[f]
  <2>1. Cardinality(Settling(task, f)) <= due[f] /\ due'[f] = due[f] /\ due[f] \in Nat
    BY Zenon, <1>4 DEF DueInv
  <2>2. CASE f = e /\ ~again
    <3>1. Settling(task', f) = Settling(task, f) \cup {h}
      BY Zenon, <1>3, <1>5, <2>2 DEF Settling
    <3>2. Cardinality(Settling(task', f)) <= Cardinality(Settling(task, f)) + 1
      <4> DEFINE S == Settling(task, f)
      <4>1. IsFiniteSet(S) /\ Cardinality(S) \in Nat
        BY Zenon, SettlingFinite
      <4> HIDE DEF S
      <4>2. Cardinality(S \cup {h}) = IF h \in S THEN Cardinality(S) ELSE Cardinality(S) + 1
        BY Zenon, <4>1, FS_AddElement
      <4>3. Cardinality(Settling(task', f)) = Cardinality(S \cup {h})
        BY Zenon, <3>1 DEF S
      <4>4. Cardinality(Settling(task', f)) <= Cardinality(S) + 1
        BY <4>1, <4>2, <4>3
      <4>5. QED
        BY Zenon, <4>4 DEF S
    <3>3. ~(Cardinality(Settling(task, f)) >= due[f])
      BY Zenon, <1>2, <2>2
    <3>4. QED
      BY <2>1, <3>2, <3>3, SettlingFinite
  <2>3. CASE f # e \/ again
    <3>1. Settling(task', f) \subseteq Settling(task, f)
      BY Zenon, <1>3, <1>5, <2>3 DEF Settling
    <3>2. Cardinality(Settling(task', f)) <= Cardinality(Settling(task, f))
      BY Zenon, <3>1, SettlingFewer
    <3>3. QED
      BY <2>1, <3>2, SettlingFinite
  <2>4. QED
    BY Zenon, <2>2, <2>3
<1>7. /\ customers' \subseteq Customers /\ due' \in [Event -> Nat]
      /\ excuses' \subseteq {"overlap", "double", "unpaid"}
      /\ events' \in Nat /\ mishaps' \in Nat
      /\ \A f \in Event : due'[f] > 0 => f \in sent'
  BY <1>3, <1>4 DEF DueInv, Overlap
<1>8. \A g \in Tasks : /\ task'[g].event # NoEvent => task'[g].event \in sent'
                       /\ task'[g].pc = "idle" => task'[g].event = NoEvent
  BY <1>3, <1>4, <1>5 DEF DueInv, TaskAt
<1>9. QED
  BY Zenon, <1>6, <1>7, <1>8 DEF DueInv, TaskAt

\* The 200 for an event settles it once.
LEMMA ApplyDue ==
  ASSUME IInv, DueInv, NEW h \in Tasks, ApplyEvent(h)
  PROVE  DueInv'
<1> DEFINE e == task[h].event
<1>1. e \in Event /\ e \in sent /\ e # NoEvent /\ NoTask.event = NoEvent
  BY Zenon, NoEventIsNone DEF ApplyEvent, TaskAt, IInv, Types, DueInv, NoTask
<1>2. \A g \in Tasks : task'[g] = IF g = h THEN NoTask ELSE task[g]
  BY Zenon DEF ApplyEvent, EndTask, IInv, Types
<1>3. /\ UNCHANGED <<customers, sent, events, mishaps>>
      /\ excuses' \subseteq excuses \cup {"unpaid"}
      /\ due' = IF task[h].again THEN due ELSE [due EXCEPT ![e] = @ - 1]
  BY Zenon DEF ApplyEvent, Answered, world
<1> HIDE DEF e
<1>4. ASSUME NEW f \in Event
      PROVE  due'[f] \in Nat /\ due'[f] <= due[f] /\ Cardinality(Settling(task', f)) <= due'[f]
  <2>1. Cardinality(Settling(task, f)) <= due[f] /\ due[f] \in Nat
    BY Zenon DEF DueInv
  <2>2. CASE f = e /\ ~task[h].again
    <3>1. h \in Settling(task, f) /\ Settling(task', f) = Settling(task, f) \ {h}
      BY Zenon, <1>1, <1>2, <2>2 DEF Settling, e
    <3>2. Cardinality(Settling(task', f)) = Cardinality(Settling(task, f)) - 1
      BY Zenon, <3>1, SettlingFinite, FS_RemoveElement
    <3>3. due'[f] = due[f] - 1
      BY Zenon, <1>3, <2>2 DEF DueInv
    <3>4. QED
      BY <2>1, <3>2, <3>3, SettlingFinite
  <2>3. CASE f # e \/ task[h].again
    <3>1. Settling(task', f) \subseteq Settling(task, f)
      BY Zenon, <1>1, <1>2, NoEventIsNone DEF Settling
    <3>2. Cardinality(Settling(task', f)) <= Cardinality(Settling(task, f))
      BY Zenon, <3>1, SettlingFewer
    <3>3. due'[f] = due[f]
      BY Zenon, <1>1, <1>3, <2>3 DEF DueInv
    <3>4. QED
      BY <2>1, <3>2, <3>3, SettlingFinite
  <2>4. QED
    BY Zenon, <2>2, <2>3
<1>5. due' \in [Event -> Nat]
  <2>1. DOMAIN due' = Event /\ due' = [f \in Event |-> due'[f]]
    BY Zenon, <1>3 DEF DueInv
  <2>2. QED
    BY Zenon, <1>4, <2>1
<1>6. /\ customers' \subseteq Customers
      /\ excuses' \subseteq {"overlap", "double", "unpaid"}
      /\ events' \in Nat /\ mishaps' \in Nat
      /\ \A f \in Event : due'[f] > 0 => f \in sent'
  BY <1>3, <1>4 DEF DueInv
<1>7. \A g \in Tasks : /\ task'[g].event # NoEvent => task'[g].event \in sent'
                       /\ task'[g].pc = "idle" => task'[g].event = NoEvent
  BY Zenon, <1>1, <1>2, <1>3 DEF DueInv, TaskAt
<1>8. QED
  BY Zenon, <1>4, <1>5, <1>6, <1>7 DEF DueInv, TaskAt

EventTypes == {"completed paid", "completed unpaid", "changed", "deleted"}

\* Stripe reports what becomes of subscription s.
Reports(s, status, types) ==
    Becomes(s, status) /\ Emit(s, types) /\ status \in SubStatus /\ types \subseteq EventTypes

\* Everything Stripe does is such a report.
LEMMA StripeReports ==
  ASSUME StripeStep
  PROVE  \E s \in Subs, status \in SubStatus, types \in SUBSET EventTypes :
            /\ Reports(s, status, types)
            /\ "changed" \in types \/ (types = {"deleted"} /\ status = "canceled")
            /\ "deleted" \in types => status = "canceled"
            /\ \/ stripe[s].session = "open"
               \/ stripe[s].status \in {"incomplete", "active", "past_due", "unpaid"}
<1>0. \A x \in {"incomplete", "active", "past_due", "unpaid", "canceled"} : x \in SubStatus
  BY Zenon DEF SubStatus
<1>1. ASSUME NEW s \in Subs, NEW delayed \in BOOLEAN, CompleteCheckout(s, delayed)
      PROVE  \E types \in SUBSET EventTypes :
                /\ Reports(s, "incomplete", types) /\ "changed" \in types /\ "deleted" \notin types
                /\ stripe[s].session = "open"
  <2> DEFINE types == IF delayed THEN {"completed unpaid", "changed"} ELSE {"changed"}
  <2>1. types \subseteq EventTypes /\ "changed" \in types /\ "deleted" \notin types
    BY Zenon DEF EventTypes
  <2>2. Reports(s, "incomplete", types) /\ stripe[s].session = "open"
    BY Zenon, <1>0, <1>1, <2>1 DEF CompleteCheckout, Reports
  <2> HIDE DEF types
  <2>3. QED
    BY Zenon, <2>1, <2>2
<1>2. ASSUME NEW s \in Subs, FirstPayment(s)
      PROVE  \E types \in SUBSET EventTypes :
                /\ Reports(s, "active", types) /\ "changed" \in types /\ "deleted" \notin types
                /\ stripe[s].status = "incomplete"
  <2> DEFINE types == IF [type |-> "completed unpaid", sub |-> s] \in sent
                      THEN {"changed"} ELSE {"completed paid", "changed"}
  <2>1. types \subseteq EventTypes /\ "changed" \in types /\ "deleted" \notin types
    BY Zenon DEF EventTypes
  <2>2. Reports(s, "active", types) /\ stripe[s].status = "incomplete"
    BY Zenon, <1>0, <1>2, <2>1 DEF FirstPayment, Reports
  <2> HIDE DEF types
  <2>3. QED
    BY Zenon, <2>1, <2>2
<1>3. ASSUME NEW s \in Subs, NEW status \in {"active", "past_due", "unpaid"}, Renewal(s, status)
      PROVE  /\ Reports(s, status, {"changed"})
             /\ stripe[s].status \in {"active", "past_due", "unpaid"}
  BY Zenon, <1>0, <1>3 DEF Renewal, Reports, EventTypes
<1>4. ASSUME NEW s \in Subs, Cancel(s)
      PROVE  /\ Reports(s, "canceled", {"deleted"})
             /\ stripe[s].status \in {"incomplete", "active", "past_due", "unpaid"}
  BY Zenon, <1>0, <1>4 DEF Cancel, Reports, EventTypes
<1>5. {"changed"} \in SUBSET EventTypes /\ {"deleted"} \in SUBSET EventTypes
  BY Zenon DEF EventTypes
<1>6. CASE \E s \in Subs, delayed \in BOOLEAN : CompleteCheckout(s, delayed)
  BY Zenon, <1>0, <1>1, <1>6
<1>7. CASE \E s \in Subs : FirstPayment(s)
  BY Zenon, <1>0, <1>2, <1>7
<1>8. CASE \E s \in Subs, status \in {"active", "past_due", "unpaid"} : Renewal(s, status)
  BY Zenon, <1>0, <1>3, <1>5, <1>8
<1>9. CASE \E s \in Subs : Cancel(s)
  BY Zenon, <1>0, <1>4, <1>5, <1>9
<1>10. QED
  BY Zenon, <1>6, <1>7, <1>8, <1>9 DEF StripeStep

LEMMA EmittedFinite ==
  ASSUME NEW s \in Subs, NEW types \in SUBSET EventTypes
  PROVE  IsFiniteSet([type : types, sub : {s}]) /\ Cardinality([type : types, sub : {s}]) \in Nat
<1> DEFINE e1 == [type |-> "completed paid", sub |-> s]
           e2 == [type |-> "completed unpaid", sub |-> s]
           e3 == [type |-> "changed", sub |-> s]
           e4 == [type |-> "deleted", sub |-> s]
           all == {e1} \cup {e2} \cup {e3} \cup {e4}
<1>1. IsFiniteSet(all)
  <2> HIDE DEF e1, e2, e3, e4
  <2>1. IsFiniteSet({e1})
    BY Zenon, FS_Singleton
  <2>2. IsFiniteSet({e1} \cup {e2})
    BY Zenon, <2>1, FS_AddElement
  <2>3. IsFiniteSet({e1} \cup {e2} \cup {e3})
    BY Zenon, <2>2, FS_AddElement
  <2>4. QED
    BY Zenon, <2>3, FS_AddElement
<1>2. [type : types, sub : {s}] \subseteq all
  <2> SUFFICES ASSUME NEW e \in [type : types, sub : {s}] PROVE e \in all
    BY Zenon
  <2>1. e = [type |-> e.type, sub |-> e.sub] /\ e.sub = s /\ e.type \in EventTypes
    BY Zenon
  <2>2. QED
    BY Zenon, <2>1 DEF EventTypes
<1> DEFINE new == [type : types, sub : {s}]
<1> HIDE DEF all, new
<1>3. IsFiniteSet(new)
  BY Zenon, <1>1, <1>2, FS_Subset DEF new
<1>4. Cardinality(new) \in Nat
  BY Zenon, <1>3, FS_CardinalityType
<1>5. QED
  BY Zenon, <1>3, <1>4 DEF new

\* A report makes its events due once more.
LEMMA ReportDue ==
  ASSUME IInv, DueInv, NEW s \in Subs, NEW status, NEW types \in SUBSET EventTypes,
         Reports(s, status, types)
  PROVE  DueInv'
<1> DEFINE new == [type : types, sub : {s}]
<1>1. /\ events' = events + Cardinality(new) /\ sent' = sent \cup new
      /\ due' = [e \in Event |-> IF e \in new THEN due[e] + 1 ELSE due[e]]
      /\ excuses' \subseteq excuses \cup {"double"}
      /\ UNCHANGED <<customers, task, mishaps>>
  BY Zenon DEF Reports, Becomes, Emit
<1>2. Cardinality(new) \in Nat
  BY Zenon, EmittedFinite
<1> HIDE DEF new
<1>3. /\ due' \in [Event -> Nat] /\ \A e \in Event : due[e] <= due'[e]
      /\ \A e \in Event : due'[e] > 0 => e \in sent'
  BY <1>1 DEF DueInv
<1>4. \A e \in Event : Cardinality(Settling(task', e)) <= due'[e]
  BY <1>1, <1>3, SettlingFinite DEF DueInv
<1>5. QED
  BY <1>1, <1>2, <1>3, <1>4 DEF DueInv, TaskAt

LEMMA InitDueInv == ASSUME BillingInit PROVE DueInv
<1>1. \A h \in Tasks : task[h].event = NoEvent /\ task[h].pc = "idle"
  BY Zenon DEF BillingInit, NoTask
<1>2. ASSUME NEW e \in Event PROVE Cardinality(Settling(task, e)) <= due[e]
  <2>1. Settling(task, e) = {}
    BY Zenon, <1>1, NoEventIsNone DEF Settling
  <2>2. due[e] = 0 /\ Cardinality(Settling(task, e)) = 0
    BY Zenon, <2>1, FS_EmptySet DEF BillingInit
  <2>3. QED
    BY <2>2
<1>3. QED
  BY <1>1, <1>2 DEF DueInv, BillingInit, TaskAt

LEMMA NextDueInv == IInv /\ DueInv /\ [BillingNext]_billingVars => DueInv'
<1> SUFFICES ASSUME IInv, DueInv, [BillingNext]_billingVars PROVE DueInv'
  BY Zenon
<1>1. CASE UNCHANGED billingVars
  BY Zenon, <1>1 DEF DueInv, Settling, TaskAt, billingVars, world
<1>2. CASE StripeStep
  BY Zenon, <1>2, StripeReports, ReportDue
<1>3. ASSUME NEW h \in Tasks,
             \/ BeginCheckout(h) \/ CreateCustomer(h) \/ SaveCustomer(h) \/ CreateSession(h)
             \/ \E e \in sent : Deliver(h, e)
             \/ Fetch(h) \/ Load(h) \/ ApplyEvent(h)
             \/ TaskFails(h)
      PROVE  DueInv'
  BY Zenon, <1>3, RequestDue, DeliverDue, ApplyDue
<1>4. QED
  BY Zenon, <1>1, <1>2, <1>3 DEF BillingNext

LEMMA SpecDueInv == BillingSpec => [](IInv /\ DueInv)
<1>1. BillingInit => IInv /\ DueInv
  BY Zenon, InitIInv, InitDueInv
<1>2. QED
  BY <1>1, NextIInv, NextDueInv, PTL DEF BillingSpec

\* The state of the billing model stays of its type for any number of requests in flight:
\* above all, the count of answers Stripe waits for never falls below zero, although an
\* event may be delivered several times and each delivery be answered.
THEOREM TypeCorrect == BillingSpec => []BillingTypeOK
<1>1. IInv /\ DueInv => BillingTypeOK
  BY Zenon DEF IInv, Types, DueInv, BillingTypeOK
<1>2. QED
  BY <1>1, SpecDueInv, PTL

-----------------------------------------------------------------------------
(* The plan follows Stripe. *)

Changed(s) == [type |-> "changed", sub |-> s]
Deleted(s) == [type |-> "deleted", sub |-> s]

\* A webhook has fetched the status of subscription s, and Stripe's table has it
\* otherwise by now: paid for, or not.
HasRead(t, s) == t.event = Changed(s) /\ t.pc \in {"load", "commit"}
Misled(t, s, table) ==
    HasRead(t, s) /\ ~(t.status \in PaidStatuses <=> table[s].status \in Paying)

\* Stripe will yet be asked about s: a "changed" event is due that no request settles
\* with what it read before.
ToldBy(dues, tasks, table, s) ==
    \/ dues[Changed(s)] > 1
    \/ /\ dues[Changed(s)] = 1
       /\ \A h \in Tasks : ~tasks[h].again => ~Misled(tasks[h], s, table)

\* Or Stripe will yet report its end.
Owed(dues, tasks, table, s) == ToldBy(dues, tasks, table, s) \/ dues[Deleted(s)] > 0

\* Where the account's row u, or what a webhook is about to write to it, disagrees with
\* Stripe's table on who pays, an event is due that will put it right.
FollowAs(u, dues, tasks, table) ==
    /\ u.status \in PaidStatuses => u.sub \in Subs
    /\ \A s \in Subs : table[s].status \in Paying =>
          (u.sub = s /\ u.status \in PaidStatuses) \/ ToldBy(dues, tasks, table, s)
    /\ \A s \in Subs : u.sub = s /\ u.status \in PaidStatuses /\ table[s].status \notin Paying =>
          Owed(dues, tasks, table, s)
    /\ \A h \in Tasks, s \in Subs :
          Misled(tasks[h], s, table) => Owed(dues, tasks, table, s)
    /\ \A h \in Tasks, s \in Subs :
          HasRead(tasks[h], s) /\ tasks[h].status \in PaidStatuses =>
             \A q \in Subs \ {s} : table[q].status \in Paying => ToldBy(dues, tasks, table, q)

\* One subscription is under way at a time; one that has ended stays so, and is the only
\* kind whose end is reported.
StripeInv ==
    /\ \A s, q \in Subs : stripe[s].status \in Live /\ stripe[q].status \in Live => s = q
    /\ \A s \in Subs : stripe[s].session # "done" => stripe[s].status = "none"
    /\ \A s \in Subs : Deleted(s) \in sent => stripe[s].status = "canceled"

SyncInv == excuses = {} => StripeInv /\ FollowAs(user, due, task, stripe)

LEMMA EventsOf ==
  ASSUME NEW s \in Subs
  PROVE  Changed(s) \in Event /\ Deleted(s) \in Event
  BY Zenon DEF Changed, Deleted, Event

\* An event more than those being settled tells.
LEMMA NewlyTold ==
  ASSUME DueInv, NEW s \in Subs, NEW dues, NEW table,
         dues[Changed(s)] = due[Changed(s)] + 1
  PROVE  ToldBy(dues, task, table, s)
<1>1. due[Changed(s)] \in Nat /\ Cardinality(Settling(task, Changed(s))) <= due[Changed(s)]
  BY Zenon, EventsOf DEF DueInv
<1>2. CASE due[Changed(s)] = 0
  <2>1. Cardinality(Settling(task, Changed(s))) = 0
    BY <1>1, <1>2, SettlingFinite
  <2>2. Settling(task, Changed(s)) = {}
    BY Zenon, <2>1, SettlingFinite, FS_EmptySet
  <2>3. \A h \in Tasks : ~task[h].again => ~Misled(task[h], s, table)
    BY Zenon, <2>2 DEF Settling, Misled, HasRead
  <2>4. QED
    BY <1>2, <2>3 DEF ToldBy
<1>3. CASE due[Changed(s)] # 0
  BY <1>1, <1>3 DEF ToldBy
<1>4. QED
  BY Zenon, <1>2, <1>3

-----------------------------------------------------------------------------
\* Stripe reports what it changes.
LEMMA ReportFollows ==
  ASSUME IInv, DueInv, NEW s \in Subs, NEW status \in SubStatus, NEW types \in SUBSET EventTypes,
         Reports(s, status, types),
         "changed" \in types \/ (types = {"deleted"} /\ status = "canceled"),
         FollowAs(user, due, task, stripe)
  PROVE  FollowAs(user', due', task', stripe')
<1> DEFINE new == [type : types, sub : {s}]
<1>1. /\ due' = [e \in Event |-> IF e \in new THEN due[e] + 1 ELSE due[e]]
      /\ UNCHANGED <<user, task>>
  BY Zenon DEF Reports, Becomes, Emit
<1>2. \A q \in Subs : /\ q # s => stripe'[q] = stripe[q]
                      /\ q = s => stripe'[q].status = status
  BY Zenon DEF Reports, Becomes, IInv, Types
<1>3. ASSUME NEW q \in Subs, q # s
      PROVE  /\ due'[Changed(q)] = due[Changed(q)] /\ due'[Deleted(q)] = due[Deleted(q)]
             /\ ToldBy(due, task, stripe, q) => ToldBy(due', task', stripe', q)
             /\ Owed(due, task, stripe, q) => Owed(due', task', stripe', q)
             /\ \A h \in Tasks : Misled(task'[h], q, stripe') => Misled(task[h], q, stripe)
  <2>1. Changed(q) \notin new /\ Deleted(q) \notin new
    BY Zenon, <1>3 DEF Changed, Deleted
  <2>2. due'[Changed(q)] = due[Changed(q)] /\ due'[Deleted(q)] = due[Deleted(q)]
    BY Zenon, <1>1, <1>3, <2>1, EventsOf
  <2>3. \A h \in Tasks : /\ Misled(task'[h], q, stripe') => Misled(task[h], q, stripe)
                         /\ task'[h].again = task[h].again
    BY Zenon, <1>1, <1>2, <1>3 DEF Misled
  <2>4. ToldBy(due, task, stripe, q) => ToldBy(due', task', stripe', q)
    BY Zenon, <2>2, <2>3 DEF ToldBy
  <2>5. QED
    BY Zenon, <2>2, <2>3, <2>4 DEF Owed
<1>4. \/ ToldBy(due', task', stripe', s)
      \/ due'[Deleted(s)] > 0 /\ stripe'[s].status \notin Paying
  <2>1. CASE "changed" \in types
    <3>1. Changed(s) \in new
      BY Zenon, <2>1 DEF Changed
    <3>2. due'[Changed(s)] = due[Changed(s)] + 1
      BY Zenon, <1>1, <3>1, EventsOf
    <3>3. ToldBy(due', task, stripe', s)
      BY Zenon, <3>2, NewlyTold
    <3>4. QED
      BY Zenon, <1>1, <3>3
  <2>2. CASE types = {"deleted"} /\ status = "canceled"
    <3>1. Deleted(s) \in new /\ due[Deleted(s)] \in Nat
      BY Zenon, <2>2, EventsOf DEF Deleted, DueInv
    <3>2. due'[Deleted(s)] = due[Deleted(s)] + 1
      BY Zenon, <1>1, <3>1, EventsOf
    <3>3. QED
      BY <1>2, <2>2, <3>1, <3>2 DEF Paying
  <2>3. QED
    BY Zenon, <2>1, <2>2
<1> HIDE DEF new
<1>5. user'.status \in PaidStatuses => user'.sub \in Subs
  BY Zenon, <1>1 DEF FollowAs
<1>6. \A q \in Subs : stripe'[q].status \in Paying =>
        (user'.sub = q /\ user'.status \in PaidStatuses) \/ ToldBy(due', task', stripe', q)
  BY Zenon, <1>1, <1>2, <1>3, <1>4 DEF FollowAs
<1>7. \A q \in Subs : user'.sub = q /\ user'.status \in PaidStatuses
                      /\ stripe'[q].status \notin Paying => Owed(due', task', stripe', q)
  BY Zenon, <1>1, <1>2, <1>3, <1>4 DEF FollowAs, Owed
<1>8. \A h \in Tasks, q \in Subs :
        Misled(task'[h], q, stripe') => Owed(due', task', stripe', q)
  <2>1. Owed(due', task', stripe', s)
    BY Zenon, <1>4 DEF Owed
  <2>2. QED
    BY Zenon, <1>3, <2>1 DEF FollowAs
<1>9. \A h \in Tasks, p \in Subs : HasRead(task'[h], p) /\ task'[h].status \in PaidStatuses =>
        \A q \in Subs \ {p} : stripe'[q].status \in Paying => ToldBy(due', task', stripe', q)
  BY Zenon, <1>1, <1>2, <1>3, <1>4 DEF FollowAs
<1>10. QED
  BY Zenon, <1>5, <1>6, <1>7, <1>8, <1>9 DEF FollowAs

LEMMA ReportStripeInv ==
  ASSUME IInv, StripeInv, NEW s \in Subs, NEW status \in SubStatus, NEW types \in SUBSET EventTypes,
         Reports(s, status, types), "deleted" \in types => status = "canceled",
         \/ stripe[s].session = "open"
         \/ stripe[s].status \in {"incomplete", "active", "past_due", "unpaid"},
         excuses = {}, excuses' = {}
  PROVE  StripeInv'
<1>1. \A q \in Subs : /\ q # s => stripe'[q] = stripe[q]
                      /\ q = s => stripe'[q].status = status /\ stripe'[q].session = "done"
  BY Zenon DEF Reports, Becomes, IInv, Types
<1>2. ~(status \in Live /\ \E q \in Subs \ {s} : stripe[q].status \in Live)
  BY Zenon DEF Reports, Becomes
<1>3. stripe[s].status # "canceled"
  BY Zenon DEF StripeInv
<1>4. sent' = sent \cup [type : types, sub : {s}]
  BY Zenon DEF Reports, Emit
<1>5. \A q, p \in Subs : stripe'[q].status \in Live /\ stripe'[p].status \in Live => q = p
  BY <1>1, <1>2 DEF StripeInv
<1>6. \A q \in Subs : stripe'[q].session # "done" => stripe'[q].status = "none"
  BY Zenon, <1>1 DEF StripeInv
<1>7. ASSUME NEW q \in Subs, Deleted(q) \in sent' PROVE stripe'[q].status = "canceled"
  <2>1. CASE Deleted(q) \in sent
    BY Zenon, <1>1, <1>3, <2>1 DEF StripeInv
  <2>2. CASE Deleted(q) \in [type : types, sub : {s}]
    <3>1. q = s /\ "deleted" \in types
      BY Zenon, <2>2 DEF Deleted
    <3>2. QED
      BY Zenon, <1>1, <3>1
  <2>3. QED
    BY Zenon, <1>4, <1>7, <2>1, <2>2
<1>8. QED
  BY Zenon, <1>5, <1>6, <1>7 DEF StripeInv

-----------------------------------------------------------------------------
\* A step of request h that writes nothing of who pays: it reads the status of a
\* subscription as it is, or knows what it knew.
KeepsWhoPays(h, t) ==
    /\ task' = [task EXCEPT ![h] = t]
    /\ user'.sub = user.sub /\ user'.status = user.status
    /\ UNCHANGED <<sent, due>>
    /\ \A s \in Subs : stripe'[s].status = stripe[s].status
    /\ \A s \in Subs : HasRead(t, s) =>
          \/ /\ HasRead(task[h], s) /\ t.status = task[h].status
             /\ (t.again <=> task[h].again)
          \/ t.status \in PaidStatuses <=> stripe[s].status \in Paying

LEMMA KeepsFollowing ==
  ASSUME IInv, StripeInv, FollowAs(user, due, task, stripe), NEW h \in Tasks, NEW t,
         KeepsWhoPays(h, t)
  PROVE  FollowAs(user', due', task', stripe')
<1>1. \A g \in Tasks : task'[g] = IF g = h THEN t ELSE task[g]
  BY Zenon DEF KeepsWhoPays, IInv, Types
<1>2. ASSUME NEW g \in Tasks, NEW s \in Subs, Misled(task'[g], s, stripe')
      PROVE  Misled(task[g], s, stripe) /\ (task'[g].again <=> task[g].again)
  <2>1. CASE g = h
    BY <1>1, <1>2, <2>1 DEF KeepsWhoPays, Misled
  <2>2. CASE g # h
    BY Zenon, <1>1, <1>2, <2>2 DEF KeepsWhoPays, Misled
  <2>3. QED
    BY Zenon, <2>1, <2>2
<1>3. ASSUME NEW s \in Subs
      PROVE  /\ ToldBy(due, task, stripe, s) => ToldBy(due', task', stripe', s)
             /\ Owed(due, task, stripe, s) => Owed(due', task', stripe', s)
  <2>1. due' = due
    BY Zenon DEF KeepsWhoPays
  <2>2. ToldBy(due, task, stripe, s) => ToldBy(due', task', stripe', s)
    BY Zenon, <1>2, <2>1 DEF ToldBy
  <2>3. QED
    BY Zenon, <2>1, <2>2 DEF Owed
<1>4. user'.status \in PaidStatuses => user'.sub \in Subs
  BY Zenon DEF KeepsWhoPays, FollowAs
<1>5. \A q \in Subs : stripe'[q].status \in Paying =>
        (user'.sub = q /\ user'.status \in PaidStatuses) \/ ToldBy(due', task', stripe', q)
  BY Zenon, <1>3 DEF KeepsWhoPays, FollowAs
<1>6. \A q \in Subs : user'.sub = q /\ user'.status \in PaidStatuses
                      /\ stripe'[q].status \notin Paying => Owed(due', task', stripe', q)
  BY Zenon, <1>3 DEF KeepsWhoPays, FollowAs
<1>7. \A g \in Tasks, q \in Subs :
        Misled(task'[g], q, stripe') => Owed(due', task', stripe', q)
  BY Zenon, <1>2, <1>3 DEF FollowAs
<1>8. ASSUME NEW g \in Tasks, NEW p \in Subs, NEW q \in Subs \ {p},
             HasRead(task'[g], p), task'[g].status \in PaidStatuses,
             stripe'[q].status \in Paying
      PROVE  ToldBy(due', task', stripe', q)
  <2>1. stripe[q].status \in Paying
    BY Zenon, <1>8 DEF KeepsWhoPays
  <2>2. stripe[p].status \notin Paying
    BY Zenon, <2>1 DEF StripeInv, Live
  <2>3. HasRead(task[g], p) /\ task[g].status \in PaidStatuses
    <3>1. CASE g = h
      BY <1>1, <1>8, <2>2, <3>1 DEF KeepsWhoPays
    <3>2. CASE g # h
      BY Zenon, <1>1, <1>8, <3>2
    <3>3. QED
      BY Zenon, <3>1, <3>2
  <2>4. ToldBy(due, task, stripe, q)
    BY Zenon, <2>1, <2>3 DEF FollowAs
  <2>5. QED
    BY Zenon, <1>3, <2>4
<1>9. QED
  BY Zenon, <1>4, <1>5, <1>6, <1>7, <1>8 DEF FollowAs

\* The handlers' steps but the commit of a webhook are of this kind.
LEMMA RequestFollows ==
  ASSUME IInv, DueInv, StripeInv, FollowAs(user, due, task, stripe), NEW h \in Tasks,
         \/ BeginCheckout(h) \/ CreateCustomer(h) \/ SaveCustomer(h) \/ CreateSession(h)
         \/ \E e \in sent : Deliver(h, e)
         \/ Fetch(h) \/ Load(h) \/ TaskFails(h)
  PROVE  /\ FollowAs(user', due', task', stripe')
         /\ UNCHANGED sent
         /\ \A s \in Subs : stripe'[s].status = stripe[s].status
<1>0. /\ task \in [Tasks -> Task] /\ task[h] \in Task /\ stripe \in [Subs -> Subscription]
      /\ user \in User /\ task[h].row \in User
      /\ \A s \in Subs : ~HasRead(NoTask, s)
  BY Zenon, Known DEF Task, HasRead, NoTask
<1>1. CASE BeginCheckout(h)
  <2> DEFINE t == [pc |-> IF user.customer = None THEN "customer" ELSE "session",
                   event |-> NoEvent, again |-> FALSE, row |-> user,
                   status |-> "none", customer |-> user.customer]
  <2>1. task' = [task EXCEPT ![h] = t] /\ t.pc \notin {"load", "commit"}
    BY Zenon, <1>1 DEF BeginCheckout, StartTask
  <2> HIDE DEF t
  <2>2. KeepsWhoPays(h, t)
    BY Zenon, <1>0, <1>1, <2>1 DEF KeepsWhoPays, BeginCheckout, world, HasRead
  <2>3. QED
    BY Zenon, <2>2, KeepsFollowing DEF KeepsWhoPays
<1>2. CASE CreateCustomer(h)
  <2>1. PICK c \in Customers : task' = [task EXCEPT ![h].pc = "saveCustomer", ![h].customer = c]
    BY Zenon, <1>2 DEF CreateCustomer
  <2> DEFINE t == [task[h] EXCEPT !.pc = "saveCustomer", !.customer = c]
  <2>2. task' = [task EXCEPT ![h] = t] /\ t.pc = "saveCustomer"
    BY Zenon, <1>0, <2>1 DEF Task
  <2> HIDE DEF t
  <2>3. KeepsWhoPays(h, t)
    BY Zenon, <1>0, <1>2, <2>2 DEF KeepsWhoPays, CreateCustomer, HasRead
  <2>4. QED
    BY Zenon, <2>3, KeepsFollowing DEF KeepsWhoPays
<1>3. CASE SaveCustomer(h)
  <2> DEFINE t == [task[h] EXCEPT !.pc = "session"]
  <2>1. task' = [task EXCEPT ![h] = t] /\ t.pc = "session"
    BY Zenon, <1>0, <1>3 DEF Task, SaveCustomer
  <2>2. user'.sub = user.sub /\ user'.status = user.status
    BY Zenon, <1>0, <1>3 DEF SaveCustomer, SaveUser, User
  <2> HIDE DEF t
  <2>3. KeepsWhoPays(h, t)
    BY Zenon, <1>0, <1>3, <2>1, <2>2 DEF KeepsWhoPays, SaveCustomer, world, HasRead
  <2>4. QED
    BY Zenon, <2>3, KeepsFollowing DEF KeepsWhoPays
<1>4. CASE CreateSession(h)
  <2>1. \A s \in Subs : stripe'[s].status = stripe[s].status
    <3>1. PICK s \in Subs :
            stripe' = [stripe EXCEPT ![s].session = "open", ![s].customer = task[h].customer]
      BY Zenon, <1>4 DEF CreateSession
    <3> DEFINE new == [stripe[s] EXCEPT !.session = "open", !.customer = task[h].customer]
    <3>2. stripe' = [stripe EXCEPT ![s] = new] /\ new.status = stripe[s].status
      BY Zenon, <1>0, <3>1 DEF Subscription
    <3> HIDE DEF new
    <3>3. QED
      BY Zenon, <1>0, <3>2
  <2>2. KeepsWhoPays(h, NoTask)
    BY Zenon, <1>0, <1>4, <2>1 DEF KeepsWhoPays, CreateSession, EndTask
  <2>3. QED
    BY Zenon, <2>2, KeepsFollowing DEF KeepsWhoPays
<1>5. CASE TaskFails(h)
  <2>1. KeepsWhoPays(h, NoTask)
    BY Zenon, <1>0, <1>5 DEF KeepsWhoPays, TaskFails, EndTask, world
  <2>2. QED
    BY Zenon, <2>1, KeepsFollowing DEF KeepsWhoPays
<1>6. ASSUME NEW e \in sent, Deliver(h, e)
      PROVE  /\ FollowAs(user', due', task', stripe')
             /\ UNCHANGED sent
             /\ \A s \in Subs : stripe'[s].status = stripe[s].status
  <2> DEFINE again == Cardinality({g \in Tasks : task[g].event = e /\ ~task[g].again}) >= due[e]
             t == [pc |-> IF e.type = "changed" THEN "fetch" ELSE "load", event |-> e,
                   again |-> again, row |-> NewUser, status |-> "none",
                   customer |-> NewUser.customer]
  <2>1. /\ task' = [task EXCEPT ![h] = t] /\ t.event = e
        /\ e.type = "changed" => t.pc = "fetch"
    BY Zenon, <1>6 DEF Deliver, StartTask
  <2> HIDE DEF t
  <2>2. \A s \in Subs : ~HasRead(t, s)
    BY <2>1 DEF HasRead, Changed
  <2>3. KeepsWhoPays(h, t)
    BY Zenon, <1>0, <1>6, <2>1, <2>2 DEF KeepsWhoPays, Deliver, world
  <2>4. QED
    BY Zenon, <2>3, KeepsFollowing DEF KeepsWhoPays
<1>7. CASE Fetch(h)
  <2> DEFINE q == task[h].event.sub
             t == [task[h] EXCEPT !.pc = "load", !.status = stripe[q].status]
  <2>1. task' = [task EXCEPT ![h] = t] /\ t.event = task[h].event /\ t.status = stripe[q].status
    BY Zenon, <1>0, <1>7 DEF Task, Fetch
  <2> HIDE DEF t
  <2>2. \A s \in Subs : HasRead(t, s) => q = s
    BY <2>1 DEF HasRead, Changed
  <2>3. \A s \in Subs : stripe[s].status \in PaidStatuses <=> stripe[s].status \in Paying
    BY Zenon, <1>0 DEF Subscription, SubStatus, PaidStatuses, Paying
  <2>4. KeepsWhoPays(h, t)
    BY Zenon, <1>0, <1>7, <2>1, <2>2, <2>3 DEF KeepsWhoPays, Fetch, world
  <2>5. QED
    BY Zenon, <2>4, KeepsFollowing DEF KeepsWhoPays
<1>8. CASE Load(h)
  <2> DEFINE t == [task[h] EXCEPT !.pc = "commit", !.row = user]
  <2>1. /\ task' = [task EXCEPT ![h] = t] /\ t.event = task[h].event
        /\ t.status = task[h].status /\ (t.again <=> task[h].again)
    BY Zenon, <1>0, <1>8 DEF Task, Load
  <2>2. task[h].pc = "load"
    BY Zenon, <1>8 DEF Load, TaskAt
  <2> HIDE DEF t
  <2>3. KeepsWhoPays(h, t)
    BY Zenon, <1>0, <1>8, <2>1, <2>2 DEF KeepsWhoPays, Load, world, HasRead
  <2>4. QED
    BY Zenon, <2>3, KeepsFollowing DEF KeepsWhoPays
<1>9. QED
  BY Zenon, <1>1, <1>2, <1>3, <1>4, <1>5, <1>6, <1>7, <1>8

LEMMA RequestStripeInv ==
  ASSUME IInv, StripeInv, NEW h \in Tasks, UNCHANGED sent,
         \/ UNCHANGED stripe
         \/ CreateSession(h) /\ \A s \in Subs : stripe'[s].status = stripe[s].status
  PROVE  StripeInv'
<1>1. CASE UNCHANGED stripe
  BY Zenon, <1>1 DEF StripeInv
<1>2. CASE CreateSession(h) /\ \A s \in Subs : stripe'[s].status = stripe[s].status
  <2>1. PICK s \in Subs :
          /\ stripe[s].session = "none"
          /\ stripe' = [stripe EXCEPT ![s].session = "open", ![s].customer = task[h].customer]
    BY Zenon, <1>2 DEF CreateSession
  <2>2. \A q \in Subs : q # s => stripe'[q] = stripe[q]
    BY Zenon, <2>1 DEF IInv, Types
  <2>3. \A q \in Subs : stripe'[q].session # "done" => stripe'[q].status = "none"
    BY Zenon, <1>2, <2>1, <2>2 DEF StripeInv
  <2>4. QED
    BY Zenon, <1>2, <2>3 DEF StripeInv
<1>3. QED
  BY Zenon, <1>1, <1>2

\* A webhook commits, alone in flight: what it settles, and what is still due then.
LEMMA ApplySettles ==
  ASSUME IInv, DueInv, NEW h \in Tasks, ApplyEvent(h), "overlap" \notin excuses, NEW s \in Subs
  PROVE  /\ task[h].event # Changed(s) /\ ToldBy(due, task, stripe, s)
              => ToldBy(due', task', stripe', s)
         /\ Misled(task[h], s, stripe) /\ ToldBy(due, task, stripe, s)
              => ToldBy(due', task', stripe', s)
         /\ task[h].event # Deleted(s) => due'[Deleted(s)] = due[Deleted(s)]
         /\ \A g \in Tasks : ~HasRead(task'[g], s)
<1> DEFINE e == task[h].event
<1>1. /\ TaskAt(h, "commit") /\ e \in Event /\ due \in [Event -> Nat]
      /\ \A g \in Tasks \ {h} : TaskAt(g, "idle")
  BY Zenon, Alone DEF ApplyEvent, TaskAt, IInv, Types, DueInv
<1>2. due' = IF task[h].again THEN due ELSE [due EXCEPT ![e] = @ - 1]
  BY Zenon DEF ApplyEvent, Answered
<1>3. \A g \in Tasks : task'[g].pc = "idle"
  BY Zenon, <1>1 DEF ApplyEvent, EndTask, NoTask, TaskAt, IInv, Types
<1>4. \A g \in Tasks : ~HasRead(task'[g], s)
  BY Zenon, <1>3 DEF HasRead
<1>5. due'[Changed(s)] > 0 => ToldBy(due', task', stripe', s)
  <2>1. due'[Changed(s)] \in Int
    BY <1>1, <1>2, EventsOf
  <2>2. QED
    BY <1>4, <2>1 DEF ToldBy, Misled
<1>6. ToldBy(due, task, stripe, s) => due[Changed(s)] > 0
  BY <1>1, EventsOf DEF ToldBy
<1>7. ASSUME e # Changed(s), ToldBy(due, task, stripe, s)
      PROVE  ToldBy(due', task', stripe', s)
  BY Zenon, <1>1, <1>2, <1>5, <1>6, <1>7, EventsOf
<1>8. ASSUME Misled(task[h], s, stripe), ToldBy(due, task, stripe, s)
      PROVE  ToldBy(due', task', stripe', s)
  <2>1. e = Changed(s)
    BY Zenon, <1>8 DEF Misled, HasRead
  <2>2. task[h].again \/ due[Changed(s)] > 1
    BY Zenon, <1>8 DEF ToldBy
  <2>3. due'[Changed(s)] > 0
    BY <1>1, <1>2, <1>6, <1>8, <2>1, <2>2, EventsOf
  <2>4. QED
    BY Zenon, <1>5, <2>3
<1>9. e # Deleted(s) => due'[Deleted(s)] = due[Deleted(s)]
  BY Zenon, <1>1, <1>2, EventsOf
<1>10. QED
  BY Zenon, <1>4, <1>7, <1>8, <1>9

\* It is enough that the row it writes follows Stripe's table.
LEMMA CommitFollows ==
  ASSUME IInv, DueInv, NEW h \in Tasks, ApplyEvent(h), "overlap" \notin excuses,
         user'.status \in PaidStatuses => user'.sub \in Subs,
         \A s \in Subs : stripe[s].status \in Paying =>
            (user'.sub = s /\ user'.status \in PaidStatuses) \/ ToldBy(due', task', stripe', s),
         \A s \in Subs : user'.sub = s /\ user'.status \in PaidStatuses
                         /\ stripe[s].status \notin Paying => Owed(due', task', stripe', s)
  PROVE  FollowAs(user', due', task', stripe')
<1>1. stripe' = stripe
  BY Zenon DEF ApplyEvent, world
<1>2. \A s \in Subs, g \in Tasks : ~HasRead(task'[g], s)
  BY Zenon, ApplySettles
<1>3. QED
  BY Zenon, <1>1, <1>2 DEF FollowAs, Misled

\* The row a webhook writes when nothing overlaps.
LEMMA AppliedRow ==
  ASSUME IInv, NEW h \in Tasks, ApplyEvent(h), "overlap" \notin excuses
  PROVE  /\ task[h].event \in Event /\ task[h].event.sub \in Subs /\ task[h].status \in SubStatus
         /\ task[h].event.type \in Completed => user' = CheckedOut(user, task[h].event)
         /\ task[h].event.type = "changed" =>
              user' = Synced(user, task[h].event.sub, task[h].status)
         /\ task[h].event.type = "deleted" =>
              user' = Synced(user, task[h].event.sub, "canceled")
<1>1. TaskAt(h, "commit") /\ task[h].row = user
  BY Zenon DEF ApplyEvent, IInv, AloneInv
<1>2. task[h].event \in Event /\ task[h].event.sub \in Subs /\ task[h].status \in SubStatus
  BY Zenon, <1>1, Known DEF TaskAt, IInv, Types, Event, Task
<1>3. SaveUser(user, WrittenRow(h))
  BY Zenon, <1>1 DEF ApplyEvent, WrittenRow
<1>4. WrittenRow(h) \in User /\ user \in User
  BY Zenon, <1>1, Known, WrittenRowHolds
<1>5. user' = WrittenRow(h)
  BY Zenon, <1>3, <1>4, SaveWhole
<1>6. QED
  BY Zenon, <1>1, <1>2, <1>5 DEF WrittenRow, Completed

\* checkout.session.completed, for a subscription that is paid for.
LEMMA CompletedFollows ==
  ASSUME IInv, DueInv, StripeInv, FollowAs(user, due, task, stripe), NEW h \in Tasks,
         ApplyEvent(h), excuses = {}, excuses' = {}, task[h].event.type \in Completed
  PROVE  FollowAs(user', due', task', stripe')
<1> DEFINE q == task[h].event.sub
<1>1. q \in Subs /\ stripe[q].status \in Paying
  BY Zenon, AppliedRow DEF ApplyEvent, IsPaid
<1>2. /\ user'.sub = q
      /\ user'.status = IF task[h].event.type = "completed paid" THEN "active" ELSE user.status
  <2>1. user' = CheckedOut(user, task[h].event)
    BY Zenon, AppliedRow
  <2>2. QED
    BY Zenon, <2>1 DEF CheckedOut
<1>3. \A s \in Subs : task[h].event # Changed(s)
  <2>1. \A s \in Subs : Changed(s).type \notin Completed
    BY Zenon DEF Completed, Changed
  <2>2. QED
    BY Zenon, <2>1
<1> HIDE DEF q
<1>4. \A s \in Subs : stripe[s].status \in Paying => s = q
  BY Zenon, <1>1 DEF StripeInv, Live
<1>5. (user.sub = q /\ user.status \in PaidStatuses) \/ ToldBy(due, task, stripe, q)
  BY Zenon, <1>1 DEF FollowAs
<1>6. ToldBy(due, task, stripe, q) => ToldBy(due', task', stripe', q)
  BY Zenon, <1>1, <1>3, ApplySettles
<1>7. user'.status \in PaidStatuses \/ ToldBy(due', task', stripe', q)
  BY Zenon, <1>2, <1>5, <1>6 DEF PaidStatuses
<1>8. /\ user'.status \in PaidStatuses => user'.sub \in Subs
      /\ \A s \in Subs : stripe[s].status \in Paying =>
            (user'.sub = s /\ user'.status \in PaidStatuses) \/ ToldBy(due', task', stripe', s)
      /\ \A s \in Subs : user'.sub = s => stripe[s].status \in Paying
  BY Zenon, <1>1, <1>2, <1>4, <1>7
<1>9. QED
  BY Zenon, <1>8, CommitFollows

\* customer.subscription.created and .updated, with the status that was fetched.
LEMMA ChangedFollows ==
  ASSUME IInv, DueInv, StripeInv, FollowAs(user, due, task, stripe), NEW h \in Tasks,
         ApplyEvent(h), "overlap" \notin excuses, task[h].event.type = "changed"
  PROVE  FollowAs(user', due', task', stripe')
<1> DEFINE q == task[h].event.sub
           status == task[h].status
<1>1. q \in Subs /\ status \in SubStatus /\ user' = Synced(user, q, status)
  BY Zenon, AppliedRow
<1>2. task[h].event = Changed(q)
  <2>1. task[h].event \in Event
    BY Zenon, AppliedRow
  <2>2. QED
    BY Zenon, <2>1 DEF Event, Changed
<1>3. HasRead(task[h], q)
  BY Zenon, <1>2 DEF ApplyEvent, TaskAt, HasRead
<1>4. \A s \in Subs : s # q => task[h].event # Changed(s)
  BY <1>2 DEF Changed
<1>5. \A s \in Subs : task[h].event # Deleted(s)
  BY <1>2 DEF Changed, Deleted
<1>6. \A s \in Subs : s # q /\ ToldBy(due, task, stripe, s) => ToldBy(due', task', stripe', s)
  BY Zenon, <1>4, ApplySettles
<1>7. \A s \in Subs : due'[Deleted(s)] = due[Deleted(s)]
  BY Zenon, <1>5, ApplySettles
<1>8. Misled(task[h], q, stripe) => Owed(due', task', stripe', q)
  <2>1. Misled(task[h], q, stripe) => Owed(due, task, stripe, q)
    BY Zenon, <1>1 DEF FollowAs
  <2>2. QED
    BY Zenon, <1>1, <1>7, <2>1, ApplySettles DEF Owed
<1>9. Misled(task[h], q, stripe) <=> ~(status \in PaidStatuses <=> stripe[q].status \in Paying)
  BY Zenon, <1>3 DEF Misled
<1> HIDE DEF q, status
<1>10. CASE status \in PaidStatuses
  <2>1. user'.sub = q /\ user'.status = status
    BY Zenon, <1>1, <1>10 DEF Synced
  <2>2. \A s \in Subs : s # q /\ stripe[s].status \in Paying => ToldBy(due', task', stripe', s)
    BY Zenon, <1>1, <1>3, <1>6, <1>10 DEF FollowAs, status
  <2>3. QED
    BY Zenon, <1>1, <1>8, <1>9, <1>10, <2>1, <2>2, CommitFollows
<1>11. CASE status \notin PaidStatuses
  <2>1. stripe[q].status \in Paying => ToldBy(due', task', stripe', q)
    <3> SUFFICES ASSUME stripe[q].status \in Paying PROVE ToldBy(due', task', stripe', q)
      BY Zenon
    <3>1. Owed(due', task', stripe', q)
      BY Zenon, <1>8, <1>9, <1>11
    <3>2. ~(due[Deleted(q)] > 0)
      BY Zenon, <1>1, EventsOf DEF DueInv, StripeInv, Paying
    <3>3. QED
      BY Zenon, <1>1, <1>7, <3>1, <3>2 DEF Owed
  <2>2. CASE user.sub \notin {None, q}
    <3>1. user' = user
      BY Zenon, <1>1, <1>11, <2>2 DEF Synced
    <3>2. \A s \in Subs : stripe[s].status \in Paying =>
            (user.sub = s /\ user.status \in PaidStatuses) \/ ToldBy(due', task', stripe', s)
      BY Zenon, <1>6, <2>1 DEF FollowAs
    <3>3. \A s \in Subs : user.sub = s /\ user.status \in PaidStatuses
                          /\ stripe[s].status \notin Paying => Owed(due', task', stripe', s)
      BY Zenon, <1>6, <1>7, <2>2 DEF FollowAs, Owed
    <3>4. user.status \in PaidStatuses => user.sub \in Subs
      BY Zenon DEF FollowAs
    <3>5. QED
      BY Zenon, <3>1, <3>2, <3>3, <3>4, CommitFollows
  <2>3. CASE user.sub \in {None, q}
    <3>1. user'.sub = q /\ user'.status = status
      BY Zenon, <1>1, <1>11, <2>3 DEF Synced
    <3>2. \A s \in Subs : stripe[s].status \in Paying => ToldBy(due', task', stripe', s)
      BY Zenon, <1>6, <2>1, <2>3, BillingAssumption DEF FollowAs
    <3>3. QED
      BY Zenon, <1>11, <3>1, <3>2, CommitFollows
  <2>4. QED
    BY Zenon, <2>2, <2>3
<1>12. QED
  BY Zenon, <1>10, <1>11

\* customer.subscription.deleted.
LEMMA DeletedFollows ==
  ASSUME IInv, DueInv, StripeInv, FollowAs(user, due, task, stripe), NEW h \in Tasks,
         ApplyEvent(h), "overlap" \notin excuses, task[h].event.type = "deleted"
  PROVE  FollowAs(user', due', task', stripe')
<1> DEFINE q == task[h].event.sub
<1>1. q \in Subs /\ user' = Synced(user, q, "canceled") /\ "canceled" \notin PaidStatuses
  BY Zenon, AppliedRow DEF PaidStatuses
<1>2. task[h].event = Deleted(q) /\ Deleted(q) \in sent
  <2>1. task[h].event \in Event
    BY Zenon, AppliedRow
  <2>2. task[h].event = Deleted(q)
    BY Zenon, <2>1 DEF Event, Deleted
  <2>3. task[h].event \in sent
    BY Zenon, <2>1, NoEventIsNone DEF DueInv
  <2>4. QED
    BY Zenon, <2>2, <2>3
<1>3. stripe[q].status \notin Paying
  BY Zenon, <1>1, <1>2 DEF StripeInv, Paying
<1>4. \A s \in Subs : /\ task[h].event # Changed(s)
                      /\ s # q => task[h].event # Deleted(s)
  BY <1>2 DEF Changed, Deleted
<1>5. \A s \in Subs : ToldBy(due, task, stripe, s) => ToldBy(due', task', stripe', s)
  BY Zenon, <1>4, ApplySettles
<1>6. \A s \in Subs : s # q /\ Owed(due, task, stripe, s) => Owed(due', task', stripe', s)
  BY Zenon, <1>4, <1>5, ApplySettles DEF Owed
<1> HIDE DEF q
<1>7. CASE user.sub \notin {None, q}
  <2>1. user' = user
    BY Zenon, <1>1, <1>7 DEF Synced
  <2>2. \A s \in Subs : stripe[s].status \in Paying =>
          (user.sub = s /\ user.status \in PaidStatuses) \/ ToldBy(due', task', stripe', s)
    BY Zenon, <1>5 DEF FollowAs
  <2>3. \A s \in Subs : user.sub = s /\ user.status \in PaidStatuses
                        /\ stripe[s].status \notin Paying => Owed(due', task', stripe', s)
    BY Zenon, <1>6, <1>7 DEF FollowAs
  <2>4. user.status \in PaidStatuses => user.sub \in Subs
    BY Zenon DEF FollowAs
  <2>5. QED
    BY Zenon, <2>1, <2>2, <2>3, <2>4, CommitFollows
<1>8. CASE user.sub \in {None, q}
  <2>1. user'.sub = q /\ user'.status = "canceled"
    BY Zenon, <1>1, <1>8 DEF Synced
  <2>2. \A s \in Subs : stripe[s].status \in Paying => ToldBy(due', task', stripe', s)
    BY Zenon, <1>3, <1>5, <1>8, BillingAssumption DEF FollowAs
  <2>3. QED
    BY Zenon, <1>1, <2>1, <2>2, CommitFollows
<1>9. QED
  BY Zenon, <1>7, <1>8

-----------------------------------------------------------------------------
LEMMA InitSyncInv == ASSUME BillingInit PROVE SyncInv
<1>1. \A h \in Tasks, s \in Subs : ~HasRead(task[h], s)
  BY Zenon DEF BillingInit, NoTask, HasRead
<1>2. \A s \in Subs : stripe[s].status = "none" /\ Deleted(s) \notin sent
  BY Zenon DEF BillingInit
<1>3. StripeInv
  BY Zenon, <1>2 DEF StripeInv, Live, Paying
<1>4. FollowAs(user, due, task, stripe)
  BY Zenon, <1>1, <1>2 DEF FollowAs, Misled, BillingInit, NewUser, PaidStatuses, Paying
<1>5. QED
  BY Zenon, <1>3, <1>4 DEF SyncInv

LEMMA NextSyncInv == IInv /\ DueInv /\ SyncInv /\ [BillingNext]_billingVars => SyncInv'
<1> SUFFICES ASSUME IInv, DueInv, SyncInv, [BillingNext]_billingVars, excuses' = {}
             PROVE  StripeInv' /\ FollowAs(user', due', task', stripe')
  BY Zenon DEF SyncInv
<1>1. CASE UNCHANGED billingVars
  BY Zenon, <1>1 DEF SyncInv, StripeInv, billingVars, world
<1>2. CASE StripeStep
  <2>1. PICK s \in Subs, status \in SubStatus, types \in SUBSET EventTypes :
            /\ Reports(s, status, types)
            /\ "changed" \in types \/ (types = {"deleted"} /\ status = "canceled")
            /\ "deleted" \in types => status = "canceled"
            /\ \/ stripe[s].session = "open"
               \/ stripe[s].status \in {"incomplete", "active", "past_due", "unpaid"}
    BY Zenon, <1>2, StripeReports
  <2>2. excuses = {}
    BY Zenon, <2>1 DEF Reports, Becomes
  <2>3. StripeInv /\ FollowAs(user, due, task, stripe)
    BY Zenon, <2>2 DEF SyncInv
  <2>4. StripeInv'
    BY Zenon, <2>1, <2>2, <2>3, ReportStripeInv
  <2>5. FollowAs(user', due', task', stripe')
    BY Zenon, <2>1, <2>3, ReportFollows
  <2>6. QED
    BY Zenon, <2>4, <2>5
<1>3. ASSUME NEW h \in Tasks,
             \/ BeginCheckout(h) \/ CreateCustomer(h) \/ SaveCustomer(h) \/ CreateSession(h)
             \/ \E e \in sent : Deliver(h, e)
             \/ Fetch(h) \/ Load(h) \/ TaskFails(h)
      PROVE  StripeInv' /\ FollowAs(user', due', task', stripe')
  <2>1. excuses = {}
    BY Zenon, <1>3 DEF BeginCheckout, StartTask, CreateCustomer, SaveCustomer, CreateSession, Deliver,
                Fetch, Load, TaskFails
  <2>2. StripeInv /\ FollowAs(user, due, task, stripe)
    BY Zenon, <2>1 DEF SyncInv
  <2>3. /\ FollowAs(user', due', task', stripe') /\ UNCHANGED sent
        /\ \A s \in Subs : stripe'[s].status = stripe[s].status
    BY Zenon, <1>3, <2>2, RequestFollows
  <2>4. UNCHANGED stripe \/ CreateSession(h)
    BY Zenon, <1>3 DEF BeginCheckout, CreateCustomer, SaveCustomer, Deliver, Fetch, Load, TaskFails, world
  <2>5. StripeInv'
    BY Zenon, <2>2, <2>3, <2>4, RequestStripeInv
  <2>6. QED
    BY Zenon, <2>3, <2>5
<1>4. ASSUME NEW h \in Tasks, ApplyEvent(h)
      PROVE  StripeInv' /\ FollowAs(user', due', task', stripe')
  <2>1. excuses = {} /\ UNCHANGED <<stripe, sent>>
    BY Zenon, <1>4 DEF ApplyEvent, world
  <2>2. StripeInv /\ FollowAs(user, due, task, stripe)
    BY Zenon, <2>1 DEF SyncInv
  <2>3. task[h].event.type \in Completed \cup {"changed", "deleted"}
    <3>1. task[h].event \in Event
      BY Zenon, <1>4, <2>1, AppliedRow
    <3>2. QED
      BY Zenon, <3>1 DEF Event, Completed
  <2>4. FollowAs(user', due', task', stripe')
    BY Zenon, <1>4, <2>1, <2>2, <2>3, CompletedFollows, ChangedFollows, DeletedFollows
  <2>5. QED
    BY Zenon, <2>1, <2>2, <2>4, RequestStripeInv
<1>5. QED
  BY Zenon, <1>1, <1>2, <1>3, <1>4 DEF BillingNext

\* Webhooks keep users.plan in step with Stripe: whatever order the events of an account
\* come in, however often they are delivered and wherever a delivery fails, once all are
\* answered the account is on the paid plan if and only if Stripe has a subscription of it
\* that is paid for.  For any number of subscriptions and events; not where requests
\* overlapped, two subscriptions were under way, or a completed session was not paid.
THEOREM PlanFollowsStripeHolds == BillingSpec => []PlanFollowsStripe
<1>1. IInv /\ DueInv /\ SyncInv => PlanFollowsStripe
  <2> SUFFICES ASSUME IInv, DueInv, SyncInv, Settled, excuses = {} PROVE InSync
    BY Zenon DEF PlanFollowsStripe
  <2>1. FollowAs(user, due, task, stripe)
    BY Zenon DEF SyncInv
  <2>2. \A s \in Subs : due[Changed(s)] = 0 /\ due[Deleted(s)] = 0
    BY Zenon, EventsOf DEF Settled
  <2>3. \A s \in Subs : ~ToldBy(due, task, stripe, s) /\ ~Owed(due, task, stripe, s)
    BY <2>2 DEF ToldBy, Owed
  <2>4. user.plan = plan_for_status(user.status)
    BY Zenon DEF IInv, AloneInv
  <2>5. user.plan = "pro" <=> user.status \in PaidStatuses
    BY Zenon, <2>4 DEF plan_for_status
  <2>6. QED
    BY Zenon, <2>1, <2>3, <2>5 DEF FollowAs, InSync, IsPaid
<1>2. BillingInit => IInv /\ DueInv /\ SyncInv
  BY Zenon, InitIInv, InitDueInv, InitSyncInv
<1>3. QED
  BY <1>1, <1>2, NextIInv, NextDueInv, NextSyncInv, PTL DEF BillingSpec
=============================================================================
