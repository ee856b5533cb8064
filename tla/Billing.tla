------------------------------- MODULE Billing -------------------------------
(***************************************************************************)
(* The subscription of one account: services/billing_service.py, with      *)
(* Stripe as its environment.                                              *)
(*                                                                         *)
(* A checkout request creates the Stripe customer and a checkout session;  *)
(* paying the session starts a subscription; Stripe reports what becomes   *)
(* of it by webhook events, in any order, more than once, and again when a *)
(* delivery failed.  Webhook and checkout requests are tasks that          *)
(* interleave at every await (fetching from Stripe, loading the user,      *)
(* committing); a commit sends the columns whose value differs from the    *)
(* row the session loaded.                                                 *)
(*                                                                         *)
(* A subscription and the checkout session that starts it share a name.    *)
(* Webhooks have a Stripe client (billing_enabled): without one nobody     *)
(* could have checked out.                                                 *)
(***************************************************************************)
EXTENDS Integers, FiniteSets

CONSTANTS
    Subs,               \* subscriptions / checkout sessions
    Customers,          \* Stripe customers
    Tasks,           \* requests that can be in flight together
    None,               \* a NULL column
    MaxEvents,          \* bound: events Stripe emits
    MaxMishaps          \* bound: needless deliveries and failed requests together

ASSUME BillingAssumption ==
    /\ None \notin Subs \cup Customers
    /\ MaxEvents \in Nat /\ MaxMishaps \in Nat
ASSUME TasksAssumption == IsFiniteSet(Tasks)

VARIABLES
    user,           \* the billing columns of the account's row
    stripe,         \* the subscriptions at Stripe
    customers,      \* the customers created at Stripe
    sent,           \* the events emitted so far
    due,            \* how many of each Stripe has had no 200 for
    task,           \* the requests in flight
    everPaid,       \* history: subscriptions that have been paid for
    excuses,        \* history: what has happened that the webhooks do not guard against
    events, mishaps

world == <<stripe, customers, sent, everPaid, events>>
billingVars == <<user, world, due, task, excuses, mishaps>>

\* Mutant of PaidStatuses: a subscription not paid for yet counts.
PaidStatusesWithIncomplete == {"active", "trialing", "past_due", "incomplete"}

\* PAID_STATUSES, among the statuses a subscription goes through.
PaidStatuses == {"active", "trialing", "past_due"}
SubStatus == {"none", "incomplete", "active", "past_due", "unpaid", "canceled"}

\* Stripe's own view: the statuses of a subscription that has been paid for and
\* has not been given up, and of one that is under way.
Paying == {"active", "past_due"}
Live == Paying \cup {"incomplete"}

plan_for_status(status) == IF status \in PaidStatuses THEN "pro" ELSE "free"

User == [customer : Customers \cup {None}, sub : Subs \cup {None},
         status : SubStatus, plan : {"free", "pro"}]

\* session: the checkout session is not there, open, or completed.
Subscription == [session : {"none", "open", "done"}, customer : Customers \cup {None},
                 status : SubStatus]

\* checkout.session.completed with its payment_status, "changed" for
\* customer.subscription.created and .updated, and "deleted".  Equal events are
\* not told apart.
Event == [type : {"completed paid", "completed unpaid", "changed", "deleted"}, sub : Subs]
Completed == {"completed paid", "completed unpaid"}
NoEvent == [type |-> "none"]

\* A request: its await, the event of a webhook and whether it is delivered once
\* more than needed, the row its session loaded, the status it fetched, the
\* customer of a checkout.
Task == [pc : {"idle", "fetch", "load", "commit", "customer", "saveCustomer", "session"},
         event : Event \cup {NoEvent}, again : BOOLEAN, row : User, status : SubStatus,
         customer : Customers \cup {None}]

NewUser == [customer |-> None, sub |-> None, status |-> "none", plan |-> "free"]
NoTask == [pc |-> "idle", event |-> NoEvent, again |-> FALSE, row |-> NewUser,
         status |-> "none", customer |-> None]

BillingTypeOK ==
    /\ user \in User
    /\ stripe \in [Subs -> Subscription]
    /\ customers \subseteq Customers
    /\ sent \subseteq Event
    /\ due \in [Event -> Nat]
    /\ task \in [Tasks -> Task]
    /\ everPaid \subseteq Subs
    /\ excuses \subseteq {"overlap", "double", "unpaid"}
    /\ events \in Nat /\ mishaps \in Nat

BillingInit ==
    /\ user = NewUser
    /\ stripe = [s \in Subs |-> [session |-> "none", customer |-> None, status |-> "none"]]
    /\ customers = {} /\ sent = {} /\ due = [e \in Event |-> 0]
    /\ task = [h \in Tasks |-> NoTask]
    /\ everPaid = {} /\ excuses = {}
    /\ events = 0 /\ mishaps = 0

TaskAt(h, pc) == task[h].pc = pc
AtRest == \A h \in Tasks : TaskAt(h, "idle")
IsPaid(s) == stripe[s].status \in Paying

-----------------------------------------------------------------------------
(* Stripe *)

\* Stripe emits an event of each of these types about s.
Emit(s, types) ==
    LET new == [type : types, sub : {s}]
    IN  /\ events + Cardinality(new) <= MaxEvents
        /\ events' = events + Cardinality(new)
        /\ sent' = sent \cup new
        /\ due' = [e \in Event |-> IF e \in new THEN due[e] + 1 ELSE due[e]]

\* The subscription takes a new status.  Two that are under way at once are
\* something the webhooks do not guard against.
Becomes(s, status) ==
    /\ stripe' = [stripe EXCEPT ![s] = [session |-> "done", customer |-> @.customer,
                                        status |-> status]]
    /\ everPaid' = IF status \in Paying THEN everPaid \cup {s} ELSE everPaid
    /\ excuses' = IF status \in Live /\ \E q \in Subs \ {s} : stripe[q].status \in Live
                  THEN excuses \cup {"double"} ELSE excuses
    /\ UNCHANGED <<user, customers, task, mishaps>>

\* Someone completes the checkout page; the payment may take its time, and the
\* session is then reported complete but unpaid.
CompleteCheckout(s, delayed) ==
    /\ stripe[s].session = "open"
    /\ Emit(s, IF delayed THEN {"completed unpaid", "changed"} ELSE {"changed"})
    /\ Becomes(s, "incomplete")

\* The first payment: the session is reported complete and paid, unless it was
\* reported complete before.
FirstPayment(s) ==
    /\ stripe[s].status = "incomplete"
    /\ Emit(s, IF [type |-> "completed unpaid", sub |-> s] \in sent
               THEN {"changed"} ELSE {"completed paid", "changed"})
    /\ Becomes(s, "active")

\* A renewal fails, is made up for, or is given up.
Renewal(s, status) ==
    /\ <<stripe[s].status, status>> \in {<<"active", "past_due">>, <<"past_due", "active">>,
                                         <<"past_due", "unpaid">>, <<"unpaid", "active">>}
    /\ Emit(s, {"changed"})
    /\ Becomes(s, status)

Cancel(s) ==
    /\ stripe[s].status \in {"incomplete", "active", "past_due", "unpaid"}
    /\ Emit(s, {"deleted"})
    /\ Becomes(s, "canceled")

-----------------------------------------------------------------------------
(* Requests *)

\* Two requests of this account are in flight together.
Overlap == IF AtRest THEN {} ELSE {"overlap"}

StartTask(h, pc, event, again, row) ==
    /\ TaskAt(h, "idle")
    /\ task' = [task EXCEPT ![h] = [pc |-> pc, event |-> event, again |-> again, row |-> row,
                                    status |-> "none", customer |-> row.customer]]
    /\ excuses' = excuses \cup Overlap

EndTask(h) == task' = [task EXCEPT ![h] = NoTask]

\* UPDATE users SET the columns that changed since the row was loaded.
SaveUser(loaded, new) ==
    user' = [customer |-> IF new.customer # loaded.customer THEN new.customer ELSE user.customer,
             sub      |-> IF new.sub # loaded.sub THEN new.sub ELSE user.sub,
             status   |-> IF new.status # loaded.status THEN new.status ELSE user.status,
             plan     |-> IF new.plan # loaded.plan THEN new.plan ELSE user.plan]

\* checkout_url for an account without a paid subscription.
BeginCheckout(h) ==
    /\ user.status \notin PaidStatuses
    /\ StartTask(h, IF user.customer = None THEN "customer" ELSE "session", NoEvent,
             FALSE, user)
    /\ UNCHANGED <<user, world, due, mishaps>>

\* _ensure_customer: Stripe creates the customer ...
CreateCustomer(h) ==
    /\ TaskAt(h, "customer")
    /\ \E c \in Customers \ customers :
         /\ customers' = customers \cup {c}
         /\ task' = [task EXCEPT ![h].pc = "saveCustomer", ![h].customer = c]
    /\ UNCHANGED <<user, stripe, sent, due, everPaid, events, excuses, mishaps>>

\* ... and its id is committed.
SaveCustomer(h) ==
    /\ TaskAt(h, "saveCustomer")
    /\ SaveUser(task[h].row, [task[h].row EXCEPT !.customer = task[h].customer])
    /\ task' = [task EXCEPT ![h].pc = "session"]
    /\ UNCHANGED <<world, due, excuses, mishaps>>

\* The checkout session.
CreateSession(h) ==
    /\ TaskAt(h, "session")
    /\ \E s \in Subs :
         /\ stripe[s].session = "none"
         /\ stripe' = [stripe EXCEPT ![s].session = "open", ![s].customer = task[h].customer]
    /\ EndTask(h)
    /\ UNCHANGED <<user, customers, sent, due, everPaid, events, excuses, mishaps>>

\* handle_event begins: Stripe delivers an event it has had no answer for, or
\* delivers one again.
Deliver(h, e) ==
    LET again == Cardinality({g \in Tasks : task[g].event = e /\ ~task[g].again}) >= due[e]
    IN  /\ again => mishaps < MaxMishaps
        /\ mishaps' = IF again THEN mishaps + 1 ELSE mishaps
        /\ StartTask(h, IF e.type = "changed" THEN "fetch" ELSE "load", e, again, NewUser)
        /\ UNCHANGED <<user, world, due>>

\* _current_subscription: the subscription as Stripe has it now.
Fetch(h) ==
    /\ TaskAt(h, "fetch")
    /\ task' = [task EXCEPT ![h].pc = "load", ![h].status = stripe[task[h].event.sub].status]
    /\ UNCHANGED <<user, world, due, excuses, mishaps>>

\* _find_user: by the user_id in the subscription's metadata or the session's
\* client_reference_id, so it is this account.
Load(h) ==
    /\ TaskAt(h, "load")
    /\ task' = [task EXCEPT ![h].pc = "commit", ![h].row = user]
    /\ UNCHANGED <<user, world, due, excuses, mishaps>>

\* Mutant of CheckedOut: the session's payment_status is stored as it is.
CheckedOutRawStatus(row, e) ==
    [customer |-> stripe[e.sub].customer, sub |-> e.sub,
     status   |-> IF e.type = "completed paid" THEN "paid" ELSE row.status,
     plan     |-> IF e.type = "completed paid" THEN "pro" ELSE row.plan]

\* The row after checkout.session.completed.
CheckedOut(row, e) ==
    [customer |-> stripe[e.sub].customer, sub |-> e.sub,
     status   |-> IF e.type = "completed paid" THEN "active" ELSE row.status,
     plan     |-> IF e.type = "completed paid" THEN "pro" ELSE row.plan]

\* Mutant of Synced: the plan of an ended subscription is kept.
SyncedKeepsPlan(row, s, status) ==
    IF row.sub \notin {None, s} /\ status \notin PaidStatuses THEN row
    ELSE [customer |-> stripe[s].customer, sub |-> s, status |-> status,
          plan |-> IF status \in PaidStatuses THEN "pro" ELSE row.plan]

\* Mutant of Synced: an old subscription that ends counts as the current one.
SyncedAnyEnd(row, s, status) ==
    [customer |-> stripe[s].customer, sub |-> s, status |-> status,
     plan |-> plan_for_status(status)]

\* The row after an event of a subscription: an old one ending or lapsing does
\* not affect the current one.
Synced(row, s, status) ==
    IF row.sub \notin {None, s} /\ status \notin PaidStatuses THEN row
    ELSE [customer |-> stripe[s].customer, sub |-> s, status |-> status,
          plan |-> plan_for_status(status)]

\* Stripe's books: it gets a 200 for the event, and stops retrying it.
Answered(t) == due' = IF t.again THEN due ELSE [due EXCEPT ![t.event] = @ - 1]

\* The end of handle_event: the commit, and the 200 that settles the event.
ApplyEvent(h) ==
    LET e == task[h].event
        row == task[h].row
    IN  /\ TaskAt(h, "commit")
        /\ SaveUser(row, CASE e.type \in Completed -> CheckedOut(row, e)
                           [] e.type = "changed"     -> Synced(row, e.sub, task[h].status)
                           [] e.type = "deleted"     -> Synced(row, e.sub, "canceled"))
        /\ Answered(task[h])
        /\ excuses' = IF e.type \in Completed /\ ~IsPaid(e.sub)
                      THEN excuses \cup {"unpaid"} ELSE excuses
        /\ EndTask(h)
        /\ UNCHANGED <<world, mishaps>>

\* Stripe or the database fails, or the process dies: nothing is committed, and a
\* webhook's event stays due.
TaskFails(h) ==
    /\ ~TaskAt(h, "idle")
    /\ mishaps < MaxMishaps /\ mishaps' = mishaps + 1
    /\ EndTask(h)
    /\ UNCHANGED <<user, world, due, excuses>>

-----------------------------------------------------------------------------
StripeStep ==
    \E s \in Subs :
        \/ \E delayed \in BOOLEAN : CompleteCheckout(s, delayed)
        \/ FirstPayment(s)
        \/ \E status \in {"active", "past_due", "unpaid"} : Renewal(s, status)
        \/ Cancel(s)

BillingNext ==
    \/ StripeStep
    \/ \E h \in Tasks :
         \/ BeginCheckout(h) \/ CreateCustomer(h) \/ SaveCustomer(h) \/ CreateSession(h)
         \/ \E e \in sent : Deliver(h, e)
         \/ Fetch(h) \/ Load(h) \/ ApplyEvent(h)
         \/ TaskFails(h)

BillingSpec == BillingInit /\ [][BillingNext]_billingVars

-----------------------------------------------------------------------------
(* Properties *)

\* No account is on the paid plan of handle_event unless Stripe has had a payment
\* for one of its subscriptions, whatever order, repetition or overlap its events
\* are handled in.
ProWasPaid == user.plan = "pro" => everPaid # {}

\* handle_event writes subscription_status and plan together: as long as no two
\* requests of the account overlap, the plan is the one the stored status stands
\* for.
PlanMatchesStatus == "overlap" \notin excuses => user.plan = plan_for_status(user.status)

\* Every event has been answered and no request is in flight.
Settled == AtRest /\ \A e \in Event : due[e] = 0
InSync == user.plan = "pro" <=> \E s \in Subs : IsPaid(s)

\* users.plan follows the subscription's status through webhooks: events out of
\* order, repeated, delayed or retried after a failure leave the account on the
\* plan Stripe says it pays for, unless two requests overlapped, two
\* subscriptions were under way at once, or a checkout.session.completed was
\* handled while its subscription was not paid.
PlanFollowsStripe == Settled /\ excuses = {} => InSync

\* billing_service.py: webhooks keep users.plan in sync.
PlanInSync == Settled => InSync
=============================================================================
