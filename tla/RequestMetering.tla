--------------------------- MODULE RequestMetering ---------------------------
(***************************************************************************)
(* Request metering: services/metering_service.py (count_request and       *)
(* flush_requests) with the two tasks that flush, the scheduler            *)
(* (scheduler.py) and the shutdown path of main.lifespan.                  *)
(*                                                                         *)
(* The edge counts routed requests in an in-memory Counter.  A flush       *)
(* copies and clears that Counter, then talks to the database over several *)
(* awaits: one SELECT of the accounts that still exist, one upsert per     *)
(* key, one COMMIT; after an error, a ROLLBACK before the counts are put    *)
(* back.  Every await is a place where the edge counts more requests, the  *)
(* database fails, an account is deleted, the task is cancelled or the     *)
(* process dies, so every await is a step here.                            *)
(*                                                                         *)
(* A key stands for one (agent_id, user_id, hour_start) of the Counter.    *)
(***************************************************************************)
EXTENDS Naturals, FiniteSets

CONSTANTS
    Keys,           \* keys of _pending_requests
    Users,          \* accounts
    Owner,          \* the user_id of each key
    MaxRequests,    \* bound: requests routed per key
    MaxFailures,    \* bound: database errors seen by flushes
    MaxLostAcks,    \* bound: COMMITs applied whose answer never arrives
    MaxStops        \* bound: crashes and graceful shutdowns together

ASSUME OwnerAssumption == Owner \in [Keys -> Users]
ASSUME UsersAssumption == IsFiniteSet(Users)
ASSUME MeteringAssumption ==
    /\ MaxRequests \in Nat
    /\ MaxFailures \in Nat
    /\ MaxLostAcks \in Nat
    /\ MaxStops \in Nat

VARIABLES
    proc,       \* the process: "up", "stopping" (lifespan's finally) or "down"
    flush,      \* where flush_requests is: "idle" or the await it is at
    pending,    \* _pending_requests
    batch,      \* flush_requests' local copy
    unreached,  \* keys of batch not yet reached by the upsert loop
    existing,   \* the accounts the SELECT returned
    txn,        \* upserts of the open transaction
    usageHours, \* committed usage_hours.requests
    userRows,   \* rows of users
    counted,    \* history: requests routed
    dropped,    \* history: counts of accounts deleted meanwhile
    lost,       \* history: counts that died with the process, a cancelled flush or a
                \* failed ROLLBACK
    recounted,  \* history: counts put back although their COMMIT took effect
    age,        \* history: ticks begun since the oldest unwritten request was routed
    failures, lostAcks, stops

flushVars      == <<flush, batch, unreached, existing, txn>>
history        == <<counted, dropped, lost, recounted>>
meteringBounds == <<failures, lostAcks, stops>>
meteringVars   == <<proc, flushVars, pending, usageHours, userRows, history, age, meteringBounds>>

Tallies == [Keys -> Nat]
Zero == [k \in Keys |-> 0]
Plus(f, g) == [k \in Keys |-> f[k] + g[k]]
Minus(f, g) == [k \in Keys |-> f[k] - g[k]]
Unwritten(k) == pending[k] + batch[k]

\* The ticks a request may have to wait for: the next one, and one more for each
\* flush that had to be repeated.  `age' stops counting once it is past this.
Allowance == 1 + failures + lostAcks + Cardinality(Users \ userRows)

MeteringTypeOK ==
    /\ proc \in {"up", "stopping", "down"}
    /\ flush \in {"idle", "select", "write", "commit", "rollback"}
    /\ pending \in Tallies /\ batch \in Tallies /\ txn \in Tallies /\ usageHours \in Tallies
    /\ unreached \in SUBSET Keys
    /\ existing \in SUBSET Users /\ userRows \in SUBSET Users
    /\ counted \in Tallies /\ dropped \in Tallies /\ lost \in Tallies
    /\ recounted \in Tallies
    /\ age \in Nat /\ failures \in Nat /\ lostAcks \in Nat /\ stops \in Nat

MeteringInit ==
    /\ proc = "up" /\ flush = "idle"
    /\ pending = Zero /\ batch = Zero /\ txn = Zero /\ usageHours = Zero
    /\ unreached = {} /\ existing = {} /\ userRows = Users
    /\ counted = Zero /\ dropped = Zero /\ lost = Zero /\ recounted = Zero
    /\ age = 0 /\ failures = 0 /\ lostAcks = 0 /\ stops = 0

-----------------------------------------------------------------------------
(* The edge *)

\* count_request: one more request routed, in memory only.
CountRequest(k) ==
    /\ proc = "up"
    /\ counted[k] < MaxRequests
    /\ pending' = [pending EXCEPT ![k] = @ + 1]
    /\ counted' = [counted EXCEPT ![k] = @ + 1]
    /\ UNCHANGED <<proc, flushVars, usageHours, userRows, dropped, lost, recounted, age,
                   meteringBounds>>

-----------------------------------------------------------------------------
(* flush_requests *)

\* No flush is running: its locals are gone.
NoFlush ==
    /\ flush' = "idle" /\ batch' = Zero /\ txn' = Zero
    /\ unreached' = {} /\ existing' = {}

\* The process is gone once the shutdown flush is over, whatever its outcome.
AfterFlush == proc' = IF proc = "stopping" THEN "down" ELSE proc

\* What is left in memory when the flush of a stopping process ends dies with
\* it.  `left' is what the flush leaves in _pending_requests.
Leave(left) ==
    /\ pending' = IF proc = "stopping" THEN Zero ELSE left
    /\ lost' = IF proc = "stopping" THEN Plus(lost, left) ELSE lost

\* Mutant of TakeBatch: _pending_requests.clear() is forgotten.
TakeBatchWithoutClear ==
    /\ flush = "idle"
    /\ IF pending = Zero
       THEN /\ AfterFlush
            /\ UNCHANGED <<flushVars, pending>>
       ELSE /\ batch' = pending
            /\ flush' = "select"
            /\ UNCHANGED <<proc, pending, unreached, existing, txn>>

\* The synchronous prefix, up to the first await: copy and clear.  An empty
\* batch returns at once.
TakeBatch ==
    /\ flush = "idle"
    /\ IF pending = Zero
       THEN /\ AfterFlush
            /\ UNCHANGED <<flushVars, pending>>
       ELSE /\ batch' = pending
            /\ pending' = Zero
            /\ flush' = "select"
            /\ UNCHANGED <<proc, unreached, existing, txn>>

\* The scheduler's tick begins with a flush; a tick starts only after the last
\* one has ended.
Tick ==
    /\ proc = "up"
    /\ TakeBatch
    /\ age' = IF pending = Zero THEN 0 ELSE IF age <= Allowance THEN age + 1 ELSE age
    /\ UNCHANGED <<usageHours, userRows, history, meteringBounds>>

\* lifespan's last flush, after the scheduler task has been cancelled.
ShutdownFlush ==
    /\ proc = "stopping"
    /\ TakeBatch
    /\ UNCHANGED <<usageHours, userRows, history, age, meteringBounds>>

\* Mutant of SelectUsers: the users of the cleared Counter, not of the batch.
SelectUsersOfPending ==
    /\ flush = "select"
    /\ existing' = {Owner[k] : k \in {j \in Keys : pending[j] > 0}} \cap userRows
    /\ unreached' = {k \in Keys : batch[k] > 0}
    /\ flush' = "write"
    /\ UNCHANGED <<proc, batch, txn, pending, usageHours, userRows, history, age, meteringBounds>>

\* Mutant of SelectUsers: no check that the accounts still exist.
SelectUsersUnchecked ==
    /\ flush = "select"
    /\ existing' = {Owner[k] : k \in {j \in Keys : batch[j] > 0}}
    /\ unreached' = {k \in Keys : batch[k] > 0}
    /\ flush' = "write"
    /\ UNCHANGED <<proc, batch, txn, pending, usageHours, userRows, history, age, meteringBounds>>

\* SELECT users.id WHERE id IN (the batch's users).
SelectUsers ==
    /\ flush = "select"
    /\ existing' = {Owner[k] : k \in {j \in Keys : batch[j] > 0}} \cap userRows
    /\ unreached' = {k \in Keys : batch[k] > 0}
    /\ flush' = "write"
    /\ UNCHANGED <<proc, batch, txn, pending, usageHours, userRows, history, age, meteringBounds>>

\* One turn of the upsert loop: skip a key whose account is gone, otherwise
\* insert or add.  The foreign key holds only while the account exists.
UpsertOne(k) ==
    /\ flush = "write" /\ k \in unreached
    /\ Owner[k] \in existing => Owner[k] \in userRows
    /\ unreached' = unreached \ {k}
    /\ txn' = IF Owner[k] \in existing THEN [txn EXCEPT ![k] = batch[k]] ELSE txn
    /\ UNCHANGED <<proc, flush, batch, existing, pending, usageHours, userRows,
                   history, age, meteringBounds>>

\* The loop is over; the next await is the COMMIT.
LoopDone ==
    /\ flush = "write" /\ unreached = {}
    /\ flush' = "commit"
    /\ UNCHANGED <<proc, batch, unreached, existing, txn, pending, usageHours, userRows,
                   history, age, meteringBounds>>

\* COMMIT: the upserts reach usage_hours; what the loop skipped is dropped.
Committed ==
    /\ usageHours' = Plus(usageHours, txn)
    /\ dropped' = Plus(dropped, Minus(batch, txn))

Commit ==
    /\ flush = "commit"
    /\ Committed
    /\ Leave(pending)
    /\ NoFlush /\ AfterFlush
    /\ age' = 0
    /\ UNCHANGED <<userRows, counted, recounted, meteringBounds>>

\* `except Exception': nothing of the transaction is kept; the next await is the
\* ROLLBACK.
RollBack ==
    /\ flush' = "rollback" /\ txn' = Zero
    /\ unreached' = {} /\ existing' = {}
    /\ UNCHANGED <<proc, batch, pending>>

\* One of the awaits fails.
FlushFails ==
    /\ flush \in {"select", "write", "commit"}
    /\ failures < MaxFailures
    /\ RollBack
    /\ failures' = failures + 1
    /\ UNCHANGED <<usageHours, userRows, history, age, lostAcks, stops>>

\* The upsert of an account deleted since the SELECT breaks the foreign key.
ForeignKeyFails(k) ==
    /\ flush = "write" /\ k \in unreached
    /\ Owner[k] \in existing /\ Owner[k] \notin userRows
    /\ RollBack
    /\ UNCHANGED <<usageHours, userRows, history, age, meteringBounds>>

\* The COMMIT took effect but its answer was lost (connection reset): the code
\* sees an exception and will put back counts that are already written.
CommitAckLost ==
    /\ flush = "commit"
    /\ lostAcks < MaxLostAcks
    /\ usageHours' = Plus(usageHours, txn)
    /\ RollBack
    /\ recounted' = Plus(recounted, txn)
    /\ lostAcks' = lostAcks + 1
    /\ UNCHANGED <<userRows, counted, dropped, lost, age, failures, stops>>

\* Mutant of PutBack: Counter.subtract where Counter.update is meant.
PutBackSubtracts ==
    /\ flush = "rollback"
    /\ Leave(Minus(pending, batch))
    /\ NoFlush /\ AfterFlush
    /\ UNCHANGED <<usageHours, userRows, counted, dropped, recounted, age, meteringBounds>>

\* Rolled back: put the batch back and raise.  The scheduler and lifespan only
\* log what is raised.
PutBack ==
    /\ flush = "rollback"
    /\ Leave(Plus(pending, batch))
    /\ NoFlush /\ AfterFlush
    /\ UNCHANGED <<usageHours, userRows, counted, dropped, recounted, age, meteringBounds>>

\* The ROLLBACK fails too: its exception leaves the handler before the put-back.
RollbackFails ==
    /\ flush = "rollback"
    /\ failures < MaxFailures
    /\ pending' = IF proc = "stopping" THEN Zero ELSE pending
    /\ lost' = IF proc = "stopping" THEN Plus(lost, Plus(pending, batch)) ELSE Plus(lost, batch)
    /\ NoFlush /\ AfterFlush
    /\ failures' = failures + 1
    /\ UNCHANGED <<usageHours, userRows, counted, dropped, recounted, age, lostAcks, stops>>

-----------------------------------------------------------------------------
(* The process *)

\* lifespan's finally: cancel the scheduler task and wait for it.  The
\* CancelledError is raised at the await the flush is at; it is no Exception,
\* so the put-back does not run.
Shutdown ==
    /\ proc = "up" /\ stops < MaxStops
    /\ proc' = "stopping"
    /\ lost' = Plus(lost, batch)
    /\ NoFlush
    /\ stops' = stops + 1
    /\ UNCHANGED <<pending, usageHours, userRows, counted, dropped, recounted, age,
                   failures, lostAcks>>

\* Cancelled while the COMMIT is on its way and it takes effect all the same.
ShutdownAfterCommit ==
    /\ proc = "up" /\ stops < MaxStops
    /\ flush = "commit"
    /\ proc' = "stopping"
    /\ Committed
    /\ NoFlush
    /\ stops' = stops + 1
    /\ UNCHANGED <<pending, userRows, counted, lost, recounted, age, failures, lostAcks>>

Crash ==
    /\ proc # "down" /\ stops < MaxStops
    /\ proc' = "down"
    /\ lost' = Plus(lost, Plus(pending, batch))
    /\ pending' = Zero
    /\ NoFlush
    /\ stops' = stops + 1
    /\ UNCHANGED <<usageHours, userRows, counted, dropped, recounted, age, failures, lostAcks>>

\* A new process starts with an empty Counter.
Restart ==
    /\ proc = "down"
    /\ proc' = "up"
    /\ age' = 0
    /\ UNCHANGED <<flushVars, pending, usageHours, userRows, history, meteringBounds>>

\* An operator deletes an account; its usage rows go with it (ON DELETE
\* CASCADE).  An open upsert holds a share lock on the account's row.
DeleteAccount(u) ==
    /\ u \in userRows
    /\ \A k \in Keys : Owner[k] = u => txn[k] = 0
    /\ userRows' = userRows \ {u}
    /\ usageHours' = [k \in Keys |-> IF Owner[k] = u THEN 0 ELSE usageHours[k]]
    /\ dropped' = [k \in Keys |-> IF Owner[k] = u THEN dropped[k] + usageHours[k] ELSE dropped[k]]
    /\ UNCHANGED <<proc, flushVars, pending, counted, lost, recounted, age, meteringBounds>>

-----------------------------------------------------------------------------
FlushStep ==
    \/ SelectUsers
    \/ \E k \in Keys : UpsertOne(k)
    \/ LoopDone
    \/ Commit
    \/ \E k \in Keys : ForeignKeyFails(k)
    \/ PutBack

MeteringNext ==
    \/ \E k \in Keys : CountRequest(k)
    \/ Tick
    \/ ShutdownFlush
    \/ FlushStep
    \/ FlushFails
    \/ RollbackFails
    \/ CommitAckLost
    \/ Shutdown
    \/ ShutdownAfterCommit
    \/ Crash
    \/ Restart
    \/ \E u \in Users : DeleteAccount(u)

MeteringSpec == MeteringInit /\ [][MeteringNext]_meteringVars

\* The event loop resumes a flush whose database call has returned, the
\* scheduler loop ticks for ever, a stopped process is started again.
FairMeteringSpec ==
    /\ MeteringSpec
    /\ WF_meteringVars(FlushStep) /\ WF_meteringVars(Tick)
    /\ WF_meteringVars(ShutdownFlush) /\ WF_meteringVars(Restart)

-----------------------------------------------------------------------------
(* Properties *)

\* Every routed request is in exactly one place: still pending, in the batch
\* being flushed, written to usage_hours, dropped with its deleted account, or
\* lost with a process, a cancelled flush or a failed ROLLBACK; only a COMMIT
\* whose answer was lost counts it again.  This is what copying, clearing and
\* putting back in flush_requests must preserve across every await.
Conservation ==
    \A k \in Keys :
        pending[k] + batch[k] + usageHours[k] + dropped[k] + lost[k] = counted[k] + recounted[k]

\* flush_requests drops counts only of accounts that are really gone: the SELECT
\* may be stale when the upserts run, but never in the direction that loses the
\* usage of an account that still exists.
DroppedOnlyIfDeleted ==
    \A k \in Keys : dropped[k] > 0 => Owner[k] \notin userRows

\* A request routed to an agent does not stay unwritten for ever: the flushes
\* reach it although the database fails a number of times and accounts
\* disappear between the SELECT and the upserts (or the process dies with it).
EventuallyWritten ==
    \A k \in Keys : Unwritten(k) > 0 ~> Unwritten(k) = 0

\* What the module looks like from outside: requests waiting, requests written.  A
\* COMMIT whose answer is lost writes counts that are put back all the same: they are
\* written once too often, and `recounted' says which.
Written(k) == IF Owner[k] \in userRows THEN usageHours[k] - recounted[k] ELSE 0
Ledger == INSTANCE UsageLedger WITH
    unwritten <- [k \in Keys |-> Unwritten(k)], written <- [k \in Keys |-> Written(k)]

\* Request metering implements the ledger: what a flush does over many awaits,
\* failures, cancellations and restarts writes each routed request at most once,
\* apart from the counts of a COMMIT whose answer is lost.
ImplementsLedger == Ledger!Spec

\* metering_service.py: counts not yet flushed are lost if the process dies, at
\* most one scheduler interval.  A flush that fails puts its counts back for the
\* next tick, so the interval grows, but only by one for each failure, lost
\* COMMIT or account deleted under a flush: nothing else delays a request.
UnwrittenForOneIntervalPerFailure == age <= Allowance

\* main.py: a graceful restart does not lose the requests counted since the last
\* tick.  Stopping the scheduler task loses none.
GracefulStopLosesNothing ==
    [][proc = "up" /\ proc' = "stopping" => lost' = lost]_meteringVars
=============================================================================
