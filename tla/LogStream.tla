------------------------------ MODULE LogStream ------------------------------
(***************************************************************************)
(* The live log of an agent (routers/agents.py, stream_logs): a generator  *)
(* that polls the tail of what the replicas wrote and sends what it has    *)
(* not sent before, telling lines apart by replica and timestamp.  Every   *)
(* poll goes through the database session of the request, which is never   *)
(* rolled back.  Replicas stay; the lines that go when one is replaced are *)
(* not modelled.                                                           *)
(***************************************************************************)
EXTENDS Integers, Sequences, Selection

CONSTANTS
    ReplicaIds,
    Limit,          \* lines a poll asks for: 200
    MaxLines,       \* bound: lines written
    MaxPollErrors   \* bound: polls that fail

LogConstantsOK == Limit \in Nat

VARIABLES
    lines,      \* what the replicas wrote, oldest first
    seen,       \* the keys of the lines sent
    sent,       \* positions of the lines sent, in the order they were sent
    stream,     \* "open", "closed", or "broken": every further poll fails
    polled,     \* history: lines written when a poll last succeeded
    burst,      \* history: more than Limit lines were written between two such polls
    pollErrors

logVars == <<lines, seen, sent, stream, polled, burst, pollErrors>>

LogInit ==
    /\ lines = <<>> /\ seen = {} /\ sent = <<>> /\ stream = "open"
    /\ polled = 0 /\ burst = FALSE /\ pollErrors = 0

\* A replica writes a line, at the instant of the line before it or later.
Write(replica, later) ==
    LET last == IF lines = <<>> THEN 0 ELSE lines[Len(lines)].at IN
    /\ Len(lines) < MaxLines
    /\ lines' = Append(lines, [replica |-> replica, at |-> last + later])
    /\ UNCHANGED <<seen, sent, stream, polled, burst, pollErrors>>

-----------------------------------------------------------------------------
\* Mutant of Key: the timestamp alone.
KeyByTime(i) == lines[i].at

Key(i) == lines[i]

\* get_logs: the last `Limit' lines.
LastLines == {i \in 1 .. Len(lines) : i > Len(lines) - Limit}

\* Mutant of Unsent: only what this poll returns is compared.
UnsentForgetful == InOrder({i \in LastLines : \A j \in LastLines : j < i => Key(j) # Key(i)})

\* The lines of a poll that the loop yields: the first of each key not seen.
Unsent == InOrder(
    {i \in LastLines : Key(i) \notin seen /\ \A j \in LastLines : j < i => Key(j) # Key(i)})

Poll ==
    /\ stream = "open"
    /\ sent' = sent \o Unsent
    /\ seen' = seen \cup {Key(i) : i \in LastLines}
    /\ polled' = Len(lines)
    /\ burst' = (burst \/ Len(lines) - polled > Limit)
    /\ UNCHANGED <<lines, stream, pollErrors>>

\* A failed poll sends a heartbeat only.  An error of the runtime passes; after one of
\* the database the session refuses every statement until a rollback.
PollFails(database) ==
    /\ stream = "open" /\ pollErrors < MaxPollErrors /\ pollErrors' = pollErrors + 1
    /\ stream' = IF database THEN "broken" ELSE "open"
    /\ UNCHANGED <<lines, seen, sent, polled, burst>>

Disconnect ==
    /\ stream # "closed" /\ stream' = "closed"
    /\ UNCHANGED <<lines, seen, sent, polled, burst, pollErrors>>

LogNext ==
    \/ \E replica \in ReplicaIds, later \in {0, 1} : Write(replica, later)
    \/ Poll \/ Disconnect
    \/ \E database \in BOOLEAN : PollFails(database)

LogSpec == LogInit /\ [][LogNext]_logVars

\* The loop polls again two seconds after each poll, whatever came of it.
FairLogSpec == LogSpec /\ WF_logVars(Poll)

-----------------------------------------------------------------------------
\* However polls overlap with each other's tails, fail and are repeated, no line is
\* sent twice and lines are sent in the order they were written.
SentOnceInOrder == \A i, j \in 1 .. Len(sent) : i < j => sent[i] < sent[j]

\* Of the lines written by the last poll that succeeded, one is missing from the stream
\* only because more than a poll's worth was written between two such polls, or because
\* it cannot be told from one that was sent: the same replica at the same instant.
MissedOnlyInBurst ==
    ~burst => \A i \in 1 .. polled : \E n \in 1 .. Len(sent) : lines[sent[n]] = lines[i]

\* routers/agents.py: "keep the stream alive across transient errors".  A line that is
\* written is reached by a poll that succeeds, unless the client goes away.
StreamOutlivesErrors ==
    \A n \in 1 .. MaxLines : Len(lines) >= n ~> polled >= n \/ stream = "closed"
=============================================================================
