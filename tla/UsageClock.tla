----------------------------- MODULE UsageClock -----------------------------
(***************************************************************************)
(* How running time becomes usage: run_scheduler_loop and _tick            *)
(* (scheduler.py), record and period_totals (metering_service.py).         *)
(*                                                                         *)
(* Every tick meters the gap since the tick before it, capped, in the hour *)
(* bucket of the moment it began; the first tick of a process, which knows *)
(* of none before it, meters the configured interval.  A tick awaits the   *)
(* runtime and the database for every agent, so it can take any time, fail *)
(* half way or die with the process.                                       *)
(***************************************************************************)
EXTENDS Integers, Functions

CONSTANTS
    Metered,    \* agents
    Replicas,   \* the most replicas an agent runs
    Interval,   \* settings.scheduler_interval_seconds
    HourLength, \* seconds in an hour
    MaxClock,   \* bound: the clock
    MaxTickFaults \* bound: failing ticks and stops of the process

ClockConstantsOK ==
    /\ Replicas \in Nat \ {0} /\ Interval \in Nat \ {0} /\ HourLength \in Nat \ {0}
    /\ MaxClock \in Nat /\ MaxTickFaults \in Nat

VARIABLES
    clock,      \* seconds; the wall clock and the monotonic clock advance together
    loop,       \* run_scheduler_loop: "down", "ready", "tick" or "sleep"
    known,      \* last_tick is not None
    started,    \* the time the latest tick began: last_tick and now, while they are set
    seconds,    \* what this tick meters
    todo,       \* agents this tick has not reached
    wake,       \* when the sleep ends
    usage,      \* usage_hours.replica_seconds of each agent and hour
    firsts,     \* history: first ticks of a process, by hour
    tickFaults

loopVars == <<loop, known, started, seconds, todo, wake>>
clockVars == <<clock, loopVars, usage, firsts, tickFaults>>

Hours == 0 .. (MaxClock \div HourLength)
_hour_start(t) == t \div HourLength

ClockTypeOK ==
    /\ clock \in 0 .. MaxClock /\ started \in 0 .. clock /\ wake \in Nat
    /\ loop \in {"down", "ready", "tick", "sleep"} /\ known \in BOOLEAN
    /\ seconds \in 0 .. 3 * Interval /\ todo \in SUBSET Metered
    /\ usage \in [Metered -> [Hours -> Nat]] /\ firsts \in [Hours -> Nat] /\ tickFaults \in Nat

ClockInit ==
    /\ clock = 0 /\ started = 0 /\ wake = 0 /\ seconds = 0
    /\ loop = "ready" /\ known = FALSE /\ todo = {}
    /\ usage = [a \in Metered |-> [h \in Hours |-> 0]]
    /\ firsts = [h \in Hours |-> 0] /\ tickFaults = 0

-----------------------------------------------------------------------------
\* Mutant of Elapsed: not capped.
ElapsedUncapped == IF ~known THEN Interval ELSE clock - started

\* The seconds a tick that begins now meters: capped, so that a stalled tick is not
\* metered as a long stretch of usage; the interval when there was none before.
Elapsed ==
    IF ~known THEN Interval
    ELSE IF clock - started < 3 * Interval THEN clock - started ELSE 3 * Interval

\* The loop comes round: last_tick moves before the tick runs.
BeginTick ==
    /\ loop = "ready" \/ (loop = "sleep" /\ clock >= wake)
    /\ seconds' = Elapsed
    /\ firsts' = IF known THEN firsts ELSE [firsts EXCEPT ![_hour_start(clock)] = @ + 1]
    /\ started' = clock /\ known' = TRUE
    /\ \E active \in SUBSET Metered : todo' = active
    /\ loop' = "tick" /\ wake' = 0
    /\ UNCHANGED <<clock, usage, tickFaults>>

\* record and its commit, for an agent that runs with n replicas.
Record(a, n) ==
    /\ loop = "tick" /\ a \in todo
    /\ usage' = [usage EXCEPT ![a][_hour_start(started)] = @ + n * seconds]
    /\ todo' = todo \ {a}
    /\ UNCHANGED <<clock, loop, known, started, seconds, wake, firsts, tickFaults>>

\* The agent's health check failed, or it has stopped or crashed.
PassOver(a) ==
    /\ loop = "tick" /\ a \in todo
    /\ todo' = todo \ {a}
    /\ UNCHANGED <<clock, loop, known, started, seconds, wake, usage, firsts, tickFaults>>

Sleep == loop' = "sleep" /\ wake' = clock + Interval /\ todo' = {} /\ seconds' = 0

EndTick ==
    /\ loop = "tick" /\ todo = {}
    /\ Sleep
    /\ UNCHANGED <<clock, known, started, usage, firsts, tickFaults>>

\* Mutant of TickFails: the failed tick's stretch is metered again.
TickFailsKeepsGap ==
    /\ loop = "tick" /\ tickFaults < MaxTickFaults /\ tickFaults' = tickFaults + 1
    /\ started' = started - seconds
    /\ Sleep
    /\ UNCHANGED <<clock, known, usage, firsts>>

\* A database error, while metering an agent or once it is metered (the headroom
\* query), leaves the agents that remain unmetered; the loop goes on.
TickFails ==
    /\ loop = "tick" /\ tickFaults < MaxTickFaults /\ tickFaults' = tickFaults + 1
    /\ Sleep
    /\ UNCHANGED <<clock, known, started, usage, firsts>>

\* The process stops, gracefully or not, and starts again.
StopLoop ==
    /\ loop # "down" /\ tickFaults < MaxTickFaults /\ tickFaults' = tickFaults + 1
    /\ loop' = "down" /\ known' = FALSE /\ todo' = {} /\ seconds' = 0 /\ wake' = 0
    /\ UNCHANGED <<clock, started, usage, firsts>>

StartLoop ==
    /\ loop = "down" /\ loop' = "ready"
    /\ UNCHANGED <<clock, known, started, seconds, todo, wake, usage, firsts, tickFaults>>

TimePasses ==
    /\ clock < MaxClock /\ clock' = clock + 1
    /\ UNCHANGED <<loopVars, usage, firsts, tickFaults>>

ClockNext ==
    \/ BeginTick \/ EndTick \/ TickFails \/ StopLoop \/ StartLoop \/ TimePasses
    \/ \E a \in Metered : PassOver(a) \/ \E n \in 1 .. Replicas : Record(a, n)

ClockSpec == ClockInit /\ [][ClockNext]_clockVars

-----------------------------------------------------------------------------
\* period_totals: what an account is charged for agent a from hour h on.
period_totals(a, h) == SumFunctionOnSet(usage[a], h .. (MaxClock \div HourLength))

\* No hour bucket holds more than the hour itself, what was left over from before it
\* (at most the cap) and one interval for every process that began in it: a stalled,
\* failed or repeated tick never books the same stretch twice.
HourWithinTime ==
    \A a \in Metered, h \in Hours :
        usage[a][h] <= Replicas * (HourLength + 3 * Interval + Interval * firsts[h])

\* The same of a billing period that begins with hour h, however many ticks failed
\* half way: the time since it began, a carry-over that cannot exceed the cap or the
\* time before it, and an interval for every process that began in it.
PeriodWithinTime ==
    \A a \in Metered, h \in Hours :
        clock >= h * HourLength =>
            period_totals(a, h) <=
                Replicas * (clock - h * HourLength
                            + (IF 3 * Interval < h * HourLength THEN 3 * Interval ELSE h * HourLength)
                            + Interval * SumFunctionOnSet(firsts, h .. (MaxClock \div HourLength)))
=============================================================================
