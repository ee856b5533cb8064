--------------------------- MODULE LoginRateLimit ---------------------------
(***************************************************************************)
(* The limit on login and registration attempts (security/rate_limit.py):  *)
(* a counter per client address in Redis, incremented first, given its     *)
(* lifetime by the attempt that created it, and read again for Retry-After *)
(* by an attempt that is over the limit.  Three calls, each of which can   *)
(* fail or never come, with other attempts in between.                     *)
(*                                                                         *)
(* One client's counter is modelled; clients share nothing.                *)
(***************************************************************************)
EXTENDS Integers

CONSTANTS
    Attempts,       \* attempts that can be in flight together
    MaxAllowed,     \* settings.login_rate_limit_max_attempts
    LifeTime,       \* settings.login_rate_limit_window_seconds
    MaxLogins,      \* bound: attempts
    MaxRedisErrors  \* bound: Redis errors, and deaths of the process

NoExpiry == -1

LoginConstantsOK == MaxAllowed \in Nat \ {0} /\ LifeTime \in Nat \ {0}

VARIABLES
    count,      \* the counter in Redis; 0 when there is none
    ttl,        \* the time it has left to live, or NoExpiry
    attempt,    \* where each attempt is: "idle", "expire" or "ttl"
    passed,     \* history: attempts this counter has let through
    cutOff,     \* history: this counter's EXPIRE failed or was never sent
    logins, redisErrors

loginVars == <<count, ttl, attempt, passed, cutOff, logins, redisErrors>>

LoginInit ==
    /\ count = 0 /\ ttl = NoExpiry /\ attempt = [s \in Attempts |-> "idle"]
    /\ passed = 0 /\ cutOff = FALSE /\ logins = 0 /\ redisErrors = 0

-----------------------------------------------------------------------------
AttemptAt(s, pc) == attempt[s] = pc
AttemptGoto(s, pc) == attempt' = [attempt EXCEPT ![s] = pc]
Arrives(s) == AttemptAt(s, "idle") /\ logins < MaxLogins /\ logins' = logins + 1
RedisFails == redisErrors < MaxRedisErrors /\ redisErrors' = redisErrors + 1

\* Mutant of Incr: the count before the increment is compared.
IncrThenOldCount(s) ==
    /\ Arrives(s)
    /\ count' = count + 1
    /\ AttemptGoto(s, IF count = 0 THEN "expire" ELSE IF count > MaxAllowed THEN "ttl" ELSE "idle")
    /\ passed' = IF count > MaxAllowed THEN passed ELSE passed + 1
    /\ UNCHANGED <<ttl, cutOff, redisErrors>>

\* Mutant of Incr: a counter gets its lifetime when it reaches the limit.
IncrExpiresAtLimit(s) ==
    /\ Arrives(s)
    /\ count' = count + 1
    /\ AttemptGoto(s, IF count' = MaxAllowed THEN "expire" ELSE IF count' > MaxAllowed THEN "ttl" ELSE "idle")
    /\ passed' = IF count' > MaxAllowed THEN passed ELSE passed + 1
    /\ UNCHANGED <<ttl, cutOff, redisErrors>>

\* INCR and what its answer leads to.  An attempt within the limit goes on to the
\* password; the one that created the counter, by way of EXPIRE.
Incr(s) ==
    /\ Arrives(s)
    /\ count' = count + 1
    /\ AttemptGoto(s, IF count' = 1 THEN "expire" ELSE IF count' > MaxAllowed THEN "ttl" ELSE "idle")
    /\ passed' = IF count' > MaxAllowed THEN passed ELSE passed + 1
    /\ UNCHANGED <<ttl, cutOff, redisErrors>>

\* No answer: the attempt is let through, whether or not the INCR was applied.
IncrFails(s, applied) ==
    /\ Arrives(s) /\ RedisFails
    /\ count' = IF applied THEN count + 1 ELSE count
    /\ cutOff' = (cutOff \/ (applied /\ count = 0))
    /\ UNCHANGED <<ttl, attempt, passed>>

RedisExpire(s) ==
    /\ AttemptAt(s, "expire") /\ AttemptGoto(s, "idle")
    /\ ttl' = LifeTime
    /\ UNCHANGED <<count, passed, cutOff, logins, redisErrors>>

\* EXPIRE fails: the attempt goes on without.
ExpireFails(s) ==
    /\ AttemptAt(s, "expire") /\ AttemptGoto(s, "idle") /\ RedisFails
    /\ cutOff' = TRUE
    /\ UNCHANGED <<count, ttl, passed, logins>>

\* TTL and the 429; or, when TTL fails, an attempt over the limit is let through.
Ttl(s) ==
    /\ AttemptAt(s, "ttl") /\ AttemptGoto(s, "idle")
    /\ UNCHANGED <<count, ttl, passed, cutOff, logins, redisErrors>>

TtlFails(s) ==
    /\ AttemptAt(s, "ttl") /\ AttemptGoto(s, "idle") /\ RedisFails
    /\ UNCHANGED <<count, ttl, passed, cutOff, logins>>

\* The process dies with the attempts it serves.
GatewayDies ==
    /\ RedisFails
    /\ attempt' = [s \in Attempts |-> "idle"]
    /\ cutOff' = (cutOff \/ \E s \in Attempts : AttemptAt(s, "expire"))
    /\ UNCHANGED <<count, ttl, passed, logins>>

\* Redis counts the lifetime down and drops the counter at its end.
CounterAges ==
    /\ ttl # NoExpiry
    /\ IF ttl = 1
       THEN count' = 0 /\ ttl' = NoExpiry /\ passed' = 0 /\ cutOff' = FALSE
       ELSE ttl' = ttl - 1 /\ UNCHANGED <<count, passed, cutOff>>
    /\ UNCHANGED <<attempt, logins, redisErrors>>

LoginNext ==
    \/ \E s \in Attempts :
         \/ Incr(s) \/ RedisExpire(s) \/ ExpireFails(s) \/ Ttl(s) \/ TtlFails(s)
         \/ \E applied \in BOOLEAN : IncrFails(s, applied)
    \/ GatewayDies \/ CounterAges

LoginSpec == LoginInit /\ [][LoginNext]_loginVars

\* Redis keeps time, and a call to it returns or fails.
LoginFairSpec ==
    /\ LoginSpec /\ WF_loginVars(CounterAges)
    /\ \A s \in Attempts : WF_loginVars(RedisExpire(s) \/ ExpireFails(s))

-----------------------------------------------------------------------------
\* However attempts overlap, one counter lets no more than the limit through to the
\* password check; only an error of Redis lets others through.
AttemptsWithinLimit == passed <= MaxAllowed

\* A counter will end: it has a lifetime, or the attempt that created it is about to
\* give it one.  The only exception is a counter whose EXPIRE failed or died with the
\* process, and no later attempt makes up for it.
CounterWillEnd ==
    count > 0 => ttl # NoExpiry \/ cutOff \/ \E s \in Attempts : AttemptAt(s, "expire")

\* rate_limit.py:4 promises a limiter that never blocks legitimate users because of a
\* Redis outage: a client that the counter blocks is let in again some day.
BlockedClientRecovers == count >= MaxAllowed ~> count < MaxAllowed
=============================================================================
