-------------------------- MODULE UsageClock_proofs --------------------------
(***************************************************************************)
(* Proof that no hour bucket, and no billing period, holds more than its   *)
(* time, for any agents, replicas, interval, length of an hour, and any    *)
(* number of failing ticks and restarts.                                   *)
(***************************************************************************)
EXTENDS UsageClock, SumTheorems, TLAPS

-----------------------------------------------------------------------------
(* Arithmetic. *)

\* What t seconds of the hour, the cap and f first ticks allow.
Allowed(t, f) == Replicas * (t + 3 * Interval + Interval * f)

LEMMA TimesMonotone ==
  ASSUME NEW r \in Nat, NEW x \in Nat, NEW y \in Nat, x <= y
  PROVE  r * x <= r * y /\ r * x \in Nat /\ r * y \in Nat
  OBVIOUS

LEMMA AllowedGrows ==
  ASSUME ClockConstantsOK, NEW t \in Nat, NEW u \in Nat, NEW f \in Nat, t <= u
  PROVE  Allowed(t, f) <= Allowed(u, f) /\ Allowed(t, f) \in Nat /\ Allowed(u, f) \in Nat
<1>1. Interval * f \in Nat /\ Interval \in Nat /\ Replicas \in Nat
  BY DEF ClockConstantsOK
<1> DEFINE x == t + 3 * Interval + Interval * f
           y == u + 3 * Interval + Interval * f
<1>2. x \in Nat /\ y \in Nat /\ x <= y
  BY <1>1
<1> HIDE DEF x, y
<1>3. Replicas * x <= Replicas * y /\ Replicas * x \in Nat /\ Replicas * y \in Nat
  BY Zenon, <1>1, <1>2, TimesMonotone
<1>4. QED
  BY Zenon, <1>3 DEF Allowed, x, y

LEMMA AllowedIsNat ==
  ASSUME ClockConstantsOK, NEW t \in Nat, NEW f \in Nat
  PROVE  Allowed(t, f) \in Nat
<1>1. t <= t
  OBVIOUS
<1>2. QED
  BY Zenon, <1>1, AllowedGrows

\* Time that passes, or a first tick, allows as much more.
LEMMA AllowedMore ==
  ASSUME ClockConstantsOK, NEW t \in Nat, NEW d \in Nat, NEW f \in Nat
  PROVE  /\ Allowed(t + d, f) = Allowed(t, f) + Replicas * d
         /\ Allowed(t, f + 1) = Allowed(t, f) + Replicas * Interval
         /\ Replicas * (3 * Interval) <= Allowed(t, f)
<1>1. Interval * f \in Nat /\ Interval \in Nat /\ Replicas \in Nat
  BY DEF ClockConstantsOK
<1>2. Interval * (f + 1) = Interval * f + Interval
  BY <1>1
<1> DEFINE g == Interval * f
           x == t + 3 * Interval + g
<1>3. x \in Nat /\ g \in Nat
  BY <1>1
<1>4. Replicas * (x + d) = Replicas * x + Replicas * d
  BY <1>1, <1>3
<1>5. Replicas * (x + Interval) = Replicas * x + Replicas * Interval
  BY <1>1, <1>3
<1>6. x + d = (t + d) + 3 * Interval + g /\ x + Interval = t + 3 * Interval + (g + Interval)
  BY <1>1, <1>3
<1>7. 3 * Interval <= x /\ 3 * Interval \in Nat
  BY <1>1, <1>3
<1>8. Replicas * (3 * Interval) <= Replicas * x
  BY Zenon, <1>1, <1>3, <1>7, TimesMonotone
<1>9. QED
  BY Zenon, <1>2, <1>4, <1>5, <1>6, <1>8 DEF Allowed

\* The hour of a moment, and how far into it the moment is.
LEMMA HourOf ==
  ASSUME ClockConstantsOK, NEW t \in Nat
  PROVE  /\ _hour_start(t) \in Nat
         /\ _hour_start(t) * HourLength <= t
         /\ t - _hour_start(t) * HourLength \in 0 .. HourLength
<1>1. HourLength \in Nat \ {0}
  BY Zenon DEF ClockConstantsOK
<1>2. ASSUME NEW n \in Nat, NEW d \in Nat \ {0}
      PROVE  n \div d \in Nat /\ (n \div d) * d <= n /\ n < (n \div d) * d + d
  OBVIOUS
<1>3. QED
  BY <1>1, <1>2 DEF _hour_start

LEMMA HourGrows ==
  ASSUME ClockConstantsOK, NEW t \in Nat, NEW u \in Nat, t <= u
  PROVE  _hour_start(t) <= _hour_start(u)
<1>1. HourLength \in Nat \ {0}
  BY Zenon DEF ClockConstantsOK
<1>2. ASSUME NEW d \in Nat \ {0} PROVE t \div d <= u \div d
  OBVIOUS
<1>3. QED
  BY Zenon, <1>1, <1>2 DEF _hour_start

-----------------------------------------------------------------------------
(* The inductive invariant. *)

\* What this tick may still book for agent a.
Due(a) == IF a \in todo THEN Replicas * seconds ELSE 0

\* An hour that is over is within its time.  The hour of the latest tick is within
\* the time until that tick, with all that the tick may still book.  No later hour
\* has anything.
BookedInv ==
    \A a \in Metered, h \in Hours :
        /\ h < _hour_start(started) => usage[a][h] <= Allowed(HourLength, firsts[h])
        /\ h = _hour_start(started) =>
             usage[a][h] + Due(a) <= Allowed(started - h * HourLength, firsts[h])
        /\ h > _hour_start(started) => usage[a][h] = 0

ClockIInv == ClockTypeOK /\ BookedInv

LEMMA ClockInitIInv == ASSUME ClockConstantsOK, ClockInit PROVE ClockIInv
<1>1. Interval \in Nat /\ HourLength \in Nat \ {0} /\ MaxClock \in Nat
  BY Zenon DEF ClockConstantsOK
<1>2. ClockTypeOK
  <2>1. 0 \in 0 .. MaxClock /\ 0 \in 0 .. 3 * Interval /\ 0 \in 0 .. 0
    BY <1>1
  <2>2. QED
    BY Zenon, <2>1 DEF ClockTypeOK, ClockInit
<1>3. _hour_start(0) \in Nat /\ _hour_start(0) * HourLength <= 0
  BY Zenon, HourOf
<1>4. ASSUME NEW a \in Metered, NEW h \in Hours
      PROVE  /\ usage[a][h] = 0 /\ Due(a) = 0 /\ firsts[h] = 0 /\ started = 0
             /\ h \in Nat
  BY <1>1 DEF ClockInit, Due, Hours
<1>5. 0 <= Allowed(HourLength, 0) /\ 0 <= Allowed(0, 0)
  BY <1>1, AllowedGrows
<1>6. _hour_start(0) * HourLength = 0
  BY <1>1, <1>3
<1>7. QED
  BY <1>2, <1>3, <1>4, <1>5, <1>6 DEF ClockIInv, BookedInv

\* The types and bounds the steps below use.
LEMMA ClockTypes ==
  ASSUME ClockConstantsOK, ClockTypeOK
  PROVE  /\ clock \in Nat /\ started \in Nat /\ started <= clock /\ clock <= MaxClock
         /\ seconds \in Nat /\ seconds <= 3 * Interval
         /\ Interval \in Nat \ {0} /\ HourLength \in Nat \ {0} /\ Replicas \in Nat \ {0}
         /\ \A h \in Hours : h \in Nat /\ firsts[h] \in Nat
         /\ \A a \in Metered, h \in Hours : usage[a][h] \in Nat
         /\ \A a \in Metered : Due(a) \in Nat
<1>1. Interval \in Nat \ {0} /\ HourLength \in Nat \ {0} /\ Replicas \in Nat \ {0} /\ MaxClock \in Nat
  BY Zenon DEF ClockConstantsOK
<1>2. seconds \in Nat /\ seconds <= 3 * Interval /\ clock \in Nat /\ started \in Nat
      /\ started <= clock /\ clock <= MaxClock
  BY <1>1 DEF ClockTypeOK
<1>3. Replicas * seconds \in Nat
  BY <1>1, <1>2
<1>4. QED
  BY <1>1, <1>2, <1>3 DEF ClockTypeOK, Hours, Due

-----------------------------------------------------------------------------
(* The steps. *)

\* last_tick moves and the gap is capped.
LEMMA BeginTickStep == ASSUME ClockConstantsOK, ClockIInv, BeginTick PROVE ClockIInv'
<1> DEFINE hs == _hour_start(started)
           hc == _hour_start(clock)
<1>0. ClockTypeOK /\ BookedInv
  BY Zenon DEF ClockIInv
<1>1. /\ started' = clock /\ known' = TRUE /\ seconds' = Elapsed /\ todo' \subseteq Metered
      /\ loop' = "tick" /\ wake' = 0 /\ UNCHANGED <<clock, usage, tickFaults>>
      /\ firsts' = IF known THEN firsts ELSE [firsts EXCEPT ![hc] = @ + 1]
  BY Zenon DEF BeginTick
<1>2. /\ clock \in Nat /\ started \in Nat /\ started <= clock /\ clock <= MaxClock
      /\ Interval \in Nat \ {0} /\ HourLength \in Nat \ {0} /\ Replicas \in Nat \ {0}
      /\ \A h \in Hours : h \in Nat /\ firsts[h] \in Nat
      /\ \A a \in Metered, h \in Hours : usage[a][h] \in Nat
      /\ \A a \in Metered : Due(a) \in Nat
  BY Zenon, <1>0, ClockTypes
<1>3. hs \in Nat /\ hc \in Nat /\ hs <= hc /\ started - hs * HourLength \in 0 .. HourLength
      /\ clock - hc * HourLength \in Nat
  BY <1>2, HourOf, HourGrows
<1>4. seconds' \in Nat /\ seconds' <= 3 * Interval
      /\ (known => seconds' <= clock - started) /\ (~known => seconds' = Interval)
  BY <1>1, <1>2 DEF Elapsed
<1> HIDE DEF hs, hc
<1>5. firsts' \in [Hours -> Nat] /\ \A h \in Hours :
        firsts'[h] = IF ~known /\ h = hc THEN firsts[h] + 1 ELSE firsts[h]
  <2>1. firsts \in [Hours -> Nat] /\ known \in BOOLEAN
    BY Zenon, <1>0 DEF ClockTypeOK
  <2>2. CASE known
    BY Zenon, <1>1, <2>1, <2>2
  <2>3. CASE ~known
    <3>1. firsts' = [firsts EXCEPT ![hc] = @ + 1]
      BY Zenon, <1>1, <2>3
    <3>2. QED
      <4>1. firsts' = [h \in Hours |-> IF h = hc THEN firsts[h] + 1 ELSE firsts[h]]
        BY Zenon, <2>1, <3>1
      <4>2. \A h \in Hours : firsts[h] \in Nat /\ firsts[h] + 1 \in Nat
        BY <2>1
      <4>3. QED
        BY Zenon, <2>3, <4>1, <4>2
  <2>4. QED
    BY Zenon, <2>2, <2>3
<1>6. ClockTypeOK'
  BY <1>0, <1>1, <1>2, <1>4, <1>5 DEF ClockTypeOK
<1>7. ASSUME NEW a \in Metered
      PROVE  Due(a)' \in Nat /\ Due(a)' <= Replicas * seconds'
             /\ Replicas * seconds' <= Replicas * (3 * Interval)
             /\ (known => Replicas * seconds' <= Replicas * (clock - started))
  <2>1. 3 * Interval \in Nat /\ clock - started \in Nat /\ Replicas \in Nat
    BY <1>2
  <2>2. Replicas * seconds' <= Replicas * (3 * Interval) /\ Replicas * seconds' \in Nat
    BY Zenon, <1>4, <2>1, TimesMonotone
  <2>3. known => Replicas * seconds' <= Replicas * (clock - started)
    BY Zenon, <1>4, <2>1, TimesMonotone
  <2>4. QED
    BY <2>2, <2>3 DEF Due
<1>8. ASSUME NEW a \in Metered, NEW h \in Hours, h < hc
      PROVE  usage'[a][h] <= Allowed(HourLength, firsts'[h])
  <2>0. h \in Nat /\ firsts[h] \in Nat /\ usage[a][h] \in Nat /\ firsts'[h] = firsts[h]
        /\ usage' = usage /\ Due(a) \in Nat
    BY <1>1, <1>2, <1>3, <1>5, <1>8
  <2>1. CASE h < hs
    BY Zenon, <1>0, <2>0, <2>1 DEF BookedInv, hs
  <2>2. CASE h = hs
    <3>1. usage[a][h] + Due(a) <= Allowed(started - h * HourLength, firsts[h])
      BY Zenon, <1>0, <2>2 DEF BookedInv, hs
    <3>2. started - h * HourLength \in Nat /\ started - h * HourLength <= HourLength
      BY <1>2, <1>3, <2>2
    <3>3. /\ Allowed(started - h * HourLength, firsts[h]) <= Allowed(HourLength, firsts[h])
          /\ Allowed(started - h * HourLength, firsts[h]) \in Nat
          /\ Allowed(HourLength, firsts[h]) \in Nat
      BY Zenon, <1>2, <2>0, <3>2, AllowedGrows
    <3>4. QED
      BY <2>0, <3>1, <3>3
  <2>3. CASE h > hs
    <3>1. usage[a][h] = 0
      BY Zenon, <1>0, <2>3 DEF BookedInv, hs
    <3>2. Allowed(HourLength, firsts[h]) \in Nat
      BY Zenon, <1>2, <2>0, AllowedIsNat
    <3>3. QED
      BY <2>0, <3>1, <3>2
  <2>4. QED
    BY <1>3, <2>0, <2>1, <2>2, <2>3
<1>9. ASSUME NEW a \in Metered, NEW h \in Hours, h = hc
      PROVE  usage'[a][h] + Due(a)' <= Allowed(clock - h * HourLength, firsts'[h])
  <2> DEFINE t == clock - h * HourLength
             f == firsts[h]
             u == usage[a][h]
  <2>0. /\ t \in Nat /\ f \in Nat /\ u \in Nat /\ usage'[a][h] = u /\ Due(a) \in Nat
        /\ firsts'[h] = IF known THEN f ELSE f + 1
    BY Zenon, <1>1, <1>2, <1>3, <1>5, <1>9
  <2>1. Due(a)' \in Nat /\ Due(a)' <= Replicas * seconds'
        /\ Replicas * seconds' <= Replicas * (3 * Interval)
        /\ (known => Replicas * seconds' <= Replicas * (clock - started))
    BY Zenon, <1>7
  <2> DEFINE rs == Replicas * seconds'
             ri == Replicas * Interval
  <2>2. rs \in Nat /\ ri \in Nat /\ (~known => rs = ri)
    <3>1. Replicas \in Nat /\ Interval \in Nat /\ seconds' \in Nat
      BY Zenon, <1>2, <1>4
    <3>2. seconds' <= seconds' /\ Interval <= Interval
      BY <3>1
    <3>3. rs \in Nat /\ ri \in Nat
      BY Zenon, <3>1, <3>2, TimesMonotone
    <3>4. QED
      BY Zenon, <1>4, <3>3
  <2>3. CASE hs < hc
    <3>1. u = 0
      BY Zenon, <1>0, <1>9, <2>3 DEF BookedInv, hs
    <3>2. firsts'[h] \in Nat
      BY <2>0
    <3> HIDE DEF t, f, u
    <3>3. Replicas * (3 * Interval) <= Allowed(t, firsts'[h]) /\ Allowed(t, firsts'[h]) \in Nat
      <4>1. Allowed(t, firsts'[h]) \in Nat
        BY Zenon, <2>0, <3>2, AllowedIsNat
      <4>2. Replicas * (3 * Interval) <= Allowed(t, firsts'[h])
        BY Zenon, <2>0, <3>2, AllowedMore
      <4>3. QED
        BY Zenon, <4>1, <4>2
    <3>4. Replicas * (3 * Interval) \in Nat
      BY <1>2
    <3>5. QED
      <4>1. Due(a)' <= rs /\ rs <= Replicas * (3 * Interval)
        BY Zenon, <2>1
      <4> HIDE DEF rs
      <4>2. u + Due(a)' <= Allowed(t, firsts'[h])
        BY <2>1, <2>2, <3>1, <3>3, <3>4, <4>1
      <4>3. QED
        BY Zenon, <2>0, <4>2 DEF t
  <2>4. CASE hs = hc
    <3> DEFINE s == started - h * HourLength
               d == clock - started
    <3>1. s \in Nat /\ d \in Nat /\ t = s + d
      BY <1>2, <1>3, <1>9, <2>4
    <3>2. u + Due(a) <= Allowed(s, f)
      BY Zenon, <1>0, <1>9, <2>4 DEF BookedInv, hs
    <3> HIDE DEF t, s, d, f, u
    <3>3. Allowed(s, f) \in Nat /\ Allowed(t, f) \in Nat
      BY Zenon, <2>0, <3>1, AllowedIsNat
    <3>4. Allowed(t, f) = Allowed(s, f) + Replicas * d /\ Replicas * d \in Nat
      BY <1>2, <2>0, <3>1, AllowedMore
    <3>5. Allowed(t, f + 1) = Allowed(t, f) + ri
      BY Zenon, <2>0, AllowedMore
    <3>6. known => rs <= Replicas * d
      BY Zenon, <2>1 DEF d
    <3> HIDE DEF rs, ri
    <3>7. Due(a)' <= rs
      BY Zenon, <2>1 DEF rs
    <3>8. CASE known
      <4>1. firsts'[h] = f /\ u + Due(a)' <= Allowed(t, f)
        BY <2>0, <2>1, <2>2, <3>2, <3>3, <3>4, <3>6, <3>7, <3>8
      <4>2. QED
        BY Zenon, <2>0, <4>1 DEF t
    <3>9. CASE ~known
      <4>1. firsts'[h] = f + 1 /\ u + Due(a)' <= Allowed(t, f + 1)
        BY <2>0, <2>1, <2>2, <3>2, <3>3, <3>4, <3>5, <3>7, <3>9
      <4>2. QED
        BY Zenon, <2>0, <4>1 DEF t
    <3>10. QED
      BY Zenon, <3>8, <3>9
  <2>5. QED
    BY <1>3, <2>3, <2>4
<1>10. ASSUME NEW a \in Metered, NEW h \in Hours, h > hc
       PROVE  usage'[a][h] = 0
  <2>1. h > hs
    BY <1>2, <1>3, <1>10
  <2>2. QED
    BY Zenon, <1>0, <1>1, <2>1 DEF BookedInv, hs
<1>11. hc = _hour_start(started)'
  BY Zenon, <1>1 DEF hc, _hour_start
<1>12. BookedInv'
  BY Zenon, <1>1, <1>8, <1>9, <1>10, <1>11 DEF BookedInv, Allowed, Hours
<1>13. QED
  BY Zenon, <1>6, <1>12 DEF ClockIInv

\* The tick books an agent, once, or passes it over.
LEMMA AgentStep ==
  ASSUME ClockConstantsOK, ClockIInv, NEW a \in Metered, NEW n \in 0 .. Replicas, a \in todo,
         usage' = [usage EXCEPT ![a][_hour_start(started)] = @ + n * seconds],
         todo' = todo \ {a},
         UNCHANGED <<clock, loop, known, started, seconds, wake, firsts, tickFaults>>
  PROVE  ClockIInv'
<1> DEFINE hs == _hour_start(started)
           ns == n * seconds
           rs == Replicas * seconds
<1>0. ClockTypeOK /\ BookedInv
  BY Zenon DEF ClockIInv
<1>1. /\ seconds \in Nat /\ Replicas \in Nat /\ n \in Nat /\ n <= Replicas
      /\ \A b \in Metered, h \in Hours : usage[b][h] \in Nat
      /\ \A b \in Metered : Due(b) \in Nat
      /\ started \in Nat /\ \A h \in Hours : h \in Nat
  BY <1>0, ClockTypes
<1>2. ns \in Nat /\ rs \in Nat /\ ns <= rs
  <2>1. seconds * n <= seconds * Replicas /\ seconds * n \in Nat /\ seconds * Replicas \in Nat
    BY Zenon, <1>1, TimesMonotone
  <2>2. ns = seconds * n /\ rs = seconds * Replicas
    BY <1>1
  <2>3. QED
    BY Zenon, <2>1, <2>2
<1>3. hs \in Nat /\ hs' = hs
  BY Zenon, <1>1, HourOf DEF _hour_start
<1>4. Due(a) = rs /\ Due(a)' = 0 /\ \A b \in Metered : b # a => Due(b)' = Due(b)
  BY Zenon DEF Due
<1> HIDE DEF hs, ns, rs
<1>5. usage' = [usage EXCEPT ![a][hs] = @ + ns]
  BY Zenon DEF hs, ns
<1>6. \A b \in Metered, h \in Hours :
        usage'[b][h] = IF b = a /\ h = hs THEN usage[b][h] + ns ELSE usage[b][h]
  BY <1>0, <1>5 DEF ClockTypeOK
<1>7. usage' \in [Metered -> [Hours -> Nat]]
  <2>1. usage \in [Metered -> [Hours -> Nat]]
    BY Zenon, <1>0 DEF ClockTypeOK
  <2>2. usage' = [usage EXCEPT ![a] = [usage[a] EXCEPT ![hs] = usage[a][hs] + ns]]
    BY Zenon, <1>5, <2>1
  <2>3. \A h \in Hours : usage[a][h] + ns \in Nat
    BY <1>1, <1>2
  <2>4. [usage[a] EXCEPT ![hs] = usage[a][hs] + ns] \in [Hours -> Nat]
    BY Zenon, <2>1, <2>3
  <2>5. QED
    BY Zenon, <2>1, <2>2, <2>4
<1>8. ClockTypeOK'
  BY Zenon, <1>0, <1>7 DEF ClockTypeOK
<1>9. ASSUME NEW b \in Metered, NEW h \in Hours
      PROVE  /\ h < hs => usage'[b][h] <= Allowed(HourLength, firsts[h])
             /\ h = hs => usage'[b][h] + Due(b)' <= Allowed(started - h * HourLength, firsts[h])
             /\ h > hs => usage'[b][h] = 0
  <2>1. /\ h < hs => usage[b][h] <= Allowed(HourLength, firsts[h])
        /\ h = hs => usage[b][h] + Due(b) <= Allowed(started - h * HourLength, firsts[h])
        /\ h > hs => usage[b][h] = 0
    BY Zenon, <1>0 DEF BookedInv, hs
  <2>2. CASE b = a /\ h = hs
    <3>1. usage'[b][h] + Due(b)' <= usage[b][h] + Due(b)
      BY <1>1, <1>2, <1>4, <1>6, <2>2
    <3>2. firsts[h] \in Nat /\ started - h * HourLength \in Nat
      BY <1>0, <1>1, <2>2, HourOf, ClockTypes DEF hs
    <3>3. Allowed(started - h * HourLength, firsts[h]) \in Nat
      BY Zenon, <3>2, AllowedIsNat
    <3>4. usage[b][h] \in Nat /\ Due(b) \in Nat /\ usage'[b][h] + Due(b)' \in Nat
      BY <1>1, <1>2, <1>4, <1>6, <2>2
    <3>5. usage'[b][h] + Due(b)' <= Allowed(started - h * HourLength, firsts[h])
      BY <2>1, <2>2, <3>1, <3>3, <3>4
    <3>6. QED
      BY <1>1, <1>3, <2>2, <3>5
  <2>3. CASE b = a /\ h # hs
    BY <1>6, <2>1, <2>3
  <2>4. CASE b # a
    BY <1>4, <1>6, <2>1, <2>4
  <2>5. QED
    BY Zenon, <2>2, <2>3, <2>4
<1>10. BookedInv'
  BY Zenon, <1>3, <1>9 DEF BookedInv, hs, Allowed, Hours
<1>11. QED
  BY Zenon, <1>8, <1>10 DEF ClockIInv

\* What gives up the rest of a tick, or only lets time pass, books nothing.
LEMMA LetGoStep ==
  ASSUME ClockConstantsOK, ClockIInv, UNCHANGED <<started, usage, firsts>>, ClockTypeOK',
         todo' = {} \/ UNCHANGED <<todo, seconds>>
  PROVE  ClockIInv'
<1>0. ClockTypeOK /\ BookedInv
  BY Zenon DEF ClockIInv
<1>1. \A a \in Metered : Due(a) \in Nat /\ Due(a)' \in Nat /\ Due(a)' <= Due(a)
  <2>1. CASE todo' = {}
    BY <1>0, <2>1, ClockTypes DEF Due
  <2>2. CASE UNCHANGED <<todo, seconds>>
    <3>1. \A a \in Metered : Due(a)' = Due(a)
      BY Zenon, <2>2 DEF Due
    <3>2. QED
      BY <1>0, <3>1, ClockTypes
  <2>3. QED
    BY Zenon, <2>1, <2>2
<1>2. _hour_start(started)' = _hour_start(started)
  BY Zenon DEF _hour_start
<1>3. ASSUME NEW a \in Metered, NEW h \in Hours
      PROVE  /\ h < _hour_start(started) => usage[a][h] <= Allowed(HourLength, firsts[h])
             /\ h = _hour_start(started) =>
                  usage[a][h] + Due(a)' <= Allowed(started - h * HourLength, firsts[h])
             /\ h > _hour_start(started) => usage[a][h] = 0
  <2>1. /\ h < _hour_start(started) => usage[a][h] <= Allowed(HourLength, firsts[h])
        /\ h = _hour_start(started) =>
             usage[a][h] + Due(a) <= Allowed(started - h * HourLength, firsts[h])
        /\ h > _hour_start(started) => usage[a][h] = 0
    BY Zenon, <1>0 DEF BookedInv
  <2>2. ASSUME h = _hour_start(started)
        PROVE  usage[a][h] + Due(a)' <= Allowed(started - h * HourLength, firsts[h])
    <3>1. firsts[h] \in Nat /\ started - h * HourLength \in Nat /\ usage[a][h] \in Nat
      BY <1>0, <2>2, HourOf, ClockTypes
    <3>2. Allowed(started - h * HourLength, firsts[h]) \in Nat
      BY Zenon, <3>1, AllowedIsNat
    <3>3. QED
      BY <1>1, <2>1, <2>2, <3>1, <3>2
  <2>3. QED
    BY Zenon, <2>1, <2>2
<1>4. BookedInv'
  BY Zenon, <1>2, <1>3 DEF BookedInv, Allowed, Hours
<1>5. QED
  BY Zenon, <1>4 DEF ClockIInv

LEMMA ClockNextIInv == ASSUME ClockConstantsOK, ClockIInv, [ClockNext]_clockVars PROVE ClockIInv'
<1>0. /\ ClockTypeOK /\ clock \in Nat /\ started \in Nat /\ started <= clock /\ clock <= MaxClock
      /\ Interval \in Nat \ {0} /\ MaxClock \in Nat
  BY Zenon, ClockTypes DEF ClockIInv, ClockConstantsOK
<1>1. CASE BeginTick
  BY Zenon, <1>1, BeginTickStep
<1>2. ASSUME NEW a \in Metered, NEW n \in 1 .. Replicas, Record(a, n) PROVE ClockIInv'
  <2>1. n \in 0 .. Replicas
    BY DEF ClockConstantsOK
  <2>2. QED
    BY Zenon, <1>2, <2>1, AgentStep DEF Record
<1>3. ASSUME NEW a \in Metered, PassOver(a) PROVE ClockIInv'
  <2>1. 0 \in 0 .. Replicas /\ seconds \in Nat /\ 0 * seconds = 0
    BY <1>0, ClockTypes DEF ClockConstantsOK
  <2>2. usage' = [usage EXCEPT ![a][_hour_start(started)] = @ + 0 * seconds]
    <3> DEFINE hs == _hour_start(started)
    <3> HIDE DEF hs
    <3>1. usage \in [Metered -> [Hours -> Nat]] /\ usage' = usage
      BY Zenon, <1>0, <1>3 DEF ClockTypeOK, PassOver
    <3>2. [usage[a] EXCEPT ![hs] = usage[a][hs] + 0] = usage[a]
      BY <3>1
    <3>3. [usage EXCEPT ![a][hs] = @ + 0] = usage
      BY Zenon, <3>1, <3>2
    <3>4. QED
      BY Zenon, <2>1, <3>1, <3>3 DEF hs
  <2>3. QED
    BY Zenon, <1>3, <2>1, <2>2, AgentStep DEF PassOver
<1>4. CASE EndTick \/ TickFails
  <2>1. /\ UNCHANGED <<clock, known, started, usage, firsts>> /\ todo' = {} /\ seconds' = 0
        /\ loop' = "sleep" /\ wake' = clock + Interval /\ tickFaults' \in Nat
    BY <1>0, <1>4 DEF EndTick, TickFails, Sleep, ClockTypeOK
  <2>2. ClockTypeOK'
    BY <1>0, <2>1 DEF ClockTypeOK
  <2>3. QED
    BY Zenon, <2>1, <2>2, LetGoStep
<1>5. CASE StopLoop
  <2>1. /\ UNCHANGED <<clock, started, usage, firsts>> /\ todo' = {} /\ seconds' = 0
        /\ loop' = "down" /\ wake' = 0 /\ tickFaults' = tickFaults + 1
    BY Zenon, <1>5 DEF StopLoop
  <2> known' \in BOOLEAN /\ tickFaults' \in Nat
    <3>1. known' = FALSE
      BY Zenon, <1>5 DEF StopLoop
    <3>2. known' \in BOOLEAN
      BY Zenon, <3>1
    <3>3. tickFaults' \in Nat
      BY <1>0, <2>1 DEF ClockTypeOK
    <3>4. QED
      BY Zenon, <3>2, <3>3
  <2>2. ClockTypeOK'
    <3>1. seconds' \in 0 .. 3 * Interval /\ wake' \in Nat /\ todo' \in SUBSET Metered
      BY <1>0, <2>1
    <3>2. QED
      BY Zenon, <1>0, <2>1, <3>1 DEF ClockTypeOK
  <2>3. QED
    BY Zenon, <2>1, <2>2, LetGoStep
<1>6. CASE StartLoop \/ TimePasses \/ UNCHANGED clockVars
  <2>1. UNCHANGED <<known, started, seconds, todo, wake, usage, firsts, tickFaults>>
    BY Zenon, <1>6 DEF StartLoop, TimePasses, clockVars, loopVars
  <2>2. loop' \in {"down", "ready", "tick", "sleep"}
    BY Zenon, <1>0, <1>6 DEF StartLoop, TimePasses, clockVars, loopVars, ClockTypeOK
  <2>3. clock' = clock \/ (clock < MaxClock /\ clock' = clock + 1)
    BY Zenon, <1>6 DEF StartLoop, TimePasses, clockVars
  <2>4. clock' \in 0 .. MaxClock /\ started' \in 0 .. clock'
    BY <1>0, <2>1, <2>3
  <2>5. ClockTypeOK'
    BY Zenon, <1>0, <2>1, <2>2, <2>4 DEF ClockTypeOK
  <2>6. QED
    BY Zenon, <2>1, <2>5, LetGoStep
<1>7. QED
  BY Zenon, <1>1, <1>2, <1>3, <1>4, <1>5, <1>6 DEF ClockNext

-----------------------------------------------------------------------------
\* scheduler.py and metering_service.py: whatever ticks stall, fail half way or die
\* with the process, no hour bucket of an agent holds more replica-seconds than the
\* hour, the capped carry-over and the first ticks of that hour allow.
THEOREM HourWithinTimeHolds ==
  ASSUME ClockConstantsOK PROVE ClockSpec => []HourWithinTime
<1>1. ASSUME ClockIInv PROVE HourWithinTime
  <2>0. ClockTypeOK /\ BookedInv
    BY Zenon, <1>1 DEF ClockIInv
  <2>1. SUFFICES ASSUME NEW a \in Metered, NEW h \in Hours
                 PROVE  usage[a][h] <= Allowed(HourLength, firsts[h])
    BY Zenon DEF HourWithinTime, Allowed
  <2> DEFINE hs == _hour_start(started)
  <2>2. /\ h \in Nat /\ firsts[h] \in Nat /\ usage[a][h] \in Nat /\ Due(a) \in Nat
        /\ started \in Nat /\ HourLength \in Nat
    BY Zenon, <2>0, ClockTypes
  <2>3. hs \in Nat /\ started - hs * HourLength \in Nat /\ started - hs * HourLength <= HourLength
    BY <2>2, HourOf
  <2>4. Allowed(HourLength, firsts[h]) \in Nat
    BY Zenon, <2>2, AllowedIsNat
  <2>5. CASE h < hs
    BY Zenon, <2>0, <2>5 DEF BookedInv
  <2>6. CASE h = hs
    <3>1. usage[a][h] + Due(a) <= Allowed(started - hs * HourLength, firsts[h])
      BY Zenon, <2>0, <2>6 DEF BookedInv
    <3>2. /\ Allowed(started - hs * HourLength, firsts[h]) <= Allowed(HourLength, firsts[h])
          /\ Allowed(started - hs * HourLength, firsts[h]) \in Nat
      BY Zenon, <2>2, <2>3, AllowedGrows
    <3>3. QED
      BY <2>2, <2>4, <3>1, <3>2
  <2>7. CASE h > hs
    BY <2>0, <2>4, <2>7 DEF BookedInv
  <2>8. QED
    BY <2>2, <2>3, <2>5, <2>6, <2>7
<1>2. ClockInit => ClockIInv
  BY Zenon, ClockInitIInv
<1>3. ClockIInv /\ [ClockNext]_clockVars => ClockIInv'
  BY Zenon, ClockNextIInv
<1>4. QED
  BY <1>1, <1>2, <1>3, PTL DEF ClockSpec

-----------------------------------------------------------------------------
(* A billing period: the hours from h on. *)

Later(h) == h .. (MaxClock \div HourLength)

\* What the hours from h on hold of f, the usage of an agent or the first ticks.
Total(f, h) == SumFunctionOnSet(f, Later(h))

\* What a tick that begins in the period may meter of the time before it.
Carry(h) == IF 3 * Interval < h * HourLength THEN 3 * Interval ELSE h * HourLength

\* What a carry-over c, t seconds and f first ticks allow.
Allowance(c, t, f) == Replicas * (t + c + Interval * f)

\* A period in which the latest tick began is within the time until that tick, with
\* all that the tick may still book.
PeriodInv ==
    \A a \in Metered, h \in Hours :
        h * HourLength <= started =>
            Total(usage[a], h) + Due(a)
                <= Allowance(Carry(h), started - h * HourLength, Total(firsts, h))

LEMMA AllowanceMore ==
  ASSUME ClockConstantsOK, NEW c \in Nat, NEW t \in Nat, NEW d \in Nat, NEW f \in Nat
  PROVE  /\ Allowance(c, t, f) \in Nat /\ Replicas * d \in Nat /\ Replicas * Interval \in Nat
         /\ Allowance(c, t + d, f) = Allowance(c, t, f) + Replicas * d
         /\ Allowance(c, t, f + 1) = Allowance(c, t, f) + Replicas * Interval
         /\ d <= t + c => Replicas * d <= Allowance(c, t, f)
<1>1. Interval * f \in Nat /\ Interval \in Nat /\ Replicas \in Nat
  BY DEF ClockConstantsOK
<1>2. Interval * (f + 1) = Interval * f + Interval
  BY <1>1
<1> DEFINE g == Interval * f
           x == t + c + g
<1>3. x \in Nat /\ g \in Nat
  BY <1>1
<1>4. Replicas * (x + d) = Replicas * x + Replicas * d
  BY <1>1, <1>3
<1>5. Replicas * (x + Interval) = Replicas * x + Replicas * Interval
  BY <1>1, <1>3
<1>6. x + d = (t + d) + c + g /\ x + Interval = t + c + (g + Interval)
  BY <1>1, <1>3
<1>7. Replicas * d \in Nat /\ Replicas * Interval \in Nat /\ Replicas * x \in Nat
  BY <1>1, <1>3, TimesMonotone
<1>8. d <= t + c => d <= x
  BY <1>1, <1>3
<1>9. d <= x => Replicas * d <= Replicas * x
  BY Zenon, <1>1, <1>3, TimesMonotone
<1>10. QED
  BY Zenon, <1>2, <1>4, <1>5, <1>6, <1>7, <1>8, <1>9 DEF Allowance

\* A moment is in the period that begins with hour h when its hour is h or later.
LEMMA InPeriod ==
  ASSUME ClockConstantsOK, NEW h \in Nat, NEW t \in Nat
  PROVE  h <= _hour_start(t) <=> h * HourLength <= t
<1>1. HourLength \in Nat \ {0}
  BY Zenon DEF ClockConstantsOK
<1> DEFINE q == t \div HourLength
<1>2. q \in Nat /\ q * HourLength <= t /\ t < q * HourLength + HourLength
  BY <1>1
<1> HIDE DEF q
<1>3. ASSUME h <= q PROVE h * HourLength <= t
  <2>1. HourLength * h <= HourLength * q /\ HourLength * q \in Nat
    BY Zenon, <1>1, <1>2, <1>3, TimesMonotone
  <2>2. QED
    BY <1>1, <1>2, <2>1
<1>4. ASSUME q + 1 <= h PROVE t < h * HourLength
  <2>1. HourLength * (q + 1) <= HourLength * h
    BY <1>1, <1>2, <1>4, TimesMonotone
  <2>2. HourLength * (q + 1) = q * HourLength + HourLength
    BY <1>1, <1>2
  <2>3. QED
    BY <1>1, <1>2, <2>1, <2>2
<1>5. h * HourLength \in Nat
  BY <1>1
<1>6. QED
  BY <1>2, <1>3, <1>4, <1>5 DEF q, _hour_start

LEMMA LaterTypes ==
  ASSUME ClockConstantsOK, NEW h \in Hours
  PROVE  /\ h \in Nat /\ h * HourLength \in Nat /\ Carry(h) \in Nat
         /\ Carry(h) <= h * HourLength /\ Carry(h) <= 3 * Interval
         /\ Carry(h) = 3 * Interval \/ Carry(h) = h * HourLength
         /\ IsFiniteSet(Later(h)) /\ Later(h) \subseteq Hours
         /\ \A i \in Hours : i \in Later(h) <=> h <= i
<1>1. Interval \in Nat /\ HourLength \in Nat \ {0} /\ MaxClock \div HourLength \in Nat
  BY DEF ClockConstantsOK
<1>2. h \in Nat
  BY <1>1 DEF Hours
<1>3. h * HourLength \in Nat
  BY <1>1, <1>2
<1>4. IsFiniteSet(Later(h))
  BY <1>1, <1>2, FS_Interval DEF Later
<1>5. QED
  BY <1>1, <1>2, <1>3, <1>4 DEF Carry, Later, Hours

LEMMA TotalTypes ==
  ASSUME ClockConstantsOK, ClockTypeOK, NEW h \in Hours
  PROVE  Total(firsts, h) \in Nat /\ \A a \in Metered : Total(usage[a], h) \in Nat
<1>1. IsFiniteSet(Later(h)) /\ Later(h) \subseteq Hours
  BY Zenon, LaterTypes
<1>2. \A i \in Later(h) : firsts[i] \in Nat
  BY Zenon, <1>1 DEF ClockTypeOK
<1>3. \A a \in Metered : \A i \in Later(h) : usage[a][i] \in Nat
  BY Zenon, <1>1 DEF ClockTypeOK
<1>4. QED
  BY Zenon, <1>1, <1>2, <1>3, SumType DEF Total

\* A period that begins after the latest tick has nothing booked.
LEMMA NothingLater ==
  ASSUME ClockConstantsOK, ClockIInv, NEW a \in Metered, NEW h \in Hours,
         started < h * HourLength
  PROVE  Total(usage[a], h) = 0
<1>1. started \in Nat /\ h \in Nat
  BY Zenon, ClockTypes DEF ClockIInv
<1>2. _hour_start(started) < h
  <2>1. ~(h * HourLength <= started)
    BY <1>1, LaterTypes
  <2>2. _hour_start(started) \in Nat
    BY Zenon, <1>1, HourOf
  <2>3. QED
    BY <1>1, <2>1, <2>2, InPeriod
<1>3. \A i \in Later(h) : i \in Hours /\ i \in Nat /\ h <= i
  BY Zenon, LaterTypes, ClockTypes DEF ClockIInv
<1>4. \A i \in Later(h) : usage[a][i] = 0
  <2>1. _hour_start(started) \in Nat
    BY <1>1, HourOf
  <2>2. \A i \in Later(h) : i > _hour_start(started)
    BY <1>1, <1>2, <1>3, <2>1
  <2>3. QED
    BY Zenon, <1>3, <2>2 DEF ClockIInv, BookedInv
<1>5. QED
  BY Zenon, <1>4, LaterTypes, SumZero DEF Total

\* The first tick of a process counts in every period that has begun.
LEMMA FirstsGrow ==
  ASSUME ClockConstantsOK, ClockIInv, BeginTick, NEW h \in Hours, h * HourLength <= clock
  PROVE  Total(firsts', h) = IF known THEN Total(firsts, h) ELSE Total(firsts, h) + 1
<1> DEFINE hc == _hour_start(clock)
<1>0. ClockTypeOK /\ clock \in Nat /\ clock <= MaxClock /\ MaxClock \in Nat
  BY Zenon, ClockTypes DEF ClockIInv, ClockConstantsOK
<1>1. hc \in Nat /\ hc <= _hour_start(MaxClock)
  BY Zenon, <1>0, HourOf, HourGrows
<1>2. hc \in Hours /\ h <= hc
  <2>1. h \in Nat
    BY Zenon, LaterTypes
  <2>2. _hour_start(MaxClock) = MaxClock \div HourLength /\ _hour_start(MaxClock) \in Nat
    BY Zenon, <1>0, HourOf DEF _hour_start
  <2>3. hc \in Hours
    BY <1>1, <2>2 DEF Hours
  <2>4. QED
    BY Zenon, <1>0, <2>1, <2>3, InPeriod
<1>3. hc \in Later(h) /\ IsFiniteSet(Later(h)) /\ Later(h) \subseteq Hours
  BY Zenon, <1>2, LaterTypes
<1>4. firsts' = IF known THEN firsts ELSE [firsts EXCEPT ![hc] = @ + 1]
  BY Zenon DEF BeginTick
<1>5. firsts \in [Hours -> Nat]
  BY Zenon, <1>0 DEF ClockTypeOK
<1> HIDE DEF hc
<1>6. CASE known
  BY Zenon, <1>4, <1>6
<1>7. CASE ~known
  <2>1. \A i \in Later(h) : firsts[i] \in Nat /\ firsts'[i] = IF i = hc THEN firsts[i] + 1 ELSE firsts[i]
    BY Zenon, <1>3, <1>4, <1>5, <1>7
  <2>2. SumFunctionOnSet(firsts', Later(h)) = SumFunctionOnSet(firsts, Later(h)) + 1
    BY <1>3, <2>1, SumPlus
  <2>3. QED
    BY Zenon, <1>7, <2>2 DEF Total
<1>8. QED
  BY Zenon, <1>6, <1>7

\* A tick begins: what it may book of a period is the time since the tick before it,
\* the carry-over when that tick was before the period, or the interval of a first tick.
LEMMA PeriodBeginTick ==
  ASSUME ClockConstantsOK, ClockIInv, PeriodInv, BeginTick,
         NEW a \in Metered, NEW h \in Hours, h * HourLength <= clock
  PROVE  Total(usage[a], h) + Due(a)'
           <= Allowance(Carry(h), clock - h * HourLength, Total(firsts', h))
<1> DEFINE b == h * HourLength
           t == clock - b
           c == Carry(h)
           F == Total(firsts, h)
           u == Total(usage[a], h)
           rs == Replicas * seconds'
<1>0. ClockTypeOK
  BY Zenon DEF ClockIInv
<1>1. /\ clock \in Nat /\ started \in Nat /\ started <= clock /\ Interval \in Nat \ {0}
      /\ Due(a) \in Nat
  BY Zenon, <1>0, ClockTypes
<1>2. /\ b \in Nat /\ c \in Nat /\ F \in Nat /\ u \in Nat
      /\ c = 3 * Interval \/ c = b
  BY Zenon, <1>0, LaterTypes, TotalTypes
<1>3. t \in Nat
  BY <1>1, <1>2
<1>4. /\ seconds' \in Nat /\ seconds' <= 3 * Interval
      /\ known => seconds' <= clock - started
      /\ ~known => seconds' = Interval
  BY <1>1 DEF BeginTick, Elapsed
<1>5. Total(firsts', h) = IF known THEN F ELSE F + 1
  BY Zenon, FirstsGrow
<1>6. rs \in Nat /\ Due(a)' \in Nat /\ Due(a)' <= rs
  <2>1. rs \in Nat
    <3>1. Replicas \in Nat /\ seconds' <= seconds'
      BY <1>4 DEF ClockConstantsOK
    <3>2. QED
      BY Zenon, <1>4, <3>1, TimesMonotone
  <2>2. QED
    BY <2>1 DEF Due
<1>7. started < b => u = 0
  BY Zenon, NothingLater
<1>8. b <= started => u + Due(a) <= Allowance(c, started - b, F)
  BY Zenon DEF PeriodInv
<1> HIDE DEF b, t, c, F, u
<1>9. /\ Allowance(c, t, F) \in Nat /\ Replicas * Interval \in Nat
      /\ Allowance(c, t, F + 1) = Allowance(c, t, F) + Replicas * Interval
  <2>1. 0 \in Nat
    BY Zenon
  <2>2. Allowance(c, t, F) \in Nat /\ Replicas * Interval \in Nat
    BY ZenonT(30), <1>2, <1>3, <2>1, AllowanceMore
  <2>3. Allowance(c, t, F + 1) = Allowance(c, t, F) + Replicas * Interval
    BY <1>2, <1>3, <2>1, AllowanceMore
  <2>4. QED
    BY Zenon, <2>2, <2>3
<1>10. CASE b <= started
  <2> DEFINE s == started - b
             d == clock - started
  <2>1. s \in Nat /\ d \in Nat /\ t = s + d
    BY <1>1, <1>2, <1>10 DEF t
  <2>2. u + Due(a) <= Allowance(c, s, F)
    BY Zenon, <1>8, <1>10
  <2>3. known => seconds' <= d
    BY Zenon, <1>4
  <2> HIDE DEF s, d
  <2>4. Allowance(c, s, F) \in Nat /\ Replicas * d \in Nat
        /\ Allowance(c, t, F) = Allowance(c, s, F) + Replicas * d
    <3>1. Allowance(c, s, F) \in Nat /\ Replicas * d \in Nat
      BY Zenon, <1>2, <2>1, AllowanceMore
    <3>2. Allowance(c, s + d, F) = Allowance(c, s, F) + Replicas * d
      BY <1>2, <2>1, AllowanceMore
    <3>3. QED
      BY Zenon, <2>1, <3>1, <3>2
  <2>5. known => rs <= Replicas * d
    BY Zenon, <1>4, <2>1, <2>3, TimesMonotone DEF ClockConstantsOK
  <2>6. ~known => rs = Replicas * Interval
    BY Zenon, <1>4
  <2> HIDE DEF rs
  <2>7. known => u + Due(a)' <= Allowance(c, t, F)
    BY <1>1, <1>2, <1>6, <2>2, <2>4, <2>5
  <2>8. ~known => u + Due(a)' <= Allowance(c, t, F + 1)
    BY <1>1, <1>2, <1>6, <1>9, <2>2, <2>4, <2>6
  <2>9. QED
    BY Zenon, <1>5, <2>7, <2>8 DEF t, b, c, u
<1>11. CASE started < b
  <2>1. u = 0
    BY Zenon, <1>7, <1>11
  <2>2. known => seconds' <= t + c
    <3>1. clock - started <= clock
      BY <1>1
    <3>2. c = b => t + c = clock
      BY <1>1, <1>2 DEF t
    <3>3. QED
      BY <1>1, <1>2, <1>3, <1>4, <3>1, <3>2
  <2>3. known => rs <= Allowance(c, t, F)
    BY Zenon, <1>2, <1>3, <1>4, <2>2, AllowanceMore
  <2>4. ~known => rs = Replicas * Interval
    BY <1>4
  <2> HIDE DEF rs
  <2>5. known => u + Due(a)' <= Allowance(c, t, F)
    BY <1>6, <1>9, <2>1, <2>3
  <2>6. ~known => u + Due(a)' <= Allowance(c, t, F + 1)
    BY <1>6, <1>9, <2>1, <2>4
  <2>7. QED
    BY <1>5, <2>5, <2>6 DEF t, b, c, u
<1>12. QED
  BY <1>1, <1>2, <1>10, <1>11

\* Whatever is booked of a period was due in it.
LEMMA PeriodBooks ==
  ASSUME ClockConstantsOK, ClockIInv, PeriodInv, ClockTypeOK', UNCHANGED <<started, firsts>>,
         \A a \in Metered, h \in Hours :
            h * HourLength <= started =>
                Total(usage'[a], h) + Due(a)' <= Total(usage[a], h) + Due(a)
  PROVE  PeriodInv'
<1>0. ClockTypeOK
  BY Zenon DEF ClockIInv
<1>1. ASSUME NEW a \in Metered, NEW h \in Hours, h * HourLength <= started
      PROVE  Total(usage'[a], h) + Due(a)'
               <= Allowance(Carry(h), started - h * HourLength, Total(firsts, h))
  <2> DEFINE c == Carry(h)
             s == started - h * HourLength
             F == Total(firsts, h)
             x == Total(usage[a], h) + Due(a)
             y == Total(usage'[a], h) + Due(a)'
  <2>1. c \in Nat /\ s \in Nat /\ F \in Nat /\ 0 \in Nat /\ x \in Nat
    BY <1>0, <1>1, LaterTypes, TotalTypes, ClockTypes
  <2>2. y \in Nat
    <3>1. Total(usage[a], h)' \in Nat
      <4>1. IsFiniteSet(Later(h)) /\ Later(h) \subseteq Hours
        BY Zenon, LaterTypes
      <4>2. \A i \in Later(h) : usage'[a][i] \in Nat
        <5>1. usage' \in [Metered -> [Hours -> Nat]]
          BY Zenon DEF ClockTypeOK, Hours
        <5>2. QED
          BY Zenon, <4>1, <5>1
      <4>3. SumFunctionOnSet(usage'[a], Later(h)) \in Nat
        BY Zenon, <4>1, <4>2, SumType
      <4>4. QED
        BY Zenon, <4>3 DEF Total, Later
    <3>2. Due(a)' \in Nat
      <4>1. seconds' \in Nat /\ Replicas \in Nat /\ seconds' <= seconds'
        BY DEF ClockTypeOK, ClockConstantsOK
      <4>2. Replicas * seconds' \in Nat
        BY Zenon, <4>1, TimesMonotone
      <4>3. QED
        BY Zenon, <4>2 DEF Due
    <3>3. QED
      BY <3>1, <3>2 DEF Total, Later
  <2>3. y <= x
    BY Zenon, <1>1
  <2>4. x <= Allowance(c, s, F)
    BY Zenon, <1>1 DEF PeriodInv
  <2> HIDE DEF c, s, F, x, y
  <2>5. Allowance(c, s, F) \in Nat
    BY Zenon, <2>1, AllowanceMore
  <2>6. y <= Allowance(c, s, F)
    BY <2>1, <2>2, <2>3, <2>4, <2>5
  <2>7. QED
    BY Zenon, <2>6 DEF c, s, F, y
<1>2. QED
  BY Zenon, <1>1 DEF PeriodInv, Allowance, Carry, Total, Later, Hours

LEMMA PeriodAgentStep ==
  ASSUME ClockConstantsOK, ClockIInv, PeriodInv, ClockTypeOK',
         NEW a \in Metered, NEW n \in 0 .. Replicas, a \in todo,
         usage' = [usage EXCEPT ![a][_hour_start(started)] = @ + n * seconds],
         todo' = todo \ {a},
         UNCHANGED <<started, seconds, firsts>>
  PROVE  PeriodInv'
<1> DEFINE hs == _hour_start(started)
           ns == n * seconds
           rs == Replicas * seconds
<1>0. ClockTypeOK
  BY Zenon DEF ClockIInv
<1>1. /\ seconds \in Nat /\ Replicas \in Nat /\ n \in Nat /\ n <= Replicas
      /\ started \in Nat /\ started <= MaxClock /\ MaxClock \in Nat
      /\ \A b \in Metered : Due(b) \in Nat
  BY <1>0, ClockTypes DEF ClockConstantsOK
<1>2. ns \in Nat /\ rs \in Nat /\ ns <= rs
  <2>1. seconds * n <= seconds * Replicas /\ seconds * n \in Nat /\ seconds * Replicas \in Nat
    BY Zenon, <1>1, TimesMonotone
  <2>2. ns = seconds * n /\ rs = seconds * Replicas
    BY <1>1
  <2>3. QED
    BY Zenon, <2>1, <2>2
<1>3. hs \in Hours
  <2>1. hs \in Nat /\ hs <= _hour_start(MaxClock) /\ _hour_start(MaxClock) \in Nat
    BY Zenon, <1>1, HourOf, HourGrows
  <2>2. QED
    BY <2>1 DEF Hours, _hour_start
<1>4. Due(a) = rs /\ Due(a)' = 0 /\ \A b \in Metered : b # a => Due(b)' = Due(b)
  BY Zenon DEF Due
<1>5. \A h \in Hours : h * HourLength <= started => h <= hs
  BY Zenon, <1>1, InPeriod, LaterTypes
<1> HIDE DEF hs, ns, rs
<1>6. usage' = [usage EXCEPT ![a][hs] = @ + ns]
  BY Zenon DEF hs, ns
<1>7. ASSUME NEW b \in Metered, NEW h \in Hours, h * HourLength <= started
      PROVE  Total(usage'[b], h) + Due(b)' <= Total(usage[b], h) + Due(b)
  <2>1. IsFiniteSet(Later(h)) /\ Later(h) \subseteq Hours /\ hs \in Later(h)
    BY Zenon, <1>3, <1>5, <1>7, LaterTypes
  <2>2. Total(usage[b], h) \in Nat
    BY Zenon, <1>0, TotalTypes
  <2>3. CASE b = a
    <3>1. \A i \in Later(h) : /\ usage[a][i] \in Nat
                              /\ usage'[a][i] = IF i = hs THEN usage[a][i] + ns ELSE usage[a][i]
      BY <1>0, <1>6, <2>1 DEF ClockTypeOK
    <3>2. Total(usage'[a], h) = Total(usage[a], h) + ns
      <4> DEFINE f == usage[a]
                 g == usage'[a]
      <4>1. \A i \in Later(h) : f[i] \in Nat /\ g[i] = IF i = hs THEN f[i] + ns ELSE f[i]
        BY Zenon, <3>1
      <4> HIDE DEF f, g
      <4>2. SumFunctionOnSet(g, Later(h)) = SumFunctionOnSet(f, Later(h)) + ns
        BY Zenon, <1>2, <2>1, <4>1, SumPlus
      <4>3. QED
        BY Zenon, <4>2 DEF Total, f, g
    <3>3. QED
      BY <1>2, <1>4, <2>2, <2>3, <3>2
  <2>4. CASE b # a
    <3>1. usage'[b] = usage[b] /\ Due(b)' = Due(b)
      BY Zenon, <1>0, <1>4, <1>6, <2>4 DEF ClockTypeOK
    <3>2. QED
      BY <1>1, <2>2, <3>1
  <2>5. QED
    BY Zenon, <2>3, <2>4
<1>8. QED
  BY Zenon, <1>7, PeriodBooks

LEMMA PeriodLetGo ==
  ASSUME ClockConstantsOK, ClockIInv, PeriodInv, ClockTypeOK',
         UNCHANGED <<started, usage, firsts>>,
         todo' = {} \/ UNCHANGED <<todo, seconds>>
  PROVE  PeriodInv'
<1>0. ClockTypeOK
  BY Zenon DEF ClockIInv
<1>1. \A a \in Metered : Due(a) \in Nat /\ Due(a)' \in Nat /\ Due(a)' <= Due(a)
  <2>1. CASE todo' = {}
    BY <1>0, <2>1, ClockTypes DEF Due
  <2>2. CASE UNCHANGED <<todo, seconds>>
    <3>1. \A a \in Metered : Due(a)' = Due(a)
      BY Zenon, <2>2 DEF Due
    <3>2. QED
      BY <1>0, <3>1, ClockTypes
  <2>3. QED
    BY Zenon, <2>1, <2>2
<1>2. ASSUME NEW a \in Metered, NEW h \in Hours
      PROVE  Total(usage'[a], h) + Due(a)' <= Total(usage[a], h) + Due(a)
  <2>1. Total(usage[a], h) \in Nat /\ usage' = usage
    BY Zenon, <1>0, TotalTypes
  <2>2. QED
    BY <1>1, <2>1
<1>3. QED
  BY Zenon, <1>2, PeriodBooks

LEMMA PeriodInit == ASSUME ClockConstantsOK, ClockInit PROVE PeriodInv
<1>1. ClockTypeOK
  BY Zenon, ClockInitIInv DEF ClockIInv
<1>2. SUFFICES ASSUME NEW a \in Metered, NEW h \in Hours, h * HourLength <= started
               PROVE  Total(usage[a], h) + Due(a)
                        <= Allowance(Carry(h), started - h * HourLength, Total(firsts, h))
  BY Zenon DEF PeriodInv
<1>3. IsFiniteSet(Later(h)) /\ \A i \in Later(h) : usage[a][i] = 0
  BY Zenon, LaterTypes DEF ClockInit
<1>4. Total(usage[a], h) = 0 /\ Due(a) = 0
  BY Zenon, <1>3, SumZero DEF Total, Due, ClockInit
<1> DEFINE s == started - h * HourLength
<1>5. Carry(h) \in Nat /\ s \in Nat /\ Total(firsts, h) \in Nat /\ 0 \in Nat
  BY <1>1, <1>2, LaterTypes, TotalTypes, ClockTypes
<1> HIDE DEF s
<1>6. Allowance(Carry(h), s, Total(firsts, h)) \in Nat
  BY Zenon, <1>5, AllowanceMore
<1>7. QED
  BY <1>4, <1>6 DEF s

LEMMA PeriodNext ==
  ASSUME ClockConstantsOK, ClockIInv, PeriodInv, [ClockNext]_clockVars, ClockIInv'
  PROVE  PeriodInv'
<1>0. ClockTypeOK /\ ClockTypeOK'
  BY Zenon DEF ClockIInv
<1>1. CASE BeginTick
  <2>1. started' = clock /\ usage' = usage
    BY Zenon, <1>1 DEF BeginTick
  <2>2. \A a \in Metered, h \in Hours : h * HourLength <= clock =>
          Total(usage[a], h) + Due(a)'
            <= Allowance(Carry(h), clock - h * HourLength, Total(firsts', h))
    BY Zenon, <1>1, PeriodBeginTick
  <2>3. QED
    BY Zenon, <2>1, <2>2 DEF PeriodInv, Allowance, Carry, Total, Later, Hours
<1>2. ASSUME NEW a \in Metered, NEW n \in 1 .. Replicas, Record(a, n) PROVE PeriodInv'
  <2>1. n \in 0 .. Replicas
    BY DEF ClockConstantsOK
  <2>2. QED
    BY Zenon, <1>0, <1>2, <2>1, PeriodAgentStep DEF Record
<1>3. ASSUME NEW a \in Metered, PassOver(a) PROVE PeriodInv'
  <2>1. /\ UNCHANGED <<started, usage, firsts, seconds>> /\ todo' = todo \ {a}
    BY Zenon, <1>3 DEF PassOver
  <2>2. ASSUME NEW b \in Metered, NEW h \in Hours
        PROVE  Total(usage'[b], h) + Due(b)' <= Total(usage[b], h) + Due(b)
    <3>1. Total(usage[b], h) \in Nat /\ Due(b) \in Nat
      BY Zenon, <1>0, TotalTypes, ClockTypes
    <3>2. Due(b)' = Due(b) \/ Due(b)' = 0
      BY Zenon, <2>1 DEF Due
    <3>3. QED
      BY <2>1, <3>1, <3>2
  <2>3. QED
    BY Zenon, <1>0, <2>1, <2>2, PeriodBooks
<1>4. CASE EndTick \/ TickFails \/ StopLoop
  <2>1. UNCHANGED <<started, usage, firsts>> /\ todo' = {}
    BY Zenon, <1>4 DEF EndTick, TickFails, StopLoop, Sleep
  <2>2. QED
    BY Zenon, <1>0, <2>1, PeriodLetGo
<1>5. CASE StartLoop \/ TimePasses \/ UNCHANGED clockVars
  <2>1. UNCHANGED <<started, usage, firsts, todo, seconds>>
    BY Zenon, <1>5 DEF StartLoop, TimePasses, clockVars, loopVars
  <2>2. QED
    BY Zenon, <1>0, <2>1, PeriodLetGo
<1>6. QED
  BY Zenon, <1>1, <1>2, <1>3, <1>4, <1>5 DEF ClockNext

\* period_totals (metering_service.py): what an account is charged for an agent from
\* an hour on is at most the time since then on every replica, a carry-over within the
\* cap and within the time before, and an interval for every process that began since,
\* whatever ticks stalled, failed half way or died with the process.
THEOREM PeriodWithinTimeHolds ==
  ASSUME ClockConstantsOK PROVE ClockSpec => []PeriodWithinTime
<1>1. ASSUME ClockIInv, PeriodInv PROVE PeriodWithinTime
  <2>0. ClockTypeOK
    BY Zenon, <1>1 DEF ClockIInv
  <2>1. SUFFICES ASSUME NEW a \in Metered, NEW h \in Hours, h * HourLength <= clock
                 PROVE  Total(usage[a], h)
                          <= Allowance(Carry(h), clock - h * HourLength, Total(firsts, h))
    <3>1. clock \in Nat /\ \A h \in Hours : h * HourLength \in Nat
      BY Zenon, <2>0, LaterTypes, ClockTypes
    <3>2. QED
      BY Zenon, <3>1 DEF PeriodWithinTime, period_totals, Allowance, Carry, Total, Later
  <2> DEFINE b == h * HourLength
             c == Carry(h)
             t == clock - b
             F == Total(firsts, h)
             u == Total(usage[a], h)
  <2>2. /\ b \in Nat /\ c \in Nat /\ t \in Nat /\ F \in Nat /\ u \in Nat /\ Due(a) \in Nat
        /\ started \in Nat /\ clock \in Nat /\ started <= clock /\ 0 \in Nat
    BY <2>0, <2>1, LaterTypes, TotalTypes, ClockTypes
  <2>3. started < b => u = 0
    BY Zenon, <1>1, NothingLater
  <2>4. b <= started => u + Due(a) <= Allowance(c, started - b, F)
    BY Zenon, <1>1 DEF PeriodInv
  <2> HIDE DEF b, c, F, u
  <2>5. CASE started < b
    <3> HIDE DEF t
    <3>1. Allowance(c, t, F) \in Nat
      BY Zenon, <2>2, AllowanceMore
    <3>2. u <= Allowance(c, t, F)
      BY <2>3, <2>5, <3>1
    <3>3. QED
      BY Zenon, <3>2 DEF b, c, t, F, u
  <2>6. CASE b <= started
    <3> DEFINE s == started - b
               d == clock - started
    <3>1. s \in Nat /\ d \in Nat /\ t = s + d
      BY <2>2, <2>6
    <3>2. u + Due(a) <= Allowance(c, s, F)
      BY Zenon, <2>4, <2>6
    <3> HIDE DEF s, d, t
    <3>3. Allowance(c, s, F) \in Nat /\ Replicas * d \in Nat
      BY Zenon, <2>2, <3>1, AllowanceMore
    <3>4. Allowance(c, s + d, F) = Allowance(c, s, F) + Replicas * d
      BY <2>2, <3>1, AllowanceMore
    <3>5. u <= Allowance(c, t, F)
      BY <2>2, <3>1, <3>2, <3>3, <3>4
    <3>6. QED
      BY Zenon, <3>5 DEF b, c, t, F, u
  <2>7. QED
    BY <2>2, <2>5, <2>6
<1>2. ClockInit => ClockIInv /\ PeriodInv
  BY Zenon, ClockInitIInv, PeriodInit
<1>3. ClockIInv /\ PeriodInv /\ [ClockNext]_clockVars => ClockIInv' /\ PeriodInv'
  BY Zenon, ClockNextIInv, PeriodNext
<1>4. QED
  BY <1>1, <1>2, <1>3, PTL DEF ClockSpec
=============================================================================
