--------------------------- MODULE Ingress_proofs ---------------------------
(***************************************************************************)
(* Proofs about Ingress, for any agents, keys, clients, limits, windows    *)
(* and resolution of the clock.                                            *)
(***************************************************************************)
EXTENDS Ingress, TLAPS

-----------------------------------------------------------------------------
(* Arithmetic of windows. *)

\* Dividing leaves less than the divisor.
LEMMA DivBounds ==
  ASSUME NEW n \in Nat, NEW d \in Nat \ {0}
  PROVE  /\ n \div d \in Nat
         /\ (n \div d) * d <= n
         /\ n < ((n \div d) + 1) * d
  OBVIOUS

\* The quotient is the number of whole divisors.
LEMMA DivAtLeast ==
  ASSUME NEW n \in Nat, NEW d \in Nat \ {0}, NEW q \in Nat, q * d <= n
  PROVE  q <= n \div d
  OBVIOUS

LEMMA DivAtMost ==
  ASSUME NEW n \in Nat, NEW d \in Nat \ {0}, NEW q \in Nat, n < (q + 1) * d
  PROVE  n \div d <= q
  OBVIOUS

LEMMA WindowPartsPositive == WindowParts \in Nat \ {0}
  BY IngressAssumption DEF WindowParts

LEMMA WindowIsNat == ASSUME now \in Nat PROVE Window \in Nat
  BY Zenon, WindowPartsPositive, DivBounds DEF Window

\* FixedWindowLimiter.hit rounds up, so whoever waits the Retry-After it was given
\* meets a new window, and never waits longer than a window.
LEMMA RetryAfterIsEnough == ASSUME now \in Nat PROVE RetryAfterSuffices
<1> DEFINE W == WindowParts
           P == PartsPerSecond
           q == now \div W
           left == (q + 1) * W - now
           ceil == (left + P - 1) \div P
<1>1. W \in Nat \ {0} /\ P \in Nat \ {0} /\ WindowSeconds \in Nat \ {0} /\ W = WindowSeconds * P
  BY Zenon, IngressAssumption, WindowPartsPositive DEF WindowParts
<1> HIDE DEF W, P
<1>2. q \in Nat /\ q * W <= now /\ now < (q + 1) * W
  BY Zenon, <1>1, DivBounds
<1> HIDE DEF q
<1>3. left \in Nat /\ 0 < left /\ left <= W
  BY <1>1, <1>2
<1> HIDE DEF left
<1>4. left + P - 1 \in Nat
  BY <1>1, <1>3
<1>5. ceil \in Nat /\ left + P - 1 < (ceil + 1) * P
  BY Zenon, <1>1, <1>4, DivBounds
<1>6. ceil <= WindowSeconds
  <2>1. left + P - 1 < (WindowSeconds + 1) * P
    BY <1>1, <1>3
  <2>2. QED
    BY Zenon, <1>1, <1>4, <2>1, DivAtMost
<1>7. ceil * P >= left
  BY <1>1, <1>3, <1>5
<1>8. ceil >= 1
  BY <1>1, <1>3, <1>5
<1> HIDE DEF ceil
<1>9. RetryAfter = ceil
  <2>1. RetryAfter = IF ceil > 1 THEN ceil ELSE 1
    BY Zenon DEF RetryAfter, Window, W, P, q, left, ceil
  <2>2. QED
    BY <1>5, <1>8, <2>1
<1>10. (q + 1) * W <= now + ceil * P /\ now + ceil * P \in Nat /\ q + 1 \in Nat
  BY <1>1, <1>2, <1>5, <1>7 DEF left
<1>11. q + 1 <= (now + ceil * P) \div W /\ (now + ceil * P) \div W \in Nat
  BY Zenon, <1>1, <1>10, DivAtLeast, DivBounds
<1>12. (now + ceil * P) \div W > q
  BY <1>2, <1>11
<1>13. QED
  BY Zenon, <1>6, <1>9, <1>12 DEF RetryAfterSuffices, Window, W, P, q

-----------------------------------------------------------------------------
(* The limiters. *)

\* What a limiter has counted in this window.
Counted(limiter, x) == IF limiter.window = Window THEN limiter.counts[x] ELSE 0

\* hit counts a hit that is within the limit, and nothing else.
LEMMA HitCounts ==
  ASSUME now \in Nat, NEW S, NEW limiter \in Limiter(S), NEW x \in S, NEW limit \in Nat
  PROVE  /\ Hit(limiter, x, limit) \in Limiter(S)
         /\ Hit(limiter, x, limit).window = Window
         /\ Full(limiter, x, limit) <=> Counted(limiter, x) >= limit
         /\ \A y \in S : Hit(limiter, x, limit).counts[y] =
                IF y = x /\ ~Full(limiter, x, limit) THEN Counted(limiter, y) + 1
                ELSE Counted(limiter, y)
<1> DEFINE fresh == Fresh(limiter)
<1>1. Window \in Nat
  BY Zenon, WindowIsNat
<1>2. /\ fresh \in Limiter(S) /\ fresh.window = Window
      /\ \A y \in S : fresh.counts[y] = Counted(limiter, y)
  BY <1>1 DEF Fresh, Limiter, Counted
<1> HIDE DEF fresh
<1>3. Full(limiter, x, limit) <=> fresh.counts[x] >= limit
  BY Zenon DEF Full, fresh
<1>4. Hit(limiter, x, limit) = IF Full(limiter, x, limit) THEN fresh
                               ELSE [fresh EXCEPT !.counts[x] = @ + 1]
  BY Zenon DEF Hit, fresh
<1>5. [fresh EXCEPT !.counts[x] = @ + 1] \in Limiter(S)
  BY <1>2 DEF Limiter
<1>6. \A y \in S : [fresh EXCEPT !.counts[x] = @ + 1].counts[y]
                     = IF y = x THEN fresh.counts[y] + 1 ELSE fresh.counts[y]
  BY Zenon, <1>2 DEF Limiter
<1>7. [fresh EXCEPT !.counts[x] = @ + 1].window = fresh.window
  BY Zenon, <1>2 DEF Limiter
<1>8. QED
  BY Zenon, <1>2, <1>3, <1>4, <1>5, <1>6, <1>7

-----------------------------------------------------------------------------
(* The inductive invariant. *)

\* The agent's limiter has counted the requests that both limits let through, as long
\* as nobody was exempt, and never more than some terms of the window allow.  Its
\* window is never ahead of the clock.
AllowanceInv ==
    /\ per_agent.window <= Window
    /\ \A a \in Agents : Counted(per_agent, a) <= spent[a]
    /\ "exempt" \notin terms =>
         \A a \in Agents : /\ spent[a] <= Counted(per_agent, a)
                           /\ \E t \in terms : Counted(per_agent, a) <= Rpm[t]

\* A request that waits for its key holds terms of this window, and if the key is the
\* agent's now it has been permitted.
WaitingInv ==
    \A r \in Requests :
        req[r].on => /\ req[r].owner \in terms
                     /\ keys[req[r].key] = req[r].agent => req[r].ok = TRUE

\* The key that delete_access_key has found is the agent's, or gone with it.
UnkeyInv ==
    \A h \in Handlers :
        api[h].pc = "unkey" => /\ api[h].key \in Keys
                               /\ keys[api[h].key] \in {api[h].agent, "gone"}

IInv ==
    /\ TypeOK /\ owner \in terms /\ trespass = FALSE
    /\ AllowanceInv /\ WaitingInv /\ UnkeyInv /\ PrivateComesWithKey

LEMMA InitIInv == Init => IInv
<1> SUFFICES ASSUME Init PROVE IInv
  BY Zenon
<1>1. Window \in Nat
  BY Zenon, WindowIsNat DEF Init
<1>2. Empty(Pairs) \in Limiter(Pairs) /\ Empty(Agents) \in Limiter(Agents)
  BY DEF Empty, Limiter
<1>3. TypeOK
  BY Zenon, <1>2 DEF Init, TypeOK, NoRow, Row, Terms
<1>4. AllowanceInv
  <2>1. per_agent.window = -1 /\ \A a \in Agents : Counted(per_agent, a) = 0 /\ spent[a] = 0
    BY Zenon, <1>1 DEF Init, Empty, Counted
  <2>2. "free" \in terms /\ Rpm["free"] \in Nat
    BY Zenon, IngressAssumption DEF Init
  <2>3. QED
    BY <1>1, <2>1, <2>2 DEF AllowanceInv
<1>5. WaitingInv
  BY Zenon DEF Init, WaitingInv, Idle
<1>6. PrivateComesWithKey /\ UnkeyInv
  BY Zenon DEF Init, PrivateComesWithKey, NoRow, UnkeyInv, Done
<1>7. QED
  BY Zenon, <1>3, <1>4, <1>5, <1>6 DEF IInv, Init

-----------------------------------------------------------------------------
(* The edge. *)

LEMMA AdmitStep ==
  ASSUME IInv, NEW r \in Requests, NEW a \in Agents, NEW term \in terms,
         Admit(r, a, term, TRUE), UNCHANGED <<now, terms>>
  PROVE  /\ per_agent' \in Limiter(Agents) /\ spent' \in [Agents -> Nat]
         /\ AllowanceInv' /\ trespass' = FALSE /\ req' = [req EXCEPT ![r] = Idle]
<1>0. /\ now \in Nat /\ per_agent \in Limiter(Agents) /\ spent \in [Agents -> Nat]
      /\ term \in Terms /\ terms \in SUBSET Terms /\ AllowanceInv /\ Window' = Window
      /\ \A b \in Agents : Counted(per_agent, b) \in Nat /\ spent[b] \in Nat
  BY Zenon DEF IInv, TypeOK, Limiter, Counted, Window
<1>1. trespass' = FALSE /\ req' = [req EXCEPT ![r] = Idle]
  BY Zenon DEF Admit, Answer, IInv
<1>2. CASE term = "exempt"
  <2>1. per_agent' = per_agent /\ spent' = [spent EXCEPT ![a] = @ + 1]
    BY Zenon, <1>2 DEF Admit
  <2>2. \A b \in Agents : Counted(per_agent, b)' = Counted(per_agent, b) /\ spent[b] <= spent'[b]
    BY <1>0, <2>1 DEF Counted
  <2>3. spent' \in [Agents -> Nat] /\ \A b \in Agents : spent'[b] \in Nat
    BY <1>0, <2>1
  <2>4. AllowanceInv'
    BY <1>0, <1>2, <2>1, <2>2, <2>3 DEF AllowanceInv
  <2>5. QED
    BY Zenon, <1>0, <1>1, <2>1, <2>3, <2>4
<1>3. CASE term # "exempt"
  <2> DEFINE full == Full(per_agent, a, Rpm[term])
  <2>1. Rpm[term] \in Nat
    BY Zenon, <1>0, <1>3, IngressAssumption DEF Terms
  <2>2. /\ per_agent' = Hit(per_agent, a, Rpm[term])
        /\ spent' = IF full THEN spent ELSE [spent EXCEPT ![a] = @ + 1]
    BY Zenon, <1>3 DEF Admit
  <2>3. /\ per_agent' \in Limiter(Agents) /\ per_agent'.window = Window
        /\ full <=> Counted(per_agent, a) >= Rpm[term]
        /\ \A b \in Agents : per_agent'.counts[b] = IF b = a /\ ~full THEN Counted(per_agent, b) + 1
                                                    ELSE Counted(per_agent, b)
    <3> DEFINE n == Rpm[term]
               hit == Hit(per_agent, a, n)
    <3>1. n \in Nat
      BY Zenon, <2>1
    <3> HIDE DEF n
    <3>2. hit \in Limiter(Agents) /\ hit.window = Window
      BY <1>0, <3>1, HitCounts
    <3>3. Full(per_agent, a, n) <=> Counted(per_agent, a) >= n
      BY Zenon, <1>0, <3>1, HitCounts
    <3>4. ASSUME NEW b \in Agents
          PROVE  hit.counts[b] = IF b = a /\ ~Full(per_agent, a, n) THEN Counted(per_agent, b) + 1
                                 ELSE Counted(per_agent, b)
      BY <1>0, <3>1, <3>4, HitCounts
    <3>5. per_agent' = hit /\ (full <=> Full(per_agent, a, n))
      BY Zenon, <2>2 DEF n
    <3>6. full <=> Counted(per_agent, a) >= Rpm[term]
      BY Zenon, <3>3, <3>5 DEF n
    <3> HIDE DEF full, hit
    <3>7. QED
      BY Zenon, <3>2, <3>4, <3>5, <3>6
  <2> HIDE DEF full
  <2>4. \A b \in Agents : spent'[b] = IF b = a /\ ~full THEN spent[b] + 1 ELSE spent[b]
    BY Zenon, <1>0, <2>2
  <2>5. spent' \in [Agents -> Nat]
    BY <1>0, <2>2
  <2>6. \A b \in Agents : Counted(per_agent, b)' = IF b = a /\ ~full THEN Counted(per_agent, b) + 1
                                                   ELSE Counted(per_agent, b)
    <3>1. \A b \in Agents : Counted(per_agent, b)' = per_agent'.counts[b]
      BY Zenon, <1>0, <2>3 DEF Counted
    <3>2. QED
      BY Zenon, <2>3, <3>1
  <2>7. ASSUME NEW b \in Agents PROVE Counted(per_agent, b)' <= spent'[b]
    BY <1>0, <2>4, <2>6 DEF AllowanceInv
  <2>8. ASSUME "exempt" \notin terms, NEW b \in Agents
        PROVE  /\ spent'[b] <= Counted(per_agent, b)'
               /\ \E t \in terms : Counted(per_agent, b)' <= Rpm[t]
    <3>1. spent'[b] <= Counted(per_agent, b)'
      BY <1>0, <2>4, <2>6, <2>8 DEF AllowanceInv
    <3>2. CASE b = a /\ ~full
      <4>1. Counted(per_agent, b)' = Counted(per_agent, b) + 1
        BY Zenon, <2>6, <3>2
      <4>2. Counted(per_agent, b) < Rpm[term]
        BY <1>0, <2>1, <2>3, <3>2
      <4>3. Counted(per_agent, b)' <= Rpm[term]
        BY <1>0, <2>1, <4>1, <4>2
      <4>4. QED
        BY Zenon, <3>1, <4>3
    <3>3. CASE ~(b = a /\ ~full)
      <4>1. Counted(per_agent, b)' = Counted(per_agent, b)
        BY Zenon, <2>6, <3>3
      <4>2. \E t \in terms : Counted(per_agent, b) <= Rpm[t]
        BY Zenon, <1>0, <2>8 DEF AllowanceInv
      <4>3. QED
        BY Zenon, <3>1, <4>1, <4>2
    <3>4. QED
      BY Zenon, <3>1, <3>2, <3>3
  <2>9. AllowanceInv'
    <3>1. per_agent'.window <= Window'
      BY <1>0, <2>3, WindowIsNat
    <3>2. QED
      BY Zenon, <2>7, <2>8, <3>1 DEF AllowanceInv
  <2>10. QED
    BY Zenon, <1>1, <2>3, <2>5, <2>9
<1>4. QED
  BY Zenon, <1>2, <1>3

\* A step of the edge: only limiters, requests and their history move.
LEMMA EdgeStep ==
  ASSUME IInv, UNCHANGED <<now, agents, keys, owner, api, terms, excused, ops>>, routes' \in Nat,
         per_client' \in Limiter(Pairs), per_agent' \in Limiter(Agents), spent' \in [Agents -> Nat],
         AllowanceInv', trespass' = FALSE,
         NEW r \in Requests, NEW q \in Request \cup {Idle}, req' = [req EXCEPT ![r] = q],
         q.on => q.owner \in terms /\ (keys[q.key] = q.agent => q.ok = TRUE)
  PROVE  IInv'
<1>1. TypeOK'
  BY Zenon DEF IInv, TypeOK
<1>2. WaitingInv'
  BY Zenon DEF IInv, TypeOK, WaitingInv
<1>3. PrivateComesWithKey' /\ UnkeyInv'
  BY DEF IInv, PrivateComesWithKey, Creating, UnkeyInv
<1>4. QED
  BY Zenon, <1>1, <1>2, <1>3 DEF IInv

LEMMA RefuseStep ==
  ASSUME IInv, NEW r \in Requests, Refuse(r), UNCHANGED <<now, terms>>
  PROVE  /\ per_agent' \in Limiter(Agents) /\ spent' \in [Agents -> Nat]
         /\ AllowanceInv' /\ trespass' = FALSE /\ req' = [req EXCEPT ![r] = Idle]
  BY Zenon DEF Refuse, Answer, IInv, TypeOK, AllowanceInv, Counted, Window

LEMMA RouteStep ==
  ASSUME IInv, NEW r \in Requests, NEW a \in Agents, NEW c \in Clients, NEW k \in Keys \cup {NoKey},
         Route(r, a, c, k)
  PROVE  IInv'
<1> DEFINE row == agents[a]
           limit == IF row.limit = Unset THEN DefaultRpm ELSE row.limit
           q == [on |-> TRUE, agent |-> a, key |-> k, owner |-> owner, ok |-> keys[k] = a]
<1>1. /\ UNCHANGED <<now, agents, keys, owner, api, terms, excused, ops>> /\ routes' \in Nat
      /\ owner \in terms
  BY DEF Route, IInv, TypeOK
<1>2. row \in Row /\ limit \in Nat
  BY Zenon, IngressAssumption DEF IInv, TypeOK, Row, Unset
<1>3. per_client' \in Limiter(Pairs)
  <2>1. per_client' = Hit(per_client, <<a, c>>, limit)
    BY Zenon DEF Route
  <2>2. now \in Nat /\ per_client \in Limiter(Pairs) /\ <<a, c>> \in Pairs
    BY Zenon DEF IInv, TypeOK, Pairs
  <2> HIDE DEF limit
  <2>3. QED
    BY Zenon, <1>2, <2>1, <2>2, HitCounts
<1>4. Idle \in Request \cup {Idle} /\ Idle.on = FALSE
  BY Zenon DEF Idle
<1>5. CASE Refuse(r)
  BY Zenon, <1>1, <1>3, <1>4, <1>5, RefuseStep, EdgeStep
<1>6. CASE Admit(r, a, owner, TRUE)
  BY Zenon, <1>1, <1>3, <1>4, <1>6, AdmitStep, EdgeStep
<1>7. CASE k # NoKey /\ req' = [req EXCEPT ![r] = q] /\ UNCHANGED <<per_agent, spent, trespass>>
  <2>1. q \in Request /\ (q.on => q.owner \in terms /\ (keys[q.key] = q.agent => q.ok = TRUE))
    BY Zenon, <1>1, <1>7 DEF Request, IInv, TypeOK
  <2>2. /\ per_agent' \in Limiter(Agents) /\ spent' \in [Agents -> Nat]
        /\ AllowanceInv' /\ trespass' = FALSE
    BY Zenon, <1>1, <1>7 DEF IInv, TypeOK, AllowanceInv, Counted, Window
  <2> HIDE DEF q
  <2>3. QED
    BY Zenon, <1>1, <1>3, <1>7, <2>1, <2>2, EdgeStep
<1>8. row.access \in {"public", "private"}
  BY Zenon, <1>2 DEF Row
<1>9. QED
  BY Zenon, <1>5, <1>6, <1>7, <1>8 DEF Route

LEMMA CheckKeyStep ==
  ASSUME IInv, NEW r \in Requests, CheckKey(r)
  PROVE  IInv'
<1> DEFINE q == req[r]
<1>1. /\ UNCHANGED <<now, agents, keys, owner, api, terms, excused, ops>> /\ routes' \in Nat
      /\ per_client' \in Limiter(Pairs)
  BY Zenon DEF CheckKey, bounds, IInv, TypeOK
<1>2. q.on /\ q \in Request /\ q.agent \in Agents /\ q.owner \in terms
  <2>1. q.on /\ q \in Request \cup {Idle}
    BY Zenon DEF CheckKey, IInv, TypeOK
  <2>2. q \in Request
    BY <2>1 DEF Idle
  <2>3. q.agent \in Agents
    BY Zenon, <2>2 DEF Request
  <2>4. q.owner \in terms
    BY Zenon, <2>1 DEF IInv, WaitingInv
  <2>5. QED
    BY Zenon, <2>1, <2>2, <2>3, <2>4
<1>3. Idle \in Request \cup {Idle} /\ Idle.on = FALSE
  BY Zenon DEF Idle
<1>4. CASE is_valid_access_key(q.agent, q.key)
  <2>1. q.ok = TRUE
    BY Zenon, <1>2, <1>4 DEF is_valid_access_key, IInv, WaitingInv
  <2>2. Admit(r, q.agent, q.owner, TRUE)
    BY Zenon, <1>4, <2>1 DEF CheckKey
  <2>3. QED
    BY Zenon, <1>1, <1>2, <1>3, <2>2, AdmitStep, EdgeStep
<1>5. CASE ~is_valid_access_key(q.agent, q.key)
  BY Zenon, <1>1, <1>3, <1>5, RefuseStep, EdgeStep DEF CheckKey
<1>6. QED
  BY Zenon, <1>4, <1>5

-----------------------------------------------------------------------------
(* The owner's requests. *)

\* An agent that refuses everybody; a request that is about to give b its first key.
Bare(b) == agents[b].there /\ agents[b].access = "private" /\ \A k \in Keys : keys[k] # b
Makes(c, b) == c.pc \in {"create", "first"} /\ c.agent = b

\* A step of handler h that leaves it with c.  Requests in flight see what becomes
\* permitted; an agent that is bare afterwards is excused, about to get its key from h,
\* or was bare or being created before, by somebody else than h.
OwnerMove(h, c) ==
    /\ UNCHANGED edgeVars /\ ops' \in Nat
    /\ api' = [api EXCEPT ![h] = c]
    /\ agents' \in [Agents -> Row]
    /\ keys' \in [Keys -> {a \in Agents : agents'[a].there} \cup {"none", "gone"}]
    /\ \A k \in Keys : keys[k] # "none" => keys'[k] \in {keys[k], "gone"}
    /\ \/ req' = Witness(agents', keys')
       \/ UNCHANGED req /\ \A k \in Keys : keys'[k] \in {keys[k], "gone"}
    /\ c.pc = "unkey" => c.key \in Keys /\ keys'[c.key] \in {c.agent, "gone"}
    /\ excused \subseteq excused' /\ excused' \subseteq Agents
    /\ \A b \in Agents :
         Bare(b)' => \/ b \in excused' \/ Makes(c, b)
                     \/ (Bare(b) \/ Creating(b)) /\ ~Makes(api[h], b)

LEMMA WitnessPermits ==
  ASSUME IInv, UNCHANGED terms, req' = Witness(agents', keys')
  PROVE  req' \in [Requests -> Request \cup {Idle}] /\ WaitingInv'
<1>1. ASSUME NEW r \in Requests
      PROVE  /\ req'[r] \in Request \cup {Idle}
             /\ req'[r].on => /\ req'[r].owner \in terms
                              /\ keys'[req'[r].key] = req'[r].agent => req'[r].ok = TRUE
  <2>1. CASE ~req[r].on
    BY Zenon, <2>1 DEF Witness, IInv, TypeOK
  <2>2. CASE req[r].on
    <3> DEFINE q == req[r]
               p == Permits(agents', keys', q.agent, q.key)
    <3>1. q \in Request /\ q.owner \in terms /\ q.key \in Keys /\ q.ok \in BOOLEAN
      BY SMTT(30), <2>2 DEF IInv, TypeOK, WaitingInv, Idle, Request
    <3>2. req'[r] = [q EXCEPT !.ok = q.ok \/ p]
      BY Zenon, <2>2 DEF Witness
    <3>3. p \in BOOLEAN /\ (keys'[q.key] = q.agent => p)
      BY Zenon, <3>1, IngressAssumption DEF Permits
    <3> HIDE DEF p
    <3>4. req'[r] \in Request /\ req'[r].owner = q.owner /\ req'[r].key = q.key
          /\ req'[r].agent = q.agent /\ req'[r].ok = (q.ok \/ p)
      BY Zenon, <3>1, <3>2, <3>3 DEF Request
    <3>5. QED
      BY Zenon, <3>1, <3>3, <3>4
  <2>3. QED
    BY Zenon, <2>1, <2>2
<1>2. req' = [r \in Requests |-> req'[r]]
  BY Zenon DEF Witness
<1>3. req' \in [Requests -> Request \cup {Idle}]
  BY Zenon, <1>1, <1>2
<1>4. WaitingInv'
  BY Zenon, <1>1 DEF WaitingInv
<1>5. QED
  BY Zenon, <1>3, <1>4

LEMMA OwnerMoveStep ==
  ASSUME IInv, NEW h \in Handlers, NEW c \in Api \cup {Done}, OwnerMove(h, c)
  PROVE  IInv'
<1>1. /\ UNCHANGED <<now, owner, per_client, per_agent, spent, terms, trespass, routes>>
      /\ ops' \in Nat
  BY Zenon DEF OwnerMove, edgeVars
<1>2. req' \in [Requests -> Request \cup {Idle}] /\ WaitingInv'
  <2>1. CASE req' = Witness(agents', keys')
    BY Zenon, <1>1, <2>1, WitnessPermits
  <2>2. CASE UNCHANGED req /\ \A k \in Keys : keys'[k] \in {keys[k], "gone"}
    <3>1. \A r \in Requests : req[r].on => req[r].agent \in Agents /\ req[r].key \in Keys
      BY DEF IInv, TypeOK, Idle, Request
    <3>2. "gone" \notin Agents
      BY Zenon, IngressAssumption
    <3>3. WaitingInv'
      BY Zenon, <1>1, <2>2, <3>1, <3>2 DEF IInv, WaitingInv
    <3>4. QED
      BY Zenon, <2>2, <3>3 DEF IInv, TypeOK
  <2>3. QED
    BY Zenon, <2>1, <2>2 DEF OwnerMove
<1>3. api' = [api EXCEPT ![h] = c] /\ api' \in [Handlers -> Api \cup {Done}]
      /\ \A g \in Handlers : api'[g] = IF g = h THEN c ELSE api[g]
  BY Zenon DEF OwnerMove, IInv, TypeOK
<1>4. TypeOK'
  BY Zenon, <1>1, <1>2, <1>3 DEF OwnerMove, IInv, TypeOK
<1>5. AllowanceInv'
  BY Zenon, <1>1 DEF IInv, AllowanceInv, Counted, Window
<1>6. UnkeyInv'
  <2>1. ASSUME NEW g \in Handlers, api'[g].pc = "unkey"
        PROVE  api'[g].key \in Keys /\ keys'[api'[g].key] \in {api'[g].agent, "gone"}
    <3>1. CASE g = h
      BY Zenon, <1>3, <2>1, <3>1 DEF OwnerMove
    <3>2. CASE g # h
      <4>1. api'[g] = api[g] /\ api[g].key \in Keys /\ keys[api[g].key] \in {api[g].agent, "gone"}
        BY Zenon, <1>3, <2>1, <3>2 DEF IInv, UnkeyInv
      <4>2. api[g].agent \in Agents
        BY SMTT(30), <2>1, <4>1 DEF IInv, TypeOK, Api, Done
      <4>3. keys[api[g].key] # "none"
        BY Zenon, <4>1, <4>2, IngressAssumption
      <4>4. QED
        BY Zenon, <4>1, <4>3 DEF OwnerMove
    <3>3. QED
      BY Zenon, <3>1, <3>2
  <2>2. QED
    BY Zenon, <2>1 DEF UnkeyInv
<1>7. PrivateComesWithKey'
  <2>1. SUFFICES ASSUME NEW b \in Agents, Bare(b)' PROVE b \in excused' \/ Creating(b)'
    BY Zenon DEF PrivateComesWithKey, Bare
  <2>2. CASE b \in excused'
    BY Zenon, <2>2
  <2>3. CASE Makes(c, b)
    BY Zenon, <1>3, <2>3 DEF Makes, Creating
  <2>4. CASE (Bare(b) \/ Creating(b)) /\ ~Makes(api[h], b)
    <3>1. b \in excused \/ Creating(b)
      BY Zenon, <2>4 DEF Bare, IInv, PrivateComesWithKey
    <3>2. CASE Creating(b)
      <4>1. PICK g \in Handlers : Makes(api[g], b)
        BY Zenon, <3>2 DEF Creating, Makes
      <4>2. g # h
        BY Zenon, <2>4, <4>1
      <4>3. QED
        BY Zenon, <1>3, <4>1, <4>2 DEF Creating, Makes
    <3>3. QED
      BY Zenon, <3>1, <3>2 DEF OwnerMove
  <2>5. QED
    BY Zenon, <2>1, <2>2, <2>3, <2>4 DEF OwnerMove
<1>8. QED
  BY Zenon, <1>1, <1>2, <1>4, <1>5, <1>6, <1>7 DEF IInv

\* What the tables are before a step, for the steps below.
LEMMA Tables ==
  ASSUME IInv
  PROVE  /\ agents \in [Agents -> Row] /\ excused \subseteq Agents /\ ops \in Nat
         /\ keys \in [Keys -> {a \in Agents : agents[a].there} \cup {"none", "gone"}]
         /\ api \in [Handlers -> Api \cup {Done}]
         /\ "none" \notin Agents /\ "gone" \notin Agents
  BY Zenon, IngressAssumption DEF IInv, TypeOK

\* A request that begins finds its agent, changes nothing yet, and creates none.
LEMMA BeginStep ==
  ASSUME IInv, NEW h \in Handlers, NEW pc \in {"key", "unkey", "patch", "erase"}, NEW a \in Agents,
         NEW k \in Keys \cup {NoKey}, NEW old \in Columns, NEW new \in Columns,
         Begin(h, pc, a, k, old, new), UNCHANGED <<edgeVars, agents, keys, req, excused>>,
         pc = "unkey" => k \in Keys /\ keys[k] = a
  PROVE  IInv'
<1> DEFINE c == [pc |-> pc, agent |-> a, key |-> k, old |-> old, new |-> new]
<1>1. c \in Api
  BY Zenon DEF Api
<1>2. api[h] = Done /\ api' = [api EXCEPT ![h] = c] /\ ops' \in Nat
  BY SMTT(30), Tables DEF Begin
<1>3. \A b \in Agents : (Bare(b)' <=> Bare(b)) /\ ~Makes(api[h], b)
  BY <1>2 DEF Bare, Makes, Done
<1>4. OwnerMove(h, c)
  BY Zenon, <1>2, <1>3, Tables DEF OwnerMove
<1>5. QED
  BY Zenon, <1>1, <1>4, OwnerMoveStep

LEMMA OwnerRequestStep ==
  ASSUME IInv, NEW h \in Handlers, OwnerRequest(h)
  PROVE  IInv'
<1>1. Private \in Columns
  BY Zenon DEF Private, Columns
<1>2. ASSUME NEW a \in Agents, NEW access \in {"public", "private"}, CreateAgent(h, a, access)
      PROVE  IInv'
  <2> DEFINE new == [Private EXCEPT !.access = access]
             c == [pc |-> "create", agent |-> a, key |-> NoKey, old |-> Private, new |-> new]
             row == [NoRow EXCEPT !.there = TRUE, !.used = TRUE, !.access = access]
  <2>1. c \in Api
    BY Zenon, <1>1 DEF Api, Private, Columns
  <2>2. /\ api[h] = Done /\ api' = [api EXCEPT ![h] = c] /\ ops' \in Nat
        /\ agents' = [agents EXCEPT ![a] = row] /\ UNCHANGED <<edgeVars, keys, req, excused>>
    BY <1>2, Tables DEF CreateAgent, Begin
  <2>3. row \in Row /\ row.there = TRUE
    BY Zenon DEF NoRow, Row
  <2> HIDE DEF row
  <2>4. agents' \in [Agents -> Row] /\ \A b \in Agents : agents[b].there => agents'[b].there
    BY Zenon, <2>2, <2>3, Tables
  <2>5. keys' \in [Keys -> {b \in Agents : agents'[b].there} \cup {"none", "gone"}]
    BY Zenon, <2>2, <2>4, Tables
  <2>6. ASSUME NEW b \in Agents, Bare(b)'
        PROVE  Makes(c, b) \/ (Bare(b) /\ ~Makes(api[h], b))
    <3>1. CASE b = a
      BY Zenon, <3>1 DEF Makes
    <3>2. CASE b # a
      BY <2>2, <2>6, <3>2, Tables DEF Bare, Makes, Done
    <3>3. QED
      BY Zenon, <3>1, <3>2
  <2>7. OwnerMove(h, c)
    BY Zenon, <2>2, <2>4, <2>5, <2>6, Tables DEF OwnerMove
  <2>8. QED
    BY Zenon, <2>1, <2>7, OwnerMoveStep
<1>3. ASSUME NEW a \in Agents, NEW access \in {"public", "private"}, NEW limit \in Limits \cup {Unset},
             Patch(h, a, access, limit)
      PROVE  IInv'
  <2>1. /\ [access |-> agents[a].access, limit |-> agents[a].limit] \in Columns
        /\ [access |-> access, limit |-> limit] \in Columns
    BY Zenon, Tables DEF Columns, Row
  <2>2. QED
    BY Zenon, <1>3, <2>1, BeginStep DEF Patch
<1>4. ASSUME NEW a \in Agents, NEW k \in Keys, DeleteKey(h, a, k) PROVE IInv'
  BY Zenon, <1>1, <1>4, BeginStep DEF DeleteKey
<1>5. ASSUME NEW a \in Agents, CreateKey(h, a) \/ DeleteAgent(h, a) PROVE IInv'
  BY Zenon, <1>1, <1>5, BeginStep DEF CreateKey, DeleteAgent
<1>6. QED
  BY Zenon, <1>2, <1>3, <1>4, <1>5 DEF OwnerRequest

LEMMA CreateFailsStep == ASSUME IInv, NEW h \in Handlers, CreateFails(h) PROVE IInv'
<1>1. api[h] \in Api /\ api[h].agent \in Agents
  BY Tables DEF CreateFails, At, Done, Api
<1>2. /\ api' = [api EXCEPT ![h] = Done] /\ excused' = excused \cup {api[h].agent}
      /\ UNCHANGED <<edgeVars, agents, keys, req, ops>>
  BY Zenon DEF CreateFails, Return
<1>3. \A b \in Agents : Bare(b)' => b \in excused' \/ (Bare(b) /\ ~Makes(api[h], b))
  BY Zenon, <1>2 DEF Bare, Makes
<1>4. OwnerMove(h, Done)
  BY Zenon, <1>1, <1>2, <1>3, Tables DEF OwnerMove, Done
<1>5. QED
  BY Zenon, <1>4, OwnerMoveStep

LEMMA FirstKeyStep == ASSUME IInv, NEW h \in Handlers, FirstKey(h) PROVE IInv'
<1> DEFINE a == api[h].agent
           c == [api[h] EXCEPT !.pc = "first"]
<1>1. api[h] \in Api /\ a \in Agents /\ api[h].pc = "create"
  BY Tables DEF FirstKey, At, Done, Api
<1>2. UNCHANGED <<edgeVars, agents, keys, req, excused, ops>>
  BY Zenon DEF FirstKey
<1>3. CASE agents[a].there /\ agents[a].access = "private"
  <2>1. c \in Api /\ c.pc = "first" /\ c.agent = a /\ api' = [api EXCEPT ![h] = c]
    BY Zenon, <1>1, <1>3 DEF FirstKey, Goto, Api
  <2>2. \A b \in Agents : Bare(b)' => Makes(c, b) \/ (Bare(b) /\ ~Makes(api[h], b))
    BY Zenon, <1>2, <2>1 DEF Bare, Makes
  <2> HIDE DEF c
  <2>3. OwnerMove(h, c)
    BY Zenon, <1>2, <2>1, <2>2, Tables DEF OwnerMove
  <2>4. QED
    BY Zenon, <2>1, <2>3, OwnerMoveStep
<1>4. CASE ~(agents[a].there /\ agents[a].access = "private")
  <2>1. api' = [api EXCEPT ![h] = Done]
    BY Zenon, <1>4 DEF FirstKey, Return
  <2>2. \A b \in Agents : Bare(b)' => Bare(b) /\ ~Makes(api[h], b)
    BY Zenon, <1>2, <1>4 DEF Bare, Makes
  <2>3. OwnerMove(h, Done)
    BY Zenon, <1>2, <2>1, <2>2, Tables DEF OwnerMove, Done
  <2>4. QED
    BY Zenon, <2>3, OwnerMoveStep
<1>5. QED
  BY Zenon, <1>3, <1>4

LEMMA InsertKeyStep ==
  ASSUME IInv, NEW h \in Handlers, NEW k \in Keys, InsertKey(h, k)
  PROVE  IInv'
<1> DEFINE a == api[h].agent
<1>1. api[h] \in Api /\ a \in Agents /\ keys[k] = "none"
  BY Tables DEF InsertKey, At, Done, Api
<1>2. /\ UNCHANGED <<edgeVars, agents, excused, ops>> /\ req' = Witness(agents', keys')
      /\ api' = [api EXCEPT ![h] = Done]
      /\ keys' = IF agents[a].there THEN [keys EXCEPT ![k] = a] ELSE keys
  BY Zenon DEF InsertKey, Return
<1>3. \A j \in Keys : keys'[j] = IF j = k /\ agents[a].there THEN a ELSE keys[j]
  BY Zenon, <1>2, Tables
<1>4. keys' \in [Keys -> {b \in Agents : agents'[b].there} \cup {"none", "gone"}]
  BY Zenon, <1>1, <1>2, Tables
<1>5. ASSUME NEW b \in Agents, Bare(b)' PROVE Bare(b) /\ ~Makes(api[h], b)
  <2>1. b # a
    BY Zenon, <1>2, <1>3, <1>5 DEF Bare
  <2>2. \A j \in Keys : keys[j] # b
    BY Zenon, <1>1, <1>3, <1>5, Tables DEF Bare
  <2>3. QED
    BY Zenon, <1>2, <1>5, <2>1, <2>2 DEF Bare, Makes
<1>6. OwnerMove(h, Done)
  BY Zenon, <1>1, <1>2, <1>3, <1>4, <1>5, Tables DEF OwnerMove, Done
<1>7. QED
  BY Zenon, <1>6, OwnerMoveStep

LEMMA RemoveKeyStep == ASSUME IInv, NEW h \in Handlers, RemoveKey(h) PROVE IInv'
<1> DEFINE a == api[h].agent
           k == api[h].key
<1>0. api[h].pc = "unkey" /\ UnkeyInv
  BY Zenon DEF RemoveKey, At, IInv
<1>1. api[h] \in Api /\ a \in Agents /\ k \in Keys /\ keys[k] \in {a, "gone"}
  <2>1. api[h] \in Api /\ a \in Agents
    BY <1>0, Tables DEF Done, Api
  <2>2. QED
    BY Zenon, <1>0, <2>1 DEF UnkeyInv
<1>2. /\ UNCHANGED <<edgeVars, agents, req, ops>> /\ excused' = excused \cup {a}
      /\ api' = [api EXCEPT ![h] = Done] /\ keys' = [keys EXCEPT ![k] = "gone"]
  BY Zenon DEF RemoveKey, Return
<1>3. \A j \in Keys : keys'[j] = IF j = k THEN "gone" ELSE keys[j]
  BY Zenon, <1>2, Tables
<1>4. keys' \in [Keys -> {b \in Agents : agents'[b].there} \cup {"none", "gone"}]
  BY Zenon, <1>2, Tables
<1>5. ASSUME NEW b \in Agents, Bare(b)', b # a PROVE Bare(b) /\ ~Makes(api[h], b)
  BY Zenon, <1>1, <1>2, <1>3, <1>5, Tables DEF Bare, Makes
<1>6. OwnerMove(h, Done)
  BY Zenon, <1>1, <1>2, <1>3, <1>4, <1>5, Tables DEF OwnerMove, Done
<1>7. QED
  BY <1>6, OwnerMoveStep

LEMMA CommitPatchStep == ASSUME IInv, NEW h \in Handlers, CommitPatch(h) PROVE IInv'
<1> DEFINE a == api[h].agent
           old == api[h].old
           new == api[h].new
           row == [agents[a] EXCEPT !.access = IF new.access # old.access THEN new.access ELSE @,
                                    !.limit = IF new.limit # old.limit THEN new.limit ELSE @]
<1>1. api[h] \in Api /\ a \in Agents /\ api[h].pc = "patch" /\ new \in Columns
  BY Tables DEF CommitPatch, At, Done, Api
<1>2. agents[a] \in Row
  BY Zenon, <1>1, Tables
<1>3. row \in Row /\ row.there = agents[a].there
  BY Zenon, <1>1, <1>2 DEF Row, Columns
<1>4. /\ UNCHANGED <<edgeVars, keys, ops>> /\ req' = Witness(agents', keys')
      /\ api' = [api EXCEPT ![h] = Done]
      /\ agents' = IF agents[a].there THEN [agents EXCEPT ![a] = row] ELSE agents
      /\ excused' = IF row.access = "private" /\ agents[a].access = "public" /\ ~Creating(a)
                    THEN excused \cup {a} ELSE excused
  BY Zenon DEF CommitPatch, Return
<1> HIDE DEF row
<1>5. /\ agents' \in [Agents -> Row]
      /\ \A b \in Agents : b # a => agents'[b] = agents[b]
      /\ \A b \in Agents : agents'[b].there = agents[b].there
  BY Zenon, <1>3, <1>4, Tables
<1>6. keys' \in [Keys -> {b \in Agents : agents'[b].there} \cup {"none", "gone"}]
  BY <1>4, <1>5, Tables
<1>7. ASSUME NEW b \in Agents PROVE ~Makes(api[h], b)
  BY Zenon, <1>1 DEF Makes
<1>8. ASSUME NEW b \in Agents, Bare(b)'
      PROVE  b \in excused' \/ Bare(b) \/ Creating(b)
  <2>1. CASE b # a
    BY Zenon, <1>4, <1>5, <1>8, <2>1 DEF Bare
  <2>2. CASE b = a
    <3>1. agents[a].access \in {"public", "private"}
      BY Zenon, <1>2 DEF Row
    <3>2. agents[a].there /\ row.access = "private" /\ \A k \in Keys : keys[k] # a
      BY Zenon, <1>1, <1>4, <1>5, <1>8, <2>2, Tables DEF Bare
    <3>3. CASE agents[a].access = "private"
      BY Zenon, <2>2, <3>2, <3>3 DEF Bare
    <3>4. CASE agents[a].access = "public"
      BY Zenon, <1>4, <2>2, <3>2, <3>4
    <3>5. QED
      BY Zenon, <3>1, <3>3, <3>4
  <2>3. QED
    BY Zenon, <2>1, <2>2
<1>9. OwnerMove(h, Done)
  BY Zenon, <1>1, <1>4, <1>5, <1>6, <1>7, <1>8, Tables DEF OwnerMove, Done
<1>10. QED
  BY Zenon, <1>9, OwnerMoveStep

LEMMA EraseAgentStep == ASSUME IInv, NEW h \in Handlers, EraseAgent(h) PROVE IInv'
<1> DEFINE a == api[h].agent
           row == [NoRow EXCEPT !.used = TRUE]
<1>1. api[h] \in Api /\ a \in Agents /\ api[h].pc = "erase"
  BY Tables DEF EraseAgent, At, Done, Api
<1>2. row \in Row /\ row.there = FALSE
  BY Zenon DEF NoRow, Row
<1>3. /\ UNCHANGED <<edgeVars, req, excused, ops>> /\ api' = [api EXCEPT ![h] = Done]
      /\ agents' = [agents EXCEPT ![a] = row]
      /\ keys' = [k \in Keys |-> IF keys[k] = a THEN "gone" ELSE keys[k]]
  BY Zenon DEF EraseAgent, Return
<1> HIDE DEF row
<1>4. /\ agents' \in [Agents -> Row] /\ agents'[a].there = FALSE
      /\ \A b \in Agents : b # a => agents'[b] = agents[b]
  BY Zenon, <1>1, <1>2, <1>3, Tables
<1>5. keys' \in [Keys -> {b \in Agents : agents'[b].there} \cup {"none", "gone"}]
  BY Zenon, <1>3, <1>4, Tables
<1>6. ASSUME NEW b \in Agents, Bare(b)' PROVE Bare(b) /\ ~Makes(api[h], b)
  <2>1. b # a
    BY Zenon, <1>4, <1>6 DEF Bare
  <2>2. \A k \in Keys : keys[k] # b
    BY Zenon, <1>3, <1>6, <2>1 DEF Bare
  <2>3. QED
    BY Zenon, <1>1, <1>4, <1>6, <2>1, <2>2 DEF Bare, Makes
<1>7. OwnerMove(h, Done)
  BY Zenon, <1>1, <1>3, <1>4, <1>5, <1>6, Tables DEF OwnerMove, Done
<1>8. QED
  BY <1>7, OwnerMoveStep

-----------------------------------------------------------------------------
(* The world around. *)

\* The clock never takes a window back.
LEMMA WindowGrows ==
  ASSUME now \in Nat, now' = now + 1
  PROVE  Window \in Nat /\ Window' \in Nat /\ Window <= Window'
<1> DEFINE W == WindowParts
<1>1. W \in Nat \ {0} /\ WindowParts' = W
  BY Zenon, WindowPartsPositive DEF WindowParts
<1>2. Window = now \div W /\ Window' = (now + 1) \div W
  BY Zenon, <1>1 DEF Window
<1> HIDE DEF W
<1>3. now \div W \in Nat /\ (now \div W) * W <= now
  BY Zenon, <1>1, DivBounds
<1>4. now + 1 \in Nat /\ (now \div W) * W <= now + 1 /\ (now + 1) \div W \in Nat
  BY <1>1, <1>3, DivBounds
<1>5. now \div W <= (now + 1) \div W
  BY Zenon, <1>1, <1>3, <1>4, DivAtLeast
<1>6. QED
  BY Zenon, <1>2, <1>3, <1>4, <1>5

LEMMA ClockStep == ASSUME IInv, Clock PROVE IInv'
<1>0. /\ now \in Nat /\ now' = now + 1
      /\ UNCHANGED <<agents, keys, owner, per_client, per_agent, req, api, excused, trespass>>
      /\ routes' = routes /\ ops' = ops
  BY Zenon DEF Clock, IInv, TypeOK, bounds
<1>1. Window \in Nat /\ Window' \in Nat /\ Window <= Window'
  BY Zenon, <1>0, WindowGrows
<1>2. WindowParts' = WindowParts /\ Window' = (now + 1) \div WindowParts
  BY Zenon, <1>0 DEF Window, WindowParts
<1>3. UnkeyInv' /\ PrivateComesWithKey'
  BY <1>0 DEF IInv, UnkeyInv, PrivateComesWithKey, Creating
<1>4. CASE Window' = Window
  <2>1. spent' = spent /\ terms' = terms
    BY Zenon, <1>2, <1>4 DEF Clock
  <2>2. TypeOK'
    BY <1>0, <2>1 DEF IInv, TypeOK
  <2>3. AllowanceInv'
    BY Zenon, <1>0, <1>4, <2>1 DEF IInv, AllowanceInv, Counted
  <2>4. WaitingInv'
    BY Zenon, <1>0, <2>1 DEF IInv, WaitingInv
  <2>5. QED
    BY Zenon, <1>0, <1>3, <2>1, <2>2, <2>3, <2>4 DEF IInv
<1>5. CASE Window' # Window
  <2>1. /\ spent' = [a \in Agents |-> 0]
        /\ terms' = {owner} \cup {req[r].owner : r \in {q \in Requests : req[q].on}}
    BY Zenon, <1>2, <1>5 DEF Clock
  <2>2. \A r \in Requests : req[r].on => req[r].owner \in terms
    BY Zenon DEF IInv, WaitingInv
  <2>3. terms' \subseteq terms /\ owner \in terms' /\ terms \subseteq Terms
    BY Zenon, <2>1, <2>2 DEF IInv, TypeOK
  <2>4. TypeOK'
    BY <1>0, <2>1, <2>3 DEF IInv, TypeOK
  <2>5. WaitingInv'
    BY Zenon, <1>0, <2>1 DEF IInv, WaitingInv
  <2>6. AllowanceInv'
    <3>1. per_agent.window \in Int /\ per_agent.window <= Window
      BY Zenon DEF IInv, TypeOK, Limiter, AllowanceInv
    <3>2. per_agent'.window < Window'
      BY <1>0, <1>1, <1>5, <3>1
    <3>3. \A a \in Agents : Counted(per_agent, a)' = 0 /\ spent'[a] = 0
      BY <1>1, <2>1, <3>1, <3>2, <1>0 DEF Counted
    <3>4. "exempt" \notin terms' => owner \in terms' /\ Rpm[owner] \in Nat
      BY Zenon, <2>3, IngressAssumption DEF Terms
    <3>5. QED
      BY <1>0, <1>1, <3>1, <3>2, <3>3, <3>4 DEF AllowanceInv
  <2>7. QED
    BY Zenon, <1>0, <1>3, <2>3, <2>4, <2>5, <2>6 DEF IInv
<1>6. QED
  BY Zenon, <1>4, <1>5

LEMMA OwnerChangesStep == ASSUME IInv, NEW term \in Terms, OwnerChanges(term) PROVE IInv'
<1>1. /\ UNCHANGED <<now, agents, keys, per_client, per_agent, req, api, spent, excused, trespass,
                     routes>>
      /\ owner' = term /\ terms' = terms \cup {term} /\ ops' \in Nat
  BY DEF OwnerChanges, IInv, TypeOK
<1>2. TypeOK'
  BY Zenon, <1>1 DEF IInv, TypeOK
<1>3. AllowanceInv'
  BY Zenon, <1>1 DEF IInv, AllowanceInv, Counted, Window
<1>4. WaitingInv' /\ UnkeyInv' /\ PrivateComesWithKey'
  BY Zenon, <1>1 DEF IInv, WaitingInv, UnkeyInv, PrivateComesWithKey, Creating
<1>5. QED
  BY Zenon, <1>1, <1>2, <1>3, <1>4 DEF IInv

LEMMA RestartStep == ASSUME IInv, Restart PROVE IInv'
<1>1. /\ UNCHANGED <<now, agents, keys, owner, trespass, routes>> /\ ops' \in Nat
      /\ per_client' = Empty(Pairs) /\ per_agent' = Empty(Agents)
      /\ req' = [r \in Requests |-> Idle] /\ api' = [h \in Handlers |-> Done]
      /\ spent' = [a \in Agents |-> 0] /\ terms' = {owner}
      /\ excused' = excused \cup {a \in Agents : Creating(a)}
  BY DEF Restart, IInv, TypeOK
<1>2. Empty(Pairs) \in Limiter(Pairs) /\ Empty(Agents) \in Limiter(Agents)
  BY DEF Empty, Limiter
<1>3. TypeOK'
  BY Zenon, <1>1, <1>2 DEF IInv, TypeOK
<1>4. AllowanceInv'
  <2>1. Window' \in Nat
    <3>1. now \in Nat /\ Window' = Window
      BY Zenon, <1>1 DEF IInv, TypeOK, Window
    <3>2. QED
      BY Zenon, <3>1, WindowIsNat
  <2>2. per_agent'.window = -1 /\ \A a \in Agents : Counted(per_agent, a)' = 0 /\ spent'[a] = 0
    BY Zenon, <1>1, <2>1 DEF Empty, Counted
  <2>3. "exempt" \notin terms' => owner \in terms' /\ Rpm[owner] \in Nat
    BY Zenon, <1>1, IngressAssumption DEF IInv, TypeOK, Terms
  <2>4. QED
    BY <2>1, <2>2, <2>3 DEF AllowanceInv
<1>5. WaitingInv' /\ UnkeyInv'
  BY Zenon, <1>1 DEF WaitingInv, UnkeyInv, Idle, Done
<1>6. PrivateComesWithKey'
  BY Zenon, <1>1 DEF IInv, PrivateComesWithKey
<1>7. QED
  BY Zenon, <1>1, <1>3, <1>4, <1>5, <1>6 DEF IInv

LEMMA NextIInv == IInv /\ [Next]_vars => IInv'
<1> SUFFICES ASSUME IInv, [Next]_vars PROVE IInv'
  BY Zenon
<1>1. CASE UNCHANGED vars
  <2>1. TypeOK' /\ AllowanceInv'
    BY Zenon, <1>1 DEF IInv, TypeOK, AllowanceInv, Counted, Window, vars, bounds
  <2>2. WaitingInv' /\ UnkeyInv' /\ PrivateComesWithKey'
    BY Zenon, <1>1 DEF IInv, WaitingInv, UnkeyInv, PrivateComesWithKey, Creating, vars
  <2>3. QED
    BY Zenon, <1>1, <2>1, <2>2 DEF IInv, vars
<1>2. ASSUME NEW r \in Requests, NEW a \in Agents, NEW c \in Clients, NEW k \in Keys \cup {NoKey},
             Route(r, a, c, k)
      PROVE  IInv'
  BY Zenon, <1>2, RouteStep
<1>3. ASSUME NEW r \in Requests, CheckKey(r) PROVE IInv'
  BY Zenon, <1>3, CheckKeyStep
<1>4. ASSUME NEW h \in Handlers, OwnerRequest(h) PROVE IInv'
  BY <1>4, OwnerRequestStep
<1>5. ASSUME NEW h \in Handlers, OwnerStep(h) PROVE IInv'
  BY Zenon, <1>5, CreateFailsStep, FirstKeyStep, RemoveKeyStep, CommitPatchStep, EraseAgentStep,
     InsertKeyStep DEF OwnerStep
<1>6. CASE Clock
  BY Zenon, <1>6, ClockStep
<1>7. ASSUME NEW term \in Terms, OwnerChanges(term) PROVE IInv'
  BY Zenon, <1>7, OwnerChangesStep
<1>8. CASE Restart
  BY <1>8, RestartStep
<1>9. QED
  BY Zenon, <1>1, <1>2, <1>3, <1>4, <1>5, <1>6, <1>7, <1>8 DEF Next

-----------------------------------------------------------------------------
(* The theorems. *)

LEMMA SpecIInv == Spec => []IInv
  BY InitIInv, NextIInv, PTL DEF Spec

\* Every variable of the edge and of the owner's requests keeps its type; a key
\* belongs to an agent that is there, because the INSERT checks it and DELETE cascades.
THEOREM IngressTypeCorrect == Spec => []TypeOK
<1>1. IInv => TypeOK
  BY Zenon DEF IInv
<1>2. QED
  BY <1>1, SpecIInv, PTL

\* route never routes a request that was at no time permitted while it was in flight.
THEOREM RoutedWithPermissionHolds == Spec => []RoutedWithPermission
<1>1. IInv => RoutedWithPermission
  BY Zenon DEF IInv, RoutedWithPermission
<1>2. QED
  BY <1>1, SpecIInv, PTL

\* The agent's limiter counts no request that its caller's limit or the key check
\* refuses.
THEOREM AllowanceSpentByCallersHolds == Spec => []AllowanceSpentByCallers
<1>1. IInv => AllowanceSpentByCallers
  BY Zenon DEF IInv, AllowanceInv, AllowanceSpentByCallers, Counted
<1>2. QED
  BY <1>1, SpecIInv, PTL

\* An agent's URL serves no more in a window than the terms of that window allow,
\* whatever the order of hits, key checks, plan changes and restarts.
THEOREM ServedWithinPlanHolds == Spec => []ServedWithinPlan
<1>1. ASSUME IInv PROVE ServedWithinPlan
  <2>1. SUFFICES ASSUME "exempt" \notin terms, NEW a \in Agents
                 PROVE  \E t \in terms : spent[a] <= Rpm[t]
    BY Zenon DEF ServedWithinPlan
  <2>2. spent[a] <= Counted(per_agent, a)
    BY Zenon, <1>1, <2>1 DEF IInv, AllowanceInv
  <2>3. PICK t \in terms : Counted(per_agent, a) <= Rpm[t]
    BY Zenon, <1>1, <2>1 DEF IInv, AllowanceInv
  <2>4. spent[a] \in Nat /\ Counted(per_agent, a) \in Nat /\ Rpm[t] \in Nat
    BY Zenon, <1>1, <2>1, IngressAssumption DEF IInv, TypeOK, Counted, Limiter, Terms
  <2>5. QED
    BY <2>2, <2>3, <2>4
<1>2. QED
  BY <1>1, SpecIInv, PTL

\* Whoever waits the Retry-After that hit computed meets a new window.
THEOREM RetryAfterSufficesHolds == Spec => []RetryAfterSuffices
<1>1. IInv => RetryAfterSuffices
  BY Zenon, RetryAfterIsEnough DEF IInv, TypeOK
<1>2. QED
  BY <1>1, SpecIInv, PTL

\* A private agent without a key was left so by its owner or by a creation that failed.
THEOREM PrivateComesWithKeyHolds == Spec => []PrivateComesWithKey
<1>1. IInv => PrivateComesWithKey
  BY Zenon DEF IInv
<1>2. QED
  BY <1>1, SpecIInv, PTL
=============================================================================
