--------------------------- MODULE Services_proofs ---------------------------
(***************************************************************************)
(* Proofs about services that work on lists: LogStream, for any replicas,  *)
(* lines and limit of a poll; RequestPipeline; AgentEnv, for any           *)
(* environments and overlapping deployments.                               *)
(***************************************************************************)
EXTENDS LogStream, RequestPipeline, AgentEnv, SumTheorems, SequenceTheorems, TLAPS

-----------------------------------------------------------------------------
(* What a filtering loop keeps. *)

LEMMA FunctionIsSeq ==
  ASSUME NEW S, NEW n \in Nat, NEW f \in [1 .. n -> S]
  PROVE  f \in Seq(S) /\ Len(f) = n
<1>1. f = [i \in 1 .. n |-> f[i]]
  BY Zenon
<1>2. [i \in 1 .. n |-> f[i]] \in Seq(S) /\ Len([i \in 1 .. n |-> f[i]]) = n
  OBVIOUS
<1>3. QED
  BY Zenon, <1>1, <1>2

IsOrder(S, s) ==
    /\ s \in [1 .. Cardinality(S) -> S]
    /\ \A i, j \in 1 .. Cardinality(S) : i < j => s[i] < s[j]
    /\ \A x \in S : \E i \in 1 .. Cardinality(S) : s[i] = x

\* The least element first, then the others in order.
LEMMA OrderWithLeast ==
  ASSUME NEW S \in SUBSET Nat, IsFiniteSet(S), NEW x \in S, \A y \in S : x <= y,
         NEW s, IsOrder(S \ {x}, s)
  PROVE  \E t : IsOrder(S, t)
<1> DEFINE n == Cardinality(S)
           t == [i \in 1 .. n |-> IF i = 1 THEN x ELSE s[i - 1]]
<1>1. n \in Nat /\ n > 0 /\ Cardinality(S \ {x}) = n - 1
  BY SubsetsFinite
<1> HIDE DEF n
<1>2. /\ s \in [1 .. n - 1 -> S \ {x}]
      /\ \A i, j \in 1 .. n - 1 : i < j => s[i] < s[j]
      /\ \A y \in S \ {x} : \E i \in 1 .. n - 1 : s[i] = y
  BY Zenon, <1>1 DEF IsOrder
<1>3. \A i \in 1 .. n : i # 1 => i - 1 \in 1 .. n - 1 /\ t[i] = s[i - 1] /\ t[i] \in S \ {x}
  BY <1>1, <1>2
<1>4. t[1] = x /\ 1 \in 1 .. n
  BY <1>1
<1>5. t \in [1 .. n -> S]
  BY Zenon, <1>2, <1>3, <1>4
<1>6. ASSUME NEW i \in 1 .. n, NEW j \in 1 .. n, i < j PROVE t[i] < t[j]
  <2>1. j # 1 /\ t[j] \in S \ {x}
    BY <1>3, <1>6
  <2>2. CASE i = 1
    <3> DEFINE y == t[j]
    <3>1. y \in S /\ y # x
      BY Zenon, <2>1
    <3> HIDE DEF y
    <3>2. x \in Nat /\ y \in Nat /\ x <= y
      BY Zenon, <3>1
    <3>3. x < y
      BY <3>1, <3>2
    <3>4. QED
      BY Zenon, <1>4, <2>2, <3>3 DEF y
  <2>3. CASE i # 1
    <3>1. i - 1 \in 1 .. n - 1 /\ j - 1 \in 1 .. n - 1 /\ i - 1 < j - 1
      BY <1>1, <1>6, <2>1, <2>3
    <3>2. s[i - 1] < s[j - 1]
      BY Zenon, <1>2, <3>1
    <3>3. QED
      BY Zenon, <1>3, <2>1, <2>3, <3>2
  <2>4. QED
    BY Zenon, <2>2, <2>3
<1>7. ASSUME NEW y \in S PROVE \E i \in 1 .. n : t[i] = y
  <2>1. CASE y = x
    BY Zenon, <1>4, <2>1
  <2>2. CASE y # x
    <3>1. PICK i \in 1 .. n - 1 : s[i] = y
      BY Zenon, <1>2, <2>2
    <3>2. i + 1 \in 1 .. n /\ i + 1 # 1 /\ (i + 1) - 1 = i
      BY <1>1
    <3>3. t[i + 1] = y
      BY Zenon, <3>1, <3>2
    <3>4. QED
      BY Zenon, <3>2, <3>3
  <2>3. QED
    BY Zenon, <2>1, <2>2
<1> HIDE DEF t
<1>8. IsOrder(S, t)
  BY Zenon, <1>5, <1>6, <1>7 DEF IsOrder, n
<1>9. QED
  BY Zenon, <1>8

LEMMA OrderExists ==
  ASSUME NEW S \in SUBSET Nat, IsFiniteSet(S)
  PROVE  \E s : IsOrder(S, s)
<1> DEFINE Bad == {m \in SUBSET S : ~\E s : IsOrder(m, s)}
<1> SUFFICES ASSUME Bad # {} PROVE FALSE
  BY Zenon
<1>1. PICK m \in Bad : \A x \in m : m \ {x} \notin Bad
  BY Zenon, SmallestSubset
<1>2. IsFiniteSet(m) /\ m \in SUBSET Nat
  BY Zenon, SubsetsFinite
<1>3. m # {}
  <2> SUFFICES ASSUME m = {} PROVE FALSE
    BY Zenon
  <2>1. Cardinality(m) = 0
    BY Zenon, FS_EmptySet
  <2>2. IsOrder(m, [i \in 1 .. 0 |-> i])
    BY <2>1 DEF IsOrder
  <2>3. QED
    BY Zenon, <2>2
<1>4. PICK x \in m : \A y \in m : x <= y
  BY Zenon, <1>2, <1>3, LeastNatural
<1>5. PICK s : IsOrder(m \ {x}, s)
  BY Zenon, <1>1
<1>6. QED
  BY Zenon, <1>2, <1>4, <1>5, OrderWithLeast

LEMMA InOrderIs ==
  ASSUME NEW S \in SUBSET Nat, IsFiniteSet(S)
  PROVE  IsOrder(S, InOrder(S)) /\ Cardinality(S) \in Nat
<1>1. PICK s : IsOrder(S, s)
  BY Zenon, OrderExists
<1>2. IsOrder(S, InOrder(S))
  BY Zenon, <1>1 DEF IsOrder, InOrder
<1>3. QED
  BY Zenon, <1>2, FS_CardinalityType

\* The list kept has the entries chosen and no other.
LEMMA KeepIs ==
  ASSUME NEW S, NEW s \in Seq(S), NEW T \in SUBSET (1 .. Len(s))
  PROVE  /\ Keep(s, T) \in Seq(S) /\ Len(Keep(s, T)) = Cardinality(T) /\ Cardinality(T) \in Nat
         /\ IsOrder(T, InOrder(T))
         /\ \A k \in 1 .. Cardinality(T) : InOrder(T)[k] \in T /\ Keep(s, T)[k] = s[InOrder(T)[k]]
<1> DEFINE at == InOrder(T)
           n == Cardinality(T)
<1>1. Len(s) \in Nat /\ \A i \in 1 .. Len(s) : s[i] \in S
  BY Zenon, ElementOfSeq, LenProperties
<1>2. T \in SUBSET Nat /\ IsFiniteSet(T)
  <2>1. IsFiniteSet(1 .. Len(s))
    BY <1>1, FS_Interval
  <2>2. IsFiniteSet(T)
    BY Zenon, <2>1, FS_Subset
  <2>3. T \in SUBSET Nat
    BY <1>1
  <2>4. QED
    BY Zenon, <2>2, <2>3
<1>3. IsOrder(T, at) /\ n \in Nat
  BY Zenon, <1>2, InOrderIs
<1>4. at \in [1 .. n -> T]
  BY Zenon, <1>3 DEF IsOrder
<1>5. Keep(s, T) = [k \in 1 .. n |-> s[at[k]]]
  BY Zenon DEF Keep
<1> HIDE DEF at, n
<1>6. Keep(s, T) \in [1 .. n -> S]
  BY Zenon, <1>1, <1>4, <1>5
<1>7. Keep(s, T) \in Seq(S) /\ Len(Keep(s, T)) = n
  BY Zenon, <1>3, <1>6, FunctionIsSeq
<1>8. QED
  BY Zenon, <1>3, <1>4, <1>5, <1>7 DEF at, n

-----------------------------------------------------------------------------
(* routers/agents.py: stream_logs *)

Line == [replica : ReplicaIds, at : Nat]

\* What a poll of the next moment returns again has been seen; what was seen was sent;
\* and without a burst everything was.
LogInv ==
    /\ lines \in Seq(Line) /\ polled \in 0 .. Len(lines) /\ burst \in BOOLEAN
    /\ sent \in Seq(1 .. polled) /\ SentOnceInOrder
    /\ \A i \in 1 .. polled : i > polled - Limit => lines[i] \in seen
    /\ \A k \in seen : \E n \in 1 .. Len(sent) : lines[sent[n]] = k
    /\ ~burst => \A i \in 1 .. polled : lines[i] \in seen

LEMMA LogInitInv == ASSUME LogConstantsOK, LogInit PROVE LogInv
<1>1. lines = <<>> /\ sent = <<>> /\ seen = {} /\ polled = 0 /\ burst = FALSE
  BY Zenon DEF LogInit
<1>2. lines \in Seq(Line) /\ Len(lines) = 0 /\ sent \in Seq(1 .. 0) /\ Len(sent) = 0
  BY Zenon, <1>1, EmptySeq
<1>3. SentOnceInOrder
  BY <1>2 DEF SentOnceInOrder
<1>4. burst \in BOOLEAN
  BY Zenon, <1>1
<1>5. QED
  BY <1>1, <1>2, <1>3, <1>4 DEF LogInv

\* The positions a poll sends.
Fresh == {i \in LastLines : Key(i) \notin seen /\ \A j \in LastLines : j < i => Key(j) # Key(i)}

LEMMA FreshTypes ==
  ASSUME LogConstantsOK, LogInv
  PROVE  /\ Fresh \in SUBSET Nat /\ IsFiniteSet(Fresh) /\ Fresh \subseteq 1 .. Len(lines)
         /\ Len(lines) \in Nat /\ polled \in Nat /\ polled <= Len(lines) /\ Limit \in Nat
<1>1. Len(lines) \in Nat /\ polled \in Nat /\ polled <= Len(lines) /\ Limit \in Nat
  BY DEF LogInv, LogConstantsOK
<1>2. Fresh \subseteq 1 .. Len(lines)
  BY Zenon DEF Fresh, LastLines
<1>3. IsFiniteSet(1 .. Len(lines))
  BY <1>1, FS_Interval
<1>4. IsFiniteSet(Fresh)
  BY Zenon, <1>2, <1>3, FS_Subset
<1>5. QED
  BY <1>1, <1>2, <1>4

\* A line that a poll sends was written after the poll before it.
LEMMA FreshIsNew ==
  ASSUME LogConstantsOK, LogInv, NEW i \in Fresh
  PROVE  i > polled
<1>1. i \in 1 .. Len(lines) /\ i > Len(lines) - Limit /\ lines[i] \notin seen
  BY Zenon DEF Fresh, LastLines, Key
<1>2. Len(lines) \in Nat /\ polled \in Nat /\ polled <= Len(lines) /\ Limit \in Nat
  BY Zenon, FreshTypes
<1>3. SUFFICES ASSUME i <= polled PROVE FALSE
  BY <1>1, <1>2
<1>4. i \in 1 .. polled /\ i > polled - Limit
  BY <1>1, <1>2, <1>3
<1>5. QED
  BY Zenon, <1>1, <1>4 DEF LogInv

\* What a poll returns has been sent before or is sent now, itself or its like.
LEMMA FreshCovers ==
  ASSUME LogConstantsOK, LogInv, NEW i \in LastLines, lines[i] \notin seen
  PROVE  \E j \in Fresh : lines[j] = lines[i]
<1> DEFINE Same == {j \in LastLines : lines[j] = lines[i]}
<1>1. Same \in SUBSET Nat /\ Same # {}
  BY DEF LastLines
<1>2. PICK j \in Same : \A k \in Same : j <= k
  BY Zenon, <1>1, LeastNatural
<1>3. \A k \in LastLines : k < j => lines[k] # lines[j]
  <2> SUFFICES ASSUME NEW k \in LastLines, k < j, lines[k] = lines[j] PROVE FALSE
    BY Zenon
  <2>1. k \in Same /\ k \in Nat /\ j \in Nat
    BY <1>2 DEF LastLines
  <2>2. QED
    BY <1>2, <2>1
<1>4. j \in Fresh
  BY Zenon, <1>2, <1>3 DEF Fresh, Key
<1>5. QED
  BY Zenon, <1>2, <1>4

\* What is sent, with the lines of a poll after it.
LEMMA SentThen ==
  ASSUME LogConstantsOK, LogInv, Poll
  PROVE  /\ sent' \in Seq(1 .. Len(lines)) /\ SentOnceInOrder'
         /\ \A n \in 1 .. Len(sent) : n \in 1 .. Len(sent') /\ sent'[n] = sent[n]
         /\ \A j \in Fresh : \E n \in 1 .. Len(sent') : sent'[n] = j
<1> DEFINE c == Cardinality(Fresh)
           U == InOrder(Fresh)
           L == Len(lines)
           m == Len(sent)
<1>1. /\ Fresh \in SUBSET Nat /\ IsFiniteSet(Fresh) /\ Fresh \subseteq 1 .. L
      /\ L \in Nat /\ polled \in Nat /\ polled <= L
  BY Zenon, FreshTypes
<1>2. IsOrder(Fresh, U) /\ c \in Nat
  BY Zenon, <1>1, InOrderIs
<1>3. /\ U \in [1 .. c -> Fresh]
      /\ \A i, j \in 1 .. c : i < j => U[i] < U[j]
      /\ \A x \in Fresh : \E i \in 1 .. c : U[i] = x
  BY Zenon, <1>2 DEF IsOrder
<1>4. sent' = sent \o U
  BY Zenon DEF Poll, Unsent, Fresh
<1> HIDE DEF c, U, L
<1>5. sent \in Seq(1 .. L) /\ m \in Nat /\ \A n \in 1 .. m : sent[n] \in 1 .. polled
  <2>1. sent \in Seq(1 .. polled) /\ 1 .. polled \subseteq 1 .. L
    BY <1>1 DEF LogInv
  <2>2. sent \in Seq(1 .. L)
    BY Zenon, <2>1, SeqMonotonic
  <2>3. QED
    BY Zenon, <2>1, <2>2, ElementOfSeq, LenProperties
<1>6. U \in Seq(1 .. L) /\ Len(U) = c
  <2>1. U \in [1 .. c -> 1 .. L]
    BY Zenon, <1>1, <1>3
  <2>2. QED
    BY Zenon, <1>2, <2>1, FunctionIsSeq
<1>7. /\ sent' \in Seq(1 .. L) /\ Len(sent') = m + c
      /\ \A n \in 1 .. m : sent'[n] = sent[n]
      /\ \A n \in m + 1 .. m + c : sent'[n] = U[n - m]
  <2>1. /\ sent' \in Seq(1 .. L) /\ Len(sent') = m + c
        /\ \A n \in 1 .. m + c : sent'[n] = IF n <= m THEN sent[n] ELSE U[n - m]
    BY Zenon, <1>4, <1>5, <1>6, ConcatProperties
  <2>2. \A n \in 1 .. m : n \in 1 .. m + c /\ n <= m
    BY <1>2, <1>5
  <2>3. \A n \in m + 1 .. m + c : n \in 1 .. m + c /\ ~(n <= m)
    BY <1>2, <1>5
  <2>4. QED
    BY Zenon, <2>1, <2>2, <2>3
<1>8. ASSUME NEW i \in 1 .. m + c, NEW j \in 1 .. m + c, i < j PROVE sent'[i] < sent'[j]
  <2>1. CASE j <= m
    <3>1. i \in 1 .. m /\ j \in 1 .. m
      BY <1>2, <1>5, <1>8, <2>1
    <3>2. sent[i] < sent[j]
      BY Zenon, <1>8, <3>1 DEF LogInv, SentOnceInOrder
    <3>3. QED
      BY Zenon, <1>7, <3>1, <3>2
  <2>2. CASE i <= m /\ j > m
    <3>1. i \in 1 .. m /\ j \in m + 1 .. m + c /\ j - m \in 1 .. c
      BY <1>2, <1>5, <1>8, <2>2
    <3>2. sent'[i] \in 1 .. polled
      BY Zenon, <1>5, <1>7, <3>1
    <3>3. sent'[j] \in Fresh
      BY Zenon, <1>3, <1>7, <3>1
    <3>4. sent'[j] > polled /\ sent'[j] \in Nat
      BY Zenon, <1>1, <3>3, FreshIsNew
    <3>5. QED
      BY <1>1, <3>2, <3>4
  <2>3. CASE i > m
    <3>1. /\ i \in m + 1 .. m + c /\ j \in m + 1 .. m + c
          /\ i - m \in 1 .. c /\ j - m \in 1 .. c /\ i - m < j - m
      BY <1>2, <1>5, <1>8, <2>3
    <3>2. U[i - m] < U[j - m]
      BY Zenon, <1>3, <3>1
    <3>3. QED
      BY Zenon, <1>7, <3>1, <3>2
  <2>4. QED
    BY <1>2, <1>5, <2>1, <2>2, <2>3
<1>9. SentOnceInOrder'
  BY Zenon, <1>7, <1>8 DEF SentOnceInOrder
<1>10. ASSUME NEW j \in Fresh PROVE \E n \in 1 .. Len(sent') : sent'[n] = j
  <2>1. PICK i \in 1 .. c : U[i] = j
    BY Zenon, <1>3
  <2>2. m + i \in m + 1 .. m + c /\ m + i \in 1 .. m + c /\ (m + i) - m = i
    BY <1>2, <1>5
  <2>3. sent'[m + i] = j
    BY Zenon, <1>7, <2>1, <2>2
  <2>4. QED
    BY Zenon, <1>7, <2>2, <2>3
<1>11. \A n \in 1 .. m : n \in 1 .. Len(sent') /\ sent'[n] = sent[n]
  BY <1>2, <1>5, <1>7
<1>12. QED
  BY Zenon, <1>7, <1>9, <1>10, <1>11 DEF L

LEMMA PollStep == ASSUME LogConstantsOK, LogInv, Poll PROVE LogInv'
<1> DEFINE L == Len(lines)
<1>1. /\ sent' \in Seq(1 .. L) /\ SentOnceInOrder'
      /\ \A n \in 1 .. Len(sent) : n \in 1 .. Len(sent') /\ sent'[n] = sent[n]
      /\ \A j \in Fresh : \E n \in 1 .. Len(sent') : sent'[n] = j
  BY Zenon, SentThen
<1>2. L \in Nat /\ polled \in Nat /\ polled <= L /\ Limit \in Nat
  BY Zenon, FreshTypes
<1>3. /\ lines' = lines /\ polled' = L
      /\ seen' = seen \cup {lines[i] : i \in LastLines}
  BY Zenon DEF Poll, Key
<1>4. burst' <=> (burst \/ L - polled > Limit)
  BY Zenon DEF Poll
<1>5. burst' \in BOOLEAN
  BY Zenon DEF Poll
<1>6. \A i \in 1 .. L : i > L - Limit => lines[i] \in seen'
  BY Zenon, <1>3 DEF LastLines
<1>7. ASSUME NEW k \in seen' PROVE \E n \in 1 .. Len(sent') : lines[sent'[n]] = k
  <2>1. CASE k \in seen
    <3>1. PICK n \in 1 .. Len(sent) : lines[sent[n]] = k
      BY Zenon, <2>1 DEF LogInv
    <3>2. n \in 1 .. Len(sent') /\ lines[sent'[n]] = k
      BY Zenon, <1>1, <3>1
    <3>3. QED
      BY Zenon, <3>2
  <2>2. CASE k \notin seen
    <3>1. PICK i \in LastLines : lines[i] = k
      BY Zenon, <1>3, <2>2
    <3>2. PICK j \in Fresh : lines[j] = k
      BY Zenon, <2>2, <3>1, FreshCovers
    <3>3. PICK n \in 1 .. Len(sent') : sent'[n] = j
      BY Zenon, <1>1
    <3>4. QED
      BY Zenon, <3>2, <3>3
  <2>3. QED
    BY Zenon, <2>1, <2>2
<1>8. ASSUME ~burst', NEW i \in 1 .. L PROVE lines[i] \in seen'
  <2>1. ~burst /\ L - polled <= Limit
    BY <1>2, <1>4, <1>8
  <2>2. CASE i <= polled
    <3>1. i \in 1 .. polled
      BY <1>2, <2>2
    <3>2. lines[i] \in seen
      BY Zenon, <2>1, <3>1 DEF LogInv
    <3>3. QED
      BY Zenon, <1>3, <3>2
  <2>3. CASE i > polled
    <3>1. i > L - Limit
      BY <1>2, <2>1, <2>3
    <3>2. QED
      BY Zenon, <1>6, <3>1
  <2>4. QED
    BY <1>2, <2>2, <2>3
<1>9. L \in 0 .. L
  BY <1>2
<1>10. QED
  BY Zenon, <1>1, <1>3, <1>5, <1>6, <1>7, <1>8, <1>9 DEF LogInv

\* What was written stays where it is.
LEMMA WriteStep ==
  ASSUME LogConstantsOK, LogInv, NEW replica \in ReplicaIds, NEW later \in {0, 1}, Write(replica, later)
  PROVE  LogInv'
<1> DEFINE last == IF lines = <<>> THEN 0 ELSE lines[Len(lines)].at
           new == [replica |-> replica, at |-> last + later]
<1>0. lines \in Seq(Line) /\ Len(lines) \in Nat /\ polled \in 0 .. Len(lines)
  BY DEF LogInv
<1>1. last \in Nat
  <2>1. CASE lines = <<>>
    BY Zenon, <2>1
  <2>2. CASE lines # <<>>
    <3>1. Len(lines) \in 1 .. Len(lines)
      BY <1>0, <2>2, EmptySeq
    <3>2. lines[Len(lines)] \in Line
      BY Zenon, <1>0, <3>1, ElementOfSeq
    <3>3. QED
      BY Zenon, <2>2, <3>2 DEF Line
  <2>3. QED
    BY Zenon, <2>1, <2>2
<1> HIDE DEF last
<1>2. new \in Line
  BY <1>1 DEF Line
<1>3. lines' = Append(lines, new) /\ UNCHANGED <<seen, sent, polled, burst>>
  BY Zenon DEF Write, last
<1> HIDE DEF new
<1>4. /\ lines' \in Seq(Line) /\ Len(lines') = Len(lines) + 1
      /\ \A i \in 1 .. Len(lines) : lines'[i] = lines[i]
  BY <1>0, <1>2, <1>3, AppendProperties
<1>5. polled' \in 0 .. Len(lines') /\ \A i \in 1 .. polled : i \in 1 .. Len(lines)
  BY <1>0, <1>3, <1>4
<1>6. \A n \in 1 .. Len(sent) : sent[n] \in 1 .. polled
  BY Zenon, ElementOfSeq DEF LogInv
<1>7. \A n \in 1 .. Len(sent) : lines'[sent[n]] = lines[sent[n]]
  BY Zenon, <1>4, <1>5, <1>6
<1>8. SentOnceInOrder'
  BY Zenon, <1>3 DEF LogInv, SentOnceInOrder
<1>9. \A i \in 1 .. polled : lines'[i] = lines[i]
  BY Zenon, <1>4, <1>5
<1>10. \A k \in seen : \E n \in 1 .. Len(sent) : lines'[sent[n]] = k
  BY Zenon, <1>7 DEF LogInv
<1>11. /\ \A i \in 1 .. polled : i > polled - Limit => lines'[i] \in seen
       /\ ~burst => \A i \in 1 .. polled : lines'[i] \in seen
  BY Zenon, <1>9 DEF LogInv
<1>12. burst \in BOOLEAN /\ sent \in Seq(1 .. polled)
  BY Zenon DEF LogInv
<1>13. QED
  BY Zenon, <1>3, <1>4, <1>5, <1>8, <1>10, <1>11, <1>12 DEF LogInv

LEMMA LogNextInv == ASSUME LogConstantsOK, LogInv, [LogNext]_logVars PROVE LogInv'
<1>1. CASE Poll
  BY Zenon, <1>1, PollStep
<1>2. ASSUME NEW replica \in ReplicaIds, NEW later \in {0, 1}, Write(replica, later) PROVE LogInv'
  BY Zenon, <1>2, WriteStep
<1>3. CASE Disconnect \/ (\E database \in BOOLEAN : PollFails(database)) \/ UNCHANGED logVars
  <2>1. UNCHANGED <<lines, seen, sent, polled, burst>>
    BY Zenon, <1>3 DEF Disconnect, PollFails, logVars
  <2>2. QED
    BY Zenon, <2>1 DEF LogInv, SentOnceInOrder
<1>4. QED
  BY Zenon, <1>1, <1>2, <1>3 DEF LogNext

LEMMA LogSpecInv == ASSUME LogConstantsOK PROVE LogSpec => []LogInv
<1>1. LogInit => LogInv
  BY Zenon, LogInitInv
<1>2. LogInv /\ [LogNext]_logVars => LogInv'
  BY Zenon, LogNextInv
<1>3. QED
  BY <1>1, <1>2, PTL DEF LogSpec

\* stream_logs: for any number of replicas and lines and any limit of a poll, no line
\* is sent twice and lines are sent in the order they were written.
THEOREM SentOnceInOrderHolds ==
  ASSUME LogConstantsOK PROVE LogSpec => []SentOnceInOrder
<1>1. LogInv => SentOnceInOrder
  BY Zenon DEF LogInv
<1>2. QED
  BY <1>1, LogSpecInv, PTL

\* stream_logs: without a burst of more than the limit between two polls, every line
\* that had been written at the last poll was sent, or one with its key.
THEOREM MissedOnlyInBurstHolds ==
  ASSUME LogConstantsOK PROVE LogSpec => []MissedOnlyInBurst
<1>1. LogInv => MissedOnlyInBurst
  BY Zenon DEF LogInv, MissedOnlyInBurst
<1>2. QED
  BY <1>1, LogSpecInv, PTL

-----------------------------------------------------------------------------
(* observability.py and error_handlers.py *)

\* The status the middleware would log is that of the response, or 500 for a response
\* that is still to come.
StatusKnown == status = statusCode \/ (status = 0 /\ statusCode = 500)

PipeInv ==
    /\ stage = "new" => status = 0
    /\ stage \in {"new", "handling"} => logged = 0
    /\ logged # 0 => logged = statusCode
    /\ stage # "over" \/ logged # 0 => StatusKnown
    /\ EveryAnswerHasItsId

HasId(list, i) ==
    \E k \in DOMAIN list :
        /\ list[k] = <<"x-request-id", i>>
        /\ \A j \in DOMAIN list : list[j][1] = "x-request-id" => j = k

\* Whatever headers a response has, send_with_id leaves one id, the request's.
LEMMA OneId ==
  ASSUME NEW S, NEW own \in Seq(S), NEW i
  PROVE  HasId(Append(Keep(own, {k \in DOMAIN own : own[k][1] # "x-request-id"}),
                      <<"x-request-id", i>>), i)
<1> DEFINE T == {k \in DOMAIN own : own[k][1] # "x-request-id"}
           new == <<"x-request-id", i>>
           kept == Keep(own, T)
           n == Cardinality(T)
           all == Append(kept, new)
<1>1. T \in SUBSET (1 .. Len(own))
  BY Zenon, LenProperties
<1>2. own \in Seq(S \cup {new})
  BY Zenon, SeqMonotonic
<1>3. /\ kept \in Seq(S \cup {new}) /\ Len(kept) = n /\ n \in Nat
      /\ \A k \in 1 .. n : InOrder(T)[k] \in T /\ kept[k] = own[InOrder(T)[k]]
  BY <1>1, <1>2, KeepIs
<1>4. \A k \in 1 .. n : kept[k][1] # "x-request-id"
  BY Zenon, <1>3
<1>5. new \in S \cup {new} /\ new[1] = "x-request-id"
  BY Zenon
<1> HIDE DEF kept, n, new
<1>6. /\ all \in Seq(S \cup {new}) /\ Len(all) = n + 1
      /\ \A k \in 1 .. n : all[k] = kept[k]
      /\ all[n + 1] = new
  BY <1>3, <1>5, AppendProperties
<1> HIDE DEF all
<1>7. DOMAIN all = 1 .. n + 1
  BY Zenon, <1>6, LenProperties
<1>8. n + 1 \in DOMAIN all /\ \A j \in DOMAIN all : j # n + 1 => j \in 1 .. n
  BY <1>3, <1>7
<1>9. HasId(all, i)
  BY <1>4, <1>6, <1>8 DEF HasId, new
<1>10. QED
  BY Zenon, <1>9 DEF all, kept, new

LEMMA SendStep ==
  ASSUME PipeInv, stage = "handling", status = 0, NEW S, NEW own \in Seq(S), NEW code,
         send_with_id(code, own), UNCHANGED <<stage, id, quiet, logged>>
  PROVE  PipeInv'
<1>1. status' = code /\ statusCode' = code /\ id' = id
  BY Zenon DEF send_with_id
<1>2. HasId(headers', id)
  BY Zenon, OneId DEF send_with_id
<1>3. EveryAnswerHasItsId'
  BY Zenon, <1>1, <1>2 DEF EveryAnswerHasItsId, HasId
<1>4. logged' = 0 /\ stage' = "handling"
  BY Zenon DEF PipeInv
<1>5. StatusKnown'
  BY Zenon, <1>1 DEF StatusKnown
<1>6. QED
  BY Zenon, <1>3, <1>4, <1>5 DEF PipeInv

\* The lists of headers that responses bring are lists of headers.
LEMMA OwnHeaders ==
  ASSUME NEW S, NEW x \in S
  PROVE  <<>> \in Seq(S) /\ <<x>> \in Seq(S)
  OBVIOUS

\* The middleware's `finally': what is logged is what the middleware knows.
LEMMA FinallyStep ==
  ASSUME PipeInv, stage = "handling", stage' \in {"raised", "over"}, WriteLog,
         UNCHANGED <<id, quiet, status, headers, statusCode>>
  PROVE  PipeInv'
<1>1. logged' = 0 \/ logged' = statusCode
  BY Zenon DEF WriteLog, PipeInv
<1>2. StatusKnown /\ StatusKnown'
  BY Zenon DEF PipeInv, StatusKnown
<1>3. EveryAnswerHasItsId'
  BY Zenon DEF PipeInv, EveryAnswerHasItsId
<1>4. QED
  BY Zenon, <1>1, <1>2, <1>3 DEF PipeInv

LEMMA PipeNextInv == ASSUME PipeInv, [PipeNext]_pipeVars PROVE PipeInv'
<1>1. ASSUME NEW wellFormed \in BOOLEAN, ReceiveRequest(wellFormed) PROVE PipeInv'
  <2>1. /\ stage = "new" /\ stage' = "handling" /\ UNCHANGED <<status, headers, statusCode, logged>>
        /\ status = 0 /\ logged = 0 /\ StatusKnown
    BY Zenon, <1>1 DEF ReceiveRequest, PipeInv
  <2>2. QED
    BY Zenon, <2>1 DEF PipeInv, StatusKnown, EveryAnswerHasItsId
<1>2. ASSUME NEW own \in {<<>>, << <<"x-request-id", "own">> >>, <<RetryAfter>>}, StartResponse(own)
      PROVE  PipeInv'
  <2> DEFINE h == <<"x-request-id", "own">>
             S == {h, RetryAfter}
  <2>1. own \in Seq(S)
    <3>1. h \in S /\ RetryAfter \in S
      BY Zenon
    <3>2. own = <<>> \/ own = <<h>> \/ own = <<RetryAfter>>
      BY Zenon
    <3> HIDE DEF h, S
    <3>3. QED
      BY Zenon, <3>1, <3>2, OwnHeaders
  <2> HIDE DEF S
  <2>2. QED
    BY Zenon, <1>2, <2>1, SendStep DEF StartResponse
<1>3. ASSUME NEW e \in DOMAIN Parent \cup {"Exception"}, HandlerRaises(e) PROVE PipeInv'
  <2> DEFINE code == IF e = "RequestValidationError" THEN 422 ELSE _status_for(e)
             own == IF e = "RateLimitExceededError" THEN <<RetryAfter>> ELSE <<>>
  <2> HIDE DEF code
  <2>1. CASE e \in DOMAIN Parent /\ status = 0
    <3>1. own \in Seq({RetryAfter})
      <4>1. own = <<>> \/ own = <<RetryAfter>>
        BY Zenon
      <4>2. QED
        BY Zenon, <4>1, OwnHeaders
    <3> HIDE DEF own
    <3>2. stage = "handling" /\ send_with_id(code, own) /\ UNCHANGED <<stage, id, quiet, logged>>
      BY Zenon, <1>3, <2>1 DEF HandlerRaises, code, own
    <3>3. QED
      BY Zenon, <2>1, <3>1, <3>2, SendStep
  <2>2. CASE ~(e \in DOMAIN Parent /\ status = 0)
    <3>1. /\ stage = "handling" /\ stage' = "raised" /\ WriteLog
          /\ UNCHANGED <<id, quiet, status, headers, statusCode>>
      BY Zenon, <1>3, <2>2 DEF HandlerRaises
    <3>2. QED
      BY Zenon, <3>1, FinallyStep
  <2>3. QED
    BY Zenon, <2>1, <2>2
<1>4. CASE EndResponse \/ CallerLeaves
  <2>1. /\ stage = "handling" /\ stage' = "over" /\ WriteLog
        /\ UNCHANGED <<id, quiet, status, headers, statusCode>>
    BY Zenon, <1>4 DEF EndResponse, CallerLeaves
  <2>2. QED
    BY Zenon, <2>1, FinallyStep
<1>5. CASE unhandled_error_handler
  <2>1. stage = "raised" /\ stage' = "over" /\ UNCHANGED <<id, statusCode, logged>> /\ StatusKnown
    BY Zenon, <1>5 DEF unhandled_error_handler, PipeInv
  <2>2. CASE status = 0
    <3>1. status' = 500 /\ headers' = << <<"x-request-id", id>> >>
      BY Zenon, <1>5, <2>2 DEF unhandled_error_handler
    <3>2. EveryAnswerHasItsId'
      BY <2>1, <3>1 DEF EveryAnswerHasItsId
    <3>3. logged' # 0 => StatusKnown'
      BY Zenon, <2>1, <2>2, <3>1 DEF PipeInv, StatusKnown
    <3>4. QED
      BY Zenon, <2>1, <3>2, <3>3 DEF PipeInv
  <2>3. CASE status # 0
    <3>1. UNCHANGED <<status, headers>>
      BY Zenon, <1>5, <2>3 DEF unhandled_error_handler
    <3>2. QED
      BY <2>1, <3>1 DEF PipeInv, StatusKnown, EveryAnswerHasItsId
  <2>4. QED
    BY Zenon, <2>2, <2>3
<1>6. CASE UNCHANGED pipeVars
  BY <1>6 DEF pipeVars, PipeInv, StatusKnown, EveryAnswerHasItsId
<1>7. QED
  BY Zenon, <1>1, <1>2, <1>3, <1>4, <1>5, <1>6 DEF PipeNext

LEMMA PipeSpecInv == PipeSpec => []PipeInv
<1>1. PipeInit => PipeInv
  BY DEF PipeInit, PipeInv, StatusKnown, EveryAnswerHasItsId
<1>2. PipeInv /\ [PipeNext]_pipeVars => PipeInv'
  BY Zenon, PipeNextInv
<1>3. QED
  BY <1>1, <1>2, PTL DEF PipeSpec

\* RequestContextMiddleware and the error handlers: every response, whichever layer
\* answers, carries the id of its request exactly once.
THEOREM EveryAnswerHasItsIdHolds == PipeSpec => []EveryAnswerHasItsId
<1>1. PipeInv => EveryAnswerHasItsId
  BY Zenon DEF PipeInv
<1>2. QED
  BY <1>1, PipeSpecInv, PTL

\* RequestContextMiddleware: the status on the access log line is that of the response,
\* whatever codes the map of error_handlers.py holds.
THEOREM LogTellsTheStatusHolds == PipeSpec => []LogTellsTheStatus
<1>1. PipeInv => LogTellsTheStatus
  BY DEF PipeInv, StatusKnown, LogTellsTheStatus
<1>2. QED
  BY <1>1, PipeSpecInv, PTL

-----------------------------------------------------------------------------
(* error_handlers.py: _status_for *)

Class(m) == _STATUS_MAP[m][1]
Code(m) == _STATUS_MAP[m][2]

\* The map, row by row.
LEMMA MapRows ==
  /\ DOMAIN _STATUS_MAP = 1 .. 15
  /\ Class(1) = "AuthenticationError" /\ Code(1) = 401
  /\ Class(2) = "AuthorisationError" /\ Code(2) = 403
  /\ Class(3) = "InvalidInviteError" /\ Code(3) = 403
  /\ Class(4) = "QuotaExceededError" /\ Code(4) = 403
  /\ Class(5) = "InvalidWebhookError" /\ Code(5) = 400
  /\ Class(6) = "BillingConflictError" /\ Code(6) = 409
  /\ Class(7) = "BillingNotConfiguredError" /\ Code(7) = 503
  /\ Class(8) = "RegistrationClosedError" /\ Code(8) = 403
  /\ Class(9) = "NotFoundError" /\ Code(9) = 404
  /\ Class(10) = "ApiKeyNotFoundError" /\ Code(10) = 404
  /\ Class(11) = "EmailAlreadyRegisteredError" /\ Code(11) = 409
  /\ Class(12) = "RateLimitExceededError" /\ Code(12) = 429
  /\ Class(13) = "NotImplementedStubError" /\ Code(13) = 501
  /\ Class(14) = "BuildNotSupportedError" /\ Code(14) = 501
  /\ Class(15) = "DeploymentFailedError" /\ Code(15) = 502
  BY SMTT(30) DEF _STATUS_MAP, Class, Code

LEMMA Rows ==
  ASSUME NEW m \in 1 .. 15
  PROVE  m \in {1, 2, 3, 4, 5, 6, 7, 8, 9, 10, 11, 12, 13, 14, 15}
  OBVIOUS

\* Every error's base is one of three, and NotFoundError's is AgntSparkError.
LEMMA ParentFacts ==
  /\ \A e \in DOMAIN Parent : Parent[e] \in {"Exception", "AgntSparkError", "NotFoundError"}
  /\ Parent["NotFoundError"] = "AgntSparkError" /\ Parent["AgntSparkError"] = "Exception"
  /\ {"NotFoundError", "AgntSparkError"} \subseteq DOMAIN Parent /\ "Exception" \notin DOMAIN Parent
  BY DEF Parent

\* The roots have no row; a class has at most one; of NotFoundError and its kinds that
\* have one, all have the same code.
LEMMA MapFacts ==
  ASSUME NEW m \in 1 .. 15
  PROVE  /\ Class(m) \notin {"Exception", "AgntSparkError"}
         /\ Class(m) = "NotFoundError" => Code(m) = 404
         /\ Class(m) \in DOMAIN Parent
         /\ Parent[Class(m)] = "NotFoundError" => Code(m) = 404
<1>1. Class(m) \notin {"Exception", "AgntSparkError"} /\ (Class(m) = "NotFoundError" => Code(m) = 404)
  BY SMTT(30), MapRows, Rows
<1>2. Class(m) \in DOMAIN Parent /\ (Parent[Class(m)] = "NotFoundError" => Code(m) = 404)
  BY SMTT(30), MapRows, Rows DEF Parent
<1>3. QED
  BY Zenon, <1>1, <1>2

LEMMA RowsDiffer ==
  ASSUME NEW m \in 1 .. 15, NEW k \in 1 .. 15, Class(m) = Class(k)
  PROVE  Code(m) = Code(k)
  BY SMTT(30), MapRows, Rows

LEMMA RowIsPair ==
  ASSUME NEW m \in 1 .. 15
  PROVE  _STATUS_MAP[m] = <<Class(m), Code(m)>>
  BY Rows DEF _STATUS_MAP, Class, Code

\* Of the bases of an error only itself and the next one can have a row.
LEMMA BaseFacts ==
  ASSUME NEW e \in DOMAIN Parent
  PROVE  /\ Bases(e)[1] = e /\ Bases(e)[2] = Parent[e]
         /\ Bases(e)[3] \in {"Exception", "AgntSparkError"} /\ Bases(e)[4] = "Exception"
<1> DEFINE up(c) == IF c \in DOMAIN Parent THEN Parent[c] ELSE "Exception"
<1>1. up(e) = Parent[e] /\ Parent[e] \in {"Exception", "AgntSparkError", "NotFoundError"}
  BY Zenon, ParentFacts
<1>2. up("Exception") = "Exception" /\ up("AgntSparkError") = "Exception"
      /\ up("NotFoundError") = "AgntSparkError"
  BY Zenon, ParentFacts
<1>3. up(up(e)) \in {"Exception", "AgntSparkError"}
  BY Zenon, <1>1, <1>2
<1>4. Bases(e) = <<e, up(e), up(up(e)), "Exception">>
  BY Zenon DEF Bases
<1> HIDE DEF up
<1>5. QED
  BY <1>1, <1>3, <1>4

\* The rows that match an error, wherever they stand, have one code.
LEMMA OneCode ==
  ASSUME NEW e \in DOMAIN Parent, NEW m \in 1 .. 15, NEW k \in 1 .. 15,
         isinstance(e, Class(m)), isinstance(e, Class(k))
  PROVE  Code(m) = Code(k)
<1>1. /\ Class(m) = e \/ Class(m) = Parent[e]
      /\ Class(k) = e \/ Class(k) = Parent[e]
  <2>1. ASSUME NEW n \in 1 .. 15, isinstance(e, Class(n)) PROVE Class(n) = e \/ Class(n) = Parent[e]
    <3>1. PICK i \in 1 .. 4 : Bases(e)[i] = Class(n)
      BY Zenon, <2>1 DEF isinstance
    <3>2. i = 1 \/ i = 2 \/ i = 3 \/ i = 4
      OBVIOUS
    <3>3. Class(n) \notin {"Exception", "AgntSparkError"}
      BY Zenon, MapFacts
    <3>4. QED
      BY <3>1, <3>2, <3>3, BaseFacts
  <2>2. QED
    BY Zenon, <2>1
<1>2. CASE Class(m) = Class(k)
  BY Zenon, <1>2, RowsDiffer
<1>3. CASE Class(m) # Class(k)
  <2>1. Parent[e] = "NotFoundError"
    <3>1. Parent[e] \notin {"Exception", "AgntSparkError"}
      BY <1>1, <1>3, MapFacts
    <3>2. QED
      BY Zenon, <3>1, ParentFacts
  <2>2. Code(m) = 404 /\ Code(k) = 404
    BY <1>1, <2>1, MapFacts
  <2>3. QED
    BY Zenon, <2>2
<1>4. QED
  BY Zenon, <1>2, <1>3

\* What CodeOfNearestBase says of an error e answered with code c.
Nearest(e, c) ==
    LET coded == {i \in 1 .. 4 : \E m \in DOMAIN _STATUS_MAP : _STATUS_MAP[m][1] = Bases(e)[i]}
        nearest == CHOOSE i \in coded : \A j \in coded : i <= j
    IN  IF coded = {} THEN c = 500
        ELSE \E m \in DOMAIN _STATUS_MAP : _STATUS_MAP[m] = <<Bases(e)[nearest], c>>

LEMMA StatusForNearest ==
  ASSUME NEW e \in DOMAIN Parent
  PROVE  Nearest(e, _status_for(e))
<1> DEFINE hits == {m \in 1 .. 15 : isinstance(e, Class(m))}
           first == CHOOSE m \in hits : \A k \in hits : m <= k
           coded == {i \in 1 .. 4 : \E m \in 1 .. 15 : Class(m) = Bases(e)[i]}
           nearest == CHOOSE i \in coded : \A j \in coded : i <= j
<1>1. DOMAIN _STATUS_MAP = 1 .. 15
  BY MapRows
<1>2. _status_for(e) = IF hits = {} THEN 500 ELSE Code(first)
  BY <1>1 DEF _status_for, Class, Code
<1>3. SUFFICES IF coded = {} THEN _status_for(e) = 500
               ELSE \E m \in 1 .. 15 : _STATUS_MAP[m] = <<Bases(e)[nearest], _status_for(e)>>
  BY ZenonT(30), <1>1 DEF Nearest, Class
<1>4. CASE coded = {}
  <2>1. hits = {}
    BY Zenon, <1>4 DEF isinstance
  <2>2. QED
    BY Zenon, <1>2, <1>4, <2>1
<1>5. CASE coded # {}
  <2>1. coded \in SUBSET Nat
    OBVIOUS
  <2>2. nearest \in coded
    <3>1. \E i \in coded : \A j \in coded : i <= j
      BY Zenon, <1>5, <2>1, LeastNatural
    <3>2. QED
      BY Zenon, <3>1
  <2>3. PICK m \in 1 .. 15 : Class(m) = Bases(e)[nearest]
    BY ZenonT(30), <2>2
  <2>4. m \in hits
    BY Zenon, <2>2, <2>3 DEF isinstance
  <2>5. first \in hits
    <3>1. hits \in SUBSET Nat /\ hits # {}
      BY <2>4
    <3>2. \E k \in hits : \A j \in hits : k <= j
      BY Zenon, <3>1, LeastNatural
    <3>3. QED
      BY Zenon, <3>2
  <2>6. Code(first) = Code(m)
    BY Zenon, <2>4, <2>5, OneCode
  <2>7. _STATUS_MAP[m] = <<Bases(e)[nearest], _status_for(e)>>
    BY Zenon, <1>2, <2>3, <2>4, <2>6, RowIsPair
  <2>8. QED
    BY Zenon, <1>5, <2>7
<1>6. QED
  BY Zenon, <1>4, <1>5

\* A response that an error did not shape is the handler's own, and an error that goes
\* past the handlers with nothing sent is one that none is registered for.
ErrorInv ==
    /\ error = "none" => status \in {0, 200}
    /\ stage = "raised" => error # "none"
    /\ stage = "raised" /\ status = 0 => error \notin DOMAIN Parent
    /\ CodeOfNearestBase

LEMMA ErrorNextInv == ASSUME ErrorInv, [PipeNext]_pipeVars PROVE ErrorInv'
<1>0. "none" \notin DOMAIN Parent
  BY Zenon DEF Parent
<1>1. ASSUME NEW own, StartResponse(own) PROVE ErrorInv'
  <2>1. status' = 200 /\ error' = error /\ stage = "handling" /\ stage' = "handling"
    BY Zenon, <1>1 DEF StartResponse, send_with_id
  <2>2. QED
    BY Zenon, <2>1 DEF ErrorInv, CodeOfNearestBase
<1>2. ASSUME NEW e \in DOMAIN Parent \cup {"Exception"}, HandlerRaises(e) PROVE ErrorInv'
  <2>0. error = "none" /\ error' = e /\ status \in {0, 200} /\ stage = "handling"
    BY Zenon, <1>2 DEF HandlerRaises, ErrorInv
  <2>1. CASE e \in DOMAIN Parent /\ status = 0
    <3>1. stage' = "handling" /\ (e # "RequestValidationError" => status' = _status_for(e))
      BY Zenon, <1>2, <2>0, <2>1 DEF HandlerRaises, send_with_id
    <3>2. CodeOfNearestBase'
      <4>1. e # "RequestValidationError" => Nearest(e, status')
        BY Zenon, <2>1, <3>1, StatusForNearest
      <4>2. error' # "RequestValidationError" => Nearest(error', status')
        BY Zenon, <2>0, <4>1
      <4>3. QED
        BY Zenon, <4>2 DEF CodeOfNearestBase, Nearest, Bases
    <3>3. QED
      BY Zenon, <1>0, <2>0, <2>1, <3>1, <3>2 DEF ErrorInv
  <2>2. CASE ~(e \in DOMAIN Parent /\ status = 0)
    <3>1. status' = status
      BY Zenon, <1>2, <2>2 DEF HandlerRaises
    <3>2. CodeOfNearestBase'
      BY Zenon, <2>0, <3>1 DEF CodeOfNearestBase
    <3>3. e # "none"
      BY Zenon, <1>0
    <3>4. QED
      BY Zenon, <2>0, <2>2, <3>1, <3>2, <3>3 DEF ErrorInv
  <2>3. QED
    BY Zenon, <2>1, <2>2
<1>3. CASE unhandled_error_handler
  <2>1. stage = "raised" /\ stage' = "over" /\ error' = error
    BY Zenon, <1>3 DEF unhandled_error_handler
  <2>2. CASE status = 0
    <3>1. error \notin DOMAIN Parent
      BY Zenon, <2>1, <2>2 DEF ErrorInv
    <3>2. CodeOfNearestBase'
      BY Zenon, <2>1, <3>1 DEF CodeOfNearestBase
    <3>3. QED
      BY Zenon, <2>1, <2>2, <3>1, <3>2 DEF ErrorInv
  <2>3. CASE status # 0
    <3>1. status' = status
      BY Zenon, <1>3, <2>3 DEF unhandled_error_handler
    <3>2. QED
      BY <2>1, <3>1 DEF ErrorInv, CodeOfNearestBase
  <2>4. QED
    BY Zenon, <2>2, <2>3
<1>4. CASE \/ \E wellFormed \in BOOLEAN : ReceiveRequest(wellFormed)
           \/ EndResponse \/ CallerLeaves \/ UNCHANGED pipeVars
  <2>1. UNCHANGED <<status, error>> /\ (stage' = "raised" => stage = "raised")
    BY Zenon, <1>4 DEF ReceiveRequest, EndResponse, CallerLeaves, pipeVars
  <2>2. QED
    BY <2>1 DEF ErrorInv, CodeOfNearestBase
<1>5. QED
  BY Zenon, <1>1, <1>2, <1>3, <1>4 DEF PipeNext

\* _status_for: an error is answered with the code of the nearest of its bases that has
\* one, although the map is searched from its beginning.
THEOREM CodeOfNearestBaseHolds == PipeSpec => []CodeOfNearestBase
<1>1. PipeInit => ErrorInv
  BY Zenon DEF PipeInit, ErrorInv, CodeOfNearestBase
<1>2. ErrorInv /\ [PipeNext]_pipeVars => ErrorInv'
  BY Zenon, ErrorNextInv
<1>3. ErrorInv => CodeOfNearestBase
  BY Zenon DEF ErrorInv
<1>4. QED
  BY <1>1, <1>2, <1>3, PTL DEF PipeSpec

-----------------------------------------------------------------------------
(* agent_service.py: the environment of an agent *)

StoredVar == [key : STRING, value : Values \cup [cipher : Values], secret : BOOLEAN]

\* The entry of env that a name stands for, and the value a container gets from it.
LastOf(env, n) == env[LastAt(env, n)]
Plain(e) == IF e.secret THEN decrypt_secret(e.value) ELSE e.value

IsLast(env, n, i) ==
    /\ i \in DOMAIN env /\ env[i].key = n
    /\ \A j \in DOMAIN env : env[j].key = n => j <= i

\* A name that occurs occurs last somewhere, and there only.
LEMMA LastAtIs ==
  ASSUME NEW S, NEW env \in Seq(S), NEW n
  PROVE  /\ n \in Names(env) => IsLast(env, n, LastAt(env, n))
         /\ \A i : IsLast(env, n, i) => n \in Names(env) /\ LastAt(env, n) = i
<1> DEFINE len == Len(env)
           At == {i \in 1 .. len : env[i].key = n}
           Back == {len - i : i \in At}
<1>1. len \in Nat /\ DOMAIN env = 1 .. len
  BY Zenon, LenProperties
<1> HIDE DEF len
<1>2. ASSUME n \in Names(env) PROVE \E i : IsLast(env, n, i)
  <2>1. At # {}
    BY Zenon, <1>1, <1>2 DEF Names
  <2>2. Back \in SUBSET Nat /\ Back # {}
    BY <1>1, <2>1
  <2>3. PICK b \in Back : \A k \in Back : b <= k
    BY Zenon, <2>2, LeastNatural
  <2>4. PICK i \in At : b = len - i
    BY Zenon, <2>3
  <2>5. ASSUME NEW j \in At PROVE j <= i
    <3>1. len - j \in Back
      BY Zenon, <2>5
    <3>2. len - i <= len - j
      BY Zenon, <2>3, <2>4, <3>1
    <3>3. QED
      BY <1>1, <2>4, <2>5, <3>2
  <2>6. IsLast(env, n, i)
    BY Zenon, <1>1, <2>4, <2>5 DEF IsLast
  <2>7. QED
    BY Zenon, <2>6
<1>3. ASSUME NEW i, IsLast(env, n, i) PROVE n \in Names(env) /\ LastAt(env, n) = i
  <2>1. i \in Nat /\ \A j : IsLast(env, n, j) => j = i
    <3>1. i \in 1 .. len
      BY Zenon, <1>1, <1>3 DEF IsLast
    <3>2. ASSUME NEW j, IsLast(env, n, j) PROVE j = i
      <4>1. j \in 1 .. len /\ j <= i /\ i <= j
        BY Zenon, <1>1, <1>3, <3>2 DEF IsLast
      <4>2. QED
        BY <1>1, <3>1, <4>1
    <3>3. QED
      BY <1>1, <3>1, <3>2
  <2>2. LastAt(env, n) = CHOOSE j \in DOMAIN env : IsLast(env, n, j)
    BY Zenon DEF LastAt, IsLast
  <2>3. i \in DOMAIN env
    BY Zenon, <1>3 DEF IsLast
  <2>4. LastAt(env, n) = i
    BY Zenon, <1>3, <2>1, <2>2, <2>3
  <2>5. QED
    BY Zenon, <1>3, <2>4 DEF IsLast, Names
<1>4. QED
  BY Zenon, <1>2, <1>3

\* Of two lists, one after the other, the second decides.
LEMMA LastOfConcat ==
  ASSUME NEW S, NEW a \in Seq(S), NEW b \in Seq(S), NEW n
  PROVE  /\ Names(a \o b) = Names(a) \cup Names(b)
         /\ n \in Names(b) => LastOf(a \o b, n) = LastOf(b, n)
         /\ n \in Names(a) \ Names(b) => LastOf(a \o b, n) = LastOf(a, n)
<1> DEFINE c == a \o b
           la == Len(a)
           lb == Len(b)
<1>1. /\ c \in Seq(S) /\ Len(c) = la + lb
      /\ \A i \in 1 .. la + lb : c[i] = IF i <= la THEN a[i] ELSE b[i - la]
  BY Zenon, ConcatProperties
<1>2. /\ la \in Nat /\ lb \in Nat /\ DOMAIN a = 1 .. la /\ DOMAIN b = 1 .. lb
      /\ DOMAIN c = 1 .. la + lb
  BY Zenon, <1>1, LenProperties
<1> HIDE DEF c, la, lb
<1>3. \A i \in 1 .. la : i \in 1 .. la + lb /\ c[i] = a[i]
  BY <1>1, <1>2
<1>4. \A i \in 1 .. lb : la + i \in 1 .. la + lb /\ c[la + i] = b[i]
  BY <1>1, <1>2
<1>5. \A j \in 1 .. la + lb : \/ j \in 1 .. la /\ c[j] = a[j]
                              \/ j - la \in 1 .. lb /\ c[j] = b[j - la] /\ j = la + (j - la)
  BY <1>1, <1>2
<1>6. Names(c) = Names(a) \cup Names(b)
  <2>1. ASSUME NEW i \in 1 .. la PROVE a[i].key \in Names(c)
    BY Zenon, <1>2, <1>3 DEF Names
  <2>2. ASSUME NEW i \in 1 .. lb PROVE b[i].key \in Names(c)
    BY Zenon, <1>2, <1>4 DEF Names
  <2>3. ASSUME NEW j \in 1 .. la + lb PROVE c[j].key \in Names(a) \cup Names(b)
    BY Zenon, <1>2, <1>5 DEF Names
  <2>4. Names(a) \cup Names(b) \subseteq Names(c)
    BY Zenon, <1>2, <2>1, <2>2 DEF Names
  <2>5. Names(c) \subseteq Names(a) \cup Names(b)
    BY Zenon, <1>2, <2>3 DEF Names
  <2>6. QED
    BY Zenon, <2>4, <2>5
<1>7. ASSUME n \in Names(b) PROVE LastOf(c, n) = LastOf(b, n)
  <2> DEFINE i == LastAt(b, n)
  <2>1. IsLast(b, n, i)
    BY Zenon, <1>7, LastAtIs
  <2> HIDE DEF i
  <2>2. i \in 1 .. lb /\ b[i].key = n /\ \A j \in 1 .. lb : b[j].key = n => j <= i
    BY Zenon, <1>2, <2>1 DEF IsLast
  <2>3. ASSUME NEW j \in 1 .. la + lb, c[j].key = n PROVE j <= la + i
    <3>1. CASE j \in 1 .. la
      BY <1>2, <2>2, <3>1
    <3>2. CASE j - la \in 1 .. lb /\ c[j] = b[j - la]
      <4>1. j - la <= i
        BY Zenon, <2>2, <2>3, <3>2
      <4>2. QED
        BY <1>2, <2>2, <4>1
    <3>3. QED
      BY Zenon, <1>5, <3>1, <3>2
  <2>4. IsLast(c, n, la + i)
    BY Zenon, <1>2, <1>4, <2>2, <2>3 DEF IsLast
  <2>5. LastAt(c, n) = la + i
    BY Zenon, <1>1, <2>4, LastAtIs
  <2>6. QED
    BY Zenon, <1>4, <2>2, <2>5 DEF LastOf, i
<1>8. ASSUME n \in Names(a) \ Names(b) PROVE LastOf(c, n) = LastOf(a, n)
  <2> DEFINE i == LastAt(a, n)
  <2>1. IsLast(a, n, i)
    BY Zenon, <1>8, LastAtIs
  <2> HIDE DEF i
  <2>2. i \in 1 .. la /\ a[i].key = n /\ \A j \in 1 .. la : a[j].key = n => j <= i
    BY Zenon, <1>2, <2>1 DEF IsLast
  <2>3. \A j \in 1 .. lb : b[j].key # n
    BY Zenon, <1>2, <1>8 DEF Names
  <2>4. \A j \in 1 .. la + lb : c[j].key = n => j <= i
    BY Zenon, <1>5, <2>2, <2>3
  <2>5. IsLast(c, n, i)
    BY Zenon, <1>2, <1>3, <2>2, <2>4 DEF IsLast
  <2>6. LastAt(c, n) = i
    BY Zenon, <1>1, <2>5, LastAtIs
  <2>7. QED
    BY Zenon, <1>3, <2>2, <2>6 DEF LastOf, i
<1>9. QED
  BY Zenon, <1>6, <1>7, <1>8 DEF c

\* A filter that keeps every entry of a name keeps what the name stands for.
LEMMA LastOfKeep ==
  ASSUME NEW S, NEW s \in Seq(S), NEW T \in SUBSET (1 .. Len(s))
  PROVE  /\ Keep(s, T) \in Seq(S) /\ Names(Keep(s, T)) = {s[i].key : i \in T}
         /\ \A n \in Names(s) :
              (\A i \in 1 .. Len(s) : s[i].key = n => i \in T)
                => n \in Names(Keep(s, T)) /\ LastOf(Keep(s, T), n) = LastOf(s, n)
<1> DEFINE at == InOrder(T)
           c == Cardinality(T)
           kept == Keep(s, T)
<1>1. /\ kept \in Seq(S) /\ Len(kept) = c /\ c \in Nat /\ IsOrder(T, at)
      /\ \A k \in 1 .. c : at[k] \in T /\ kept[k] = s[at[k]]
  BY Zenon, KeepIs
<1>2. DOMAIN kept = 1 .. c /\ DOMAIN s = 1 .. Len(s) /\ Len(s) \in Nat
  BY Zenon, <1>1, LenProperties
<1>3. /\ \A i, j \in 1 .. c : i < j => at[i] < at[j]
      /\ \A x \in T : \E i \in 1 .. c : at[i] = x
  BY Zenon, <1>1 DEF IsOrder
<1> HIDE DEF at, c, kept
<1>4. Names(kept) = {s[i].key : i \in T}
  <2>1. ASSUME NEW k \in 1 .. c PROVE kept[k].key \in {s[i].key : i \in T}
    BY Zenon, <1>1
  <2>2. ASSUME NEW i \in T PROVE s[i].key \in Names(kept)
    <3>1. PICK k \in 1 .. c : at[k] = i
      BY Zenon, <1>3
    <3>2. kept[k] = s[i]
      BY Zenon, <1>1, <3>1
    <3>3. QED
      BY Zenon, <1>2, <3>2 DEF Names
  <2>3. QED
    BY Zenon, <1>2, <2>1, <2>2 DEF Names
<1>5. ASSUME NEW n \in Names(s), \A i \in 1 .. Len(s) : s[i].key = n => i \in T
      PROVE  n \in Names(kept) /\ LastOf(kept, n) = LastOf(s, n)
  <2> DEFINE i == LastAt(s, n)
  <2>1. IsLast(s, n, i)
    BY Zenon, <1>5, LastAtIs
  <2> HIDE DEF i
  <2>2. i \in T /\ i \in 1 .. Len(s) /\ s[i].key = n /\ \A j \in 1 .. Len(s) : s[j].key = n => j <= i
    BY Zenon, <1>2, <1>5, <2>1 DEF IsLast
  <2>3. PICK k \in 1 .. c : at[k] = i
    BY Zenon, <1>3, <2>2
  <2>4. kept[k] = s[i]
    BY Zenon, <1>1, <2>3
  <2>5. ASSUME NEW j \in 1 .. c, kept[j].key = n PROVE j <= k
    <3>1. at[j] \in T /\ s[at[j]].key = n
      BY Zenon, <1>1, <2>5
    <3>2. at[j] <= i
      BY Zenon, <2>2, <3>1
    <3>3. SUFFICES ASSUME k < j PROVE FALSE
      BY <1>1
    <3>4. i < at[j]
      BY Zenon, <1>3, <2>3, <3>3
    <3>5. QED
      <4> DEFINE x == at[j]
      <4>1. x \in T /\ x <= i /\ i < x
        BY Zenon, <3>1, <3>2, <3>4
      <4> HIDE DEF x
      <4>2. x \in Nat /\ i \in Nat
        BY <1>2, <2>2, <4>1
      <4>3. QED
        BY <4>1, <4>2
  <2>6. IsLast(kept, n, k)
    BY Zenon, <1>2, <2>2, <2>4, <2>5 DEF IsLast
  <2>7. n \in Names(kept) /\ LastAt(kept, n) = k
    BY Zenon, <1>1, <2>6, LastAtIs
  <2>8. QED
    BY Zenon, <2>4, <2>7 DEF LastOf, i
<1>6. QED
  BY Zenon, <1>1, <1>4, <1>5 DEF kept

\* Storing keeps names and their order, and a container gets back what was sent.
LEMMA StorageIs ==
  ASSUME NEW env \in Seq(EnvVar)
  PROVE  /\ _env_to_storage(env) \in Seq(StoredVar) /\ Names(_env_to_storage(env)) = Names(env)
         /\ \A n \in Names(env) : Plain(LastOf(_env_to_storage(env), n)) = LastOf(env, n).value
<1> DEFINE len == Len(env)
           stored == _env_to_storage(env)
<1>1. len \in Nat /\ DOMAIN env = 1 .. len /\ \A i \in 1 .. len : env[i] \in EnvVar
  BY Zenon, LenProperties, ElementOfSeq
<1> HIDE DEF len
<1>2. ASSUME NEW e \in EnvVar
      PROVE  LET x == IF e.secret THEN [e EXCEPT !.value = encrypt_secret(@)] ELSE e
             IN  x \in StoredVar /\ x.key = e.key /\ Plain(x) = e.value
  <2>1. CASE e.secret
    <3> DEFINE x == [e EXCEPT !.value = [cipher |-> e.value]]
    <3>1. x \in StoredVar
      BY Zenon DEF EnvVar, StoredVar
    <3>2. x.key = e.key /\ x.value = [cipher |-> e.value] /\ x.secret = e.secret
      BY Zenon DEF EnvVar
    <3> HIDE DEF x
    <3>3. Plain(x) = e.value
      BY <2>1, <3>2 DEF Plain, decrypt_secret
    <3>4. QED
      BY Zenon, <2>1, <3>1, <3>2, <3>3 DEF encrypt_secret, x
  <2>2. CASE ~e.secret
    BY Zenon, <2>2 DEF EnvVar, StoredVar, Plain
  <2>3. QED
    BY Zenon, <2>1, <2>2
<1>3. /\ DOMAIN stored = 1 .. len
      /\ \A i \in 1 .. len : stored[i] \in StoredVar /\ stored[i].key = env[i].key
                             /\ Plain(stored[i]) = env[i].value
  <2>1. stored = [i \in 1 .. len |->
                    IF env[i].secret THEN [env[i] EXCEPT !.value = encrypt_secret(@)] ELSE env[i]]
    BY Zenon, <1>1 DEF _env_to_storage
  <2> HIDE DEF stored
  <2>2. ASSUME NEW i \in 1 .. len
        PROVE  stored[i] \in StoredVar /\ stored[i].key = env[i].key /\ Plain(stored[i]) = env[i].value
    <3> DEFINE e == env[i]
               x == IF e.secret THEN [e EXCEPT !.value = encrypt_secret(@)] ELSE e
    <3>1. e \in EnvVar /\ stored[i] = x
      BY Zenon, <1>1, <2>1
    <3> HIDE DEF e
    <3>2. x \in StoredVar /\ x.key = e.key /\ Plain(x) = e.value
      BY Zenon, <1>2, <3>1
    <3> HIDE DEF x
    <3>3. QED
      BY Zenon, <3>1, <3>2 DEF e
  <2>3. QED
    BY Zenon, <2>1, <2>2
<1>4. stored \in Seq(StoredVar)
  <2>1. stored \in [1 .. len -> StoredVar]
    <3>1. stored = [i \in 1 .. len |-> stored[i]]
      BY Zenon, <1>1 DEF _env_to_storage
    <3> HIDE DEF stored
    <3>2. QED
      BY Zenon, <1>3, <3>1
  <2>2. QED
    BY Zenon, <1>1, <2>1, FunctionIsSeq
<1> HIDE DEF stored
<1>5. Names(stored) = Names(env)
  BY Zenon, <1>1, <1>3 DEF Names
<1>6. ASSUME NEW n \in Names(env) PROVE Plain(LastOf(stored, n)) = LastOf(env, n).value
  <2> DEFINE i == LastAt(env, n)
  <2>1. IsLast(env, n, i)
    BY Zenon, <1>6, LastAtIs
  <2> HIDE DEF i
  <2>2. IsLast(stored, n, i) /\ i \in 1 .. len
    BY Zenon, <1>1, <1>3, <2>1 DEF IsLast
  <2>3. LastAt(stored, n) = i
    BY Zenon, <1>4, <2>2, LastAtIs
  <2>4. QED
    BY Zenon, <1>3, <2>2, <2>3 DEF LastOf, i
<1>7. QED
  BY Zenon, <1>4, <1>5, <1>6 DEF stored

LEMMA ContainerIs ==
  ASSUME NEW stored
  PROVE  _env_for_container(stored) = [n \in Names(stored) |-> Plain(LastOf(stored, n))]
  BY Zenon DEF _env_for_container, Plain, LastOf

\* A deployment's environment, decrypted, is what its caller wants on top of the old
\* one: what they sent, and each provider's key that was there unless they sent one.
LEMMA ApplyIs ==
  ASSUME EnvConstantsOK, NEW stored \in Seq(StoredVar), Provider \in Names(stored),
         NEW env \in Seq(EnvVar)
  PROVE  /\ _apply_deploy_config(stored, env) \in Seq(StoredVar)
         /\ Provider \in Names(_apply_deploy_config(stored, env))
         /\ _env_for_container(_apply_deploy_config(stored, env))
              = Want(_env_for_container(stored), env)
<1> DEFINE T == {i \in DOMAIN stored : stored[i].key \in ProviderKeys \ Names(env)}
           D == ProviderKeys \cap Names(stored)
           given == _env_to_storage(env)
           kept == Keep(stored, T)
           all == _apply_deploy_config(stored, env)
<1>1. all = given \o kept
  BY Zenon DEF _apply_deploy_config
<1>2. DOMAIN stored = 1 .. Len(stored)
  BY Zenon, LenProperties
<1>3. T \in SUBSET (1 .. Len(stored))
  BY Zenon, <1>2
<1>4. /\ given \in Seq(StoredVar) /\ Names(given) = Names(env)
      /\ \A n \in Names(env) : Plain(LastOf(given, n)) = LastOf(env, n).value
  BY Zenon, StorageIs
<1>5. /\ kept \in Seq(StoredVar) /\ Names(kept) = {stored[i].key : i \in T}
      /\ \A n \in Names(stored) :
           (\A i \in 1 .. Len(stored) : stored[i].key = n => i \in T)
             => n \in Names(kept) /\ LastOf(kept, n) = LastOf(stored, n)
  <2> HIDE DEF T
  <2>1. QED
    BY <1>3, LastOfKeep
<1>6. \A n \in Names(kept) : n \in D \ Names(env)
  BY Zenon, <1>5 DEF Names
<1>7. \A n \in D \ Names(env) : n \in Names(kept) /\ LastOf(kept, n) = LastOf(stored, n)
  BY Zenon, <1>2, <1>5
<1> HIDE DEF T, D, given, kept, all
<1>8. all \in Seq(StoredVar)
  BY Zenon, <1>1, <1>4, <1>5, ConcatProperties
<1>9. Names(all) = Names(env) \cup D
  <2>1. given \in Seq(StoredVar) /\ kept \in Seq(StoredVar)
    BY Zenon, <1>4, <1>5
  <2>2. Names(given \o kept) = Names(given) \cup Names(kept)
    BY Zenon, <2>1, LastOfConcat
  <2>3. QED
    BY Zenon, <1>1, <1>4, <1>6, <1>7, <2>2
<1>10. ASSUME NEW n \in Names(env) \cup D
       PROVE  Plain(LastOf(all, n))
                = IF n \in Names(env) THEN LastOf(env, n).value ELSE Plain(LastOf(stored, n))
  <2>1. CASE n \in Names(env)
    <3>1. n \in Names(given) \ Names(kept)
      BY Zenon, <1>4, <1>6, <2>1
    <3>2. LastOf(all, n) = LastOf(given, n)
      BY <1>1, <1>4, <1>5, <3>1, LastOfConcat
    <3>3. QED
      BY Zenon, <1>4, <2>1, <3>2
  <2>2. CASE n \notin Names(env)
    <3>1. n \in Names(kept) /\ LastOf(kept, n) = LastOf(stored, n)
      BY Zenon, <1>7, <2>2
    <3>2. LastOf(all, n) = LastOf(kept, n)
      BY <1>1, <1>4, <1>5, <3>1, LastOfConcat
    <3>3. QED
      BY Zenon, <2>2, <3>1, <3>2
  <2>3. QED
    BY Zenon, <2>1, <2>2
<1>11. _env_for_container(all) = Want(_env_for_container(stored), env)
  <2> DEFINE old == _env_for_container(stored)
  <2>1. ProviderKeys \cap DOMAIN old = D /\ \A n \in D : old[n] = Plain(LastOf(stored, n))
    BY Zenon, ContainerIs DEF D
  <2> HIDE DEF old
  <2>2. _env_for_container(all) = [n \in Names(env) \cup D |-> Plain(LastOf(all, n))]
    BY Zenon, <1>9, ContainerIs
  <2>3. Want(old, env) = [n \in Names(env) \cup D |->
                            IF n \in Names(env) THEN LastOf(env, n).value ELSE old[n]]
    BY Zenon, <2>1 DEF Want, LastOf
  <2>4. \A n \in Names(env) \cup D :
          Plain(LastOf(all, n)) = IF n \in Names(env) THEN LastOf(env, n).value ELSE old[n]
    BY Zenon, <1>10, <2>1
  <2>5. _env_for_container(all) = Want(old, env)
    BY Zenon, <2>2, <2>3, <2>4
  <2>6. QED
    BY Zenon, <2>5 DEF old
<1>12. Provider \in D
  BY Zenon DEF D, EnvConstantsOK
<1>13. QED
  BY Zenon, <1>8, <1>9, <1>11, <1>12 DEF all

\* create_agent: the row starts with what its caller wants, and with their key.
LEMMA CreateIs ==
  ASSUME EnvConstantsOK, NEW env \in Seq(EnvVar)
  PROVE  LET stored == _with_provider_key(_apply_deploy_config(<<>>, env))
         IN  /\ stored \in Seq(StoredVar) /\ Provider \in Names(stored)
             /\ _env_for_container(stored)
                  = [Want([n \in {Provider} |-> ApiKey], env) EXCEPT ![Provider] = ApiKey]
<1> DEFINE given == _env_to_storage(env)
           base == _apply_deploy_config(<<>>, env)
           T == {i \in DOMAIN base : base[i].key # Provider}
           kept == Keep(base, T)
           pk == [key |-> Provider, value |-> encrypt_secret(ApiKey), secret |-> TRUE]
           all == _with_provider_key(base)
<1>1. /\ given \in Seq(StoredVar) /\ Names(given) = Names(env)
      /\ \A n \in Names(env) : Plain(LastOf(given, n)) = LastOf(env, n).value
  BY Zenon, StorageIs
<1>2. base \in Seq(StoredVar) /\ Names(base) = Names(env)
      /\ \A n \in Names(env) : LastOf(base, n) = LastOf(given, n)
  <2> DEFINE empty == <<>>
             none == {i \in DOMAIN empty : empty[i].key \in ProviderKeys \ Names(env)}
             nil == Keep(empty, none)
  <2>1. base = given \o nil
    BY Zenon DEF _apply_deploy_config
  <2>2. empty \in Seq(StoredVar) /\ none = {} /\ none \in SUBSET (1 .. Len(empty))
    BY EmptySeq
  <2> HIDE DEF empty, none
  <2>3. nil \in Seq(StoredVar) /\ Names(nil) = {empty[i].key : i \in none}
    <3>1. nil \in Seq(StoredVar)
      BY Zenon, <2>2, LastOfKeep
    <3>2. Names(nil) = {empty[i].key : i \in none}
      BY <2>2, LastOfKeep
    <3>3. QED
      BY Zenon, <3>1, <3>2
  <2>4. Names(nil) = {}
    BY Zenon, <2>2, <2>3
  <2> HIDE DEF nil, base, given
  <2>5. base \in Seq(StoredVar)
    BY Zenon, <1>1, <2>1, <2>3, ConcatProperties
  <2>6. Names(base) = Names(env)
    <3>1. Names(given \o nil) = Names(given) \cup Names(nil)
      BY <1>1, <2>3, LastOfConcat
    <3>2. QED
      BY Zenon, <1>1, <2>1, <2>4, <3>1
  <2>7. ASSUME NEW n \in Names(env) PROVE LastOf(base, n) = LastOf(given, n)
    <3>1. n \in Names(given) \ Names(nil)
      BY Zenon, <1>1, <2>4
    <3>2. QED
      BY <1>1, <2>1, <2>3, <3>1, LastOfConcat
  <2>8. QED
    BY Zenon, <2>5, <2>6, <2>7
<1>3. all = kept \o <<pk>>
  BY Zenon DEF _with_provider_key
<1> HIDE DEF base, given
<1>4. DOMAIN base = 1 .. Len(base)
  BY Zenon, <1>2, LenProperties
<1>5. T \in SUBSET (1 .. Len(base))
  BY Zenon, <1>4
<1>6. /\ kept \in Seq(StoredVar) /\ Names(kept) = {base[i].key : i \in T}
      /\ \A n \in Names(base) : (\A i \in 1 .. Len(base) : base[i].key = n => i \in T)
                                  => n \in Names(kept) /\ LastOf(kept, n) = LastOf(base, n)
  <2> HIDE DEF T
  <2>1. QED
    BY Zenon, <1>2, <1>5, LastOfKeep
<1>7. \A n \in Names(env) : n # Provider => n \in Names(kept) /\ LastOf(kept, n) = LastOf(base, n)
  BY Zenon, <1>2, <1>4, <1>6
<1>8. Names(kept) \subseteq Names(env)
  BY Zenon, <1>2, <1>6 DEF Names
<1>9. /\ <<pk>> \in Seq(StoredVar) /\ Names(<<pk>>) = {Provider}
      /\ Plain(LastOf(<<pk>>, Provider)) = ApiKey
  <2>1. pk \in StoredVar /\ pk.key = Provider /\ pk.secret = TRUE /\ pk.value = [cipher |-> ApiKey]
    BY Zenon DEF StoredVar, EnvConstantsOK, encrypt_secret
  <2> HIDE DEF pk
  <2>2. <<pk>> \in Seq(StoredVar) /\ DOMAIN <<pk>> = {1} /\ <<pk>>[1] = pk
    BY <2>1
  <2> DEFINE s == <<pk>>
  <2> HIDE DEF s
  <2>3. s \in Seq(StoredVar) /\ DOMAIN s = {1} /\ s[1] = pk
    BY Zenon, <2>2 DEF s
  <2>4. IsLast(s, Provider, 1)
    BY <2>1, <2>3 DEF IsLast
  <2>5. LastAt(s, Provider) = 1
    BY Zenon, <2>3, <2>4, LastAtIs
  <2>6. Plain(LastOf(s, Provider)) = ApiKey
    BY <2>1, <2>3, <2>5 DEF LastOf, Plain, decrypt_secret
  <2>7. Names(s) = {Provider}
    BY Zenon, <2>1, <2>3 DEF Names
  <2>8. QED
    BY Zenon, <2>3, <2>6, <2>7 DEF s
<1> DEFINE last == <<pk>>
<1>10. all = kept \o last /\ last \in Seq(StoredVar) /\ Names(last) = {Provider}
       /\ Plain(LastOf(last, Provider)) = ApiKey
  BY Zenon, <1>3, <1>9
<1> HIDE DEF T, kept, pk, all, last
<1>11. all \in Seq(StoredVar)
  BY Zenon, <1>6, <1>10, ConcatProperties
<1>12. Names(all) = Names(env) \cup {Provider}
  <2>1. Names(kept \o last) = Names(kept) \cup Names(last)
    BY <1>6, <1>10, LastOfConcat
  <2>2. QED
    BY Zenon, <1>7, <1>8, <1>10, <2>1
<1>13. ASSUME NEW n \in Names(env) \cup {Provider}
       PROVE  Plain(LastOf(all, n)) = IF n = Provider THEN ApiKey ELSE LastOf(env, n).value
  <2>1. CASE n = Provider
    <3>1. LastOf(all, n) = LastOf(last, n)
      BY <1>6, <1>10, <2>1, LastOfConcat
    <3>2. QED
      BY Zenon, <1>10, <2>1, <3>1
  <2>2. CASE n # Provider
    <3>1. n \in Names(env) /\ n \in Names(kept) \ Names(last)
      BY Zenon, <1>7, <1>10, <2>2
    <3>2. LastOf(all, n) = LastOf(kept, n)
      BY <1>6, <1>10, <3>1, LastOfConcat
    <3>3. QED
      BY <1>1, <1>2, <1>7, <2>2, <3>1, <3>2
  <2>3. QED
    BY Zenon, <2>1, <2>2
<1>14. _env_for_container(all)
         = [Want([n \in {Provider} |-> ApiKey], env) EXCEPT ![Provider] = ApiKey]
  <2> DEFINE D == Names(env) \cup {Provider}
             old == [n \in {Provider} |-> ApiKey]
             w == Want(old, env)
  <2>1. w = [n \in D |-> IF n \in Names(env) THEN LastOf(env, n).value ELSE old[n]]
    <3>1. ProviderKeys \cap DOMAIN old = {Provider}
      BY Zenon DEF EnvConstantsOK
    <3> HIDE DEF old
    <3>2. QED
      BY Zenon, <3>1 DEF Want, LastOf
  <2> HIDE DEF w, old
  <2>2. [w EXCEPT ![Provider] = ApiKey]
          = [n \in D |-> IF n = Provider THEN ApiKey ELSE LastOf(env, n).value]
    BY Zenon, <2>1
  <2>3. _env_for_container(all) = [n \in D |-> Plain(LastOf(all, n))]
    BY Zenon, <1>12, ContainerIs
  <2>4. _env_for_container(all) = [w EXCEPT ![Provider] = ApiKey]
    BY Zenon, <1>13, <2>2, <2>3
  <2>5. QED
    BY Zenon, <2>4 DEF w, old
<1>15. QED
  BY Zenon, <1>11, <1>12, <1>14 DEF all, base

DeployState ==
    [pc : {"idle", "refresh"}]
        \cup [pc : {"commit"}, sent : Envs, loaded : Seq(StoredVar), env : Seq(StoredVar)]
        \cup [pc : {"start"}, env : Seq(StoredVar)]

\* Every environment on its way to a container has a provider key.
EnvInv ==
    /\ row \in Seq(StoredVar) /\ Provider \in Names(row)
    /\ dep \in [Deploys -> DeployState]
    /\ \A d \in Deploys : dep[d].pc \in {"commit", "start"} => Provider \in Names(dep[d].env)
    /\ \A env \in running : Provider \in DOMAIN env

\* While deployments do not overlap, the only one in flight holds the row as it is, and
\* the row, decrypted, is what the callers want.
SentInv ==
    /\ \A d, e \in Deploys : dep[d] # NoDeploy /\ dep[e] # NoDeploy => d = e
    /\ wanted = _env_for_container(row)
    /\ \A d \in Deploys :
         /\ dep[d].pc = "commit" => /\ dep[d].loaded = row
                                    /\ dep[d].env = _apply_deploy_config(row, dep[d].sent)
         /\ dep[d].pc = "start" => dep[d].env = row
    /\ fresh => running = {wanted}

LEMMA EnvInitInv ==
  ASSUME EnvConstantsOK, EnvInit
  PROVE  EnvInv /\ SentInv
<1>1. PICK env \in Envs :
        /\ row = _with_provider_key(_apply_deploy_config(<<>>, env))
        /\ wanted = [Want([n \in {Provider} |-> ApiKey], env) EXCEPT ![Provider] = ApiKey]
        /\ dep = [d \in Deploys |-> NoDeploy] /\ running = {}
        /\ fresh = FALSE
  BY Zenon DEF EnvInit
<1>2. env \in Seq(EnvVar)
  BY Zenon DEF EnvConstantsOK
<1>3. row \in Seq(StoredVar) /\ Provider \in Names(row) /\ wanted = _env_for_container(row)
  BY Zenon, <1>1, <1>2, CreateIs
<1>4. dep \in [Deploys -> DeployState] /\ \A d \in Deploys : dep[d] = NoDeploy /\ dep[d].pc = "idle"
  BY Zenon, <1>1 DEF NoDeploy, DeployState
<1>5. EnvInv
  BY Zenon, <1>1, <1>3, <1>4 DEF EnvInv
<1>6. SentInv
  BY Zenon, <1>1, <1>3, <1>4 DEF SentInv
<1>7. QED
  BY Zenon, <1>5, <1>6

LEMMA DeployStateIs ==
  ASSUME EnvConstantsOK, EnvInv, NEW d \in Deploys
  PROVE  /\ dep[d].pc = "commit" => /\ dep[d].sent \in Seq(EnvVar) /\ dep[d].loaded \in Seq(StoredVar)
                                    /\ dep[d].env \in Seq(StoredVar)
         /\ dep[d].pc = "start" => dep[d].env \in Seq(StoredVar)
         /\ dep[d].pc # "idle" => dep[d] # NoDeploy
<1>1. dep[d] \in DeployState
  BY Zenon DEF EnvInv
<1>2. QED
  BY <1>1 DEF DeployState, EnvConstantsOK, NoDeploy

\* A deployment that begins holds an environment with a provider key.
LEMMA BeginIs ==
  ASSUME EnvConstantsOK, EnvInv, NEW d \in Deploys, NEW config \in BOOLEAN, NEW env,
         config => env \in Envs, BeginDeploy(d, config, env)
  PROVE  \E new \in DeployState :
           /\ dep' = [dep EXCEPT ![d] = new]
           /\ new.pc = IF config THEN "commit" ELSE "start"
           /\ Provider \in Names(new.env)
           /\ config => /\ new.loaded = row /\ new.sent = env
                        /\ new.env = _apply_deploy_config(row, env)
           /\ ~config => new.env = row
<1>1. row \in Seq(StoredVar) /\ Provider \in Names(row)
  BY Zenon DEF EnvInv
<1>2. CASE config
  <2> DEFINE applied == _apply_deploy_config(row, env)
             new == [pc |-> "commit", sent |-> env, loaded |-> row, env |-> applied]
  <2>1. env \in Envs /\ env \in Seq(EnvVar)
    BY Zenon, <1>2 DEF EnvConstantsOK
  <2>2. applied \in Seq(StoredVar) /\ Provider \in Names(applied)
    BY Zenon, <1>1, <2>1, ApplyIs
  <2>3. dep' = [dep EXCEPT ![d] = new]
    BY Zenon, <1>2 DEF BeginDeploy
  <2> HIDE DEF applied
  <2>4. new \in DeployState
    BY Zenon, <1>1, <2>1, <2>2 DEF DeployState
  <2>5. QED
    BY Zenon, <1>2, <2>2, <2>3, <2>4 DEF applied
<1>3. CASE ~config
  <2> DEFINE new == [pc |-> "start", env |-> row]
  <2>1. dep' = [dep EXCEPT ![d] = new]
    BY Zenon, <1>3 DEF BeginDeploy
  <2>2. new \in DeployState
    BY Zenon, <1>1 DEF DeployState
  <2>3. QED
    BY Zenon, <1>1, <1>3, <2>1, <2>2
<1>4. QED
  BY Zenon, <1>2, <1>3

\* The deployment that steps, and the rest as they were.
LEMMA OneDeployMoves ==
  ASSUME EnvInv, NEW d \in Deploys, NEW new \in DeployState, dep' = [dep EXCEPT ![d] = new]
  PROVE  /\ dep' \in [Deploys -> DeployState] /\ dep'[d] = new
         /\ \A e \in Deploys : e # d => dep'[e] = dep[e]
  BY Zenon DEF EnvInv

LEMMA EnvStep ==
  ASSUME EnvConstantsOK, EnvInv, [EnvNext]_envVars
  PROVE  EnvInv'
<1>1. ASSUME NEW d \in Deploys, NEW new \in DeployState, dep' = [dep EXCEPT ![d] = new],
             new.pc \in {"commit", "start"} => Provider \in Names(new.env),
             row' \in Seq(StoredVar), Provider \in Names(row'),
             \A env \in running' : Provider \in DOMAIN env
      PROVE  EnvInv'
  <2>1. /\ dep' \in [Deploys -> DeployState] /\ dep'[d] = new
        /\ \A e \in Deploys : e # d => dep'[e] = dep[e]
    BY Zenon, <1>1, OneDeployMoves
  <2>2. \A e \in Deploys : dep'[e].pc \in {"commit", "start"} => Provider \in Names(dep'[e].env)
    BY Zenon, <1>1, <2>1 DEF EnvInv
  <2>3. QED
    BY Zenon, <1>1, <2>1, <2>2 DEF EnvInv
<1>2. ASSUME NEW d \in Deploys, NEW config \in BOOLEAN, NEW env, config => env \in Envs,
             BeginDeploy(d, config, env)
      PROVE  EnvInv'
  <2>1. PICK new \in DeployState :
          dep' = [dep EXCEPT ![d] = new] /\ Provider \in Names(new.env)
    BY <1>2, BeginIs
  <2>2. row' = row /\ running' = running
    BY Zenon, <1>2 DEF BeginDeploy
  <2>3. QED
    BY Zenon, <1>1, <2>1, <2>2 DEF EnvInv
<1>3. NoDeploy \in DeployState /\ NoDeploy.pc = "idle"
  BY Zenon DEF NoDeploy, DeployState
<1>4. ASSUME NEW d \in Deploys, RefuseDeploy(d) PROVE EnvInv'
  <2>1. row' = row /\ running' = running /\ dep' = [dep EXCEPT ![d] = NoDeploy]
    BY Zenon, <1>4 DEF RefuseDeploy
  <2>2. QED
    BY Zenon, <1>1, <1>3, <2>1 DEF EnvInv
<1>5. ASSUME NEW d \in Deploys, CommitConfig(d) PROVE EnvInv'
  <2> DEFINE new == [pc |-> "refresh"]
  <2>1. /\ dep[d].pc = "commit" /\ row' \in {row, dep[d].env} /\ running' = running
        /\ dep' = [dep EXCEPT ![d] = new]
    BY Zenon, <1>5 DEF CommitConfig
  <2>2. row' \in Seq(StoredVar) /\ Provider \in Names(row')
    BY Zenon, <2>1, DeployStateIs DEF EnvInv
  <2>3. new \in DeployState /\ new.pc = "refresh"
    BY Zenon DEF DeployState
  <2> HIDE DEF new
  <2>4. QED
    BY Zenon, <1>1, <2>1, <2>2, <2>3 DEF EnvInv
<1>6. ASSUME NEW d \in Deploys, RefreshConfig(d) PROVE EnvInv'
  <2> DEFINE new == [pc |-> "start", env |-> row]
  <2>1. row' = row /\ running' = running /\ dep' = [dep EXCEPT ![d] = new]
    BY Zenon, <1>6 DEF RefreshConfig
  <2>2. new \in DeployState /\ Provider \in Names(new.env)
    BY Zenon DEF DeployState, EnvInv
  <2> HIDE DEF new
  <2>3. QED
    BY Zenon, <1>1, <2>1, <2>2 DEF EnvInv
<1>7. ASSUME NEW d \in Deploys, StartContainers(d) PROVE EnvInv'
  <2>1. /\ dep[d].pc = "start" /\ row' = row /\ running' = {_env_for_container(dep[d].env)}
        /\ dep' = [dep EXCEPT ![d] = NoDeploy]
    BY Zenon, <1>7 DEF StartContainers
  <2>2. Provider \in DOMAIN _env_for_container(dep[d].env)
    BY Zenon, <2>1, ContainerIs DEF EnvInv
  <2>3. QED
    BY Zenon, <1>1, <1>3, <2>1, <2>2 DEF EnvInv
<1>8. ASSUME NEW d \in Deploys, NEW stopped \in BOOLEAN, DeployFails(d, stopped) PROVE EnvInv'
  <2>1. /\ row' = row /\ running' \in {{}, running}
        /\ dep' = [dep EXCEPT ![d] = NoDeploy]
    BY Zenon, <1>8 DEF DeployFails
  <2>2. QED
    BY Zenon, <1>1, <1>3, <2>1 DEF EnvInv
<1>9. CASE UNCHANGED envVars
  BY Zenon, <1>9 DEF envVars, EnvInv
<1>10. CASE EnvNext
  <2>1. PICK d \in Deploys :
          \/ \E env \in Envs : BeginDeploy(d, TRUE, env)
          \/ BeginDeploy(d, FALSE, Nothing)
          \/ RefuseDeploy(d) \/ CommitConfig(d) \/ RefreshConfig(d) \/ StartContainers(d)
          \/ \E stopped \in BOOLEAN : DeployFails(d, stopped)
    BY Zenon, <1>10 DEF EnvNext
  <2>2. QED
    BY Zenon, <1>2, <1>4, <1>5, <1>6, <1>7, <1>8, <2>1
<1>11. QED
  BY Zenon, <1>9, <1>10

\* As long as no two deployments were in flight together.
LEMMA SentStep ==
  ASSUME EnvConstantsOK, EnvInv, ~overlapped => SentInv, [EnvNext]_envVars, ~overlapped'
  PROVE  SentInv'
<1>1. ASSUME NEW d \in Deploys, NEW new \in DeployState, dep' = [dep EXCEPT ![d] = new],
             \A e \in Deploys : e # d => dep[e] = NoDeploy,
             wanted' = _env_for_container(row'),
             new.pc = "commit" => /\ new.loaded = row'
                                  /\ new.env = _apply_deploy_config(row', new.sent),
             new.pc = "start" => new.env = row',
             fresh' => running' = {wanted'}
      PROVE  SentInv'
  <2>1. /\ dep'[d] = new /\ \A e \in Deploys : e # d => dep'[e] = NoDeploy
    BY Zenon, <1>1, OneDeployMoves
  <2>2. \A e, f \in Deploys : dep'[e] # NoDeploy /\ dep'[f] # NoDeploy => e = f
    BY Zenon, <2>1
  <2>3. \A e \in Deploys :
          /\ dep'[e].pc = "commit" => /\ dep'[e].loaded = row'
                                      /\ dep'[e].env = _apply_deploy_config(row', dep'[e].sent)
          /\ dep'[e].pc = "start" => dep'[e].env = row'
    BY <1>1, <2>1 DEF NoDeploy
  <2>4. QED
    BY Zenon, <1>1, <2>2, <2>3 DEF SentInv
<1>2. ASSUME NEW d \in Deploys, dep[d].pc # "idle", ~overlapped
      PROVE  SentInv /\ \A e \in Deploys : e # d => dep[e] = NoDeploy
  BY Zenon, <1>2, DeployStateIs DEF SentInv
<1>3. ASSUME NEW d \in Deploys, NEW config \in BOOLEAN, NEW env, config => env \in Envs,
             BeginDeploy(d, config, env)
      PROVE  SentInv'
  <2>1. PICK new \in DeployState :
          /\ dep' = [dep EXCEPT ![d] = new]
          /\ new.pc = IF config THEN "commit" ELSE "start"
          /\ config => /\ new.loaded = row /\ new.sent = env
                       /\ new.env = _apply_deploy_config(row, env)
          /\ ~config => new.env = row
    BY SMTT(30), <1>3, BeginIs
  <2>2. row' = row /\ running' = running /\ wanted' = wanted /\ fresh' = fresh
    BY Zenon, <1>3 DEF BeginDeploy
  <2>3. ~overlapped /\ ~InFlight
    BY Zenon, <1>3 DEF BeginDeploy
  <2>4. SentInv /\ \A e \in Deploys : dep[e] = NoDeploy
    BY Zenon, <2>3 DEF InFlight
  <2>5. wanted' = _env_for_container(row') /\ (fresh' => running' = {wanted'})
    BY Zenon, <2>2, <2>4 DEF SentInv
  <2>6. /\ new.pc = "commit" => /\ new.loaded = row'
                                /\ new.env = _apply_deploy_config(row', new.sent)
        /\ new.pc = "start" => new.env = row'
    BY Zenon, <2>1, <2>2
  <2>7. QED
    BY Zenon, <1>1, <2>1, <2>4, <2>5, <2>6
<1>4. NoDeploy \in DeployState /\ NoDeploy.pc = "idle"
  BY Zenon DEF NoDeploy, DeployState
<1>5. ASSUME NEW d \in Deploys, RefuseDeploy(d) PROVE SentInv'
  <2>1. /\ dep[d].pc = "commit" /\ row' = row /\ running' = running /\ wanted' = wanted
        /\ fresh' = fresh /\ dep' = [dep EXCEPT ![d] = NoDeploy]
    BY Zenon, <1>5 DEF RefuseDeploy
  <2>2. ~overlapped
    BY Zenon, <1>5 DEF RefuseDeploy
  <2>3. SentInv /\ \A e \in Deploys : e # d => dep[e] = NoDeploy
    BY Zenon, <1>2, <2>1, <2>2
  <2>4. wanted' = _env_for_container(row') /\ (fresh' => running' = {wanted'})
    BY Zenon, <2>1, <2>3 DEF SentInv
  <2>5. QED
    BY Zenon, <1>1, <1>4, <2>1, <2>3, <2>4
<1>6. ASSUME NEW d \in Deploys, CommitConfig(d) PROVE SentInv'
  <2> DEFINE new == [pc |-> "refresh"]
             c == dep[d]
  <2>1. /\ c.pc = "commit" /\ (row' = c.env \/ (row' = row /\ c.env = c.loaded))
        /\ wanted' = Want(wanted, c.sent) /\ dep' = [dep EXCEPT ![d] = new]
    BY Zenon, <1>6 DEF CommitConfig
  <2>2. ~overlapped
    BY Zenon, <1>6 DEF CommitConfig
  <2>3. ~fresh'
    BY Zenon, <1>6 DEF CommitConfig
  <2>4. SentInv /\ \A e \in Deploys : e # d => dep[e] = NoDeploy
    BY Zenon, <1>2, <2>1, <2>2
  <2>5. /\ c.loaded = row /\ c.env = _apply_deploy_config(row, c.sent)
        /\ wanted = _env_for_container(row) /\ c.sent \in Seq(EnvVar)
    BY Zenon, <2>1, <2>4, DeployStateIs DEF SentInv
  <2>6. row' = _apply_deploy_config(row, c.sent)
    BY Zenon, <2>1, <2>5
  <2>7. row \in Seq(StoredVar) /\ Provider \in Names(row)
    BY Zenon DEF EnvInv
  <2> HIDE DEF c
  <2>8. _env_for_container(_apply_deploy_config(row, c.sent)) = Want(_env_for_container(row), c.sent)
    BY Zenon, <2>5, <2>7, ApplyIs
  <2>9. wanted' = _env_for_container(row')
    BY Zenon, <2>1, <2>5, <2>6, <2>8
  <2>10. new \in DeployState /\ new.pc = "refresh"
    BY Zenon DEF DeployState
  <2> HIDE DEF new
  <2>11. QED
    BY Zenon, <1>1, <2>1, <2>3, <2>4, <2>9, <2>10
<1>7. ASSUME NEW d \in Deploys, RefreshConfig(d) PROVE SentInv'
  <2> DEFINE new == [pc |-> "start", env |-> row]
  <2>1. /\ dep[d].pc = "refresh" /\ row' = row /\ running' = running /\ wanted' = wanted
        /\ fresh' = fresh /\ dep' = [dep EXCEPT ![d] = new]
    BY Zenon, <1>7 DEF RefreshConfig
  <2>2. ~overlapped
    BY Zenon, <1>7 DEF RefreshConfig
  <2>3. SentInv /\ \A e \in Deploys : e # d => dep[e] = NoDeploy
    BY Zenon, <1>2, <2>1, <2>2
  <2>4. wanted' = _env_for_container(row') /\ (fresh' => running' = {wanted'})
    BY Zenon, <2>1, <2>3 DEF SentInv
  <2>5. new \in DeployState /\ new.pc = "start" /\ new.env = row'
    BY Zenon, <2>1 DEF DeployState, EnvInv
  <2> HIDE DEF new
  <2>6. QED
    BY Zenon, <1>1, <2>1, <2>3, <2>4, <2>5
<1>8. ASSUME NEW d \in Deploys, StartContainers(d) PROVE SentInv'
  <2>1. /\ dep[d].pc = "start" /\ row' = row /\ running' = {_env_for_container(dep[d].env)}
        /\ wanted' = wanted /\ dep' = [dep EXCEPT ![d] = NoDeploy]
    BY Zenon, <1>8 DEF StartContainers
  <2>2. ~overlapped
    BY Zenon, <1>8 DEF StartContainers
  <2>3. SentInv /\ \A e \in Deploys : e # d => dep[e] = NoDeploy
    BY Zenon, <1>2, <2>1, <2>2
  <2>4. wanted' = _env_for_container(row') /\ running' = {wanted'}
    BY Zenon, <2>1, <2>3 DEF SentInv
  <2>5. QED
    BY Zenon, <1>1, <1>4, <2>1, <2>3, <2>4
<1>9. ASSUME NEW d \in Deploys, NEW stopped \in BOOLEAN, DeployFails(d, stopped) PROVE SentInv'
  <2>1. /\ dep[d].pc = "start" /\ row' = row /\ (~stopped => running' = running)
        /\ wanted' = wanted /\ dep' = [dep EXCEPT ![d] = NoDeploy]
    BY Zenon, <1>9 DEF DeployFails
  <2>2. ~overlapped
    BY Zenon, <1>9 DEF DeployFails
  <2>3. fresh' => fresh /\ ~stopped
    BY Zenon, <1>9 DEF DeployFails
  <2>4. SentInv /\ \A e \in Deploys : e # d => dep[e] = NoDeploy
    BY Zenon, <1>2, <2>1, <2>2
  <2>5. wanted' = _env_for_container(row') /\ (fresh' => running' = {wanted'})
    BY Zenon, <2>1, <2>3, <2>4 DEF SentInv
  <2>6. QED
    BY Zenon, <1>1, <1>4, <2>1, <2>4, <2>5
<1>10. CASE UNCHANGED envVars
  <2>1. ~overlapped
    BY Zenon, <1>10 DEF envVars
  <2>2. QED
    BY Zenon, <1>10, <2>1 DEF envVars, SentInv
<1>11. CASE EnvNext
  <2>1. PICK d \in Deploys :
          \/ \E env \in Envs : BeginDeploy(d, TRUE, env)
          \/ BeginDeploy(d, FALSE, Nothing)
          \/ RefuseDeploy(d) \/ CommitConfig(d) \/ RefreshConfig(d) \/ StartContainers(d)
          \/ \E stopped \in BOOLEAN : DeployFails(d, stopped)
    BY Zenon, <1>11 DEF EnvNext
  <2>2. QED
    BY Zenon, <1>3, <1>5, <1>6, <1>7, <1>8, <1>9, <2>1
<1>12. QED
  BY Zenon, <1>10, <1>11

\* agent_service.py: a redeployment never drops the provider key.  For every list of
\* variables, every number of deployments in flight and however they fail, the row has
\* one and so has every container.
THEOREM ProviderKeyKeptHolds ==
  ASSUME EnvConstantsOK
  PROVE  EnvSpec => []ProviderKeyKept
<1>1. EnvInit => EnvInv
  BY Zenon, EnvInitInv
<1>2. EnvInv /\ [EnvNext]_envVars => EnvInv'
  BY Zenon, EnvStep
<1>3. EnvInv => ProviderKeyKept
  BY Zenon DEF EnvInv, ProviderKeyKept
<1>4. QED
  BY <1>1, <1>2, <1>3, PTL DEF EnvSpec

\* _apply_deploy_config, _env_to_storage and _env_for_container together: for every
\* sequence of configs, the containers that were started since the latest one have each
\* variable of that config with the value sent, each provider's key (there are several)
\* that was there before with the value it had, and no other, unless two deployments of
\* the agent overlapped.
THEOREM RunsWhatWasSentHolds ==
  ASSUME EnvConstantsOK
  PROVE  EnvSpec => []RunsWhatWasSent
<1> DEFINE Inv == EnvInv /\ (~overlapped => SentInv)
<1>1. EnvInit => Inv
  BY Zenon, EnvInitInv
<1>2. Inv /\ [EnvNext]_envVars => Inv'
  BY Zenon, EnvStep, SentStep
<1>3. Inv => RunsWhatWasSent
  BY Zenon DEF SentInv, RunsWhatWasSent
<1>4. QED
  BY <1>1, <1>2, <1>3, PTL DEF EnvSpec
=============================================================================
