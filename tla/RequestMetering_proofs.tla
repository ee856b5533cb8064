----------------------- MODULE RequestMetering_proofs -----------------------
(***************************************************************************)
(* Proofs about RequestMetering, for any set of keys, accounts and bounds. *)
(***************************************************************************)
EXTENDS RequestMetering, FiniteSetTheorems, TLAPS

\* How the open transaction relates to the batch: empty until the upsert loop
\* runs; a key the loop has passed is written in full if its account was there
\* at the SELECT, and not at all otherwise.
TxnInv ==
    /\ flush = "idle" => batch = Zero
    /\ flush \in {"idle", "select", "rollback"} => txn = Zero
    /\ flush \in {"write", "commit"} =>
         \A k \in Keys :
            /\ k \in unreached => txn[k] = 0
            /\ k \notin unreached => txn[k] = IF Owner[k] \in existing THEN batch[k] ELSE 0
            /\ batch[k] > 0 /\ Owner[k] \notin existing => Owner[k] \notin userRows
    /\ flush = "commit" => unreached = {}

IInv == MeteringTypeOK /\ TxnInv /\ Conservation /\ DroppedOnlyIfDeleted

LEMMA ZeroIsCounts == Zero \in Tallies /\ \A k \in Keys : Zero[k] = 0
  BY Zenon DEF Zero, Tallies

LEMMA PlusIsCounts ==
  ASSUME NEW f \in Tallies, NEW g \in Tallies
  PROVE  Plus(f, g) \in Tallies /\ \A k \in Keys : Plus(f, g)[k] = f[k] + g[k]
  BY DEF Plus, Tallies

\* A batch that is not smaller than the transaction leaves a natural number.
LEMMA MinusIsCounts ==
  ASSUME NEW f \in Tallies, NEW g \in Tallies, \A k \in Keys : g[k] <= f[k]
  PROVE  Minus(f, g) \in Tallies /\ \A k \in Keys : Minus(f, g)[k] = f[k] - g[k]
  BY DEF Minus, Tallies

LEMMA TxnInBatch ==
  ASSUME MeteringTypeOK, TxnInv
  PROVE  \A k \in Keys : txn[k] <= batch[k]
<1> SUFFICES ASSUME NEW k \in Keys PROVE txn[k] <= batch[k]
  BY Zenon
<1>1. batch[k] \in Nat /\ txn[k] \in Nat
  BY Zenon DEF MeteringTypeOK, Tallies
<1>2. CASE flush \in {"idle", "select", "rollback"}
  BY <1>1, <1>2, ZeroIsCounts DEF TxnInv
<1>3. CASE flush = "write" \/ flush = "commit"
  <2>1. txn[k] = 0 \/ txn[k] = batch[k]
    BY Zenon, <1>3 DEF TxnInv
  <2>2. QED
    BY <1>1, <2>1
<1>4. QED
  BY Zenon, <1>2, <1>3 DEF MeteringTypeOK

LEMMA InitIInv == MeteringInit => IInv
  BY DEF MeteringInit, IInv, MeteringTypeOK, TxnInv, Conservation, DroppedOnlyIfDeleted, Zero, Tallies

\* What a COMMIT writes and what it drops add up to the batch; what it drops
\* belongs to accounts that are gone.
LEMMA CommittedStep ==
  ASSUME IInv, flush = "commit", Committed
  PROVE  /\ usageHours' \in Tallies /\ dropped' \in Tallies
         /\ \A k \in Keys : usageHours'[k] + dropped'[k] = usageHours[k] + dropped[k] + batch[k]
         /\ \A k \in Keys : dropped'[k] > 0 => Owner[k] \notin userRows
<1> DEFINE rest == Minus(batch, txn)
<1>1. rest \in Tallies /\ \A k \in Keys : rest[k] = batch[k] - txn[k]
  BY TxnInBatch, MinusIsCounts DEF IInv, MeteringTypeOK
<1>2. usageHours' \in Tallies /\ \A k \in Keys : usageHours'[k] = usageHours[k] + txn[k]
  BY PlusIsCounts DEF Committed, IInv, MeteringTypeOK
<1>3. dropped' \in Tallies /\ \A k \in Keys : dropped'[k] = dropped[k] + rest[k]
  BY <1>1, PlusIsCounts DEF Committed, IInv, MeteringTypeOK
<1> HIDE DEF rest
<1>4. ASSUME NEW k \in Keys
      PROVE  usageHours'[k] + dropped'[k] = usageHours[k] + dropped[k] + batch[k]
  BY <1>1, <1>2, <1>3 DEF IInv, MeteringTypeOK, Tallies
<1>5. ASSUME NEW k \in Keys, dropped'[k] > 0
      PROVE  Owner[k] \notin userRows
  <2>1. dropped[k] > 0 \/ rest[k] > 0
    BY <1>1, <1>3, <1>5 DEF IInv, MeteringTypeOK, Tallies
  <2>2. CASE dropped[k] > 0
    BY Zenon, <2>2 DEF IInv, DroppedOnlyIfDeleted
  <2>3. CASE rest[k] > 0
    <3>1. batch[k] \in Nat /\ txn[k] \in Nat /\ batch[k] - txn[k] > 0
      BY Zenon, <1>1, <2>3 DEF IInv, MeteringTypeOK, Tallies
    <3>2. Owner[k] \notin existing /\ batch[k] > 0
      BY <3>1 DEF IInv, TxnInv
    <3>3. QED
      BY Zenon, <3>2 DEF IInv, TxnInv
  <2>4. QED
    BY Zenon, <2>1, <2>2, <2>3
<1>6. QED
  BY Zenon, <1>2, <1>3, <1>4, <1>5

-----------------------------------------------------------------------------
(* One lemma per action or group of actions: each preserves IInv. *)

LEMMA CountRequestStep ==
  ASSUME IInv, NEW k \in Keys, CountRequest(k)
  PROVE  IInv'
<1>1. /\ pending' \in Tallies /\ counted' \in Tallies
      /\ \A j \in Keys : pending'[j] - pending[j] = counted'[j] - counted[j]
  BY DEF CountRequest, IInv, MeteringTypeOK, Tallies
<1>2. MeteringTypeOK'
  BY Zenon, <1>1 DEF CountRequest, IInv, MeteringTypeOK, flushVars, meteringBounds
<1>3. TxnInv'
  BY Zenon DEF CountRequest, IInv, TxnInv, flushVars, Zero
<1>4. Conservation'
  BY <1>1, <1>2 DEF CountRequest, IInv, MeteringTypeOK, Tallies, Conservation, flushVars
<1>5. DroppedOnlyIfDeleted'
  BY Zenon DEF CountRequest, IInv, DroppedOnlyIfDeleted
<1>6. QED
  BY Zenon, <1>2, <1>3, <1>4, <1>5 DEF IInv

\* The synchronous prefix moves everything pending into the batch.
LEMMA TakeBatchStep ==
  ASSUME IInv, TakeBatch, UNCHANGED <<usageHours, userRows, history, meteringBounds>>, age' \in Nat
  PROVE  IInv'
<1>0. batch = Zero /\ txn = Zero
  BY Zenon DEF TakeBatch, IInv, TxnInv
<1>1. CASE pending = Zero
  <2>1. MeteringTypeOK'
    BY Zenon, <1>1 DEF TakeBatch, AfterFlush, IInv, MeteringTypeOK, flushVars, history, meteringBounds
  <2>2. TxnInv' /\ Conservation' /\ DroppedOnlyIfDeleted'
    BY Zenon, <1>1 DEF TakeBatch, IInv, TxnInv, Conservation, DroppedOnlyIfDeleted, flushVars,
                history, Zero
  <2>3. QED
    BY Zenon, <2>1, <2>2 DEF IInv
<1>2. CASE pending # Zero
  <2>1. /\ batch' = pending /\ pending' = Zero /\ flush' = "select"
        /\ UNCHANGED <<proc, unreached, existing, txn>>
    BY Zenon, <1>2 DEF TakeBatch
  <2>2. MeteringTypeOK'
    BY Zenon, <2>1, ZeroIsCounts DEF IInv, MeteringTypeOK, history, meteringBounds
  <2>3. TxnInv'
    BY Zenon, <1>0, <2>1 DEF TxnInv, Zero
  <2>4. Conservation' /\ DroppedOnlyIfDeleted'
    BY <1>0, <2>1, ZeroIsCounts
       DEF IInv, MeteringTypeOK, Tallies, Conservation, DroppedOnlyIfDeleted, history
  <2>5. QED
    BY Zenon, <2>2, <2>3, <2>4 DEF IInv
<1>3. QED
  BY Zenon, <1>1, <1>2

LEMMA SelectUsersStep ==
  ASSUME IInv, SelectUsers
  PROVE  IInv'
<1>1. txn = Zero
  BY Zenon DEF SelectUsers, IInv, TxnInv
<1>2. MeteringTypeOK'
  BY Zenon, OwnerAssumption DEF SelectUsers, IInv, MeteringTypeOK, history, meteringBounds
<1>3. ASSUME NEW k \in Keys
      PROVE  /\ k \in unreached' => txn'[k] = 0
             /\ k \notin unreached' => txn'[k] = IF Owner[k] \in existing' THEN batch'[k] ELSE 0
             /\ batch'[k] > 0 /\ Owner[k] \notin existing' => Owner[k] \notin userRows'
  BY <1>1, ZeroIsCounts DEF SelectUsers, IInv, MeteringTypeOK, Tallies
<1>4. TxnInv'
  BY Zenon, <1>3 DEF SelectUsers, TxnInv
<1>5. Conservation' /\ DroppedOnlyIfDeleted'
  BY Zenon DEF SelectUsers, IInv, Conservation, DroppedOnlyIfDeleted, history
<1>6. QED
  BY Zenon, <1>2, <1>4, <1>5 DEF IInv

LEMMA UpsertStep ==
  ASSUME IInv, NEW k \in Keys, UpsertOne(k)
  PROVE  IInv'
<1>1. txn' \in Tallies
  BY Zenon DEF UpsertOne, IInv, MeteringTypeOK, Tallies
<1>2. MeteringTypeOK'
  BY Zenon, <1>1 DEF UpsertOne, IInv, MeteringTypeOK, history, meteringBounds
<1>3. ASSUME NEW j \in Keys
      PROVE  /\ j \in unreached' => txn'[j] = 0
             /\ j \notin unreached' => txn'[j] = IF Owner[j] \in existing' THEN batch'[j] ELSE 0
             /\ batch'[j] > 0 /\ Owner[j] \notin existing' => Owner[j] \notin userRows'
  BY Zenon DEF UpsertOne, IInv, MeteringTypeOK, TxnInv, Tallies
<1>4. TxnInv'
  BY Zenon, <1>3 DEF UpsertOne, TxnInv
<1>5. Conservation' /\ DroppedOnlyIfDeleted'
  BY Zenon DEF UpsertOne, IInv, Conservation, DroppedOnlyIfDeleted, history
<1>6. QED
  BY Zenon, <1>2, <1>4, <1>5 DEF IInv

LEMMA LoopDoneStep ==
  ASSUME IInv, LoopDone
  PROVE  IInv'
<1>1. MeteringTypeOK'
  BY Zenon DEF LoopDone, IInv, MeteringTypeOK, history, meteringBounds
<1>2. TxnInv'
  BY Zenon DEF LoopDone, IInv, TxnInv
<1>3. Conservation' /\ DroppedOnlyIfDeleted'
  BY Zenon DEF LoopDone, IInv, Conservation, DroppedOnlyIfDeleted, history
<1>4. QED
  BY <1>1, <1>2, <1>3 DEF IInv

\* A step that ends a flush and only moves counts between the places of
\* Conservation preserves it.
LEMMA Balance ==
  ASSUME IInv, MeteringTypeOK', NEW k \in Keys, batch'[k] = 0, counted'[k] = counted[k],
         pending'[k] + lost'[k] + usageHours'[k] + dropped'[k] + recounted[k]
           = pending[k] + lost[k] + usageHours[k] + dropped[k] + batch[k] + recounted'[k]
  PROVE  pending'[k] + batch'[k] + usageHours'[k] + dropped'[k] + lost'[k]
           = counted'[k] + recounted'[k]
<1> DEFINE m == pending[k] + lost[k]
           m1 == pending'[k] + lost'[k]
           w == usageHours[k] + dropped[k]
           w1 == usageHours'[k] + dropped'[k]
           b == batch[k]
           c == counted[k]
           r == recounted[k]
           r1 == recounted'[k]
<1>1. pending[k] + batch[k] + usageHours[k] + dropped[k] + lost[k] = counted[k] + recounted[k]
  BY Zenon DEF IInv, Conservation
<1>2. /\ pending[k] \in Nat /\ batch[k] \in Nat /\ usageHours[k] \in Nat /\ dropped[k] \in Nat
      /\ lost[k] \in Nat /\ counted[k] \in Nat /\ recounted[k] \in Nat
      /\ pending'[k] \in Nat /\ usageHours'[k] \in Nat /\ dropped'[k] \in Nat
      /\ lost'[k] \in Nat /\ recounted'[k] \in Nat
  BY Zenon DEF IInv, MeteringTypeOK, Tallies
<1>3. /\ m \in Nat /\ m1 \in Nat /\ w \in Nat /\ w1 \in Nat
      /\ b \in Nat /\ c \in Nat /\ r \in Nat /\ r1 \in Nat
      /\ m + b + w = c + r /\ m1 + w1 + r = m + w + b + r1
  BY <1>1, <1>2
<1>4. m1 + w1 = c + r1
  <2> HIDE DEF m, m1, w, w1, b, c, r, r1
  <2> QED BY <1>3
<1>5. QED
  BY <1>2, <1>4

LEMMA CommitStep ==
  ASSUME IInv, Commit
  PROVE  IInv'
<1>1. /\ usageHours' \in Tallies /\ dropped' \in Tallies
      /\ \A k \in Keys : usageHours'[k] + dropped'[k] = usageHours[k] + dropped[k] + batch[k]
      /\ \A k \in Keys : dropped'[k] > 0 => Owner[k] \notin userRows
  BY Zenon, CommittedStep DEF Commit
<1>2. /\ pending' \in Tallies /\ lost' \in Tallies
      /\ \A k \in Keys : pending'[k] + lost'[k] = pending[k] + lost[k]
  <2>1. Plus(lost, pending) \in Tallies
        /\ \A k \in Keys : Plus(lost, pending)[k] = lost[k] + pending[k]
    BY Zenon, PlusIsCounts DEF IInv, MeteringTypeOK
  <2>2. QED
    BY <2>1, ZeroIsCounts DEF Commit, Leave, IInv, MeteringTypeOK, Tallies
<1>3. flush' = "idle" /\ batch' = Zero /\ txn' = Zero /\ unreached' = {} /\ existing' = {}
  BY Zenon DEF Commit, NoFlush
<1>4. MeteringTypeOK'
  BY Zenon, <1>1, <1>2, <1>3, ZeroIsCounts DEF Commit, AfterFlush, IInv, MeteringTypeOK, meteringBounds
<1>5. TxnInv'
  BY Zenon, <1>3 DEF TxnInv, Zero
<1>6. Conservation'
  <2> SUFFICES ASSUME NEW k \in Keys
               PROVE  pending'[k] + batch'[k] + usageHours'[k] + dropped'[k] + lost'[k]
                        = counted'[k] + recounted'[k]
    BY Zenon DEF Conservation
  <2>1. batch'[k] = 0 /\ counted'[k] = counted[k]
    BY Zenon, <1>1, <1>2, <1>3, ZeroIsCounts DEF Commit
  <2>2. pending'[k] + lost'[k] + usageHours'[k] + dropped'[k] + recounted[k]
          = pending[k] + lost[k] + usageHours[k] + dropped[k] + batch[k] + recounted'[k]
    BY <1>1, <1>2, <1>3, <1>4 DEF Commit, IInv, MeteringTypeOK, Tallies
  <2>3. QED
    BY Zenon, <1>4, <2>1, <2>2, Balance
<1>7. DroppedOnlyIfDeleted'
  BY Zenon, <1>1 DEF Commit, DroppedOnlyIfDeleted
<1>8. QED
  BY Zenon, <1>4, <1>5, <1>6, <1>7 DEF IInv

\* A flush that has failed keeps its batch until the ROLLBACK is over.
LEMMA RollBackStep ==
  ASSUME IInv, RollBack, UNCHANGED <<usageHours, userRows, history, age>>,
         failures' \in Nat, lostAcks' \in Nat, stops' \in Nat
  PROVE  IInv'
<1>1. MeteringTypeOK'
  BY Zenon, ZeroIsCounts DEF RollBack, history, IInv, MeteringTypeOK
<1>2. TxnInv'
  BY Zenon DEF RollBack, TxnInv, Zero
<1>3. Conservation' /\ DroppedOnlyIfDeleted'
  BY Zenon DEF RollBack, history, IInv, Conservation, DroppedOnlyIfDeleted
<1>4. QED
  BY Zenon, <1>1, <1>2, <1>3 DEF IInv

LEMMA CommitAckLostStep ==
  ASSUME IInv, CommitAckLost
  PROVE  IInv'
<1>1. /\ usageHours' \in Tallies /\ recounted' \in Tallies
      /\ \A k \in Keys : usageHours'[k] = usageHours[k] + txn[k] /\ recounted'[k] = recounted[k] + txn[k]
  BY PlusIsCounts DEF CommitAckLost, IInv, MeteringTypeOK
<1>2. MeteringTypeOK'
  BY <1>1, ZeroIsCounts DEF CommitAckLost, RollBack, IInv, MeteringTypeOK
<1>3. TxnInv'
  BY Zenon DEF CommitAckLost, RollBack, TxnInv, Zero
<1>4. Conservation' /\ DroppedOnlyIfDeleted'
  BY <1>1 DEF CommitAckLost, RollBack, IInv, MeteringTypeOK, Tallies, Conservation, DroppedOnlyIfDeleted
<1>5. QED
  BY Zenon, <1>2, <1>3, <1>4 DEF IInv

\* After the ROLLBACK the counts move from the batch to memory or are lost.
LEMMA AfterRollbackStep ==
  ASSUME IInv, PutBack \/ RollbackFails
  PROVE  /\ IInv'
         /\ usageHours' = usageHours
         /\ \A k \in Keys : batch'[k] = 0 /\ pending'[k] <= pending[k] + batch[k]
<1> DEFINE back == Plus(pending, batch)
<1>1. back \in Tallies /\ \A k \in Keys : back[k] = pending[k] + batch[k]
  BY PlusIsCounts DEF IInv, MeteringTypeOK
<1>2. Plus(lost, back) \in Tallies /\ \A k \in Keys : Plus(lost, back)[k] = lost[k] + back[k]
  BY Zenon, <1>1, PlusIsCounts DEF IInv, MeteringTypeOK
<1>3. Plus(lost, batch) \in Tallies /\ \A k \in Keys : Plus(lost, batch)[k] = lost[k] + batch[k]
  BY Zenon, PlusIsCounts DEF IInv, MeteringTypeOK
<1>4. \/ pending' = back /\ lost' = lost
      \/ pending' = Zero /\ lost' = Plus(lost, back)
      \/ pending' = pending /\ lost' = Plus(lost, batch)
  BY Zenon DEF PutBack, RollbackFails, Leave
<1> HIDE DEF back
<1>5. /\ pending' \in Tallies /\ lost' \in Tallies
      /\ \A k \in Keys : /\ pending'[k] + lost'[k] = pending[k] + batch[k] + lost[k]
                         /\ pending'[k] <= pending[k] + batch[k]
  BY <1>1, <1>2, <1>3, <1>4, ZeroIsCounts DEF IInv, MeteringTypeOK, Tallies
<1>6. /\ proc' \in {"up", "stopping", "down"} /\ flush' = "idle" /\ batch' = Zero
      /\ txn' = Zero /\ unreached' = {} /\ existing' = {}
      /\ UNCHANGED <<usageHours, userRows, counted, dropped, recounted, age, lostAcks, stops>>
      /\ failures' \in Nat
  BY DEF PutBack, RollbackFails, NoFlush, AfterFlush, IInv, MeteringTypeOK, meteringBounds
<1>7. MeteringTypeOK'
  BY Zenon, <1>5, <1>6, ZeroIsCounts DEF IInv, MeteringTypeOK
<1>8. TxnInv'
  BY Zenon, <1>6 DEF TxnInv, Zero
<1>9. Conservation'
  <2> SUFFICES ASSUME NEW k \in Keys
               PROVE  pending'[k] + batch'[k] + usageHours'[k] + dropped'[k] + lost'[k]
                        = counted'[k] + recounted'[k]
    BY Zenon DEF Conservation
  <2>1. batch'[k] = 0 /\ counted'[k] = counted[k]
    BY Zenon, <1>6, ZeroIsCounts
  <2>2. pending'[k] + lost'[k] + usageHours'[k] + dropped'[k] + recounted[k]
          = pending[k] + lost[k] + usageHours[k] + dropped[k] + batch[k] + recounted'[k]
    BY <1>5, <1>6, <1>7 DEF IInv, MeteringTypeOK, Tallies
  <2>3. QED
    BY Zenon, <1>7, <2>1, <2>2, Balance
<1>10. DroppedOnlyIfDeleted'
  BY Zenon, <1>6 DEF IInv, DroppedOnlyIfDeleted
<1>11. QED
  BY Zenon, <1>5, <1>6, <1>7, <1>8, <1>9, <1>10, ZeroIsCounts DEF IInv

LEMMA ShutdownStep ==
  ASSUME IInv, Shutdown
  PROVE  IInv'
<1>1. lost' \in Tallies /\ \A k \in Keys : lost'[k] = lost[k] + batch[k]
  BY PlusIsCounts DEF Shutdown, IInv, MeteringTypeOK
<1>2. MeteringTypeOK'
  BY <1>1, ZeroIsCounts DEF Shutdown, NoFlush, IInv, MeteringTypeOK
<1>3. TxnInv'
  BY Zenon DEF Shutdown, NoFlush, TxnInv, Zero
<1>4. Conservation' /\ DroppedOnlyIfDeleted'
  BY <1>1, ZeroIsCounts
     DEF Shutdown, NoFlush, IInv, MeteringTypeOK, Tallies, Conservation, DroppedOnlyIfDeleted
<1>5. QED
  BY Zenon, <1>2, <1>3, <1>4 DEF IInv

LEMMA ShutdownAfterCommitStep ==
  ASSUME IInv, ShutdownAfterCommit
  PROVE  IInv'
<1>1. /\ usageHours' \in Tallies /\ dropped' \in Tallies
      /\ \A k \in Keys : usageHours'[k] + dropped'[k] = usageHours[k] + dropped[k] + batch[k]
      /\ \A k \in Keys : dropped'[k] > 0 => Owner[k] \notin userRows
  BY Zenon, CommittedStep DEF ShutdownAfterCommit
<1>2. MeteringTypeOK'
  BY <1>1, ZeroIsCounts DEF ShutdownAfterCommit, NoFlush, IInv, MeteringTypeOK
<1>3. TxnInv'
  BY Zenon DEF ShutdownAfterCommit, NoFlush, TxnInv, Zero
<1>4. Conservation'
  <2> SUFFICES ASSUME NEW k \in Keys
               PROVE  pending'[k] + batch'[k] + usageHours'[k] + dropped'[k] + lost'[k]
                        = counted'[k] + recounted'[k]
    BY Zenon DEF Conservation
  <2>1. batch'[k] = 0 /\ counted'[k] = counted[k]
    BY Zenon, <1>1, ZeroIsCounts DEF ShutdownAfterCommit, NoFlush
  <2>2. pending'[k] + lost'[k] + usageHours'[k] + dropped'[k] + recounted[k]
          = pending[k] + lost[k] + usageHours[k] + dropped[k] + batch[k] + recounted'[k]
    BY <1>1, <1>2 DEF ShutdownAfterCommit, NoFlush, IInv, MeteringTypeOK, Tallies
  <2>3. QED
    BY Zenon, <1>2, <2>1, <2>2, Balance
<1>5. DroppedOnlyIfDeleted'
  BY Zenon, <1>1 DEF ShutdownAfterCommit, DroppedOnlyIfDeleted
<1>6. QED
  BY Zenon, <1>2, <1>3, <1>4, <1>5 DEF IInv

LEMMA CrashStep ==
  ASSUME IInv, Crash
  PROVE  IInv'
<1>1. lost' \in Tallies /\ \A k \in Keys : lost'[k] = lost[k] + pending[k] + batch[k]
  <2>1. Plus(pending, batch) \in Tallies
        /\ \A k \in Keys : Plus(pending, batch)[k] = pending[k] + batch[k]
    BY PlusIsCounts DEF IInv, MeteringTypeOK
  <2>2. lost' \in Tallies /\ \A k \in Keys : lost'[k] = lost[k] + Plus(pending, batch)[k]
    BY <2>1, PlusIsCounts DEF Crash, IInv, MeteringTypeOK
  <2>3. QED
    BY <2>1, <2>2 DEF IInv, MeteringTypeOK, Tallies
<1>2. MeteringTypeOK'
  BY <1>1, ZeroIsCounts DEF Crash, NoFlush, IInv, MeteringTypeOK
<1>3. TxnInv'
  BY Zenon DEF Crash, NoFlush, TxnInv, Zero
<1>4. Conservation' /\ DroppedOnlyIfDeleted'
  BY <1>1, ZeroIsCounts
     DEF Crash, NoFlush, IInv, MeteringTypeOK, Tallies, Conservation, DroppedOnlyIfDeleted
<1>5. QED
  BY Zenon, <1>2, <1>3, <1>4 DEF IInv

\* Deleting an account moves its usage to `dropped'; an account whose upsert is
\* open cannot be deleted, so no key's transaction is disturbed.
LEMMA DeleteAccountStep ==
  ASSUME IInv, NEW u \in Users, DeleteAccount(u)
  PROVE  IInv'
<1>1. /\ usageHours' \in Tallies /\ dropped' \in Tallies
      /\ \A k \in Keys : usageHours'[k] + dropped'[k] = usageHours[k] + dropped[k]
      /\ \A k \in Keys : dropped'[k] > 0 => dropped[k] > 0 \/ Owner[k] = u
  BY DEF DeleteAccount, IInv, MeteringTypeOK, Tallies
<1>2. MeteringTypeOK'
  BY Zenon, <1>1 DEF DeleteAccount, IInv, MeteringTypeOK, flushVars, meteringBounds
<1>3. TxnInv'
  BY Zenon DEF DeleteAccount, IInv, TxnInv, flushVars, Zero
<1>4. Conservation'
  BY <1>1 DEF DeleteAccount, IInv, MeteringTypeOK, Tallies, Conservation, flushVars
<1>5. DroppedOnlyIfDeleted'
  BY Zenon, <1>1 DEF DeleteAccount, IInv, DroppedOnlyIfDeleted
<1>6. QED
  BY Zenon, <1>2, <1>3, <1>4, <1>5 DEF IInv

LEMMA NextIInv == IInv /\ [MeteringNext]_meteringVars => IInv'
<1> SUFFICES ASSUME IInv, [MeteringNext]_meteringVars PROVE IInv'
  BY Zenon
<1>1. ASSUME NEW k \in Keys, CountRequest(k) PROVE IInv'
  BY Zenon, <1>1, CountRequestStep
<1>2. CASE Tick
  <2>1. age' \in Nat
    BY <1>2 DEF Tick, IInv, MeteringTypeOK
  <2>2. QED
    BY Zenon, <1>2, <2>1, TakeBatchStep DEF Tick
<1>3. CASE ShutdownFlush
  <2>1. age' \in Nat
    BY Zenon, <1>3 DEF ShutdownFlush, IInv, MeteringTypeOK
  <2>2. QED
    BY Zenon, <1>3, <2>1, TakeBatchStep DEF ShutdownFlush
<1>4. ASSUME NEW k \in Keys, ForeignKeyFails(k) PROVE IInv'
  <2>1. failures' \in Nat /\ lostAcks' \in Nat /\ stops' \in Nat
    BY Zenon, <1>4 DEF ForeignKeyFails, IInv, MeteringTypeOK, meteringBounds
  <2>2. QED
    BY Zenon, <1>4, <2>1, RollBackStep DEF ForeignKeyFails
<1>5. CASE FlushStep
  BY Zenon, <1>4, <1>5, SelectUsersStep, UpsertStep, LoopDoneStep, CommitStep, AfterRollbackStep
     DEF FlushStep
<1>6. CASE FlushFails
  <2>1. failures' \in Nat /\ lostAcks' \in Nat /\ stops' \in Nat
    BY <1>6 DEF FlushFails, IInv, MeteringTypeOK
  <2>2. QED
    BY Zenon, <1>6, <2>1, RollBackStep DEF FlushFails
<1>7. CASE Restart
  BY Zenon, <1>7 DEF Restart, IInv, MeteringTypeOK, TxnInv, Conservation, DroppedOnlyIfDeleted, Zero,
              flushVars, history, meteringBounds
<1>8. CASE UNCHANGED meteringVars
  BY Zenon, <1>8 DEF meteringVars, IInv, MeteringTypeOK, TxnInv, Conservation, DroppedOnlyIfDeleted, Zero,
              flushVars, history, meteringBounds
<1>9. QED
  BY Zenon, <1>1, <1>2, <1>3, <1>5, <1>6, <1>7, <1>8, CommitAckLostStep, AfterRollbackStep,
     ShutdownStep, ShutdownAfterCommitStep, CrashStep, DeleteAccountStep DEF MeteringNext

-----------------------------------------------------------------------------
THEOREM SpecIInv == MeteringSpec => []IInv
  BY InitIInv, NextIInv, PTL DEF MeteringSpec

\* Every variable of the metering keeps its type in every behaviour: counts stay
\* natural numbers although batches are subtracted from (flush_requests).
THEOREM TypeCorrect == MeteringSpec => []MeteringTypeOK
<1>1. IInv => MeteringTypeOK
  BY Zenon DEF IInv
<1>2. QED
  BY <1>1, SpecIInv, PTL

\* count_request and flush_requests lose track of no request, for any number of
\* keys, accounts, requests, failures and restarts.
THEOREM ConservationHolds == MeteringSpec => []Conservation
<1>1. IInv => Conservation
  BY Zenon DEF IInv
<1>2. QED
  BY <1>1, SpecIInv, PTL

\* flush_requests never drops the usage of an account that still exists, however
\* stale its SELECT is when the upserts and the COMMIT run.
THEOREM DroppedOnlyIfDeletedHolds == MeteringSpec => []DroppedOnlyIfDeleted
<1>1. IInv => DroppedOnlyIfDeleted
  BY Zenon DEF IInv
<1>2. QED
  BY <1>1, SpecIInv, PTL

-----------------------------------------------------------------------------
(* How long a request may stay unwritten. *)

\* Accounts deleted since the SELECT of the running flush, which can break one of its
\* upserts.
Vanished == existing \ userRows

\* Between two flushes of a process that is up there is a tick to spare: a flush that
\* fails has raised the allowance by the time its ROLLBACK runs, either itself or by
\* the deletion that broke its foreign key.
Spare ==
    /\ proc = "up"
    /\ flush \in {"idle", "rollback"} \/ (flush \in {"write", "commit"} /\ Vanished # {})

AgeInv == age <= Allowance /\ (Spare => age < Allowance)

LEMMA DeletedCount ==
  ASSUME NEW S \in SUBSET Users
  PROVE  Cardinality(Users \ S) \in Nat
<1>1. IsFiniteSet(Users \ S)
  BY Zenon, UsersAssumption, FS_Difference
<1>2. QED
  BY Zenon, <1>1, FS_CardinalityType

LEMMA OneMoreDeleted ==
  ASSUME NEW S \in SUBSET Users, NEW u \in S
  PROVE  Cardinality(Users \ (S \ {u})) = Cardinality(Users \ S) + 1
<1>1. IsFiniteSet(Users \ S) /\ u \notin Users \ S
  BY Zenon, UsersAssumption, FS_Difference
<1>2. Users \ (S \ {u}) = (Users \ S) \cup {u}
  BY Zenon
<1>3. QED
  BY Zenon, <1>1, <1>2, FS_AddElement

LEMMA AllowanceType ==
  ASSUME MeteringTypeOK
  PROVE  Allowance \in Nat /\ age \in Nat /\ Allowance >= 1
<1>1. Cardinality(Users \ userRows) \in Nat
  BY Zenon, DeletedCount DEF MeteringTypeOK
<1>2. QED
  BY <1>1 DEF MeteringTypeOK, Allowance

\* The step leaves the allowance and the age alone, and needs no tick to spare that
\* was not there before.
LEMMA AgeKept ==
  ASSUME IInv, AgeInv, UNCHANGED <<age, userRows, failures, lostAcks>>, Spare' => Spare
  PROVE  AgeInv'
<1>1. Allowance' = Allowance
  BY Zenon DEF Allowance
<1>2. QED
  BY Zenon, <1>1 DEF AgeInv

\* The step raises the allowance by one.
LEMMA AllowanceRaised ==
  ASSUME IInv, AgeInv, age' = age, Allowance' = Allowance + 1
  PROVE  AgeInv'
  BY AllowanceType DEF AgeInv, IInv

\* The step starts the age afresh.
LEMMA AgeRestarted ==
  ASSUME IInv', age' = 0
  PROVE  AgeInv'
<1>1. Allowance' \in Nat /\ Allowance' >= 1
  <2>1. Cardinality(Users \ userRows') \in Nat
    BY Zenon, DeletedCount DEF IInv, MeteringTypeOK
  <2>2. QED
    BY <2>1 DEF IInv, MeteringTypeOK, Allowance
<1>2. QED
  BY <1>1 DEF AgeInv

LEMMA AgeStep == IInv /\ IInv' /\ AgeInv /\ [MeteringNext]_meteringVars => AgeInv'
<1> SUFFICES ASSUME IInv, IInv', AgeInv, [MeteringNext]_meteringVars PROVE AgeInv'
  BY Zenon
<1>1. CASE Tick
  <2>1. CASE pending = Zero
    BY Zenon, <1>1, <2>1, AgeRestarted DEF Tick
  <2>2. CASE pending # Zero
    <3>1. flush = "idle" /\ flush' = "select" /\ proc = "up"
      BY Zenon, <1>1, <2>2 DEF Tick, TakeBatch
    <3>2. age < Allowance
      BY Zenon, <3>1 DEF AgeInv, Spare
    <3>3. age' = age + 1 /\ Allowance' = Allowance
      BY <1>1, <2>2, <3>2, AllowanceType DEF Tick, IInv, meteringBounds, Allowance
    <3>4. ~Spare'
      BY Zenon, <3>1 DEF Spare
    <3>5. QED
      BY <3>2, <3>3, <3>4, AllowanceType DEF AgeInv, IInv
  <2>3. QED
    BY Zenon, <2>1, <2>2
<1>2. CASE Commit \/ Restart
  BY Zenon, <1>2, AgeRestarted DEF Commit, Restart
<1>3. CASE FlushFails \/ RollbackFails
  <2>1. age' = age /\ failures' = failures + 1 /\ UNCHANGED <<lostAcks, userRows>>
    BY Zenon, <1>3 DEF FlushFails, RollbackFails
  <2>2. Allowance' = Allowance + 1
    BY <2>1, DeletedCount DEF Allowance, IInv, MeteringTypeOK
  <2>3. QED
    BY Zenon, <2>1, <2>2, AllowanceRaised
<1>4. CASE CommitAckLost
  <2>1. age' = age /\ lostAcks' = lostAcks + 1 /\ UNCHANGED <<failures, userRows>>
    BY Zenon, <1>4 DEF CommitAckLost
  <2>2. Allowance' = Allowance + 1
    BY <2>1, DeletedCount DEF Allowance, IInv, MeteringTypeOK
  <2>3. QED
    BY <2>1, <2>2, AllowanceRaised
<1>5. ASSUME NEW u \in Users, DeleteAccount(u) PROVE AgeInv'
  <2>1. age' = age /\ u \in userRows /\ userRows' = userRows \ {u}
        /\ UNCHANGED <<failures, lostAcks>>
    BY Zenon, <1>5 DEF DeleteAccount, meteringBounds
  <2>2. Allowance' = Allowance + 1
    <3>1. Cardinality(Users \ userRows') = Cardinality(Users \ userRows) + 1
      BY Zenon, <2>1, OneMoreDeleted DEF IInv, MeteringTypeOK
    <3>2. Cardinality(Users \ userRows) \in Nat /\ failures \in Nat /\ lostAcks \in Nat
      BY Zenon, DeletedCount DEF IInv, MeteringTypeOK
    <3>3. QED
      BY <2>1, <3>1, <3>2 DEF Allowance
  <2>3. QED
    BY Zenon, <2>1, <2>2, AllowanceRaised
<1>6. CASE SelectUsers
  <2>1. ~Spare'
    BY Zenon, <1>6 DEF SelectUsers, Spare, Vanished
  <2>2. QED
    BY Zenon, <1>6, <2>1, AgeKept DEF SelectUsers, meteringBounds
<1>7. ASSUME NEW k \in Keys, ForeignKeyFails(k) PROVE AgeInv'
  <2>1. Spare' => Spare
    BY Zenon, <1>7 DEF ForeignKeyFails, RollBack, Spare, Vanished
  <2>2. QED
    BY Zenon, <1>7, <2>1, AgeKept DEF ForeignKeyFails, meteringBounds
<1>8. CASE PutBack
  <2>1. Spare' => Spare
    BY Zenon, <1>8 DEF PutBack, NoFlush, AfterFlush, Spare, Vanished
  <2>2. QED
    BY Zenon, <1>8, <2>1, AgeKept DEF PutBack, meteringBounds
<1>9. ASSUME NEW k \in Keys, CountRequest(k) \/ UpsertOne(k) PROVE AgeInv'
  <2>1. Spare' => Spare
    BY Zenon, <1>9 DEF CountRequest, UpsertOne, flushVars, Spare, Vanished
  <2>2. QED
    BY Zenon, <1>9, <2>1, AgeKept DEF CountRequest, UpsertOne, meteringBounds
<1>10. CASE LoopDone
  <2>1. Spare' => Spare
    BY Zenon, <1>10 DEF LoopDone, Spare, Vanished
  <2>2. QED
    BY Zenon, <1>10, <2>1, AgeKept DEF LoopDone, meteringBounds
<1>11. CASE ShutdownFlush \/ Shutdown \/ ShutdownAfterCommit \/ Crash
  <2>1. ~Spare'
    BY Zenon, <1>11 DEF ShutdownFlush, TakeBatch, AfterFlush, Shutdown, ShutdownAfterCommit, Crash,
                 Spare
  <2>2. QED
    BY Zenon, <1>11, <2>1, AgeKept DEF ShutdownFlush, Shutdown, ShutdownAfterCommit, Crash, meteringBounds
<1>12. CASE UNCHANGED meteringVars
  <2>1. Spare' => Spare
    BY Zenon, <1>12 DEF meteringVars, flushVars, Spare, Vanished
  <2>2. QED
    BY Zenon, <1>12, <2>1, AgeKept DEF meteringVars, meteringBounds
<1>13. QED
  BY <1>1, <1>2, <1>3, <1>4, <1>5, <1>6, <1>7, <1>8, <1>9, <1>10, <1>11, <1>12
     DEF MeteringNext, FlushStep

\* No request waits longer than one scheduler interval, and one more for each flush
\* that failed, lost its answer or met an account deleted under it: flush_requests
\* and the scheduler delay a request for no other reason, for any number of keys,
\* accounts, failures and restarts.
THEOREM UnwrittenBounded == MeteringSpec => []UnwrittenForOneIntervalPerFailure
<1>1. MeteringInit => AgeInv
  BY DeletedCount DEF MeteringInit, AgeInv, Spare, Allowance
<1>2. AgeInv => UnwrittenForOneIntervalPerFailure
  BY Zenon DEF AgeInv, UnwrittenForOneIntervalPerFailure
<1>3. QED
  BY <1>1, <1>2, SpecIInv, AgeStep, PTL DEF MeteringSpec

-----------------------------------------------------------------------------
(* Request metering implements UsageLedger. *)

\* A step that leaves both sides of the ledger alone is a stuttering step of it.
LEMMA LedgerStutters ==
  ASSUME UNCHANGED <<pending, batch, usageHours, userRows, recounted>>
  PROVE  UNCHANGED Ledger!vars
  BY Zenon DEF Ledger!vars, Unwritten, Written

\* A step that writes no more than what leaves memory and the batch settles.
Settling ==
    \A k \in Keys : /\ pending'[k] + batch'[k] <= pending[k] + batch[k]
                    /\ usageHours[k] <= usageHours'[k]
                    /\ usageHours'[k] + pending'[k] + batch'[k] <= usageHours[k] + pending[k] + batch[k]

\* Such a step is a Settle of the ledger.
LEMMA LedgerSettles ==
  ASSUME MeteringTypeOK, MeteringTypeOK', Settling, UNCHANGED <<userRows, recounted>>
  PROVE  Ledger!Settle
<1> DEFINE un == [k \in Keys |-> Unwritten(k)]
           wr == [k \in Keys |-> Written(k)]
<1>1. ASSUME NEW k \in Keys
      PROVE  /\ un'[k] \in 0 .. un[k]
             /\ wr'[k] \in wr[k] .. (wr[k] + un[k] - un'[k])
  <2>1. /\ pending[k] \in Nat /\ batch[k] \in Nat /\ usageHours[k] \in Nat /\ recounted[k] \in Nat
        /\ pending'[k] \in Nat /\ batch'[k] \in Nat /\ usageHours'[k] \in Nat
    BY Zenon DEF MeteringTypeOK, Tallies
  <2>2. un[k] = pending[k] + batch[k] /\ un'[k] = pending'[k] + batch'[k]
    BY Zenon DEF Unwritten
  <2>3. \/ wr[k] = usageHours[k] - recounted[k] /\ wr'[k] = usageHours'[k] - recounted[k]
        \/ wr[k] = 0 /\ wr'[k] = 0
    BY Zenon DEF Written
  <2>4. QED
    BY SMTT(30), <2>1, <2>2, <2>3 DEF Settling
<1>2. un' = [k \in Keys |-> un'[k]] /\ wr' = [k \in Keys |-> wr'[k]]
  BY Zenon
<1>3. QED
  BY Zenon, <1>1, <1>2 DEF Ledger!Settle

LEMMA LedgerStep ==
  ASSUME IInv, IInv', [MeteringNext]_meteringVars
  PROVE  [Ledger!Next]_(Ledger!vars)
<1>0. /\ MeteringTypeOK /\ MeteringTypeOK'
      /\ \A k \in Keys : Zero[k] = 0
      /\ \A k \in Keys : /\ pending[k] \in Nat /\ batch[k] \in Nat /\ usageHours[k] \in Nat
                         /\ lost[k] \in Nat /\ lost'[k] \in Nat /\ recounted[k] \in Nat
                         /\ pending'[k] \in Nat /\ batch'[k] \in Nat /\ usageHours'[k] \in Nat
  BY Zenon, ZeroIsCounts DEF IInv, MeteringTypeOK, Tallies
<1>1. ASSUME NEW k \in Keys, CountRequest(k) PROVE Ledger!Route(k)
  <2>1. /\ UNCHANGED <<batch, usageHours, userRows, recounted>>
        /\ pending' = [pending EXCEPT ![k] = @ + 1]
    BY Zenon, <1>1 DEF CountRequest, flushVars
  <2>2. \A j \in Keys : pending'[j] + batch'[j]
                          = IF j = k THEN (pending[j] + batch[j]) + 1 ELSE pending[j] + batch[j]
    BY <1>0, <2>1 DEF MeteringTypeOK, Tallies
  <2>3. [j \in Keys |-> pending'[j] + batch'[j]]
          = [[j \in Keys |-> pending[j] + batch[j]] EXCEPT ![k] = @ + 1]
    BY Zenon, <2>2
  <2>4. QED
    BY Zenon, <2>1, <2>3 DEF Ledger!Route, Unwritten, Written
<1>2. CASE TakeBatch /\ UNCHANGED <<usageHours, userRows, recounted>>
  <2>1. batch = Zero
    BY Zenon, <1>2 DEF TakeBatch, IInv, TxnInv
  <2>2. \A k \in Keys : pending'[k] + batch'[k] = pending[k] + batch[k]
    BY <1>0, <1>2, <2>1 DEF TakeBatch, flushVars
  <2>3. UNCHANGED Ledger!vars
    BY Zenon, <1>2, <2>2 DEF Ledger!vars, Unwritten, Written
  <2>4. QED
    BY Zenon, <2>3
<1>3. CASE SelectUsers \/ (\E k \in Keys : UpsertOne(k)) \/ LoopDone
  BY Zenon, <1>3, LedgerStutters DEF SelectUsers, UpsertOne, LoopDone, history
<1>4. CASE PutBack \/ RollbackFails
  <2>1. Settling
    BY <1>0, <1>4, AfterRollbackStep DEF Settling
  <2>2. Ledger!Settle
    BY Zenon, <1>0, <1>4, <2>1, LedgerSettles DEF PutBack, RollbackFails
  <2>3. QED
    BY Zenon, <2>2 DEF Ledger!Next
<1>5. CASE Commit
  <2>1. \A k \in Keys : batch'[k] = 0 /\ pending'[k] <= pending[k]
    BY <1>0, <1>5 DEF Commit, Leave, NoFlush
  <2>2. \A k \in Keys : usageHours'[k] = usageHours[k] + txn[k] /\ txn[k] \in Nat /\ txn[k] <= batch[k]
    BY <1>5, PlusIsCounts, TxnInBatch DEF Commit, Committed, IInv, MeteringTypeOK, Tallies
  <2>3. Settling
    <3>1. SUFFICES ASSUME NEW k \in Keys
                   PROVE  /\ pending'[k] + batch'[k] <= pending[k] + batch[k]
                          /\ usageHours[k] <= usageHours'[k]
                          /\ usageHours'[k] + pending'[k] + batch'[k]
                               <= usageHours[k] + pending[k] + batch[k]
      BY Zenon DEF Settling
    <3>2. /\ pending[k] \in Nat /\ batch[k] \in Nat /\ usageHours[k] \in Nat
          /\ pending'[k] \in Nat
      BY Zenon, <1>0
    <3>3. /\ batch'[k] = 0 /\ pending'[k] <= pending[k]
          /\ usageHours'[k] = usageHours[k] + txn[k] /\ txn[k] \in Nat /\ txn[k] <= batch[k]
      BY Zenon, <2>1, <2>2, <3>2
    <3>4. QED
      BY <3>2, <3>3
  <2>4. Ledger!Settle
    BY <1>0, <1>5, <2>3, LedgerSettles DEF Commit
  <2>5. QED
    BY <2>4 DEF Ledger!Next
<1>6. CASE Shutdown \/ Crash
  <2>1. \A k \in Keys : batch'[k] = 0 /\ pending'[k] <= pending[k] /\ usageHours'[k] = usageHours[k]
    BY <1>0, <1>6 DEF Shutdown, Crash, NoFlush
  <2>2. Settling
    BY SMTT(30), <1>0, <2>1 DEF Settling
  <2>3. Ledger!Settle
    BY Zenon, <1>0, <1>6, <2>2, LedgerSettles DEF Shutdown, Crash
  <2>4. QED
    BY <2>3 DEF Ledger!Next
<1>7. CASE ShutdownAfterCommit
  <2>1. \A k \in Keys : batch'[k] = 0 /\ pending'[k] = pending[k]
    BY Zenon, <1>0, <1>7 DEF ShutdownAfterCommit, NoFlush
  <2>2. \A k \in Keys : usageHours'[k] = usageHours[k] + txn[k] /\ txn[k] \in Nat /\ txn[k] <= batch[k]
    BY <1>7, PlusIsCounts, TxnInBatch DEF ShutdownAfterCommit, Committed, IInv, MeteringTypeOK, Tallies
  <2>3. Settling
    <3>1. SUFFICES ASSUME NEW k \in Keys
                   PROVE  /\ pending'[k] + batch'[k] <= pending[k] + batch[k]
                          /\ usageHours[k] <= usageHours'[k]
                          /\ usageHours'[k] + pending'[k] + batch'[k]
                               <= usageHours[k] + pending[k] + batch[k]
      BY DEF Settling
    <3>2. /\ pending[k] \in Nat /\ batch[k] \in Nat /\ usageHours[k] \in Nat
          /\ pending'[k] \in Nat
      BY <1>0
    <3>3. /\ batch'[k] = 0 /\ pending'[k] <= pending[k]
          /\ usageHours'[k] = usageHours[k] + txn[k] /\ txn[k] \in Nat /\ txn[k] <= batch[k]
      BY <2>1, <2>2, <3>2
    <3>4. QED
      BY <3>2, <3>3
  <2>4. Ledger!Settle
    BY Zenon, <1>0, <1>7, <2>3, LedgerSettles DEF ShutdownAfterCommit
  <2>5. QED
    BY <2>4 DEF Ledger!Next
<1>8. CASE Restart \/ UNCHANGED meteringVars
  BY Zenon, <1>8, LedgerStutters DEF Restart, meteringVars, flushVars, history
<1>9. ASSUME NEW u \in Users, DeleteAccount(u) PROVE Ledger!Purge(u)
  <2>1. /\ UNCHANGED <<pending, batch, recounted>>
        /\ \A k \in Keys : Written(k)' = IF Owner[k] = u THEN 0 ELSE Written(k)
    BY Zenon, <1>9, OwnerAssumption DEF DeleteAccount, Written, flushVars
  <2>2. QED
    BY Zenon, <2>1 DEF Ledger!Purge, Unwritten
<1>10. CASE CommitAckLost
  <2>1. txn \in Tallies /\ usageHours \in Tallies /\ recounted \in Tallies
    BY Zenon DEF IInv, MeteringTypeOK
  <2>2. \A k \in Keys : usageHours'[k] = usageHours[k] + txn[k] /\ recounted'[k] = recounted[k] + txn[k]
    BY <1>10, <2>1, PlusIsCounts DEF CommitAckLost
  <2>3. \A k \in Keys : usageHours'[k] - recounted'[k] = usageHours[k] - recounted[k]
    BY <2>1, <2>2 DEF Tallies
  <2>4. UNCHANGED <<pending, batch, userRows>>
    BY Zenon, <1>10 DEF CommitAckLost, RollBack
  <2>5. QED
    BY Zenon, <2>3, <2>4 DEF Ledger!vars, Unwritten, Written
<1>11. CASE Tick \/ ShutdownFlush
  BY Zenon, <1>2, <1>11 DEF Tick, ShutdownFlush, history
<1>12. CASE FlushFails \/ \E k \in Keys : ForeignKeyFails(k)
  BY Zenon, <1>12, LedgerStutters DEF FlushFails, ForeignKeyFails, RollBack, history
<1>13. ASSUME NEW k \in Keys, CountRequest(k) PROVE Ledger!Next
  BY Zenon, <1>1, <1>13 DEF Ledger!Next
<1>14. ASSUME NEW u \in Users, DeleteAccount(u) PROVE Ledger!Next
  BY Zenon, <1>9, <1>14 DEF Ledger!Next
<1>15. QED
  BY <1>3, <1>4, <1>5, <1>6, <1>7, <1>8, <1>10, <1>11, <1>12, <1>13, <1>14
     DEF MeteringNext, FlushStep

\* flush_requests over all its awaits, failures, cancellations and restarts writes
\* each routed request at most once, and what is written stays until its account is
\* deleted; the counts that a lost answer to a COMMIT writes again are set apart.
THEOREM LedgerImplemented == MeteringSpec => ImplementsLedger
<1>1. MeteringInit => Ledger!Init
  BY DEF MeteringInit, Ledger!Init, Unwritten, Written, Zero
<1>2. IInv /\ IInv' /\ [MeteringNext]_meteringVars => [Ledger!Next]_(Ledger!vars)
  BY Zenon, LedgerStep
<1>3. QED
  BY <1>1, <1>2, SpecIInv, PTL DEF MeteringSpec, ImplementsLedger, Ledger!Spec
=============================================================================
