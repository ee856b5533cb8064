--------------------------- MODULE Accounts_proofs ---------------------------
(***************************************************************************)
(* Proofs about accounts: Registration, for any invites, addresses and     *)
(* requests in flight; LoginRateLimit, for any number of attempts, any     *)
(* limit and any number of Redis errors; AccessControl, for any accounts,  *)
(* keys, requests in flight and updates admins may send.                   *)
(***************************************************************************)
EXTENDS Registration, LoginRateLimit, AccessControl, FiniteSetTheorems, TLAPS

-----------------------------------------------------------------------------
(* services/invite_service.py, services/auth_service.py *)

\* What a request at each await carries.
Carries ==
    \A r \in Requests :
        /\ req[r].pc \in {"claim", "insert", "commit"} => req[r].email \in Emails
        /\ req[r].pc \in {"claim", "update", "revoke"} => req[r].invite \in Invites

\* The row lock excludes, and while a sign-up holds it the row stays as it was
\* when the sign-up found it active.
LockInv ==
    /\ \A i \in Invites : \A r, q \in Holders(i) : r = q
    /\ \A r \in Requests :
         req[r].pc \in {"insert", "commit"} /\ req[r].invite \in Invites =>
             /\ invites[req[r].invite].created /\ ~invites[req[r].invite].revoked
             /\ invites[req[r].invite].uses = req[r].uses
             /\ req[r].uses < invites[req[r].invite].max

\* The unique index: of two transactions only one has inserted an address.
UniqueInv ==
    /\ \A r \in Requests : At(r, "commit") => accounts[req[r].email] = NoAccount
    /\ \A r, q \in Requests :
         At(r, "commit") /\ At(q, "commit") /\ req[r].email = req[q].email => r = q

\* An invite's use_count within its limits.
CountInv ==
    \A i \in Invites : /\ invites[i].uses <= invites[i].max
                       /\ ~invites[i].created => invites[i].uses = 0

IInv == TypeOK /\ Carries /\ LockInv /\ UniqueInv /\ CountInv /\ UsesAreAccounts

-----------------------------------------------------------------------------
(* Facts the actions share *)

\* A request that returns leaves every invariant as it is: its locks are gone.
LEMMA ReturnKeeps ==
    ASSUME IInv, NEW r \in Requests, Return(r), UNCHANGED <<invites, accounts>>
    PROVE  Carries' /\ LockInv' /\ UniqueInv' /\ CountInv' /\ UsesAreAccounts'
<1> USE RegistrationAssumption
<1>1. /\ req' \in [Requests -> Request] /\ req'[r] = Idle
      /\ \A q \in Requests \ {r} : req'[q] = req[q]
  BY Zenon DEF IInv, TypeOK, Return, Idle, Request
<1>2. \A i \in Invites : Holders(i)' \subseteq Holders(i)
  BY <1>1 DEF Holders, Idle
<1>3. Carries'
  BY <1>1 DEF IInv, Carries, Idle
<1>4. LockInv'
  BY <1>1, <1>2 DEF IInv, LockInv, Idle
<1>5. UniqueInv'
  BY <1>1 DEF IInv, UniqueInv, At, Idle
<1>6. CountInv' /\ UsesAreAccounts'
  BY DEF IInv, CountInv, UsesAreAccounts, Registered
<1>7. QED
  BY Zenon, <1>3, <1>4, <1>5, <1>6

\* A row nobody holds the lock of may change, as long as its use_count does not.
LEMMA RowKeeps ==
    ASSUME IInv, NEW i \in Invites, NEW row \in Invite,
           invites' = [invites EXCEPT ![i] = row],
           row.uses = invites[i].uses, row.uses <= row.max, row.created,
           \A r \in Requests : ~(req[r].pc \in {"insert", "commit"} /\ req[r].invite = i),
           UNCHANGED <<accounts, req>>
    PROVE  Carries' /\ LockInv' /\ UniqueInv' /\ CountInv' /\ UsesAreAccounts'
<1>1. /\ invites'[i] = row
      /\ \A j \in Invites \ {i} : invites'[j] = invites[j]
  BY Zenon DEF IInv, TypeOK
<1>2. Carries' /\ UniqueInv'
  BY Zenon DEF IInv, Carries, UniqueInv, At
<1>3. LockInv'
  <2>1. \A j \in Invites : Holders(j)' = Holders(j)
    BY Zenon DEF Holders
  <2>2. QED
    BY <1>1, <2>1 DEF IInv, LockInv
<1>4. CountInv'
  BY <1>1 DEF IInv, CountInv
<1>5. UsesAreAccounts'
  BY <1>1 DEF IInv, UsesAreAccounts, Registered
<1>6. QED
  BY Zenon, <1>2, <1>3, <1>4, <1>5

-----------------------------------------------------------------------------
(* The inductive invariant *)

LEMMA InitIInv == Init => IInv
<1> SUFFICES ASSUME Init PROVE IInv
  BY Zenon
<1> USE RegistrationAssumption
<1>1. TypeOK
  BY Zenon DEF Init, TypeOK, Invite, NotCreated, Request, Idle
<1>2. Carries /\ LockInv /\ UniqueInv /\ CountInv
  BY DEF Init, Carries, LockInv, UniqueInv, CountInv, Holders, At, Idle, NotCreated
<1>3. UsesAreAccounts
  <2>1. \A i \in Invites : Registered(i) = {}
    BY Zenon DEF Init, Registered
  <2>2. QED
    BY Zenon, <2>1, FS_EmptySet DEF Init, UsesAreAccounts, NotCreated
<1>4. QED
  BY Zenon, <1>1, <1>2, <1>3 DEF IInv

LEMMA NextTypeOK == IInv /\ [Next]_vars => TypeOK'
<1> SUFFICES ASSUME IInv, [Next]_vars PROVE TypeOK'
  BY Zenon
<1> USE RegistrationAssumption DEF TypeOK, IInv
<1>1. CASE \E i \in Invites, max \in MaxUses : CreateInvite(i, max)
  BY <1>1 DEF CreateInvite, Invite
<1>2. CASE \E i \in Invites : Expire(i)
  <2>1. PICK i \in Invites : Expire(i)
    BY Zenon, <1>2
  <2>2. [invites[i] EXCEPT !.expired = TRUE] \in Invite
    BY Zenon DEF Invite
  <2>3. QED
    BY Zenon, <2>1, <2>2 DEF Expire
<1>3. ASSUME NEW r \in Requests, NEW i \in Invites, BeginRevoke(r, i) PROVE TypeOK'
  BY Zenon, <1>3 DEF BeginRevoke, Request
<1>4. ASSUME NEW r \in Requests, NEW e \in Emails, NEW i \in Invites, BeginSignUp(r, e, i)
      PROVE  TypeOK'
  BY Zenon, <1>4 DEF BeginSignUp, Request
<1>5. ASSUME NEW r \in Requests, Claim(r) PROVE TypeOK'
  <2>1. req[r].invite \in Invites /\ req[r].email \in Emails
    BY Zenon, <1>5 DEF Claim, Carries, At
  <2>2. invites[req[r].invite].uses \in Nat
    BY Zenon, <2>1 DEF Invite
  <2>3. QED
    BY Zenon, <1>5, <2>1, <2>2 DEF Claim, TakeOrRefuse, Request, Idle
<1>6. ASSUME NEW r \in Requests, Insert(r) PROVE TypeOK'
  BY <1>6 DEF Insert, Goto, Return, Request, Idle
<1>7. ASSUME NEW r \in Requests, CommitSignUp(r) PROVE TypeOK'
  <2>1. req[r].email \in Emails /\ req[r].uses \in Nat
        /\ req[r].invite \in Invites \cup {NoInvite} /\ req[r] \in Request
    BY Zenon, <1>7 DEF CommitSignUp, Carries, At, Request
  <2>2. req' \in [Requests -> Request]
    BY Zenon, <1>7 DEF CommitSignUp, Return, Request, Idle
  <2>3. accounts' \in [Emails -> Invites \cup {NoInvite, NoAccount}]
    BY Zenon, <1>7, <2>1 DEF CommitSignUp
  <2>4. invites' \in [Invites -> Invite]
    BY <1>7, <2>1 DEF CommitSignUp, Invite
  <2>5. QED
    BY Zenon, <1>7, <2>2, <2>3, <2>4 DEF CommitSignUp
<1>8. ASSUME NEW r \in Requests, UpdateRevoked(r) PROVE TypeOK'
  BY <1>8 DEF UpdateRevoked, Goto, Request
<1>9. ASSUME NEW r \in Requests, CommitRevoke(r) PROVE TypeOK'
  <2>1. req[r].invite \in Invites
    BY Zenon, <1>9 DEF CommitRevoke, Carries, At
  <2>2. \A row \in Invite : [row EXCEPT !.revoked = TRUE] \in Invite
    BY Zenon DEF Invite
  <2>3. invites' \in [Invites -> Invite]
    BY Zenon, <1>9, <2>1, <2>2 DEF CommitRevoke
  <2>4. QED
    BY Zenon, <1>9, <2>3 DEF CommitRevoke, Return, Request, Idle
<1>10. ASSUME NEW r \in Requests, Abort(r) PROVE TypeOK'
  BY <1>10 DEF Abort, Return, Request, Idle
<1>11. CASE UNCHANGED vars
  BY Zenon, <1>11 DEF vars
<1>12. QED
  BY <1>1, <1>2, <1>3, <1>4, <1>5, <1>6, <1>7, <1>8, <1>9, <1>10, <1>11
  DEF Next, RequestStep

\* A request that takes no lock and inserts nothing yet.
LEMMA BeginKeeps ==
    ASSUME IInv, NEW r \in Requests,
           \A q \in Requests \ {r} : req'[q] = req[q],
           \/ req'[r].pc = "update" /\ req'[r].invite \in Invites
           \/ req'[r].pc = "claim" /\ req'[r].invite \in Invites /\ req'[r].email \in Emails
           \/ req'[r].pc = "insert" /\ req'[r].invite = NoInvite /\ req'[r].email \in Emails,
           UNCHANGED <<invites, accounts>>
    PROVE  Carries' /\ LockInv' /\ UniqueInv' /\ CountInv' /\ UsesAreAccounts'
<1> USE RegistrationAssumption
<1>1. \A q \in Requests \ {r} : req'[q] = req[q]
  BY Zenon
<1>2. \A i \in Invites : Holders(i)' \subseteq Holders(i)
  BY Zenon, <1>1 DEF Holders
<1>3. Carries'
  BY Zenon, <1>1 DEF IInv, Carries
<1>4. LockInv'
  BY <1>1, <1>2 DEF IInv, LockInv
<1>5. UniqueInv'
  BY <1>1 DEF IInv, UniqueInv, At
<1>6. CountInv' /\ UsesAreAccounts'
  BY DEF IInv, CountInv, UsesAreAccounts, Registered
<1>7. QED
  BY Zenon, <1>3, <1>4, <1>5, <1>6

LEMMA ClaimKeeps ==
    ASSUME IInv, NEW r \in Requests, Claim(r)
    PROVE  Carries' /\ LockInv' /\ UniqueInv' /\ CountInv' /\ UsesAreAccounts'
<1> USE RegistrationAssumption
<1> DEFINE i == req[r].invite
           new == [pc |-> "insert", email |-> req[r].email, invite |-> i, uses |-> invites[i].uses]
<1>1. i \in Invites /\ req[r].email \in Emails /\ Holders(i) = {}
  BY Zenon DEF Claim, IInv, Carries, At
<1>2. CASE ~IsActive(i)
  BY Zenon, <1>2, ReturnKeeps DEF Claim, TakeOrRefuse, Return
<1>3. CASE IsActive(i)
  <2>1. /\ req'[r] = new /\ \A q \in Requests \ {r} : req'[q] = req[q]
        /\ UNCHANGED <<invites, accounts>>
    BY Zenon, <1>3 DEF IInv, TypeOK, Claim, TakeOrRefuse
  <2>2. Carries'
    BY <1>1, <2>1 DEF IInv, Carries
  <2>3. LockInv'
    <3>1. \A j \in Invites : \A q \in Holders(j)' : q # r => q \in Holders(j)
      BY Zenon, <2>1 DEF Holders
    <3>2. \A j \in Invites : \A q1, q2 \in Holders(j)' : q1 = q2
      BY <1>1, <2>1, <3>1 DEF IInv, LockInv, Holders
    <3>3. invites[i].created /\ ~invites[i].revoked /\ invites[i].uses < invites[i].max
      BY Zenon, <1>3 DEF IsActive
    <3>4. QED
      BY <1>1, <2>1, <3>2, <3>3 DEF IInv, LockInv
  <2>4. UniqueInv'
    BY <2>1 DEF IInv, UniqueInv, At
  <2>5. CountInv' /\ UsesAreAccounts'
    BY <2>1 DEF IInv, CountInv, UsesAreAccounts, Registered
  <2>6. QED
    BY Zenon, <2>2, <2>3, <2>4, <2>5
<1>4. QED
  BY Zenon, <1>2, <1>3

LEMMA InsertKeeps ==
    ASSUME IInv, NEW r \in Requests, Insert(r)
    PROVE  Carries' /\ LockInv' /\ UniqueInv' /\ CountInv' /\ UsesAreAccounts'
<1> USE RegistrationAssumption
<1>1. CASE accounts[req[r].email] # NoAccount
  BY Zenon, <1>1, ReturnKeeps DEF Insert
<1>2. CASE accounts[req[r].email] = NoAccount
  <2>1. /\ req'[r].pc = "commit" /\ req'[r].email = req[r].email
        /\ req'[r].invite = req[r].invite /\ req'[r].uses = req[r].uses
        /\ \A q \in Requests \ {r} : req'[q] = req[q]
        /\ UNCHANGED <<invites, accounts>>
    BY <1>2 DEF IInv, TypeOK, Insert, Goto, Request
  <2>2. At(r, "insert") /\ ~Reserved(r)
    BY Zenon DEF Insert
  <2>3. Carries'
    BY Zenon, <2>1, <2>2 DEF IInv, Carries, At
  <2>4. LockInv'
    <3>1. \A i \in Invites : Holders(i)' = Holders(i)
      BY <2>1, <2>2 DEF Holders, At
    <3>2. QED
      BY <2>1, <2>2, <3>1 DEF IInv, LockInv, At
  <2>5. UniqueInv'
    BY <1>2, <2>1, <2>2 DEF IInv, UniqueInv, At, Reserved
  <2>6. CountInv' /\ UsesAreAccounts'
    BY <2>1 DEF IInv, CountInv, UsesAreAccounts, Registered
  <2>7. QED
    BY <2>3, <2>4, <2>5, <2>6
<1>3. QED
  BY Zenon, <1>1, <1>2

LEMMA CommitKeeps ==
    ASSUME IInv, NEW r \in Requests, CommitSignUp(r)
    PROVE  Carries' /\ LockInv' /\ UniqueInv' /\ CountInv' /\ UsesAreAccounts'
<1> USE RegistrationAssumption
<1> DEFINE e == req[r].email
           i == req[r].invite
<1>1. /\ At(r, "commit") /\ e \in Emails /\ i \in Invites \cup {NoInvite}
      /\ accounts[e] = NoAccount
  BY Zenon DEF IInv, TypeOK, Request, CommitSignUp, Carries, UniqueInv, At
<1>2. req'[r] = Idle /\ \A q \in Requests \ {r} : req'[q] = req[q]
  BY Zenon DEF IInv, TypeOK, CommitSignUp, Return
<1>3. accounts'[e] = i /\ \A d \in Emails \ {e} : accounts'[d] = accounts[d]
  BY Zenon, <1>1 DEF IInv, TypeOK, CommitSignUp
<1>4. i \in Invites =>
        /\ invites[i].created /\ ~invites[i].revoked
        /\ invites[i].uses = req[r].uses /\ invites[i].uses < invites[i].max
  BY Zenon, <1>1 DEF IInv, LockInv, At
<1>5. /\ \A j \in Invites \ {i} : invites'[j] = invites[j]
      /\ i \in Invites => /\ invites'[i].uses = invites[i].uses + 1
                          /\ invites'[i].max = invites[i].max
                          /\ invites'[i].created = invites[i].created
                          /\ invites'[i].revoked = invites[i].revoked
  BY <1>1, <1>4 DEF IInv, TypeOK, Invite, CommitSignUp
<1>6. Carries'
  BY <1>2 DEF IInv, Carries, Idle
<1>7. LockInv'
  <2>1. \A j \in Invites : Holders(j)' \subseteq Holders(j)
    BY <1>2 DEF Holders, Idle
  <2>2. ASSUME NEW q \in Requests, req'[q].pc \in {"insert", "commit"}, req'[q].invite \in Invites
        PROVE  q # r /\ req'[q] = req[q] /\ req[q].invite # i
    <3>1. q # r /\ req'[q] = req[q]
      BY <1>2, <2>2 DEF Idle
    <3>2. req[q].invite = i => q \in Holders(i) /\ r \in Holders(i)
      BY Zenon, <1>1, <2>2, <3>1 DEF Holders, At
    <3>3. QED
      BY <2>2, <3>1, <3>2 DEF IInv, LockInv
  <2>3. QED
    BY <1>5, <2>1, <2>2 DEF IInv, LockInv
<1>8. UniqueInv'
  <2>1. ASSUME NEW q \in Requests, req'[q].pc = "commit"
        PROVE  q # r /\ req'[q] = req[q] /\ req[q].email \in Emails \ {e}
    BY <1>1, <1>2, <2>1 DEF IInv, UniqueInv, Carries, At, Idle
  <2>2. QED
    BY <1>3, <2>1 DEF IInv, UniqueInv, At
<1>9. CountInv'
  <2>1. \A j \in Invites : invites[j].uses \in Nat /\ invites[j].max \in Nat
    BY Zenon DEF IInv, TypeOK, Invite
  <2>2. QED
    BY <1>4, <1>5, <2>1 DEF IInv, CountInv
<1>10. UsesAreAccounts'
  <2>1. ASSUME NEW j \in Invites, j # i
        PROVE  invites'[j].uses = Cardinality(Registered(j)')
    <3>1. Registered(j)' = Registered(j)
      BY Zenon, <1>1, <1>3, <2>1 DEF Registered
    <3>2. QED
      BY Zenon, <1>5, <2>1, <3>1 DEF IInv, UsesAreAccounts
  <2>2. ASSUME NEW j \in Invites, j = i
        PROVE  invites'[j].uses = Cardinality(Registered(j)')
    <3> HIDE DEF e, i
    <3>0. PICK d \in Emails : d = e
      BY Zenon, <1>1
    <3>1. Registered(j)' = Registered(j) \cup {d} /\ d \notin Registered(j)
      BY Zenon, <1>1, <1>3, <2>2, <3>0 DEF Registered
    <3>2. IsFiniteSet(Registered(j))
      BY Zenon, FS_Subset DEF Registered
    <3>3. Cardinality(Registered(j)') = Cardinality(Registered(j)) + 1
      BY Zenon, <3>1, <3>2, FS_AddElement
    <3>4. QED
      BY Zenon, <1>5, <2>2, <3>3 DEF IInv, UsesAreAccounts
  <2>3. QED
    BY Zenon, <2>1, <2>2 DEF UsesAreAccounts
<1>11. QED
  BY Zenon, <1>6, <1>7, <1>8, <1>9, <1>10

LEMMA RevokeKeeps ==
    ASSUME IInv, NEW r \in Requests, CommitRevoke(r)
    PROVE  Carries' /\ LockInv' /\ UniqueInv' /\ CountInv' /\ UsesAreAccounts'
<1> USE RegistrationAssumption
<1> DEFINE i == req[r].invite
<1>1. At(r, "revoke") /\ i \in Invites /\ UNCHANGED accounts
  BY Zenon DEF IInv, CommitRevoke, Carries, At
<1>2. req'[r] = Idle /\ \A q \in Requests \ {r} : req'[q] = req[q]
  BY Zenon DEF IInv, TypeOK, CommitRevoke, Return
<1>3. /\ \A j \in Invites \ {i} : invites'[j] = invites[j]
      /\ invites'[i].uses = invites[i].uses /\ invites'[i].max = invites[i].max
      /\ invites'[i].created = invites[i].created
  BY <1>1 DEF IInv, TypeOK, Invite, CommitRevoke
<1>4. Carries'
  BY <1>2 DEF IInv, Carries, Idle
<1>5. LockInv'
  <2>1. \A j \in Invites : Holders(j)' \subseteq Holders(j)
    BY <1>2 DEF Holders, Idle
  <2>2. ASSUME NEW q \in Requests, req'[q].pc \in {"insert", "commit"}, req'[q].invite \in Invites
        PROVE  q # r /\ req'[q] = req[q] /\ req[q].invite # i
    <3>1. q # r /\ req'[q] = req[q]
      BY <1>2, <2>2 DEF Idle
    <3>2. req[q].invite = i => q \in Holders(i) /\ r \in Holders(i)
      BY Zenon, <1>1, <2>2, <3>1 DEF Holders, At
    <3>3. QED
      BY Zenon, <1>1, <3>1, <3>2 DEF IInv, LockInv
  <2>3. \A j \in Invites : \A p, q \in Holders(j)' : p = q
    BY Zenon, <2>1 DEF IInv, LockInv
  <2>4. ASSUME NEW q \in Requests, req'[q].pc \in {"insert", "commit"}, req'[q].invite \in Invites
        PROVE  /\ invites'[req'[q].invite] = invites[req[q].invite] /\ req'[q] = req[q]
               /\ req[q].pc \in {"insert", "commit"} /\ req[q].invite \in Invites
    BY Zenon, <1>3, <2>2, <2>4
  <2>5. QED
    BY Zenon, <2>3, <2>4 DEF IInv, LockInv
<1>6. UniqueInv'
  BY <1>1, <1>2 DEF IInv, UniqueInv, At, Idle
<1>7. CountInv'
  BY Zenon, <1>3 DEF IInv, CountInv
<1>8. UsesAreAccounts'
  BY Zenon, <1>1, <1>3 DEF IInv, UsesAreAccounts, Registered
<1>9. QED
  BY <1>4, <1>5, <1>6, <1>7, <1>8

LEMMA UpdateKeeps ==
    ASSUME IInv, NEW r \in Requests, UpdateRevoked(r)
    PROVE  Carries' /\ LockInv' /\ UniqueInv' /\ CountInv' /\ UsesAreAccounts'
<1> USE RegistrationAssumption
<1>1. /\ req'[r].pc = "revoke" /\ req'[r].invite = req[r].invite
      /\ \A q \in Requests \ {r} : req'[q] = req[q]
      /\ UNCHANGED <<invites, accounts>>
  BY Zenon DEF IInv, TypeOK, UpdateRevoked, Goto, Request
<1>2. req[r].invite \in Invites /\ Holders(req[r].invite) = {}
  BY Zenon DEF IInv, UpdateRevoked, Carries, At
<1>3. Carries'
  BY Zenon, <1>1, <1>2 DEF IInv, Carries
<1>4. LockInv'
  <2>1. \A j \in Invites : \A q \in Holders(j)' : q # r => q \in Holders(j)
    BY Zenon, <1>1 DEF Holders
  <2>2. \A j \in Invites : \A q1, q2 \in Holders(j)' : q1 = q2
    BY <1>1, <1>2, <2>1 DEF IInv, LockInv, Holders
  <2>3. QED
    BY Zenon, <1>1, <2>2 DEF IInv, LockInv
<1>5. UniqueInv'
  BY <1>1 DEF IInv, UniqueInv, At
<1>6. CountInv' /\ UsesAreAccounts'
  BY <1>1 DEF IInv, CountInv, UsesAreAccounts, Registered
<1>7. QED
  BY Zenon, <1>3, <1>4, <1>5, <1>6

LEMMA NextIInv == IInv /\ [Next]_vars => IInv'
<1> SUFFICES ASSUME IInv, [Next]_vars
             PROVE  Carries' /\ LockInv' /\ UniqueInv' /\ CountInv' /\ UsesAreAccounts'
  BY Zenon, NextTypeOK DEF IInv
<1> USE RegistrationAssumption
<1> DEFINE Rest == Carries' /\ LockInv' /\ UniqueInv' /\ CountInv' /\ UsesAreAccounts'
<1>1. ASSUME NEW i \in Invites, NEW max \in MaxUses, CreateInvite(i, max)
      PROVE  Rest
  <2> DEFINE row == [created |-> TRUE, max |-> max, uses |-> 0, revoked |-> FALSE,
                     expired |-> FALSE]
  <2>1. row \in Invite /\ row.uses <= row.max /\ row.created
    BY DEF Invite
  <2>2. row.uses = invites[i].uses
    BY Zenon, <1>1 DEF CreateInvite, IInv, CountInv
  <2>3. \A r \in Requests : ~(req[r].pc \in {"insert", "commit"} /\ req[r].invite = i)
    BY Zenon, <1>1 DEF CreateInvite, IInv, LockInv
  <2>4. QED
    BY Zenon, <1>1, <2>1, <2>2, <2>3, RowKeeps DEF CreateInvite
<1>2. ASSUME NEW i \in Invites, Expire(i) PROVE Rest
  <2>1. /\ \A j \in Invites : /\ invites'[j].uses = invites[j].uses
                              /\ invites'[j].max = invites[j].max
                              /\ invites'[j].created = invites[j].created
                              /\ invites'[j].revoked = invites[j].revoked
        /\ UNCHANGED <<accounts, req>>
    BY <1>2 DEF Expire, IInv, TypeOK, Invite
  <2>2. \A j \in Invites : Holders(j)' = Holders(j) /\ Registered(j)' = Registered(j)
    BY Zenon, <2>1 DEF Holders, Registered
  <2>3. Carries' /\ UniqueInv' /\ CountInv'
    BY Zenon, <2>1 DEF IInv, Carries, UniqueInv, At, CountInv
  <2>4. LockInv'
    BY <2>1, <2>2 DEF IInv, LockInv
  <2>5. UsesAreAccounts'
    BY Zenon, <2>1, <2>2 DEF IInv, UsesAreAccounts
  <2>6. QED
    BY Zenon, <2>3, <2>4, <2>5
<1>3. ASSUME NEW r \in Requests, NEW i \in Invites, BeginRevoke(r, i) PROVE Rest
  <2>1. /\ req'[r].pc = "update" /\ req'[r].invite \in Invites
        /\ \A q \in Requests \ {r} : req'[q] = req[q]
        /\ UNCHANGED <<invites, accounts>>
    BY Zenon, <1>3 DEF BeginRevoke, IInv, TypeOK
  <2>2. QED
    BY Zenon, <2>1, BeginKeeps
<1>4. ASSUME NEW r \in Requests, NEW e \in Emails, NEW i \in Invites, BeginSignUp(r, e, i)
      PROVE  Rest
  <2>1. /\ req'[r].email \in Emails
        /\ \/ req'[r].pc = "claim" /\ req'[r].invite \in Invites
           \/ req'[r].pc = "insert" /\ req'[r].invite = NoInvite
        /\ \A q \in Requests \ {r} : req'[q] = req[q]
        /\ UNCHANGED <<invites, accounts>>
    BY Zenon, <1>4 DEF BeginSignUp, IInv, TypeOK
  <2>2. QED
    BY Zenon, <2>1, BeginKeeps
<1>5. ASSUME NEW r \in Requests, RequestStep(r) PROVE Rest
  BY Zenon, <1>5, ClaimKeeps, InsertKeeps, CommitKeeps, UpdateKeeps, RevokeKeeps DEF RequestStep
<1>6. ASSUME NEW r \in Requests, Abort(r) PROVE Rest
  BY Zenon, <1>6, ReturnKeeps DEF Abort
<1>7. CASE UNCHANGED vars
  <2>1. Carries' /\ UniqueInv' /\ CountInv'
    BY Zenon, <1>7 DEF vars, IInv, Carries, UniqueInv, At, CountInv
  <2>2. LockInv' /\ UsesAreAccounts'
    BY <1>7 DEF vars, IInv, LockInv, Holders, UsesAreAccounts, Registered
  <2>3. QED
    BY Zenon, <2>1, <2>2
<1>8. QED
  BY Zenon, <1>1, <1>2, <1>3, <1>4, <1>5, <1>6, <1>7 DEF Next

-----------------------------------------------------------------------------
(* Theorems *)

\* The invariant holds in every behaviour of sign-ups and revocations.
THEOREM SpecIInv == Spec => []IInv
  BY InitIInv, NextIInv, PTL DEF Spec

\* The tables and the requests of register_user and revoke_invite keep their types.
THEOREM TypeCorrect == Spec => []TypeOK
<1>1. IInv => TypeOK
  BY Zenon DEF IInv
<1>2. QED
  BY <1>1, SpecIInv, PTL

\* register_user commits an invite's use together with the account it creates:
\* use_count is the number of accounts, however many sign-ups overlap or fail.
THEOREM UsesAreAccountsHolds == Spec => []UsesAreAccounts
<1>1. IInv => UsesAreAccounts
  BY Zenon DEF IInv
<1>2. QED
  BY <1>1, SpecIInv, PTL

\* claim_invite never lets an invite create more accounts than its max_uses.
THEOREM WithinMaxUsesHolds == Spec => []WithinMaxUses
<1>1. IInv => WithinMaxUses
  BY Zenon DEF IInv, CountInv, UsesAreAccounts, WithinMaxUses
<1>2. QED
  BY <1>1, SpecIInv, PTL

\* After revoke_invite has committed no account is created with the invite.
THEOREM RevokedIsFinalHolds == Spec => RevokedIsFinal
<1> USE RegistrationAssumption
<1>1. ASSUME IInv, [Next]_vars, NEW i \in Invites, invites[i].revoked
      PROVE  Registered(i)' = Registered(i)
  <2>1. CASE accounts' = accounts
    BY Zenon, <2>1 DEF Registered
  <2>2. CASE \E r \in Requests : CommitSignUp(r)
    <3>1. PICK r \in Requests : CommitSignUp(r)
      BY Zenon, <2>2
    <3>2. accounts[req[r].email] = NoAccount /\ req[r].email \in Emails /\ req[r].invite # i
      BY Zenon, <1>1, <3>1 DEF IInv, UniqueInv, LockInv, Carries, CommitSignUp, At
    <3>3. QED
      BY Zenon, <1>1, <3>1, <3>2 DEF IInv, TypeOK, CommitSignUp, Registered
  <2>3. QED
    BY Zenon, <1>1, <2>1, <2>2
    DEF Next, vars, CreateInvite, Expire, BeginRevoke, BeginSignUp, RequestStep, Claim, Insert,
        UpdateRevoked, CommitRevoke, Abort
<1>2. IInv /\ [Next]_vars =>
        [\A i \in Invites : invites[i].revoked => Registered(i)' = Registered(i)]_vars
  BY Zenon, <1>1
<1>3. QED
  BY <1>2, SpecIInv, PTL DEF Spec, RevokedIsFinal

-----------------------------------------------------------------------------
(* security/rate_limit.py *)

LoginTypeOK ==
    /\ count \in Nat /\ passed \in Nat /\ ttl \in {NoExpiry} \cup (Nat \ {0})
    /\ attempt \in [Attempts -> {"idle", "expire", "ttl"}] /\ cutOff \in BOOLEAN

\* What was let through was counted: of INCRs whose answer came, each one that is let
\* through finds the counter higher than what was let through before it.
LoginIInv ==
    /\ LoginTypeOK
    /\ passed <= count
    /\ AttemptsWithinLimit
    /\ CounterWillEnd

LEMMA LoginInitIInv == ASSUME LoginConstantsOK PROVE LoginInit => LoginIInv
<1> SUFFICES ASSUME LoginInit PROVE LoginIInv
  BY Zenon
<1>1. LoginTypeOK
  BY Zenon DEF LoginInit, LoginTypeOK
<1>2. passed <= count /\ AttemptsWithinLimit /\ CounterWillEnd
  BY DEF LoginInit, AttemptsWithinLimit, CounterWillEnd, LoginConstantsOK
<1>3. QED
  BY Zenon, <1>1, <1>2 DEF LoginIInv

\* An attempt that is not about to send EXPIRE leaves the one that is alone.
LEMMA OthersExpire ==
  ASSUME LoginTypeOK, NEW s \in Attempts, ~AttemptAt(s, "expire"), NEW pc, AttemptGoto(s, pc),
         \E x \in Attempts : AttemptAt(x, "expire")
  PROVE  \E x \in Attempts : AttemptAt(x, "expire")'
  BY Zenon DEF LoginTypeOK, AttemptAt, AttemptGoto

LEMMA IncrStep ==
  ASSUME LoginConstantsOK, LoginIInv, NEW s \in Attempts, Incr(s)
  PROVE  LoginIInv'
<1>1. attempt[s] = "idle" /\ count' = count + 1 /\ count \in Nat
  BY Zenon DEF Incr, Arrives, AttemptAt, LoginIInv, LoginTypeOK
<1>2. LoginTypeOK'
  BY DEF Incr, AttemptGoto, LoginIInv, LoginTypeOK
<1>3. passed' <= count' /\ AttemptsWithinLimit'
  BY <1>1 DEF Incr, LoginIInv, LoginTypeOK, AttemptsWithinLimit, LoginConstantsOK
<1>4. CounterWillEnd'
  <2>1. CASE count = 0
    BY <1>1, <2>1 DEF Incr, AttemptGoto, AttemptAt, LoginIInv, LoginTypeOK, CounterWillEnd
  <2>2. CASE count > 0
    <3>1. ttl # NoExpiry \/ cutOff \/ \E x \in Attempts : AttemptAt(x, "expire")
      BY Zenon, <2>2 DEF LoginIInv, CounterWillEnd
    <3>2. ttl' = ttl /\ cutOff' = cutOff
      BY Zenon DEF Incr
    <3>3. (\E x \in Attempts : AttemptAt(x, "expire")) => \E x \in Attempts : AttemptAt(x, "expire")'
      BY Zenon, <1>1, OthersExpire DEF Incr, AttemptAt, LoginIInv
    <3>4. QED
      BY Zenon, <3>1, <3>2, <3>3 DEF CounterWillEnd, AttemptAt
  <2>3. QED
    BY <1>1, <2>1, <2>2
<1>5. QED
  BY Zenon, <1>2, <1>3, <1>4 DEF LoginIInv

LEMMA LoginNextIInv == ASSUME LoginConstantsOK PROVE LoginIInv /\ [LoginNext]_loginVars => LoginIInv'
<1> SUFFICES ASSUME LoginIInv, [LoginNext]_loginVars PROVE LoginIInv'
  BY Zenon
<1>1. ASSUME NEW s \in Attempts, NEW applied \in BOOLEAN, IncrFails(s, applied) PROVE LoginIInv'
  BY <1>1 DEF IncrFails, LoginIInv, LoginTypeOK, AttemptsWithinLimit, CounterWillEnd, AttemptAt
<1>2. ASSUME NEW s \in Attempts, RedisExpire(s) PROVE LoginIInv'
  BY <1>2 DEF RedisExpire, AttemptGoto, AttemptAt, LoginIInv, LoginTypeOK, AttemptsWithinLimit, CounterWillEnd,
              LoginConstantsOK, NoExpiry
<1>3. ASSUME NEW s \in Attempts, ExpireFails(s) PROVE LoginIInv'
  BY Zenon, <1>3 DEF ExpireFails, AttemptGoto, LoginIInv, LoginTypeOK, AttemptsWithinLimit, CounterWillEnd
<1>4. ASSUME NEW s \in Attempts, Ttl(s) \/ TtlFails(s) PROVE LoginIInv'
  <2>1. ~AttemptAt(s, "expire") /\ AttemptGoto(s, "idle") /\ UNCHANGED <<count, ttl, passed, cutOff>>
    BY Zenon, <1>4 DEF Ttl, TtlFails, AttemptAt
  <2>2. (\E x \in Attempts : AttemptAt(x, "expire")) => \E x \in Attempts : AttemptAt(x, "expire")'
    BY Zenon, <2>1, OthersExpire DEF LoginIInv
  <2>3. CounterWillEnd'
    BY Zenon, <2>1, <2>2 DEF LoginIInv, CounterWillEnd, AttemptAt
  <2>4. QED
    BY Zenon, <2>1, <2>3 DEF AttemptGoto, LoginIInv, LoginTypeOK, AttemptsWithinLimit
<1>5. CASE GatewayDies
  BY Zenon, <1>5 DEF GatewayDies, LoginIInv, LoginTypeOK, AttemptsWithinLimit, CounterWillEnd
<1>6. CASE CounterAges
  <2>1. ttl \in Nat /\ ttl > 0 /\ UNCHANGED attempt
    BY <1>6 DEF CounterAges, LoginIInv, LoginTypeOK
  <2>2. CASE ttl = 1
    <3>1. count' = 0 /\ ttl' = NoExpiry /\ passed' = 0 /\ cutOff' = FALSE
      BY Zenon, <1>6, <2>2 DEF CounterAges
    <3>2. LoginTypeOK'
      BY Zenon, <2>1, <3>1 DEF LoginIInv, LoginTypeOK
    <3>3. passed' <= count' /\ AttemptsWithinLimit' /\ CounterWillEnd'
      BY <3>1 DEF AttemptsWithinLimit, CounterWillEnd, LoginConstantsOK
    <3>4. QED
      BY Zenon, <3>2, <3>3 DEF LoginIInv
  <2>3. CASE ttl # 1
    <3>1. ttl' = ttl - 1 /\ ttl' \in Nat \ {0} /\ UNCHANGED <<count, passed, cutOff>>
      BY <1>6, <2>1, <2>3 DEF CounterAges
    <3>2. QED
      BY <2>1, <3>1 DEF LoginIInv, LoginTypeOK, AttemptsWithinLimit, CounterWillEnd, NoExpiry
  <2>4. QED
    BY Zenon, <2>2, <2>3
<1>7. CASE UNCHANGED loginVars
  BY Zenon, <1>7 DEF loginVars, LoginIInv, LoginTypeOK, AttemptsWithinLimit, CounterWillEnd, AttemptAt
<1>8. QED
  BY Zenon, <1>1, <1>2, <1>3, <1>4, <1>5, <1>6, <1>7, IncrStep DEF LoginNext

LEMMA LoginSpecIInv == ASSUME LoginConstantsOK PROVE LoginSpec => []LoginIInv
  BY LoginInitIInv, LoginNextIInv, PTL DEF LoginSpec

\* check_login_rate_limit lets no more attempts of one counter through than the limit,
\* for any number of attempts in flight and any failures of Redis.
THEOREM AttemptsWithinLimitHolds ==
  ASSUME LoginConstantsOK PROVE LoginSpec => []AttemptsWithinLimit
<1>1. LoginIInv => AttemptsWithinLimit
  BY Zenon DEF LoginIInv
<1>2. QED
  BY <1>1, LoginSpecIInv, PTL

\* A counter without a lifetime is about to get one, or the EXPIRE of the attempt that
\* created it failed or died with the process: nothing else makes a block permanent.
THEOREM CounterWillEndHolds ==
  ASSUME LoginConstantsOK PROVE LoginSpec => []CounterWillEnd
<1>1. LoginIInv => CounterWillEnd
  BY Zenon DEF LoginIInv
<1>2. QED
  BY <1>1, LoginSpecIInv, PTL

-----------------------------------------------------------------------------
(* security/dependencies.py, routers/admin.py *)

Change == [role : Roles \cup {Keep}, active : {"yes", "no", "keep"}]
Call == [pc : {"account", "mint", "revoke", "update", "commit"}, op : {"mint", "revoke", "update"},
         user : Users, key : ApiKeys \cup {"token"}, target : Users, change : Change,
         role : Roles \cup {Keep}, row : UserRow, cred : BOOLEAN, acct : BOOLEAN]

AccessTypeOK ==
    /\ users \in [Users -> UserRow]
    /\ apiKeys \in [ApiKeys -> [owner : Users \cup {"nobody"}, state : {"none", "active", "revoked"}]]
    /\ \A k \in ApiKeys : apiKeys[k].state = "active" => apiKeys[k].owner \in Users
    /\ call \in [Callers -> Call \cup {NoCall}]
    /\ usurped \in BOOLEAN /\ lapsed \in BOOLEAN

\* What a request c in flight has shown: its credential was good when it came; from
\* the moment its account is looked up, so was the account; and an account that is good
\* now has been seen to be.  An admin's own admin access has survived LoadUser.
Shown(c, rows) ==
    /\ c.cred = TRUE
    /\ c.pc # "account" => c.acct = TRUE
    /\ GoodAccount(c, rows) => c.acct = TRUE
    /\ c.pc = "commit" /\ c.target = c.user => c.change.role \notin {1, 2} /\ c.change.active # "no"

CallsShown == \A r \in Callers : call[r] # NoCall => Shown(call[r], users)

AccessIInv == AccessTypeOK /\ CallsShown /\ ActedWithAuthority /\ AdminRemains

LEMMA AccessInitIInv == AccessInit => AccessIInv
<1> SUFFICES ASSUME AccessInit PROVE AccessIInv
  BY Zenon
<1>1. AccessTypeOK
  BY Zenon DEF AccessInit, AccessTypeOK, NoKeyRow
<1>2. CallsShown
  BY Zenon DEF AccessInit, CallsShown
<1>3. ActedWithAuthority /\ AdminRemains
  BY Zenon DEF AccessInit, ActedWithAuthority, AdminRemains, AdminActive
<1>4. QED
  BY Zenon, <1>1, <1>2, <1>3 DEF AccessIInv

\* A request in flight is one whose pc is not "idle".
LEMMA InFlightCall ==
  ASSUME AccessTypeOK, NEW r \in Callers, call[r].pc # "idle"
  PROVE  call[r] \in Call /\ call[r] # NoCall
  BY DEF AccessTypeOK, NoCall

\* A request that arrives with what it has been checked for.
LEMMA ArriveStep ==
  ASSUME AccessIInv, NEW r \in Callers, NEW c \in Call, Arrive(r, c),
         c.pc # "commit", GoodCredential(c, apiKeys, sessions),
         c.pc # "account" => GoodAccount(c, users)
  PROVE  AccessIInv'
<1> DEFINE d == [c EXCEPT !.cred = GoodCredential(c, apiKeys, sessions),
                          !.acct = GoodAccount(c, users)]
<1>1. call' = [call EXCEPT ![r] = d] /\ UNCHANGED <<users, apiKeys, sessions, usurped, lapsed>>
  BY Zenon DEF Arrive
<1>2. GoodCredential(c, apiKeys, sessions) \in BOOLEAN /\ GoodAccount(c, users) \in BOOLEAN
  BY Zenon DEF GoodCredential, GoodAccount
<1>3. /\ d \in Call /\ d.cred = TRUE /\ d.acct = GoodAccount(c, users)
      /\ d.pc = c.pc /\ d.op = c.op /\ d.user = c.user
  BY Zenon, <1>2 DEF Call
<1>4. GoodAccount(d, users) <=> GoodAccount(c, users)
  BY Zenon, <1>3 DEF GoodAccount
<1> HIDE DEF d
<1>5. Shown(d, users)
  BY Zenon, <1>3, <1>4 DEF Shown
<1>6. AccessTypeOK'
  BY Zenon, <1>1, <1>3 DEF AccessIInv, AccessTypeOK
<1>7. CallsShown'
  BY Zenon, <1>1, <1>5 DEF AccessIInv, AccessTypeOK, CallsShown
<1>8. ActedWithAuthority' /\ AdminRemains'
  BY Zenon, <1>1 DEF AccessIInv, ActedWithAuthority, AdminRemains
<1>9. QED
  BY Zenon, <1>6, <1>7, <1>8 DEF AccessIInv

LEMMA JwtStep ==
  ASSUME AccessIInv, NEW r \in Callers, NEW op \in {"mint", "revoke", "update"}, NEW u \in Users,
         NEW target \in Users, NEW change \in Change, AuthenticateJwt(r, op, u, target, change)
  PROVE  AccessIInv'
<1> DEFINE c == [ApiCall(op, u, "token", target, change) EXCEPT !.role = users[u].role]
<1>1. users[u].role \in Roles /\ NoUserRow \in UserRow
  BY DEF AccessIInv, AccessTypeOK, NoUserRow, UserRow, Roles
<1>2. /\ c \in Call /\ c.pc = op /\ c.op = op /\ c.user = u /\ c.key = "token"
  BY Zenon, <1>1 DEF Call, ApiCall
<1>3. Arrive(r, c) /\ u \in sessions /\ users[u].active /\ users[u].role >= Minimum[op]
  BY Zenon DEF AuthenticateJwt
<1> HIDE DEF c
<1>4. GoodCredential(c, apiKeys, sessions) /\ GoodAccount(c, users)
  BY Zenon, <1>2, <1>3 DEF GoodCredential, GoodAccount
<1>5. QED
  BY Zenon, <1>2, <1>3, <1>4, ArriveStep

LEMMA ApiKeyStep ==
  ASSUME AccessConstantsOK, AccessIInv, NEW r \in Callers, NEW op \in {"mint", "revoke", "update"},
         NEW k \in ApiKeys, NEW target, NEW change \in Change,
         target \in Users \/ target = apiKeys[k].owner,
         SelectApiKey(r, op, k, target, change)
  PROVE  AccessIInv'
<1> DEFINE c == [ApiCall(op, apiKeys[k].owner, k, target, change) EXCEPT !.pc = "account"]
<1>1. Arrive(r, c) /\ op # "mint" /\ apiKeys[k].state = "active"
  BY Zenon DEF SelectApiKey
<1>2. apiKeys[k].owner \in Users /\ target \in Users
  BY Zenon, <1>1 DEF AccessIInv, AccessTypeOK
<1>3. NoUserRow \in UserRow
  BY DEF NoUserRow, UserRow, Roles
<1>4. c \in Call /\ c.pc = "account" /\ c.op = op /\ c.key = k
  BY Zenon, <1>2, <1>3 DEF Call, ApiCall
<1> HIDE DEF c
<1>5. GoodCredential(c, apiKeys, sessions)
  BY Zenon, <1>1, <1>4 DEF GoodCredential, AccessConstantsOK
<1>6. QED
  BY Zenon, <1>1, <1>4, <1>5, ArriveStep

\* What a step that leaves the accounts alone may do to the keys, and to the request
\* of r.
KeysMove ==
    \/ UNCHANGED apiKeys
    \/ \E k \in ApiKeys, u \in Users : apiKeys' = [apiKeys EXCEPT ![k] = [owner |-> u, state |-> "active"]]
    \/ \E k \in ApiKeys : apiKeys' = [apiKeys EXCEPT ![k].state = "revoked"]

CallMove(r, c) ==
    /\ c \in Call \cup {NoCall} /\ (c # NoCall => Shown(c, users))
    /\ call' = [call EXCEPT ![r] = c]
    /\ UNCHANGED <<users, lapsed>> /\ usurped' = FALSE

\* A request that goes on, or ends, while the accounts stay as they are.
LEMMA GoesOn ==
  ASSUME AccessIInv, NEW r \in Callers, NEW c, CallMove(r, c), KeysMove
  PROVE  AccessIInv'
<1>1. /\ apiKeys' \in [ApiKeys -> [owner : Users \cup {"nobody"}, state : {"none", "active", "revoked"}]]
      /\ \A k \in ApiKeys : apiKeys'[k].state = "active" => apiKeys'[k].owner \in Users
  BY DEF AccessIInv, AccessTypeOK, KeysMove
<1>2. AccessTypeOK'
  BY Zenon, <1>1 DEF AccessIInv, AccessTypeOK, CallMove
<1>3. CallsShown'
  BY Zenon DEF AccessIInv, AccessTypeOK, CallsShown, CallMove
<1>4. ActedWithAuthority' /\ AdminRemains'
  BY Zenon DEF AccessIInv, ActedWithAuthority, AdminRemains, CallMove
<1>5. QED
  BY Zenon, <1>2, <1>3, <1>4 DEF AccessIInv

LEMMA AccountStep ==
  ASSUME AccessIInv, NEW r \in Callers, SelectAccount(r)
  PROVE  AccessIInv'
<1> DEFINE c == call[r]
           row == users[c.user]
           d == [c EXCEPT !.pc = c.op, !.role = row.role]
<1>1. c \in Call /\ c # NoCall /\ c.pc = "account" /\ Shown(c, users)
  BY Zenon, InFlightCall DEF SelectAccount, AccessIInv, CallsShown
<1>2. row.role \in Roles
  BY Zenon, <1>1 DEF AccessIInv, AccessTypeOK, UserRow, Call
<1>3. KeysMove /\ UNCHANGED <<users, lapsed>> /\ usurped' = FALSE
  BY Zenon DEF SelectAccount, KeysMove, AccessIInv, ActedWithAuthority, AccessTypeOK
<1>4. CASE row.active /\ row.role >= Minimum[c.op]
  <2>1. /\ d \in Call /\ d.pc = c.op /\ d.op = c.op /\ d.user = c.user
        /\ d.cred = c.cred /\ d.acct = c.acct
    BY Zenon, <1>1, <1>2 DEF Call
  <2>2. call' = [call EXCEPT ![r] = d]
    BY Zenon, <1>1, <1>4 DEF SelectAccount, Call, AccessIInv, AccessTypeOK
  <2>3. GoodAccount(c, users)
    BY Zenon, <1>4 DEF GoodAccount
  <2>4. Shown(d, users)
    BY Zenon, <1>1, <2>1, <2>3 DEF Shown, Call
  <2> HIDE DEF d
  <2>5. CallMove(r, d)
    BY Zenon, <1>3, <2>1, <2>2, <2>4 DEF CallMove
  <2>6. QED
    BY Zenon, <1>3, <2>5, GoesOn
<1>5. CASE ~(row.active /\ row.role >= Minimum[c.op])
  <2>1. call' = [call EXCEPT ![r] = NoCall]
    BY Zenon, <1>5 DEF SelectAccount, EndCall
  <2>2. CallMove(r, NoCall)
    BY Zenon, <1>3, <2>1 DEF CallMove
  <2>3. QED
    BY Zenon, <1>3, <2>2, GoesOn
<1>6. QED
  BY Zenon, <1>4, <1>5

\* A request past the account check that commits has shown its right.
LEMMA EffectHarmless ==
  ASSUME AccessIInv, NEW r \in Callers, call[r] # NoCall, call[r].pc # "account", Effect(r)
  PROVE  usurped' = FALSE
  BY Zenon DEF Effect, AccessIInv, CallsShown, Shown, ActedWithAuthority, AccessTypeOK

LEMMA KeyStep ==
  ASSUME AccessIInv, NEW r \in Callers, NEW k \in ApiKeys, MintKey(r, k) \/ RevokeKey(r, k)
  PROVE  AccessIInv'
<1>1. call[r] \in Call /\ call[r] # NoCall /\ call[r].pc # "account"
  BY Zenon, InFlightCall DEF MintKey, RevokeKey, AccessIInv
<1>2. call' = [call EXCEPT ![r] = NoCall] /\ UNCHANGED <<users, lapsed>>
  BY Zenon DEF MintKey, RevokeKey, EndCall
<1>3. usurped' = FALSE
  <2>1. Effect(r) \/ UNCHANGED usurped
    BY Zenon DEF MintKey, RevokeKey
  <2>2. QED
    BY Zenon, <1>1, <2>1, EffectHarmless DEF AccessIInv, ActedWithAuthority, AccessTypeOK
<1>4. call[r].user \in Users
  BY Zenon, <1>1 DEF Call
<1>5. KeysMove
  BY Zenon, <1>4 DEF MintKey, RevokeKey, KeysMove
<1>6. CallMove(r, NoCall)
  BY Zenon, <1>2, <1>3 DEF CallMove
<1>7. QED
  BY Zenon, <1>5, <1>6, GoesOn

LEMMA LoadStep ==
  ASSUME AccessIInv, NEW r \in Callers, LoadUser(r)
  PROVE  AccessIInv'
<1> DEFINE c == call[r]
           row == users[c.target]
           self == c.target = c.user /\ (c.change.role \in {1, 2} \/ c.change.active = "no")
           d == [c EXCEPT !.pc = "commit", !.row = row]
<1>1. c \in Call /\ c # NoCall /\ c.pc = "update" /\ Shown(c, users)
  BY Zenon, InFlightCall DEF LoadUser, AccessIInv, CallsShown
<1>2. row \in UserRow
  BY Zenon, <1>1 DEF AccessIInv, AccessTypeOK, Call
<1>3. KeysMove /\ UNCHANGED <<users, lapsed>> /\ usurped' = FALSE
  BY Zenon DEF LoadUser, KeysMove, AccessIInv, ActedWithAuthority, AccessTypeOK
<1>4. CASE self
  <2>1. call' = [call EXCEPT ![r] = NoCall]
    BY Zenon, <1>4 DEF LoadUser, EndCall
  <2>2. CallMove(r, NoCall)
    BY <1>3, <2>1 DEF CallMove
  <2>3. QED
    BY <1>3, <2>2, GoesOn
<1>5. CASE ~self
  <2>1. /\ d \in Call /\ d.pc = "commit" /\ d.op = c.op /\ d.user = c.user /\ d.target = c.target
        /\ d.change = c.change /\ d.cred = c.cred /\ d.acct = c.acct
    BY Zenon, <1>1, <1>2 DEF Call
  <2>2. call' = [call EXCEPT ![r] = d]
    BY Zenon, <1>1, <1>5 DEF LoadUser, Call, AccessIInv, AccessTypeOK
  <2>3. GoodAccount(d, users) <=> GoodAccount(c, users)
    BY Zenon, <2>1 DEF GoodAccount
  <2>4. Shown(d, users)
    BY Zenon, <1>1, <1>5, <2>1, <2>3 DEF Shown
  <2> HIDE DEF d
  <2>5. CallMove(r, d)
    BY Zenon, <1>3, <2>1, <2>2, <2>4 DEF CallMove
  <2>6. QED
    BY <1>3, <2>5, GoesOn
<1>6. QED
  BY Zenon, <1>4, <1>5

\* Requests in flight see every change of the accounts.
LEMMA WitnessShown ==
  ASSUME AccessIInv, NEW rows \in [Users -> UserRow], NEW r \in Callers, call[r] # NoCall
  PROVE  WitnessRights(rows, apiKeys)[r] \in Call /\ Shown(WitnessRights(rows, apiKeys)[r], rows)
<1> DEFINE c == call[r]
           d == WitnessRights(rows, apiKeys)[r]
<1>1. c \in Call /\ Shown(c, users)
  BY Zenon DEF AccessIInv, AccessTypeOK, CallsShown
<1>2. d = [c EXCEPT !.cred = c.cred \/ GoodCredential(c, apiKeys, sessions),
                    !.acct = c.acct \/ GoodAccount(c, rows)]
  BY Zenon, <1>1 DEF WitnessRights, Call
<1>3. /\ d.pc = c.pc /\ d.op = c.op /\ d.user = c.user /\ d.target = c.target
      /\ d.change = c.change /\ d.row = c.row /\ d.key = c.key
      /\ d.cred = (c.cred \/ GoodCredential(c, apiKeys, sessions))
      /\ d.acct = (c.acct \/ GoodAccount(c, rows))
  BY Zenon, <1>1, <1>2 DEF Call
<1>4. d \in Call
  BY Zenon, <1>1, <1>2 DEF Call
<1> HIDE DEF d
<1>5. GoodAccount(d, rows) <=> GoodAccount(c, rows)
  BY Zenon, <1>3 DEF GoodAccount
<1>6. Shown(d, rows)
  BY ZenonT(30), <1>1, <1>3, <1>5 DEF Shown
<1>7. QED
  BY Zenon, <1>4, <1>6 DEF d

\* The accounts change; the request r, if any, ends.
LEMMA AccountsChange ==
  ASSUME AccessIInv, NEW rows \in [Users -> UserRow], users' = rows, UNCHANGED apiKeys,
         \/ call' = WitnessRights(rows, apiKeys)
         \/ \E r \in Callers : call' = [WitnessRights(rows, apiKeys) EXCEPT ![r] = NoCall],
         usurped' = FALSE, lapsed' \in BOOLEAN, AdminRemains'
  PROVE  AccessIInv'
<1> DEFINE w == WitnessRights(rows, apiKeys)
<1>1. \A r \in Callers : call[r] # NoCall => w[r] \in Call /\ Shown(w[r], rows)
  BY Zenon, WitnessShown
<1>2. \A r \in Callers : call[r] = NoCall => w[r] = NoCall
  BY ZenonT(30) DEF WitnessRights
<1>3. w = [r \in Callers |-> w[r]]
  BY Zenon DEF WitnessRights
<1> HIDE DEF w
<1>4. w \in [Callers -> Call \cup {NoCall}]
  BY Zenon, <1>1, <1>2, <1>3
<1>5. AccessTypeOK'
  BY Zenon, <1>4 DEF AccessIInv, AccessTypeOK, w
<1>6. CallsShown'
  <2>1. SUFFICES ASSUME NEW r \in Callers, call'[r] # NoCall PROVE Shown(call'[r], rows)
    BY Zenon DEF CallsShown
  <2>2. call'[r] = w[r]
    BY Zenon, <1>4, <2>1 DEF w
  <2>3. QED
    BY Zenon, <1>1, <1>2, <2>1, <2>2
<1>7. QED
  BY Zenon, <1>5, <1>6 DEF AccessIInv, ActedWithAuthority

LEMMA CommitStep ==
  ASSUME AccessIInv, NEW r \in Callers, CommitUser(r)
  PROVE  AccessIInv'
<1> DEFINE c == call[r]
           current == users[c.target]
           active == c.change.active = "yes"
           row == [role |-> IF c.change.role \in {Keep, c.row.role} THEN current.role ELSE c.change.role,
                   active |-> IF c.change.active = "keep" \/ active = c.row.active THEN current.active
                              ELSE active]
           rows == [users EXCEPT ![c.target] = row]
<1>1. c \in Call /\ c # NoCall /\ c.pc = "commit" /\ Shown(c, users)
  BY Zenon, InFlightCall DEF CommitUser, AccessIInv, CallsShown
<1>2. /\ c.user \in Users /\ c.target \in Users /\ c.row \in UserRow
      /\ c.change \in Change /\ current \in UserRow
  BY Zenon, <1>1 DEF Call, AccessIInv, AccessTypeOK
<1>3. row \in UserRow
  BY Zenon, <1>2 DEF UserRow, Change, Roles, Keep
<1>4. rows \in [Users -> UserRow]
  BY Zenon, <1>2, <1>3 DEF AccessIInv, AccessTypeOK
<1>5. usurped' = FALSE
  BY Zenon, <1>1, EffectHarmless DEF CommitUser
<1>6. /\ users' = rows /\ UNCHANGED apiKeys
      /\ call' = [WitnessRights(rows, apiKeys) EXCEPT ![r] = NoCall]
      /\ lapsed' = (lapsed \/ ~AdminActive(users, c.user))
  BY Zenon DEF CommitUser
<1>7. lapsed' \in BOOLEAN
  BY Zenon, <1>6 DEF AccessIInv, AccessTypeOK
<1>8. ASSUME AdminActive(users, c.user) PROVE AdminActive(rows, c.user)
  <2>1. CASE c.target # c.user
    BY Zenon, <1>2, <1>8, <2>1 DEF AdminActive, AccessIInv, AccessTypeOK
  <2>2. CASE c.target = c.user
    <3>1. c.change.role \in {0, 3} /\ c.change.active \in {"yes", "keep"}
      BY SMTT(30), <1>1, <1>2, <2>2 DEF Shown, Change, Roles, Keep
    <3>2. current.role = 3 /\ current.active = TRUE
      BY Zenon, <1>2, <1>8, <2>2 DEF AdminActive, UserRow
    <3>3. row.role = 3 /\ row.active = TRUE
      BY Zenon, <3>1, <3>2 DEF Keep
    <3>4. QED
      BY Zenon, <1>2, <2>2, <3>3 DEF AdminActive, AccessIInv, AccessTypeOK
  <2>3. QED
    BY Zenon, <2>1, <2>2
<1> HIDE DEF rows
<1>9. AdminRemains'
  <2>1. CASE ~AdminActive(users, c.user)
    BY Zenon, <1>6, <2>1 DEF AdminRemains
  <2>2. CASE AdminActive(users, c.user)
    BY Zenon, <1>2, <1>6, <1>8, <2>2 DEF AdminRemains
  <2>3. QED
    BY Zenon, <2>1, <2>2
<1>10. QED
  BY Zenon, <1>4, <1>5, <1>6, <1>7, <1>9, AccountsChange

LEMMA SetRoleStep ==
  ASSUME AccessIInv, NEW u \in Users, NEW role \in Roles, SetRole(u, role)
  PROVE  AccessIInv'
<1> DEFINE rows == [users EXCEPT ![u].role = role]
<1>1. /\ users' = rows /\ UNCHANGED <<apiKeys, usurped>> /\ call' = WitnessRights(rows, apiKeys)
      /\ lapsed' = (lapsed \/ (AdminActive(users, u) /\ role # 3))
  BY Zenon DEF SetRole
<1>2. rows \in [Users -> UserRow]
  BY Zenon DEF AccessIInv, AccessTypeOK, UserRow
<1>3. lapsed' \in BOOLEAN /\ usurped' = FALSE
  BY Zenon, <1>1 DEF AccessIInv, AccessTypeOK, ActedWithAuthority
<1>4. ASSUME NEW v \in Users, AdminActive(users, v), ~(AdminActive(users, u) /\ role # 3)
      PROVE  AdminActive(rows, v)
  BY Zenon, <1>4 DEF AdminActive, AccessIInv, AccessTypeOK, UserRow
<1> HIDE DEF rows
<1>5. AdminRemains'
  <2>1. CASE lapsed \/ (AdminActive(users, u) /\ role # 3)
    BY Zenon, <1>1, <2>1 DEF AdminRemains
  <2>2. CASE ~lapsed /\ ~(AdminActive(users, u) /\ role # 3)
    BY Zenon, <1>1, <1>4, <2>2 DEF AccessIInv, AdminRemains
  <2>3. QED
    BY Zenon, <2>1, <2>2
<1>6. QED
  BY Zenon, <1>1, <1>2, <1>3, <1>5, AccountsChange

LEMMA AccessNextIInv ==
  ASSUME AccessConstantsOK PROVE AccessIInv /\ [AccessNext]_accessVars => AccessIInv'
<1> SUFFICES ASSUME AccessIInv, [AccessNext]_accessVars PROVE AccessIInv'
  BY Zenon
<1>1. ASSUME UNCHANGED <<users, apiKeys, call, usurped, lapsed>> PROVE AccessIInv'
  BY Zenon, <1>1 DEF AccessIInv, AccessTypeOK, CallsShown, ActedWithAuthority, AdminRemains
<1>2. CASE UNCHANGED accessVars
  BY Zenon, <1>1, <1>2 DEF accessVars
<1>3. CASE \E u \in Users : Login(u) \/ TokenExpires(u) \/ \E role \in Roles : SetRole(u, role)
  BY Zenon, <1>1, <1>3, SetRoleStep DEF Login, TokenExpires
<1>4. \A change \in Changes : change \in Change
  BY Zenon DEF AccessConstantsOK, Change
<1>5. NoChange \in Change
  BY Zenon DEF NoChange, Change, Keep
<1>6. ASSUME NEW r \in Callers, NEW target \in Users, NEW change \in Changes,
             \/ \E u \in Users : AuthenticateJwt(r, "update", u, target, change)
             \/ \E k \in ApiKeys : SelectApiKey(r, "update", k, target, change)
      PROVE  AccessIInv'
  BY Zenon, <1>4, <1>6, JwtStep, ApiKeyStep
<1>7. ASSUME NEW r \in Callers, NEW op \in {"mint", "revoke"},
             \/ \E u \in Users : AuthenticateJwt(r, op, u, u, NoChange)
             \/ \E k \in ApiKeys : SelectApiKey(r, op, k, apiKeys[k].owner, NoChange)
      PROVE  AccessIInv'
  BY Zenon, <1>5, <1>7, JwtStep, ApiKeyStep
<1>8. QED
  BY Zenon, <1>2, <1>3, <1>6, <1>7, AccountStep, LoadStep, CommitStep, KeyStep DEF AccessNext

-----------------------------------------------------------------------------
LEMMA AccessSpecIInv == ASSUME AccessConstantsOK PROVE AccessSpec => []AccessIInv
  BY AccessInitIInv, AccessNextIInv, PTL DEF AccessSpec

\* Nothing is minted, revoked or updated by a request that had at no time the right
\* to, however key revocations, demotions and deactivations fall between the SELECTs of
\* _authenticate_api_key and the COMMIT.
THEOREM ActedWithAuthorityHolds ==
  ASSUME AccessConstantsOK PROVE AccessSpec => []ActedWithAuthority
<1>1. AccessIInv => ActedWithAuthority
  BY Zenon DEF AccessIInv
<1>2. QED
  BY <1>1, AccessSpecIInv, PTL

\* update_user's guard on one's own account keeps an active admin, for any number of
\* admins, unless an author had lost the role meanwhile or the script was used.
THEOREM AdminRemainsHolds ==
  ASSUME AccessConstantsOK PROVE AccessSpec => []AdminRemains
<1>1. AccessIInv => AdminRemains
  BY Zenon DEF AccessIInv
<1>2. QED
  BY <1>1, AccessSpecIInv, PTL
=============================================================================
