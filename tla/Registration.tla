----------------------------- MODULE Registration -----------------------------
(***************************************************************************)
(* Sign-ups and invite codes: auth_service.register_user,                  *)
(* invite_service.create_invite, claim_invite and revoke_invite, and the   *)
(* rows of models/invite.py and models/user.py they share.                 *)
(*                                                                         *)
(* Sign-ups and revocations are requests of their own, each with its own   *)
(* transaction.  claim_invite locks the invite's row (SELECT ... FOR       *)
(* UPDATE) until the transaction that creates the account is over; the     *)
(* UPDATE of a revocation takes the same lock.  The use_count a sign-up    *)
(* writes is computed from the row it loaded, in Python.                   *)
(***************************************************************************)
EXTENDS Integers, FiniteSets

CONSTANTS
    Invites,    \* invite rows, each created at most once
    Emails,     \* addresses people sign up with
    Requests,   \* requests that can be in flight together
    MaxUses,    \* the max_uses admins choose
    NoInvite,   \* how an account of open registration came in
    NoAccount,  \* the address is not registered
    MaxFaults   \* bound: transactions that fail for no reason of their own

ASSUME RegistrationAssumption ==
    /\ IsFiniteSet(Emails)
    /\ NoInvite \notin Invites /\ NoAccount \notin Invites /\ NoInvite # NoAccount
    /\ MaxUses \subseteq Nat \ {0}
    /\ MaxFaults \in Nat

VARIABLES
    mode,       \* settings.registration_mode
    invites,    \* the invites table
    accounts,   \* the users table: how each address was registered
    req,        \* the requests in flight
    faults

vars == <<mode, invites, accounts, req, faults>>

\* expired: it has an expires_at and that time has come.
Invite == [created : BOOLEAN, max : Nat, uses : Nat, revoked : BOOLEAN, expired : BOOLEAN]
NotCreated == [created |-> FALSE, max |-> 0, uses |-> 0, revoked |-> FALSE, expired |-> FALSE]

\* A request: the await it is at, its address, its invite, the use_count it read.
Request == [pc : {"idle", "claim", "insert", "commit", "update", "revoke"},
            email : Emails \cup {NoAccount}, invite : Invites \cup {NoInvite}, uses : Nat]
Idle == [pc |-> "idle", email |-> NoAccount, invite |-> NoInvite, uses |-> 0]

TypeOK ==
    /\ mode \in {"open", "invite", "closed"}
    /\ invites \in [Invites -> Invite]
    /\ accounts \in [Emails -> Invites \cup {NoInvite, NoAccount}]
    /\ req \in [Requests -> Request]
    /\ faults \in Nat

Init ==
    /\ mode \in {"open", "invite", "closed"}
    /\ invites = [i \in Invites |-> NotCreated]
    /\ accounts = [e \in Emails |-> NoAccount]
    /\ req = [r \in Requests |-> Idle]
    /\ faults = 0

At(r, pc) == req[r].pc = pc
Goto(r, pc) == req' = [req EXCEPT ![r].pc = pc]
Return(r) == req' = [req EXCEPT ![r] = Idle]

\* Invite.status = "active".
IsActive(i) ==
    /\ invites[i].created
    /\ ~invites[i].revoked
    /\ ~invites[i].expired
    /\ invites[i].uses < invites[i].max

\* The transactions that hold the lock on the invite's row.
Holders(i) ==
    {r \in Requests : req[r].invite = i /\ req[r].pc \in {"insert", "commit", "revoke"}}

-----------------------------------------------------------------------------
(* Administration *)

\* create_invite.
CreateInvite(i, max) ==
    /\ ~invites[i].created
    /\ invites' = [invites EXCEPT ![i] = [created |-> TRUE, max |-> max, uses |-> 0,
                                          revoked |-> FALSE, expired |-> FALSE]]
    /\ UNCHANGED <<mode, accounts, req, faults>>

\* The clock passes expires_at, if the invite has one: one that has none is one whose
\* time does not come.
Expire(i) ==
    /\ invites[i].created /\ ~invites[i].expired
    /\ invites' = [invites EXCEPT ![i].expired = TRUE]
    /\ UNCHANGED <<mode, accounts, req, faults>>

\* revoke_invite up to its commit: reads the row without locking it.  An invite
\* that does not exist or is revoked already is left alone.
BeginRevoke(r, i) ==
    /\ At(r, "idle")
    /\ invites[i].created /\ ~invites[i].revoked
    /\ req' = [req EXCEPT ![r] = [pc |-> "update", email |-> NoAccount, invite |-> i, uses |-> 0]]
    /\ UNCHANGED <<mode, invites, accounts, faults>>

\* UPDATE invites SET revoked_at waits for the row's lock and takes it.
UpdateRevoked(r) ==
    /\ At(r, "update")
    /\ Holders(req[r].invite) = {}
    /\ Goto(r, "revoke")
    /\ UNCHANGED <<mode, invites, accounts, faults>>

CommitRevoke(r) ==
    /\ At(r, "revoke")
    /\ invites' = [invites EXCEPT ![req[r].invite].revoked = TRUE]
    /\ Return(r)
    /\ UNCHANGED <<mode, accounts, faults>>

-----------------------------------------------------------------------------
(* register_user *)

\* The mode, then SELECT of the address.  A refusal changes nothing.
BeginSignUp(r, e, i) ==
    /\ At(r, "idle")
    /\ mode # "closed"
    /\ accounts[e] = NoAccount
    /\ req' = [req EXCEPT ![r] = [pc |-> IF mode = "invite" THEN "claim" ELSE "insert",
                                  email |-> e,
                                  invite |-> IF mode = "invite" THEN i ELSE NoInvite,
                                  uses |-> 0]]
    /\ UNCHANGED <<mode, invites, accounts, faults>>

\* claim_invite once the lock is granted, on the row as it is then: refuse and
\* roll back, or keep the lock and go on.
TakeOrRefuse(r) ==
    LET i == req[r].invite
    IN  req' = IF IsActive(i)
               THEN [req EXCEPT ![r] = [pc |-> "insert", email |-> @.email, invite |-> i,
                                        uses |-> invites[i].uses]]
               ELSE [req EXCEPT ![r] = Idle]

\* Mutant of Claim: the SELECT has no FOR UPDATE.
ClaimUnlocked(r) ==
    /\ At(r, "claim")
    /\ TakeOrRefuse(r)
    /\ UNCHANGED <<mode, invites, accounts, faults>>

Claim(r) ==
    /\ At(r, "claim")
    /\ Holders(req[r].invite) = {}
    /\ TakeOrRefuse(r)
    /\ UNCHANGED <<mode, invites, accounts, faults>>

\* Another transaction has inserted the address and not committed yet: the unique
\* index makes an INSERT of the same address wait for its outcome.
Reserved(r) ==
    \E q \in Requests \ {r} : At(q, "commit") /\ req[q].email = req[r].email

\* Mutant of Insert: a sign-up whose address is taken tries again.
InsertRetries(r) ==
    /\ At(r, "insert")
    /\ ~Reserved(r)
    /\ IF accounts[req[r].email] = NoAccount THEN Goto(r, "commit") ELSE UNCHANGED req
    /\ UNCHANGED <<mode, invites, accounts, faults>>

\* The INSERT of the account.  A duplicate address raises IntegrityError, and
\* the transaction is rolled back with the use it claimed.
Insert(r) ==
    /\ At(r, "insert")
    /\ ~Reserved(r)
    /\ IF accounts[req[r].email] = NoAccount THEN Goto(r, "commit") ELSE Return(r)
    /\ UNCHANGED <<mode, invites, accounts, faults>>

\* One COMMIT for the account and the invite's use.
CommitSignUp(r) ==
    /\ At(r, "commit")
    /\ accounts' = [accounts EXCEPT ![req[r].email] = req[r].invite]
    /\ invites' = IF req[r].invite = NoInvite THEN invites
                  ELSE [invites EXCEPT ![req[r].invite].uses = req[r].uses + 1]
    /\ Return(r)
    /\ UNCHANGED <<mode, faults>>

\* The database fails, the client goes away or the process dies: the transaction
\* is rolled back and its locks are released.
Abort(r) ==
    /\ ~At(r, "idle")
    /\ faults < MaxFaults
    /\ faults' = faults + 1
    /\ Return(r)
    /\ UNCHANGED <<mode, invites, accounts>>

-----------------------------------------------------------------------------
RequestStep(r) ==
    \/ Claim(r) \/ Insert(r) \/ CommitSignUp(r)
    \/ UpdateRevoked(r) \/ CommitRevoke(r)

Next ==
    \/ \E i \in Invites, max \in MaxUses : CreateInvite(i, max)
    \/ \E i \in Invites : Expire(i)
    \/ \E r \in Requests :
         \/ \E i \in Invites : BeginRevoke(r, i)
         \/ \E e \in Emails, i \in Invites : BeginSignUp(r, e, i)
         \/ RequestStep(r)
         \/ Abort(r)

Spec == Init /\ [][Next]_vars

\* The event loop resumes every request whose database call has returned, and the
\* database grants a lock nobody holds.
FairSpec == Spec /\ \A r \in Requests : WF_vars(RequestStep(r))

-----------------------------------------------------------------------------
(* Properties *)

Registered(i) == {e \in Emails : accounts[e] = i}

\* register_user commits the invite's use together with the account, and a
\* registration that fails afterwards burns none: an invite's use_count is the
\* number of accounts created with it, whatever sign-ups overlap or fail.
UsesAreAccounts ==
    \A i \in Invites : invites[i].uses = Cardinality(Registered(i))

\* claim_invite's row lock stops two sign-ups from both taking an invite's last
\* use: no invite creates more accounts than its max_uses.
WithinMaxUses ==
    \A i \in Invites : Cardinality(Registered(i)) <= invites[i].max

\* Once revoke_invite has committed, no account is created with the invite, not
\* even by a sign-up that was under way: it either held the row's lock, and the
\* revocation waited for it, or claims the row after the revocation and is refused.
RevokedIsFinal ==
    [][\A i \in Invites : invites[i].revoked => Registered(i)' = Registered(i)]_vars

\* Sign-ups and revocations wait for row locks and for the unique index of
\* addresses, always in that order: each of them ends.
RequestsEnd == \A r \in Requests : ~At(r, "idle") ~> At(r, "idle")
=============================================================================
