---------------------------- MODULE AccessControl ----------------------------
(***************************************************************************)
(* Who may do what: accounts with a role, the two credentials that stand   *)
(* for them (a login session's token, an API key), authentication          *)
(* (security/dependencies.py), and the requests that change accounts and   *)
(* keys: minting and revoking API keys, an admin's update of a user.       *)
(*                                                                         *)
(* A token is checked with one SELECT (the account), a key with two (the   *)
(* key, then the account).  What they returned is what the request goes on *)
(* with, until its COMMIT.                                                 *)
(***************************************************************************)
EXTENDS Integers, FiniteSets

CONSTANTS
    Users, ApiKeys,
    Callers,        \* requests that can be in flight together
    Changes,        \* what admins send: a role or Keep, is_active "yes", "no" or "keep"
    MaxCalls,       \* bound: requests
    MaxScripts      \* bound: runs of scripts/set_user_role.py

Roles == 1 .. 3     \* viewer, developer (OPERATOR), admin
Keep == 0           \* a field the update does not send

AccessConstantsOK ==
    /\ "token" \notin ApiKeys
    /\ Changes \subseteq [role : Roles \cup {Keep}, active : {"yes", "no", "keep"}]

VARIABLES
    users,      \* rows of users: role, is_active
    apiKeys,    \* rows of api_keys
    sessions,   \* accounts that hold a token that has not expired
    call,       \* requests in flight
    usurped,    \* history: a request took effect that had at no time the right to
    lapsed,     \* history: an admin's update took effect after its author had lost the
                \* role, or the script demoted an admin
    calls, scripts

accessVars == <<users, apiKeys, sessions, call, usurped, lapsed, calls, scripts>>

UserRow == [role : Roles, active : BOOLEAN]
NoKeyRow == [owner |-> "nobody", state |-> "none"]
NoCall == [pc |-> "idle"]

\* The least role an operation requires: require_role for minting a key and for an
\* admin's update; revoking one takes any principal (get_current_principal alone).
Minimum == [mint |-> 2, revoke |-> 1, update |-> 3]

AdminActive(rows, u) == rows[u].role = 3 /\ rows[u].active

AccessInit ==
    /\ users \in {f \in [Users -> UserRow] : \E u \in Users : AdminActive(f, u)}
    /\ \A u \in Users : users[u].active
    /\ apiKeys = [k \in ApiKeys |-> NoKeyRow]
    /\ sessions = {} /\ call = [r \in Callers |-> NoCall]
    /\ usurped = FALSE /\ lapsed = FALSE /\ calls = 0 /\ scripts = 0

-----------------------------------------------------------------------------
(* Authentication *)

\* authenticate_user and create_access_token: only an active account logs in.
Login(u) ==
    /\ users[u].active /\ u \notin sessions
    /\ sessions' = sessions \cup {u}
    /\ UNCHANGED <<users, apiKeys, call, usurped, lapsed, calls, scripts>>

\* The token's exp passes; decode_access_token refuses it from now on.
TokenExpires(u) ==
    /\ u \in sessions /\ sessions' = sessions \ {u}
    /\ UNCHANGED <<users, apiKeys, call, usurped, lapsed, calls, scripts>>

\* The request of r has, as the tables stand, a credential that is good, and the
\* role its operation needs.
GoodCredential(c, keyRows, tokens) ==
    IF c.key = "token" THEN c.user \in tokens
    ELSE c.op # "mint" /\ keyRows[c.key].state = "active"
GoodAccount(c, rows) == rows[c.user].active /\ rows[c.user].role >= Minimum[c.op]

\* What the requests in flight have seen: each half of the right at some time.
WitnessRights(rows, keyRows) ==
    [r \in Callers |->
        IF call[r] = NoCall THEN NoCall
        ELSE [call[r] EXCEPT !.cred = @ \/ GoodCredential(call[r], keyRows, sessions),
                             !.acct = @ \/ GoodAccount(call[r], rows)]]

Arrive(r, c) ==
    /\ call[r] = NoCall /\ calls < MaxCalls /\ calls' = calls + 1
    /\ call' = [call EXCEPT ![r] = [c EXCEPT !.cred = GoodCredential(c, apiKeys, sessions),
                                             !.acct = GoodAccount(c, users)]]
    /\ UNCHANGED <<users, apiKeys, sessions, usurped, lapsed, scripts>>

NoUserRow == [role |-> 1, active |-> TRUE]
NoChange == [role |-> Keep, active |-> "keep"]
ApiCall(op, user, key, target, change) ==
    [pc |-> op, op |-> op, user |-> user, key |-> key, target |-> target, change |-> change,
     role |-> Keep, row |-> NoUserRow, cred |-> FALSE, acct |-> FALSE]

\* _authenticate_jwt and require_role: the account's row, not the token's copy of the
\* role, decides, and its role is the Principal's.
AuthenticateJwt(r, op, u, target, change) ==
    /\ u \in sessions
    /\ users[u].active /\ users[u].role >= Minimum[op]
    /\ Arrive(r, [ApiCall(op, u, "token", target, change) EXCEPT !.role = users[u].role])

\* Mutant of SelectApiKey: a key mints keys.
SelectApiKeyForAll(r, op, k, target, change) ==
    /\ apiKeys[k].state = "active"
    /\ Arrive(r, [ApiCall(op, apiKeys[k].owner, k, target, change) EXCEPT !.pc = "account"])

\* _authenticate_api_key finds the key, unless the operation takes a session ...
SelectApiKey(r, op, k, target, change) ==
    /\ op # "mint"
    /\ apiKeys[k].state = "active"
    /\ Arrive(r, [ApiCall(op, apiKeys[k].owner, k, target, change) EXCEPT !.pc = "account"])

EndCall(r) == [call EXCEPT ![r] = NoCall]

\* ... and then its account.
SelectAccount(r) ==
    LET c == call[r]
        row == users[c.user]
    IN  /\ c.pc = "account"
        /\ call' = IF row.active /\ row.role >= Minimum[c.op]
                   THEN [call EXCEPT ![r].pc = c.op, ![r].role = row.role]
                   ELSE EndCall(r)
        /\ UNCHANGED <<users, apiKeys, sessions, usurped, lapsed, calls, scripts>>

-----------------------------------------------------------------------------
(* Operations *)

\* A request that commits: it had its right at some time.
Effect(r) == usurped' = (usurped \/ ~call[r].cred \/ ~call[r].acct)

\* create_api_key: the INSERT.
MintKey(r, k) ==
    /\ call[r].pc = "mint" /\ apiKeys[k].state = "none"
    /\ apiKeys' = [apiKeys EXCEPT ![k] = [owner |-> call[r].user, state |-> "active"]]
    /\ call' = EndCall(r)
    /\ Effect(r)
    /\ UNCHANGED <<users, sessions, lapsed, calls, scripts>>

\* revoke_api_key: a key of this account, if it is active; then the UPDATE.  A key is
\* never made active again, so what comes between the two changes nothing.
RevokeKey(r, k) ==
    /\ call[r].pc = "revoke"
    /\ IF apiKeys[k].owner = call[r].user /\ apiKeys[k].state = "active"
       THEN /\ apiKeys' = [apiKeys EXCEPT ![k].state = "revoked"] /\ Effect(r)
       ELSE UNCHANGED <<apiKeys, usurped>>
    /\ call' = EndCall(r)
    /\ UNCHANGED <<users, sessions, lapsed, calls, scripts>>

\* Mutant of LoadUser: admins may demote and deactivate themselves.
LoadUserUnguarded(r) ==
    LET c == call[r]
    IN  /\ c.pc = "update"
        /\ call' = [call EXCEPT ![r].pc = "commit", ![r].row = users[c.target]]
        /\ UNCHANGED <<users, apiKeys, sessions, usurped, lapsed, calls, scripts>>

\* update_user loads the user, with a SELECT of its own also when it is the caller
\* (authentication keeps the Principal, not the row); an admin's own admin access is
\* out of bounds.
LoadUser(r) ==
    LET c == call[r]
        self == c.target = c.user /\ (c.change.role \in {1, 2} \/ c.change.active = "no")
    IN  /\ c.pc = "update"
        /\ call' = IF self THEN EndCall(r)
                   ELSE [call EXCEPT ![r].pc = "commit", ![r].row = users[c.target]]
        /\ UNCHANGED <<users, apiKeys, sessions, usurped, lapsed, calls, scripts>>

\* The COMMIT writes the columns that differ from what was loaded.
CommitUser(r) ==
    LET c == call[r]
        now == users[c.target]
        active == c.change.active = "yes"
        row == [role |-> IF c.change.role \in {Keep, c.row.role} THEN now.role ELSE c.change.role,
                active |-> IF c.change.active = "keep" \/ active = c.row.active THEN now.active
                           ELSE active]
        rows == [users EXCEPT ![c.target] = row]
    IN  /\ c.pc = "commit"
        /\ users' = rows
        /\ call' = [WitnessRights(rows, apiKeys) EXCEPT ![r] = NoCall]
        /\ Effect(r)
        /\ lapsed' = (lapsed \/ ~AdminActive(users, c.user))
        /\ UNCHANGED <<apiKeys, sessions, calls, scripts>>

\* scripts/set_user_role.py, run by the operator.
SetRole(u, role) ==
    /\ scripts < MaxScripts /\ scripts' = scripts + 1
    /\ users' = [users EXCEPT ![u].role = role]
    /\ call' = WitnessRights(users', apiKeys)
    /\ lapsed' = (lapsed \/ (AdminActive(users, u) /\ role # 3))
    /\ UNCHANGED <<apiKeys, sessions, usurped, calls>>

-----------------------------------------------------------------------------
AccessNext ==
    \/ \E u \in Users : Login(u) \/ TokenExpires(u) \/ \E role \in Roles : SetRole(u, role)
    \/ \E r \in Callers :
         \/ \E target \in Users, change \in Changes :
              \/ \E u \in Users : AuthenticateJwt(r, "update", u, target, change)
              \/ \E k \in ApiKeys : SelectApiKey(r, "update", k, target, change)
         \/ \E op \in {"mint", "revoke"}, u \in Users : AuthenticateJwt(r, op, u, u, NoChange)
         \/ \E op \in {"mint", "revoke"}, k \in ApiKeys :
              SelectApiKey(r, op, k, apiKeys[k].owner, NoChange)
         \/ SelectAccount(r) \/ LoadUser(r) \/ CommitUser(r)
         \/ \E k \in ApiKeys : MintKey(r, k) \/ RevokeKey(r, k)

AccessSpec == AccessInit /\ [][AccessNext]_accessVars

-----------------------------------------------------------------------------
\* security/dependencies.py: nothing is minted, revoked or updated by a request whose
\* credential was at no time good (for minting: a session, never a key), or whose
\* account was at no time active with the role required, while it was in flight: a
\* key revoked, a role or an account withdrawn before a request never counts for it.
\* The role required is the one the endpoint asks for (Minimum).
ActedWithAuthority == ~usurped

\* admin.py: an admin cannot lock themselves out.  So an active admin remains,
\* whatever admins do to each other, unless an update took effect whose author had
\* stopped being one since it was authenticated, or the operator's script did it.
AdminRemains == lapsed \/ \E u \in Users : AdminActive(users, u)

\* README.md: "minting/revoking API keys need `developer`, `viewer` is read-only".
\* Whoever changes the keys was authenticated with that role.
KeysNeedDeveloper ==
    [][apiKeys' # apiKeys => \E r \in Callers : call'[r] # call[r] /\ call[r].role >= 2]_accessVars
=============================================================================
