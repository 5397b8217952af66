------------------------------ MODULE Accounts ------------------------------
(***************************************************************************)
(* Users, their roles, the tokens and API keys they own, and the requests  *)
(* that authenticate with them.                                            *)
(*                                                                         *)
(* A request that carries a valid access token runs in one step: the user  *)
(* is loaded and the handler done with no await between.  Two kinds of     *)
(* request do await, the check of a bcrypt hash in a thread: a login,      *)
(* which goes on with the user row it read before, and a request with an   *)
(* API key, which reads the owner of the key afterwards.                   *)
(***************************************************************************)
EXTENDS Integers, FiniteSets

CONSTANTS Users,     \* identities a user row may ever get
          Requests,  \* logins and requests with an API key in progress at once
          Tokens,    \* identities of refresh_tokens rows
          Resets,    \* identities of password_reset_tokens rows
          Keys,      \* identities of api_keys rows with an owner
          Configs,   \* configuration rows with configured_by_id
          Oidc,      \* the one of them that makes login by OIDC possible
          None       \* no row, NULL

Roles == {"viewer", "operator", "admin"}
Rank  == [r \in Roles |-> CASE r = "viewer" -> 0 [] r = "operator" -> 1 [] r = "admin" -> 2]

RefreshToken  == [user: Users, revoked: BOOLEAN, login: Tokens]
PasswordReset == [user: Users, used: BOOLEAN]
ApiKey        == [owner: Users, override: Roles \cup {None}, active: BOOLEAN]
Login         == [kind: {"login"}, user: Users, valid: BOOLEAN, role: Roles, active: BOOLEAN]
KeyUse        == [kind: {"key"}, key: Keys]
Served        == [as: Roles, owner: Roles, active: BOOLEAN]

ASSUME AccountsAssumption ==
    /\ IsFiniteSet(Users) /\ IsFiniteSet(Resets)
    /\ Oidc \in Configs
    /\ None \notin Users \cup RefreshToken \cup PasswordReset \cup ApiKey
    /\ None \notin Login \cup KeyUse \cup Served

VARIABLES
    row,           \* row[u]: is there a users row for u
    role, active,  \* its columns role and is_active
    origin,        \* "local", "linked" or "oidc": auth_provider, and who made the account
    password,      \* how often its password_hash was replaced
    refresh,       \* refresh_tokens: a row or None; login is the first of its chain
    resets,        \* password_reset_tokens: a row or None
    keys,          \* api_keys: a row or None
    configured,    \* configured_by_id of a configuration row, or None without a row
    request,       \* what a request has read before its await, or None
    served         \* history: what an API key was accepted for in this step, or None

users  == <<row, role, active, origin, password>>
owned  == <<refresh, resets, keys, configured>>
vars   == <<users, owned, request, served>>

TypeOK ==
    /\ row \in [Users -> {"absent", "live", "deleted"}]
    /\ role \in [Users -> Roles]
    /\ active \in [Users -> BOOLEAN]
    /\ origin \in [Users -> {"local", "linked", "oidc"}]
    /\ password \in [Users -> Nat]
    /\ refresh \in [Tokens -> RefreshToken \cup {None}]
    /\ resets \in [Resets -> PasswordReset \cup {None}]
    /\ keys \in [Keys -> ApiKey \cup {None}]
    /\ configured \in [Configs -> Users \cup {None}]
    /\ request \in [Requests -> Login \cup KeyUse \cup {None}]
    /\ served \in Served \cup {None}

Init ==
    /\ row = [u \in Users |-> "absent"]
    /\ role = [u \in Users |-> "viewer"]
    /\ active = [u \in Users |-> FALSE]
    /\ origin = [u \in Users |-> "local"]
    /\ password = [u \in Users |-> 0]
    /\ refresh = [t \in Tokens |-> None]
    /\ resets = [x \in Resets |-> None]
    /\ keys = [k \in Keys |-> None]
    /\ configured = [c \in Configs |-> None]
    /\ request = [r \in Requests |-> None]
    /\ served = None

Live     == {u \in Users : row[u] = "live"}
Enabled  == {u \in Live : active[u]}                \* get_current_user
Admins   == {u \in Enabled : role[u] = "admin"}     \* AdminDep
LastAdmin == Cardinality(Admins) <= 1

-----------------------------------------------------------------------------
(* New users.                                                               *)

NewUser(u, as, from) ==
    /\ row[u] = "absent"
    /\ row' = [row EXCEPT ![u] = "live"]
    /\ role' = [role EXCEPT ![u] = as]
    /\ active' = [active EXCEPT ![u] = TRUE]
    /\ origin' = [origin EXCEPT ![u] = from]
    /\ UNCHANGED <<password, owned, request>>

(* register_user: the first user becomes admin.                             *)
FirstRole == IF Live = {} THEN "admin" ELSE "viewer"

Register(u) == NewUser(u, FirstRole, "local")

(* The callback of an OIDC login creates a viewer or links a local account; *)
(* it needs the configuration row, which is never deleted.                  *)
OidcCreate(u) ==
    /\ configured[Oidc] # None
    /\ NewUser(u, "viewer", "oidc")

OidcLink(u) ==
    /\ configured[Oidc] # None
    /\ u \in Live /\ origin[u] = "local"
    /\ origin' = [origin EXCEPT ![u] = "linked"]
    /\ UNCHANGED <<row, role, active, password, owned, request>>

-----------------------------------------------------------------------------
(* Logins and refresh tokens.                                               *)

BeginLogin(r, u, valid) ==
    /\ request[r] = None
    /\ u \in Live
    /\ valid => origin[u] # "oidc" \/ password[u] > 0
    /\ request' = [request EXCEPT ![r] = [kind |-> "login", user |-> u, valid |-> valid,
                                          role |-> role[u], active |-> active[u]]]
    /\ UNCHANGED <<users, owned>>

(* The row read before the await is written back: only last_login_at.       *)
WholeRowWritten(login) ==
    /\ role' = [role EXCEPT ![login.user] = login.role]
    /\ active' = [active EXCEPT ![login.user] = login.active]

LoginWritten(login) == UNCHANGED <<role, active>>

(* A login through the API also stores a refresh token (keeps); for a user  *)
(* deleted meanwhile the commit fails.                                      *)
EndLogin(r, keeps) ==
    /\ request[r] \in Login
    /\ LET login == request[r] IN
         IF login.valid /\ login.active /\ login.user \in Live
         THEN /\ LoginWritten(login)
              /\ IF keeps
                 THEN \E t \in Tokens :
                         /\ refresh[t] = None
                         /\ refresh' = [refresh EXCEPT ![t] =
                               [user |-> login.user, revoked |-> FALSE, login |-> t]]
                 ELSE UNCHANGED refresh
         ELSE UNCHANGED <<role, active, refresh>>
    /\ request' = [request EXCEPT ![r] = None]
    /\ UNCHANGED <<row, origin, password, resets, keys, configured>>

(* The rotation: the token presented is revoked, a new one stored.          *)
StillValid(token) == token

Rotated(token) == [token EXCEPT !.revoked = TRUE]

Refresh(t, new) ==
    /\ refresh[t] # None /\ refresh[new] = None
    /\ refresh[t].user \in Enabled
    /\ ~refresh[t].revoked
    /\ refresh' = [refresh EXCEPT ![t] = Rotated(refresh[t]),
                                  ![new] = [refresh[t] EXCEPT !.revoked = FALSE]]
    /\ UNCHANGED <<users, resets, keys, configured, request>>

-----------------------------------------------------------------------------
(* Password resets.  (A reset that expires is one that is never confirmed.) *)

AddReset(x, u) ==
    /\ resets[x] = None
    /\ resets' = [resets EXCEPT ![x] = [user |-> u, used |-> FALSE]]
    /\ UNCHANGED <<users, refresh, keys, configured, request>>

RequestReset(x, u) == u \in Live /\ origin[u] = "local" /\ AddReset(x, u)

AdminReset(a, x, u) == a \in Admins /\ u \in Live /\ AddReset(x, u)

Unspent(reset) == reset

Spent(reset) == [reset EXCEPT !.used = TRUE]

ConfirmReset(x) ==
    /\ resets[x] # None
    /\ ~resets[x].used
    /\ password[resets[x].user] <= Cardinality(Resets)  \* bound
    /\ password' = [password EXCEPT ![resets[x].user] = @ + 1]
    /\ resets' = [resets EXCEPT ![x] = Spent(@)]
    /\ UNCHANGED <<row, role, active, origin, refresh, keys, configured, request>>

-----------------------------------------------------------------------------
(* Administration.                                                          *)

AnyTarget(a, u) == u \in Live

Target(a, u) == u \in Live /\ u # a

ChangeRole(a, u, new) ==
    /\ a \in Admins
    /\ Target(a, u)
    /\ role[u] = "admin" /\ new # "admin" => ~LastAdmin
    /\ role' = [role EXCEPT ![u] = new]
    /\ UNCHANGED <<row, active, origin, password, owned, request>>

ChangeStatus(a, u, on) ==
    /\ a \in Admins
    /\ Target(a, u)
    /\ active' = [active EXCEPT ![u] = on]
    /\ UNCHANGED <<row, role, origin, password, owned, request>>

(* The rows that refer to a user have no ON DELETE: while there is one, be  *)
(* it revoked or used, the user cannot be deleted.                          *)
ReferencedInUse(u) ==
    \/ \E t \in Tokens : refresh[t] # None /\ refresh[t].user = u /\ ~refresh[t].revoked
    \/ \E k \in Keys : keys[k] # None /\ keys[k].owner = u /\ keys[k].active

Referenced(u) ==
    \/ \E t \in Tokens : refresh[t] # None /\ refresh[t].user = u
    \/ \E x \in Resets : resets[x] # None /\ resets[x].user = u
    \/ \E k \in Keys : keys[k] # None /\ keys[k].owner = u
    \/ \E c \in Configs : configured[c] = u

DeleteUser(a, u) ==
    /\ a \in Admins
    /\ Target(a, u)
    /\ role[u] = "admin" => ~LastAdmin
    /\ ~Referenced(u)
    /\ row' = [row EXCEPT ![u] = "deleted"]
    /\ role' = [role EXCEPT ![u] = "viewer"]
    /\ active' = [active EXCEPT ![u] = FALSE]
    /\ origin' = [origin EXCEPT ![u] = "local"]
    /\ UNCHANGED <<password, owned, request>>

(* write_oidc, write_smtp.                                                  *)
Configure(a, c) ==
    /\ a \in Admins
    /\ configured' = [configured EXCEPT ![c] = a]
    /\ UNCHANGED <<users, refresh, resets, keys, request>>

-----------------------------------------------------------------------------
(* API keys.                                                                *)

CreateKey(u, k, override) ==
    /\ u \in Enabled
    /\ keys[k] = None
    /\ override # None => Rank[override] <= Rank[role[u]]
    /\ keys' = [keys EXCEPT ![k] = [owner |-> u, override |-> override, active |-> TRUE]]
    /\ UNCHANGED <<users, refresh, resets, configured, request>>

RevokeKey(a, k) ==
    /\ keys[k] # None /\ keys[k].active
    /\ a \in Enabled
    /\ keys[k].owner = a \/ a \in Admins
    /\ keys' = [keys EXCEPT ![k].active = FALSE]
    /\ UNCHANGED <<users, refresh, resets, configured, request>>

(* The key is looked up and verified in a thread.                           *)
BeginKeyUse(r, k) ==
    /\ request[r] = None
    /\ keys[k] # None /\ keys[k].active
    /\ request' = [request EXCEPT ![r] = [kind |-> "key", key |-> k]]
    /\ UNCHANGED <<users, owned>>

OverrideOnly(key) == key.override

OverrideFirst(key) == IF key.override = None THEN role[key.owner] ELSE key.override

(* min(role_override, owner.role), the owner being read after the await.    *)
EffectiveRole(key) ==
    IF key.override # None /\ Rank[key.override] <= Rank[role[key.owner]]
    THEN key.override ELSE role[key.owner]

EndKeyUse(r) ==
    /\ request[r] \in KeyUse
    /\ LET key == keys[request[r].key] IN
         IF active[key.owner]
         THEN served' = [as |-> EffectiveRole(key), owner |-> role[key.owner],
                         active |-> key.owner \in Enabled]
         ELSE served' = None
    /\ request' = [request EXCEPT ![r] = None]
    /\ UNCHANGED <<users, owned>>

-----------------------------------------------------------------------------

Administration ==
    \E a \in Admins :
        \/ \E u \in Users :
              \/ \E new \in Roles : ChangeRole(a, u, new)
              \/ \E on \in BOOLEAN : ChangeStatus(a, u, on)
              \/ DeleteUser(a, u)
              \/ \E x \in Resets : AdminReset(a, x, u)
        \/ \E c \in Configs : Configure(a, c)

Step ==
    \/ \E u \in Users :
          \/ Register(u) \/ OidcCreate(u) \/ OidcLink(u)
          \/ \E r \in Requests, valid \in BOOLEAN : BeginLogin(r, u, valid)
          \/ \E x \in Resets : RequestReset(x, u)
          \/ \E k \in Keys, override \in Roles \cup {None} : CreateKey(u, k, override)
          \/ \E k \in Keys : RevokeKey(u, k)
    \/ \E r \in Requests :
          \/ \E keeps \in BOOLEAN : EndLogin(r, keeps)
          \/ \E k \in Keys : BeginKeyUse(r, k)
    \/ \E t, new \in Tokens : Refresh(t, new)
    \/ \E x \in Resets : ConfirmReset(x)
    \/ Administration

Next ==
    \/ Step /\ served' = None
    \/ \E r \in Requests : EndKeyUse(r)

Spec == Init /\ [][Next]_vars

-----------------------------------------------------------------------------
(* Properties.                                                              *)

(* Once there is a user, someone can administrate: no sequence of role,     *)
(* status and delete requests (change_user_status never counts admins), and *)
(* no OIDC account created first, leaves the server without active admin.   *)
AlwaysAnAdmin == Live # {} => Admins # {}

(* Every token, reset, key and configuration row has its user, also when a  *)
(* login was under way while the user was deleted.                          *)
OwnersExist ==
    /\ \A t \in Tokens : refresh[t] # None => refresh[t].user \in Live
    /\ \A x \in Resets : resets[x] # None => resets[x].user \in Live
    /\ \A k \in Keys : keys[k] # None => keys[k].owner \in Live
    /\ \A c \in Configs : configured[c] # None => configured[c] \in Live

(* A key never does what its owner may not (security-hardening-v2 AC-008):  *)
(* the role it is accepted with is at most the owner's at that moment,      *)
(* whatever happened since the key was made, and the owner is enabled.      *)
KeyWithinOwner ==
    served # None => Rank[served.as] <= Rank[served.owner] /\ served.active

(* Of all refresh tokens that go back to one login at most one is valid.    *)
OneTokenPerLogin ==
    \A t, s \in Tokens :
        /\ refresh[t] # None /\ refresh[s] # None
        /\ refresh[t].login = refresh[s].login
        /\ ~refresh[t].revoked /\ ~refresh[s].revoked
        => t = s

(* A password is replaced once per reset token that was used for it.        *)
ResetOnce ==
    \A u \in Users :
        password[u] = Cardinality({x \in Resets : resets[x] # None /\ resets[x].user = u
                                                  /\ resets[x].used})

(* Role and status of a user change only by another one who is admin at     *)
(* that moment: no login writes back the row it read before its await.      *)
ChangedByAdmin ==
    [][\A u \in Live : u \in Live' /\ (role'[u] # role[u] \/ active'[u] # active[u]) =>
           Admins \ {u} # {} /\ UNCHANGED request]_vars
=============================================================================
