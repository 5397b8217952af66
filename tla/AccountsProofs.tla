--------------------------- MODULE AccountsProofs ---------------------------
(***************************************************************************)
(* Proofs about Accounts: for any number of users, tokens, keys and        *)
(* requests in progress, the server keeps an administrator, no row refers  *)
(* to a user who is gone, a key never exceeds its owner, and a login has   *)
(* one valid refresh token.                                                *)
(***************************************************************************)
EXTENDS Accounts, TLAPS, FiniteSetTheorems

(***************************************************************************)
(* Types.                                                                  *)
(***************************************************************************)

(* A request that checks an API key does so on a row that is never deleted. *)
KeyRead == \A r \in Requests : request[r] \in KeyUse => keys[request[r].key] # None

UserTypes ==
    /\ row \in [Users -> {"absent", "live", "deleted"}]
    /\ role \in [Users -> Roles]
    /\ active \in [Users -> BOOLEAN]
    /\ origin \in [Users -> {"local", "linked", "oidc"}]
    /\ password \in [Users -> Nat]

RowTypes ==
    /\ refresh \in [Tokens -> RefreshToken \cup {None}]
    /\ resets \in [Resets -> PasswordReset \cup {None}]
    /\ keys \in [Keys -> ApiKey \cup {None}]
    /\ configured \in [Configs -> Users \cup {None}]

RequestTypes ==
    /\ request \in [Requests -> Login \cup KeyUse \cup {None}]
    /\ KeyRead

(* What a request leaves behind, with what it does not touch.               *)
Typed == UserTypes /\ RowTypes /\ RequestTypes

(* The parts are TypeOK and what a request has read.                        *)
LEMMA TypedIsTypeOK == TypeOK /\ KeyRead <=> Typed /\ served \in Served \cup {None}
    BY DEF TypeOK, Typed, UserTypes, RowTypes, RequestTypes

(* ROLE_HIERARCHY orders the three roles.                                   *)
LEMMA RankType == Rank \in [Roles -> 0..2]
    BY DEF Rank, Roles

(* A login and the use of a key are told apart by what they have read.      *)
LEMMA KindsApart == Login \cap KeyUse = {} /\ None \notin Login /\ None \notin KeyUse
    BY AccountsAssumption DEF Login, KeyUse

(* Creating and linking users.                                              *)
LEMMA NewUserType ==
    ASSUME Typed, NEW u \in Users, Register(u) \/ OidcCreate(u) \/ OidcLink(u)
    PROVE  Typed'
<1>1. UNCHANGED <<password, owned, request>>
    BY DEF Register, OidcCreate, OidcLink, NewUser
<1>2. UserTypes'
    <2>1. CASE OidcLink(u)
        BY <2>1 DEF Typed, UserTypes, OidcLink
    <2>2. ASSUME NEW as \in Roles, NEW from \in {"local", "oidc"}, NewUser(u, as, from)
          PROVE  UserTypes'
        BY <2>2 DEF Typed, UserTypes, NewUser
    <2>3. FirstRole \in Roles /\ "viewer" \in Roles
        BY DEF FirstRole, Roles
    <2> QED
        BY <2>1, <2>2, <2>3 DEF Register, OidcCreate
<1> QED
    BY <1>1, <1>2 DEF Typed, RowTypes, RequestTypes, KeyRead, owned

(* What a login or a request with a key reads before it awaits.             *)
LEMMA BeginType ==
    ASSUME Typed, NEW r \in Requests,
           \/ \E u \in Users, valid \in BOOLEAN : BeginLogin(r, u, valid)
           \/ \E k \in Keys : BeginKeyUse(r, k)
    PROVE  Typed'
<1> DEFINE Read(read) == /\ request' = [request EXCEPT ![r] = read]
                         /\ read \in KeyUse => keys[read.key] # None
<1>1. ASSUME NEW u \in Users, NEW valid \in BOOLEAN, BeginLogin(r, u, valid)
      PROVE  \E read \in Login \cup KeyUse : Read(read)
    <2> DEFINE login == [kind |-> "login", user |-> u, valid |-> valid,
                         role |-> role[u], active |-> active[u]]
    <2>1. login \in Login
        BY DEF Login, Typed, UserTypes
    <2>2. login \notin KeyUse
        BY <2>1, KindsApart
    <2>3. request' = [request EXCEPT ![r] = login]
        BY <1>1 DEF BeginLogin
    <2> HIDE DEF login
    <2> QED
        BY <2>1, <2>2, <2>3
<1>2. ASSUME NEW k \in Keys, BeginKeyUse(r, k)
      PROVE  \E read \in Login \cup KeyUse : Read(read)
    <2> DEFINE use == [kind |-> "key", key |-> k]
    <2>1. use \in KeyUse /\ use.key = k
        BY DEF KeyUse
    <2>2. request' = [request EXCEPT ![r] = use] /\ keys[k] # None
        BY <1>2 DEF BeginKeyUse
    <2> HIDE DEF use
    <2> QED
        BY <2>1, <2>2
<1>3. PICK read \in Login \cup KeyUse : Read(read)
    BY <1>1, <1>2
<1>4. UNCHANGED <<users, owned>>
    BY DEF BeginLogin, BeginKeyUse
<1>5. RequestTypes'
    BY <1>3, <1>4 DEF Typed, RequestTypes, KeyRead, owned
<1> QED
    BY <1>4, <1>5 DEF Typed, UserTypes, RowTypes, users, owned

(* Requests in progress that end.                                           *)
LEMMA EndedType ==
    ASSUME Typed, NEW r \in Requests, request' = [request EXCEPT ![r] = None], keys' = keys
    PROVE  RequestTypes'
    BY KindsApart DEF Typed, RequestTypes, KeyRead

(* What a login writes.                                                     *)
LEMMA LoginType ==
    ASSUME Typed, NEW r \in Requests, NEW keeps \in BOOLEAN, EndLogin(r, keeps)
    PROVE  Typed'
<1>1. request[r].user \in Users
    BY DEF EndLogin, Login
<1>2. \A t \in Tokens : [user |-> request[r].user, revoked |-> FALSE, login |-> t] \in RefreshToken
    BY <1>1 DEF RefreshToken
<1>3. refresh' \in [Tokens -> RefreshToken \cup {None}]
    BY <1>2 DEF EndLogin, Typed, RowTypes
<1>4. UNCHANGED <<row, role, active, origin, password, resets, keys, configured>>
    BY DEF EndLogin, LoginWritten
<1>5. RequestTypes'
    BY <1>4, EndedType DEF EndLogin
<1> QED
    BY <1>3, <1>4, <1>5 DEF Typed, UserTypes, RowTypes

(* What a rotation writes.                                                  *)
LEMMA RefreshType ==
    ASSUME Typed, NEW t \in Tokens, NEW new \in Tokens, Refresh(t, new)
    PROVE  Typed'
<1>1. refresh[t] \in RefreshToken
    BY DEF Typed, RowTypes, Refresh
<1>2. [refresh[t] EXCEPT !.revoked = FALSE] \in RefreshToken /\ Rotated(refresh[t]) \in RefreshToken
    BY <1>1 DEF RefreshToken, Rotated
<1>3. refresh' \in [Tokens -> RefreshToken \cup {None}]
    BY <1>2 DEF Typed, RowTypes, Refresh
<1>4. UNCHANGED <<users, resets, keys, configured, request>>
    BY DEF Refresh
<1> QED
    BY <1>3, <1>4 DEF Typed, UserTypes, RowTypes, RequestTypes, KeyRead, users

(* What asking for a reset and confirming it write.                         *)
LEMMA ResetType ==
    ASSUME Typed, NEW x \in Resets,
           (\E u \in Users : AddReset(x, u)) \/ ConfirmReset(x)
    PROVE  Typed'
<1>1. ASSUME NEW u \in Users, AddReset(x, u) PROVE Typed'
    <2>1. [user |-> u, used |-> FALSE] \in PasswordReset
        BY DEF PasswordReset
    <2> QED
        BY <1>1, <2>1 DEF AddReset, Typed, UserTypes, RowTypes, RequestTypes, KeyRead, users
<1>2. CASE ConfirmReset(x)
    <2>1. resets[x] \in PasswordReset /\ Spent(resets[x]) \in PasswordReset
        BY <1>2 DEF ConfirmReset, Typed, RowTypes, PasswordReset, Spent
    <2>2. resets[x].user \in Users
        BY <2>1 DEF PasswordReset
    <2>3. resets' \in [Resets -> PasswordReset \cup {None}]
        BY <1>2, <2>1 DEF ConfirmReset, Typed, RowTypes
    <2>4. password' \in [Users -> Nat]
        BY <1>2, <2>2 DEF ConfirmReset, Typed, UserTypes
    <2> QED
        BY <1>2, <2>3, <2>4 DEF ConfirmReset, Typed, UserTypes, RowTypes, RequestTypes, KeyRead
<1> QED
    BY <1>1, <1>2

(* What API keys write.                                                     *)
LEMMA KeyType ==
    ASSUME Typed, NEW u \in Users, NEW k \in Keys,
           (\E override \in Roles \cup {None} : CreateKey(u, k, override)) \/ RevokeKey(u, k)
    PROVE  Typed'
<1>1. PICK key \in ApiKey : keys' = [keys EXCEPT ![k] = key]
    <2>1. ASSUME NEW override \in Roles \cup {None}, CreateKey(u, k, override)
          PROVE  \E key \in ApiKey : keys' = [keys EXCEPT ![k] = key]
        <3>1. [owner |-> u, override |-> override, active |-> TRUE] \in ApiKey
            BY DEF ApiKey
        <3> QED
            BY <2>1, <3>1 DEF CreateKey
    <2>2. ASSUME RevokeKey(u, k)
          PROVE  \E key \in ApiKey : keys' = [keys EXCEPT ![k] = key]
        <3>1. keys[k] \in ApiKey
            BY <2>2 DEF RevokeKey, Typed, RowTypes
        <3>2. [keys[k] EXCEPT !.active = FALSE] \in ApiKey
            BY <3>1 DEF ApiKey
        <3> QED
            BY <2>2, <3>2 DEF RevokeKey
    <2> QED
        BY <2>1, <2>2
<1>2. UNCHANGED <<users, refresh, resets, configured, request>>
    BY DEF CreateKey, RevokeKey
<1>3. key # None
    BY AccountsAssumption
<1> QED
    BY <1>1, <1>2, <1>3 DEF Typed, UserTypes, RowTypes, RequestTypes, KeyRead, users

(* What an administrator writes.                                            *)
LEMMA AdminType ==
    ASSUME Typed, Administration
    PROVE  Typed'
<1>1. ASSUME NEW a \in Admins, NEW u \in Users,
             \/ \E new \in Roles : ChangeRole(a, u, new)
             \/ \E on \in BOOLEAN : ChangeStatus(a, u, on)
             \/ DeleteUser(a, u)
      PROVE  Typed'
    <2>1. UNCHANGED <<password, owned, request>>
        BY <1>1 DEF ChangeRole, ChangeStatus, DeleteUser
    <2>2. UserTypes'
        <3>1. "viewer" \in Roles
            BY DEF Roles
        <3>2. ASSUME NEW new \in Roles, ChangeRole(a, u, new) PROVE UserTypes'
            BY <3>2 DEF ChangeRole, Typed, UserTypes
        <3>3. ASSUME NEW on \in BOOLEAN, ChangeStatus(a, u, on) PROVE UserTypes'
            BY <3>3 DEF ChangeStatus, Typed, UserTypes
        <3>4. CASE DeleteUser(a, u)
            BY <3>1, <3>4 DEF DeleteUser, Typed, UserTypes
        <3> QED
            BY <1>1, <3>2, <3>3, <3>4
    <2> QED
        BY <2>1, <2>2 DEF Typed, RowTypes, RequestTypes, KeyRead, owned
<1>2. ASSUME NEW a \in Admins, NEW u \in Users, NEW x \in Resets, AdminReset(a, x, u)
      PROVE  Typed'
    BY <1>2, ResetType DEF AdminReset
<1>3. ASSUME NEW a \in Admins, NEW c \in Configs, Configure(a, c)
      PROVE  Typed'
    BY <1>3 DEF Configure, Typed, UserTypes, RowTypes, RequestTypes, KeyRead, users, Admins, Enabled, Live
<1> QED
    BY <1>1, <1>2, <1>3 DEF Administration

(* Every step keeps the types of the tables.                                *)
LEMMA TypedStep == Typed /\ [Next]_vars => Typed'
<1> SUFFICES ASSUME Typed, [Next]_vars PROVE Typed'
    OBVIOUS
<1>1. CASE Step
    BY <1>1, NewUserType, BeginType, LoginType, RefreshType, ResetType, KeyType, AdminType
       DEF Step, RequestReset
<1>2. ASSUME NEW r \in Requests, EndKeyUse(r) PROVE Typed'
    <2>1. UNCHANGED <<users, owned>>
        BY <1>2 DEF EndKeyUse
    <2>2. RequestTypes'
        BY <1>2, <2>1, EndedType DEF EndKeyUse, owned
    <2> QED
        BY <2>1, <2>2 DEF Typed, UserTypes, RowTypes, users, owned
<1>3. CASE UNCHANGED vars
    BY <1>3 DEF vars, users, owned, Typed, UserTypes, RowTypes, RequestTypes, KeyRead
<1> QED
    BY <1>1, <1>2, <1>3 DEF Next

(* The role a key is accepted with is a role, at most its owner's.          *)
LEMMA EffectiveRoleBound ==
    ASSUME Typed, NEW key \in ApiKey
    PROVE  /\ EffectiveRole(key) \in Roles
           /\ Rank[EffectiveRole(key)] <= Rank[role[key.owner]]
<1>1. key.owner \in Users /\ key.override \in Roles \cup {None}
    BY DEF ApiKey
<1>2. role[key.owner] \in Roles
    BY <1>1 DEF Typed, UserTypes
<1> QED
    BY <1>1, <1>2, RankType DEF EffectiveRole

(* The row of the key a request awaited the check of.                       *)
LEMMA KeyInUse ==
    ASSUME Typed, NEW r \in Requests, EndKeyUse(r)
    PROVE  request[r].key \in Keys /\ keys[request[r].key] \in ApiKey
<1>1. request[r].key \in Keys
    BY DEF EndKeyUse, KeyUse
<1> QED
    BY <1>1 DEF EndKeyUse, Typed, RowTypes, RequestTypes, KeyRead

(* Every step keeps the types, what a key was accepted for included.        *)
LEMMA TypeStep == TypeOK /\ KeyRead /\ [Next]_vars => (TypeOK /\ KeyRead)'
<1> SUFFICES ASSUME Typed, served \in Served \cup {None}, [Next]_vars
             PROVE  served' \in Served \cup {None}
    BY TypedIsTypeOK, TypedStep DEF TypeOK, Typed, UserTypes, RowTypes, RequestTypes
<1>1. ASSUME NEW r \in Requests, EndKeyUse(r) PROVE served' \in Served \cup {None}
    <2> DEFINE key == keys[request[r].key]
    <2>1. key \in ApiKey
        BY <1>1, KeyInUse
    <2>2. EffectiveRole(key) \in Roles
        BY <2>1, EffectiveRoleBound
    <2>3. role[key.owner] \in Roles
        BY <2>1 DEF ApiKey, Typed, UserTypes
    <2>4. \A as, owner \in Roles, on \in BOOLEAN :
              [as |-> as, owner |-> owner, active |-> on] \in Served
        BY DEF Served
    <2>5. (key.owner \in Enabled) \in BOOLEAN
        OBVIOUS
    <2>6. \/ served' = [as |-> EffectiveRole(key), owner |-> role[key.owner],
                       active |-> key.owner \in Enabled]
          \/ served' = None
        BY <1>1 DEF EndKeyUse
    <2> HIDE DEF key
    <2> QED
        BY <2>2, <2>3, <2>4, <2>5, <2>6
<1> QED
    BY <1>1 DEF Next, vars

(* The type invariant of the tables users, refresh_tokens,                  *)
(* password_reset_tokens and api_keys and of the requests in progress.      *)
THEOREM TypeCorrect == Spec => [](TypeOK /\ KeyRead)
<1>1. Init => TypeOK /\ KeyRead
    BY KindsApart DEF Init, TypeOK, KeyRead, Roles
<1> QED
    BY <1>1, TypeStep, PTL DEF Spec

(***************************************************************************)
(* Owners and administrators.                                              *)
(***************************************************************************)

(* Rows keep their owners when no user goes and no row changes.             *)
LEMMA OwnersStay ==
    ASSUME OwnersExist, Live \subseteq Live', UNCHANGED owned
    PROVE  OwnersExist'
    BY DEF OwnersExist, owned

(* A delete takes away a user no row refers to.                             *)
LEMMA DeleteKeepsOwners ==
    ASSUME Typed, OwnersExist, NEW a \in Admins, NEW u \in Users, DeleteUser(a, u)
    PROVE  OwnersExist'
<1>1. Live' = Live \ {u} /\ UNCHANGED owned
    BY DEF DeleteUser, Live, Typed, UserTypes
<1>2. ~Referenced(u)
    BY DEF DeleteUser
<1>3. /\ \A t \in Tokens : refresh'[t] # None => refresh'[t].user \in Live'
      /\ \A x \in Resets : resets'[x] # None => resets'[x].user \in Live'
    BY <1>1, <1>2 DEF OwnersExist, Referenced, owned
<1>4. /\ \A k \in Keys : keys'[k] # None => keys'[k].owner \in Live'
      /\ \A c \in Configs : configured'[c] # None => configured'[c] \in Live'
    BY <1>1, <1>2 DEF OwnersExist, Referenced, owned
<1> QED
    BY <1>3, <1>4 DEF OwnersExist

(* Of the administrator's requests only a delete takes a user away.         *)
LEMMA AdministrationKeepsOwners ==
    ASSUME Typed, OwnersExist, Administration
    PROVE  OwnersExist'
<1>1. ASSUME NEW a \in Admins, NEW u \in Users,
             (\E new \in Roles : ChangeRole(a, u, new)) \/ (\E on \in BOOLEAN : ChangeStatus(a, u, on))
      PROVE  OwnersExist'
    <2>1. row' = row /\ UNCHANGED owned
        BY <1>1 DEF ChangeRole, ChangeStatus
    <2> QED
        BY <2>1, OwnersStay DEF Live
<1>2. ASSUME NEW a \in Admins, NEW u \in Users, DeleteUser(a, u) PROVE OwnersExist'
    BY <1>2, DeleteKeepsOwners
<1>3. ASSUME NEW a \in Admins, NEW u \in Users, NEW x \in Resets, AdminReset(a, x, u)
      PROVE  OwnersExist'
    BY <1>3 DEF AdminReset, AddReset, OwnersExist, Typed, RowTypes, users, Live
<1>4. ASSUME NEW a \in Admins, NEW c \in Configs, Configure(a, c) PROVE OwnersExist'
    BY <1>4 DEF Configure, OwnersExist, Typed, RowTypes, users, Live, Enabled, Admins
<1> QED
    BY <1>1, <1>2, <1>3, <1>4 DEF Administration

(* A login, a rotation and a confirmation keep the users of their rows.     *)
LEMMA TokensKeepOwners ==
    ASSUME Typed, OwnersExist,
           \/ \E r \in Requests, keeps \in BOOLEAN : EndLogin(r, keeps)
           \/ \E t, new \in Tokens : Refresh(t, new)
           \/ \E x \in Resets : ConfirmReset(x)
    PROVE  OwnersExist'
<1>1. ASSUME NEW r \in Requests, NEW keeps \in BOOLEAN, EndLogin(r, keeps) PROVE OwnersExist'
    BY <1>1 DEF EndLogin, LoginWritten, OwnersExist, Typed, RowTypes, Live
<1>2. ASSUME NEW t \in Tokens, NEW new \in Tokens, Refresh(t, new) PROVE OwnersExist'
    <2>1. refresh[t] \in RefreshToken
        BY <1>2 DEF Refresh, Typed, RowTypes
    <2>2. /\ Rotated(refresh[t]).user = refresh[t].user
          /\ [refresh[t] EXCEPT !.revoked = FALSE].user = refresh[t].user
        BY <2>1 DEF Rotated, RefreshToken
    <2>3. refresh[t].user \in Live /\ UNCHANGED <<row, resets, keys, configured>>
        BY <1>2 DEF Refresh, Enabled, users
    <2>4. \A s \in Tokens : refresh'[s] # None => refresh'[s].user \in Live
        <3> HIDE DEF Rotated
        <3> QED
            BY <1>2, <2>2, <2>3 DEF Refresh, OwnersExist, Typed, RowTypes
    <2> QED
        BY <2>3, <2>4 DEF OwnersExist, Live
<1>3. ASSUME NEW x \in Resets, ConfirmReset(x) PROVE OwnersExist'
    BY <1>3 DEF ConfirmReset, Spent, OwnersExist, Typed, RowTypes, PasswordReset, Live
<1> QED
    BY <1>1, <1>2, <1>3

(* A new reset token or key belongs to a user who is there.                 *)
LEMMA RowsKeepOwners ==
    ASSUME Typed, OwnersExist, NEW u \in Users,
           \/ \E x \in Resets : RequestReset(x, u)
           \/ \E k \in Keys, override \in Roles \cup {None} : CreateKey(u, k, override)
           \/ \E k \in Keys : RevokeKey(u, k)
    PROVE  OwnersExist'
<1>1. ASSUME NEW x \in Resets, RequestReset(x, u) PROVE OwnersExist'
    BY <1>1 DEF RequestReset, AddReset, OwnersExist, Typed, RowTypes, users, Live
<1>2. ASSUME NEW k \in Keys, NEW override \in Roles \cup {None}, CreateKey(u, k, override)
      PROVE  OwnersExist'
    BY <1>2 DEF CreateKey, OwnersExist, Typed, RowTypes, users, Enabled, Live
<1>3. ASSUME NEW k \in Keys, RevokeKey(u, k) PROVE OwnersExist'
    BY <1>3 DEF RevokeKey, OwnersExist, Typed, RowTypes, ApiKey, users, Live
<1> QED
    BY <1>1, <1>2, <1>3

(* Every step keeps every row its user.                                     *)
LEMMA OwnersStep == Typed /\ OwnersExist /\ [Next]_vars => OwnersExist'
<1> SUFFICES ASSUME Typed, OwnersExist, [Next]_vars PROVE OwnersExist'
    OBVIOUS
<1>1. ASSUME NEW u \in Users, Register(u) \/ OidcCreate(u) \/ OidcLink(u) PROVE OwnersExist'
    <2>1. Live \subseteq Live' /\ UNCHANGED owned
        BY <1>1 DEF Register, OidcCreate, OidcLink, NewUser, Live, Typed, UserTypes
    <2> QED
        BY <2>1, OwnersStay
<1>2. ASSUME NEW r \in Requests,
             \/ \E u \in Users, valid \in BOOLEAN : BeginLogin(r, u, valid)
             \/ \E k \in Keys : BeginKeyUse(r, k)
             \/ EndKeyUse(r)
      PROVE  OwnersExist'
    <2>1. UNCHANGED <<users, owned>>
        BY <1>2 DEF BeginLogin, BeginKeyUse, EndKeyUse
    <2> QED
        BY <2>1, OwnersStay DEF users, Live
<1>3. CASE UNCHANGED vars
    BY <1>3, OwnersStay DEF vars, users, Live
<1> QED
    BY <1>1, <1>2, <1>3, TokensKeepOwners, RowsKeepOwners, AdministrationKeepsOwners
       DEF Next, Step

(* No request, and no login that awaits while its user is deleted, leaves a *)
(* token, a reset, a key or a configuration row without its user.           *)
THEOREM NoOrphans == Spec => []OwnersExist
<1>1. Init => OwnersExist
    BY DEF Init, OwnersExist
<1>2. (TypeOK /\ KeyRead) /\ OwnersExist /\ [Next]_vars => OwnersExist'
    BY OwnersStep, TypedIsTypeOK
<1> QED
    BY <1>1, <1>2, TypeCorrect, PTL DEF Spec

(* Who is admin before a step that leaves his columns alone is so after it. *)
LEMMA AdminStays ==
    ASSUME NEW a \in Admins, row'[a] = row[a], role'[a] = role[a], active'[a] = active[a]
    PROVE  a \in Admins'
    BY DEF Admins, Enabled, Live

(* The first user is made admin; a user whom OIDC creates comes after one,  *)
(* for the OIDC configuration has a live author.                            *)
LEMMA NewUserKeepsAdmin ==
    ASSUME Typed, OwnersExist, AlwaysAnAdmin,
           NEW u \in Users, Register(u) \/ OidcCreate(u)
    PROVE  Admins' # {}
<1>1. row[u] = "absent" /\ \A a \in Users \ {u} : row'[a] = row[a] /\ role'[a] = role[a]
                                                 /\ active'[a] = active[a]
    BY DEF Register, OidcCreate, NewUser, Typed, UserTypes
<1>2. CASE Live # {}
    <2>1. PICK a \in Admins : a # u
        BY <1>1, <1>2 DEF AlwaysAnAdmin, Admins, Enabled, Live
    <2>2. a \in Users \ {u}
        BY <2>1 DEF Admins, Enabled, Live
    <2> QED
        BY <1>1, <2>1, <2>2, AdminStays
<1>3. CASE Live = {}
    <2>1. Register(u)
        BY <1>3, AccountsAssumption DEF OidcCreate, OwnersExist
    <2>2. row'[u] = "live" /\ role'[u] = "admin" /\ active'[u]
        BY <1>3, <2>1 DEF Register, FirstRole, NewUser, Typed, UserTypes
    <2> QED
        BY <2>2 DEF Admins, Enabled, Live
<1> QED
    BY <1>2, <1>3

(* The administrator who acts is never the target, and stays admin.         *)
LEMMA ActorStays ==
    ASSUME Typed, NEW a \in Admins, NEW u \in Users,
           \/ \E new \in Roles : ChangeRole(a, u, new)
           \/ \E on \in BOOLEAN : ChangeStatus(a, u, on)
           \/ DeleteUser(a, u)
    PROVE  a \in Admins' /\ a # u
<1>1. a # u /\ a \in Users
    BY DEF ChangeRole, ChangeStatus, DeleteUser, Target, Admins, Enabled, Live
<1>2. row'[a] = row[a] /\ role'[a] = role[a] /\ active'[a] = active[a]
    BY <1>1 DEF ChangeRole, ChangeStatus, DeleteUser, Typed, UserTypes
<1> QED
    BY <1>1, <1>2, AdminStays

(* An administrator changes a user's role or status or deletes him.         *)
Administrative ==
    \E a \in Admins, u \in Users :
        \/ \E new \in Roles : ChangeRole(a, u, new)
        \/ \E on \in BOOLEAN : ChangeStatus(a, u, on)
        \/ DeleteUser(a, u)

(* Every other step leaves rows, roles and status alone.                    *)
LEMMA OtherSteps ==
    ASSUME [Next]_vars, ~Administrative, \A u \in Users : ~Register(u) /\ ~OidcCreate(u)
    PROVE  UNCHANGED <<row, role, active>>
<1>1. CASE Administration
    BY <1>1 DEF Administration, Administrative, AdminReset, AddReset, Configure, users
<1>2. ASSUME NEW u \in Users,
             \/ OidcLink(u)
             \/ \E r \in Requests, valid \in BOOLEAN : BeginLogin(r, u, valid)
             \/ \E x \in Resets : RequestReset(x, u)
             \/ \E k \in Keys, override \in Roles \cup {None} : CreateKey(u, k, override)
             \/ \E k \in Keys : RevokeKey(u, k)
      PROVE  UNCHANGED <<row, role, active>>
    BY <1>2 DEF OidcLink, BeginLogin, RequestReset, AddReset, CreateKey, RevokeKey, users
<1>3. ASSUME NEW r \in Requests,
             \/ \E keeps \in BOOLEAN : EndLogin(r, keeps)
             \/ \E k \in Keys : BeginKeyUse(r, k)
             \/ EndKeyUse(r)
      PROVE  UNCHANGED <<row, role, active>>
    BY <1>3 DEF EndLogin, LoginWritten, BeginKeyUse, EndKeyUse, users
<1>4. ASSUME NEW t \in Tokens, NEW new \in Tokens, Refresh(t, new)
      PROVE  UNCHANGED <<row, role, active>>
    BY <1>4 DEF Refresh, users
<1>5. ASSUME NEW x \in Resets, ConfirmReset(x)
      PROVE  UNCHANGED <<row, role, active>>
    BY <1>5 DEF ConfirmReset
<1> QED
    BY <1>1, <1>2, <1>3, <1>4, <1>5 DEF Next, Step, vars, users

(* Every step leaves an administrator.                                      *)
LEMMA AdminStep == Typed /\ OwnersExist /\ AlwaysAnAdmin /\ [Next]_vars => AlwaysAnAdmin'
<1> SUFFICES ASSUME Typed, OwnersExist, AlwaysAnAdmin, [Next]_vars PROVE AlwaysAnAdmin'
    OBVIOUS
<1>1. ASSUME NEW u \in Users, Register(u) \/ OidcCreate(u) PROVE AlwaysAnAdmin'
    BY <1>1, NewUserKeepsAdmin DEF AlwaysAnAdmin
<1>2. CASE Administrative
    BY <1>2, ActorStays DEF Administrative, AlwaysAnAdmin
<1>3. CASE UNCHANGED <<row, role, active>>
    BY <1>3 DEF AlwaysAnAdmin, Admins, Enabled, Live
<1> QED
    BY <1>1, <1>2, <1>3, OtherSteps

(* No sequence of registrations, OIDC logins and requests of any number of  *)
(* administrators locks all of them out.                                    *)
THEOREM AdminRemains == Spec => []AlwaysAnAdmin
<1>1. Init => AlwaysAnAdmin
    BY DEF Init, AlwaysAnAdmin, Live
<1>2. (TypeOK /\ KeyRead) /\ OwnersExist /\ AlwaysAnAdmin /\ [Next]_vars => AlwaysAnAdmin'
    BY AdminStep, TypedIsTypeOK
<1> QED
    BY <1>1, <1>2, TypeCorrect, NoOrphans, PTL DEF Spec

(* Role and status change only at the hand of another administrator.        *)
THEOREM OnlyAdminsChange == Spec => ChangedByAdmin
<1> DEFINE Change ==
       \A u \in Live : u \in Live' /\ (role'[u] # role[u] \/ active'[u] # active[u]) =>
           Admins \ {u} # {} /\ UNCHANGED request
<1>1. Typed /\ [Next]_vars => [Change]_vars
    <2> SUFFICES ASSUME Typed, [Next]_vars,
                        NEW u \in Live, role'[u] # role[u] \/ active'[u] # active[u]
                 PROVE  u \in Live' => Admins \ {u} # {} /\ UNCHANGED request
        OBVIOUS
    <2>1. u \in Users /\ row[u] = "live"
        BY DEF Live
    <2>2. ASSUME NEW v \in Users, Register(v) \/ OidcCreate(v) PROVE FALSE
        <3>1. v # u /\ v \in Users
            BY <2>1, <2>2 DEF Register, OidcCreate, NewUser
        <3> QED
            BY <2>1, <2>2, <3>1 DEF Register, OidcCreate, NewUser, Typed, UserTypes
    <2>3. ASSUME NEW a \in Admins, NEW v \in Users,
                 \/ \E new \in Roles : ChangeRole(a, v, new)
                 \/ \E on \in BOOLEAN : ChangeStatus(a, v, on)
                 \/ DeleteUser(a, v)
          PROVE  Admins \ {u} # {} /\ UNCHANGED request
        <3>1. v = u
            BY <2>1, <2>3 DEF ChangeRole, ChangeStatus, DeleteUser, Typed, UserTypes
        <3>2. a # v
            BY <2>3, ActorStays
        <3>3. UNCHANGED request
            BY <2>3 DEF ChangeRole, ChangeStatus, DeleteUser
        <3> QED
            BY <3>1, <3>2, <3>3
    <2> QED
        BY <2>2, <2>3, OtherSteps DEF Administrative
<1>2. TypeOK /\ KeyRead => Typed
    BY TypedIsTypeOK
<1> QED
    BY <1>1, <1>2, TypeCorrect, PTL DEF Spec, ChangedByAdmin

(***************************************************************************)
(* Keys and refresh tokens.                                                *)
(***************************************************************************)

(* The override an owner chose when the key was made may by now be above    *)
(* the owner's role; what the key is accepted for never is.                 *)
THEOREM KeysBounded == Spec => []KeyWithinOwner
<1>1. Init => KeyWithinOwner
    BY DEF Init, KeyWithinOwner
<1>2. Typed /\ OwnersExist /\ KeyWithinOwner /\ [Next]_vars => KeyWithinOwner'
    <2> SUFFICES ASSUME Typed, OwnersExist, KeyWithinOwner, [Next]_vars PROVE KeyWithinOwner'
        OBVIOUS
    <2>1. ASSUME NEW r \in Requests, EndKeyUse(r), served' # None PROVE KeyWithinOwner'
        <3> DEFINE key == keys[request[r].key]
        <3>1. key \in ApiKey /\ key.owner \in Live
            BY <2>1, KeyInUse DEF OwnersExist, EndKeyUse, Typed, RequestTypes, KeyRead
        <3>2. key.owner \in Enabled
            BY <2>1, <3>1 DEF EndKeyUse, Enabled
        <3>3. Rank[EffectiveRole(key)] <= Rank[role[key.owner]]
            BY <3>1, EffectiveRoleBound
        <3>4. served' = [as |-> EffectiveRole(key), owner |-> role[key.owner],
                         active |-> key.owner \in Enabled]
            BY <2>1 DEF EndKeyUse
        <3> QED
            BY <3>2, <3>3, <3>4 DEF KeyWithinOwner
    <2> QED
        BY <2>1 DEF Next, KeyWithinOwner, vars
<1>3. TypeOK /\ KeyRead => Typed
    BY TypedIsTypeOK
<1> QED
    BY <1>1, <1>2, <1>3, TypeCorrect, NoOrphans, PTL DEF Spec

(* The strengthening: the first token of every chain is still a row, so a   *)
(* new login cannot continue the chain of an old one.                       *)
ChainStarted ==
    \A t \in Tokens : refresh[t] # None => refresh[refresh[t].login] # None

Chained == ChainStarted /\ OneTokenPerLogin

(* A step that leaves refresh_tokens alone.                                 *)
LEMMA ChainUnchanged == Chained /\ UNCHANGED refresh => Chained'
    BY DEF Chained, ChainStarted, OneTokenPerLogin

(* A login starts a chain of its own.                                       *)
LEMMA LoginChained ==
    ASSUME Typed, Chained, NEW r \in Requests, NEW keeps \in BOOLEAN, EndLogin(r, keeps)
    PROVE  Chained'
<1>1. CASE UNCHANGED refresh
    BY <1>1, ChainUnchanged
<1>2. ASSUME NEW t \in Tokens, refresh[t] = None, NEW user \in Users,
             refresh' = [refresh EXCEPT ![t] = [user |-> user, revoked |-> FALSE, login |-> t]]
      PROVE  Chained'
    <2> DEFINE token == [user |-> user, revoked |-> FALSE, login |-> t]
    <2>1. token \in RefreshToken /\ token # None /\ token.login = t
        <3>1. token \in RefreshToken /\ token.login = t
            BY DEF RefreshToken
        <3>2. token # None
            BY <3>1, AccountsAssumption
        <3> QED
            BY <3>1, <3>2
    <2>2. \A s \in Tokens : refresh'[s] = IF s = t THEN token ELSE refresh[s]
        BY <1>2 DEF Typed, RowTypes
    <2>3. \A s \in Tokens : refresh[s] # None => refresh[s].login \in Tokens
        BY DEF Typed, RowTypes, RefreshToken
    <2>4. \A s \in Tokens : refresh[s] # None => refresh[s].login # t
        BY <1>2 DEF Chained, ChainStarted
    <2> HIDE DEF token
    <2>5. ChainStarted'
        BY <2>1, <2>2, <2>3, <2>4 DEF Chained, ChainStarted
    <2>6. OneTokenPerLogin'
        BY <2>1, <2>2, <2>4 DEF Chained, OneTokenPerLogin
    <2> QED
        BY <2>5, <2>6 DEF Chained
<1>3. request[r].user \in Users
    BY DEF EndLogin, Login
<1> QED
    BY <1>1, <1>2, <1>3 DEF EndLogin

(* A rotation hands the chain on: the new token is valid, the old is not.   *)
LEMMA RefreshChained ==
    ASSUME Typed, Chained, NEW t \in Tokens, NEW new \in Tokens, Refresh(t, new)
    PROVE  Chained'
<1> DEFINE old   == Rotated(refresh[t])
           token == [refresh[t] EXCEPT !.revoked = FALSE]
<1>1. refresh[t] \in RefreshToken /\ refresh[t] # None /\ ~refresh[t].revoked /\ t # new
    BY DEF Refresh, Typed, RowTypes
<1>2. /\ old \in RefreshToken /\ old.login = refresh[t].login /\ old.revoked
      /\ token \in RefreshToken /\ token.login = refresh[t].login
    BY <1>1 DEF RefreshToken, Rotated
<1>3. old # None /\ token # None
    BY <1>2, AccountsAssumption
<1>4. \A s \in Tokens :
          refresh'[s] = IF s = new THEN token ELSE IF s = t THEN old ELSE refresh[s]
    BY DEF Refresh, Typed, RowTypes
<1>5. \A s \in Tokens : refresh[s] # None => refresh[s].login \in Tokens
    BY DEF Typed, RowTypes, RefreshToken
<1>6. refresh[new] = None
    BY DEF Refresh
<1> HIDE DEF old, token
<1>7. ChainStarted'
    BY <1>1, <1>2, <1>3, <1>4, <1>5 DEF Chained, ChainStarted
<1>8. OneTokenPerLogin'
    BY <1>1, <1>2, <1>3, <1>4, <1>6 DEF Chained, OneTokenPerLogin
<1> QED
    BY <1>7, <1>8 DEF Chained

(* Every step keeps the chains of tokens.                                   *)
LEMMA ChainStep == Typed /\ Chained /\ [Next]_vars => Chained'
<1> SUFFICES ASSUME Typed, Chained, [Next]_vars PROVE Chained'
    OBVIOUS
<1>1. ASSUME NEW u \in Users,
             \/ Register(u) \/ OidcCreate(u) \/ OidcLink(u)
             \/ \E r \in Requests, valid \in BOOLEAN : BeginLogin(r, u, valid)
             \/ \E x \in Resets : RequestReset(x, u)
             \/ \E k \in Keys, override \in Roles \cup {None} : CreateKey(u, k, override)
             \/ \E k \in Keys : RevokeKey(u, k)
      PROVE  UNCHANGED refresh
    BY <1>1 DEF Register, OidcCreate, OidcLink, NewUser, BeginLogin, RequestReset, AddReset,
                CreateKey, RevokeKey, owned
<1>2. CASE Administration
    <2>1. UNCHANGED refresh
        BY <1>2 DEF Administration, ChangeRole, ChangeStatus, DeleteUser, AdminReset, AddReset,
                    Configure, owned
    <2> QED
        BY <2>1, ChainUnchanged
<1>3. ASSUME \/ \E r \in Requests, k \in Keys : BeginKeyUse(r, k)
             \/ \E r \in Requests : EndKeyUse(r)
             \/ \E x \in Resets : ConfirmReset(x)
             \/ UNCHANGED vars
      PROVE  UNCHANGED refresh
    BY <1>3 DEF BeginKeyUse, EndKeyUse, ConfirmReset, vars, owned
<1> QED
    BY <1>1, <1>2, <1>3, ChainUnchanged, LoginChained, RefreshChained DEF Next, Step

(* However logins and rotations follow one another, a login has at most one *)
(* refresh token that is not revoked.                                       *)
THEOREM OneValidToken == Spec => []OneTokenPerLogin
<1>1. Init => Chained
    BY DEF Init, Chained, ChainStarted, OneTokenPerLogin
<1>2. TypeOK /\ KeyRead => Typed
    BY TypedIsTypeOK
<1>3. Chained => OneTokenPerLogin
    BY DEF Chained
<1> QED
    BY <1>1, <1>2, <1>3, ChainStep, TypeCorrect, PTL DEF Spec

(***************************************************************************)
(* Password resets.                                                        *)
(***************************************************************************)

UsedFor(u) == {x \in Resets : resets[x] # None /\ resets[x].user = u /\ resets[x].used}

(* ResetOnce, with the set it counts named.                                 *)
LEMMA ResetOnceMeans == ResetOnce <=> \A u \in Users : password[u] = Cardinality(UsedFor(u))
    BY DEF ResetOnce, UsedFor

(* A step that leaves passwords and password_reset_tokens alone.            *)
LEMMA ResetsUnchanged == ResetOnce /\ UNCHANGED <<password, resets>> => ResetOnce'
    BY DEF ResetOnce

(* A reset token that was only asked for replaces nothing.                  *)
LEMMA AskedOnce ==
    ASSUME Typed, ResetOnce, NEW x \in Resets, NEW u \in Users, AddReset(x, u)
    PROVE  ResetOnce'
<1> DEFINE new == [user |-> u, used |-> FALSE]
<1>1. \A y \in Resets : resets'[y] = IF y = x THEN new ELSE resets[y]
    BY DEF AddReset, Typed, RowTypes
<1>2. resets[x] = None /\ ~new.used /\ password' = password
    BY DEF AddReset, users
<1> HIDE DEF new
<1>3. \A v \in Users : UsedFor(v)' = UsedFor(v)
    BY <1>1, <1>2 DEF UsedFor
<1> QED
    BY <1>2, <1>3, ResetOnceMeans DEF ResetOnce, UsedFor

(* A confirmation replaces the password of one user and uses up one token.  *)
LEMMA ConfirmedOnce ==
    ASSUME Typed, ResetOnce, NEW x \in Resets, ConfirmReset(x)
    PROVE  ResetOnce'
<1> DEFINE spent == Spent(resets[x])
<1>1. resets[x] \in PasswordReset /\ resets[x] # None /\ ~resets[x].used
    BY DEF ConfirmReset, Typed, RowTypes
<1>2. PICK u \in Users : u = resets[x].user
    BY <1>1 DEF PasswordReset
<1>3. spent \in PasswordReset /\ spent # None /\ spent.user = u /\ spent.used
    <2>1. spent \in PasswordReset /\ spent.user = u /\ spent.used
        BY <1>1, <1>2 DEF PasswordReset, Spent
    <2> QED
        BY <2>1, AccountsAssumption
<1>4. \A y \in Resets : resets'[y] = IF y = x THEN spent ELSE resets[y]
    BY DEF ConfirmReset, Typed, RowTypes
<1>5. \A v \in Users : password'[v] = IF v = u THEN password[v] + 1 ELSE password[v]
    BY <1>2 DEF ConfirmReset, Typed, UserTypes
<1> HIDE DEF spent
<1>6. \A v \in Users : v # u => UsedFor(v)' = UsedFor(v)
    BY <1>1, <1>2, <1>3, <1>4 DEF UsedFor
<1>7. UsedFor(u)' = UsedFor(u) \cup {x} /\ x \notin UsedFor(u)
    BY <1>1, <1>2, <1>3, <1>4 DEF UsedFor
<1>8. Cardinality(UsedFor(u) \cup {x}) = Cardinality(UsedFor(u)) + 1
    <2>1. IsFiniteSet(UsedFor(u))
        BY AccountsAssumption, FS_Subset DEF UsedFor
    <2> QED
        BY <1>7, <2>1, FS_AddElement
<1>9. \A v \in Users : password'[v] = Cardinality(UsedFor(v)')
    BY <1>5, <1>6, <1>7, <1>8, ResetOnceMeans
<1> QED
    BY <1>9 DEF ResetOnce, UsedFor

(* Every step keeps passwords and used tokens in agreement.                 *)
LEMMA ResetStep == Typed /\ ResetOnce /\ [Next]_vars => ResetOnce'
<1> SUFFICES ASSUME Typed, ResetOnce, [Next]_vars PROVE ResetOnce'
    OBVIOUS
<1>1. ASSUME NEW u \in Users,
             \/ Register(u) \/ OidcCreate(u) \/ OidcLink(u)
             \/ \E r \in Requests, valid \in BOOLEAN : BeginLogin(r, u, valid)
             \/ \E k \in Keys, override \in Roles \cup {None} : CreateKey(u, k, override)
             \/ \E k \in Keys : RevokeKey(u, k)
      PROVE  UNCHANGED <<password, resets>>
    BY <1>1 DEF Register, OidcCreate, OidcLink, NewUser, BeginLogin, CreateKey, RevokeKey,
                users, owned
<1>2. CASE Administration
    <2>1. ASSUME NEW a \in Admins, NEW u \in Users,
                 \/ \E new \in Roles : ChangeRole(a, u, new)
                 \/ \E on \in BOOLEAN : ChangeStatus(a, u, on)
                 \/ DeleteUser(a, u)
          PROVE  UNCHANGED <<password, resets>>
        BY <2>1 DEF ChangeRole, ChangeStatus, DeleteUser, owned
    <2>2. ASSUME NEW a \in Admins, NEW c \in Configs, Configure(a, c)
          PROVE  UNCHANGED <<password, resets>>
        BY <2>2 DEF Configure, users
    <2> QED
        BY <1>2, <2>1, <2>2, ResetsUnchanged, AskedOnce DEF Administration, AdminReset
<1>3. ASSUME \/ \E r \in Requests, k \in Keys : BeginKeyUse(r, k)
             \/ \E r \in Requests, keeps \in BOOLEAN : EndLogin(r, keeps)
             \/ \E r \in Requests : EndKeyUse(r)
             \/ \E t, new \in Tokens : Refresh(t, new)
             \/ UNCHANGED vars
      PROVE  UNCHANGED <<password, resets>>
    BY <1>3 DEF BeginKeyUse, EndLogin, EndKeyUse, Refresh, vars, users, owned
<1> QED
    BY <1>1, <1>2, <1>3, ResetsUnchanged, AskedOnce, ConfirmedOnce DEF Next, Step, RequestReset

(* However many resets of a user are open at once, each replaces the        *)
(* password once.                                                           *)
THEOREM ResetsSpent == Spec => []ResetOnce
<1>1. Init => ResetOnce
    <2> SUFFICES ASSUME Init, NEW u \in Users PROVE password[u] = Cardinality(UsedFor(u))
        BY ResetOnceMeans
    <2>1. UsedFor(u) = {}
        BY DEF Init, UsedFor
    <2> QED
        BY <2>1, FS_EmptySet DEF Init
<1>2. TypeOK /\ KeyRead => Typed
    BY TypedIsTypeOK
<1> QED
    BY <1>1, <1>2, ResetStep, TypeCorrect, PTL DEF Spec
=============================================================================
