------------------------------ MODULE OidcLogin ------------------------------
(***************************************************************************)
(* The login by an OpenID provider: the browser is sent to the provider    *)
(* with a fresh state and nonce, and comes back with the state and a code, *)
(* which the callback exchanges for a token.  The pending states and the   *)
(* discovery documents are in the memory of the process.                   *)
(*                                                                         *)
(* A login's number stands for its state, its nonce and its code: each is  *)
(* drawn at random, or by the provider for that nonce.  The provider may   *)
(* replace its document, and gives a token for any code it issued, however *)
(* often it is asked.  The client id and the audience are left out; what   *)
(* becomes of the user is in module Accounts.                              *)
(***************************************************************************)
EXTENDS FetchSlots

CONSTANTS Issuers,     \* issuer URLs an administrator may configure
          DocTTL,      \* _DISCOVERY_CACHE_TTL
          StateTTL,    \* _STATE_TTL
          MaxLogins, MaxVersions   \* bounds of the model

ASSUME OidcAssumption ==
    /\ DocTTL \in Nat /\ Patience < DocTTL
    /\ StateTTL \in Nat /\ MaxLogins \in Nat /\ MaxVersions \in Nat

VARIABLES
    issuer, enabled,   \* the row of oidc_config
    until,     \* until[i][v]: when issuer i replaced version v of its document
    cache,     \* _discovery_cache: issuer -> document and time
    pending,   \* _pending_states: login -> created
    opened,    \* history: the logins sent to a provider
    granted,   \* history: the sessions given out
    boot       \* history: starts of the process

oidc == <<issuer, enabled, until, cache, pending, opened, granted, boot>>

Put(f, k, v) == [x \in DOMAIN f \cup {k} |-> IF x = k THEN v ELSE f[x]]

(* The provider, and the administrator *)

Version(i) == Len(until[i]) + 1

Fetching(s) == slot[s].kind \in {"login", "callback", "test"}

\* A request under way may be answered with the old document or the new one.
Replace(i) ==
    /\ Version(i) < MaxVersions
    /\ until' = [until EXCEPT ![i] = Append(@, clock)]
    /\ slot' = [s \in Slots |->
                  IF Fetching(s) /\ slot[s].issuer = i
                  THEN [slot[s] EXCEPT !.docs = @ \cup {Version(i) + 1}] ELSE slot[s]]
    /\ UNCHANGED <<clock, issuer, enabled, cache, pending, opened, granted, boot>>

Configure ==
    /\ issuer' \in Issuers /\ enabled' \in BOOLEAN
    /\ UNCHANGED <<clock, slot, until, cache, pending, opened, granted, boot>>

(* fetch_discovery *)

\* The document in the cache, if it is young enough.
Hits(i) == {c \in {cache[j] : j \in DOMAIN cache \cap {i}} : clock - c.at < DocTTL}

\* Mutant of Store: the time is that of the answer.
StoreOnArrival(s, doc) == cache' = Put(cache, slot[s].issuer, [doc |-> doc, at |-> clock])

\* Mutant of Store: it keeps the time the document expires.
StoreExpiry(s, doc) ==
    cache' = Put(cache, slot[s].issuer, [doc |-> doc, at |-> slot[s].since + DocTTL])

\* The time is read before the request, and kept with the document it brings.
Store(s, doc) == cache' = Put(cache, slot[s].issuer, [doc |-> doc, at |-> slot[s].since])

(* Pending states *)

\* _cleanup_expired_states
Live == [n \in {m \in DOMAIN pending : clock - pending[m] <= StateTTL} |-> pending[n]]

\* generate_state, and the redirect to the provider's authorization endpoint
GenerateState(i, doc) ==
    /\ Len(opened) < MaxLogins
    /\ pending' = Put(Live, Len(opened) + 1, clock)
    /\ opened' = Append(opened, [at |-> clock, issuer |-> i, doc |-> doc, boot |-> boot])

\* Mutant of Popped: the state is read and left.
Peeked(state) == Live

\* validate_state
Popped(state) == [n \in DOMAIN Live \ {state} |-> Live[n]]

(* GET /auth/oidc/login *)

LoginAtOnce ==
    /\ enabled
    /\ \E c \in Hits(issuer) : GenerateState(issuer, c.doc)
    /\ UNCHANGED <<clock, slot, issuer, enabled, until, cache, granted, boot>>

BeginLogin(s) ==
    /\ enabled /\ Hits(issuer) = {}
    /\ Occupy(s, [kind |-> "login", since |-> clock, issuer |-> issuer,
                  docs |-> {Version(issuer)}])
    /\ UNCHANGED <<clock, oidc>>

EndLogin(s) ==
    /\ slot[s].kind = "login"
    /\ \E doc \in slot[s].docs : Store(s, doc) /\ GenerateState(slot[s].issuer, doc)
    /\ Release(s)
    /\ UNCHANGED <<clock, issuer, enabled, until, granted, boot>>

(* POST /settings/oidc/test-discovery *)

BeginTest(s, i) ==
    /\ Hits(i) = {}
    /\ Occupy(s, [kind |-> "test", since |-> clock, issuer |-> i, docs |-> {Version(i)}])
    /\ UNCHANGED <<clock, oidc>>

\* The end of a test, and of any request whose document lacks the endpoint it
\* needs: the document is kept all the same.
EndTest(s) ==
    /\ Fetching(s)
    /\ \E doc \in slot[s].docs : Store(s, doc)
    /\ Release(s)
    /\ UNCHANGED <<clock, issuer, enabled, until, pending, opened, granted, boot>>

(* GET /auth/oidc/callback *)

Exchange(i, doc, code, state, began) ==
    [kind |-> "token", since |-> clock, issuer |-> i, doc |-> doc,
     code |-> code, state |-> state, began |-> began]

\* The state is consumed before anything else is looked at; the configuration
\* may be off, and a failure after a hit ends the request too.
CallbackInVain(state) ==
    /\ pending' = Popped(state)
    /\ UNCHANGED <<clock, slot, issuer, enabled, until, cache, opened, granted, boot>>

CallbackAtOnce(s, code, state) ==
    /\ enabled /\ state \in DOMAIN Live
    /\ \E c \in Hits(issuer) : Occupy(s, Exchange(issuer, c.doc, code, state, clock))
    /\ pending' = Popped(state)
    /\ UNCHANGED <<clock, issuer, enabled, until, cache, opened, granted, boot>>

BeginCallback(s, code, state) ==
    /\ enabled /\ state \in DOMAIN Live
    /\ Hits(issuer) = {}
    /\ Occupy(s, [kind |-> "callback", since |-> clock, issuer |-> issuer,
                  docs |-> {Version(issuer)}, code |-> code, state |-> state])
    /\ pending' = Popped(state)
    /\ UNCHANGED <<clock, issuer, enabled, until, cache, opened, granted, boot>>

BeginExchange(s) ==
    /\ slot[s].kind = "callback"
    /\ \E doc \in slot[s].docs :
          /\ Store(s, doc)
          /\ slot' = [slot EXCEPT ![s] = Exchange(slot[s].issuer, doc, slot[s].code,
                                                  slot[s].state, slot[s].since)]
    /\ UNCHANGED <<clock, issuer, enabled, until, pending, opened, granted, boot>>

\* The provider knows the code, and the token carries its nonce.
Accepted(request) ==
    /\ opened[request.code].issuer = request.issuer
    /\ request.code = request.state

Grant(s) ==
    /\ slot[s].kind = "token" /\ Accepted(slot[s])
    /\ granted' = Append(granted, [state |-> slot[s].state, code |-> slot[s].code,
                                   issuer |-> slot[s].issuer, began |-> slot[s].began,
                                   boot |-> boot])
    /\ Release(s)
    /\ UNCHANGED <<clock, issuer, enabled, until, cache, pending, opened, boot>>

\* A fetch or an exchange fails, or the token or the user is refused.
Fail(s) ==
    /\ Fetching(s) \/ slot[s].kind = "token"
    /\ Release(s)
    /\ UNCHANGED <<clock, oidc>>

OidcInit ==
    /\ issuer \in Issuers /\ enabled = FALSE
    /\ until = [i \in Issuers |-> <<>>]
    /\ cache = [i \in {} |-> NULL]
    /\ pending = [n \in {} |-> NULL]
    /\ opened = <<>> /\ granted = <<>> /\ boot = 1

OidcNext ==
    \/ Configure \/ LoginAtOnce
    \/ \E i \in Issuers : Replace(i)
    \/ \E state \in 1 .. MaxLogins : CallbackInVain(state)
    \/ \E s \in Slots :
          \/ BeginLogin(s) \/ EndLogin(s) \/ EndTest(s)
          \/ BeginExchange(s) \/ Grant(s) \/ Fail(s)
          \/ \E i \in Issuers : BeginTest(s, i)
          \/ \E code \in DOMAIN opened, state \in 1 .. MaxLogins :
                CallbackAtOnce(s, code, state) \/ BeginCallback(s, code, state)
=============================================================================
