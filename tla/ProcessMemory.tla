---------------------------- MODULE ProcessMemory ----------------------------
(***************************************************************************)
(* What one process keeps in memory about other servers: logins under way, *)
(* discovery documents, the last check for a release.  Its requests share  *)
(* the event loop, each waits for its server without a lock, and a restart *)
(* loses the memory together with the requests in flight.                  *)
(***************************************************************************)
EXTENDS OidcLogin, UpdateCheck

CONSTANT MaxBoots   \* bound of the model on starts of the process

vars == <<clock, slot, oidc, update>>

Restart ==
    /\ boot < MaxBoots
    /\ boot' = boot + 1
    /\ slot' = [s \in Slots |-> Free]
    /\ cache' = [i \in {} |-> NULL] /\ pending' = [n \in {} |-> NULL]
    /\ release' = FALSE /\ checkedAt' = NULL /\ checked' = NULL
    /\ UNCHANGED <<clock, issuer, enabled, until, opened, granted>>

Init ==
    /\ clock = 1 /\ slot = [s \in Slots |-> Free]
    /\ OidcInit /\ UpdateInit

Next ==
    \/ OidcNext   /\ UNCHANGED update
    \/ UpdateNext /\ UNCHANGED oidc
    \/ Tick       /\ UNCHANGED <<oidc, update>>
    \/ Restart

Spec == Init /\ [][Next]_vars

-----------------------------------------------------------------------------
Times == {t \in Time : t <= clock}
Docs  == Nat \ {0}

Requests ==
    {Free}
    \cup [kind : {"login", "test"}, since : Times, issuer : Issuers, docs : SUBSET Docs]
    \cup [kind : {"callback"}, since : Times, issuer : Issuers, docs : SUBSET Docs,
          code : DOMAIN opened, state : DOMAIN opened]
    \cup [kind : {"token"}, since : Times, issuer : Issuers, doc : Docs,
          code : DOMAIN opened, state : DOMAIN opened, began : Times]
    \cup [kind : {"check"}, since : Times]

(* The memory and its history have their types: times lie in the past,     *)
(* states and codes are those of logins that were opened.                  *)
TypeOK ==
    /\ clock \in Time /\ boot \in Nat
    /\ slot \in [Slots -> Requests]
    /\ issuer \in Issuers /\ enabled \in BOOLEAN
    /\ until \in [Issuers -> Seq(Times)]
    /\ DOMAIN cache \subseteq Issuers
    /\ cache \in [DOMAIN cache -> [doc : Docs, at : Times]]
    /\ DOMAIN pending \subseteq DOMAIN opened
    /\ pending \in [DOMAIN pending -> Times]
    /\ opened \in Seq([at : Times, issuer : Issuers, doc : Docs, boot : Nat])
    /\ granted \in Seq([state : DOMAIN opened, code : DOMAIN opened, issuer : Issuers,
                        began : Times, boot : Nat])
    /\ release \in BOOLEAN
    /\ checkedAt \in Times \cup {NULL} /\ checked \in Times \cup {NULL}

(* A session is given at most once for a login, to a callback that brought *)
(* the login's own state and code from the issuer it was sent to, began    *)
(* within the life of the state and in the process that made it.  About    *)
(* validate_state, across overlapping and repeated callbacks, swapped      *)
(* codes, a change of issuer and a restart.                                *)
StateUsedOnce ==
    /\ \A g \in DOMAIN granted :
          LET session == granted[g]
              login   == opened[session.state]
          IN /\ session.code = session.state
             /\ session.issuer = login.issuer
             /\ session.boot = login.boot
             /\ session.began - login.at <= StateTTL
    /\ \A g, h \in DOMAIN granted : granted[g].state = granted[h].state => g = h

\* Was doc the document of issuer i less than DocTTL before time t?
Fresh(i, doc, t) ==
    /\ doc <= Version(i)
    /\ doc < Version(i) => t - until[i][doc] < DocTTL

(* The endpoint a browser is sent to, and the one a code is sent to, come  *)
(* from a document the issuer served less than the cache's life ago, also  *)
(* when a slow fetch overwrites what a later one has stored.               *)
DocumentFresh ==
    /\ \A n \in DOMAIN opened : Fresh(opened[n].issuer, opened[n].doc, opened[n].at)
    /\ \A s \in Slots : slot[s].kind = "token" =>
          Fresh(slot[s].issuer, slot[s].doc, slot[s].since)

(* A check for a release starts only when the youngest one that has ended  *)
(* began longer ago than the life of the answer less the wait of a request *)
(* that was overtaken; a failed check counts like any other.               *)
ChecksSpaced ==
    [][\A s \in Slots : (IsFree(s) /\ slot'[s].kind = "check") =>
          checked = NULL \/ clock - checked > CheckTTL - Patience]_vars
=============================================================================
