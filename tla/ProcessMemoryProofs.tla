------------------------- MODULE ProcessMemoryProofs -------------------------
(***************************************************************************)
(* Proofs about ProcessMemory: for any number of requests, issuers, logins *)
(* and restarts, and any lives of states and documents, a state gives one  *)
(* session at most, no outdated discovery document is used, and checks for *)
(* a release keep their distance.                                          *)
(***************************************************************************)
EXTENDS ProcessMemory, TLAPS

(* A sequence with one more element.                                        *)
LEMMA AppendFacts ==
    ASSUME NEW S, NEW q \in Seq(S), NEW e \in S
    PROVE  /\ Len(q) \in Nat /\ Len(q) + 1 \notin DOMAIN q
           /\ DOMAIN Append(q, e) = DOMAIN q \cup {Len(q) + 1}
           /\ \A n \in DOMAIN q : Append(q, e)[n] = q[n]
           /\ Append(q, e)[Len(q) + 1] = e
<1>1. Len(q) \in Nat /\ DOMAIN q = 1 .. Len(q) /\ DOMAIN Append(q, e) = 1 .. Len(q) + 1
    OBVIOUS
<1>2. 1 .. Len(q) + 1 = 1 .. Len(q) \cup {Len(q) + 1} /\ Len(q) + 1 \notin 1 .. Len(q)
    BY <1>1
<1> QED BY <1>1, <1>2

(***************************************************************************)
(* Types.                                                                  *)
(***************************************************************************)

ProviderTypes ==
    /\ clock \in Time /\ boot \in Nat
    /\ issuer \in Issuers /\ enabled \in BOOLEAN
    /\ until \in [Issuers -> Seq(Times)]

MemoryTypes ==
    /\ DOMAIN cache \subseteq Issuers
    /\ cache \in [DOMAIN cache -> [doc : Docs, at : Times]]
    /\ DOMAIN pending \subseteq DOMAIN opened
    /\ pending \in [DOMAIN pending -> Times]

HistoryTypes ==
    /\ opened \in Seq([at : Times, issuer : Issuers, doc : Docs, boot : Nat])
    /\ granted \in Seq([state : DOMAIN opened, code : DOMAIN opened, issuer : Issuers,
                        began : Times, boot : Nat])

UpdateTypes ==
    /\ release \in BOOLEAN
    /\ checkedAt \in Times \cup {NULL} /\ checked \in Times \cup {NULL}

LEMMA TypeParts ==
    TypeOK <=> /\ ProviderTypes /\ MemoryTypes /\ HistoryTypes /\ UpdateTypes
               /\ slot \in [Slots -> Requests]
    BY DEF TypeOK, ProviderTypes, MemoryTypes, HistoryTypes, UpdateTypes

(* What has a type keeps it while the clock and the history grow.           *)
LEMMA RequestsGrow ==
    ASSUME clock \in Time, clock' \in Time, clock <= clock',
           DOMAIN opened \subseteq DOMAIN opened'
    PROVE  Times \subseteq Times' /\ Requests \subseteq Requests'
<1>1. Times \subseteq Times'
    BY DEF Times, Time
<1>2. Requests \subseteq Requests'
    BY <1>1 DEF Requests
<1> QED BY <1>1, <1>2

(* The clock does not go back, and no login leaves the history.             *)
LEMMA Forward ==
    ASSUME TypeOK, [Next]_vars
    PROVE  /\ clock' \in Time /\ clock <= clock'
           /\ Len(opened) <= Len(opened')
           /\ DOMAIN opened \subseteq DOMAIN opened'
           /\ \A n \in DOMAIN opened : opened'[n] = opened[n]
<1>1. CASE \E i \in Issuers : \E doc : GenerateState(i, doc) /\ UNCHANGED clock
    BY <1>1 DEF TypeOK, GenerateState, Time
<1>2. CASE UNCHANGED <<opened, clock>>
    BY <1>2 DEF TypeOK, Time
<1>3. CASE Tick /\ UNCHANGED opened
    <2>1. clock' \in Time /\ clock <= clock'
        BY <1>3 DEF TypeOK, Tick, Time, NULL
    <2>2. Len(opened) \in Nat
        BY DEF TypeOK
    <2> QED BY <1>3, <2>1, <2>2
<1>4. \/ \E i \in Issuers : \E doc : GenerateState(i, doc) /\ UNCHANGED clock
      \/ UNCHANGED <<opened, clock>>
      \/ Tick /\ UNCHANGED opened
    <2>1. CASE OidcNext /\ UNCHANGED update
        <3>1. CASE LoginAtOnce
            BY <3>1 DEF LoginAtOnce, TypeOK
        <3>2. ASSUME NEW s \in Slots, EndLogin(s)
              PROVE  \E i \in Issuers : \E doc : GenerateState(i, doc) /\ UNCHANGED clock
            BY <3>2 DEF EndLogin, TypeOK, Requests, Free
        <3>3. CASE \/ Configure \/ \E i \in Issuers : Replace(i)
                   \/ \E state \in 1 .. MaxLogins : CallbackInVain(state)
                   \/ \E s \in Slots :
                        \/ BeginLogin(s) \/ EndTest(s)
                        \/ BeginExchange(s) \/ Grant(s) \/ Fail(s)
                        \/ \E i \in Issuers : BeginTest(s, i)
                        \/ \E code \in DOMAIN opened, state \in 1 .. MaxLogins :
                              CallbackAtOnce(s, code, state) \/ BeginCallback(s, code, state)
            BY <3>3 DEF Configure, Replace, CallbackInVain, BeginLogin, EndTest, BeginExchange,
                        Grant, Fail, BeginTest, CallbackAtOnce, BeginCallback, oidc
        <3> QED BY <2>1, <3>1, <3>2, <3>3 DEF OidcNext
    <2>2. CASE UpdateNext /\ UNCHANGED oidc
        BY <2>2 DEF UpdateNext, BeginCheck, EndCheck, oidc
    <2>3. CASE Tick /\ UNCHANGED <<oidc, update>>
        BY <2>3 DEF oidc
    <2>4. CASE Restart \/ UNCHANGED vars
        BY <2>4 DEF Restart, vars, oidc
    <2> QED BY <2>1, <2>2, <2>3, <2>4 DEF Next
<1> QED BY <1>1, <1>2, <1>3, <1>4

(* What the parts of the state hold, for those who read them.               *)
LEMMA VersionType == ASSUME TypeOK, NEW i \in Issuers PROVE Version(i) \in Docs
    BY DEF TypeOK, Version, Docs

LEMMA HitType ==
    ASSUME TypeOK, NEW i, NEW c \in Hits(i)
    PROVE  /\ i \in DOMAIN cache /\ c = cache[i] /\ i \in Issuers
           /\ c.doc \in Docs /\ c.at \in Times /\ clock - c.at < DocTTL
    BY DEF TypeOK, Hits

LEMMA FetchType ==
    ASSUME TypeOK, NEW s \in Slots, Fetching(s)
    PROVE  /\ slot[s].since \in Times /\ slot[s].issuer \in Issuers
           /\ slot[s].docs \subseteq Docs
<1>1. slot[s] \in Requests
    BY DEF TypeOK
<1> QED BY <1>1 DEF Fetching, Requests, Free

LEMMA CallType ==
    ASSUME TypeOK, NEW s \in Slots, slot[s].kind \in {"callback", "token"}
    PROVE  /\ slot[s].since \in Times /\ slot[s].issuer \in Issuers
           /\ slot[s].code \in DOMAIN opened /\ slot[s].state \in DOMAIN opened
           /\ slot[s].kind = "token" => slot[s].doc \in Docs /\ slot[s].began \in Times
<1>1. slot[s] \in Requests
    BY DEF TypeOK
<1> QED BY <1>1 DEF Requests, Free

LEMMA CheckType ==
    ASSUME TypeOK, NEW s \in Slots, slot[s].kind # "free"
    PROVE  slot[s].since \in Times
<1>1. slot[s] \in Requests
    BY DEF TypeOK
<1> QED BY <1>1 DEF Requests, Free

LEMMA Element == ASSUME NEW S, NEW q \in Seq(S), NEW n \in DOMAIN q PROVE q[n] \in S
    OBVIOUS

LEMMA GrantType == ASSUME TypeOK, NEW g \in DOMAIN granted PROVE granted[g].state \in DOMAIN opened
<1> DEFINE Sessions == [state : DOMAIN opened, code : DOMAIN opened, issuer : Issuers,
                        began : Times, boot : Nat]
<1>1. granted[g] \in Sessions
    <2>1. granted \in Seq(Sessions)
        BY DEF TypeOK
    <2> HIDE DEF Sessions
    <2> QED BY <2>1, Element
<1> QED BY <1>1

LEMMA LiveType ==
    ASSUME TypeOK
    PROVE  /\ DOMAIN Live \subseteq DOMAIN pending
           /\ \A n \in DOMAIN Live : Live[n] = pending[n] /\ clock - pending[n] <= StateTTL
           /\ \A state : /\ DOMAIN Popped(state) = DOMAIN Live \ {state}
                         /\ \A n \in DOMAIN Popped(state) : Popped(state)[n] = pending[n]
    BY DEF Live, Popped, TypeOK

(* Every request that enters a slot has its type.                           *)
LEMMA SlotStep ==
    ASSUME TypeOK, [Next]_vars
    PROVE  slot' \in [Slots -> Requests']
<1>1. Requests \subseteq Requests' /\ Times \subseteq Times'
    BY Forward, RequestsGrow DEF TypeOK
<1>2. slot \in [Slots -> Requests] /\ clock \in Times /\ issuer \in Issuers
    BY DEF TypeOK, Times, Time
<1>3. ASSUME NEW s \in Slots, NEW r \in Requests \cup Requests', slot' = [slot EXCEPT ![s] = r]
      PROVE  slot' \in [Slots -> Requests']
    BY <1>1, <1>2, <1>3
<1>4. CASE UNCHANGED slot
    BY <1>1, <1>2, <1>4
<1>5. Free \in Requests
    BY DEF Requests
<1>6. ASSUME NEW i \in Issuers, NEW kind \in {"login", "test"}
      PROVE  [kind |-> kind, since |-> clock, issuer |-> i, docs |-> {Version(i)}] \in Requests
    BY <1>2, VersionType DEF Requests
<1>7. ASSUME NEW i \in Issuers, NEW doc \in Docs, NEW code \in DOMAIN opened,
             NEW state \in DOMAIN opened, NEW began \in Times
      PROVE  Exchange(i, doc, code, state, began) \in Requests
    BY <1>2 DEF Requests, Exchange
<1>8. ASSUME NEW i \in Issuers, Replace(i) PROVE slot' \in [Slots -> Requests']
    <2>1. Version(i) + 1 \in Docs
        BY VersionType DEF Docs
    <2>2. ASSUME NEW s \in Slots PROVE slot'[s] \in Requests
        <3>1. CASE Fetching(s) /\ slot[s].issuer = i
            <4>1. slot[s] \in Requests /\ slot[s].docs \cup {Version(i) + 1} \subseteq Docs
                BY <2>1, <3>1, FetchType, <1>2
            <4>2. slot'[s] = [slot[s] EXCEPT !.docs = @ \cup {Version(i) + 1}]
                BY <1>8, <3>1 DEF Replace
            <4> QED BY <3>1, <4>1, <4>2 DEF Fetching, Requests, Free
        <3>2. CASE ~(Fetching(s) /\ slot[s].issuer = i)
            BY <1>2, <1>8, <3>2 DEF Replace
        <3> QED BY <3>1, <3>2
    <2>3. slot' \in [Slots -> Requests]
        BY <1>8, <2>2 DEF Replace
    <2> QED BY <1>1, <2>3
<1>9. ASSUME NEW s \in Slots, BeginLogin(s) \/ EndLogin(s) \/ EndTest(s) \/ Grant(s) \/ Fail(s)
      PROVE  slot' \in [Slots -> Requests']
    BY <1>2, <1>3, <1>5, <1>6, <1>9 DEF BeginLogin, EndLogin, EndTest, Grant, Fail, Occupy, Release
<1>10. ASSUME NEW s \in Slots, NEW i \in Issuers, BeginTest(s, i)
       PROVE  slot' \in [Slots -> Requests']
    BY <1>3, <1>6, <1>10 DEF BeginTest, Occupy
<1>11. ASSUME NEW s \in Slots, BeginExchange(s) PROVE slot' \in [Slots -> Requests']
    <2>1. PICK doc \in slot[s].docs :
             slot' = [slot EXCEPT ![s] = Exchange(slot[s].issuer, doc, slot[s].code,
                                                  slot[s].state, slot[s].since)]
        BY <1>11 DEF BeginExchange
    <2>2. doc \in Docs /\ slot[s].issuer \in Issuers /\ slot[s].since \in Times
        BY <1>11, FetchType DEF BeginExchange, Fetching
    <2>3. slot[s].code \in DOMAIN opened /\ slot[s].state \in DOMAIN opened
        BY <1>11, CallType DEF BeginExchange
    <2> QED BY <1>3, <1>7, <2>1, <2>2, <2>3
<1>12. ASSUME NEW s \in Slots, NEW code \in DOMAIN opened, NEW state \in 1 .. MaxLogins,
              CallbackAtOnce(s, code, state) \/ BeginCallback(s, code, state)
       PROVE  slot' \in [Slots -> Requests']
    <2>1. state \in DOMAIN opened
        BY <1>12, LiveType DEF CallbackAtOnce, BeginCallback, TypeOK
    <2>2. CASE CallbackAtOnce(s, code, state)
        BY <1>2, <1>3, <1>7, <2>1, <2>2, HitType DEF CallbackAtOnce, Occupy
    <2>3. CASE BeginCallback(s, code, state)
        <3>1. [kind |-> "callback", since |-> clock, issuer |-> issuer,
               docs |-> {Version(issuer)}, code |-> code, state |-> state] \in Requests
            BY <1>2, <2>1, VersionType DEF Requests
        <3> QED BY <1>3, <2>3, <3>1 DEF BeginCallback, Occupy
    <2> QED BY <1>12, <2>2, <2>3
<1>13. ASSUME NEW s \in Slots, BeginCheck(s) \/ EndCheck(s)
       PROVE  slot' \in [Slots -> Requests']
    <2>1. [kind |-> "check", since |-> clock] \in Requests
        BY <1>2 DEF Requests
    <2> QED BY <1>3, <1>5, <1>13, <2>1 DEF BeginCheck, EndCheck, Occupy, Release
<1>14. CASE Restart
    BY <1>1, <1>5, <1>14 DEF Restart
<1>15. CASE \/ Configure \/ LoginAtOnce \/ Tick \/ UNCHANGED vars
            \/ \E state \in 1 .. MaxLogins : CallbackInVain(state)
    BY <1>4, <1>15 DEF Configure, LoginAtOnce, Tick, CallbackInVain, vars
<1> QED BY <1>8, <1>9, <1>10, <1>11, <1>12, <1>13, <1>14, <1>15
        DEF Next, OidcNext, UpdateNext

(* A document that is stored has its type, and so has a state that is made. *)
LEMMA StoreType ==
    ASSUME TypeOK, NEW s \in Slots, Fetching(s), NEW doc \in slot[s].docs, Store(s, doc)
    PROVE  /\ DOMAIN cache' \subseteq Issuers
           /\ cache' \in [DOMAIN cache' -> [doc : Docs, at : Times]]
<1>1. slot[s].issuer \in Issuers /\ doc \in Docs /\ slot[s].since \in Times
    BY FetchType
<1> QED BY <1>1 DEF Store, Put, TypeOK

LEMMA GenerateType ==
    ASSUME TypeOK, NEW i \in Issuers, NEW doc \in Docs, GenerateState(i, doc)
    PROVE  /\ opened' \in Seq([at : Times, issuer : Issuers, doc : Docs, boot : Nat])
           /\ DOMAIN pending' \subseteq DOMAIN opened'
           /\ pending' \in [DOMAIN pending' -> Times]
<1>1. clock \in Times /\ boot \in Nat
    BY DEF TypeOK, Times, Time
<1>2. opened' \in Seq([at : Times, issuer : Issuers, doc : Docs, boot : Nat])
    BY <1>1 DEF GenerateState, TypeOK
<1>3. DOMAIN opened' = DOMAIN opened \cup {Len(opened) + 1}
    <2> DEFINE login == [at |-> clock, issuer |-> i, doc |-> doc, boot |-> boot]
               Logins == [at : Times, issuer : Issuers, doc : Docs, boot : Nat]
    <2>1. opened \in Seq(Logins) /\ login \in Logins /\ opened' = Append(opened, login)
        BY <1>1 DEF GenerateState, TypeOK
    <2> QED BY <2>1, AppendFacts
<1>4. DOMAIN pending' = DOMAIN Live \cup {Len(opened) + 1}
    BY DEF GenerateState, Put
<1>5. \A n \in DOMAIN pending' : pending'[n] \in Times
    BY <1>1, LiveType DEF GenerateState, Put, TypeOK
<1>6. pending' = [n \in DOMAIN pending' |-> pending'[n]]
    BY DEF GenerateState, Put
<1> QED BY <1>2, <1>3, <1>4, <1>5, <1>6, LiveType DEF TypeOK

LEMMA SeqGrows == ASSUME NEW S, NEW T, S \subseteq T, NEW q \in Seq(S) PROVE q \in Seq(T)
    OBVIOUS

(* Each step keeps the types.                                               *)
LEMMA ProviderStep == ASSUME TypeOK, [Next]_vars PROVE ProviderTypes'
<1>1. clock' \in Time /\ Times \subseteq Times'
    BY Forward, RequestsGrow DEF TypeOK
<1>2. \A i \in Issuers : until[i] \in Seq(Times')
    BY <1>1, SeqGrows DEF TypeOK
<1>3. CASE UNCHANGED <<boot, issuer, enabled, until>>
    BY <1>1, <1>2, <1>3 DEF ProviderTypes, TypeOK
<1>4. ASSUME NEW i \in Issuers, Replace(i) PROVE ProviderTypes'
    <2>1. clock \in Times'
        BY <1>1, <1>4 DEF Replace, Times, Time, TypeOK
    <2>2. Append(until[i], clock) \in Seq(Times')
        BY <1>2, <2>1
    <2>3. until' = [until EXCEPT ![i] = Append(until[i], clock)]
        BY <1>4 DEF Replace
    <2>4. until' \in [Issuers -> Seq(Times')]
        BY <1>2, <2>2, <2>3 DEF TypeOK
    <2> QED BY <1>1, <1>4, <2>4 DEF Replace, ProviderTypes, TypeOK
<1>5. CASE Configure
    BY <1>1, <1>2, <1>5 DEF Configure, ProviderTypes, TypeOK
<1>6. CASE Restart
    BY <1>1, <1>2, <1>6 DEF Restart, ProviderTypes, TypeOK
<1> QED BY <1>3, <1>4, <1>5, <1>6
        DEF Next, OidcNext, LoginAtOnce, CallbackInVain, BeginLogin, EndLogin, EndTest,
            BeginExchange, Grant, Fail, BeginTest, CallbackAtOnce, BeginCallback, Tick, vars, oidc

(* The memory is changed by its own operations, or emptied by a restart.    *)
CacheType ==
    /\ DOMAIN cache \subseteq Issuers
    /\ cache \in [DOMAIN cache -> [doc : Docs, at : Times]]

PendingType ==
    /\ DOMAIN pending \subseteq DOMAIN opened
    /\ pending \in [DOMAIN pending -> Times]

LEMMA CacheStep == ASSUME TypeOK, [Next]_vars PROVE CacheType'
<1>1. Times \subseteq Times'
    BY Forward, RequestsGrow DEF TypeOK
<1>2. CASE UNCHANGED cache
    <2>1. cache \in [DOMAIN cache -> [doc : Docs, at : Times']]
        BY <1>1 DEF TypeOK
    <2> QED BY <1>2, <2>1 DEF CacheType, TypeOK
<1>3. ASSUME NEW s \in Slots, Fetching(s), NEW doc \in slot[s].docs, Store(s, doc)
      PROVE  CacheType'
    <2>1. cache' \in [DOMAIN cache' -> [doc : Docs, at : Times']]
        BY <1>1, <1>3, StoreType
    <2> QED BY <1>3, <2>1, StoreType DEF CacheType
<1>4. CASE Restart
    BY <1>4 DEF Restart, CacheType
<1> QED BY <1>2, <1>3, <1>4
        DEF Next, OidcNext, Configure, Replace, LoginAtOnce, CallbackInVain, BeginLogin, EndLogin,
            EndTest, BeginExchange, Grant, Fail, BeginTest, CallbackAtOnce, BeginCallback, Tick,
            UpdateNext, BeginCheck, EndCheck, Fetching, vars, oidc

LEMMA PendingStep == ASSUME TypeOK, [Next]_vars PROVE PendingType'
<1>1. Times \subseteq Times' /\ DOMAIN opened \subseteq DOMAIN opened'
    BY Forward, RequestsGrow DEF TypeOK
<1>2. CASE UNCHANGED pending
    <2>1. pending \in [DOMAIN pending -> Times']
        BY <1>1 DEF TypeOK
    <2> QED BY <1>1, <1>2, <2>1 DEF PendingType, TypeOK
<1>3. ASSUME NEW i \in Issuers, NEW doc \in Docs, GenerateState(i, doc) PROVE PendingType'
    <2>1. pending' \in [DOMAIN pending' -> Times']
        BY <1>1, <1>3, GenerateType
    <2> QED BY <1>3, <2>1, GenerateType DEF PendingType
<1>4. ASSUME NEW state, pending' = Popped(state) PROVE PendingType'
    <2>1. \A n \in DOMAIN pending' : pending'[n] \in Times'
        BY <1>1, <1>4, LiveType DEF TypeOK
    <2>2. pending' = [n \in DOMAIN pending' |-> pending'[n]]
        BY <1>4 DEF Popped
    <2> QED BY <1>1, <1>4, <2>1, <2>2, LiveType DEF PendingType, TypeOK
<1>5. CASE LoginAtOnce
    BY <1>3, <1>5, HitType DEF LoginAtOnce
<1>6. ASSUME NEW s \in Slots, EndLogin(s) PROVE PendingType'
    BY <1>3, <1>6, FetchType DEF EndLogin, Fetching
<1>7. CASE Restart
    BY <1>7 DEF Restart, PendingType
<1> QED BY <1>2, <1>4, <1>5, <1>6, <1>7
        DEF Next, OidcNext, Configure, Replace, CallbackInVain, BeginLogin,
            EndTest, BeginExchange, Grant, Fail, BeginTest, CallbackAtOnce, BeginCallback, Tick,
            UpdateNext, BeginCheck, EndCheck, vars, oidc

LEMMA OpenedStep ==
    ASSUME TypeOK, [Next]_vars
    PROVE  opened' \in Seq([at : Times', issuer : Issuers, doc : Docs, boot : Nat])
<1> DEFINE Logins == [at : Times, issuer : Issuers, doc : Docs, boot : Nat]
           Later  == [at : Times', issuer : Issuers, doc : Docs, boot : Nat]
<1>1. Logins \subseteq Later
    BY Forward, RequestsGrow DEF TypeOK
<1>2. opened' \in Seq(Logins)
    <2>1. opened \in Seq(Logins)
        BY DEF TypeOK
    <2>2. CASE UNCHANGED opened
        BY <2>1, <2>2
    <2>3. ASSUME NEW i \in Issuers, NEW doc \in Docs, GenerateState(i, doc)
          PROVE  opened' \in Seq(Logins)
        BY <2>3, GenerateType
    <2>4. CASE LoginAtOnce
        BY <2>3, <2>4, HitType DEF LoginAtOnce
    <2>5. ASSUME NEW s \in Slots, EndLogin(s) PROVE opened' \in Seq(Logins)
        BY <2>3, <2>5, FetchType DEF EndLogin, Fetching
    <2> HIDE DEF Logins
    <2> QED BY <2>2, <2>4, <2>5
            DEF Next, OidcNext, Configure, Replace, CallbackInVain, BeginLogin,
                EndTest, BeginExchange, Grant, Fail, BeginTest, CallbackAtOnce, BeginCallback,
                Tick, UpdateNext, Restart, vars, oidc
<1> HIDE DEF Logins, Later
<1>3. opened' \in Seq(Later)
    BY <1>1, <1>2, SeqGrows
<1> QED BY <1>3 DEF Later

LEMMA GrantedStep ==
    ASSUME TypeOK, [Next]_vars
    PROVE  granted' \in Seq([state : DOMAIN opened', code : DOMAIN opened', issuer : Issuers,
                             began : Times', boot : Nat])
<1> DEFINE Sessions == [state : DOMAIN opened, code : DOMAIN opened, issuer : Issuers,
                        began : Times, boot : Nat]
           Later    == [state : DOMAIN opened', code : DOMAIN opened', issuer : Issuers,
                        began : Times', boot : Nat]
<1>1. Sessions \subseteq Later
    BY Forward, RequestsGrow DEF TypeOK
<1>2. granted \in Seq(Sessions)
    BY DEF TypeOK
<1>3. CASE UNCHANGED granted
    <2> HIDE DEF Sessions, Later
    <2>1. granted' \in Seq(Later)
        BY <1>1, <1>2, <1>3, SeqGrows
    <2> QED BY <2>1 DEF Later
<1>4. ASSUME NEW s \in Slots, Grant(s) PROVE granted' \in Seq(Later)
    <2>1. PICK session \in Sessions : granted' = Append(granted, session)
        BY <1>4, CallType DEF Grant, TypeOK
    <2>2. granted' \in Seq(Sessions)
        BY <1>2, <2>1
    <2> HIDE DEF Sessions, Later
    <2> QED BY <1>1, <2>2, SeqGrows
<1> QED BY <1>3, <1>4
        DEF Next, OidcNext, Configure, Replace, LoginAtOnce, CallbackInVain, BeginLogin, EndLogin,
            EndTest, BeginExchange, Fail, BeginTest, CallbackAtOnce, BeginCallback,
            Tick, UpdateNext, Restart, vars, oidc

LEMMA UpdateStep == ASSUME TypeOK, [Next]_vars PROVE UpdateTypes'
<1>1. Times \subseteq Times'
    BY Forward, RequestsGrow DEF TypeOK
<1>2. CASE UNCHANGED update
    BY <1>1, <1>2 DEF UpdateTypes, TypeOK, update
<1>3. ASSUME NEW s \in Slots, EndCheck(s) PROVE UpdateTypes'
    <2>1. slot[s].since \in Times'
        BY <1>1, <1>3, CheckType DEF EndCheck
    <2> QED BY <1>1, <1>3, <2>1 DEF EndCheck, Stamp, Ended, UpdateTypes, TypeOK
<1>4. CASE Restart
    BY <1>4 DEF Restart, UpdateTypes
<1> QED BY <1>2, <1>3, <1>4 DEF Next, UpdateNext, BeginCheck, vars

LEMMA TypeStep == TypeOK /\ [Next]_vars => TypeOK'
<1> SUFFICES ASSUME TypeOK, [Next]_vars PROVE TypeOK'
    OBVIOUS
<1>1. (DOMAIN opened)' = DOMAIN opened'
    OBVIOUS
<1>2. HistoryTypes' /\ MemoryTypes'
    BY OpenedStep, GrantedStep, CacheStep, PendingStep
       DEF HistoryTypes, MemoryTypes, CacheType, PendingType
<1>3. (TypeOK <=> /\ ProviderTypes /\ MemoryTypes /\ HistoryTypes /\ UpdateTypes
                  /\ slot \in [Slots -> Requests])'
    BY DEF TypeOK, ProviderTypes, MemoryTypes, HistoryTypes, UpdateTypes
<1> QED BY <1>2, <1>3, ProviderStep, UpdateStep, SlotStep

(* Theorem: the memory and its history have their types in every reachable  *)
(* state.  About the caches of oidc.py and update_check.py.                 *)
THEOREM TypeCorrect == Spec => []TypeOK
<1>1. Init => TypeOK
    <2> SUFFICES ASSUME Init PROVE TypeOK
        OBVIOUS
    <2>1. ProviderTypes /\ UpdateTypes
        <3>1. UpdateTypes
            BY DEF Init, UpdateInit, UpdateTypes
        <3>2. <<>> \in Seq(Times)
            OBVIOUS
        <3>3. until \in [Issuers -> Seq(Times)]
            BY <3>2 DEF Init, OidcInit
        <3>4. clock \in Time /\ boot \in Nat
            BY DEF Init, OidcInit, Time, NULL
        <3> QED BY <3>1, <3>3, <3>4 DEF Init, OidcInit, ProviderTypes
    <2>2. MemoryTypes
        BY DEF Init, OidcInit, MemoryTypes
    <2>3. HistoryTypes
        BY DEF Init, OidcInit, HistoryTypes
    <2>4. slot \in [Slots -> Requests]
        BY DEF Init, Requests
    <2> QED BY <2>1, <2>2, <2>3, <2>4, TypeParts
<1>2. TypeOK /\ [Next]_vars => TypeOK'
    BY TypeStep
<1> QED BY <1>1, <1>2, PTL DEF Spec

(***************************************************************************)
(* A state gives one session: it is pending, or held by one callback, or   *)
(* spent on one session, or lost, and it never comes back.                 *)
(***************************************************************************)

Calling(s) == slot[s].kind \in {"callback", "token"}
Began(s)   == IF slot[s].kind = "callback" THEN slot[s].since ELSE slot[s].began

PendingIsYoung ==
    \A n \in DOMAIN pending : pending[n] = opened[n].at /\ opened[n].boot = boot

CallHoldsState ==
    \A s \in Slots : Calling(s) =>
        /\ slot[s].state \notin DOMAIN pending
        /\ opened[slot[s].state].boot = boot
        /\ Began(s) - opened[slot[s].state].at <= StateTTL

OneCallPerState ==
    \A s, t \in Slots : Calling(s) /\ Calling(t) /\ slot[s].state = slot[t].state => s = t

SpentIsGone ==
    \A g \in DOMAIN granted :
        /\ granted[g].state \notin DOMAIN pending
        /\ \A s \in Slots : Calling(s) => slot[s].state # granted[g].state

StateInv ==
    PendingIsYoung /\ CallHoldsState /\ OneCallPerState /\ SpentIsGone /\ StateUsedOnce

(* Steps that neither make a state, nor take one, nor spend one.            *)
LEMMA QuietStep ==
    ASSUME TypeOK, StateInv, UNCHANGED <<opened, granted, boot>>,
           DOMAIN pending' \subseteq DOMAIN pending,
           \A n \in DOMAIN pending' : pending'[n] = pending[n],
           \A s \in Slots : Calling(s)' => /\ Calling(s) /\ slot'[s].state = slot[s].state
                                          /\ Began(s)' = Began(s)
    PROVE  StateInv'
<1>1. PendingIsYoung'
    BY DEF StateInv, PendingIsYoung
<1>2. CallHoldsState'
    BY DEF StateInv, CallHoldsState
<1>3. OneCallPerState'
    BY DEF StateInv, OneCallPerState
<1>4. SpentIsGone'
    BY DEF StateInv, SpentIsGone
<1>5. StateUsedOnce'
    BY DEF StateInv, StateUsedOnce
<1> QED BY <1>1, <1>2, <1>3, <1>4, <1>5 DEF StateInv

(* A new login: its state is new.                                           *)
LEMMA LoginStep ==
    ASSUME TypeOK, StateInv, NEW i \in Issuers, NEW doc \in Docs, GenerateState(i, doc),
           UNCHANGED <<granted, boot>>,
           \A s \in Slots : Calling(s)' => /\ Calling(s) /\ slot'[s] = slot[s]
    PROVE  StateInv'
<1> DEFINE new == Len(opened) + 1
<1>1. /\ new \notin DOMAIN opened /\ DOMAIN opened' = DOMAIN opened \cup {new}
      /\ \A n \in DOMAIN opened : opened'[n] = opened[n]
      /\ opened'[new].at = clock /\ opened'[new].boot = boot
    <2> DEFINE login == [at |-> clock, issuer |-> i, doc |-> doc, boot |-> boot]
               Logins == [at : Times, issuer : Issuers, doc : Docs, boot : Nat]
    <2>1. opened \in Seq(Logins) /\ login \in Logins /\ opened' = Append(opened, login)
        BY DEF GenerateState, TypeOK, Times, Time
    <2> QED BY <2>1, AppendFacts
<1>2. /\ DOMAIN pending' = DOMAIN Live \cup {new} /\ pending'[new] = clock
      /\ \A n \in DOMAIN Live : pending'[n] = pending[n]
    BY <1>1, LiveType DEF GenerateState, Put, TypeOK
<1>3. DOMAIN Live \subseteq DOMAIN pending /\ DOMAIN pending \subseteq DOMAIN opened
    BY LiveType DEF TypeOK
<1>4. \A s \in Slots : Calling(s) => slot[s].state \in DOMAIN opened
    BY CallType DEF Calling
<1>5. \A g \in DOMAIN granted : granted[g].state \in DOMAIN opened
    BY GrantType
<1>6. PendingIsYoung'
    BY <1>1, <1>2, <1>3 DEF StateInv, PendingIsYoung
<1>7. CallHoldsState'
    BY <1>1, <1>2, <1>3, <1>4 DEF StateInv, CallHoldsState, Calling, Began
<1>8. OneCallPerState'
    BY DEF StateInv, OneCallPerState, Calling
<1>9. SpentIsGone'
    BY <1>1, <1>2, <1>3, <1>5 DEF StateInv, SpentIsGone, Calling
<1>10. StateUsedOnce'
    BY <1>1, <1>5 DEF StateInv, StateUsedOnce
<1> HIDE DEF new
<1> QED BY <1>6, <1>7, <1>8, <1>9, <1>10 DEF StateInv

(* A callback takes the state out of the pending ones and holds it.         *)
LEMMA CallbackStep ==
    ASSUME TypeOK, StateInv, NEW s \in Slots, NEW state \in DOMAIN Live, pending' = Popped(state),
           slot' = [slot EXCEPT ![s] = slot'[s]],
           Calling(s)', slot'[s].state = state, Began(s)' = clock,
           UNCHANGED <<opened, granted, boot>>
    PROVE  StateInv'
<1>1. state \in DOMAIN pending /\ clock - pending[state] <= StateTTL
    BY LiveType
<1>2. /\ DOMAIN pending' \subseteq DOMAIN pending \ {state}
      /\ \A n \in DOMAIN pending' : pending'[n] = pending[n]
    BY LiveType
<1>3. \A t \in Slots \ {s} : slot'[t] = slot[t]
    BY DEF TypeOK
<1>4. PendingIsYoung'
    BY <1>2 DEF StateInv, PendingIsYoung
<1>5. CallHoldsState'
    BY <1>1, <1>2, <1>3 DEF StateInv, CallHoldsState, PendingIsYoung, Calling, Began
<1>6. OneCallPerState'
    BY <1>1, <1>3 DEF StateInv, OneCallPerState, CallHoldsState, Calling
<1>7. SpentIsGone'
    BY <1>1, <1>2, <1>3 DEF StateInv, SpentIsGone, Calling
<1>8. StateUsedOnce'
    BY DEF StateInv, StateUsedOnce
<1> QED BY <1>4, <1>5, <1>6, <1>7, <1>8 DEF StateInv

(* A session spends the state its callback holds.                           *)
LEMMA GrantStep ==
    ASSUME TypeOK, StateInv, NEW s \in Slots, Grant(s)
    PROVE  StateInv'
<1> DEFINE session == [state |-> slot[s].state, code |-> slot[s].code,
                       issuer |-> slot[s].issuer, began |-> slot[s].began, boot |-> boot]
           new == Len(granted) + 1
<1>1. slot[s].kind = "token" /\ Accepted(slot[s]) /\ Calling(s) /\ Began(s) = slot[s].began
    BY DEF Grant, Calling, Began
<1>2. /\ new \notin DOMAIN granted /\ DOMAIN granted' = DOMAIN granted \cup {new}
      /\ \A g \in DOMAIN granted : granted'[g] = granted[g]
      /\ granted'[new] = session
    <2> DEFINE Sessions == [state : DOMAIN opened, code : DOMAIN opened, issuer : Issuers,
                            began : Times, boot : Nat]
    <2>1. granted \in Seq(Sessions) /\ session \in Sessions /\ granted' = Append(granted, session)
        BY <1>1, CallType DEF Grant, TypeOK
    <2> QED BY <2>1, AppendFacts
<1>3. /\ slot'[s] = Free /\ \A t \in Slots \ {s} : slot'[t] = slot[t]
    BY DEF Grant, Release, TypeOK
<1>4. UNCHANGED <<pending, opened, boot>>
    BY DEF Grant
<1>5. \A t \in Slots : Calling(t)' => t # s /\ Calling(t) /\ slot'[t] = slot[t]
    BY <1>3 DEF Calling, Free
<1>6. PendingIsYoung'
    BY <1>4 DEF StateInv, PendingIsYoung
<1>7. CallHoldsState'
    BY <1>4, <1>5 DEF StateInv, CallHoldsState, Began
<1>8. OneCallPerState'
    BY <1>5 DEF StateInv, OneCallPerState
<1>9. SpentIsGone'
    BY <1>1, <1>2, <1>4, <1>5 DEF StateInv, SpentIsGone, CallHoldsState, OneCallPerState
<1>10. StateUsedOnce'
    <2>1. /\ session.code = session.state
          /\ session.issuer = opened[session.state].issuer
          /\ session.boot = opened[session.state].boot
          /\ session.began - opened[session.state].at <= StateTTL
        BY <1>1 DEF StateInv, CallHoldsState, Accepted
    <2>2. \A g \in DOMAIN granted : granted[g].state # session.state
        BY <1>1 DEF StateInv, SpentIsGone
    <2> HIDE DEF session, new
    <2> QED BY <1>2, <1>4, <2>1, <2>2 DEF StateInv, StateUsedOnce
<1> HIDE DEF session, new
<1> QED BY <1>6, <1>7, <1>8, <1>9, <1>10 DEF StateInv

(* Every step keeps the states apart.                                       *)
LEMMA StateStep == TypeOK /\ StateInv /\ [Next]_vars => StateInv'
<1> SUFFICES ASSUME TypeOK, StateInv, [Next]_vars PROVE StateInv'
    OBVIOUS
<1>1. ASSUME UNCHANGED <<opened, granted, boot>>,
             UNCHANGED pending \/ \E state : pending' = Popped(state),
             \A s \in Slots : Calling(s)' => /\ Calling(s) /\ slot'[s].state = slot[s].state
                                            /\ Began(s)' = Began(s)
      PROVE  StateInv'
    <2>1. CASE UNCHANGED pending
        BY <1>1, <2>1, QuietStep
    <2>2. ASSUME NEW state, pending' = Popped(state) PROVE StateInv'
        <3>1. /\ DOMAIN pending' \subseteq DOMAIN pending
              /\ \A n \in DOMAIN pending' : pending'[n] = pending[n]
            BY <2>2, LiveType
        <3> QED BY <1>1, <3>1, QuietStep
    <2> QED BY <1>1, <2>1, <2>2
<1>2. ASSUME UNCHANGED slot
      PROVE  \A s \in Slots : Calling(s)' => /\ Calling(s) /\ slot'[s] = slot[s]
                                            /\ Began(s)' = Began(s)
    BY <1>2 DEF Calling, Began
<1>3. ASSUME NEW s \in Slots, NEW r, slot' = [slot EXCEPT ![s] = r],
             r.kind \notin {"callback", "token"}
      PROVE  \A t \in Slots : Calling(t)' => /\ Calling(t) /\ slot'[t] = slot[t]
                                            /\ Began(t)' = Began(t)
    BY <1>3 DEF Calling, Began, TypeOK
<1>4. CASE Configure \/ (UNCHANGED vars)
    BY <1>1, <1>2, <1>4 DEF Configure, vars, oidc
<1>5. CASE Tick /\ UNCHANGED oidc
    BY <1>1, <1>2, <1>5 DEF Tick, oidc
<1>6. ASSUME NEW state, CallbackInVain(state) PROVE StateInv'
    BY <1>1, <1>2, <1>6 DEF CallbackInVain
<1>7. ASSUME NEW i \in Issuers, Replace(i) PROVE StateInv'
    <2>1. \A s \in Slots : Calling(s)' => /\ Calling(s) /\ slot'[s].state = slot[s].state
                                         /\ Began(s)' = Began(s)
        <3>1. ASSUME NEW s \in Slots, Fetching(s), slot[s].issuer = i
              PROVE  /\ slot'[s].kind = slot[s].kind /\ slot'[s].since = slot[s].since
                     /\ slot[s].kind = "callback" => slot'[s].state = slot[s].state
            <4>1. slot[s] \in Requests
                BY DEF TypeOK
            <4>2. slot'[s] = [slot[s] EXCEPT !.docs = @ \cup {Version(i) + 1}]
                BY <1>7, <3>1 DEF Replace
            <4> QED BY <3>1, <4>1, <4>2 DEF Requests, Free, Fetching
        <3>2. ASSUME NEW s \in Slots, ~(Fetching(s) /\ slot[s].issuer = i)
              PROVE  slot'[s] = slot[s]
            BY <1>7, <3>2 DEF Replace
        <3> QED BY <3>1, <3>2 DEF Calling, Began, Fetching
    <2> QED BY <1>1, <1>7, <2>1 DEF Replace
<1>8. CASE LoginAtOnce
    BY <1>2, <1>8, LoginStep, HitType DEF LoginAtOnce
<1>9. ASSUME NEW s \in Slots, BeginLogin(s) PROVE StateInv'
    BY <1>1, <1>3, <1>9 DEF BeginLogin, Occupy, oidc
<1>10. ASSUME NEW s \in Slots, EndLogin(s) PROVE StateInv'
    <2>1. \A t \in Slots : Calling(t)' => Calling(t) /\ slot'[t] = slot[t]
        BY <1>3, <1>10 DEF EndLogin, Release, Free
    <2>2. PICK doc \in slot[s].docs : GenerateState(slot[s].issuer, doc)
        BY <1>10 DEF EndLogin
    <2>3. doc \in Docs /\ slot[s].issuer \in Issuers
        BY <1>10, FetchType DEF EndLogin, Fetching
    <2> QED BY <1>10, <2>1, <2>2, <2>3, LoginStep DEF EndLogin
<1>11. ASSUME NEW s \in Slots, NEW i \in Issuers, BeginTest(s, i) PROVE StateInv'
    BY <1>1, <1>3, <1>11 DEF BeginTest, Occupy, oidc
<1>12. ASSUME NEW s \in Slots, EndTest(s) \/ Fail(s) PROVE StateInv'
    BY <1>1, <1>3, <1>12 DEF EndTest, Fail, Release, Free, oidc
<1>13. ASSUME NEW s \in Slots, NEW code, NEW state,
              CallbackAtOnce(s, code, state) \/ BeginCallback(s, code, state)
       PROVE  StateInv'
    <2>1. /\ state \in DOMAIN Live /\ pending' = Popped(state)
          /\ UNCHANGED <<opened, granted, boot>>
        BY <1>13 DEF CallbackAtOnce, BeginCallback
    <2>2. CASE CallbackAtOnce(s, code, state)
        <3>1. PICK doc : slot' = [slot EXCEPT ![s] = Exchange(issuer, doc, code, state, clock)]
            BY <2>2 DEF CallbackAtOnce, Occupy
        <3>2. slot'[s] = Exchange(issuer, doc, code, state, clock)
            BY <3>1 DEF TypeOK
        <3>3. Calling(s)' /\ slot'[s].state = state /\ Began(s)' = clock
            BY <3>2 DEF Exchange, Calling, Began
        <3> QED BY <2>1, <3>1, <3>2, <3>3, CallbackStep
    <2>3. CASE BeginCallback(s, code, state)
        <3> DEFINE request == [kind |-> "callback", since |-> clock, issuer |-> issuer,
                               docs |-> {Version(issuer)}, code |-> code, state |-> state]
        <3>1. slot' = [slot EXCEPT ![s] = request]
            BY <2>3 DEF BeginCallback, Occupy
        <3>2. slot'[s] = request
            BY <3>1 DEF TypeOK
        <3>3. Calling(s)' /\ slot'[s].state = state /\ Began(s)' = clock
            BY <3>2 DEF Calling, Began
        <3> HIDE DEF request
        <3> QED BY <2>1, <3>1, <3>2, <3>3, CallbackStep
    <2> QED BY <1>13, <2>2, <2>3
<1>14. ASSUME NEW s \in Slots, BeginExchange(s) PROVE StateInv'
    <2>1. PICK doc : slot' = [slot EXCEPT ![s] = Exchange(slot[s].issuer, doc, slot[s].code,
                                                          slot[s].state, slot[s].since)]
        BY <1>14 DEF BeginExchange
    <2>2. \A t \in Slots : Calling(t)' => /\ Calling(t) /\ slot'[t].state = slot[t].state
                                         /\ Began(t)' = Began(t)
        BY <1>14, <2>1 DEF BeginExchange, Exchange, Calling, Began, TypeOK
    <2> QED BY <1>1, <1>14, <2>2 DEF BeginExchange
<1>15. ASSUME NEW s \in Slots, Grant(s) PROVE StateInv'
    BY <1>15, GrantStep
<1>16. ASSUME NEW s \in Slots, BeginCheck(s) \/ EndCheck(s), UNCHANGED oidc PROVE StateInv'
    BY <1>1, <1>3, <1>16 DEF BeginCheck, EndCheck, Occupy, Release, Free, oidc
<1>17. CASE Restart
    <2>1. DOMAIN pending' = {} /\ UNCHANGED <<opened, granted>>
        BY <1>17 DEF Restart
    <2>2. \A s \in Slots : ~Calling(s)'
        BY <1>17 DEF Restart, Calling, Free
    <2>3. StateUsedOnce'
        BY <2>1 DEF StateInv, StateUsedOnce
    <2> QED BY <2>1, <2>2, <2>3
            DEF StateInv, PendingIsYoung, CallHoldsState, OneCallPerState, SpentIsGone
<1> QED BY <1>4, <1>5, <1>6, <1>7, <1>8, <1>9, <1>10, <1>11, <1>12, <1>13, <1>14, <1>15,
           <1>16, <1>17 DEF Next, OidcNext, UpdateNext

(* Theorem: a login gives at most one session, to its own state and code,   *)
(* from its issuer, in time and in the process that made it.  About         *)
(* validate_state and oidc_callback.                                        *)
THEOREM StateIsUsedOnce == Spec => []StateUsedOnce
<1>1. Init => StateInv
    BY DEF Init, OidcInit, StateInv, PendingIsYoung, CallHoldsState, OneCallPerState,
           SpentIsGone, StateUsedOnce, Calling, Free
<1>2. TypeOK /\ StateInv /\ [Next]_vars => StateInv'
    BY StateStep
<1>3. StateInv => StateUsedOnce
    BY DEF StateInv
<1> QED BY <1>1, <1>2, <1>3, TypeCorrect, PTL DEF Spec

(***************************************************************************)
(* What a step may put where.  A document is known from the cache, while   *)
(* it is young enough, or from the answer to a request under way.          *)
(***************************************************************************)

Known(i, doc) ==
    \/ \E c \in Hits(i) : doc = c.doc
    \/ \E s \in Slots : Fetching(s) /\ slot[s].issuer = i /\ doc \in slot[s].docs

Asks(request) ==
    /\ request.kind \in {"login", "test", "callback"} /\ request.since = clock
    /\ request.issuer \in Issuers /\ request.docs = {Version(request.issuer)}

Exchanges(request) ==
    /\ request.kind = "token" /\ request.since = clock
    /\ request.issuer \in Issuers /\ Known(request.issuer, request.doc)

Checks(request) == request.kind = "check" /\ request.since = clock /\ Outdated

Learns(s) ==
    \E i \in Issuers :
        /\ Replace(i) /\ Fetching(s) /\ slot[s].issuer = i
        /\ slot'[s] = [slot[s] EXCEPT !.docs = @ \cup {Version(i) + 1}]

LEMMA SlotMoves ==
    ASSUME TypeOK, [Next]_vars, NEW s \in Slots, slot'[s] # slot[s]
    PROVE  /\ UNCHANGED clock
           /\ \/ slot'[s] = Free \/ Asks(slot'[s]) \/ Exchanges(slot'[s])
              \/ Learns(s) \/ (Checks(slot'[s]) /\ IsFree(s))
<1> DEFINE Goal == /\ UNCHANGED clock
                   /\ \/ slot'[s] = Free \/ Asks(slot'[s]) \/ Exchanges(slot'[s])
                      \/ Learns(s) \/ (Checks(slot'[s]) /\ IsFree(s))
<1>1. ASSUME NEW t \in Slots, NEW r, slot' = [slot EXCEPT ![t] = r]
      PROVE  t = s /\ slot'[s] = r
    BY <1>1 DEF TypeOK
<1>2. issuer \in Issuers /\ slot \in [Slots -> Requests]
    BY DEF TypeOK
<1>3. CASE Configure \/ LoginAtOnce \/ Tick \/ UNCHANGED vars \/ \E state : CallbackInVain(state)
    BY <1>3 DEF Configure, LoginAtOnce, Tick, CallbackInVain, vars
<1>4. ASSUME NEW i \in Issuers, Replace(i) PROVE Goal
    <2>1. /\ Fetching(s) /\ slot[s].issuer = i
          /\ slot'[s] = [slot[s] EXCEPT !.docs = @ \cup {Version(i) + 1}]
        BY <1>4 DEF Replace
    <2> QED BY <1>4, <2>1 DEF Replace, Learns
<1>5. ASSUME NEW t \in Slots, BeginLogin(t) PROVE Goal
    BY <1>1, <1>2, <1>5 DEF BeginLogin, Occupy, Asks
<1>6. ASSUME NEW t \in Slots, NEW i \in Issuers, BeginTest(t, i) PROVE Goal
    BY <1>1, <1>6 DEF BeginTest, Occupy, Asks
<1>7. ASSUME NEW t \in Slots, EndLogin(t) \/ EndTest(t) \/ Grant(t) \/ Fail(t) \/ EndCheck(t)
      PROVE  Goal
    BY <1>1, <1>7 DEF EndLogin, EndTest, Grant, Fail, EndCheck, Release
<1>8. ASSUME NEW t \in Slots, BeginExchange(t) PROVE Goal
    <2>1. PICK doc \in slot[t].docs :
             slot' = [slot EXCEPT ![t] = Exchange(slot[t].issuer, doc, slot[t].code,
                                                  slot[t].state, slot[t].since)]
        BY <1>8 DEF BeginExchange
    <2>2. t = s /\ Fetching(s) /\ slot[s].issuer \in Issuers
        BY <1>1, <1>8, <2>1, FetchType DEF BeginExchange, Fetching
    <2>3. slot'[s] = Exchange(slot[s].issuer, doc, slot[s].code, slot[s].state, slot[s].since)
        BY <1>1, <2>1, <2>2
    <2>4. Exchanges(slot'[s])
        BY <2>1, <2>2, <2>3 DEF Exchanges, Exchange, Known
    <2> QED BY <1>8, <2>4 DEF BeginExchange
<1>9. ASSUME NEW t \in Slots, NEW code, NEW state, CallbackAtOnce(t, code, state) PROVE Goal
    <2>1. PICK c \in Hits(issuer) :
             slot' = [slot EXCEPT ![t] = Exchange(issuer, c.doc, code, state, clock)]
        BY <1>9 DEF CallbackAtOnce, Occupy
    <2>2. slot'[s] = Exchange(issuer, c.doc, code, state, clock)
        BY <1>1, <2>1
    <2>3. Exchanges(slot'[s])
        BY <1>2, <2>1, <2>2 DEF Exchanges, Exchange, Known
    <2> QED BY <1>9, <2>3 DEF CallbackAtOnce
<1>10. ASSUME NEW t \in Slots, NEW code, NEW state, BeginCallback(t, code, state) PROVE Goal
    BY <1>1, <1>2, <1>10 DEF BeginCallback, Occupy, Asks
<1>11. ASSUME NEW t \in Slots, BeginCheck(t) PROVE Goal
    BY <1>1, <1>11 DEF BeginCheck, Occupy, Checks, IsFree
<1>12. CASE Restart
    BY <1>12 DEF Restart
<1> QED BY <1>3, <1>4, <1>5, <1>6, <1>7, <1>8, <1>9, <1>10, <1>11, <1>12
        DEF Next, OidcNext, UpdateNext

LEMMA OpenedMoves ==
    ASSUME TypeOK, [Next]_vars
    PROVE  \/ UNCHANGED opened
           \/ \E i \in Issuers : \E doc \in Docs : Known(i, doc) /\ GenerateState(i, doc)
<1>1. CASE LoginAtOnce
    BY <1>1, HitType DEF LoginAtOnce, Known
<1>2. ASSUME NEW s \in Slots, EndLogin(s)
      PROVE  \E i \in Issuers : \E doc \in Docs : Known(i, doc) /\ GenerateState(i, doc)
    <2>1. PICK doc \in slot[s].docs : GenerateState(slot[s].issuer, doc)
        BY <1>2 DEF EndLogin
    <2>2. Fetching(s) /\ slot[s].issuer \in Issuers /\ doc \in Docs
        BY <1>2, FetchType DEF EndLogin, Fetching
    <2> QED BY <2>1, <2>2 DEF Known
<1> QED BY <1>1, <1>2
        DEF Next, OidcNext, UpdateNext, Configure, Replace, CallbackInVain, BeginLogin, EndTest,
            BeginExchange, Grant, Fail, BeginTest, CallbackAtOnce, BeginCallback, Tick, Restart,
            vars, oidc

LEMMA CacheMoves ==
    ASSUME TypeOK, [Next]_vars
    PROVE  \/ UNCHANGED cache \/ DOMAIN cache' = {}
           \/ \E s \in Slots : Fetching(s) /\ \E doc \in slot[s].docs : Store(s, doc)
    BY DEF Next, OidcNext, UpdateNext, Configure, Replace, LoginAtOnce, CallbackInVain, BeginLogin,
           EndLogin, EndTest, BeginExchange, Grant, Fail, BeginTest, CallbackAtOnce, BeginCallback,
           Tick, Restart, Fetching, vars, oidc

(* No request waits longer than Patience.                                   *)
Waits == \A s \in Slots : ~IsFree(s) => clock - slot[s].since <= Patience

LEMMA WaitsStep ==
    ASSUME TypeOK, Waits, [Next]_vars
    PROVE  Waits'
<1>1. ASSUME NEW s \in Slots, ~IsFree(s)', slot'[s] # slot[s]
      PROVE  clock' - slot'[s].since <= Patience
    <2>1. UNCHANGED clock
        BY <1>1, SlotMoves
    <2>2. slot'[s].since = clock \/ Learns(s)
        BY <1>1, SlotMoves DEF Asks, Exchanges, Checks, IsFree, Free
    <2>3. ASSUME Learns(s) PROVE slot'[s].since = slot[s].since /\ ~IsFree(s)
        <3>1. slot[s] \in Requests
            BY DEF TypeOK
        <3> QED BY <2>3, <3>1 DEF Learns, Fetching, IsFree, Requests, Free
    <2> QED BY <2>1, <2>2, <2>3, SlotsAssumption DEF Waits, TypeOK, Time
<1>2. ASSUME NEW s \in Slots, ~IsFree(s)', slot'[s] = slot[s]
      PROVE  clock' - slot'[s].since <= Patience
    <2>1. ~IsFree(s) /\ slot[s].since \in Times
        BY <1>2, CheckType DEF IsFree
    <2>2. clock' = clock \/ (clock' = clock + 1 /\ clock - slot[s].since < Patience)
        BY <2>1 DEF Next, OidcNext, UpdateNext, Configure, Replace, LoginAtOnce, CallbackInVain,
           BeginLogin, EndLogin, EndTest, BeginExchange, Grant, Fail, BeginTest, CallbackAtOnce,
           BeginCallback, BeginCheck, EndCheck, Tick, Restart, vars
    <2> QED BY <1>2, <2>1, <2>2, SlotsAssumption DEF Waits, TypeOK, Times, Time
<1> QED BY <1>1, <1>2 DEF Waits

(***************************************************************************)
(* A document that is used was served lately: what is cached, or on its    *)
(* way, was served at the time it is kept under or later.                  *)
(***************************************************************************)

SeenSince(i, doc, at) ==
    /\ doc <= Version(i)
    /\ doc < Version(i) => until[i][doc] >= at

CacheSeen == \A i \in DOMAIN cache : SeenSince(i, cache[i].doc, cache[i].at)

AnswersSeen ==
    \A s \in Slots : Fetching(s) =>
        \A doc \in slot[s].docs : SeenSince(slot[s].issuer, doc, slot[s].since)

FreshInv == Waits /\ CacheSeen /\ AnswersSeen /\ DocumentFresh

(* The documents are replaced one by one, each now.                         *)
LEMMA UntilMoves ==
    ASSUME TypeOK, [Next]_vars
    PROVE  \/ UNCHANGED until
           \/ \E i \in Issuers : until' = [until EXCEPT ![i] = Append(@, clock)]
    BY DEF Next, OidcNext, UpdateNext, Configure, Replace, LoginAtOnce, CallbackInVain, BeginLogin,
           EndLogin, EndTest, BeginExchange, Grant, Fail, BeginTest, CallbackAtOnce, BeginCallback,
           Tick, Restart, vars, oidc

LEMMA VersionMoves ==
    ASSUME TypeOK, [Next]_vars, NEW i \in Issuers
    PROVE  /\ Version(i) \in Docs /\ Version(i)' \in Docs
           /\ \A v \in Docs : v < Version(i) => until[i][v] \in Times
           /\ \A v \in Docs : v < Version(i) => until'[i][v] = until[i][v]
           /\ \/ Version(i)' = Version(i)
              \/ Version(i)' = Version(i) + 1 /\ until'[i][Version(i)] = clock
<1>1. until[i] \in Seq(Times) /\ clock \in Times /\ Len(until[i]) \in Nat
    BY DEF TypeOK, Times, Time
<1>2. Version(i) \in Docs /\ \A v \in Docs : v < Version(i) => v \in DOMAIN until[i]
    BY <1>1 DEF Version, Docs
<1>3. \A v \in Docs : v < Version(i) => until[i][v] \in Times
    BY <1>1, <1>2
<1>4. CASE until'[i] = until[i]
    BY <1>2, <1>3, <1>4 DEF Version
<1>5. CASE until'[i] = Append(until[i], clock)
    <2>1. /\ Len(until'[i]) = Len(until[i]) + 1
          /\ \A v \in DOMAIN until[i] : until'[i][v] = until[i][v]
          /\ until'[i][Len(until[i]) + 1] = clock
        BY <1>1, <1>5, AppendFacts
    <2> QED BY <1>1, <1>2, <1>3, <2>1 DEF Version, Docs
<1> QED BY <1>4, <1>5, UntilMoves DEF TypeOK

LEMMA SeenKept ==
    ASSUME TypeOK, [Next]_vars, NEW i \in Issuers, NEW doc \in Docs, NEW at \in Times,
           SeenSince(i, doc, at)
    PROVE  SeenSince(i, doc, at)'
<1>1. doc <= Version(i)' /\ (doc < Version(i)' => until'[i][doc] >= at)
    <2>1. doc <= Version(i) /\ (doc < Version(i) => until[i][doc] >= at)
        BY DEF SeenSince
    <2>2. at <= clock /\ clock \in Nat /\ at \in Nat
        BY DEF Times, Time, TypeOK
    <2> QED BY <2>1, <2>2, VersionMoves DEF Docs
<1> QED BY <1>1 DEF SeenSince

LEMMA FreshKept ==
    ASSUME TypeOK, [Next]_vars, NEW i \in Issuers, NEW doc \in Docs, NEW t \in Times,
           Fresh(i, doc, t)
    PROVE  Fresh(i, doc, t)'
<1>1. doc <= Version(i)' /\ (doc < Version(i)' => t - until'[i][doc] < DocTTL)
    <2>1. doc <= Version(i) /\ (doc < Version(i) => t - until[i][doc] < DocTTL)
        BY DEF Fresh
    <2>2. t <= clock /\ clock \in Nat /\ t \in Nat /\ DocTTL \in Nat /\ 0 < DocTTL
        BY SlotsAssumption, OidcAssumption DEF Times, Time, TypeOK
    <2> QED BY <2>1, <2>2, VersionMoves DEF Docs
<1> QED BY <1>1 DEF Fresh

LEMMA KnownFresh ==
    ASSUME TypeOK, FreshInv, NEW i \in Issuers, NEW doc, Known(i, doc)
    PROVE  doc \in Docs /\ Fresh(i, doc, clock)
<1>1. PICK at \in Times : SeenSince(i, doc, at) /\ clock - at < DocTTL /\ doc \in Docs
    <2>1. ASSUME NEW c \in Hits(i), doc = c.doc
          PROVE  SeenSince(i, doc, c.at) /\ clock - c.at < DocTTL /\ doc \in Docs /\ c.at \in Times
        BY <2>1, HitType DEF FreshInv, CacheSeen
    <2>2. ASSUME NEW s \in Slots, Fetching(s), slot[s].issuer = i, doc \in slot[s].docs
          PROVE  /\ SeenSince(i, doc, slot[s].since) /\ clock - slot[s].since < DocTTL
                 /\ doc \in Docs /\ slot[s].since \in Times
        <3>1. SeenSince(i, doc, slot[s].since) /\ clock - slot[s].since <= Patience
            BY <2>2 DEF FreshInv, AnswersSeen, Waits, Fetching, IsFree
        <3>2. doc \in Docs /\ slot[s].since \in Times
            BY <2>2, FetchType
        <3> QED BY <3>1, <3>2, SlotsAssumption, OidcAssumption DEF TypeOK, Times, Time
    <2> QED BY <2>1, <2>2 DEF Known
<1>2. Version(i) \in Docs /\ \A v \in Docs : v < Version(i) => until[i][v] \in Times
    <2>1. until[i] \in Seq(Times)
        BY DEF TypeOK
    <2> QED BY <2>1 DEF Version, Docs
<1> QED BY <1>1, <1>2, OidcAssumption DEF SeenSince, Fresh, TypeOK, Times, Time


(* The cache and the answers under way were served at their times or later. *)
LEMMA CacheSeenStep == ASSUME TypeOK, FreshInv, [Next]_vars PROVE CacheSeen'
<1>1. ASSUME NEW i \in DOMAIN cache', cache'[i] = cache[i], i \in DOMAIN cache
      PROVE  SeenSince(i, cache[i].doc, cache[i].at)'
    <2>1. PICK doc \in Docs, at \in Times :
             doc = cache[i].doc /\ at = cache[i].at /\ SeenSince(i, doc, at) /\ i \in Issuers
        BY <1>1 DEF TypeOK, FreshInv, CacheSeen
    <2>2. SeenSince(i, doc, at)'
        BY <2>1, SeenKept
    <2> QED BY <1>1, <2>1, <2>2 DEF SeenSince
<1>2. ASSUME NEW s \in Slots, Fetching(s), NEW doc \in slot[s].docs, Store(s, doc)
      PROVE  CacheSeen'
    <2>1. PICK at \in Times, j \in Issuers : at = slot[s].since /\ j = slot[s].issuer /\ doc \in Docs
        BY <1>2, FetchType
    <2>2. SeenSince(j, doc, at)
        BY <1>2, <2>1 DEF FreshInv, AnswersSeen
    <2>3. SeenSince(j, doc, at)'
        BY <2>1, <2>2, SeenKept
    <2>4. /\ DOMAIN cache' = DOMAIN cache \cup {j}
          /\ cache'[j].doc = doc /\ cache'[j].at = at
          /\ \A i \in DOMAIN cache \ {j} : cache'[i] = cache[i]
        BY <1>2, <2>1 DEF Store, Put
    <2>5. SeenSince(j, cache[j].doc, cache[j].at)'
        BY <2>3, <2>4 DEF SeenSince
    <2> QED BY <1>1, <2>4, <2>5 DEF CacheSeen
<1> QED BY <1>1, <1>2, CacheMoves DEF CacheSeen

LEMMA AnswersSeenStep == ASSUME TypeOK, FreshInv, [Next]_vars PROVE AnswersSeen'
<1> SUFFICES ASSUME NEW s \in Slots, Fetching(s)', NEW doc \in slot'[s].docs
             PROVE  SeenSince(slot[s].issuer, doc, slot[s].since)'
    BY DEF AnswersSeen
<1>1. ASSUME NEW i \in Issuers, NEW at \in Times, doc \in Docs, SeenSince(i, doc, at),
             slot'[s].issuer = i, slot'[s].since = at
      PROVE  SeenSince(slot[s].issuer, doc, slot[s].since)'
    <2>1. SeenSince(i, doc, at)'
        BY <1>1, SeenKept
    <2> QED BY <1>1, <2>1 DEF SeenSince
<1>2. CASE slot'[s] = slot[s]
    BY <1>1, <1>2, FetchType DEF FreshInv, AnswersSeen, Fetching
<1>3. CASE Asks(slot'[s])
    <2>1. PICK i \in Issuers, at \in Times :
             slot'[s].issuer = i /\ slot'[s].since = at /\ doc = Version(i)
        BY <1>3 DEF Asks, TypeOK, Times, Time
    <2>2. doc \in Docs /\ SeenSince(i, doc, at)
        BY <2>1, VersionType DEF SeenSince, Docs
    <2> QED BY <1>1, <2>1, <2>2
<1>4. CASE Learns(s)
    <2>1. PICK i \in Issuers :
             /\ Replace(i) /\ Fetching(s) /\ slot[s].issuer = i
             /\ slot'[s] = [slot[s] EXCEPT !.docs = @ \cup {Version(i) + 1}]
        BY <1>4 DEF Learns
    <2>2. PICK at \in Times : at = slot[s].since
        BY <2>1, FetchType
    <2>3. /\ slot'[s].issuer = i /\ slot'[s].since = at
          /\ slot'[s].docs = slot[s].docs \cup {Version(i) + 1}
        <3>1. slot[s] \in Requests
            BY DEF TypeOK
        <3> QED BY <2>1, <2>2, <3>1 DEF Fetching, Requests, Free
    <2>4. CASE doc \in slot[s].docs
        BY <1>1, <2>1, <2>2, <2>3, <2>4, FetchType DEF FreshInv, AnswersSeen
    <2>5. CASE doc = Version(i) + 1
        <3>1. until' = [until EXCEPT ![i] = Append(until[i], clock)] /\ until[i] \in Seq(Times)
            BY <2>1 DEF Replace, TypeOK
        <3>2. until'[i] = Append(until[i], clock)
            BY <3>1 DEF TypeOK
        <3>3. Version(i)' = Version(i) + 1 /\ Version(i) \in Nat
            BY <3>1, <3>2 DEF Version
        <3> QED BY <2>5, <3>3, <2>3 DEF SeenSince
    <2> QED BY <2>3, <2>4, <2>5
<1>5. ~(slot'[s] = Free \/ Exchanges(slot'[s]) \/ Checks(slot'[s]))
    BY DEF Free, Exchanges, Checks, Fetching
<1> QED BY <1>2, <1>3, <1>4, <1>5, SlotMoves

(* A login is opened, and a code sent, by a document that is known.         *)
LEMMA DocumentFreshStep == ASSUME TypeOK, FreshInv, [Next]_vars PROVE DocumentFresh'
<1>1. ASSUME NEW n \in DOMAIN opened
      PROVE  Fresh(opened[n].issuer, opened[n].doc, opened[n].at)'
    <2> DEFINE Logins == [at : Times, issuer : Issuers, doc : Docs, boot : Nat]
    <2>1. opened[n] \in Logins
        <3>1. opened \in Seq(Logins)
            BY DEF TypeOK
        <3> HIDE DEF Logins
        <3> QED BY <3>1, Element
    <2>2. PICK i \in Issuers, doc \in Docs, at \in Times :
             opened[n].issuer = i /\ opened[n].doc = doc /\ opened[n].at = at
        BY <2>1
    <2>3. Fresh(i, doc, at)
        BY <2>2 DEF FreshInv, DocumentFresh
    <2>4. Fresh(i, doc, at)'
        BY <2>3, FreshKept
    <2>5. opened'[n] = opened[n]
        BY Forward
    <2> QED BY <2>2, <2>4, <2>5 DEF Fresh
<1>2. ASSUME NEW i \in Issuers, NEW doc \in Docs, Known(i, doc), GenerateState(i, doc),
             NEW n \in DOMAIN opened', n \notin DOMAIN opened
      PROVE  Fresh(opened[n].issuer, opened[n].doc, opened[n].at)'
    <2>1. PICK now \in Times : now = clock
        BY DEF TypeOK, Times, Time
    <2>2. opened'[n] = [at |-> now, issuer |-> i, doc |-> doc, boot |-> boot]
        <3> DEFINE login == [at |-> clock, issuer |-> i, doc |-> doc, boot |-> boot]
                   Logins == [at : Times, issuer : Issuers, doc : Docs, boot : Nat]
        <3>1. opened \in Seq(Logins) /\ login \in Logins /\ opened' = Append(opened, login)
            BY <1>2, <2>1 DEF GenerateState, TypeOK
        <3> HIDE DEF login, Logins
        <3>2. opened'[n] = login
            BY <1>2, <3>1, AppendFacts
        <3> QED BY <2>1, <3>2 DEF login
    <2>3. Fresh(i, doc, now)
        BY <1>2, <2>1, KnownFresh
    <2>4. Fresh(i, doc, now)'
        BY <2>3, FreshKept
    <2> QED BY <2>2, <2>4 DEF Fresh
<1>3. ASSUME NEW s \in Slots, slot'[s].kind = "token"
      PROVE  Fresh(slot[s].issuer, slot[s].doc, slot[s].since)'
    <2>1. PICK i \in Issuers, doc \in Docs, at \in Times :
             /\ slot'[s].issuer = i /\ slot'[s].doc = doc /\ slot'[s].since = at
             /\ Fresh(i, doc, at)
        <3>1. CASE slot'[s] = slot[s]
            BY <1>3, <3>1, CallType DEF FreshInv, DocumentFresh
        <3>2. CASE Exchanges(slot'[s])
            BY <3>2, KnownFresh DEF Exchanges, TypeOK, Times, Time
        <3>3. ~Learns(s)
            <4>1. slot[s] \in Requests
                BY DEF TypeOK
            <4> QED BY <1>3, <4>1 DEF Learns, Fetching, Requests, Free
        <3> QED BY <1>3, <3>1, <3>2, <3>3, SlotMoves DEF Free, Asks, Checks
    <2>2. Fresh(i, doc, at)'
        BY <2>1, FreshKept
    <2> QED BY <2>1, <2>2 DEF Fresh
<1> QED BY <1>1, <1>2, <1>3, OpenedMoves DEF DocumentFresh

(* Theorem: no document is used that the issuer replaced as long as the     *)
(* cache's life ago.  About fetch_discovery, for any number of slow fetches *)
(* that overwrite each other, as long as each waits less than that life.    *)
THEOREM DocumentIsFresh == Spec => []DocumentFresh
<1>1. Init => FreshInv
    BY DEF Init, OidcInit, FreshInv, Waits, CacheSeen, AnswersSeen, DocumentFresh, IsFree, Fetching,
           Free
<1>2. TypeOK /\ FreshInv /\ [Next]_vars => FreshInv'
    BY WaitsStep, CacheSeenStep, AnswersSeenStep, DocumentFreshStep DEF FreshInv
<1>3. FreshInv => DocumentFresh
    BY DEF FreshInv
<1> QED BY <1>1, <1>2, <1>3, TypeCorrect, PTL DEF Spec

(***************************************************************************)
(* Checks for a release keep their distance: the time that is stored is    *)
(* behind the youngest check that has ended by one wait at most.           *)
(***************************************************************************)

StampIsLate == checked # NULL => checkedAt # NULL /\ checked - checkedAt <= Patience

LEMMA StampStep == ASSUME TypeOK, Waits, StampIsLate, [Next]_vars PROVE StampIsLate'
<1>1. ASSUME NEW s \in Slots, EndCheck(s) PROVE StampIsLate'
    <2>1. slot[s].since \in Times /\ clock - slot[s].since <= Patience
        BY <1>1, CheckType DEF EndCheck, Waits, IsFree
    <2>2. checkedAt' = slot[s].since
        BY <1>1 DEF EndCheck, Stamp
    <2>3. checked' = slot[s].since \/ (checked' = checked /\ checked <= clock /\ checked \in Nat)
        BY <1>1, <2>1 DEF EndCheck, Ended, TypeOK, Times, Time, NULL
    <2> QED BY <2>1, <2>2, <2>3, SlotsAssumption DEF StampIsLate, TypeOK, Times, Time
<1>2. CASE UNCHANGED update \/ checked' = NULL
    BY <1>2 DEF StampIsLate, update
<1> QED BY <1>1, <1>2
        DEF Next, OidcNext, UpdateNext, BeginCheck, Configure, Replace, LoginAtOnce, CallbackInVain,
            BeginLogin, EndLogin, EndTest, BeginExchange, Grant, Fail, BeginTest, CallbackAtOnce,
            BeginCallback, Tick, Restart, vars

(* Theorem: a check starts only when the youngest one that has ended began  *)
(* longer ago than the life of its answer less one wait.  About             *)
(* get_update_status, also when overlapping checks end out of order.        *)
THEOREM ChecksKeepDistance == Spec => ChecksSpaced
<1> DEFINE Spaced == \A s \in Slots : (IsFree(s) /\ slot'[s].kind = "check") =>
                        checked = NULL \/ clock - checked > CheckTTL - Patience
<1>1. Init => Waits /\ StampIsLate
    BY DEF Init, UpdateInit, Waits, StampIsLate, IsFree, Free
<1>2. TypeOK /\ Waits /\ StampIsLate /\ [Next]_vars => (Waits /\ StampIsLate)'
    BY WaitsStep, StampStep
<1>3. TypeOK /\ StampIsLate /\ [Next]_vars => [Spaced]_vars
    <2> SUFFICES ASSUME TypeOK, StampIsLate, [Next]_vars, NEW s \in Slots, IsFree(s),
                        slot'[s].kind = "check"
                 PROVE  checked = NULL \/ clock - checked > CheckTTL - Patience
        OBVIOUS
    <2>1. Outdated
        <3>1. slot'[s] # slot[s] /\ slot'[s] # Free /\ ~Learns(s)
            BY DEF IsFree, Free, Learns, Fetching
        <3> QED BY <3>1, SlotMoves DEF Asks, Exchanges, Checks
    <2> QED BY <2>1, SlotsAssumption, CheckAssumption
            DEF Outdated, StampIsLate, TypeOK, Times, Time, NULL
<1> QED BY <1>1, <1>2, <1>3, TypeCorrect, PTL DEF Spec, ChecksSpaced
=============================================================================
