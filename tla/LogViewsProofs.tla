--------------------------- MODULE LogViewsProofs ---------------------------
(***************************************************************************)
(* Proofs about the pages and the reports of LogViews: for any logs,       *)
(* filters and size of page, a client that pages by cursor passes over no  *)
(* log that stays and sees none twice, a cursor is offered exactly where   *)
(* there is more, and the streak of a source counts its failures since its *)
(* last success.                                                           *)
(***************************************************************************)
EXTENDS LogViews, TLAPS, FiniteSetTheorems, SequenceTheorems

Counting == INSTANCE FoldLemmas WITH Op <- CountRow

(***************************************************************************)
(* The order of the pages.                                                 *)
(***************************************************************************)

LEMMA UploadType ==
    ASSUME TableOK
    PROVE  /\ NULL \notin DOMAIN upload /\ stored \subseteq DOMAIN upload
           /\ \A l \in DOMAIN upload : l \in Nat /\ upload[l].start \in Nat
    BY LogTableAssumption DEF TableOK, Time, NULL

LEMMA OrderFacts ==
    ASSUME TableOK, NEW d \in Dirs
    PROVE  /\ \A a \in DOMAIN upload : ~Before(d, a, a)
           /\ \A a, b, c \in DOMAIN upload :
                 Before(d, a, b) /\ Before(d, b, c) => Before(d, a, c)
           /\ \A a, b \in DOMAIN upload : a = b \/ Before(d, a, b) \/ Before(d, b, a)
    BY UploadType DEF Before, Older, Dirs

LEMMA TurnedOrder ==
    ASSUME NEW d \in Dirs
    PROVE  Back(d) \in Dirs /\ Back(d) # d /\ Dirs = {d, Back(d)}
    BY DEF Dirs, Back

LEMMA LogsFinite ==
    ASSUME TableOK, NEW S, S \subseteq DOMAIN upload
    PROVE  IsFiniteSet(S) /\ Cardinality(S) \in Nat
    BY LogTableAssumption, FS_Subset, FS_CardinalityType DEF TableOK

(* Fewer logs lie before the earlier one of two.                            *)
LEMMA FewerBefore ==
    ASSUME TableOK, NEW d \in Dirs, NEW S, S \subseteq DOMAIN upload,
           NEW a \in S, NEW b \in S, Before(d, a, b)
    PROVE  Cardinality({k \in S : Before(d, k, a)}) < Cardinality({k \in S : Before(d, k, b)})
<1> DEFINE A == {k \in S : Before(d, k, a)}
           B == {k \in S : Before(d, k, b)}
<1>1. A \subseteq B /\ a \in B /\ a \notin A
    BY OrderFacts
<1>2. IsFiniteSet(B)
    BY LogsFinite
<1> QED BY <1>1, <1>2, FS_Subset, FS_CardinalityType

(* InOrder lists each row of a set once, by the number that lie before it.  *)
LEMMA InOrderFacts ==
    ASSUME TableOK, NEW d \in Dirs, NEW S, S \subseteq DOMAIN upload,
           NEW n, n = Cardinality(S), NEW list, list = InOrder(d, S)
    PROVE  /\ n \in Nat /\ list \in Seq(S) /\ DOMAIN list = 1 .. n /\ Len(list) = n
           /\ \A l \in S : \E i \in 1 .. n : list[i] = l
           /\ \A i, j \in 1 .. n : list[i] = list[j] => i = j
           /\ \A i, j \in 1 .. n : i < j => Before(d, list[i], list[j])
<1> DEFINE rank == [l \in S |-> Cardinality({k \in S : Before(d, k, l)})]
<1>1. n \in Nat /\ IsFiniteSet(S)
    BY LogsFinite
<1>2. \A l \in S : rank[l] \in 0 .. n - 1
    <2> SUFFICES ASSUME NEW l \in S PROVE rank[l] \in 0 .. n - 1
        OBVIOUS
    <2> DEFINE A == {k \in S : Before(d, k, l)}
    <2>1. A \subseteq S \ {l}
        BY OrderFacts
    <2>2. IsFiniteSet(S \ {l}) /\ Cardinality(S \ {l}) = n - 1
        BY <1>1, FS_RemoveElement
    <2>3. Cardinality(A) <= n - 1 /\ Cardinality(A) \in Nat
        BY <2>1, <2>2, FS_Subset, FS_CardinalityType
    <2> QED BY <1>1, <2>3
<1>3. \A a, b \in S : Before(d, a, b) => rank[a] < rank[b]
    BY FewerBefore
<1> HIDE DEF rank
<1>4. \A a, b \in S : rank[a] = rank[b] => a = b
    <2> SUFFICES ASSUME NEW a \in S, NEW b \in S, rank[a] = rank[b], a # b PROVE FALSE
        OBVIOUS
    <2>1. Before(d, a, b) \/ Before(d, b, a)
        BY OrderFacts
    <2> QED BY <1>2, <1>3, <2>1
<1>5. \A i \in 0 .. n - 1 : \E l \in S : rank[l] = i
    <2>1. rank \in Injection(S, 0 .. n - 1)
        <3>1. rank \in [S -> 0 .. n - 1]
            BY <1>2 DEF rank
        <3>2. \A a, b \in DOMAIN rank : rank[a] = rank[b] => a = b
            BY <1>4, <3>1
        <3> QED BY <3>1, <3>2 DEF Injection, IsInjective
    <2>2. IsFiniteSet(0 .. n - 1) /\ Cardinality(0 .. n - 1) = n
        <3> DEFINE top == n - 1
        <3>1. top \in Int /\ (IF 0 > top THEN 0 ELSE top - 0 + 1) = n
            BY <1>1
        <3> HIDE DEF top
        <3>2. IsFiniteSet(0 .. top) /\ Cardinality(0 .. top) = n
            BY <3>1, FS_Interval
        <3> QED BY <3>2 DEF top
    <2>3. rank \in Surjection(S, 0 .. n - 1)
        BY <2>1, <2>2, FS_Injection
    <2> QED BY <2>3 DEF Surjection
<1>6. DOMAIN list = 1 .. n
    BY DEF InOrder
<1>7. \A i \in 1 .. n : list[i] \in S /\ rank[list[i]] = i - 1
    <2> SUFFICES ASSUME NEW i \in 1 .. n PROVE list[i] \in S /\ rank[list[i]] = i - 1
        OBVIOUS
    <2>1. i - 1 \in 0 .. n - 1
        BY <1>1
    <2>2. \E l \in S : Cardinality({k \in S : Before(d, k, l)}) = i - 1
        BY <1>5, <2>1 DEF rank
    <2>3. list[i] = CHOOSE l \in S : Cardinality({k \in S : Before(d, k, l)}) = i - 1
        BY DEF InOrder
    <2>4. list[i] \in S /\ Cardinality({k \in S : Before(d, k, list[i])}) = i - 1
        BY <2>2, <2>3
    <2> QED BY <2>4 DEF rank
<1>8. DOMAIN list = 1 .. n /\ list \in Seq(S) /\ Len(list) = n
    <2> DEFINE At(i) == CHOOSE l \in S : Cardinality({k \in S : Before(d, k, l)}) = i - 1
    <2>1. list = [i \in 1 .. n |-> At(i)]
        BY DEF InOrder
    <2> HIDE DEF At
    <2>2. list = [i \in 1 .. n |-> list[i]]
        BY <2>1
    <2>3. list \in [1 .. n -> S]
        BY <1>7, <2>2
    <2> QED BY <1>1, <2>3
<1>9. \A l \in S : \E i \in 1 .. n : list[i] = l
    <2> SUFFICES ASSUME NEW l \in S PROVE \E i \in 1 .. n : list[i] = l
        OBVIOUS
    <2>1. rank[l] \in 0 .. n - 1
        BY <1>2
    <2>2. rank[l] + 1 \in 1 .. n /\ (rank[l] + 1) - 1 = rank[l]
        BY <1>1, <2>1
    <2> QED BY <1>4, <1>7, <2>2
<1>10. \A i, j \in 1 .. n : list[i] = list[j] => i = j
    BY <1>1, <1>7
<1>11. ASSUME NEW i \in 1 .. n, NEW j \in 1 .. n, i < j PROVE Before(d, list[i], list[j])
    <2>1. rank[list[i]] < rank[list[j]] /\ list[i] \in S /\ list[j] \in S
        BY <1>1, <1>7, <1>11
    <2>2. ~Before(d, list[j], list[i]) /\ list[i] # list[j]
        BY <1>1, <1>2, <1>3, <2>1
    <2> QED BY <2>1, <2>2, OrderFacts
<1> QED BY <1>1, <1>8, <1>9, <1>10, <1>11

LEMMA MinIsLeast ==
    ASSUME NEW S, S \subseteq Nat, S # {}
    PROVE  Min(S) \in S /\ \A m \in S : Min(S) <= m
    BY Counting!LeastNumber DEF Min

(* A part of a list, up to a bound that lies in it.                         *)
LEMMA PartFacts ==
    ASSUME NEW S, NEW list \in Seq(S), NEW from \in Nat, NEW last \in 0 .. Len(list),
           NEW part, part = SubSeq(list, from + 1, last)
    PROVE  /\ part \in Seq(S) /\ Len(part) \in Nat /\ DOMAIN part = 1 .. Len(part)
           /\ Len(part) = IF from < last THEN last - from ELSE 0
           /\ \A i \in 1 .. Len(part) : part[i] = list[from + i]
<1>1. \A i \in from + 1 .. last : list[i] \in S
    OBVIOUS
<1>2. /\ part \in Seq(S)
      /\ Len(part) = IF from + 1 <= last THEN last - (from + 1) + 1 ELSE 0
      /\ \A i \in 1 .. last - (from + 1) + 1 : part[i] = list[from + 1 + i - 1]
    BY <1>1, SubSeqProperties
<1>3. \A i \in 1 .. Len(part) : part[i] = list[from + i]
    <2> SUFFICES ASSUME NEW i \in 1 .. Len(part) PROVE part[i] = list[from + i]
        OBVIOUS
    <2>1. i \in 1 .. last - (from + 1) + 1 /\ from + 1 + i - 1 = from + i
        BY <1>2
    <2> QED BY <1>2, <2>1
<1> QED BY <1>2, <1>3

(* Some log is the last of a set that is not empty.                         *)
LEMMA LastExists ==
    ASSUME TableOK, NEW d \in Dirs, NEW S, S \subseteq DOMAIN upload, S # {}
    PROVE  /\ LastOf(d, S) \in S
           /\ \A k \in S : k = LastOf(d, S) \/ Before(d, k, LastOf(d, S))
<1> DEFINE After(l) == {k \in S : Before(Back(d), k, l)}
           Counts == {Cardinality(After(l)) : l \in S}
<1>1. Back(d) \in Dirs
    BY TurnedOrder
<1>2. Counts \subseteq Nat /\ Counts # {}
    BY LogsFinite
<1>3. PICK l \in S : \A m \in S : Cardinality(After(l)) <= Cardinality(After(m))
    <2>1. PICK n \in Counts : \A m \in Counts : n <= m
        <3> HIDE DEF Counts
        <3> QED BY <1>2, Counting!LeastNumber
    <2> HIDE DEF After
    <2> QED BY <2>1
<1>4. ASSUME NEW k \in S, k # l PROVE Before(d, k, l)
    <2>1. ~Before(d, l, k)
        <3>1. ASSUME Before(d, l, k) PROVE FALSE
            <4>1. Before(Back(d), k, l)
                BY <3>1 DEF Before, Back, Dirs
            <4>2. Cardinality(After(k)) < Cardinality(After(l))
                BY <1>1, <4>1, FewerBefore
            <4>3. Cardinality(After(k)) \in Nat /\ Cardinality(After(l)) \in Nat
                BY LogsFinite
            <4> HIDE DEF After
            <4> QED BY <1>3, <4>2, <4>3
        <3> QED BY <3>1
    <2> QED BY <1>4, <2>1, OrderFacts
<1> QED BY <1>4 DEF LastOf

(* A page has the first rows, and the others lie behind it.                 *)
LEMMA PageFacts ==
    ASSUME TableOK, NEW d \in Dirs, NEW rows, rows \subseteq DOMAIN upload
    PROVE  /\ PageOf(d, rows) \subseteq rows
           /\ rows # {} => PageOf(d, rows) # {}
           /\ \A l \in rows \ PageOf(d, rows) : \A k \in PageOf(d, rows) : Before(d, k, l)
           /\ HasMore(rows) <=> rows \ PageOf(d, rows) # {}
<1> DEFINE AheadOf(l) == {k \in rows : Before(d, k, l)}
<1>1. /\ \A l \in rows : IsFiniteSet(AheadOf(l)) /\ Cardinality(AheadOf(l)) \in Nat
      /\ IsFiniteSet(rows) /\ Cardinality(rows) \in Nat /\ Limit \in Nat \ {0}
    BY LogsFinite, PagesAssumption
<1>2. PageOf(d, rows) = {l \in rows : Cardinality(AheadOf(l)) < Limit}
    BY DEF PageOf
<1>3. ASSUME rows # {} PROVE PageOf(d, rows) # {}
    <2>1. Back(d) \in Dirs
        BY TurnedOrder
    <2>2. PICK l \in rows : \A k \in rows : k = l \/ Before(Back(d), k, l)
        BY <1>3, <2>1, LastExists
    <2>3. \A k \in rows : k = l \/ Before(d, l, k)
        BY <2>2 DEF Before, Back, Dirs
    <2>4. AheadOf(l) = {}
        BY <2>3, OrderFacts
    <2>5. Cardinality(AheadOf(l)) = 0
        BY <2>4, FS_EmptySet
    <2> QED BY <1>1, <1>2, <2>5
<1>4. ASSUME NEW l \in rows, l \notin PageOf(d, rows), NEW k \in PageOf(d, rows)
      PROVE  Before(d, k, l)
    <2>1. k \in rows /\ ~(Cardinality(AheadOf(l)) < Limit) /\ Cardinality(AheadOf(k)) < Limit
        BY <1>2, <1>4
    <2>2. ~(Cardinality(AheadOf(l)) < Cardinality(AheadOf(k)))
        <3> HIDE DEF AheadOf
        <3> QED BY <1>1, <2>1
    <2>3. ~Before(d, l, k)
        BY <2>1, <2>2, FewerBefore
    <2> QED BY <1>4, <2>1, <2>3, OrderFacts
<1>5. ASSUME NEW l \in rows, l \notin PageOf(d, rows) PROVE HasMore(rows)
    <2>1. Cardinality(AheadOf(l)) >= Limit
        BY <1>1, <1>2, <1>5
    <2>2. AheadOf(l) \subseteq rows /\ l \notin AheadOf(l)
        BY OrderFacts
    <2>3. Cardinality(AheadOf(l)) < Cardinality(rows)
        BY <1>1, <2>2, FS_Subset
    <2> HIDE DEF AheadOf
    <2> QED BY <1>1, <2>1, <2>3 DEF HasMore
<1>6. ASSUME HasMore(rows) PROVE rows \ PageOf(d, rows) # {}
    <2>1. rows # {}
        BY <1>1, <1>6, FS_EmptySet DEF HasMore
    <2> DEFINE last == LastOf(d, rows)
    <2>2. last \in rows /\ \A k \in rows : k = last \/ Before(d, k, last)
        BY <2>1, LastExists
    <2>3. AheadOf(last) = rows \ {last}
        BY <2>2, OrderFacts
    <2>4. Cardinality(AheadOf(last)) = Cardinality(rows) - 1
        BY <1>1, <2>2, <2>3, FS_RemoveElement
    <2>5. ~(Cardinality(AheadOf(last)) < Limit)
        BY <1>1, <1>6, <2>4 DEF HasMore
    <2> HIDE DEF AheadOf, last
    <2> QED BY <1>2, <2>2, <2>5
<1> QED BY <1>2, <1>3, <1>4, <1>5, <1>6

(***************************************************************************)
(* One answer of the server.                                               *)
(***************************************************************************)

LEMMA AheadFacts ==
    ASSUME TableOK, NEW q, NEW d, NEW c
    PROVE  /\ Ahead(q, d, c) \subseteq DOMAIN upload
           /\ \A l : l \in Ahead(q, d, c) <=>
                 l \in stored /\ Matches(l, q) /\ (c # NULL => Before(d, c, l))
    BY UploadType DEF Ahead, Visible

LEMMA RespondFacts ==
    ASSUME TableOK, NEW q, NEW d \in Dirs, NEW c, Respond(q, d, c)
    PROVE  /\ UNCHANGED table /\ query' = q /\ dir' = d
           /\ page' = PageOf(d, Ahead(q, d, c))
           /\ cursor' \in [Dirs -> DOMAIN upload \cup {NULL}]
           /\ \A e \in Dirs : IF Offers(q, d, c, e) THEN cursor'[e] = LastOf(e, page')
                              ELSE cursor'[e] = NULL
           /\ \A e \in Dirs : Offers(q, d, c, e) => page' # {} /\ cursor'[e] \in page'
<1> DEFINE rows == Ahead(q, d, c)
<1>1. page' = PageOf(d, rows) /\ page' \subseteq DOMAIN upload
    BY AheadFacts, PageFacts DEF Respond
<1>2. \A e \in Dirs : Offers(q, d, c, e) => page' # {} /\ LastOf(e, page') \in page'
    <2>1. \A e \in Dirs : Offers(q, d, c, e) => page' # {}
        BY <1>1 DEF Offers
    <2> QED BY <1>1, <2>1, LastExists
<1>3. cursor' = [e \in Dirs |-> IF Offers(q, d, c, e) THEN LastOf(e, page') ELSE NULL]
    BY <1>1 DEF Respond
<1>4. \A e \in Dirs : cursor'[e] \in DOMAIN upload \cup {NULL}
    BY <1>1, <1>2, <1>3
<1> QED BY <1>1, <1>2, <1>3, <1>4 DEF Respond

(* In the direction of the request the cursor is the last log of the page,  *)
(* and what the page leaves lies behind it.                                 *)
LEMMA OnwardFacts ==
    ASSUME TableOK, NEW q, NEW d \in Dirs, NEW c, Respond(q, d, c)
    PROVE  /\ page' \subseteq Ahead(q, d, c)
           /\ cursor'[d] # NULL => /\ cursor'[d] \in page'
                                   /\ \A l \in page' : l = cursor'[d] \/ Before(d, l, cursor'[d])
           /\ \A l \in Ahead(q, d, c) \ page' : cursor'[d] # NULL /\ Before(d, cursor'[d], l)
<1> DEFINE rows == Ahead(q, d, c)
<1>1. rows \subseteq DOMAIN upload
    BY AheadFacts
<1>2. /\ page' = PageOf(d, rows) /\ page' \subseteq rows
      /\ rows # {} => page' # {}
      /\ \A l \in rows \ page' : \A k \in page' : Before(d, k, l)
      /\ HasMore(rows) <=> rows \ page' # {}
    <2>1. page' = PageOf(d, rows)
        BY RespondFacts
    <2> HIDE DEF rows
    <2> QED BY <1>1, <2>1, PageFacts
<1>3. page' # {} => LastOf(d, page') \in page'
                    /\ \A k \in page' : k = LastOf(d, page') \/ Before(d, k, LastOf(d, page'))
    <2>1. page' \subseteq DOMAIN upload
        BY <1>1, <1>2
    <2> QED BY <2>1, LastExists
<1>4. Offers(q, d, c, d) <=> page' # {} /\ HasMore(rows)
    BY <1>2 DEF Offers
<1>5. Offers(q, d, c, d) => cursor'[d] = LastOf(d, page') /\ page' # {}
    BY RespondFacts
<1>6. ~Offers(q, d, c, d) => cursor'[d] = NULL
    BY RespondFacts
<1>7. NULL \notin page'
    BY <1>1, <1>2, UploadType
<1> HIDE DEF rows
<1>8. cursor'[d] # NULL => /\ cursor'[d] \in page'
                          /\ \A l \in page' : l = cursor'[d] \/ Before(d, l, cursor'[d])
    BY <1>3, <1>5, <1>6
<1>9. ASSUME NEW l \in rows, l \notin page'
      PROVE  cursor'[d] # NULL /\ Before(d, cursor'[d], l)
    BY <1>2, <1>3, <1>4, <1>5, <1>7, <1>9
<1> QED BY <1>2, <1>8, <1>9 DEF rows

(***************************************************************************)
(* A trail: it has shown what lies up to its cursor, and of the logs it    *)
(* began with those that stay and are not shown lie behind it.             *)
(***************************************************************************)

ReaderTypes ==
    /\ TableOK
    /\ dir \in Dirs /\ cursor \in [Dirs -> DOMAIN upload \cup {NULL}]
    /\ page \subseteq shown /\ shown \subseteq DOMAIN upload /\ steady \subseteq stored

TrailBehind ==
    cursor[dir] # NULL => \A l \in shown : l = cursor[dir] \/ Before(dir, l, cursor[dir])

SteadyMatches == \A l \in steady : Matches(l, query)

TrailInv == ReaderTypes /\ TrailBehind /\ SteadyMatches /\ NothingSkipped

LEMMA BeginStep ==
    ASSUME TrailInv, NEW q, NEW d \in Dirs, NEW c, BeginTrail(q, d, c)
    PROVE  TrailInv'
<1>1. Respond(q, d, c) /\ TableOK
    BY DEF BeginTrail, TrailInv, ReaderTypes
<1>2. /\ UNCHANGED table /\ query' = q /\ dir' = d
      /\ cursor' \in [Dirs -> DOMAIN upload \cup {NULL}]
    BY <1>1, RespondFacts
<1>3. shown' = page' /\ twice' = {} /\ steady' = Ahead(q, d, c)
    BY DEF BeginTrail
<1>4. page' \subseteq DOMAIN upload /\ steady' \subseteq stored
    BY <1>1, <1>3, AheadFacts, OnwardFacts
<1>5. ReaderTypes'
    BY <1>1, <1>2, <1>3, <1>4 DEF ReaderTypes, TableOK, table
<1>6. TrailBehind'
    BY <1>1, <1>2, <1>3, OnwardFacts DEF TrailBehind, Before, Older, table
<1>7. SteadyMatches'
    BY <1>1, <1>2, <1>3, AheadFacts DEF SteadyMatches, Matches, table
<1>8. NothingSkipped'
    BY <1>1, <1>2, <1>3, OnwardFacts DEF NothingSkipped, Before, Older, table
<1> QED BY <1>5, <1>6, <1>7, <1>8 DEF TrailInv

LEMMA GoOnStep ==
    ASSUME TrailInv, GoOn
    PROVE  TrailInv'
<1> DEFINE c == cursor[dir]
<1>1. /\ Respond(query, dir, c) /\ TableOK /\ dir \in Dirs /\ c \in DOMAIN upload /\ c # NULL
      /\ shown' = shown \cup page' /\ twice' = twice \cup (shown \cap page') /\ steady' = steady
    BY DEF GoOn, TrailInv, ReaderTypes
<1>2. /\ UNCHANGED <<table, query, dir>>
      /\ cursor' \in [Dirs -> DOMAIN upload \cup {NULL}]
    BY <1>1, RespondFacts
<1>3. \A l : l \in Ahead(query, dir, c) <=>
                l \in stored /\ Matches(l, query) /\ Before(dir, c, l)
    BY <1>1, AheadFacts
<1>4. page' \subseteq Ahead(query, dir, c) /\ page' \subseteq DOMAIN upload
    BY <1>1, OnwardFacts, AheadFacts
<1>5. \A l \in shown : l \in DOMAIN upload /\ (l = c \/ Before(dir, l, c))
    BY <1>1 DEF TrailInv, TrailBehind, ReaderTypes
<1>6. ReaderTypes'
    BY <1>1, <1>2, <1>4 DEF TrailInv, ReaderTypes, TableOK, table
<1>7. cursor'[dir] # NULL => \A l \in shown' : l = cursor'[dir] \/ Before(dir, l, cursor'[dir])
    <2> SUFFICES ASSUME cursor'[dir] # NULL, NEW l \in shown'
                 PROVE  l = cursor'[dir] \/ Before(dir, l, cursor'[dir])
        OBVIOUS
    <2>1. cursor'[dir] \in page' /\ Before(dir, c, cursor'[dir]) /\ cursor'[dir] \in DOMAIN upload
        BY <1>1, <1>3, <1>4, OnwardFacts
    <2>2. CASE l \in page'
        BY <1>1, <2>2, OnwardFacts
    <2>3. CASE l \in shown
        BY <1>1, <1>5, <2>1, <2>3, OrderFacts
    <2> QED BY <1>1, <2>2, <2>3
<1>8. TrailBehind'
    BY <1>2, <1>7 DEF TrailBehind, Before, Older, table
<1>9. SteadyMatches'
    BY <1>1, <1>2 DEF TrailInv, SteadyMatches, Matches, table
<1>10. shown \cap page' = {}
    BY <1>1, <1>3, <1>4, <1>5, OrderFacts
<1>11. ASSUME NEW l \in steady, l \notin shown, l \notin page'
       PROVE  cursor'[dir] # NULL /\ Before(dir, cursor'[dir], l)
    <2>1. l \in Ahead(query, dir, c)
        BY <1>3, <1>11 DEF TrailInv, ReaderTypes, SteadyMatches, NothingSkipped
    <2> QED BY <1>1, <1>11, <2>1, OnwardFacts
<1>12. NothingSkipped'
    BY <1>1, <1>2, <1>10, <1>11 DEF TrailInv, NothingSkipped, Before, Older, table
<1> QED BY <1>6, <1>8, <1>9, <1>12 DEF TrailInv

(* Rows that come or go.                                                    *)
LEMMA IngestStep ==
    ASSUME TrailInv, NEW l \in Logs, NEW u \in Uploads[l], StoreLog(l, u), UNCHANGED reader
    PROVE  TrailInv'
<1>1. /\ l \notin DOMAIN upload /\ stored' = stored \cup {l}
      /\ DOMAIN upload' = DOMAIN upload \cup {l} /\ upload'[l] = u
      /\ \A k \in DOMAIN upload : upload'[k] = upload[k]
    BY DEF StoreLog
<1>2. UNCHANGED <<query, dir, page, cursor, shown, twice, steady>>
    BY DEF reader
<1>3. TableOK'
    <2>1. \A k \in DOMAIN upload' : upload'[k] \in Uploads[k]
        BY <1>1 DEF TrailInv, ReaderTypes, TableOK
    <2> QED BY <1>1, <2>1 DEF TrailInv, ReaderTypes, TableOK
<1>4. ReaderTypes'
    BY <1>1, <1>2, <1>3 DEF TrailInv, ReaderTypes
<1>5. \A k \in stored \cup shown : k \in DOMAIN upload
    BY DEF TrailInv, ReaderTypes, TableOK
<1>6. \A a, b \in DOMAIN upload : Before(dir, a, b)' <=> Before(dir, a, b)
    BY <1>1, <1>2 DEF Before, Older
<1>7. cursor[dir] \in DOMAIN upload \cup {NULL}
    BY DEF TrailInv, ReaderTypes
<1>8. TrailBehind'
    BY <1>2, <1>5, <1>6, <1>7 DEF TrailInv, TrailBehind
<1>9. SteadyMatches'
    BY <1>1, <1>2, <1>5 DEF TrailInv, ReaderTypes, SteadyMatches, Matches
<1>10. NothingSkipped'
    BY <1>2, <1>5, <1>6, <1>7 DEF TrailInv, ReaderTypes, NothingSkipped
<1> QED BY <1>4, <1>8, <1>9, <1>10 DEF TrailInv

LEMMA DeleteStep == ASSUME TrailInv, NEW l \in stored, Delete(l) PROVE TrailInv'
<1>1. /\ stored' = stored \ {l} /\ UNCHANGED upload /\ steady' = steady \ {l}
      /\ UNCHANGED <<query, dir, page, cursor, shown, twice>>
    BY DEF Delete, DeleteLog, Forget
<1>2. ReaderTypes'
    BY <1>1 DEF TrailInv, ReaderTypes, TableOK
<1>3. TrailBehind' /\ SteadyMatches' /\ NothingSkipped'
    BY <1>1 DEF TrailInv, TrailBehind, SteadyMatches, NothingSkipped, Matches, Before, Older
<1> QED BY <1>2, <1>3 DEF TrailInv

LEMMA StillStep == ASSUME TrailInv, UNCHANGED <<table, reader>> PROVE TrailInv'
<1>1. UNCHANGED <<stored, upload, query, dir, page, cursor, shown, twice, steady>>
    BY DEF table, reader
<1> QED BY <1>1 DEF TrailInv, ReaderTypes, TableOK, TrailBehind, SteadyMatches, NothingSkipped,
                    Matches, Before, Older

LEMMA TurnBegins ==
    ASSUME TrailInv, Turn, ~GoOn
    PROVE  \E q, d, c : d \in Dirs /\ BeginTrail(q, d, c)
<1>1. CASE OpenList
    BY <1>1 DEF OpenList
<1>2. CASE TurnRound
    BY <1>2, TurnedOrder DEF TurnRound, TrailInv, ReaderTypes
<1> QED BY <1>1, <1>2 DEF Turn

LEMMA TrailStep == TrailInv /\ [Next]_vars => TrailInv'
<1> SUFFICES ASSUME TrailInv, [Next]_vars PROVE TrailInv'
    OBVIOUS
<1>1. ASSUME NEW l \in Logs, NEW u \in Uploads[l], Ingest(l, u) PROVE TrailInv'
    BY <1>1, IngestStep DEF Ingest
<1>2. ASSUME NEW l \in stored, Delete(l) PROVE TrailInv'
    BY <1>2, DeleteStep
<1>3. CASE UNCHANGED <<table, reader>>
    BY <1>3, StillStep
<1>4. CASE Turn
    BY <1>4, TurnBegins, BeginStep, GoOnStep
<1> QED BY <1>1, <1>2, <1>3, <1>4 DEF Next, vars

LEMMA TrailStart == Init => TrailInv
<1> SUFFICES ASSUME Init PROVE TrailInv
    OBVIOUS
<1>1. TableOK
    BY DEF Init, TableOK
<1>2. ReaderTypes
    BY <1>1 DEF Init, PagesInit, ReaderTypes, Dirs
<1>3. TrailBehind /\ SteadyMatches /\ NothingSkipped
    BY DEF Init, PagesInit, TrailBehind, SteadyMatches, NothingSkipped
<1> QED BY <1>2, <1>3 DEF TrailInv

(* Theorem: a client that pages by cursor passes over no log that stays and *)
(* sees none twice, in both directions, whatever is ingested or deleted     *)
(* between its requests.  About the keyset pagination of list_sync_logs.    *)
THEOREM NothingIsSkipped == Spec => []NothingSkipped
<1>1. Init => TrailInv
    BY TrailStart
<1>2. TrailInv /\ [Next]_vars => TrailInv'
    BY TrailStep
<1>3. TrailInv => NothingSkipped
    BY DEF TrailInv
<1> QED BY <1>1, <1>2, <1>3, PTL DEF Spec

(***************************************************************************)
(* Cursors lead on.                                                        *)
(***************************************************************************)

LEMMA RespondLeadsOn ==
    ASSUME TableOK, NEW q, NEW d \in Dirs, NEW c \in DOMAIN upload \cup {NULL}, Respond(q, d, c),
           NEW e \in {"forward", d}
    PROVE  cursor'[e] # NULL <=>
              /\ page' # {}
              /\ \E l \in stored : Matches(l, q) /\ \A k \in page' : Before(e, k, l)
<1> DEFINE rows == Ahead(q, d, c)
<1>1. rows \subseteq DOMAIN upload /\ e \in Dirs
    BY AheadFacts DEF Dirs
<1>2. /\ page' = PageOf(d, rows)
      /\ Offers(q, d, c, e) => cursor'[e] \in page'
      /\ ~Offers(q, d, c, e) => cursor'[e] = NULL
    BY <1>1, RespondFacts
<1>3. /\ page' \subseteq rows
      /\ \A l \in rows \ page' : \A k \in page' : Before(d, k, l)
      /\ HasMore(rows) <=> rows \ page' # {}
    <2> HIDE DEF rows
    <2> QED BY <1>1, <1>2, PageFacts
<1>4. cursor'[e] # NULL <=> Offers(q, d, c, e)
    BY <1>1, <1>2, <1>3, UploadType
<1>5. CASE e = d
    <2>1. Offers(q, d, c, e) <=> page' # {} /\ HasMore(rows)
        BY <1>2, <1>5 DEF Offers
    <2>2. ASSUME NEW l \in stored, Matches(l, q), \A k \in page' : Before(e, k, l), page' # {}
          PROVE  l \in rows \ page'
        <3>1. PICK k \in page' : Before(d, k, l) /\ k \in rows
            BY <1>3, <1>5, <2>2
        <3>2. c # NULL => Before(d, c, k)
            BY <3>1, AheadFacts
        <3>3. l \in DOMAIN upload /\ k \in DOMAIN upload
            BY <1>1, <3>1, UploadType
        <3>4. c # NULL => Before(d, c, l)
            BY <3>1, <3>2, <3>3, OrderFacts
        <3>5. l \in rows
            BY <2>2, <3>4, AheadFacts
        <3>6. l \notin page'
            BY <1>5, <2>2, <3>3, OrderFacts
        <3> QED BY <3>5, <3>6
    <2>3. \A l \in rows : l \in stored /\ Matches(l, q)
        BY AheadFacts
    <2> HIDE DEF rows
    <2> QED BY <1>3, <1>4, <1>5, <2>1, <2>2, <2>3
<1>6. CASE e # d
    <2>1. e = "forward" /\ d = "backward"
        BY <1>6 DEF Dirs
    <2>2. Offers(q, d, c, e) <=> page' # {} /\ Probe(q, page') # {}
        BY <1>2, <2>1 DEF Offers
    <2> DEFINE last == LastOf("forward", page')
    <2>3. page' # {} => last \in page' /\ \A k \in page' : k = last \/ Before("forward", k, last)
        <3>1. page' \subseteq DOMAIN upload
            BY <1>1, <1>3
        <3> QED BY <1>1, <2>1, <3>1, LastExists
    <2>4. Probe(q, page') = {l \in stored : Matches(l, q) /\ Before("forward", last, l)}
        BY DEF Probe, Visible
    <2>5. ASSUME page' # {}, NEW l \in stored
          PROVE  Before("forward", last, l) <=> \A k \in page' : Before("forward", k, l)
        <3>1. l \in DOMAIN upload /\ page' \subseteq DOMAIN upload
            BY <1>1, <1>3, UploadType
        <3> HIDE DEF last
        <3> QED BY <1>1, <2>1, <2>3, <2>5, <3>1, OrderFacts
    <2> HIDE DEF last
    <2> QED BY <1>4, <2>1, <2>2, <2>4, <2>5
<1> QED BY <1>5, <1>6

LEMMA TurnResponds ==
    ASSUME TrailInv, Turn
    PROVE  \E q : \E d \in Dirs : \E c \in DOMAIN upload \cup {NULL} : Respond(q, d, c)
<1>1. CASE OpenList
    BY <1>1 DEF OpenList, BeginTrail
<1>2. CASE TurnRound
    BY <1>2, TurnedOrder DEF TurnRound, BeginTrail, TrailInv, ReaderTypes
<1>3. CASE GoOn
    BY <1>3 DEF GoOn, TrailInv, ReaderTypes
<1> QED BY <1>1, <1>2, <1>3 DEF Turn

(* Theorem: a page offers a cursor exactly where there is more under the    *)
(* same filters.  About has_next and the probe of list_sync_logs.           *)
THEOREM CursorsAreRight == Spec => CursorsLeadOn
<1> DEFINE LeadsOn == (UNCHANGED table /\ reader' # reader) =>
              \A e \in {"forward", dir'} :
                 cursor'[e] # NULL <=>
                    /\ page' # {}
                    /\ \E l \in stored' : Matches(l, query') /\ \A k \in page' : Before(e, k, l)
<1>1. Init => TrailInv
    BY TrailStart
<1>2. TrailInv /\ [Next]_vars => TrailInv'
    BY TrailStep
<1>3. TrailInv /\ [Next]_vars => [LeadsOn]_vars
    <2> SUFFICES ASSUME TrailInv, [Next]_vars, UNCHANGED table, reader' # reader
                 PROVE  LeadsOn
        OBVIOUS
    <2>1. Turn
        <3>1. ASSUME NEW l \in stored PROVE ~Delete(l)
            BY <3>1 DEF Delete, DeleteLog, table
        <3> QED BY <3>1 DEF Next, Ingest, vars
    <2>2. PICK q : \E d \in Dirs : \E c \in DOMAIN upload \cup {NULL} : Respond(q, d, c)
        BY <2>1, TurnResponds
    <2>3. PICK d \in Dirs : \E c \in DOMAIN upload \cup {NULL} : Respond(q, d, c)
        BY <2>2
    <2>4. PICK c \in DOMAIN upload \cup {NULL} : Respond(q, d, c)
        BY <2>3
    <2>5. TableOK /\ query' = q /\ dir' = d /\ stored' = stored /\ upload' = upload
        BY <2>4, RespondFacts DEF TrailInv, ReaderTypes, table
    <2>6. ASSUME NEW e \in {"forward", d}
          PROVE  cursor'[e] # NULL <=>
                    /\ page' # {}
                    /\ \E l \in stored : Matches(l, q) /\ \A k \in page' : Before(e, k, l)
        BY <2>4, <2>5, RespondLeadsOn
    <2> QED BY <2>5, <2>6
<1> QED BY <1>1, <1>2, <1>3, PTL DEF Spec, CursorsLeadOn

(***************************************************************************)
(* Sums: the sizes of the groups of a finite set add up to its size.       *)
(***************************************************************************)

SumSolves(f, sum) ==
    sum = [T \in SUBSET DOMAIN f |->
             IF T = {} THEN 0
             ELSE f[CHOOSE x \in T : TRUE] + sum[T \ {CHOOSE x \in T : TRUE}]]

LEMMA GroupsAddUp ==
    ASSUME NEW S, IsFiniteSet(S), NEW group, NEW f, IsFiniteSet(DOMAIN f),
           \A l \in S : group[l] \in DOMAIN f,
           \A d \in DOMAIN f : f[d] = Cardinality({l \in S : group[l] = d})
    PROVE  Total(f) = Cardinality(S)
<1> DEFINE D == DOMAIN f
           In(T) == {l \in S : group[l] \in T}
           size  == [T \in SUBSET D |-> Cardinality(In(T))]
           sum   == CHOOSE h : SumSolves(f, h)
<1>1. \A T : IsFiniteSet(In(T)) /\ Cardinality(In(T)) \in Nat
    BY FS_Subset, FS_CardinalityType
<1>2. ASSUME NEW T \in SUBSET D, NEW x \in T
      PROVE  Cardinality(In(T)) = f[x] + Cardinality(In(T \ {x}))
    <2>1. f[x] = Cardinality(In({x}))
        <3>1. In({x}) = {l \in S : group[l] = x}
            OBVIOUS
        <3> QED BY <3>1
    <2> DEFINE A == In({x})
               B == In(T \ {x})
    <2>2. In(T) = A \cup B /\ A \cap B = {} /\ IsFiniteSet(A) /\ IsFiniteSet(B)
          /\ Cardinality(A) \in Nat /\ Cardinality(B) \in Nat
        <3>1. In(T) = A \cup B /\ A \cap B = {}
            OBVIOUS
        <3> HIDE DEF In
        <3> QED BY <1>1, <3>1
    <2> HIDE DEF A, B, In
    <2>3. Cardinality(A \cup B) = Cardinality(A) + Cardinality(B) - Cardinality({})
        BY <2>2, FS_Union
    <2>4. Cardinality(In(T)) = f[x] + Cardinality(B)
        <3>1. f[x] = Cardinality(A)
            BY <2>1 DEF A
        <3> QED BY <2>2, <2>3, <3>1, FS_EmptySet
    <2> QED BY <2>4 DEF B
<1>3. SumSolves(f, size)
    <2>1. In({}) = {}
        OBVIOUS
    <2>2. size[{}] = 0
        BY <2>1, FS_EmptySet
    <2>3. ASSUME NEW T \in SUBSET D, T # {}
          PROVE  size[T] = f[CHOOSE x \in T : TRUE] + size[T \ {CHOOSE x \in T : TRUE}]
        <3> DEFINE x == CHOOSE y \in T : TRUE
        <3>1. x \in T
            BY <2>3
        <3> HIDE DEF x, In
        <3>2. T \ {x} \in SUBSET D
            OBVIOUS
        <3>3. size[T] = f[x] + size[T \ {x}]
            BY <1>2, <3>1, <3>2
        <3> HIDE DEF size
        <3> QED BY <3>3 DEF x
    <2>4. size = [T \in SUBSET D |-> size[T]]
        OBVIOUS
    <2> HIDE DEF size
    <2> QED BY <2>2, <2>3, <2>4 DEF SumSolves
<1>4. SumSolves(f, sum)
    BY <1>3
<1>5. Total(f) = sum[D]
    BY DEF Total, MapThenSumSet, MapThenFoldSet, SumSolves
<1> HIDE DEF sum, In
<1> DEFINE n == Cardinality(D)
           Agree == {i \in 0 .. n : \A T \in SUBSET D : Cardinality(T) = i => sum[T] = size[T]}
<1>6. n \in Nat /\ \A T \in SUBSET D : IsFiniteSet(T) /\ Cardinality(T) \in Nat
    BY FS_Subset, FS_CardinalityType
<1>7. 0 \in Agree
    <2>1. \A T \in SUBSET D : Cardinality(T) = 0 => T = {}
        BY <1>6, FS_EmptySet
    <2>2. sum[{}] = 0 /\ size[{}] = 0
        <3> HIDE DEF size
        <3> QED BY <1>3, <1>4 DEF SumSolves
    <2> HIDE DEF size
    <2> QED BY <1>6, <2>1, <2>2
<1>8. ASSUME NEW i \in 0 .. n - 1, i \in Agree PROVE i + 1 \in Agree
    <2>1. i \in Nat /\ i + 1 # 0 /\ i + 1 \in 0 .. n
        <3> HIDE DEF n
        <3> QED BY <1>6
    <2>2. ASSUME NEW T \in SUBSET D, Cardinality(T) = i + 1 PROVE sum[T] = size[T]
        <3> DEFINE x == CHOOSE y \in T : TRUE
        <3>1. T # {}
            BY <2>1, <2>2, FS_EmptySet
        <3>2. x \in T /\ IsFiniteSet(T)
            BY <1>6, <3>1
        <3>3. Cardinality(T \ {x}) = i /\ T \ {x} \in SUBSET D
            <4> HIDE DEF x
            <4>1. Cardinality(T \ {x}) = Cardinality(T) - 1
                BY <3>2, FS_RemoveElement
            <4> QED BY <2>1, <2>2, <4>1
        <3>4. sum[T \ {x}] = size[T \ {x}]
            <4> HIDE DEF x, size
            <4> QED BY <1>8, <3>3
        <3>5. sum[T] = f[x] + sum[T \ {x}] /\ size[T] = f[x] + size[T \ {x}]
            <4> HIDE DEF size
            <4> QED BY <1>3, <1>4, <3>1 DEF SumSolves
        <3> HIDE DEF x, size
        <3> QED BY <3>4, <3>5
    <2> HIDE DEF size, n
    <2> QED BY <2>1, <2>2
<1>9. n \in Agree
    <2> HIDE DEF Agree, n
    <2> QED BY <1>6, <1>7, <1>8, Counting!UpTo
<1>10. sum[D] = size[D]
    <2>1. n \in 0 .. n /\ D \in SUBSET D
        BY <1>6
    <2> HIDE DEF size
    <2> QED BY <1>9, <2>1
<1>11. In(D) = S
    BY DEF In
<1> QED BY <1>5, <1>10, <1>11

(***************************************************************************)
(* Streaks: the loop over the rows, newest first, has counted for each     *)
(* source the failures after its last success among the rows it has read.  *)
(***************************************************************************)

RunIn(read, s) ==
    {l \in read : /\ upload[l].source = s
                  /\ \A k \in read : upload[k].source = s /\ (k = l \/ Older(l, k)) => Fails(k)}

Counted(read, acc) ==
    /\ acc = [streak |-> acc.streak, closed |-> acc.closed] /\ acc.streak \in [Sources -> Nat]
    /\ \A s \in Sources : s \in acc.closed <=> \E l \in read : upload[l].source = s /\ ~Fails(l)
    /\ \A s \in Sources : acc.streak[s] = Cardinality(RunIn(read, s))

LEMMA OlderFacts ==
    ASSUME TableOK
    PROVE  /\ \A a \in DOMAIN upload : ~Older(a, a)
           /\ \A a, b \in DOMAIN upload : Older(a, b) => ~Older(b, a)
           /\ \A a, b \in DOMAIN upload : a = b \/ Older(a, b) \/ Older(b, a)
           /\ \A a, b \in DOMAIN upload : Older(a, b) => upload[a].start <= upload[b].start
           /\ \A a, b \in DOMAIN upload : upload[a].start < upload[b].start => Older(a, b)
    BY UploadType DEF Older

LEMMA CountStep ==
    ASSUME TableOK, NEW read, read \subseteq DOMAIN upload, NEW l \in DOMAIN upload, l \notin read,
           \A k \in read : Older(l, k), NEW acc, Counted(read, acc)
    PROVE  Counted(read \cup {l}, CountRow(acc, l))
<1> DEFINE src  == upload[l].source
           all  == read \cup {l}
           next == CountRow(acc, l)
           ends == src \in acc.closed \/ ~Fails(l)
<1>1. src \in Sources
    BY LogTableAssumption DEF TableOK
<1>2. \A s \in Sources : IsFiniteSet(RunIn(read, s)) /\ Cardinality(RunIn(read, s)) \in Nat
    <2> SUFFICES ASSUME NEW s \in Sources
                 PROVE  IsFiniteSet(RunIn(read, s)) /\ Cardinality(RunIn(read, s)) \in Nat
        OBVIOUS
    <2>1. RunIn(read, s) \subseteq DOMAIN upload
        BY DEF RunIn
    <2> QED BY <2>1, LogsFinite
<1>3. \A s \in Sources : s # src => RunIn(all, s) = RunIn(read, s)
    BY DEF RunIn
<1>4. \A a \in read : a \in RunIn(all, src) <=> a \in RunIn(read, src)
    <2> SUFFICES ASSUME NEW a \in read
                 PROVE  a \in RunIn(all, src) <=> a \in RunIn(read, src)
        OBVIOUS
    <2>1. a # l /\ ~Older(a, l)
        BY OlderFacts
    <2> QED BY <2>1 DEF RunIn
<1>5. l \in RunIn(all, src) <=> ~ends
    <2>1. \A k \in all : k = l \/ Older(l, k)
        OBVIOUS
    <2>2. src \in acc.closed <=> \E k \in read : upload[k].source = src /\ ~Fails(k)
        BY <1>1 DEF Counted
    <2> QED BY <2>1, <2>2 DEF RunIn
<1>6. RunIn(all, src) = IF ends THEN RunIn(read, src) ELSE RunIn(read, src) \cup {l}
    <2>1. RunIn(all, src) \subseteq all /\ RunIn(read, src) \subseteq read
        BY DEF RunIn
    <2> HIDE DEF ends
    <2> QED BY <1>4, <1>5, <2>1
<1>7. Cardinality(RunIn(all, src)) = IF ends THEN acc.streak[src] ELSE acc.streak[src] + 1
    <2>1. l \notin RunIn(read, src)
        BY DEF RunIn
    <2>2. acc.streak[src] = Cardinality(RunIn(read, src))
        BY <1>1 DEF Counted
    <2> HIDE DEF ends, src
    <2> QED BY <1>1, <1>2, <1>6, <2>1, <2>2, FS_AddElement
<1>8. \A s \in Sources : s \in next.closed <=> \E k \in all : upload[k].source = s /\ ~Fails(k)
    BY <1>1 DEF Counted, CountRow
<1>9. /\ next = [streak |-> next.streak, closed |-> next.closed]
      /\ next.streak = [acc.streak EXCEPT ![src] = IF ends THEN @ ELSE @ + 1]
    <2>1. CASE src \in acc.closed
        BY <1>1, <2>1 DEF CountRow, Counted
    <2>2. CASE src \notin acc.closed /\ Fails(l)
        BY <1>1, <2>2 DEF CountRow, Counted
    <2>3. CASE src \notin acc.closed /\ ~Fails(l)
        BY <1>1, <2>3 DEF CountRow, Counted
    <2> QED BY <2>1, <2>2, <2>3
<1>10. acc.streak \in [Sources -> Nat]
    BY DEF Counted
<1> HIDE DEF ends, next, src, all
<1>11. next.streak \in [Sources -> Nat]
    BY <1>1, <1>9, <1>10
<1>12. \A s \in Sources : next.streak[s] = Cardinality(RunIn(all, s))
    <2>1. \A s \in Sources : s # src => next.streak[s] = acc.streak[s]
        BY <1>1, <1>9, <1>10
    <2>2. next.streak[src] = IF ends THEN acc.streak[src] ELSE acc.streak[src] + 1
        BY <1>1, <1>9, <1>10
    <2>3. \A s \in Sources : acc.streak[s] = Cardinality(RunIn(read, s))
        BY DEF Counted
    <2> QED BY <1>1, <1>3, <1>7, <2>1, <2>2, <2>3
<1> QED BY <1>8, <1>9, <1>11, <1>12 DEF Counted, next, all

LEMMA StreaksCount ==
    ASSUME TableOK, NEW now, NEW days
    PROVE  Counted(InWindow(now, days), Streaks(now, days))
<1> DEFINE W     == InWindow(now, days)
           list  == NewestFirst(W)
           n     == Cardinality(W)
           start == [streak |-> [s \in Sources |-> 0], closed |-> {}]
<1>1. W \subseteq DOMAIN upload /\ "forward" \in Dirs
    BY UploadType DEF InWindow, Dirs
<1>2. /\ n \in Nat /\ list \in Seq(W) /\ DOMAIN list = 1 .. n
      /\ \A l \in W : \E i \in 1 .. n : list[i] = l
      /\ \A i, j \in 1 .. n : list[i] = list[j] => i = j
      /\ \A i, j \in 1 .. n : i < j => Before("forward", list[i], list[j])
    <2>1. list = InOrder("forward", W)
        BY DEF NewestFirst
    <2> HIDE DEF W, list
    <2> QED BY <1>1, <2>1, InOrderFacts
<1>3. Streaks(now, days) = Counting!Folded(start, list)
    BY DEF Streaks, Counting!Folded, Counting!FoldLeft, Counting!MapThenFoldSet,
           Counting!Max, Max, FoldLeft, MapThenFoldSet
<1> HIDE DEF W, list, n
<1>4. PICK chain : /\ chain[0] = start
                   /\ \A i \in 1 .. n : chain[i] = CountRow(chain[i - 1], list[i])
                   /\ chain[n] = Counting!Folded(start, list)
    BY <1>2, Counting!FoldIsChain
<1> DEFINE Read(i) == {list[j] : j \in 1 .. i}
           Steps   == {i \in 0 .. n : Counted(Read(i), chain[i])}
<1>5. 0 \in Steps
    <2>1. Read(0) = {} /\ 0 \in 0 .. n
        BY <1>2
    <2>2. \A s : RunIn({}, s) = {}
        BY DEF RunIn
    <2>3. Counted({}, start)
        BY <2>2, FS_EmptySet DEF Counted
    <2> HIDE DEF Read
    <2> QED BY <1>4, <2>1, <2>3
<1>6. ASSUME NEW i \in 0 .. n - 1, i \in Steps PROVE i + 1 \in Steps
    <2>1. i \in Nat /\ i + 1 \in 1 .. n /\ i + 1 \in 0 .. n /\ (i + 1) - 1 = i
          /\ \A j \in 1 .. i : j \in 1 .. n /\ j < i + 1
        BY <1>2
    <2>2. Read(i + 1) = Read(i) \cup {list[i + 1]}
        <3>1. 1 .. i + 1 = (1 .. i) \cup {i + 1}
            BY <2>1
        <3> QED BY <3>1
    <2>3. Read(i) \subseteq DOMAIN upload /\ list[i + 1] \in DOMAIN upload
        BY <1>1, <1>2, <2>1
    <2>4. list[i + 1] \notin Read(i) /\ \A k \in Read(i) : Older(list[i + 1], k)
        BY <1>2, <2>1 DEF Before
    <2>5. Counted(Read(i), chain[i])
        BY <1>6
    <2> HIDE DEF Read
    <2>6. Counted(Read(i) \cup {list[i + 1]}, CountRow(chain[i], list[i + 1]))
        BY <2>3, <2>4, <2>5, CountStep
    <2> QED BY <1>4, <2>1, <2>2, <2>6
<1>7. n \in Steps
    <2>1. \A i \in 0 .. n - 1 : i \in Steps => i + 1 \in Steps
        BY <1>6
    <2> HIDE DEF Steps
    <2> QED BY <1>2, <1>5, <2>1, Counting!UpTo
<1>8. Read(n) = W
    BY <1>2
<1> HIDE DEF Read
<1> QED BY <1>3, <1>4, <1>7, <1>8 DEF W

LEMMA DayOf ==
    ASSUME NEW t \in Nat, NEW d \in Int, t >= Begins(d)
    PROVE  Day(t) \in Nat /\ Day(t) >= d
<1>1. DayLength \in Nat /\ DayLength > 0
    BY ReportsAssumption
<1>2. /\ t \div DayLength \in Nat
      /\ (t \div DayLength) * DayLength <= t
      /\ t < (t \div DayLength) * DayLength + DayLength
    BY <1>1
<1> DEFINE e == t \div DayLength
<1>3. ASSUME e < d PROVE FALSE
    <2> DEFINE A == d * DayLength
               B == e * DayLength
    <2>1. d - e - 1 \in Nat /\ A \in Int /\ B \in Int
        BY <1>1, <1>2, <1>3
    <2>2. (d - e - 1) * DayLength >= 0
        BY <1>1, <2>1
    <2>3. (d - e - 1) * DayLength = A - B - DayLength
        BY <1>1, <1>2
    <2>4. t >= A /\ t < B + DayLength
        BY <1>2 DEF Begins
    <2> HIDE DEF A, B, e
    <2>5. A - B - DayLength >= 0
        BY <2>2, <2>3
    <2> QED BY <1>1, <2>1, <2>4, <2>5
<1> QED BY <1>2, <1>3 DEF Day

LEMMA LatestFacts ==
    ASSUME TableOK, NEW src, RealOf(src) # {}
    PROVE  /\ LatestOf(src) \in RealOf(src)
           /\ \A k \in RealOf(src) : k = LatestOf(src) \/ Older(k, LatestOf(src))
<1>1. RealOf(src) \subseteq DOMAIN upload /\ "backward" \in Dirs
    BY UploadType DEF RealOf, Dirs
<1>2. \E l \in RealOf(src) : \A k \in RealOf(src) : k = l \/ Before("backward", k, l)
    BY <1>1, LastExists
<1>3. \E l \in RealOf(src) : \A k \in RealOf(src) : k = l \/ Older(k, l)
    BY <1>2 DEF Before
<1> QED BY <1>3 DEF LatestOf

LEMMA StreakFacts ==
    ASSUME TableOK, NEW src \in Sources \ {Synthetic}, NEW now \in Nows, NEW days \in {1, 2},
           \A a, b \in RealOf(src) : a # b => upload[a].start # upload[b].start
    PROVE  StreakRight(src, now, days)
<1> DEFINE recent == RealOf(src) \cap InWindow(now, days)
           run    == {l \in recent : \A k \in recent : upload[k].start >= upload[l].start => Fails(k)}
           health == Health(src, now, days)
<1> DEFINE logs    == RealOf(src)
           W       == InWindow(now, days)
           counted == Streaks(now, days)
           latest  == LatestOf(src)
<1>1. /\ logs \subseteq stored /\ logs \subseteq DOMAIN upload /\ recent \subseteq logs
      /\ \A l \in logs : upload[l].start \in Nat
    BY UploadType DEF RealOf
<1>2. recent = {l \in W : upload[l].source = src}
    BY DEF RealOf, InWindow
<1>3. run = RunIn(W, src)
    <2>1. \A k, l \in recent : (k = l \/ Older(l, k)) <=> upload[k].start >= upload[l].start
        BY <1>1, OlderFacts DEF Older
    <2> HIDE DEF W
    <2> QED BY <1>2, <2>1 DEF RunIn
<1>4. /\ counted.streak[src] = Cardinality(run)
      /\ src \in counted.closed <=> \E l \in recent : ~Fails(l)
    <2>1. Counted(W, counted)
        BY StreaksCount
    <2> HIDE DEF W, counted
    <2> QED BY <1>2, <1>3, <2>1 DEF Counted
<1>5. run \subseteq recent /\ IsFiniteSet(run) /\ Cardinality(run) \in Nat /\ IsFiniteSet(recent)
      /\ (Cardinality(run) = 0 <=> run = {})
    <2>1. run \subseteq recent /\ run \subseteq DOMAIN upload /\ recent \subseteq DOMAIN upload
        BY <1>1
    <2> QED BY <2>1, LogsFinite, FS_EmptySet
<1>6. logs # {} => latest \in logs /\ \A k \in logs : k = latest \/ Older(k, latest)
    BY LatestFacts
<1>7. health.streak = IF counted.streak[src] = 0 /\ src \notin counted.closed /\ logs # {}
                      THEN IF Fails(latest) THEN 1 ELSE 0
                      ELSE counted.streak[src]
    BY DEF Health, ConsecutiveFailures
<1>8. health.status = "failed" <=> logs # {} /\ Fails(latest)
    <2>1. CASE logs = {}
        BY <2>1 DEF Health
    <2>2. CASE logs # {} /\ Fails(latest)
        BY <2>2 DEF Health
    <2>3. CASE logs # {} /\ ~Fails(latest)
        BY <2>3 DEF Health
    <2> QED BY <2>1, <2>2, <2>3
<1> HIDE DEF counted, latest
<1>9. ASSUME recent # {} PROVE latest \in recent /\ (run # {} <=> Fails(latest))
    <2>1. latest \in logs /\ \A k \in logs : upload[k].start <= upload[latest].start
        BY <1>1, <1>6, <1>9, OlderFacts
    <2>2. PICK r : r \in recent
        BY <1>9
    <2>3. Real(latest) /\ latest \in stored
        BY <2>1 DEF RealOf
    <2>4. latest \in W
        <3>1. upload[r].start >= WindowStart(now, days) /\ r \in logs
            BY <2>2 DEF InWindow
        <3>2. WindowStart(now, days) \in Int
            <4>1. now \in Nat /\ DayLength \in Nat \ {0}
                BY UploadType, ReportsAssumption DEF Nows
            <4>2. Day(now) \in Int
                BY <4>1 DEF Day
            <4> QED BY <4>1, <4>2 DEF WindowStart, Begins
        <3>3. upload[latest].start >= WindowStart(now, days)
            BY <1>1, <2>1, <3>1, <3>2
        <3> QED BY <2>3, <3>3 DEF InWindow
    <2>5. latest \in recent
        BY <2>1, <2>4
    <2>6. \A k \in recent : upload[k].start >= upload[latest].start => k = latest
        BY <1>1, <2>1
    <2>7. Fails(latest) => latest \in run
        BY <2>5, <2>6
    <2>8. run # {} => Fails(latest)
        BY <1>1, <2>1, <2>5
    <2> QED BY <2>5, <2>7, <2>8
<1>10. recent # {} => health.streak = Cardinality(run)
    <2>1. ASSUME recent # {}, src \notin counted.closed PROVE run # {}
        BY <1>4, <1>9, <2>1
    <2> QED BY <1>4, <1>5, <1>7, <2>1
<1>11. health.streak > 0 <=> health.status = "failed"
    <2>1. CASE recent # {}
        BY <1>1, <1>5, <1>8, <1>9, <1>10, <2>1
    <2>2. CASE recent = {}
        <3>1. run = {}
            BY <1>5, <2>2
        <3> QED BY <1>4, <1>5, <1>7, <1>8, <2>2, <3>1
    <2> QED BY <2>1, <2>2
<1>12. ASSUME recent # {}, \A l \in logs : Day(upload[l].start) <= Day(now)
       PROVE  health.streak <= Total([d \in DOMAIN health.daily |-> health.daily[d].failures])
    <2> DEFINE failed == {l \in recent : Fails(l)}
               first  == Day(now) - (days - 1)
               f      == [d \in DOMAIN health.daily |-> health.daily[d].failures]
               group  == [l \in failed |-> Day(upload[l].start)]
    <2>1. Day(now) \in Int /\ first \in Int
        <3>1. now \in Nat /\ DayLength \in Nat \ {0}
            BY UploadType, ReportsAssumption DEF Nows
        <3> QED BY <3>1 DEF Day
    <2>2. /\ DOMAIN f = first .. Day(now)
          /\ \A d \in first .. Day(now) :
                f[d] = Cardinality({l \in {m \in W : upload[m].source = src
                                                     /\ Day(upload[m].start) = d} : Fails(l)})
        BY DEF Health, DailyPoint
    <2>3. \A d : {l \in {m \in W : upload[m].source = src /\ Day(upload[m].start) = d} : Fails(l)}
                   = {l \in failed : group[l] = d}
        BY <1>2
    <2>4. IsFiniteSet(DOMAIN f)
        BY <2>1, <2>2, FS_Interval
    <2>5. \A l \in failed : group[l] \in DOMAIN f
        <3> SUFFICES ASSUME NEW l \in failed PROVE Day(upload[l].start) \in first .. Day(now)
            BY <2>2
        <3>1. upload[l].start >= Begins(first) /\ upload[l].start \in Nat
            BY <1>1, <1>2 DEF InWindow, WindowStart
        <3>2. Day(upload[l].start) \in Nat /\ Day(upload[l].start) >= first
            <4> HIDE DEF first
            <4> QED BY <2>1, <3>1, DayOf
        <3>3. Day(upload[l].start) <= Day(now)
            BY <1>1, <1>12
        <3> QED BY <2>1, <3>2, <3>3
    <2>6. IsFiniteSet(failed) /\ Cardinality(failed) \in Nat
        BY <1>5, FS_Subset, FS_CardinalityType
    <2>7. \A d \in DOMAIN f : f[d] = Cardinality({l \in failed : group[l] = d})
        BY <2>2, <2>3
    <2>8. Total(f) = Cardinality(failed)
        <3> HIDE DEF f, group, failed
        <3> QED BY <2>4, <2>5, <2>6, <2>7, GroupsAddUp
    <2>9. run \subseteq failed
        BY <1>1
    <2>10. Cardinality(run) <= Cardinality(failed)
        BY <2>6, <2>9, FS_Subset
    <2> QED BY <1>10, <1>12, <2>8, <2>10
<1> HIDE DEF recent, run, health
<1> QED BY <1>10, <1>11, <1>12 DEF StreakRight, recent, run, health

(* Theorem: the streak on a card of a source counts its failures since its  *)
(* last success, is positive exactly if the card says the source has failed *)
(* and is at most the sum of the failures by day, for any logs and length   *)
(* of a day.  About _consecutive_failures and _latest_per_source.           *)
THEOREM StreaksAgree == Spec => []StreakAgrees
<1>1. TrailInv => StreakAgrees
    <2> SUFFICES ASSUME TableOK PROVE StreakAgrees
        BY DEF TrailInv, ReaderTypes
    <2> SUFFICES ASSUME NEW src \in Sources \ {Synthetic}, NEW now \in Nows, NEW days \in {1, 2},
                        \A a, b \in RealOf(src) : a # b => upload[a].start # upload[b].start
                 PROVE  StreakRight(src, now, days)
        BY DEF StreakAgrees
    <2> QED BY StreakFacts
<1>2. Init => TrailInv
    BY TrailStart
<1>3. TrailInv /\ [Next]_vars => TrailInv'
    BY TrailStep
<1> QED BY <1>1, <1>2, <1>3, PTL DEF Spec

(***************************************************************************)
(* Reports over the same rows.                                             *)
(***************************************************************************)

LEMMA GroupTotals ==
    ASSUME NEW rows, IsFiniteSet(rows), NEW group, DOMAIN group = rows,
           NEW f, DOMAIN f = {group[l] : l \in rows}, NEW S, S \subseteq rows,
           \A d \in DOMAIN f : f[d] = Cardinality({l \in S : group[l] = d})
    PROVE  Total(f) = Cardinality(S)
<1> DEFINE g == [l \in rows |-> group[l]]
<1>1. g \in Surjection(rows, DOMAIN f)
    BY DEF Surjection
<1>2. IsFiniteSet(DOMAIN f)
    BY <1>1, FS_Surjection
<1>3. IsFiniteSet(S)
    BY FS_Subset
<1> QED BY <1>2, <1>3, GroupsAddUp

Won(rows) == {l \in rows : upload[l].exit = "zero"}

LEMMA SummaryTotals ==
    ASSUME TableOK, NEW q, NEW period
    PROVE  /\ Syncs(SummaryData(q, period)) = Cardinality(SummaryRows(q))
           /\ Successes(SummaryData(q, period)) = Cardinality(Won(SummaryRows(q)))
<1> DEFINE rows  == SummaryRows(q)
           group == [l \in rows |-> Day(upload[l].start) \div period]
           f     == SummaryData(q, period)
           total == [x \in DOMAIN f |-> f[x].total]
           won   == [x \in DOMAIN f |-> f[x].succeeded]
<1>1. IsFiniteSet(rows)
    <2>1. rows \subseteq DOMAIN upload
        BY UploadType DEF SummaryRows
    <2> QED BY <2>1, LogsFinite
<1>2. /\ DOMAIN f = {group[l] : l \in rows}
      /\ \A d \in DOMAIN f : f[d].total = Cardinality({l \in rows : group[l] = d})
    BY DEF SummaryData
<1>3. \A d \in DOMAIN f : f[d].succeeded = Cardinality({l \in Won(rows) : group[l] = d})
    <2> SUFFICES ASSUME NEW d \in DOMAIN f
                 PROVE  f[d].succeeded = Cardinality({l \in Won(rows) : group[l] = d})
        OBVIOUS
    <2> DEFINE In == {l \in rows : Day(upload[l].start) \div period = d}
    <2>1. f[d].succeeded = Succeeded(In)
        BY DEF SummaryData
    <2>2. {l \in In : upload[l].exit = "zero"} = {l \in Won(rows) : group[l] = d}
        BY DEF Won
    <2> HIDE DEF f, In, group
    <2> QED BY <2>1, <2>2 DEF Succeeded
<1>4. Won(rows) \subseteq rows /\ rows \subseteq rows /\ DOMAIN group = rows
    BY DEF Won
<1> HIDE DEF f, rows, group
<1>5. Total(total) = Cardinality(rows)
    <2>1. DOMAIN total = {group[l] : l \in rows}
        BY <1>2
    <2>2. \A d \in DOMAIN total : total[d] = Cardinality({l \in rows : group[l] = d})
        BY <1>2
    <2> HIDE DEF total
    <2> QED BY <1>1, <1>4, <2>1, <2>2, GroupTotals
<1>6. Total(won) = Cardinality(Won(rows))
    <2>1. DOMAIN won = {group[l] : l \in rows}
        BY <1>2
    <2>2. \A d \in DOMAIN won : won[d] = Cardinality({l \in Won(rows) : group[l] = d})
        BY <1>2, <1>3
    <2> HIDE DEF won
    <2> QED BY <1>1, <1>4, <2>1, <2>2, GroupTotals
<1> QED BY <1>5, <1>6 DEF Syncs, Successes, rows, f

LEMMA StatsTotals ==
    ASSUME TableOK, NEW q
    PROVE  /\ Syncs(SourceStats(q)) = Cardinality(StatsRows(q))
           /\ Successes(SourceStats(q)) = Cardinality(Won(StatsRows(q)))
<1> DEFINE rows  == StatsRows(q)
           group == [l \in rows |-> upload[l].source]
           f     == SourceStats(q)
           total == [x \in DOMAIN f |-> f[x].total]
           won   == [x \in DOMAIN f |-> f[x].succeeded]
<1>1. IsFiniteSet(rows)
    <2>1. rows \subseteq DOMAIN upload
        BY UploadType DEF StatsRows
    <2> QED BY <2>1, LogsFinite
<1>2. /\ DOMAIN f = {group[l] : l \in rows}
      /\ \A d \in DOMAIN f : f[d].total = Cardinality({l \in rows : group[l] = d})
    BY DEF SourceStats
<1>3. \A d \in DOMAIN f : f[d].succeeded = Cardinality({l \in Won(rows) : group[l] = d})
    <2> SUFFICES ASSUME NEW d \in DOMAIN f
                 PROVE  f[d].succeeded = Cardinality({l \in Won(rows) : group[l] = d})
        OBVIOUS
    <2> DEFINE Of == {l \in rows : upload[l].source = d}
    <2>1. f[d].succeeded = Succeeded(Of)
        BY DEF SourceStats
    <2>2. {l \in Of : upload[l].exit = "zero"} = {l \in Won(rows) : group[l] = d}
        BY DEF Won
    <2> HIDE DEF f, Of, group
    <2> QED BY <2>1, <2>2 DEF Succeeded
<1>4. Won(rows) \subseteq rows /\ rows \subseteq rows /\ DOMAIN group = rows
    BY DEF Won
<1> HIDE DEF f, rows, group
<1>5. Total(total) = Cardinality(rows)
    <2>1. DOMAIN total = {group[l] : l \in rows}
        BY <1>2
    <2>2. \A d \in DOMAIN total : total[d] = Cardinality({l \in rows : group[l] = d})
        BY <1>2
    <2> HIDE DEF total
    <2> QED BY <1>1, <1>4, <2>1, <2>2, GroupTotals
<1>6. Total(won) = Cardinality(Won(rows))
    <2>1. DOMAIN won = {group[l] : l \in rows}
        BY <1>2
    <2>2. \A d \in DOMAIN won : won[d] = Cardinality({l \in Won(rows) : group[l] = d})
        BY <1>2, <1>3
    <2> HIDE DEF won
    <2> QED BY <1>1, <1>4, <2>1, <2>2, GroupTotals
<1> QED BY <1>5, <1>6 DEF Syncs, Successes, rows, f

(* A report is asked for days that are given, and of every source: then     *)
(* the three queries have the same rows.                                    *)
LEMMA SameRows ==
    ASSUME TableOK, NEW q \in ReportQueries
    PROVE  SummaryRows(q) = StatsRows(q) /\ ExportRows(q, {}) = StatsRows(q)
<1>1. q.source = AnySource /\ q.from # NULL /\ q.to # NULL
    <2>1. \A l \in stored : Day(upload[l].start) # NULL
        <3> SUFFICES ASSUME NEW l \in stored PROVE Day(upload[l].start) # NULL
            OBVIOUS
        <3>1. upload[l].start \in Nat /\ upload[l].start >= DayLength
            BY UploadType, ReportsAssumption DEF TableOK
        <3>2. upload[l].start >= Begins(1)
            BY <3>1, ReportsAssumption DEF Begins
        <3>3. Day(upload[l].start) \in Nat /\ Day(upload[l].start) >= 1
            BY <3>1, <3>2, DayOf
        <3> QED BY <3>3 DEF NULL
    <2> QED BY <2>1 DEF ReportQueries
<1>2. SummaryRows(q) = StatsRows(q)
    BY <1>1 DEF SummaryRows, StatsRows, InRange
<1>3. ExportRows(q, {}) = StatsRows(q)
    BY DEF ExportRows, StatsRows
<1> QED BY <1>2, <1>3

LEMMA SumsAgreeing == ASSUME TableOK, NEW q \in ReportQueries PROVE SumsAgree(q)
    BY SameRows, SummaryTotals, StatsTotals DEF SumsAgree

(* A list of the rows by starting time has each of them once.               *)
Lists(rows, S, n) ==
    /\ n \in Nat /\ rows \in [1 .. n -> S] /\ rows \in Seq(S) /\ Len(rows) = n
    /\ \A l \in S : \E i \in 1 .. n : rows[i] = l
    /\ \A i, j \in 1 .. n : rows[i] = rows[j] => i = j
    /\ \A i, j \in 1 .. n : i < j => upload[rows[i]].start >= upload[rows[j]].start

LEMMA ListFacts ==
    ASSUME TableOK, NEW S, S \subseteq DOMAIN upload, NEW rows \in LatestFirst(S)
    PROVE  Lists(rows, S, Cardinality(S))
<1> DEFINE n == Cardinality(S)
<1>1. n \in Nat
    BY LogsFinite
<1>2. /\ rows \in [1 .. n -> S] /\ DOMAIN rows = 1 .. n
      /\ \A l \in S : \E i \in 1 .. n : rows[i] = l
      /\ \A i, j \in 1 .. n : rows[i] = rows[j] => i = j
      /\ \A i, j \in DOMAIN rows : i < j => upload[rows[i]].start >= upload[rows[j]].start
    BY DEF LatestFirst, Bijection, Injection, Surjection, IsInjective
<1> HIDE DEF n
<1>3. rows \in Seq(S) /\ Len(rows) = n
    BY <1>1, <1>2
<1>4. Lists(rows, S, n)
    BY <1>1, <1>2, <1>3 DEF Lists
<1> QED BY <1>4 DEF n

(* Of two lists of the rows by starting time, none starts later at a place  *)
(* than the other: the rows up to there would not fit before it.            *)
LEMMA NoneLater ==
    ASSUME TableOK, NEW S, S \subseteq DOMAIN upload, NEW n, n = Cardinality(S),
           NEW one \in LatestFirst(S), NEW two \in LatestFirst(S), NEW i \in 1 .. n
    PROVE  upload[one[i]].start <= upload[two[i]].start
<1> SUFFICES ASSUME ~(upload[one[i]].start <= upload[two[i]].start) PROVE FALSE
    OBVIOUS
<1> DEFINE place == [j \in 1 .. i |-> CHOOSE k \in 1 .. n : two[k] = one[j]]
<1>1. /\ n \in Nat /\ \A k \in 1 .. n : one[k] \in S /\ two[k] \in S
      /\ \A l \in S : \E k \in 1 .. n : two[k] = l
      /\ \A j, k \in 1 .. n : one[j] = one[k] => j = k
      /\ \A j, k \in 1 .. n : j < k => upload[one[j]].start >= upload[one[k]].start
      /\ \A j, k \in 1 .. n : j < k => upload[two[j]].start >= upload[two[k]].start
    <2>1. Lists(one, S, n) /\ Lists(two, S, n)
        BY ListFacts
    <2> QED BY <2>1 DEF Lists
<1>2. \A l \in S : upload[l].start \in Nat
    BY UploadType
<1>3. i \in Nat /\ \A j \in 1 .. i : j \in 1 .. n
    BY <1>1
<1>4. ASSUME NEW j \in 1 .. i
      PROVE  place[j] \in 1 .. n /\ two[place[j]] = one[j]
    BY <1>1, <1>3
<1>5. ASSUME NEW j \in 1 .. i
      PROVE  place[j] \in 1 .. i - 1
    <2> HIDE DEF place
    <2>1. upload[one[j]].start >= upload[one[i]].start
        <3>1. CASE j = i
            BY <1>1, <1>2, <1>3, <3>1
        <3>2. CASE j # i
            BY <1>1, <1>3, <3>2
        <3> QED BY <3>1, <3>2
    <2>2. /\ upload[two[place[j]]].start \in Nat /\ upload[two[i]].start \in Nat
          /\ upload[one[i]].start \in Nat
          /\ upload[two[place[j]]].start > upload[two[i]].start
        BY <1>1, <1>2, <1>3, <1>4, <2>1
    <2>3. ~(i < place[j]) /\ i # place[j]
        BY <1>1, <1>3, <1>4, <2>2
    <2> QED BY <1>1, <1>3, <1>4, <2>3
<1>6. place \in [1 .. i -> 1 .. i - 1]
    BY <1>5
<1>7. \E j, k \in 1 .. i : j # k /\ place[j] = place[k]
    <2>1. /\ IsFiniteSet(1 .. i) /\ Cardinality(1 .. i) = i
          /\ IsFiniteSet(1 .. i - 1) /\ Cardinality(1 .. i - 1) = i - 1
        <3>1. 1 \in Int /\ i \in Int /\ i - 1 \in Int /\ i >= 1
            BY <1>3
        <3> QED BY <3>1, FS_Interval
    <2>2. Cardinality(1 .. i - 1) < Cardinality(1 .. i)
        BY <1>3, <2>1
    <2> HIDE DEF place
    <2> QED BY <1>6, <2>1, <2>2, FS_PigeonHole
<1> HIDE DEF place
<1> QED BY <1>1, <1>3, <1>4, <1>7

LEMMA SameStarts ==
    ASSUME TableOK, NEW S, S \subseteq DOMAIN upload, NEW n, n = Cardinality(S),
           NEW one \in LatestFirst(S), NEW two \in LatestFirst(S), NEW i \in 1 .. n
    PROVE  upload[one[i]].start = upload[two[i]].start
<1>1. upload[one[i]].start <= upload[two[i]].start /\ upload[two[i]].start <= upload[one[i]].start
    BY NoneLater
<1>2. upload[one[i]].start \in Nat /\ upload[two[i]].start \in Nat
    <2>1. one \in [1 .. n -> S] /\ two \in [1 .. n -> S]
        BY ListFacts DEF Lists
    <2> QED BY <2>1, UploadType
<1> QED BY <1>1, <1>2

(* What a request exports is a part of some list of the rows.               *)
PartOf(S, n, part, first, limit) ==
    /\ Len(part) \in Nat /\ DOMAIN part = 1 .. Len(part) /\ part \in Seq(S)
    /\ limit <= MaxExport =>
          Len(part) = IF n <= first THEN 0 ELSE IF n <= first + limit THEN n - first ELSE limit
    /\ \E rows \in LatestFirst(S) : \A i \in 1 .. Len(part) : part[i] = rows[first + i]

LEMMA ExportFacts ==
    ASSUME TableOK, NEW q, NEW sources, NEW first \in Nat, NEW limit \in Nat,
           NEW part \in Export(q, sources, first, limit)
    PROVE  PartOf(ExportRows(q, sources), Cardinality(ExportRows(q, sources)), part, first, limit)
<1> DEFINE S == ExportRows(q, sources)
           n == Cardinality(S)
<1>1. PICK rows \in LatestFirst(S) :
         part = SubSeq(rows, first + 1, Min({Len(rows), first + limit, first + MaxExport}))
    BY DEF Export
<1> DEFINE E == {Len(rows), first + limit, first + MaxExport}
<1>2. S \subseteq DOMAIN upload
    BY UploadType DEF ExportRows
<1>3. n \in Nat /\ Len(rows) = n /\ rows \in Seq(S)
    <2>1. n = Cardinality(S)
        OBVIOUS
    <2> HIDE DEF S, n
    <2> QED BY <1>1, <1>2, <2>1, ListFacts DEF Lists
<1>4. MaxExport \in Nat
    BY ReportsAssumption
<1>5. Min(E) \in E /\ Min(E) \in 0 .. Len(rows) /\ \A m \in E : Min(E) <= m
    <2>1. E \subseteq Nat /\ E # {} /\ Len(rows) \in E
        BY <1>3, <1>4
    <2> HIDE DEF E
    <2>2. Min(E) \in E /\ \A m \in E : Min(E) <= m
        BY <2>1, MinIsLeast
    <2>3. Len(rows) \in Nat /\ Min(E) \in Nat /\ Min(E) <= Len(rows)
        BY <1>3, <2>1, <2>2
    <2>4. Min(E) \in 0 .. Len(rows)
        BY <2>3
    <2> QED BY <2>2, <2>4
<1>6. limit <= MaxExport => Min(E) = IF n <= first + limit THEN n ELSE first + limit
    BY <1>3, <1>4, <1>5
<1>7. part = SubSeq(rows, first + 1, Min(E))
    BY <1>1
<1> HIDE DEF E, S, n
<1>8. /\ part \in Seq(S) /\ Len(part) \in Nat /\ DOMAIN part = 1 .. Len(part)
      /\ Len(part) = IF first < Min(E) THEN Min(E) - first ELSE 0
      /\ \A i \in 1 .. Len(part) : part[i] = rows[first + i]
    <2> DEFINE last == Min(E)
    <2>1. last \in 0 .. Len(rows) /\ part = SubSeq(rows, first + 1, last) /\ rows \in Seq(S)
        BY <1>3, <1>5, <1>7
    <2> HIDE DEF last
    <2>2. /\ part \in Seq(S) /\ Len(part) \in Nat /\ DOMAIN part = 1 .. Len(part)
          /\ Len(part) = IF first < last THEN last - first ELSE 0
          /\ \A i \in 1 .. Len(part) : part[i] = rows[first + i]
        BY <2>1, PartFacts
    <2> QED BY <2>2 DEF last
<1>9. limit <= MaxExport =>
         Len(part) = IF n <= first THEN 0 ELSE IF n <= first + limit THEN n - first ELSE limit
    BY <1>3, <1>6, <1>8
<1> QED BY <1>1, <1>8, <1>9 DEF PartOf, S, n

LEMMA PagesFitting ==
    ASSUME TableOK, NEW q \in ReportQueries,
           NEW one \in Export(q, {}, 0, MaxExport), NEW two \in Export(q, {}, MaxExport, MaxExport)
    PROVE  PagesFit(q, one, two)
<1> DEFINE S     == ExportRows(q, {})
           n     == Cardinality(S)
           pages == one \o two
           syncs == Syncs(SourceStats(q))
<1>1. MaxExport \in Nat \ {0} /\ S \subseteq DOMAIN upload /\ n \in Nat /\ syncs = n
    <2>1. S \subseteq DOMAIN upload
        BY UploadType DEF ExportRows
    <2>2. n \in Nat
        BY <2>1, LogsFinite
    <2>3. syncs = n
        BY SameRows, StatsTotals
    <2> QED BY <2>1, <2>2, <2>3, ReportsAssumption
<1>2. PartOf(S, n, one, 0, MaxExport) /\ PartOf(S, n, two, MaxExport, MaxExport)
    BY <1>1, ExportFacts
<1> HIDE DEF S, n, syncs
<1>3. PICK rows1 \in LatestFirst(S) : \A i \in 1 .. Len(one) : one[i] = rows1[0 + i]
    BY <1>2 DEF PartOf
<1>4. PICK rows2 \in LatestFirst(S) : \A i \in 1 .. Len(two) : two[i] = rows2[MaxExport + i]
    BY <1>2 DEF PartOf
<1>5. /\ Len(one) \in Nat /\ one \in Seq(S)
      /\ Len(one) = IF n <= 0 THEN 0 ELSE IF n <= 0 + MaxExport THEN n - 0 ELSE MaxExport
    <2>1. MaxExport <= MaxExport
        BY <1>1
    <2> QED BY <1>2, <2>1, Zenon DEF PartOf
<1>6. /\ Len(two) \in Nat /\ two \in Seq(S)
      /\ Len(two) = IF n <= MaxExport THEN 0
                    ELSE IF n <= MaxExport + MaxExport THEN n - MaxExport ELSE MaxExport
    <2>1. MaxExport <= MaxExport
        BY <1>1
    <2> QED BY <1>2, <2>1, Zenon DEF PartOf
<1>7. /\ DOMAIN pages = 1 .. Len(pages) /\ Len(pages) \in Nat
      /\ Len(pages) = IF n <= 2 * MaxExport THEN n ELSE 2 * MaxExport
      /\ \A i \in DOMAIN pages : i \in 1 .. n /\ pages[i] \in {rows1[i], rows2[i]}
    <2>1. pages \in Seq(S) /\ Len(pages) = Len(one) + Len(two)
        BY <1>5, <1>6
    <2>2. Len(pages) = IF n <= 2 * MaxExport THEN n ELSE 2 * MaxExport
        BY <1>1, <1>5, <1>6, <2>1
    <2>3. ASSUME NEW i \in 1 .. Len(pages)
          PROVE  i \in 1 .. n /\ pages[i] \in {rows1[i], rows2[i]}
        <3>1. i \in 1 .. n
            BY <1>1, <2>2
        <3>2. CASE i <= Len(one)
            <4>1. pages[i] = one[i] /\ i \in 1 .. Len(one)
                BY <1>5, <1>6, <3>1, <3>2
            <4> QED BY <1>3, <3>1, <4>1
        <3>3. CASE i > Len(one)
            <4>1. n > MaxExport /\ Len(one) = MaxExport /\ i - MaxExport \in 1 .. Len(two)
                BY <1>1, <1>5, <1>6, <2>2, <3>3
            <4>2. pages[i] = two[i - MaxExport]
                BY <1>1, <1>5, <1>6, <3>3, <4>1
            <4>3. MaxExport + (i - MaxExport) = i
                BY <1>1
            <4> QED BY <1>4, <3>1, <4>1, <4>2, <4>3
        <3> QED BY <1>1, <1>5, <3>1, <3>2, <3>3
    <2> QED BY <2>1, <2>2, <2>3
<1> HIDE DEF pages
<1>8. ASSUME NEW list \in LatestFirst(S), NEW i \in DOMAIN pages
      PROVE  upload[pages[i]].start = upload[list[i]].start
    <2>1. i \in 1 .. n /\ pages[i] \in {rows1[i], rows2[i]}
        BY <1>7
    <2>2. /\ upload[rows1[i]].start = upload[list[i]].start
          /\ upload[rows2[i]].start = upload[list[i]].start
        BY <1>1, <1>3, <1>4, <2>1, SameStarts DEF n
    <2> QED BY <2>1, <2>2
<1>9. ASSUME NEW l \in S, \A k \in S \ {l} : upload[k].start # upload[l].start
      PROVE  LET at == {i \in DOMAIN pages : pages[i] = l}
             IN /\ \A i, j \in at : i = j
                /\ syncs <= 2 * MaxExport => at # {}
    <2> USE DEF Lists
    <2>0. Lists(rows1, S, n) /\ Lists(rows2, S, n)
        <3> HIDE DEF Lists
        <3> QED BY <1>1, <1>3, <1>4, ListFacts DEF n
    <2>1. /\ \A i \in 1 .. n : rows1[i] \in S
          /\ \A i, j \in 1 .. n : rows1[i] = rows1[j] => i = j
        BY <2>0
    <2>2. PICK k \in 1 .. n : rows1[k] = l
        BY <2>0
    <2>3. ASSUME NEW i \in DOMAIN pages, pages[i] = l PROVE i = k
        <3>1. upload[l].start = upload[rows1[i]].start /\ i \in 1 .. n
            BY <1>3, <1>7, <1>8, <2>3
        <3>2. rows1[i] = l
            BY <1>9, <2>1, <3>1
        <3> QED BY <2>1, <2>2, <3>1, <3>2
    <2>4. ASSUME syncs <= 2 * MaxExport PROVE k \in DOMAIN pages /\ pages[k] = l
        <3>1. k \in DOMAIN pages
            BY <1>1, <1>7, <2>4
        <3>2. upload[pages[k]].start = upload[l].start
            BY <1>3, <1>8, <2>2, <3>1
        <3>3. pages[k] \in S
            <4>1. rows2[k] \in S
                BY <2>0
            <4> QED BY <1>7, <2>1, <3>1, <4>1
        <3> QED BY <1>9, <3>1, <3>2, <3>3
    <2> QED BY <2>3, <2>4
<1>10. syncs <= 2 * MaxExport => Len(pages) = syncs
    BY <1>1, <1>7
<1> QED BY <1>8, <1>9, <1>10 DEF PagesFit, S, pages, syncs

LEMMA LastAgreeing ==
    ASSUME TableOK, NEW q \in ReportQueries, NEW s \in DOMAIN SourceStats(q), s # Synthetic,
           NEW top \in Export(q, {s}, 0, 1)
    PROVE  SourceStats(q)[s].last = upload[top[1]].start
<1> DEFINE Of == {l \in StatsRows(q) : upload[l].source = s}
           n  == Cardinality(Of)
           T  == {upload[l].start : l \in Of}
<1>1. SourceStats(q)[s].last = Max(T) /\ Of # {}
    BY DEF SourceStats
<1>2. ExportRows(q, {s}) = Of
    <2>1. q.synthetic # "only"
        BY DEF SourceStats, StatsRows
    <2> QED BY <2>1 DEF ExportRows, StatsRows
<1>3. Of \subseteq DOMAIN upload /\ T \subseteq Nat
    BY UploadType DEF StatsRows
<1>4. PartOf(Of, n, top, 0, 1) /\ 1 <= MaxExport
    <2>1. PartOf(ExportRows(q, {s}), Cardinality(ExportRows(q, {s})), top, 0, 1)
        BY ExportFacts
    <2>2. 1 <= MaxExport
        BY ReportsAssumption
    <2> HIDE DEF Of
    <2> QED BY <1>2, <2>1, <2>2
<1> HIDE DEF Of
<1>5. PICK mine \in LatestFirst(Of) : \A i \in 1 .. Len(top) : top[i] = mine[0 + i]
    BY <1>4 DEF PartOf
<1>6. /\ n \in Nat /\ \A i \in 1 .. n : mine[i] \in Of
      /\ \A l \in Of : \E i \in 1 .. n : mine[i] = l
      /\ \A i, j \in 1 .. n : i < j => upload[mine[i]].start >= upload[mine[j]].start
    <2>1. Lists(mine, Of, n)
        BY <1>3, <1>5, ListFacts
    <2> HIDE DEF n
    <2> QED BY <2>1 DEF Lists
<1>7. 1 \in 1 .. n
    <2>1. \E i \in 1 .. n : TRUE
        BY <1>1, <1>6
    <2> QED BY <1>6, <2>1
<1>8. top[1] = mine[1] /\ mine[1] \in Of
    <2> HIDE DEF n
    <2>1. Len(top) = IF n <= 0 THEN 0 ELSE IF n <= 0 + 1 THEN n - 0 ELSE 1
        BY <1>4 DEF PartOf
    <2> QED BY <1>5, <1>6, <1>7, <2>1
<1>9. \A l \in Of : upload[l].start <= upload[mine[1]].start
    <2> SUFFICES ASSUME NEW l \in Of PROVE upload[l].start <= upload[mine[1]].start
        OBVIOUS
    <2>1. PICK i \in 1 .. n : mine[i] = l
        BY <1>6
    <2>2. upload[l].start \in Nat /\ upload[mine[1]].start \in Nat
        BY <1>3, <1>8, UploadType
    <2> QED BY <1>6, <1>7, <2>1, <2>2
<1>10. Max(T) = upload[mine[1]].start
    <2>1. upload[mine[1]].start \in T /\ \A k \in T : k <= upload[mine[1]].start
        BY <1>8, <1>9
    <2> HIDE DEF T
    <2>2. Counting!Max(T) = upload[mine[1]].start
        BY <1>3, <2>1, Counting!MaxOf
    <2> QED BY <2>2 DEF Max, Counting!Max
<1> QED BY <1>1, <1>8, <1>10

LEMMA ExportAgreeing == ASSUME TableOK, NEW q \in ReportQueries PROVE ExportAgrees(q)
<1>1. \A s \in DOMAIN SourceStats(q) \ {Synthetic} : \A top \in Export(q, {s}, 0, 1) :
         SourceStats(q)[s].last = upload[top[1]].start
    BY LastAgreeing
<1>2. \A one \in Export(q, {}, 0, MaxExport), two \in Export(q, {}, MaxExport, MaxExport) :
         PagesFit(q, one, two)
    BY PagesFitting
<1> QED BY <1>1, <1>2 DEF ExportAgrees

LEMMA SourcesAgreeing == ASSUME TableOK PROVE SourcesAgree
<1> DEFINE all == [from |-> NULL, to |-> NULL, synthetic |-> "hide", source |-> AnySource]
<1>1. StatsRows(all) = {l \in stored : upload[l].source # Synthetic}
    BY DEF StatsRows, InRange
<1>2. DOMAIN SourceStats(all) = SourceNames
    BY <1>1 DEF SourceStats, SourceNames
<1>3. ASSUME NEW s \in Sources, Health(s, NULL, 1).status # "never" PROVE s \in SourceNames
    <2>1. RealOf(s) # {}
        BY <1>3 DEF Health
    <2> QED BY <2>1 DEF RealOf, Real, SourceNames
<1> QED BY <1>2, <1>3 DEF SourcesAgree

LEMMA MediaAgreeing ==
    ASSUME NEW since, IsFiniteSet(DOMAIN items)
    PROVE  MediaAgrees(since)
<1> DEFINE episodes == {k \in Recent(since) : k.kind = "episode"}
           group    == [k \in episodes |-> Show(k)]
           shows    == NewShows(since)
           f        == [s \in DOMAIN shows |-> Cardinality(shows[s])]
<1>1. IsFiniteSet(episodes)
    <2>1. episodes \subseteq DOMAIN items
        BY DEF Recent
    <2> QED BY <2>1, FS_Subset
<1>2. /\ DOMAIN shows = {Show(k) : k \in episodes}
      /\ \A s \in DOMAIN shows : shows[s] = {k \in episodes : Show(k) = s}
    BY DEF NewShows
<1>3. Total(f) = Cardinality(episodes)
    <2>1. DOMAIN f = {group[k] : k \in episodes} /\ DOMAIN group = episodes /\ episodes \subseteq episodes
        BY <1>2
    <2>2. \A s \in DOMAIN f : f[s] = Cardinality({k \in episodes : group[k] = s})
        <3> SUFFICES ASSUME NEW s \in DOMAIN shows
                     PROVE  Cardinality(shows[s]) = Cardinality({k \in episodes : group[k] = s})
            OBVIOUS
        <3>1. shows[s] = {k \in episodes : group[k] = s}
            BY <1>2
        <3> QED BY <3>1
    <2> HIDE DEF f, group, episodes
    <2> QED BY <1>1, <2>1, <2>2, GroupTotals
<1>4. Summary(since).episodes = Cardinality(episodes)
    BY DEF Summary
<1>5. Summary(since).shows = Cardinality(DOMAIN shows)
    BY <1>2 DEF Summary
<1>6. Summary(since).movies = Cardinality(NewMovies(since))
    BY DEF Summary, NewMovies
<1> HIDE DEF episodes, shows
<1> QED BY <1>3, <1>4, <1>5, <1>6 DEF MediaAgrees, shows
=============================================================================
