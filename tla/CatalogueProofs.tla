--------------------------- MODULE CatalogueProofs ---------------------------
(***************************************************************************)
(* Proofs about the catalogue of LogViews: for any uploads, catalogues of  *)
(* the older version and size of batch, an item is shown as present        *)
(* exactly if it was sent last, and no sighting is lost.  The theorem that *)
(* all reports agree is here too: it needs a finite catalogue.             *)
(***************************************************************************)
EXTENDS LogViewsProofs

Recording == INSTANCE FoldLemmas WITH Op <- RecordLog
Repairing == INSTANCE FoldLemmas WITH Op <- RepairPhantom

(***************************************************************************)
(* What an upload says.                                                    *)
(***************************************************************************)

LEMMA UploadFacts ==
    ASSUME NEW l \in Logs, NEW u \in Uploads[l]
    PROVE  /\ u.start \in Time /\ u.start # NULL /\ u.source \in Sources /\ l # NULL
           /\ Transfers(u) \subseteq Nat /\ IsFiniteSet(Transfers(u))
           /\ \A i \in Transfers(u) : PathOK(u.lines[i].path)
<1>1. Len(u.lines) \in Nat /\ DOMAIN u.lines = 1 .. Len(u.lines)
    BY LogTableAssumption
<1>2. IsFiniteSet(1 .. Len(u.lines))
    BY <1>1, FS_Interval
<1>3. Transfers(u) \subseteq 1 .. Len(u.lines)
    BY <1>1 DEF Transfers, FileList
<1>4. IsFiniteSet(Transfers(u))
    BY <1>2, <1>3, FS_Subset
<1>5. \A i \in Transfers(u) : PathOK(u.lines[i].path)
    BY CatalogueAssumption DEF Transfers, FileList
<1> QED BY <1>1, <1>3, <1>4, <1>5, LogTableAssumption DEF Time, NULL

(* A path has one key at most.                                              *)
LEMMA OneMatch ==
    ASSUME NEW p, NEW x \in Classify(p), NEW y \in Classify(p)
    PROVE  x = y
<1>1. CASE EpisodeMatch(p) # {}
    <2>1. \A d, e \in EpisodeMatch(p) : d = e
        BY DEF EpisodeMatch
    <2> QED BY <1>1, <2>1 DEF Classify
<1>2. CASE EpisodeMatch(p) = {}
    <2>1. \A m, n \in MovieMatch(p) : m = n
        BY DEF MovieMatch
    <2> QED BY <1>2, <2>1 DEF Classify
<1> QED BY <1>1, <1>2

LEMMA KeysFinite ==
    ASSUME NEW p
    PROVE  IsFiniteSet(ClassifyTransfer(p))
<1>1. CASE ClassifyTransfer(p) = {}
    BY <1>1, FS_EmptySet
<1>2. CASE ClassifyTransfer(p) # {}
    <2>1. PICK x : ClassifyTransfer(p) = {x}
        BY <1>2, OneMatch DEF ClassifyTransfer
    <2> QED BY <2>1, FS_Singleton
<1> QED BY <1>1, <1>2

LEMMA SentFinite ==
    ASSUME NEW l \in Logs, NEW u \in Uploads[l]
    PROVE  IsFiniteSet(Sent(u))
<1> DEFINE keys == [i \in Transfers(u) |-> ClassifyTransfer(u.lines[i].path)]
           T == {ClassifyTransfer(u.lines[i].path) : i \in Transfers(u)}
<1>1. keys \in Surjection(Transfers(u), T)
    BY DEF Surjection
<1>2. IsFiniteSet(T)
    BY <1>1, UploadFacts, FS_Surjection
<1>3. \A s \in T : IsFiniteSet(s)
    BY KeysFinite
<1> QED BY <1>2, <1>3, FS_UNION DEF Sent

LEMMA FirstPathOK ==
    ASSUME NEW l \in Logs, NEW u \in Uploads[l], NEW k \in Sent(u)
    PROVE  PathOK(FirstPath(u, k))
<1> DEFINE S == {i \in Transfers(u) : k \in ClassifyTransfer(u.lines[i].path)}
<1>1. S # {} /\ S \subseteq Nat /\ \A i \in S : PathOK(u.lines[i].path)
    BY UploadFacts DEF Sent
<1>2. Min(S) \in S
    <2> HIDE DEF S
    <2> QED BY <1>1, Recording!LeastNumber DEF Min
<1>3. FirstPath(u, k) = u.lines[Min(S)].path
    BY DEF FirstPath
<1> HIDE DEF S
<1> QED BY <1>1, <1>2, <1>3

(***************************************************************************)
(* The recording of one log, on any catalogue.                             *)
(***************************************************************************)

RowsOK(its) == IsFiniteSet(DOMAIN its) /\ \A k \in DOMAIN its : RowOK(its[k])

(* What a first sighting said stays.                                        *)
Kept(its, new) ==
    \A k \in DOMAIN its :
       /\ k \in DOMAIN new
       /\ new[k].path = its[k].path /\ new[k].source = its[k].source
       /\ new[k].first = its[k].first /\ new[k].log = its[k].log
       /\ new[k].phantom = its[k].phantom

LEMMA KeptTrans ==
    ASSUME NEW a, NEW b, NEW c, Kept(a, b), Kept(b, c)
    PROVE  Kept(a, c)
    BY DEF Kept

(* New items are of this log and no phantoms; the log decides of the items  *)
(* it speaks of whether they are present, and of no others.                 *)
LEMMA RecordFacts ==
    ASSUME NEW its, RowsOK(its), NEW l \in Logs, NEW u \in Uploads[l], Eligible(u),
           NEW new, new = RecordMedia(its, l, u)
    PROVE  /\ RowsOK(new) /\ Kept(its, new)
           /\ DOMAIN new = DOMAIN its \cup Sent(u)
           /\ \A k \in DOMAIN new \ DOMAIN its : ~new[k].phantom /\ new[k].log = l
           /\ \A k \in Sent(u) : new[k].removed = NULL
           /\ \A k \in DOMAIN its \ Sent(u) :
                 IF Reaches(u, k, its[k]) THEN new[k].removed # NULL
                 ELSE new[k].removed = its[k].removed
<1> DEFINE retired == RetireMedia(its, u)
           back    == BroughtBack(retired, u)
<1>1. /\ DOMAIN retired = DOMAIN its
      /\ \A k \in DOMAIN its :
            /\ RowOK(retired[k]) /\ Kept(its, retired)
            /\ IF Reaches(u, k, its[k]) THEN retired[k].removed # NULL
               ELSE retired[k].removed = its[k].removed
    BY UploadFacts DEF RetireMedia, RowsOK, RowOK, Kept
<1> HIDE DEF retired
<1>2. /\ DOMAIN back = DOMAIN its
      /\ \A k \in DOMAIN its :
            /\ RowOK(back[k]) /\ Kept(retired, back)
            /\ back[k].removed = IF k \in Sent(u) THEN NULL ELSE retired[k].removed
    BY <1>1 DEF BroughtBack, RowOK, Kept, NULL
<1>3. new = Insert(back, l, u)
    BY DEF RecordMedia, retired
<1> HIDE DEF back
<1>4. /\ DOMAIN new = DOMAIN its \cup Sent(u)
      /\ \A k \in DOMAIN its : new[k] = back[k]
      /\ \A k \in Sent(u) \ DOMAIN its : new[k] = NewItem(l, u, k)
    BY <1>2, <1>3 DEF Insert
<1>5. \A k \in Sent(u) : RowOK(NewItem(l, u, k)) /\ ~NewItem(l, u, k).phantom
                         /\ NewItem(l, u, k).log = l /\ NewItem(l, u, k).removed = NULL
    BY UploadFacts, FirstPathOK DEF NewItem, RowOK, Time, NULL
<1>6. IsFiniteSet(DOMAIN new)
    BY <1>4, SentFinite, FS_Union DEF RowsOK
<1>7. RowsOK(new)
    BY <1>2, <1>4, <1>5, <1>6 DEF RowsOK
<1>8. Kept(its, new)
    BY <1>1, <1>2, <1>4 DEF Kept
<1>9. \A k \in Sent(u) : new[k].removed = NULL
    BY <1>2, <1>4, <1>5
<1>10. \A k \in DOMAIN its \ Sent(u) :
          IF Reaches(u, k, its[k]) THEN new[k].removed # NULL
          ELSE new[k].removed = its[k].removed
    BY <1>1, <1>2, <1>4
<1> QED BY <1>4, <1>5, <1>7, <1>8, <1>9, <1>10

(***************************************************************************)
(* The catalogue and the order in which logs were recorded.  up is the     *)
(* content of the logs, before a step or after it.                         *)
(***************************************************************************)

(* told is a strict order in which every set of logs has a last one.        *)
ToldOrder(t) ==
    /\ \A l \in DOMAIN t : t[l] \subseteq DOMAIN t /\ l \notin t[l]
    /\ \A a, b \in DOMAIN t : a \in t[b] => b \notin t[a]
    /\ \A S \in SUBSET DOMAIN t : S # {} => \E l \in S : S \ {l} \subseteq t[l]

Speaks(u, k, row) == Eligible(u) /\ (k \in Sent(u) \/ Reaches(u, k, row))

Said(its, t, up, k) == {l \in DOMAIN t : Speaks(up[l], k, its[k])}

SentThere(its, t, up) ==
    \A l \in DOMAIN t : Eligible(up[l]) => Sent(up[l]) \subseteq DOMAIN its

LastDecides(its, t, up) ==
    \A k \in DOMAIN its : \A l \in Said(its, t, up, k) :
       Said(its, t, up, k) \ {l} \subseteq t[l] =>
          (its[k].removed = NULL <=> k \in Sent(up[l]))

CatalogueOK(its, t, up) ==
    /\ RowsOK(its) /\ \A k \in DOMAIN its : ~its[k].phantom
    /\ ToldOrder(t) /\ DOMAIN t \subseteq DOMAIN up
    /\ SentThere(its, t, up) /\ LastDecides(its, t, up)

LEMMA RetoldOrder ==
    ASSUME NEW t, ToldOrder(t), NEW l
    PROVE  ToldOrder(Retold(t, l))
<1> DEFINE new == Retold(t, l)
<1>1. /\ DOMAIN new = DOMAIN t \cup {l}
      /\ new[l] = DOMAIN t \ {l}
      /\ \A k \in DOMAIN t \ {l} : new[k] = t[k] \ {l}
    BY DEF Retold
<1> HIDE DEF new
<1>2. \A k \in DOMAIN new : new[k] \subseteq DOMAIN new /\ k \notin new[k]
    BY <1>1 DEF ToldOrder
<1>3. \A a, b \in DOMAIN new : a \in new[b] => b \notin new[a]
    BY <1>1 DEF ToldOrder
<1>4. ASSUME NEW S \in SUBSET DOMAIN new, S # {}
      PROVE  \E k \in S : S \ {k} \subseteq new[k]
    <2>1. CASE l \in S
        BY <1>1, <2>1
    <2>2. CASE l \notin S
        <3>1. S \in SUBSET DOMAIN t
            BY <1>1, <2>2
        <3>2. PICK k \in S : S \ {k} \subseteq t[k]
            BY <1>4, <3>1 DEF ToldOrder
        <3> QED BY <1>1, <2>2, <3>1, <3>2
    <2> QED BY <2>1, <2>2
<1> QED BY <1>2, <1>3, <1>4 DEF ToldOrder, new

(* The recording of a log keeps all of it: the log is now the last told.    *)
LEMMA RecordKeeps ==
    ASSUME NEW its, NEW t, NEW up, CatalogueOK(its, t, up),
           NEW l \in Logs, l \in DOMAIN up, up[l] \in Uploads[l]
    PROVE  LET new == RecordMedia(its, l, up[l])
           IN /\ CatalogueOK(new, Retold(t, l), up) /\ Kept(its, new)
              /\ \A k \in DOMAIN new : k \in DOMAIN its \/ new[k].log = l
<1> DEFINE u   == up[l]
           new == RecordMedia(its, l, u)
           r   == Retold(t, l)
<1>1. /\ ToldOrder(r) /\ DOMAIN r = DOMAIN t \cup {l} /\ r[l] = DOMAIN t \ {l}
      /\ \A k \in DOMAIN t \ {l} : r[k] = t[k] \ {l}
      /\ DOMAIN r \subseteq DOMAIN up
    <2>1. ToldOrder(r)
        BY RetoldOrder DEF CatalogueOK
    <2> QED BY <2>1 DEF Retold, CatalogueOK
<1> HIDE DEF r
<1>2. CASE ~Eligible(u)
    <2>1. new = its
        BY <1>2 DEF RecordMedia
    <2>2. \A k : Said(its, r, up, k) = Said(its, t, up, k)
        BY <1>1, <1>2 DEF Said, Speaks
    <2>3. \A k : l \notin Said(its, t, up, k)
        BY <1>2 DEF Said, Speaks
    <2>4. ASSUME NEW k \in DOMAIN its, NEW m \in Said(its, t, up, k),
                 Said(its, t, up, k) \ {m} \subseteq r[m]
          PROVE  Said(its, t, up, k) \ {m} \subseteq t[m]
        BY <1>1, <2>3, <2>4 DEF Said
    <2>5. LastDecides(its, r, up)
        BY <2>2, <2>4 DEF LastDecides, CatalogueOK
    <2>6. SentThere(its, r, up)
        BY <1>1, <1>2 DEF SentThere, CatalogueOK
    <2>7. Kept(its, its)
        BY DEF Kept
    <2> HIDE DEF new
    <2> QED BY <1>1, <2>1, <2>5, <2>6, <2>7 DEF CatalogueOK, r, new
<1>3. CASE Eligible(u)
    <2>1. /\ RowsOK(new) /\ Kept(its, new)
          /\ DOMAIN new = DOMAIN its \cup Sent(u)
          /\ \A k \in DOMAIN new \ DOMAIN its : ~new[k].phantom /\ new[k].log = l
          /\ \A k \in Sent(u) : new[k].removed = NULL
          /\ \A k \in DOMAIN its \ Sent(u) :
                IF Reaches(u, k, its[k]) THEN new[k].removed # NULL
                ELSE new[k].removed = its[k].removed
        <3>1. RowsOK(its) /\ u \in Uploads[l]
            BY DEF CatalogueOK
        <3>2. new = RecordMedia(its, l, u)
            OBVIOUS
        <3> HIDE DEF u, new
        <3> QED BY <1>3, <3>1, <3>2, RecordFacts
    <2> HIDE DEF new
    <2>2. \A k \in DOMAIN new : ~new[k].phantom
        BY <2>1 DEF CatalogueOK, Kept
    <2>3. SentThere(new, r, up)
        BY <1>1, <2>1 DEF SentThere, CatalogueOK
    <2>4. ASSUME NEW k \in DOMAIN its, NEW v
          PROVE  Speaks(v, k, new[k]) <=> Speaks(v, k, its[k])
        BY <2>1 DEF Speaks, Reaches, Kept
    <2>5. ASSUME NEW k \in DOMAIN new, NEW m \in Said(new, r, up, k),
                 Said(new, r, up, k) \ {m} \subseteq r[m]
          PROVE  new[k].removed = NULL <=> k \in Sent(up[m])
        <3>1. CASE Speaks(u, k, new[k])
            <4>1. l \in Said(new, r, up, k)
                BY <1>1, <3>1 DEF Said
            <4>2. m = l
                <5>1. m \in DOMAIN r /\ l \in DOMAIN r
                    BY <1>1 DEF Said
                <5>2. ASSUME m # l PROVE FALSE
                    <6>1. l \in r[m] /\ m \in r[l]
                        BY <1>1, <2>5, <4>1, <5>1, <5>2
                    <6> QED BY <1>1, <5>1, <6>1 DEF ToldOrder
                <5> QED BY <5>2
            <4>3. CASE k \in Sent(u)
                BY <2>1, <4>2, <4>3
            <4>4. CASE k \notin Sent(u)
                <5>1. k \in DOMAIN its /\ Reaches(u, k, its[k])
                    BY <2>1, <2>4, <3>1, <4>4 DEF Speaks
                <5> QED BY <2>1, <4>2, <4>4, <5>1
            <4> QED BY <4>3, <4>4
        <3>2. CASE ~Speaks(u, k, new[k])
            <4>1. k \notin Sent(u) /\ k \in DOMAIN its
                BY <1>3, <2>1, <3>2 DEF Speaks
            <4>2. ~Reaches(u, k, its[k]) /\ ~Speaks(u, k, its[k])
                BY <1>3, <2>4, <3>2, <4>1 DEF Speaks
            <4>3. Said(new, r, up, k) = Said(its, t, up, k)
                BY <1>1, <2>4, <3>2, <4>1, <4>2 DEF Said
            <4>4. l \notin Said(its, t, up, k) /\ Said(its, t, up, k) \subseteq DOMAIN t
                BY <4>2 DEF Said
            <4>5. m \in Said(its, t, up, k) /\ Said(its, t, up, k) \ {m} \subseteq t[m]
                BY <1>1, <2>5, <4>3, <4>4
            <4>6. its[k].removed = NULL <=> k \in Sent(up[m])
                BY <4>1, <4>5 DEF CatalogueOK, LastDecides
            <4> QED BY <2>1, <4>1, <4>2, <4>6
        <3> QED BY <3>1, <3>2
    <2>6. LastDecides(new, r, up)
        BY <2>5 DEF LastDecides
    <2> QED BY <1>1, <2>1, <2>2, <2>3, <2>6 DEF CatalogueOK, r, new
<1> QED BY <1>2, <1>3

(***************************************************************************)
(* One batch of the back-fill: a chain of recordings.                      *)
(***************************************************************************)

LEMMA BatchFacts ==
    ASSUME TableOK, NEW n \in Nat
    PROVE  BatchAt(n) \in Seq(stored) /\ Len(BatchAt(n)) \in Nat
<1> DEFINE S    == {l \in stored : Eligible(upload[l]) /\ FileCount(upload[l]) > 0}
           list == InOrder("backward", S)
           E    == {Len(list), n + Batch}
<1>1. S \subseteq DOMAIN upload /\ "backward" \in Dirs
    BY UploadType DEF Dirs
<1>2. list \in Seq(S) /\ Len(list) \in Nat
    <2> HIDE DEF S
    <2> QED BY <1>1, InOrderFacts
<1>3. Min(E) \in Nat /\ Min(E) <= Len(list)
    <2>1. E \subseteq Nat /\ E # {} /\ Len(list) \in E
        BY <1>2, CatalogueAssumption
    <2> HIDE DEF E
    <2> QED BY <2>1, MinIsLeast
<1>4. BatchAt(n) = SubSeq(list, n + 1, Min(E))
    BY DEF BatchAt, Backlog
<1>5. BatchAt(n) \in Seq(S) /\ Len(BatchAt(n)) \in Nat
    <2> HIDE DEF list, E, S
    <2> QED BY <1>2, <1>3, <1>4, PartFacts
<1>6. S \subseteq stored
    OBVIOUS
<1> HIDE DEF S
<1> QED BY <1>5, <1>6

LEMMA BackfillKeeps ==
    ASSUME TableOK, CatalogueOK(items, told, upload), offset \in Nat, BackfillBatch
    PROVE  /\ CatalogueOK(items', told', upload) /\ Kept(items, items')
           /\ \A k \in DOMAIN items' : k \in DOMAIN items \/ items'[k].log \in stored
           /\ offset' \in Nat \cup {Idle}
<1> DEFINE batch == BatchAt(offset)
           start == [items |-> items, told |-> told]
           n     == Len(batch)
<1>1. batch \in Seq(stored) /\ n \in Nat /\ DOMAIN batch = 1 .. n
    BY BatchFacts
<1>2. /\ items' = Recording!Folded(start, batch).items
      /\ told' = Recording!Folded(start, batch).told
      /\ offset' = IF batch = <<>> THEN Idle ELSE offset + n
    BY DEF BackfillBatch, Recording!Folded, Recording!FoldLeft, Recording!MapThenFoldSet,
           Recording!Max, Max, FoldLeft, MapThenFoldSet
<1> HIDE DEF batch, n
<1>3. PICK chain : /\ chain[0] = start
                   /\ \A i \in 1 .. n : chain[i] = RecordLog(chain[i - 1], batch[i])
                   /\ chain[n] = Recording!Folded(start, batch)
    BY <1>1, Recording!FoldIsChain
<1> DEFINE Good(c) == /\ CatalogueOK(c.items, c.told, upload) /\ Kept(items, c.items)
                      /\ \A k \in DOMAIN c.items : k \in DOMAIN items \/ c.items[k].log \in stored
           Steps == {i \in 0 .. n : Good(chain[i])}
<1>4. 0 \in Steps
    BY <1>1, <1>3 DEF Kept
<1>5. ASSUME NEW i \in 0 .. n - 1, i \in Steps PROVE i + 1 \in Steps
    <2> DEFINE c == chain[i]
               l == batch[i + 1]
    <2>1. i + 1 \in 1 .. n /\ (i + 1) - 1 = i
        BY <1>1
    <2>2. chain[i + 1] = RecordLog(c, l)
        BY <1>3, <2>1
    <2>3. l \in stored /\ l \in DOMAIN upload /\ l \in Logs /\ upload[l] \in Uploads[l]
        BY <1>1, <2>1 DEF TableOK
    <2>4. Good(c)
        BY <1>5
    <2> HIDE DEF c, l
    <2>5. /\ chain[i + 1].items = RecordMedia(c.items, l, upload[l])
          /\ chain[i + 1].told = Retold(c.told, l)
        BY <2>2 DEF RecordLog
    <2> DEFINE new == RecordMedia(c.items, l, upload[l])
    <2>6. /\ CatalogueOK(new, Retold(c.told, l), upload) /\ Kept(c.items, new)
          /\ \A k \in DOMAIN new : k \in DOMAIN c.items \/ new[k].log = l
        BY <2>3, <2>4, RecordKeeps
    <2> HIDE DEF new
    <2>7. Kept(items, new)
        BY <2>4, <2>6, KeptTrans
    <2>8. \A k \in DOMAIN new : k \in DOMAIN items \/ new[k].log \in stored
        BY <2>3, <2>4, <2>6 DEF Kept
    <2>9. Good(chain[i + 1])
        BY <2>5, <2>6, <2>7, <2>8 DEF new
    <2> HIDE DEF Good
    <2> QED BY <1>1, <2>1, <2>9
<1>6. n \in Steps
    <2> HIDE DEF Steps
    <2> QED BY <1>1, <1>4, <1>5, Recording!UpTo
<1>7. Good(chain[n])
    BY <1>6
<1> QED BY <1>1, <1>2, <1>3, <1>7

(***************************************************************************)
(* The migration: a chain of repairs of what an older version left, one of *)
(* each phantom; todo has those that are still to come.                    *)
(***************************************************************************)

PhantomsOf(its) == {k \in DOMAIN its : its[k].phantom}

RepairInv(old, its, todo) ==
    /\ RowsOK(its) /\ todo \subseteq PhantomsOf(old) /\ todo \subseteq DOMAIN its
    /\ \A k \in DOMAIN its : its[k].log = NULL /\ (its[k].phantom <=> k \in todo)
    /\ \A k \in todo : its[k].path = old[k].path
    /\ \A k \in DOMAIN old \ PhantomsOf(old) :
          /\ k \in DOMAIN its /\ its[k].path = old[k].path
          /\ its[k].source = old[k].source /\ its[k].first = old[k].first
    /\ \A k \in PhantomsOf(old) \ todo : \A key \in Classify(old[k].path) :
          key \in DOMAIN its /\ its[key].removed # NULL

(* What the repair of one row does: the row goes, and the item of the key   *)
(* that its path says, if any, is there and retired.                        *)
Repaired(its, k, new) ==
    /\ RowsOK(new)
    /\ DOMAIN new = (DOMAIN its \ {k}) \cup Classify(its[k].path)
    /\ \A x \in DOMAIN its \ {k} :
          /\ new[x].path = its[x].path /\ new[x].source = its[x].source
          /\ new[x].first = its[x].first /\ new[x].log = its[x].log
          /\ new[x].phantom = its[x].phantom
          /\ its[x].removed # NULL => new[x].removed # NULL
    /\ \A x \in Classify(its[k].path) : new[x].removed # NULL
    /\ \A x \in DOMAIN new \ (DOMAIN its \ {k}) : ~new[x].phantom /\ new[x].log = its[k].log

LEMMA RepairFacts ==
    ASSUME NEW its, RowsOK(its), NEW k \in DOMAIN its
    PROVE  Repaired(its, k, RepairPhantom(its, k))
<1> DEFINE row  == its[k]
           keys == Classify(row.path)
           rest == Without(its, k)
           new  == RepairPhantom(its, k)
<1>1. /\ DOMAIN rest = DOMAIN its \ {k} /\ IsFiniteSet(DOMAIN rest)
      /\ \A x \in DOMAIN rest : rest[x] = its[x] /\ RowOK(rest[x])
    BY FS_RemoveElement DEF Without, RowsOK
<1>2. RowOK(row)
    BY DEF RowsOK
<1>3. ASSUME NEW r, RowOK(r), NEW t \in Time
      PROVE  /\ RowOK(RetiredAt(r, t)) /\ RetiredAt(r, t).removed # NULL
             /\ RetiredAt(r, t).path = r.path /\ RetiredAt(r, t).source = r.source
             /\ RetiredAt(r, t).first = r.first /\ RetiredAt(r, t).log = r.log
             /\ RetiredAt(r, t).phantom = r.phantom
    BY <1>3 DEF RetiredAt, RowOK, Time, NULL
<1>4. CASE keys = {}
    <2>1. new = rest
        BY <1>4 DEF RepairPhantom
    <2> HIDE DEF rest, new
    <2> QED BY <1>1, <1>4, <2>1 DEF RowsOK, Repaired, new
<1>5. CASE keys # {}
    <2> DEFINE key == CHOOSE x \in keys : TRUE
    <2>1. key \in keys /\ keys = {key}
        BY <1>5, OneMatch
    <2>2. CASE key \in DOMAIN its \ {k}
        <3> DEFINE retired == RetiredAt(its[key], row.first)
        <3>1. new = Without([its EXCEPT ![key] = retired], k)
            BY <1>5, <2>2 DEF RepairPhantom
        <3> HIDE DEF retired, key, new
        <3>2. /\ DOMAIN new = DOMAIN rest
              /\ \A x \in DOMAIN rest : new[x] = IF x = key THEN retired ELSE rest[x]
            BY <1>1, <2>2, <3>1 DEF Without
        <3>3. /\ RowOK(retired) /\ retired.removed # NULL
              /\ retired.path = its[key].path /\ retired.source = its[key].source
              /\ retired.first = its[key].first /\ retired.log = its[key].log
              /\ retired.phantom = its[key].phantom
            <4>1. RowOK(its[key]) /\ row.first \in Time
                BY <1>2, <2>2 DEF RowsOK, RowOK
            <4> HIDE DEF row
            <4> QED BY <1>3, <4>1 DEF retired
        <3> HIDE DEF rest, row, keys
        <3>4. RowsOK(new)
            BY <1>1, <3>2, <3>3 DEF RowsOK
        <3>5. \A x \in keys : new[x].removed # NULL
            BY <1>1, <2>1, <2>2, <3>2, <3>3
        <3>6. DOMAIN new = (DOMAIN its \ {k}) \cup keys
            BY <1>1, <2>1, <2>2, <3>2
        <3>7. \A x \in DOMAIN its \ {k} :
                 /\ new[x].path = its[x].path /\ new[x].source = its[x].source
                 /\ new[x].first = its[x].first /\ new[x].log = its[x].log
                 /\ new[x].phantom = its[x].phantom
                 /\ its[x].removed # NULL => new[x].removed # NULL
            BY <1>1, <3>2, <3>3
        <3> QED BY <1>1, <3>2, <3>4, <3>5, <3>6, <3>7 DEF keys, row, new, Repaired
    <2>3. CASE key \notin DOMAIN its \ {k}
        <3> DEFINE plain   == [row EXCEPT !.phantom = FALSE]
                   retired == RetiredAt(plain, row.first)
        <3>1. new = Put(rest, key, retired)
            BY <1>5, <2>3 DEF RepairPhantom
        <3>2. RowOK(plain) /\ ~plain.phantom /\ plain.log = row.log /\ row.first \in Time
            BY <1>2 DEF RowOK
        <3>3. RowOK(retired) /\ retired.removed # NULL /\ ~retired.phantom /\ retired.log = row.log
            <4> HIDE DEF plain, row
            <4> QED BY <1>3, <3>2
        <3> HIDE DEF retired, key, rest, new
        <3>4. /\ DOMAIN new = DOMAIN rest \cup {key} /\ new[key] = retired
              /\ \A x \in DOMAIN rest : new[x] = rest[x]
            BY <1>1, <2>3, <3>1 DEF Put
        <3>5. IsFiniteSet(DOMAIN new)
            BY <1>1, <3>4, FS_AddElement
        <3> HIDE DEF row, keys
        <3>6. RowsOK(new)
            BY <1>1, <3>3, <3>4, <3>5 DEF RowsOK
        <3>7. \A x \in keys : new[x].removed # NULL
            BY <2>1, <3>3, <3>4
        <3>8. \A x \in DOMAIN new \ (DOMAIN its \ {k}) : ~new[x].phantom /\ new[x].log = row.log
            BY <1>1, <3>3, <3>4
        <3> QED BY <1>1, <2>1, <3>4, <3>6, <3>7, <3>8 DEF keys, row, new, Repaired
    <2> QED BY <2>2, <2>3
<1> QED BY <1>4, <1>5

LEMMA RepairStep ==
    ASSUME NEW old \in Legacies, NEW its, NEW todo, RepairInv(old, its, todo), NEW k \in todo
    PROVE  RepairInv(old, RepairPhantom(its, k), todo \ {k})
<1> DEFINE new  == RepairPhantom(its, k)
           keys == Classify(its[k].path)
<1>1. k \in DOMAIN its /\ RowsOK(its) /\ keys = Classify(old[k].path) /\ k \in PhantomsOf(old)
    BY DEF RepairInv
<1>2. /\ RowsOK(new)
      /\ DOMAIN new = (DOMAIN its \ {k}) \cup keys
      /\ \A x \in DOMAIN its \ {k} :
            /\ new[x].path = its[x].path /\ new[x].source = its[x].source
            /\ new[x].first = its[x].first /\ new[x].log = its[x].log
            /\ new[x].phantom = its[x].phantom
            /\ its[x].removed # NULL => new[x].removed # NULL
      /\ \A x \in keys : new[x].removed # NULL
      /\ \A x \in DOMAIN new \ (DOMAIN its \ {k}) : ~new[x].phantom /\ new[x].log = its[k].log
    BY <1>1, RepairFacts DEF Repaired
<1> HIDE DEF new, keys
<1>3. \A x \in DOMAIN new : new[x].log = NULL /\ (new[x].phantom <=> x \in todo \ {k})
    BY <1>1, <1>2 DEF RepairInv
<1>4. \A x \in todo \ {k} : x \in DOMAIN new /\ new[x].path = old[x].path
    BY <1>2 DEF RepairInv
<1>5. \A x \in DOMAIN old \ PhantomsOf(old) :
          /\ x \in DOMAIN new /\ new[x].path = old[x].path
          /\ new[x].source = old[x].source /\ new[x].first = old[x].first
    BY <1>1, <1>2 DEF RepairInv
<1>6. ASSUME NEW j \in PhantomsOf(old), j \notin todo \ {k}, NEW key \in Classify(old[j].path)
      PROVE  key \in DOMAIN new /\ new[key].removed # NULL
    <2>1. CASE j = k
        BY <1>1, <1>2, <1>6, <2>1
    <2>2. CASE j # k
        <3>1. key \in DOMAIN its /\ its[key].removed # NULL
            BY <1>6, <2>2 DEF RepairInv
        <3>2. CASE key = k
            <4>1. k \in keys
                BY <1>1, <1>6, <3>2, LegaciesAssumption DEF PhantomsOf
            <4> QED BY <1>2, <3>2, <4>1
        <3>3. CASE key # k
            BY <1>2, <3>1, <3>3
        <3> QED BY <3>2, <3>3
    <2> QED BY <2>1, <2>2
<1> QED BY <1>1, <1>2, <1>3, <1>4, <1>5, <1>6 DEF RepairInv, new

LEMMA OrdersFacts ==
    ASSUME NEW S, IsFiniteSet(S), NEW order \in SetToSeqs(S), NEW n, n = Cardinality(S)
    PROVE  /\ n \in Nat /\ DOMAIN order = 1 .. n
           /\ \A i, j \in 1 .. n : i # j => order[i] # order[j]
           /\ S = {order[i] : i \in 1 .. n}
<1>1. n \in Nat
    BY FS_CardinalityType
<1>2. order \in [1 .. n -> S] /\ \A i, j \in 1 .. n : i # j => order[i] # order[j]
    BY DEF SetToSeqs
<1>3. order \in Injection(1 .. n, S)
    <2>1. \A i, j \in DOMAIN order : order[i] = order[j] => i = j
        BY <1>2
    <2> QED BY <1>2, <2>1 DEF Injection, IsInjective
<1>4. Cardinality(1 .. n) = n
    BY <1>1, FS_Interval
<1>5. order \in Surjection(1 .. n, S)
    BY <1>3, <1>4, FS_Injection
<1> QED BY <1>1, <1>2, <1>5 DEF Surjection

LEMMA MigrateRepairs ==
    ASSUME items \in Legacies, Migrate
    PROVE  RepairInv(items, items', {})
<1> DEFINE n == Cardinality(Phantoms)
<1>1. PICK order \in SetToSeqs(Phantoms) : items' = FoldLeft(RepairPhantom, items, order)
    BY DEF Migrate
<1>2. IsFiniteSet(Phantoms)
    BY LegaciesAssumption, FS_Subset DEF Phantoms
<1>3. /\ n \in Nat /\ DOMAIN order = 1 .. n
      /\ \A i, j \in 1 .. n : i # j => order[i] # order[j]
      /\ Phantoms = {order[i] : i \in 1 .. n}
    BY <1>1, <1>2, OrdersFacts
<1> HIDE DEF n
<1>4. items' = Repairing!Folded(items, order)
    BY <1>1 DEF Repairing!Folded, Repairing!FoldLeft, Repairing!MapThenFoldSet,
                Repairing!Max, Max, FoldLeft, MapThenFoldSet
<1>5. PICK chain : /\ chain[0] = items
                   /\ \A i \in 1 .. n : chain[i] = RepairPhantom(chain[i - 1], order[i])
                   /\ chain[n] = Repairing!Folded(items, order)
    BY <1>3, Repairing!FoldIsChain
<1> DEFINE Todo(i) == {order[j] : j \in i + 1 .. n}
           Steps   == {i \in 0 .. n : RepairInv(items, chain[i], Todo(i))}
<1>6. 0 \in Steps
    <2>1. Todo(0) = PhantomsOf(items)
        BY <1>3 DEF Phantoms, PhantomsOf
    <2> HIDE DEF Todo
    <2>2. RepairInv(items, items, PhantomsOf(items))
        BY LegaciesAssumption DEF RepairInv, RowsOK, PhantomsOf
    <2> QED BY <1>3, <1>5, <2>1, <2>2
<1>7. ASSUME NEW i \in 0 .. n - 1, i \in Steps PROVE i + 1 \in Steps
    <2>1. i + 1 \in 1 .. n /\ (i + 1) - 1 = i /\ order[i + 1] \in Todo(i)
        BY <1>3
    <2>2. Todo(i + 1) = Todo(i) \ {order[i + 1]}
        <3>1. i + 1 \in 1 .. n /\ i + 1 .. n = {i + 1} \cup (i + 2 .. n) /\ i + 1 \notin i + 2 .. n
              /\ (i + 1) + 1 = i + 2 /\ \A j \in i + 2 .. n : j \in 1 .. n /\ j # i + 1
            BY <1>3
        <3> QED BY <1>3, <3>1
    <2>3. RepairInv(items, chain[i], Todo(i))
        BY <1>7
    <2>4. chain[i + 1] = RepairPhantom(chain[i], order[i + 1])
        BY <1>5, <2>1
    <2> HIDE DEF Todo
    <2>5. RepairInv(items, chain[i + 1], Todo(i + 1))
        BY <2>1, <2>2, <2>3, <2>4, RepairStep
    <2> QED BY <1>3, <2>1, <2>5
<1>8. n \in Steps
    <2>1. n \in Nat /\ n \in 0 .. n
        BY <1>3
    <2> HIDE DEF Steps
    <2>2. \A i \in 0 .. n - 1 : i \in Steps => i + 1 \in Steps
        BY <1>7
    <2> QED BY <1>6, <2>1, <2>2, Repairing!UpTo
<1>9. Todo(n) = {}
    BY <1>3
<1>10. RepairInv(items, chain[n], Todo(n))
    BY <1>8
<1> HIDE DEF Todo
<1> QED BY <1>4, <1>5, <1>9, <1>10

(***************************************************************************)
(* The invariant: until the migration has run nothing else has; from then  *)
(* on the catalogue says what the order of the recordings says.            *)
(***************************************************************************)

CatalogueInv ==
    /\ TrailInv
    /\ offset \in Nat \cup {Idle} /\ migrated \in BOOLEAN
    /\ RowsOK(items) /\ \A k \in DOMAIN items : items[k].log \in stored \cup {NULL}
    /\ migrated => CatalogueOK(items, told, upload)
    /\ ~migrated => items \in Legacies /\ stored = {} /\ DOMAIN told = {} /\ offset = Idle

(* The body of SightingKept                                                 *)
Sightings ==
    /\ \A k \in DOMAIN items :
         IF ~items[k].phantom
         THEN /\ k \in DOMAIN items'
              /\ items'[k].path = items[k].path /\ items'[k].source = items[k].source
              /\ items'[k].first = items[k].first
              /\ items'[k].log \in {items[k].log, NULL}
         ELSE \A key \in Classify(items[k].path) :
                 key \in DOMAIN items' /\ items'[key].removed # NULL
    /\ \A k \in DOMAIN items' : ~items'[k].phantom

LEMMA KeptSightings ==
    ASSUME CatalogueOK(items, told, upload), CatalogueOK(items', told', upload'),
           Kept(items, items')
    PROVE  Sightings
    BY DEF CatalogueOK, Kept, Sightings

(* More logs in the table change nothing for those that were recorded.      *)
LEMMA MoreUploads ==
    ASSUME NEW its, NEW t, NEW up, CatalogueOK(its, t, up),
           NEW more, DOMAIN up \subseteq DOMAIN more, \A l \in DOMAIN up : more[l] = up[l]
    PROVE  CatalogueOK(its, t, more)
<1>1. DOMAIN t \subseteq DOMAIN more /\ \A l \in DOMAIN t : more[l] = up[l]
    BY DEF CatalogueOK
<1>2. \A k : Said(its, t, more, k) = Said(its, t, up, k)
    BY <1>1 DEF Said
<1>3. SentThere(its, t, more)
    BY <1>1 DEF CatalogueOK, SentThere
<1>4. LastDecides(its, t, more)
    <2> SUFFICES ASSUME NEW k \in DOMAIN its, NEW l \in Said(its, t, up, k),
                        Said(its, t, up, k) \ {l} \subseteq t[l]
                 PROVE  its[k].removed = NULL <=> k \in Sent(more[l])
        BY <1>2 DEF LastDecides
    <2>1. l \in DOMAIN t /\ more[l] = up[l]
        BY <1>1 DEF Said
    <2> QED BY <2>1 DEF CatalogueOK, LastDecides
<1> QED BY <1>1, <1>3, <1>4 DEF CatalogueOK

LEMMA IngestKeeps ==
    ASSUME CatalogueInv, TrailInv', NEW l \in Logs, NEW u \in Uploads[l], Ingest(l, u)
    PROVE  CatalogueInv' /\ Sightings
<1>1. /\ migrated /\ migrated' = migrated /\ offset' = offset
      /\ stored' = stored \cup {l} /\ DOMAIN upload' = DOMAIN upload \cup {l}
      /\ upload'[l] = u /\ \A k \in DOMAIN upload : upload'[k] = upload[k]
    BY DEF Ingest, StoreLog, RecordSafely
<1>2. CatalogueOK(items, told, upload')
    BY <1>1, MoreUploads DEF CatalogueInv
<1>3. /\ CatalogueOK(items', told', upload') /\ Kept(items, items')
      /\ \A k \in DOMAIN items' : k \in DOMAIN items \/ items'[k].log = l
    <2>1. CASE UNCHANGED <<items, told>>
        BY <1>2, <2>1 DEF Kept
    <2>2. CASE items' = RecordMedia(items, l, u) /\ told' = Retold(told, l)
        <3>1. l \in DOMAIN upload' /\ upload'[l] \in Uploads[l] /\ upload'[l] = u
            BY <1>1
        <3> QED BY <1>2, <2>2, <3>1, RecordKeeps
    <2> QED BY <2>1, <2>2 DEF Ingest, RecordSafely
<1>4. \A k \in DOMAIN items' : items'[k].log \in stored' \cup {NULL}
    BY <1>1, <1>3 DEF CatalogueInv, Kept
<1>5. CatalogueInv'
    BY <1>1, <1>3, <1>4 DEF CatalogueInv, CatalogueOK
<1>6. CatalogueOK(items, told, upload)
    BY <1>1 DEF CatalogueInv
<1> QED BY <1>3, <1>5, <1>6, KeptSightings

LEMMA DeleteKeeps ==
    ASSUME CatalogueInv, TrailInv', NEW l \in stored, Delete(l)
    PROVE  CatalogueInv' /\ Sightings
<1>1. /\ migrated' = migrated /\ offset' = offset /\ told' = told
      /\ stored' = stored \ {l} /\ upload' = upload
      /\ DOMAIN items' = DOMAIN items
      /\ \A k \in DOMAIN items : items'[k] = IF items[k].log = l THEN [items[k] EXCEPT !.log = NULL]
                                             ELSE items[k]
    BY DEF Delete, DeleteLog, Unlink
<1>2. migrated /\ CatalogueOK(items, told, upload)
    BY DEF CatalogueInv
<1>3. \A k \in DOMAIN items :
         /\ RowOK(items'[k])
         /\ items'[k].path = items[k].path /\ items'[k].source = items[k].source
         /\ items'[k].first = items[k].first /\ items'[k].phantom = items[k].phantom
         /\ items'[k].removed = items[k].removed
         /\ items'[k].log = IF items[k].log = l THEN NULL ELSE items[k].log
    BY <1>1, <1>2 DEF CatalogueOK, RowsOK, RowOK
<1>4. RowsOK(items') /\ \A k \in DOMAIN items' : ~items'[k].phantom
    BY <1>1, <1>2, <1>3 DEF CatalogueOK, RowsOK
<1>5. \A k \in DOMAIN items : Said(items', told, upload, k) = Said(items, told, upload, k)
    BY <1>3 DEF Said, Speaks, Reaches
<1>6. LastDecides(items', told, upload)
    BY <1>1, <1>2, <1>3, <1>5 DEF CatalogueOK, LastDecides
<1>7. CatalogueOK(items', told', upload')
    BY <1>1, <1>2, <1>4, <1>6 DEF CatalogueOK, SentThere
<1>8. \A k \in DOMAIN items' : items'[k].log \in stored' \cup {NULL}
    BY <1>1, <1>3 DEF CatalogueInv
<1>9. CatalogueInv'
    BY <1>1, <1>2, <1>4, <1>7, <1>8 DEF CatalogueInv
<1>10. Sightings
    BY <1>1, <1>2, <1>3, <1>4 DEF Sightings, CatalogueOK
<1> QED BY <1>9, <1>10

LEMMA MigrateKeeps ==
    ASSUME CatalogueInv, TrailInv', Migrate, UNCHANGED <<table, reader>>
    PROVE  CatalogueInv' /\ Sightings
<1>1. /\ ~migrated /\ migrated' = TRUE /\ offset' = offset /\ told' = told
      /\ stored' = stored /\ upload' = upload
      /\ items \in Legacies /\ DOMAIN told = {}
    BY DEF CatalogueInv, Migrate, table
<1>2. RepairInv(items, items', {})
    BY <1>1, MigrateRepairs
<1>3. RowsOK(items') /\ \A k \in DOMAIN items' : items'[k].log = NULL /\ ~items'[k].phantom
    BY <1>2 DEF RepairInv
<1>4. CatalogueOK(items', told', upload')
    BY <1>1, <1>3 DEF CatalogueOK, ToldOrder, SentThere, LastDecides, Said
<1>5. CatalogueInv'
    BY <1>1, <1>3, <1>4 DEF CatalogueInv
<1>6. \A k \in DOMAIN items : items[k].log = NULL
    BY <1>1, LegaciesAssumption
<1>7. Sightings
    BY <1>2, <1>3, <1>6 DEF RepairInv, PhantomsOf, Sightings
<1> QED BY <1>5, <1>7

LEMMA BackfillStepKeeps ==
    ASSUME CatalogueInv, TrailInv', BackfillBatch, UNCHANGED <<table, reader>>
    PROVE  CatalogueInv' /\ Sightings
<1>1. /\ migrated /\ migrated' = migrated /\ offset \in Nat
      /\ stored' = stored /\ upload' = upload /\ TableOK
      /\ CatalogueOK(items, told, upload)
    BY DEF CatalogueInv, BackfillBatch, table, TrailInv, ReaderTypes
<1>2. /\ CatalogueOK(items', told', upload) /\ Kept(items, items')
      /\ \A k \in DOMAIN items' : k \in DOMAIN items \/ items'[k].log \in stored
      /\ offset' \in Nat \cup {Idle}
    BY <1>1, BackfillKeeps
<1>3. \A k \in DOMAIN items' : items'[k].log \in stored' \cup {NULL}
    BY <1>1, <1>2 DEF CatalogueInv, Kept
<1>4. CatalogueInv'
    BY <1>1, <1>2, <1>3 DEF CatalogueInv, CatalogueOK
<1>5. CatalogueOK(items', told', upload')
    BY <1>1, <1>2
<1> QED BY <1>1, <1>2, <1>4, <1>5, KeptSightings

LEMMA StillKeeps ==
    ASSUME CatalogueInv, TrailInv', UNCHANGED <<table, items, migrated, told>>,
           offset' \in Nat \cup {Idle}, migrated \/ offset' = offset
    PROVE  CatalogueInv' /\ (migrated => Sightings)
<1>1. UNCHANGED <<stored, upload, items, migrated, told>>
    BY DEF table
<1>2. CatalogueInv'
    BY <1>1 DEF CatalogueInv
<1>3. migrated => Sightings
    BY <1>1 DEF CatalogueInv, CatalogueOK, Sightings
<1> QED BY <1>2, <1>3

LEMMA CatalogueStep ==
    CatalogueInv /\ [Next]_vars => CatalogueInv' /\ [Sightings]_vars
<1> SUFFICES ASSUME CatalogueInv, [Next]_vars PROVE CatalogueInv' /\ [Sightings]_vars
    OBVIOUS
<1>1. TrailInv'
    BY TrailStep DEF CatalogueInv
<1>2. ASSUME NEW l \in Logs, NEW u \in Uploads[l], Ingest(l, u)
      PROVE  CatalogueInv' /\ [Sightings]_vars
    BY <1>1, <1>2, IngestKeeps
<1>3. ASSUME NEW l \in stored, Delete(l) PROVE CatalogueInv' /\ [Sightings]_vars
    BY <1>1, <1>3, DeleteKeeps
<1>4. CASE Migrate /\ UNCHANGED <<table, reader>>
    BY <1>1, <1>4, MigrateKeeps
<1>5. CASE StartBackfill /\ UNCHANGED <<table, reader>>
    <2>1. UNCHANGED <<table, items, migrated, told>> /\ offset' \in Nat \cup {Idle} /\ migrated
        BY <1>5 DEF StartBackfill
    <2> QED BY <1>1, <2>1, StillKeeps
<1>6. CASE BackfillBatch /\ UNCHANGED <<table, reader>>
    BY <1>1, <1>6, BackfillStepKeeps
<1>7. CASE migrated /\ Turn /\ UNCHANGED catalogue
    <2>1. TrailInv
        BY DEF CatalogueInv
    <2>2. PICK q : \E d \in Dirs : \E c \in DOMAIN upload \cup {NULL} : Respond(q, d, c)
        BY <1>7, <2>1, TurnResponds
    <2>3. UNCHANGED table
        BY <2>1, <2>2, RespondFacts DEF TrailInv, ReaderTypes
    <2>4. UNCHANGED <<table, items, migrated, told>> /\ offset' = offset
          /\ offset' \in Nat \cup {Idle}
        BY <1>7, <2>3 DEF catalogue, CatalogueInv
    <2> QED BY <1>1, <1>7, <2>4, StillKeeps
<1>8. CASE UNCHANGED vars
    <2>1. UNCHANGED <<table, items, migrated, told>> /\ offset' = offset
          /\ offset' \in Nat \cup {Idle}
        BY <1>8 DEF vars, catalogue, CatalogueInv
    <2> QED BY <1>1, <1>8, <2>1, StillKeeps
<1> QED BY <1>2, <1>3, <1>4, <1>5, <1>6, <1>7, <1>8 DEF Next

LEMMA CatalogueStart == Init => CatalogueInv
<1> SUFFICES ASSUME Init PROVE CatalogueInv
    OBVIOUS
<1>1. /\ stored = {} /\ items \in Legacies /\ migrated = FALSE /\ offset = Idle
      /\ DOMAIN told = {}
    BY DEF Init, CatalogueInit
<1>2. RowsOK(items) /\ \A k \in DOMAIN items : items[k].log = NULL
    BY <1>1, LegaciesAssumption DEF RowsOK
<1> QED BY <1>1, <1>2, TrailStart DEF CatalogueInv

LEMMA CatalogueHolds == Spec => []CatalogueInv
<1>1. Init => CatalogueInv
    BY CatalogueStart
<1>2. CatalogueInv /\ [Next]_vars => CatalogueInv'
    BY CatalogueStep
<1> QED BY <1>1, <1>2, PTL DEF Spec

(* Theorem: the tables, the catalogue and the reader keep their types, and  *)
(* no item refers to a log that is gone, whatever is deleted or back-filled *)
(* in between.  About the foreign key of media_items and ingest_sync_log.   *)
THEOREM ViewsTypeCorrect == Spec => []TypeOK
<1>1. CatalogueInv => TypeOK
    <2> SUFFICES ASSUME CatalogueInv PROVE TypeOK
        OBVIOUS
    <2>1. \A l \in DOMAIN told : l \in DOMAIN upload /\ told[l] \subseteq DOMAIN told
        <3>1. CASE migrated
            BY <3>1 DEF CatalogueInv, CatalogueOK, ToldOrder
        <3>2. CASE ~migrated
            BY <3>2 DEF CatalogueInv
        <3> QED BY <3>1, <3>2
    <2> QED BY <2>1 DEF CatalogueInv, RowsOK, TrailInv, ReaderTypes, TypeOK
<1> QED BY <1>1, CatalogueHolds, PTL

(* Theorem: an item is present exactly if the last recorded log that says   *)
(* anything of it transfers it, for any uploads in any order, any back-fill *)
(* and what any older version left.  About record_media and retire_media.   *)
THEOREM PresentIsLast == Spec => []PresentIsLastSent
<1>1. CatalogueInv => PresentIsLastSent
    <2> SUFFICES ASSUME CatalogueInv PROVE PresentIsLastSent
        OBVIOUS
    <2>1. CASE ~migrated
        BY <2>1 DEF CatalogueInv, PresentIsLastSent
    <2>2. CASE migrated
        <3>1. CatalogueOK(items, told, upload)
            BY <2>2 DEF CatalogueInv
        <3>2. ASSUME NEW k \in DOMAIN items,
                     NEW said, said = {l \in DOMAIN told : Sends(l, k) \/ Removes(l, k)}, said # {}
              PROVE  items[k].removed = NULL <=> Sends(LastTold(said), k)
            <4>1. said = Said(items, told, upload, k)
                BY <3>2 DEF Said, Speaks, Sends, Removes
            <4>2. said \in SUBSET DOMAIN told
                BY <3>2
            <4>3. \E l \in said : said \ {l} \subseteq told[l]
                BY <3>1, <3>2, <4>2 DEF CatalogueOK, ToldOrder
            <4>4. LastTold(said) \in said /\ said \ {LastTold(said)} \subseteq told[LastTold(said)]
                BY <4>3 DEF LastTold
            <4>5. Eligible(upload[LastTold(said)])
                BY <4>1, <4>4 DEF Said, Speaks
            <4> QED BY <3>1, <4>1, <4>4, <4>5 DEF CatalogueOK, LastDecides, Sends
        <3> QED BY <3>1, <3>2 DEF PresentIsLastSent, CatalogueOK, SentThere
    <2> QED BY <2>1, <2>2
<1> QED BY <1>1, CatalogueHolds, PTL

(* Theorem: no step loses an item or changes what its first sighting said,  *)
(* and the migration turns each phantom into a retired item of the key that *)
(* its path says.  About the insert of record_media, the foreign key, the   *)
(* back-fill and repair_phantom_media.                                      *)
THEOREM SightingsKept == Spec => SightingKept
<1>1. CatalogueInv /\ [Next]_vars => [Sightings]_vars
    BY CatalogueStep
<1> QED BY <1>1, CatalogueHolds, PTL DEF Spec, SightingKept, Sightings

(* Theorem: the summary, the statistics, the export, the list of sources    *)
(* and the summary of the media agree, for any logs, days and largest page, *)
(* whatever order the database gives ties in each request of the export.    *)
(* About the queries of analytics and of the media routes.                  *)
THEOREM AllReportsAgree == Spec => []ReportsAgree
<1>1. CatalogueInv => ReportsAgree
    <2> SUFFICES ASSUME CatalogueInv PROVE ReportsAgree
        OBVIOUS
    <2>1. TableOK /\ IsFiniteSet(DOMAIN items)
        BY DEF CatalogueInv, TrailInv, ReaderTypes, RowsOK
    <2>2. \A q \in ReportQueries : SumsAgree(q) /\ ExportAgrees(q)
        BY <2>1, SumsAgreeing, ExportAgreeing
    <2>3. \A since : MediaAgrees(since)
        BY <2>1, MediaAgreeing
    <2> QED BY <2>1, <2>2, <2>3, SourcesAgreeing DEF ReportsAgree
<1> QED BY <1>1, CatalogueHolds, PTL
=============================================================================
