--------------------------- MODULE MediaCatalogue ---------------------------
(***************************************************************************)
(* The catalogue of films and episodes (media_items) that ingestion builds *)
(* from the files a log names: a first sighting inserts an item, a         *)
(* deletion retires it, a later transfer brings it back.  Beside it the    *)
(* migration that repairs the phantom rows of an older version, and the    *)
(* script that records the stored logs again, in batches.                  *)
(*                                                                         *)
(* items maps a dedupe key to its row; the unique index makes it a         *)
(* function.  A row whose path still begins with "deleting" is a phantom.  *)
(***************************************************************************)
EXTENDS LogTable, MediaClassifier

CONSTANTS Legacies,   \* catalogues an older version may have left behind
          Batch       \* batch_size of backfill_media

VARIABLES
    items,      \* media_items: key -> row
    migrated,   \* has the migration run in this database
    offset,     \* rows a running back-fill has passed, or Idle
    told        \* history: told[l] has the logs last recorded before l was

catalogue == <<items, migrated, offset, told>>

Idle == -1

ASSUME CatalogueAssumption ==
    /\ Batch \in Nat \ {0}
    /\ \A l \in Logs : \A u \in Uploads[l] : \A i \in DOMAIN u.lines : PathOK(u.lines[i].path)

\* A row of media_items
RowOK(row) ==
    /\ DOMAIN row = {"path", "source", "log", "first", "removed", "phantom"}
    /\ PathOK(row.path) /\ row.source \in Sources
    /\ row.log \in Logs \cup {NULL}
    /\ row.first \in Time /\ row.removed \in Time \cup {NULL}
    /\ row.phantom \in BOOLEAN

\* The older version had no removed_at.  A phantom may have been given the key
\* its path says; the key of any other begins with rsync's own word, and no
\* path of a library says that key.
ASSUME LegaciesAssumption ==
    \A its \in Legacies :
       /\ IsFiniteSet(DOMAIN its)
       /\ \A k \in DOMAIN its : RowOK(its[k]) /\ its[k].log = NULL /\ its[k].removed = NULL
       /\ \A j, k \in {i \in DOMAIN its : its[i].phantom} :
             j \in Classify(its[k].path) => j \in Classify(its[j].path)

Put(f, k, row) == [x \in DOMAIN f \cup {k} |-> IF x = k THEN row ELSE f[x]]

(* record_media *)

Eligible(u) == ~u.dry /\ u.source # Synthetic

Sent(u) == UNION {ClassifyTransfer(u.lines[i].path) : i \in Transfers(u)}

\* Of several files with one key the first in the list counts.
FirstPath(u, k) ==
    u.lines[Min({i \in Transfers(u) : k \in ClassifyTransfer(u.lines[i].path)})].path

NewItem(l, u, k) ==
    [path |-> FirstPath(u, k), source |-> u.source, log |-> l,
     first |-> u.start, removed |-> NULL, phantom |-> FALSE]

\* Does a deletion line of u reach this item?  The line of a directory reaches
\* what its source has below it, that of a file the item it classifies to.
Reaches(u, k, row) ==
    \E i \in Deletions(u) :
       LET p == u.lines[i].path
       IN IF p.slash
          THEN row.source = u.source /\ ~row.phantom /\ Under(p, row.path)
          ELSE k \in Classify(p)

RetireMedia(its, u) ==
    [k \in DOMAIN its |->
        IF Reaches(u, k, its[k]) /\ its[k].removed = NULL
        THEN [its[k] EXCEPT !.removed = u.start] ELSE its[k]]

BroughtBack(its, u) ==
    [k \in DOMAIN its |-> IF k \in Sent(u) THEN [its[k] EXCEPT !.removed = NULL] ELSE its[k]]

\* Mutant of Insert: a conflict updates the row.
Upsert(its, l, u) ==
    [k \in DOMAIN its \cup Sent(u) |-> IF k \in Sent(u) THEN NewItem(l, u, k) ELSE its[k]]

Insert(its, l, u) ==
    [k \in DOMAIN its \cup Sent(u) |-> IF k \in DOMAIN its THEN its[k] ELSE NewItem(l, u, k)]

\* Mutant of RecordMedia: retires after it has brought back.
RetireLast(its, l, u) ==
    IF ~Eligible(u) THEN its ELSE RetireMedia(Insert(BroughtBack(its, u), l, u), u)

RecordMedia(its, l, u) ==
    IF ~Eligible(u) THEN its
    ELSE LET retired == RetireMedia(its, u)
         IN Insert(BroughtBack(retired, u), l, u)

\* Log l is recorded, now after all others.
Retold(t, l) ==
    [k \in DOMAIN t \cup {l} |-> IF k = l THEN DOMAIN t \ {l} ELSE t[k] \ {l}]

\* record_media_safely: an exception loses what this log says of media, not the log.
RecordSafely(l, u) ==
    /\ \/ items' = RecordMedia(items, l, u) /\ told' = Retold(told, l)
       \/ UNCHANGED <<items, told>>
    /\ UNCHANGED <<migrated, offset>>

\* Mutant of Unlink: the foreign key is left as it is.
KeepLink(l) == UNCHANGED catalogue

\* The foreign key is nulled when its log goes.
Unlink(l) ==
    /\ items' = [k \in DOMAIN items |->
                    IF items[k].log = l THEN [items[k] EXCEPT !.log = NULL] ELSE items[k]]
    /\ UNCHANGED <<migrated, offset, told>>

(* backfill_media: one batch, oldest first, by offset.  The script is a     *)
(* process of its own, so statements of the server may fall between those   *)
(* of a batch, under row locks at READ COMMITTED.  Here they fall between   *)
(* batches: a batch is taken from its SELECT to its commit at once.         *)

Backlog == InOrder("backward", {l \in stored : Eligible(upload[l]) /\ FileCount(upload[l]) > 0})

BatchAt(n) == SubSeq(Backlog, n + 1, Min({Len(Backlog), n + Batch}))

RecordLog(done, l) ==
    [items |-> RecordMedia(done.items, l, upload[l]), told |-> Retold(done.told, l)]

StartBackfill ==
    /\ migrated /\ offset = Idle
    /\ offset' = 0
    /\ UNCHANGED <<items, migrated, told>>

BackfillBatch ==
    /\ offset # Idle
    /\ LET batch == BatchAt(offset)
           done  == FoldLeft(RecordLog, [items |-> items, told |-> told], batch)
       IN /\ items' = done.items /\ told' = done.told
          /\ offset' = IF batch = <<>> THEN Idle ELSE offset + Len(batch)
    /\ UNCHANGED migrated

(* repair_phantom_media, in the order the database returns the phantoms *)

Without(its, k) == [x \in DOMAIN its \ {k} |-> its[x]]

RetiredAt(row, time) == IF row.removed = NULL THEN [row EXCEPT !.removed = time] ELSE row

RepairPhantom(its, k) ==
    LET row  == its[k]
        keys == Classify(row.path)
    IN IF keys = {} THEN Without(its, k)
       ELSE LET key == CHOOSE x \in keys : TRUE
            IN IF key \in DOMAIN its \ {k}
               THEN Without([its EXCEPT ![key] = RetiredAt(its[key], row.first)], k)
               ELSE Put(Without(its, k), key,
                        RetiredAt([row EXCEPT !.phantom = FALSE], row.first))

Phantoms == {k \in DOMAIN items : items[k].phantom}

Migrate ==
    /\ ~migrated
    /\ \E order \in SetToSeqs(Phantoms) : items' = FoldLeft(RepairPhantom, items, order)
    /\ migrated' = TRUE
    /\ UNCHANGED <<offset, told>>

(* What the pages show *)

Recent(since) == {k \in DOMAIN items : items[k].first >= since /\ items[k].removed = NULL}

Show(k) == [title |-> k.title, year |-> k.year]

NewShows(since) ==
    LET episodes == {k \in Recent(since) : k.kind = "episode"}
    IN [s \in {Show(k) : k \in episodes} |-> {k \in episodes : Show(k) = s}]

NewMovies(since) == {k \in Recent(since) : k.kind = "movie"}

Summary(since) ==
    LET episodes == {k \in Recent(since) : k.kind = "episode"}
    IN [movies   |-> Cardinality({k \in Recent(since) : k.kind = "movie"}),
        shows    |-> Cardinality({Show(k) : k \in episodes}),
        episodes |-> Cardinality(episodes)]

CatalogueInit ==
    /\ items \in Legacies
    /\ migrated = FALSE
    /\ offset = Idle
    /\ told = [l \in {} |-> {}]
=============================================================================
