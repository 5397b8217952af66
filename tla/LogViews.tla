------------------------------ MODULE LogViews ------------------------------
(***************************************************************************)
(* Ingestion and deletion of sync logs together with everything that shows *)
(* them: the media catalogue, the pages of a client, the reports.  An      *)
(* upload is stored, then recorded in the catalogue, with no await between;*)
(* a deletion takes the row and unlinks the items that refer to it.        *)
(***************************************************************************)
EXTENDS MediaCatalogue, LogPages, LogReports

vars == <<table, catalogue, reader>>

Init ==
    /\ stored = {} /\ upload = [l \in {} |-> NULL]
    /\ CatalogueInit
    /\ PagesInit

Ingest(l, u) ==
    /\ migrated
    /\ StoreLog(l, u)
    /\ RecordSafely(l, u)
    /\ UNCHANGED reader

Delete(l) ==
    /\ DeleteLog(l)
    /\ Unlink(l)
    /\ Forget(l)

Next ==
    \/ \E l \in Logs : \E u \in Uploads[l] : Ingest(l, u)
    \/ \E l \in stored : Delete(l)
    \/ Migrate       /\ UNCHANGED <<table, reader>>
    \/ StartBackfill /\ UNCHANGED <<table, reader>>
    \/ BackfillBatch /\ UNCHANGED <<table, reader>>
    \/ migrated /\ Turn /\ UNCHANGED catalogue

Spec == Init /\ [][Next]_vars

(* The tables, the catalogue and the reader have their types; no item      *)
(* refers to a log that is gone, and the reader's history is in the table. *)
TypeOK ==
    /\ TableOK
    /\ offset \in Nat \cup {Idle}
    /\ \A l \in DOMAIN told : l \in DOMAIN upload /\ told[l] \subseteq DOMAIN told
    /\ \A k \in DOMAIN items : RowOK(items[k]) /\ items[k].log \in stored \cup {NULL}
    /\ dir \in Dirs /\ page \subseteq shown /\ steady \subseteq stored
    /\ cursor \in [Dirs -> DOMAIN upload \cup {NULL}]

-----------------------------------------------------------------------------
(* The catalogue *)

Sends(l, k)   == Eligible(upload[l]) /\ k \in Sent(upload[l])
Removes(l, k) == Eligible(upload[l]) /\ Reaches(upload[l], k, items[k])

\* The last recorded of some logs
LastTold(S) == CHOOSE l \in S : S \ {l} \subseteq told[l]

(* An item is shown as present exactly if the last recorded log that says  *)
(* anything of it transfers it, also if that log deletes it first, and     *)
(* every item a recorded log transfers is in the catalogue.  About the     *)
(* order of record_media and retire_media, over any order of arrival and   *)
(* any back-fill.                                                          *)
PresentIsLastSent ==
    /\ \A l \in DOMAIN told : Eligible(upload[l]) => Sent(upload[l]) \subseteq DOMAIN items
    /\ \A k \in DOMAIN items :
         LET said == {l \in DOMAIN told : Sends(l, k) \/ Removes(l, k)}
         IN said # {} => (items[k].removed = NULL <=> Sends(LastTold(said), k))

(* No step loses an item, and none changes what its first sighting said of *)
(* it: re-syncing, deletions, back-fills and the deletion of its log leave *)
(* path, source and first_seen_at.  The migration leaves no phantom: each  *)
(* becomes, or merges into, a retired item of the key its path says.       *)
SightingKept ==
    [][/\ \A k \in DOMAIN items :
            IF ~items[k].phantom
            THEN /\ k \in DOMAIN items'
                 /\ items'[k].path = items[k].path /\ items'[k].source = items[k].source
                 /\ items'[k].first = items[k].first
                 /\ items'[k].log \in {items[k].log, NULL}
            ELSE \A key \in Classify(items[k].path) :
                    key \in DOMAIN items' /\ items'[key].removed # NULL
       /\ \A k \in DOMAIN items' : ~items'[k].phantom]_vars

-----------------------------------------------------------------------------
(* Pages *)

(* Paging by cursor passes over no log that stays in the table and shows   *)
(* none twice, whatever is ingested or deleted between two requests, the   *)
(* log of the cursor included: what the client has not seen of the logs    *)
(* that were ahead of it is still ahead of the cursor it holds.            *)
NothingSkipped ==
    /\ twice = {}
    /\ \A l \in steady \ shown : cursor[dir] # NULL /\ Before(dir, cursor[dir], l)

(* A page offers a cursor forward, or onward in the direction of the       *)
(* request, exactly if a log under the same filters lies there (AC-011 of  *)
(* security-hardening-v2).                                                 *)
CursorsLeadOn ==
    [][(UNCHANGED table /\ reader' # reader) =>
          \A e \in {"forward", dir'} :
             cursor'[e] # NULL <=>
                /\ page' # {}
                /\ \E l \in stored' : Matches(l, query') /\ \A k \in page' : Before(e, k, l)]_vars

-----------------------------------------------------------------------------
(* Reports *)

\* The sum of a function's values
Total(f) == MapThenSumSet(LAMBDA x : f[x], DOMAIN f)

Nows == {upload[l].start : l \in stored} \cup {upload[l].start + DayLength : l \in stored}

StreakRight(src, now, days) ==
    LET logs   == RealOf(src)
        recent == logs \cap InWindow(now, days)
        health == Health(src, now, days)
        run    == {l \in recent : \A k \in recent : upload[k].start >= upload[l].start => Fails(k)}
    IN /\ recent # {} => health.streak = Cardinality(run)
       /\ health.streak > 0 <=> health.status = "failed"
       /\ (recent # {} /\ \A l \in logs : Day(upload[l].start) <= Day(now)) =>
             health.streak <= Total([d \in DOMAIN health.daily |-> health.daily[d].failures])

(* The streak of a source is the number of its failures since its last     *)
(* success in the window, or says whether its last sync failed if that is  *)
(* older; it is positive exactly if the card shows the source as failed,   *)
(* and never more than the failures of the days shown.  Two logs of one    *)
(* source that start at the same time are left out: their order is the     *)
(* database's.  About _consecutive_failures and _latest_per_source.        *)
StreakAgrees ==
    \A src \in Sources \ {Synthetic}, now \in Nows, days \in {1, 2} :
       (\A a, b \in RealOf(src) : a # b => upload[a].start # upload[b].start) =>
          StreakRight(src, now, days)

\* Bounds of a report: days in use, and filters on synthetic logs.
ReportQueries ==
    LET days == {Day(upload[l].start) : l \in stored}
    IN [from: days, to: days, synthetic: {"hide", "only", "show"}, source: {AnySource}]

Syncs(f)     == Total([x \in DOMAIN f |-> f[x].total])
Successes(f) == Total([x \in DOMAIN f |-> f[x].succeeded])

SumsAgree(q) ==
    LET stats == SourceStats(q)
    IN \A period \in {1, 2} :
          LET points == SummaryData(q, period)
          IN Syncs(points) = Syncs(stats) /\ Successes(points) = Successes(stats)

\* Do two pages of the export, however each orders ties, make one list of the rows?
PagesFit(q, one, two) ==
    LET rows  == ExportRows(q, {})
        pages == one \o two
        syncs == Syncs(SourceStats(q))
    IN /\ syncs <= 2 * MaxExport => Len(pages) = syncs
       /\ \A list \in LatestFirst(rows) : \A i \in DOMAIN pages :
             upload[pages[i]].start = upload[list[i]].start
       /\ \A l \in rows :
             LET at == {i \in DOMAIN pages : pages[i] = l}
             IN (\A k \in rows \ {l} : upload[k].start # upload[l].start) =>
                   /\ \A i, j \in at : i = j
                   /\ syncs <= 2 * MaxExport => at # {}

ExportAgrees(q) ==
    /\ \A one \in Export(q, {}, 0, MaxExport), two \in Export(q, {}, MaxExport, MaxExport) :
          PagesFit(q, one, two)
    /\ \A s \in DOMAIN SourceStats(q) \ {Synthetic} : \A top \in Export(q, {s}, 0, 1) :
          SourceStats(q)[s].last = upload[top[1]].start

SourcesAgree ==
    LET all == [from |-> NULL, to |-> NULL, synthetic |-> "hide", source |-> AnySource]
    IN /\ DOMAIN SourceStats(all) = SourceNames
       /\ \A s \in Sources : Health(s, NULL, 1).status # "never" => s \in SourceNames

MediaAgrees(since) ==
    /\ Summary(since).movies = Cardinality(NewMovies(since))
    /\ Summary(since).shows = Cardinality(DOMAIN NewShows(since))
    /\ Summary(since).episodes =
          Total([s \in DOMAIN NewShows(since) |-> Cardinality(NewShows(since)[s])])

(* Two reports over the same logs agree: the points of a summary, of any   *)
(* period, the statistics of the sources and the export add up to the same *)
(* syncs and successes, and the last sync of a source starts its export; a *)
(* client that steps by the largest page gets as many rows as the          *)
(* statistics count, with the starting times of one list and each log that *)
(* starts at a time of its own once, whatever the database makes of ties   *)
(* in each request; the list of sources has those with statistics and      *)
(* those whose health is known; the media summary counts what the media    *)
(* list shows.                                                             *)
ReportsAgree ==
    /\ \A q \in ReportQueries : SumsAgree(q) /\ ExportAgrees(q)
    /\ SourcesAgree
    /\ \A since \in {upload[l].start : l \in stored} : MediaAgrees(since)
=============================================================================
