------------------------------ MODULE LogPages ------------------------------
(***************************************************************************)
(* A client that pages through GET /sync-logs by cursor, in both           *)
(* directions, one request at a time, while rows come and go between its   *)
(* requests.  A page is the set of its logs: their order is that of the    *)
(* table.  A trail is what the client has read since it last turned round. *)
(***************************************************************************)
EXTENDS LogTable

CONSTANTS Queries,  \* filters the client may use
          Limit     \* rows on a page

ASSUME PagesAssumption ==
    /\ Limit \in Nat \ {0}
    /\ \A q \in Queries : /\ q.synthetic \in {"hide", "only", "show"}
                          /\ q.source \in Sources \cup {AnySource}
                          /\ q.from \in Nat /\ q.to \in Nat

VARIABLES
    query,     \* the filters of the client
    dir,       \* direction of the trail
    page,      \* logs on the page last received
    cursor,    \* cursor[d]: the log whose cursor was offered to go on in direction d, or NULL
    shown,     \* history: logs the trail has shown
    twice,     \* history: logs it has shown on two pages
    steady     \* history: logs ahead of the trail when it began and not deleted since

reader == <<query, dir, page, cursor, shown, twice, steady>>

\* Mutant of Ahead: the cursor is its start_time alone.
AheadInTime(q, d, c) ==
    {l \in Visible(q) : c # NULL => IF d = "forward" THEN upload[l].start < upload[c].start
                                    ELSE upload[l].start > upload[c].start}

\* The rows a request with a cursor asks for; a request without one asks for all.
Ahead(q, d, c) == {l \in Visible(q) : c # NULL => Before(d, c, l)}

\* The query fetches one row more than fits, to see whether there is more.
PageOf(d, rows) == {l \in rows : Cardinality({k \in rows : Before(d, k, l)}) < Limit}
HasMore(rows)   == Cardinality(rows) > Limit

LastOf(d, logs) == CHOOSE l \in logs : \A k \in logs : k = l \/ Before(d, k, l)

\* Mutant of Probe: it has no filters.
ProbeAll(q, logs) == {l \in stored : Before("forward", LastOf("forward", logs), l)}

\* Rows past the page, under the same filters.
Probe(q, logs) == {l \in Visible(q) : Before("forward", LastOf("forward", logs), l)}

\* May the page offer a cursor to go on in direction e?
Offers(q, d, c, e) ==
    LET rows == Ahead(q, d, c)
    IN /\ PageOf(d, rows) # {}
       /\ CASE e = d                      -> HasMore(rows)
            [] e # d /\ d = "forward"     -> c # NULL
            [] e # d /\ d = "backward"    -> Probe(q, PageOf(d, rows)) # {}

Respond(q, d, c) ==
    /\ query' = q
    /\ dir' = d
    /\ page' = PageOf(d, Ahead(q, d, c))
    /\ cursor' = [e \in Dirs |-> IF Offers(q, d, c, e) THEN LastOf(e, PageOf(d, Ahead(q, d, c)))
                                 ELSE NULL]
    /\ UNCHANGED table

BeginTrail(q, d, c) ==
    /\ Respond(q, d, c)
    /\ shown' = page'
    /\ twice' = {}
    /\ steady' = Ahead(q, d, c)

OpenList == \E q \in Queries, d \in Dirs : BeginTrail(q, d, NULL)

TurnRound == cursor[Back(dir)] # NULL /\ BeginTrail(query, Back(dir), cursor[Back(dir)])

GoOn ==
    /\ cursor[dir] # NULL
    /\ Respond(query, dir, cursor[dir])
    /\ shown' = shown \cup page'
    /\ twice' = twice \cup (shown \cap page')
    /\ UNCHANGED steady

Turn == OpenList \/ TurnRound \/ GoOn

Forget(l) == steady' = steady \ {l} /\ UNCHANGED <<query, dir, page, cursor, shown, twice>>

\* Before the first request: a trail that has shown nothing and offers nothing.
PagesInit ==
    /\ query \in Queries /\ dir = "forward"
    /\ page = {} /\ shown = {} /\ twice = {} /\ steady = {}
    /\ cursor = [e \in Dirs |-> NULL]
=============================================================================
