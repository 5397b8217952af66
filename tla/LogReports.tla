----------------------------- MODULE LogReports -----------------------------
(***************************************************************************)
(* The reports drawn from sync_logs: the health of each source, and the    *)
(* summary, the statistics per source and the export of analytics.  They   *)
(* are queries with a fold over their rows; they change nothing.  The      *)
(* streaks take two rows that start at the same time in the order of their *)
(* ids; the export leaves their order to the database, request by request. *)
(***************************************************************************)
EXTENDS LogTable, FiniteSetsExt, SequencesExt

CONSTANTS DayLength,  \* units of time in a day; the last lies after 23:59:59
          MaxExport   \* MAX_EXPORT_LIMIT

\* No log lies on day 0, which stands for no day.
ASSUME ReportsAssumption ==
    /\ DayLength \in Nat \ {0, 1} /\ MaxExport \in Nat \ {0}
    /\ \A l \in Logs : \A u \in Uploads[l] : u.start >= DayLength

Day(t)    == t \div DayLength
Begins(d) == d * DayLength
Ends(d)   == d * DayLength + DayLength - 2

Fails(l) == upload[l].exit = "nonzero"

NewestFirst(S) == InOrder("forward", S)

\* GET /sync-logs/sources
SourceNames == {upload[l].source : l \in stored} \ {Synthetic}

(* Health of the sources *)

Real(l) == ~upload[l].dry /\ upload[l].source # Synthetic

WindowStart(now, days) == Begins(Day(now) - (days - 1))

InWindow(now, days) == {l \in stored : Real(l) /\ upload[l].start >= WindowStart(now, days)}

DailyPoint(src, d, now, days) ==
    LET logs == {l \in InWindow(now, days) : upload[l].source = src /\ Day(upload[l].start) = d}
    IN [syncs |-> Cardinality(logs), failures |-> Cardinality({l \in logs : Fails(l)})]

RealOf(src) == {l \in stored : Real(l) /\ upload[l].source = src}

LatestOf(src) == CHOOSE l \in RealOf(src) : \A k \in RealOf(src) : k = l \/ Older(k, l)

\* Mutant of CountRow: a success does not end the streak.
CountFailure(acc, l) ==
    IF Fails(l) THEN [acc EXCEPT !.streak[upload[l].source] = @ + 1] ELSE acc

\* The loop over the rows of all sources: a success closes the streak of its source.
CountRow(acc, l) ==
    LET src == upload[l].source
    IN CASE src \in acc.closed              -> acc
         [] src \notin acc.closed /\ Fails(l)  -> [acc EXCEPT !.streak[src] = @ + 1]
         [] src \notin acc.closed /\ ~Fails(l) -> [acc EXCEPT !.closed = @ \cup {src}]

Streaks(now, days) ==
    FoldLeft(CountRow, [streak |-> [s \in Sources |-> 0], closed |-> {}],
             NewestFirst(InWindow(now, days)))

ConsecutiveFailures(src, now, days) ==
    LET counted == Streaks(now, days)
    IN IF counted.streak[src] = 0 /\ src \notin counted.closed /\ RealOf(src) # {}
       THEN IF Fails(LatestOf(src)) THEN 1 ELSE 0
       ELSE counted.streak[src]

Health(src, now, days) ==
    [status |-> CASE RealOf(src) = {} -> "never"
                  [] RealOf(src) # {} /\ Fails(LatestOf(src))  -> "failed"
                  [] RealOf(src) # {} /\ ~Fails(LatestOf(src)) -> "ok",
     streak |-> ConsecutiveFailures(src, now, days),
     daily  |-> [d \in Day(now) - (days - 1) .. Day(now) |-> DailyPoint(src, d, now, days)]]

(* Analytics: from and to are days, NULL where the caller gave none *)

InRange(l, q) ==
    /\ q.from # NULL => upload[l].start >= Begins(q.from)
    /\ q.to   # NULL => upload[l].start <= Ends(q.to)

Succeeded(logs) == Cardinality({l \in logs : upload[l].exit = "zero"})
Failed(logs)    == Cardinality({l \in logs : Fails(l)})

SummaryRows(q) ==
    {l \in stored : /\ upload[l].start >= Begins(q.from) /\ upload[l].start <= Ends(q.to)
                    /\ q.synthetic = "hide" => upload[l].source # Synthetic
                    /\ q.synthetic = "only" => upload[l].source = Synthetic
                    /\ q.synthetic # "only" /\ q.source # AnySource => upload[l].source = q.source}

\* date_trunc: period is a number of days
SummaryData(q, period) ==
    LET Trunc(l)  == Day(upload[l].start) \div period
        In(p)     == {l \in SummaryRows(q) : Trunc(l) = p}
    IN [p \in {Trunc(l) : l \in SummaryRows(q)} |->
          [total |-> Cardinality(In(p)), succeeded |-> Succeeded(In(p)), failed |-> Failed(In(p))]]

StatsRows(q) ==
    {l \in stored : /\ InRange(l, q)
                    /\ q.synthetic = "hide" => upload[l].source # Synthetic
                    /\ q.synthetic = "only" => upload[l].source = Synthetic}

SourceStats(q) ==
    LET Of(s) == {l \in StatsRows(q) : upload[l].source = s}
    IN [s \in {upload[l].source : l \in StatsRows(q)} |->
          [total |-> Cardinality(Of(s)), succeeded |-> Succeeded(Of(s)),
           last  |-> Max({upload[l].start : l \in Of(s)})]]

\* Mutant of ExportRows: it does not hide the synthetic source.
ExportUnhidden(q, sources) ==
    {l \in stored : InRange(l, q) /\ (sources # {} => upload[l].source \in sources)}

\* The export takes a set of sources, empty for all of them.
ExportRows(q, sources) ==
    {l \in stored : /\ q.synthetic = "hide" => upload[l].source # Synthetic
                    /\ q.synthetic = "only" => upload[l].source = Synthetic
                    /\ q.synthetic # "only" /\ sources # {} => upload[l].source \in sources
                    /\ InRange(l, q)}

\* Rows as a query that orders by start_time alone may return them.
LatestFirst(S) ==
    {rows \in Bijection(1 .. Cardinality(S), S) :
        \A i, j \in DOMAIN rows : i < j => upload[rows[i]].start >= upload[rows[j]].start}

\* The possible answers to a request; two requests need not order ties alike.
Export(q, sources, first, limit) ==
    {SubSeq(rows, first + 1, Min({Len(rows), first + limit, first + MaxExport})) :
        rows \in LatestFirst(ExportRows(q, sources))}
=============================================================================
