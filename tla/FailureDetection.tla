------------------------- MODULE FailureDetection -------------------------
(***************************************************************************)
(* The life of sync logs and of the failures found in them:                *)
(*  - ingestion (create_sync_log), which raises an exit-code failure and   *)
(*    moves the monitor of the source on;                                  *)
(*  - the stale checker (check_stale_sources) over the monitors;           *)
(*  - deletion: by an administrator, by the retention pass, and by the     *)
(*    purge of synthetic rows when the synthetic monitor starts.           *)
(* Each of them is one database transaction, except ingestion, which is    *)
(* two back to back with no await between them: nothing comes in between,  *)
(* but the second may fail or never happen.  A client sends the end_time   *)
(* of its log, and logs arrive in any order.  The clock counts ticks; a    *)
(* dispatch (see WebhookDispatch) takes less than one.                     *)
(***************************************************************************)
EXTENDS Integers, FiniteSets

CONSTANTS Sources,
          SyntheticSource,  \* SYNTHETIC_SOURCE_NAME
          Deadlines,        \* expected_interval_hours * grace_multiplier, the values in use
          Window,           \* how far back the stale checker looks for its own events
          Retention,        \* data_retention_days; 0 switches retention off
          PurgeAge,         \* max_age_hours of cleanup_synthetic_logs
          MaxTime, MaxLogs  \* bounds of the model

ASSUME DetectionAssumption ==
    /\ SyntheticSource \in Sources
    /\ Deadlines \subseteq Nat
    /\ Window \in Nat /\ Retention \in Nat /\ PurgeAge \in Nat
    /\ MaxTime \in Nat /\ MaxLogs \in Nat

Time   == 0..MaxTime
LogIds == 1..MaxLogs
Never  == -1   \* last_sync_at is NULL
NoLog  == 0    \* sync_log_id is NULL

SyncLog == [id: LogIds, source: Sources, end: Time, created: Time]
FailureEvent ==
    [kind: {"exit_code"}, source: Sources, at: Time, log: LogIds, deadline: {0}]
    \cup [kind: {"stale"}, source: Sources, at: Time, log: {NoLog}, deadline: Deadlines]

VARIABLES
    now,
    logs,       \* rows of sync_logs
    events,     \* rows of failure_events
    noted,      \* those of them that notification_logs rows refer to
    monitor,    \* sync_source_monitors: per source a row or none
    (* history *)
    syncs,      \* every log ever ingested
    counted,    \* those of them whose ingestion was completed
    survivors   \* what the last retention pass should have deleted and did not

tables  == <<logs, events, noted, monitor>>
vars    == <<now, tables, syncs, counted, survivors>>

NoMonitor == [exists |-> FALSE, on |-> FALSE, deadline |-> 0, last |-> Never]

TypeOK ==
    /\ now \in Time
    /\ logs \in SUBSET SyncLog /\ syncs \in SUBSET SyncLog /\ logs \subseteq syncs
    /\ events \in SUBSET FailureEvent /\ noted \in SUBSET events
    /\ monitor \in [Sources -> [exists: BOOLEAN, on: BOOLEAN, deadline: Deadlines \cup {0},
                                last: Time \cup {Never}]]
    /\ counted \in SUBSET syncs /\ survivors \in SUBSET SyncLog

Init ==
    /\ now = 0
    /\ logs = {} /\ events = {} /\ noted = {}
    /\ syncs = {} /\ counted = {} /\ survivors = {}
    /\ monitor = [s \in Sources |-> NoMonitor]

(* The foreign keys: a transaction that breaks them fails as a whole.       *)
References(log, event, note) ==
    /\ note \subseteq event
    /\ \A e \in event : e.log # NoLog => \E l \in log : l.id = e.log

-----------------------------------------------------------------------------
(* Ingestion.                                                               *)

LastSyncDue(s, end) == end + monitor[s].deadline

LastSync(s, end) == end

(* One commit adds the log, a second one the failure and last_sync_at.  A   *)
(* crash or an error between them (whole = FALSE) leaves the log alone.     *)
Ingest(s, end, failed, whole) ==
    LET id  == Cardinality(syncs) + 1
        new == [id |-> id, source |-> s, end |-> end, created |-> now]
    IN /\ id <= MaxLogs
       /\ logs' = logs \cup {new}
       /\ syncs' = syncs \cup {new}
       /\ counted' = IF whole THEN counted \cup {new} ELSE counted
       /\ events' = IF whole /\ failed
                    THEN events \cup {[kind |-> "exit_code", source |-> s, at |-> now,
                                       log |-> id, deadline |-> 0]}
                    ELSE events
       /\ monitor' = IF whole /\ monitor[s].exists
                     THEN [monitor EXCEPT ![s].last = LastSync(s, end)]
                     ELSE monitor
       /\ UNCHANGED <<now, noted, survivors>>

(* The dispatch of a failure commits its notification_logs rows.            *)
Notify(e) ==
    /\ e \in events \ noted
    /\ e.kind = "exit_code" /\ e.at = now
    /\ noted' = noted \cup {e}
    /\ UNCHANGED <<now, logs, events, monitor, syncs, counted, survivors>>

-----------------------------------------------------------------------------
(* Monitors and staleness.                                                  *)

CreateMonitor(s, on, deadline) ==
    /\ ~monitor[s].exists
    /\ monitor' = [monitor EXCEPT ![s] =
                      [exists |-> TRUE, on |-> on, deadline |-> deadline, last |-> Never]]
    /\ UNCHANGED <<now, logs, events, noted, syncs, counted, survivors>>

UpdateMonitor(s, on, deadline) ==
    /\ monitor[s].exists
    /\ monitor' = [monitor EXCEPT ![s].on = on, ![s].deadline = deadline]
    /\ UNCHANGED <<now, logs, events, noted, syncs, counted, survivors>>

DeleteMonitor(s) ==
    /\ monitor[s].exists
    /\ monitor' = [monitor EXCEPT ![s] = NoMonitor]
    /\ UNCHANGED <<now, logs, events, noted, syncs, counted, survivors>>

OverdueEarly(s) ==
    /\ monitor[s].exists /\ monitor[s].on
    /\ monitor[s].last # Never
    /\ now >= monitor[s].last + monitor[s].deadline

Overdue(s) ==
    /\ monitor[s].exists /\ monitor[s].on
    /\ monitor[s].last # Never
    /\ now > monitor[s].last + monitor[s].deadline

FlaggedToday(s) ==
    \E e \in events : e.kind = "stale" /\ e.source = s /\ e.at = now

Flagged(s) ==
    \E e \in events : /\ e.kind = "stale" /\ e.source = s
                      /\ e.at >= now - Window
                      /\ e.at >= monitor[s].last

StaleEvent(s) ==
    [kind |-> "stale", source |-> s, at |-> now, log |-> NoLog, deadline |-> monitor[s].deadline]

(* check_stale_sources.  (Nothing under app/ calls it; it runs when someone *)
(* does.)                                                                   *)
CheckStale ==
    /\ events' = events \cup {StaleEvent(s) : s \in {x \in Sources : Overdue(x) /\ ~Flagged(x)}}
    /\ UNCHANGED <<now, logs, noted, monitor, syncs, counted, survivors>>

-----------------------------------------------------------------------------
(* Deletion.                                                                *)

(* The administrator's DELETE: refused by the foreign key of a failure.     *)
DeleteSyncLog(l) ==
    /\ l \in logs
    /\ References(logs \ {l}, events, noted)
    /\ logs' = logs \ {l}
    /\ UNCHANGED <<now, events, noted, monitor, syncs, counted, survivors>>

Expired(l)      == l.created < now - Retention
SyntheticOld(l) == l.source = SyntheticSource /\ l.created < now - PurgeAge

EventsOfSource(doomed) == {e \in events : e.source \in {l.source : l \in doomed}}

EventsOf(doomed) == {e \in events : e.log \in {l.id : l \in doomed}}

NotesKept(doomed) == noted
NotesLeft(doomed) == noted \ EventsOf(doomed)

(* One pass: cleanup_old_sync_logs deletes log rows of notifications, then  *)
(* failures, then sync logs, and commits.  cleanup_synthetic_logs deletes   *)
(* too, but the pass closes its session without a commit, which undoes it.  *)
RetentionPass ==
    LET doomed == {l \in logs : Expired(l)}
        ok == References(logs \ doomed, events \ EventsOf(doomed), NotesLeft(doomed))
    IN /\ Retention > 0
       /\ IF ok
          THEN /\ logs' = logs \ doomed
               /\ events' = events \ EventsOf(doomed)
               /\ noted' = NotesLeft(doomed)
          ELSE UNCHANGED <<logs, events, noted>>
       /\ survivors' = {l \in logs' : Expired(l) \/ SyntheticOld(l)}
       /\ UNCHANGED <<now, monitor, syncs, counted>>

(* The synthetic monitor starts: cleanup_synthetic_logs, committed.  It     *)
(* leaves notification rows alone, so one of them makes it fail.            *)
PurgeSynthetic ==
    LET doomed == {l \in logs : SyntheticOld(l)}
    IN /\ References(logs \ doomed, events \ EventsOf(doomed), noted)
       /\ logs' = logs \ doomed
       /\ events' = events \ EventsOf(doomed)
       /\ UNCHANGED <<now, noted, monitor, syncs, counted, survivors>>

Tick ==
    /\ now < MaxTime
    /\ now' = now + 1
    /\ survivors' = {}
    /\ UNCHANGED <<tables, syncs, counted>>

Next ==
    \/ \E s \in Sources :
          \/ \E end \in Time, failed, whole \in BOOLEAN : Ingest(s, end, failed, whole)
          \/ \E on \in BOOLEAN, deadline \in Deadlines :
                CreateMonitor(s, on, deadline) \/ UpdateMonitor(s, on, deadline)
          \/ DeleteMonitor(s)
    \/ \E e \in events : Notify(e)
    \/ CheckStale
    \/ \E l \in logs : DeleteSyncLog(l)
    \/ RetentionPass \/ PurgeSynthetic
    \/ Tick

Spec == Init /\ [][Next]_vars

-----------------------------------------------------------------------------
(* Properties.                                                              *)

Stale == {e \in events : e.kind = "stale"}

(* A stale event is true of the sync that arrived last: there was one whose *)
(* ingestion was completed, it ended more than the quoted deadline before,  *)
(* and none arrived after it.  (A log that arrives late moves last_sync_at  *)
(* back, so the source may have a sync that ended later: the event says     *)
(* nothing of that one.)                                                    *)
StaleIsTrue ==
    \A e \in Stale : \E l \in counted :
        /\ l.source = e.source /\ l.created <= e.at
        /\ l.end + e.deadline < e.at
        /\ \A k \in counted : k.source = e.source /\ k.created < e.at => k.id <= l.id

(* Two stale events of one source with no sync of it that ended after the   *)
(* first and arrived before the second.                                     *)
SameOutage(d, e) ==
    /\ d # e /\ d.source = e.source /\ d.at <= e.at
    /\ ~\E l \in counted : l.source = e.source /\ l.end > d.at /\ l.created <= e.at

(* The checker raises no second stale event of an outage as far back as it  *)
(* looks for the first, in any order of logs and changes of the monitor.    *)
StaleOncePerWindow == \A d, e \in Stale : SameOutage(d, e) => e.at - d.at > Window

(* "Duplicate stale events are not created if one already exists since the  *)
(* last sync": one event per outage, however long it lasts.                 *)
OneStalePerOutage == \A d, e \in Stale : ~SameOutage(d, e)

(* A retention pass leaves no real log beyond the retention period, failures *)
(* and notifications that hang on it included.                              *)
RetentionDeletesExpired == \A l \in survivors : l.source = SyntheticSource /\ ~Expired(l)

(* Failures and notifications of a log go with it and never before it: a    *)
(* log that is still there keeps the failure raised for it.                 *)
FailureLivesWithLog ==
    [][\A e \in events : e \notin events' => \A l \in logs' : l.id # e.log]_vars

(* Synthetic logs older than an hour are deleted on every retention pass.   *)
RetentionPurgesSynthetic == \A l \in survivors : ~SyntheticOld(l)
=============================================================================
