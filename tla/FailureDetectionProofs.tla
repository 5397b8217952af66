----------------------- MODULE FailureDetectionProofs -----------------------
(***************************************************************************)
(* Proofs about FailureDetection: for any sources, deadlines, windows and  *)
(* periods, and logs in any order, a stale event is true of the sync that  *)
(* arrived last and is not repeated within the checker's window, a         *)
(* retention pass succeeds and deletes what is due, and a failure goes     *)
(* with its log.                                                           *)
(***************************************************************************)
EXTENDS FailureDetection, TLAPS, FiniteSetTheorems

(***************************************************************************)
(* Types, and the ids of the logs: each new one is the next number.        *)
(***************************************************************************)

Numbered ==
    /\ IsFiniteSet(syncs)
    /\ \A l \in syncs : l.id <= Cardinality(syncs)
    /\ \A k, l \in syncs : k.id = l.id => k = l

Configured == \A s \in Sources : monitor[s].exists => monitor[s].deadline \in Deadlines

TypeInv == TypeOK /\ Numbered /\ Configured

MonitorRow == [exists: BOOLEAN, on: BOOLEAN, deadline: Deadlines \cup {0},
               last: Time \cup {Never}]

NewLog(s, end) ==
    [id |-> Cardinality(syncs) + 1, source |-> s, end |-> end, created |-> now]

LEMMA SyncType ==
    ASSUME TypeOK, NEW l \in syncs
    PROVE  l \in SyncLog /\ l.id \in Nat /\ l.end \in Nat /\ l.created \in Nat /\ l.source \in Sources
    BY DetectionAssumption DEF TypeOK, SyncLog, LogIds, Time

LEMMA MonitorType ==
    ASSUME TypeInv, NEW s \in Sources
    PROVE  /\ monitor[s].deadline \in Nat
           /\ monitor[s].exists => monitor[s].deadline \in Deadlines
           /\ monitor[s].last # Never => monitor[s].last \in Nat
<1>1. monitor[s] \in MonitorRow
    BY DEF TypeInv, TypeOK, MonitorRow
<1>2. Time \subseteq Nat /\ Deadlines \subseteq Nat
    BY DetectionAssumption DEF Time
<1>3. monitor[s].deadline \in Deadlines \cup {0} /\ monitor[s].last \in Time \cup {Never}
    BY <1>1 DEF MonitorRow
<1>4. monitor[s].deadline \in Nat
    <2>1. Deadlines \cup {0} \subseteq Nat
        BY <1>2
    <2> QED BY <1>3, <2>1
<1>5. monitor[s].last # Never => monitor[s].last \in Nat
    BY <1>2, <1>3
<1> QED BY <1>4, <1>5 DEF TypeInv, Configured

LEMMA StaleType ==
    ASSUME TypeOK, NEW e \in Stale
    PROVE  e.at \in Time /\ e.at \in Nat /\ e.deadline \in Nat /\ e.source \in Sources /\ e.log = NoLog
<1>1. e \in FailureEvent /\ e.kind = "stale"
    BY DEF TypeOK, Stale
<1>2. Time \subseteq Nat /\ Deadlines \subseteq Nat
    BY DetectionAssumption DEF Time
<1> QED BY <1>1, <1>2 DEF FailureEvent

(* The log that is ingested.                                                *)
LEMMA IngestFacts ==
    ASSUME TypeInv, NEW s \in Sources, NEW end \in Time, NEW failed \in BOOLEAN, NEW whole \in BOOLEAN,
           Ingest(s, end, failed, whole)
    PROVE  /\ NewLog(s, end) \in SyncLog
           /\ syncs' = syncs \cup {NewLog(s, end)} /\ logs' = logs \cup {NewLog(s, end)}
           /\ counted' = IF whole THEN counted \cup {NewLog(s, end)} ELSE counted
           /\ \A l \in syncs : l.id < NewLog(s, end).id
           /\ Cardinality(syncs) \in Nat
           /\ UNCHANGED <<now, noted, survivors>>
<1>1. Cardinality(syncs) \in Nat
    BY FS_CardinalityType DEF TypeInv, Numbered
<1>2. NewLog(s, end) \in SyncLog
    BY <1>1, DetectionAssumption DEF Ingest, NewLog, SyncLog, LogIds, TypeInv, TypeOK
<1>3. \A l \in syncs : l.id < NewLog(s, end).id
    BY <1>1, SyncType DEF TypeInv, Numbered, NewLog
<1> QED BY <1>1, <1>2, <1>3 DEF Ingest, NewLog

LEMMA NumberedStep == ASSUME TypeInv, [Next]_vars PROVE Numbered'
<1>1. CASE UNCHANGED syncs
    BY <1>1 DEF TypeInv, Numbered
<1>2. ASSUME NEW s \in Sources, NEW end \in Time, NEW failed \in BOOLEAN, NEW whole \in BOOLEAN,
             Ingest(s, end, failed, whole)
      PROVE  Numbered'
    <2> DEFINE new == NewLog(s, end)
    <2>1. /\ syncs' = syncs \cup {new} /\ \A l \in syncs : l.id < new.id /\ l.id \in Nat
          /\ Cardinality(syncs) \in Nat /\ new.id = Cardinality(syncs) + 1
        BY <1>2, IngestFacts, SyncType DEF TypeInv, NewLog
    <2> HIDE DEF new
    <2>2. new \notin syncs
        BY <2>1
    <2>3. IsFiniteSet(syncs') /\ Cardinality(syncs') = Cardinality(syncs) + 1
        BY <2>1, <2>2, FS_AddElement DEF TypeInv, Numbered
    <2>4. \A l \in syncs' : l.id <= Cardinality(syncs')
        BY <2>1, <2>3 DEF TypeInv, Numbered
    <2>5. \A k, l \in syncs' : k.id = l.id => k = l
        BY <2>1 DEF TypeInv, Numbered
    <2> QED BY <2>3, <2>4, <2>5 DEF Numbered
<1> QED BY <1>1, <1>2 DEF Next, Notify, CreateMonitor, UpdateMonitor, DeleteMonitor, CheckStale,
                         DeleteSyncLog, RetentionPass, PurgeSynthetic, Tick, vars, tables

LEMMA MonitorStep ==
    ASSUME TypeInv, [Next]_vars
    PROVE  monitor' \in [Sources -> MonitorRow] /\ Configured'
<1>1. monitor \in [Sources -> MonitorRow] /\ Configured
    BY DEF TypeInv, TypeOK, MonitorRow
<1>2. ASSUME NEW s \in Sources, NEW r \in MonitorRow, monitor' = [monitor EXCEPT ![s] = r],
             r.exists => r.deadline \in Deadlines
      PROVE  monitor' \in [Sources -> MonitorRow] /\ Configured'
    BY <1>1, <1>2 DEF Configured
<1>3. CASE UNCHANGED monitor
    BY <1>1, <1>3 DEF Configured
<1>4. ASSUME NEW s \in Sources, NEW end \in Time, NEW failed \in BOOLEAN, NEW whole \in BOOLEAN,
             Ingest(s, end, failed, whole)
      PROVE  monitor' \in [Sources -> MonitorRow] /\ Configured'
    <2>1. UNCHANGED monitor \/ monitor' = [monitor EXCEPT ![s].last = end]
        BY <1>4 DEF Ingest, LastSync
    <2> QED BY <1>1, <1>3, <2>1 DEF Configured, MonitorRow
<1>5. ASSUME NEW s \in Sources, NEW on \in BOOLEAN, NEW deadline \in Deadlines,
             CreateMonitor(s, on, deadline)
      PROVE  monitor' \in [Sources -> MonitorRow] /\ Configured'
    BY <1>2, <1>5 DEF CreateMonitor, MonitorRow
<1>6. ASSUME NEW s \in Sources, NEW on \in BOOLEAN, NEW deadline \in Deadlines,
             UpdateMonitor(s, on, deadline)
      PROVE  monitor' \in [Sources -> MonitorRow] /\ Configured'
    BY <1>1, <1>6 DEF UpdateMonitor, Configured, MonitorRow
<1>7. ASSUME NEW s \in Sources, DeleteMonitor(s)
      PROVE  monitor' \in [Sources -> MonitorRow] /\ Configured'
    BY <1>2, <1>7 DEF DeleteMonitor, NoMonitor, MonitorRow
<1> QED BY <1>3, <1>4, <1>5, <1>6, <1>7
        DEF Next, Notify, CheckStale, DeleteSyncLog, RetentionPass, PurgeSynthetic, Tick, vars, tables

(* The events that are raised.                                              *)
LEMMA EventStep ==
    ASSUME TypeInv, [Next]_vars
    PROVE  events' \in SUBSET FailureEvent /\ noted' \in SUBSET events'
<1>1. events \in SUBSET FailureEvent /\ noted \in SUBSET events
    BY DEF TypeInv, TypeOK
<1>2. ASSUME NEW s \in Sources, NEW end \in Time, NEW failed \in BOOLEAN, NEW whole \in BOOLEAN,
             Ingest(s, end, failed, whole)
      PROVE  events' \in SUBSET FailureEvent /\ noted' \in SUBSET events'
    <2>1. NewLog(s, end).id \in LogIds /\ now \in Time
        BY <1>2, IngestFacts DEF SyncLog, TypeInv, TypeOK
    <2>2. [kind |-> "exit_code", source |-> s, at |-> now,
           log |-> Cardinality(syncs) + 1, deadline |-> 0] \in FailureEvent
        BY <2>1 DEF NewLog, FailureEvent
    <2> QED BY <1>1, <1>2, <2>2 DEF Ingest
<1>3. CASE CheckStale
    <2>1. ASSUME NEW s \in Sources, Overdue(s) PROVE StaleEvent(s) \in FailureEvent
        BY <2>1, MonitorType DEF Overdue, StaleEvent, FailureEvent, TypeInv, TypeOK
    <2> QED BY <1>1, <1>3, <2>1 DEF CheckStale
<1>4. CASE RetentionPass
    BY <1>1, <1>4 DEF RetentionPass, NotesLeft
<1>5. CASE PurgeSynthetic
    BY <1>1, <1>5 DEF PurgeSynthetic, References
<1>6. ASSUME NEW e \in events, Notify(e) PROVE events' \in SUBSET FailureEvent /\ noted' \in SUBSET events'
    BY <1>1, <1>6 DEF Notify
<1> QED BY <1>1, <1>2, <1>3, <1>4, <1>5, <1>6
        DEF Next, CreateMonitor, UpdateMonitor, DeleteMonitor, DeleteSyncLog, Tick, vars, tables

LEMMA RowStep ==
    ASSUME TypeInv, [Next]_vars
    PROVE  /\ now' \in Time
           /\ logs' \in SUBSET SyncLog /\ syncs' \in SUBSET SyncLog /\ logs' \subseteq syncs'
           /\ counted' \in SUBSET syncs' /\ survivors' \in SUBSET SyncLog
<1>1. /\ now \in Time /\ logs \in SUBSET SyncLog /\ syncs \in SUBSET SyncLog
      /\ logs \subseteq syncs /\ counted \in SUBSET syncs /\ survivors \in SUBSET SyncLog
    BY DEF TypeInv, TypeOK
<1>2. ASSUME NEW s \in Sources, NEW end \in Time, NEW failed \in BOOLEAN, NEW whole \in BOOLEAN,
             Ingest(s, end, failed, whole)
      PROVE  /\ now' \in Time
             /\ logs' \in SUBSET SyncLog /\ syncs' \in SUBSET SyncLog /\ logs' \subseteq syncs'
             /\ counted' \in SUBSET syncs' /\ survivors' \in SUBSET SyncLog
    BY <1>1, <1>2, IngestFacts
<1>3. CASE Tick
    BY <1>1, <1>3, DetectionAssumption DEF Tick, Time, tables
<1>4. CASE RetentionPass
    BY <1>1, <1>4 DEF RetentionPass
<1> QED BY <1>1, <1>2, <1>3, <1>4
        DEF Next, Notify, CreateMonitor, UpdateMonitor, DeleteMonitor, CheckStale, DeleteSyncLog,
            PurgeSynthetic, vars, tables

LEMMA TypeStep == TypeInv /\ [Next]_vars => TypeInv'
    BY NumberedStep, MonitorStep, EventStep, RowStep DEF TypeInv, TypeOK, MonitorRow

(* Theorem: rows, events and monitors have their types in every state.      *)
(* About the tables that ingestion, checker and retention share.            *)
THEOREM TypeCorrect == Spec => [](TypeOK /\ Numbered /\ Configured)
<1>1. Init => TypeInv
    BY FS_EmptySet, DetectionAssumption
       DEF Init, TypeInv, TypeOK, Numbered, Configured, NoMonitor, Time
<1>2. TypeInv /\ [Next]_vars => TypeInv'
    BY TypeStep
<1>3. TypeInv <=> TypeOK /\ Numbered /\ Configured
    BY DEF TypeInv
<1> QED BY <1>1, <1>2, <1>3, PTL DEF Spec

(***************************************************************************)
(* The checker.  What a monitor holds is the end of the sync whose         *)
(* ingestion was completed last, which need not be the one that ended last.*)
(***************************************************************************)

Latest(l) == l \in counted /\ \A k \in counted : k.source = l.source => k.id <= l.id

LastIsLatest ==
    \A s \in Sources : monitor[s].last # Never =>
        /\ monitor[s].exists
        /\ \E l \in counted : Latest(l) /\ l.source = s /\ l.end = monitor[s].last

InThePast ==
    /\ \A e \in Stale : e.at <= now
    /\ \A l \in syncs : l.created <= now

Raised == {StaleEvent(s) : s \in {x \in Sources : Overdue(x) /\ ~Flagged(x)}}

LEMMA StaleMoves ==
    ASSUME [Next]_vars
    PROVE  \/ Stale' \subseteq Stale
           \/ Stale' = Stale \cup Raised /\ UNCHANGED <<now, monitor, syncs, counted>>
<1>1. ASSUME NEW s \in Sources, NEW end \in Time, NEW failed \in BOOLEAN, NEW whole \in BOOLEAN,
             Ingest(s, end, failed, whole)
      PROVE  Stale' \subseteq Stale
    BY <1>1 DEF Ingest, Stale
<1>2. CASE CheckStale
    BY <1>2 DEF CheckStale, Stale, Raised, StaleEvent
<1>3. CASE events' \subseteq events
    BY <1>3 DEF Stale
<1> QED BY <1>1, <1>2, <1>3
        DEF Next, Notify, CreateMonitor, UpdateMonitor, DeleteMonitor, DeleteSyncLog, RetentionPass,
            PurgeSynthetic, Tick, vars, tables

LEMMA SyncMoves ==
    ASSUME TypeInv, [Next]_vars
    PROVE  \/ UNCHANGED <<syncs, counted>> /\ now' \in Nat /\ now <= now'
           \/ /\ UNCHANGED now
              /\ \E s \in Sources : \E end \in Time : \E failed, whole \in BOOLEAN : Ingest(s, end, failed, whole)
<1>1. now \in Nat
    BY DetectionAssumption DEF TypeInv, TypeOK, Time
<1>2. CASE Tick
    BY <1>1, <1>2 DEF Tick
<1>3. CASE UNCHANGED <<now, syncs, counted>>
    BY <1>1, <1>3
<1> QED BY <1>2, <1>3
        DEF Next, Ingest, Notify, CreateMonitor, UpdateMonitor, DeleteMonitor, CheckStale,
            DeleteSyncLog, RetentionPass, PurgeSynthetic, vars, tables

LEMMA MonitorMoves ==
    ASSUME TypeInv, [Next]_vars, NEW s \in Sources, monitor'[s].last # Never
    PROVE  \/ monitor'[s].last = monitor[s].last /\ monitor'[s].exists = monitor[s].exists
           \/ \E end \in Time : \E failed, whole \in BOOLEAN :
                 /\ whole /\ Ingest(s, end, failed, whole) /\ monitor'[s].last = end /\ monitor'[s].exists
<1>1. monitor \in [Sources -> MonitorRow]
    BY DEF TypeInv, TypeOK, MonitorRow
<1>2. ASSUME NEW t \in Sources, NEW end \in Time, NEW failed \in BOOLEAN, NEW whole \in BOOLEAN,
             Ingest(t, end, failed, whole)
      PROVE  \/ monitor'[s].last = monitor[s].last /\ monitor'[s].exists = monitor[s].exists
             \/ s = t /\ whole /\ monitor'[s].last = end /\ monitor'[s].exists
    <2>1. \/ UNCHANGED monitor
          \/ whole /\ monitor[t].exists /\ monitor' = [monitor EXCEPT ![t].last = end]
        BY <1>2 DEF Ingest, LastSync
    <2> QED BY <1>1, <2>1 DEF MonitorRow
<1>3. ASSUME NEW t \in Sources, NEW on, NEW deadline, CreateMonitor(t, on, deadline)
      PROVE  monitor'[s] = monitor[s]
    BY <1>1, <1>3 DEF CreateMonitor
<1>4. ASSUME NEW t \in Sources, NEW on, NEW deadline, UpdateMonitor(t, on, deadline)
      PROVE  monitor'[s].last = monitor[s].last /\ monitor'[s].exists = monitor[s].exists
    BY <1>1, <1>4 DEF UpdateMonitor, MonitorRow
<1>5. ASSUME NEW t \in Sources, DeleteMonitor(t) PROVE monitor'[s] = monitor[s]
    BY <1>1, <1>5 DEF DeleteMonitor, NoMonitor
<1>6. CASE UNCHANGED monitor
    BY <1>6
<1> QED BY <1>2, <1>3, <1>4, <1>5, <1>6
        DEF Next, Notify, CheckStale, DeleteSyncLog, RetentionPass, PurgeSynthetic, Tick, vars, tables

(* A completed ingestion for a source with a monitor writes last_sync_at,   *)
(* so a value the monitor keeps is still that of its latest log.            *)
LEMMA LastStep == ASSUME TypeInv, LastIsLatest, [Next]_vars PROVE LastIsLatest'
<1> SUFFICES ASSUME NEW s \in Sources, monitor'[s].last # Never
             PROVE  /\ monitor'[s].exists
                    /\ \E l \in counted' : Latest(l)' /\ l.source = s /\ l.end = monitor'[s].last
    BY DEF LastIsLatest
<1>1. ASSUME NEW end \in Time, NEW failed \in BOOLEAN, NEW whole \in BOOLEAN, whole,
             Ingest(s, end, failed, whole), monitor'[s].last = end, monitor'[s].exists
      PROVE  \E l \in counted' : Latest(l)' /\ l.source = s /\ l.end = monitor'[s].last
    <2>1. PICK new : new = NewLog(s, end)
        OBVIOUS
    <2>2. /\ counted' = counted \cup {new} /\ new \in SyncLog
          /\ \A l \in syncs : l.id < new.id
        BY <1>1, <2>1, IngestFacts
    <2>3. new.source = s /\ new.end = end /\ new.id \in Nat
        BY <2>1, <2>2, DetectionAssumption DEF NewLog, SyncLog, LogIds
    <2>4. \A l \in counted : l.id \in Nat /\ l.id < new.id
        BY <2>2, SyncType DEF TypeInv, TypeOK
    <2>5. Latest(new)'
        BY <2>2, <2>3, <2>4 DEF Latest
    <2> QED BY <1>1, <2>2, <2>3, <2>5
<1>2. ASSUME monitor'[s].last = monitor[s].last, monitor'[s].exists = monitor[s].exists
      PROVE  /\ monitor'[s].exists
             /\ \E l \in counted' : Latest(l)' /\ l.source = s /\ l.end = monitor'[s].last
    <2>1. PICK l \in counted : Latest(l) /\ l.source = s /\ l.end = monitor[s].last /\ monitor[s].exists
        BY <1>2 DEF LastIsLatest
    <2>2. CASE \A k \in counted' : k.source = s => k \in counted
        <3>1. counted \subseteq counted'
            BY SyncMoves, IngestFacts
        <3> QED BY <1>2, <2>1, <2>2, <3>1 DEF Latest
    <2>3. ASSUME NEW k \in counted', k.source = s, k \notin counted
          PROVE  \E m \in counted' : Latest(m)' /\ m.source = s /\ m.end = monitor'[s].last
        <3>1. PICK t \in Sources, end \in Time, failed \in BOOLEAN, whole \in BOOLEAN :
                 Ingest(t, end, failed, whole)
            BY <2>3, SyncMoves
        <3>2. k = NewLog(t, end) /\ whole
            BY <2>3, <3>1, IngestFacts
        <3>3. t = s
            BY <2>3, <3>2 DEF NewLog
        <3>4. monitor' = [monitor EXCEPT ![s].last = end]
            BY <2>1, <3>1, <3>2, <3>3 DEF Ingest, LastSync
        <3>5. monitor'[s].last = end /\ monitor'[s].exists
            BY <2>1, <3>4 DEF TypeInv, TypeOK
        <3> QED BY <1>1, <3>1, <3>2, <3>3, <3>5
    <2> QED BY <1>2, <2>1, <2>2, <2>3
<1> QED BY <1>1, <1>2, MonitorMoves

LEMMA PastStep == ASSUME TypeInv, InThePast, [Next]_vars PROVE InThePast'
<1>1. now \in Nat /\ now' \in Nat /\ now <= now'
    BY SyncMoves, DetectionAssumption DEF TypeInv, TypeOK, Time
<1>2. \A e \in Stale' : e.at <= now'
    <2>1. \A e \in Stale : e.at <= now /\ e.at \in Nat
        BY StaleType DEF InThePast, TypeInv
    <2>2. \A e \in Raised : e.at = now
        BY DEF Raised, StaleEvent
    <2> QED BY <1>1, <2>1, <2>2, StaleMoves
<1>3. \A l \in syncs' : l.created <= now'
    <2>1. \A l \in syncs : l.created <= now /\ l.created \in Nat
        BY SyncType DEF InThePast, TypeInv
    <2>2. ASSUME NEW s \in Sources, NEW end \in Time, NEW failed \in BOOLEAN, NEW whole \in BOOLEAN,
           Ingest(s, end, failed, whole)
          PROVE  \A l \in syncs' : l \in syncs \/ l.created = now
        <3>1. syncs' = syncs \cup {NewLog(s, end)}
            BY <2>2, IngestFacts
        <3>2. NewLog(s, end).created = now
            BY DEF NewLog
        <3> QED BY <3>1, <3>2
    <2> QED BY <1>1, <2>1, <2>2, SyncMoves
<1> QED BY <1>2, <1>3 DEF InThePast

(* What the checker raises, and when it does not.                           *)
LEMMA RaisedFacts ==
    ASSUME TypeInv, LastIsLatest, InThePast, NEW e \in Raised
    PROVE  /\ e.source \in Sources /\ e.at = now /\ monitor[e.source].last # Never
           /\ e.deadline = monitor[e.source].deadline
           /\ now > monitor[e.source].last + e.deadline
           /\ \A d \in Stale : d.source = e.source =>
                 d.at < now - Window \/ d.at < monitor[e.source].last
<1>1. PICK s \in Sources : Overdue(s) /\ ~Flagged(s) /\ e = StaleEvent(s)
    BY DEF Raised
<1>2. e.source = s /\ e.at = now /\ e.deadline = monitor[s].deadline
    BY <1>1 DEF StaleEvent
<1>3. monitor[s].last # Never /\ now > monitor[s].last + monitor[s].deadline
    BY <1>1 DEF Overdue
<1>4. ASSUME NEW d \in Stale, d.source = s
      PROVE  d.at < now - Window \/ d.at < monitor[s].last
    <2>1. d \in events /\ d.kind = "stale" /\ d.at \in Nat
        BY StaleType DEF Stale, TypeInv
    <2>2. now \in Nat /\ Window \in Nat /\ monitor[s].last \in Nat
        BY <1>3, MonitorType, DetectionAssumption DEF TypeInv, TypeOK, Time
    <2>3. ~(d.at >= now - Window /\ d.at >= monitor[s].last)
        BY <1>1, <1>4, <2>1 DEF Flagged
    <2> QED BY <2>1, <2>2, <2>3
<1> QED BY <1>2, <1>3, <1>4

LEMMA OutageStep ==
    ASSUME TypeInv, LastIsLatest, InThePast, StaleOncePerWindow, [Next]_vars
    PROVE  StaleOncePerWindow'
<1> SUFFICES ASSUME NEW d \in Stale', NEW e \in Stale', d # e, d.source = e.source, d.at <= e.at,
                    ~\E l \in counted' : l.source = e.source /\ l.end > d.at /\ l.created <= e.at
             PROVE  e.at - d.at > Window
    BY DEF StaleOncePerWindow, SameOutage
<1>1. counted \subseteq counted'
    BY SyncMoves, IngestFacts
<1>2. CASE d \in Stale /\ e \in Stale
    BY <1>1, <1>2 DEF StaleOncePerWindow, SameOutage
<1>3. CASE d \in Stale /\ e \in Raised
    <2>1. e.at = now /\ (d.at < now - Window \/ d.at < monitor[e.source].last)
        BY <1>3, RaisedFacts
    <2>2. PICK l \in counted : l.source = e.source /\ l.end = monitor[e.source].last
        BY <1>3, RaisedFacts DEF LastIsLatest
    <2>3. l \in syncs
        BY DEF TypeInv, TypeOK
    <2>4. d.at \in Nat /\ now \in Nat /\ Window \in Nat /\ l.end \in Nat /\ l.created <= now
        BY <1>3, <2>3, StaleType, SyncType, DetectionAssumption DEF TypeInv, TypeOK, Time, InThePast
    <2> QED BY <1>1, <2>1, <2>2, <2>4
<1>4. CASE d \in Raised /\ e \in Stale
    <2>1. /\ d.at = now /\ now > monitor[d.source].last + d.deadline
          /\ e.at < now - Window \/ e.at < monitor[d.source].last
        BY <1>4, RaisedFacts
    <2>2. e.at <= now /\ e.at \in Nat /\ now \in Nat /\ Window \in Nat
        BY <1>4, StaleType, DetectionAssumption DEF InThePast, TypeInv, TypeOK, Time
    <2>3. d.source \in Sources /\ monitor[d.source].last \in Nat /\ d.deadline \in Nat
        BY <1>4, RaisedFacts, MonitorType
    <2> QED BY <2>1, <2>2, <2>3
<1>5. CASE d \in Raised /\ e \in Raised
    BY <1>5 DEF Raised, StaleEvent
<1> QED BY <1>2, <1>3, <1>4, <1>5, StaleMoves

(* Theorem: of one outage the checker raises no second stale event as far   *)
(* back as it looks.  About check_stale_sources and its look-up of earlier  *)
(* events, for logs in any order and ingestions that fail half-way.         *)
THEOREM OncePerWindow == Spec => []StaleOncePerWindow
<1> DEFINE Inv == LastIsLatest /\ InThePast /\ StaleOncePerWindow
<1>1. Init => Inv
    BY DEF Init, LastIsLatest, InThePast, StaleOncePerWindow, SameOutage, Stale, NoMonitor
<1>2. TypeInv /\ Inv /\ [Next]_vars => Inv'
    BY LastStep, PastStep, OutageStep
<1>3. TypeOK /\ Numbered /\ Configured => TypeInv
    BY DEF TypeInv
<1>4. Inv => StaleOncePerWindow
    OBVIOUS
<1> HIDE DEF Inv
<1> QED BY <1>1, <1>2, <1>3, <1>4, TypeCorrect, PTL DEF Spec

(* The log a stale event is true of stays the latest of those that arrived  *)
(* before the event: what arrives later is created at its time or after.    *)
Witness(l, e) ==
    /\ l.source = e.source /\ l.created <= e.at
    /\ l.end + e.deadline < e.at
    /\ \A k \in counted : k.source = e.source /\ k.created < e.at => k.id <= l.id

LEMMA TruthStep ==
    ASSUME TypeInv, LastIsLatest, InThePast, StaleIsTrue, [Next]_vars
    PROVE  StaleIsTrue'
<1> SUFFICES ASSUME NEW e \in Stale' PROVE \E l \in counted' : Witness(l, e)'
    BY DEF StaleIsTrue, Witness
<1>1. CASE e \in Stale
    <2>1. PICK l \in counted : Witness(l, e)
        BY <1>1 DEF StaleIsTrue, Witness
    <2>2. e.at <= now /\ e.at \in Nat /\ now \in Nat
        BY <1>1, StaleType, DetectionAssumption DEF InThePast, TypeInv, TypeOK, Time
    <2>3. ASSUME NEW k \in counted', k \notin counted PROVE k.created = now
        <3>1. PICK t \in Sources, end \in Time, failed \in BOOLEAN, whole \in BOOLEAN :
                 Ingest(t, end, failed, whole)
            BY <2>3, SyncMoves
        <3>2. k = NewLog(t, end)
            BY <2>3, <3>1, IngestFacts
        <3> QED BY <3>2 DEF NewLog
    <2>4. l \in counted'
        BY SyncMoves, IngestFacts
    <2> QED BY <2>1, <2>2, <2>3, <2>4 DEF Witness
<1>2. CASE e \in Raised
    <2>1. /\ e.source \in Sources /\ e.at = now /\ monitor[e.source].last # Never
          /\ now > monitor[e.source].last + e.deadline
        BY <1>2, RaisedFacts
    <2>2. PICK l \in counted : Latest(l) /\ l.source = e.source /\ l.end = monitor[e.source].last
        BY <2>1 DEF LastIsLatest
    <2>3. l.created <= now
        BY DEF InThePast, TypeInv, TypeOK
    <2>4. Witness(l, e)
        BY <2>1, <2>2, <2>3 DEF Witness, Latest
    <2>5. CASE UNCHANGED counted
        BY <2>4, <2>5 DEF Witness
    <2>6. CASE e \in Stale
        BY <1>1, <2>6
    <2> QED BY <2>5, <2>6, StaleMoves
<1> QED BY <1>1, <1>2, StaleMoves

(* Theorem: a stale event is true of the sync that arrived last.  About the *)
(* deadline check of check_stale_sources, for logs in any order, any        *)
(* changes of the monitors and ingestions that fail half-way.               *)
THEOREM StaleTellsTruth == Spec => []StaleIsTrue
<1> DEFINE Inv == LastIsLatest /\ InThePast /\ StaleIsTrue
<1>1. Init => Inv
    BY DEF Init, LastIsLatest, InThePast, StaleIsTrue, Stale, NoMonitor
<1>2. TypeInv /\ Inv /\ [Next]_vars => Inv'
    BY LastStep, PastStep, TruthStep
<1>3. TypeOK /\ Numbered /\ Configured => TypeInv
    BY DEF TypeInv
<1>4. Inv => StaleIsTrue
    OBVIOUS
<1> HIDE DEF Inv
<1> QED BY <1>1, <1>2, <1>3, <1>4, TypeCorrect, PTL DEF Spec

(***************************************************************************)
(* Deletion.  The foreign keys hold in every state, so the order of a      *)
(* pass's deletions makes it succeed.                                      *)
(***************************************************************************)

KeysHold == References(logs, events, noted)

LEMMA PassSucceeds ==
    ASSUME KeysHold, NEW doomed
    PROVE  References(logs \ doomed, events \ EventsOf(doomed), NotesLeft(doomed))
    BY DEF KeysHold, References, EventsOf, NotesLeft

LEMMA KeysStep == ASSUME TypeInv, KeysHold, [Next]_vars PROVE KeysHold'
<1>1. noted' \subseteq events'
    BY EventStep
<1> SUFFICES ASSUME NEW e \in events', e.log # NoLog PROVE \E l \in logs' : l.id = e.log
    BY <1>1 DEF KeysHold, References
<1>2. ASSUME NEW s \in Sources, NEW end \in Time, NEW failed \in BOOLEAN, NEW whole \in BOOLEAN,
             Ingest(s, end, failed, whole)
      PROVE  \E l \in logs' : l.id = e.log
    <2>1. logs' = logs \cup {NewLog(s, end)} /\ NewLog(s, end).id = Cardinality(syncs) + 1
        BY <1>2, IngestFacts DEF NewLog
    <2>2. e \in events \/ e.log = Cardinality(syncs) + 1
        BY <1>2 DEF Ingest
    <2> QED BY <2>1, <2>2 DEF KeysHold, References
<1>3. CASE CheckStale
    BY <1>3 DEF CheckStale, StaleEvent, KeysHold, References
<1>4. CASE UNCHANGED <<logs, events>>
    BY <1>4 DEF KeysHold, References
<1>5. CASE RetentionPass
    BY <1>5, PassSucceeds DEF RetentionPass, References
<1>6. CASE PurgeSynthetic
    BY <1>6 DEF PurgeSynthetic, References
<1>7. ASSUME NEW l \in logs, DeleteSyncLog(l) PROVE \E k \in logs' : k.id = e.log
    BY <1>7 DEF DeleteSyncLog, References
<1> QED BY <1>2, <1>3, <1>4, <1>5, <1>6, <1>7
        DEF Next, Notify, CreateMonitor, UpdateMonitor, DeleteMonitor, Tick, vars, tables

(* Theorem: a retention pass leaves no log beyond the period, except what   *)
(* is synthetic.  About the order of deletions in cleanup_old_sync_logs.    *)
THEOREM RetentionCleans == Spec => []RetentionDeletesExpired
<1> DEFINE Inv == KeysHold /\ RetentionDeletesExpired
<1>1. Init => Inv
    BY DEF Init, KeysHold, References, RetentionDeletesExpired
<1>2. TypeInv /\ Inv /\ [Next]_vars => Inv'
    <2> SUFFICES ASSUME TypeInv, Inv, [Next]_vars PROVE RetentionDeletesExpired'
        BY KeysStep
    <2>1. CASE RetentionPass
        <3> DEFINE doomed == {l \in logs : Expired(l)}
        <3>1. References(logs \ doomed, events \ EventsOf(doomed), NotesLeft(doomed))
            BY PassSucceeds
        <3>2. logs' = logs \ doomed /\ survivors' = {l \in logs' : Expired(l) \/ SyntheticOld(l)}
            BY <2>1, <3>1 DEF RetentionPass
        <3>3. \A l \in logs' : ~Expired(l)
            BY <3>2
        <3>4. UNCHANGED now
            BY <2>1 DEF RetentionPass
        <3> QED BY <3>2, <3>3, <3>4 DEF RetentionDeletesExpired, Expired, SyntheticOld
    <2>2. CASE survivors' = {}
        BY <2>2 DEF RetentionDeletesExpired
    <2>3. CASE UNCHANGED <<survivors, now>>
        BY <2>3 DEF RetentionDeletesExpired, Expired
    <2> QED BY <2>1, <2>2, <2>3
            DEF Next, Ingest, Notify, CreateMonitor, UpdateMonitor, DeleteMonitor, CheckStale,
                DeleteSyncLog, PurgeSynthetic, Tick, vars, tables
<1>3. TypeOK /\ Numbered /\ Configured => TypeInv
    BY DEF TypeInv
<1>4. Inv => RetentionDeletesExpired
    OBVIOUS
<1> HIDE DEF Inv
<1> QED BY <1>1, <1>2, <1>3, <1>4, TypeCorrect, PTL DEF Spec

(* Theorem: a failure goes only together with its log.  About the deletions *)
(* of retention, purge and administrator; it needs that ids are not reused. *)
THEOREM FailureGoesWithLog == Spec => FailureLivesWithLog
<1> DEFINE Kept == \A e \in events : e \notin events' => \A l \in logs' : l.id # e.log
<1>1. TypeInv /\ [Next]_vars => [Kept]_vars
    <2> SUFFICES ASSUME TypeInv, [Next]_vars, NEW e \in events, e \notin events', NEW l \in logs'
                 PROVE  l.id # e.log
        OBVIOUS
    <2>1. ASSUME NEW doomed \in SUBSET logs, logs' = logs \ doomed, e \in EventsOf(doomed)
          PROVE  l.id # e.log
        <3>1. PICK k \in doomed : k.id = e.log
            BY <2>1 DEF EventsOf
        <3>2. k \in syncs /\ l \in syncs /\ k # l
            BY <2>1, <3>1 DEF TypeInv, TypeOK
        <3> QED BY <3>1, <3>2 DEF TypeInv, Numbered
    <2>2. CASE RetentionPass
        <3> DEFINE doomed == {k \in logs : Expired(k)}
        <3>1. logs' = logs \ doomed /\ events' = events \ EventsOf(doomed)
            BY <2>2 DEF RetentionPass
        <3> QED BY <2>1, <3>1
    <2>3. CASE PurgeSynthetic
        <3> DEFINE doomed == {k \in logs : SyntheticOld(k)}
        <3>1. logs' = logs \ doomed /\ events' = events \ EventsOf(doomed)
            BY <2>3 DEF PurgeSynthetic
        <3> QED BY <2>1, <3>1
    <2>4. events \subseteq events' \/ RetentionPass \/ PurgeSynthetic
        BY DEF Next, Ingest, Notify, CreateMonitor, UpdateMonitor, DeleteMonitor, CheckStale,
               DeleteSyncLog, Tick, vars, tables
    <2> QED BY <2>2, <2>3, <2>4
<1>2. TypeOK /\ Numbered /\ Configured => TypeInv
    BY DEF TypeInv
<1> QED BY <1>1, <1>2, TypeCorrect, PTL DEF Spec, FailureLivesWithLog
=============================================================================
