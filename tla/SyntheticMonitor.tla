------------------------- MODULE SyntheticMonitor -------------------------
(***************************************************************************)
(* The synthetic monitor (app/services/synthetic_check.py): a background   *)
(* task that posts a canned sync log to the server's own API, removes the  *)
(* row again, and alerts when that fails; and the settings request that    *)
(* replaces the task while it runs (write_synthetic).                      *)
(*                                                                         *)
(* Everything runs on one asyncio loop.  A task that is cancelled ends at  *)
(* the await it stands at, and the request that cancelled it waits for     *)
(* that; whatever lies between two awaits is one step.                     *)
(***************************************************************************)
EXTENDS Integers, FiniteSets, Sequences

CONSTANTS Tasks,       \* asyncio tasks that may ever be created
          Requests,    \* PUT /settings/synthetic requests
          Concurrent,  \* how many of them may be in progress at once
          Rows,        \* identities of sync_logs rows of the synthetic source
          MaxResults,  \* MAX_RESULT_ROWS
          None         \* Python's None

ASSUME MonitorAssumption ==
    /\ Concurrent \in Nat \ {0}
    /\ MaxResults \in Nat \ {0}
    /\ IsFiniteSet(Requests)
    /\ None \notin Tasks \cup Rows \cup {"sent", "refused"}
    /\ Rows \cap {"sent", "refused"} = {}

VARIABLES
    (* the database *)
    config,     \* synthetic_check_config.enabled
    rows,       \* sync_logs rows of the synthetic source
    old,        \* those of them older than the purge age of one hour
    results,    \* statuses in synthetic_check_results, newest first
    (* the process *)
    up,         \* the server is running
    current,    \* _background_task, with the _shutdown_event made for it
    on,         \* _state.enabled
    shown,      \* _state.last_status
    task,       \* where a task stands
    cancelled,  \* cancel() was called on it and is not delivered yet
    post,       \* its POST: None, "sent", "refused" or the row it created
    request,    \* where a settings request stands
    awaited,    \* the task a request waits for
    (* history *)
    leaked,     \* rows whose POST was given up by the check that sent it
    raised      \* tasks whose last check ended in an exception

database == <<config, rows, old, results>>
memory   == <<up, current, on, shown>>
process  == <<task, cancelled, post>>
settings == <<request, awaited>>
history  == <<leaked, raised>>
vars     == <<database, memory, process, settings, history>>

Live == {t \in Tasks : task[t] \notin {"none", "ended"}}

Status == {"passing", "failing"}

TypeOK ==
    /\ config \in BOOLEAN
    /\ rows \in SUBSET Rows /\ old \in SUBSET rows /\ leaked \in SUBSET rows
    /\ results \in Seq(Status) /\ Len(results) <= MaxResults
    /\ up \in BOOLEAN /\ on \in BOOLEAN
    /\ current \in Tasks \cup {None}
    /\ shown \in Status \cup {"unknown"}
    /\ task \in [Tasks -> {"none", "created", "warming", "posting", "alerting",
                           "closing", "waiting", "ended"}]
    /\ cancelled \in [Tasks -> BOOLEAN]
    /\ post \in [Tasks -> Rows \cup {None, "sent", "refused"}]
    /\ request \in [Requests -> {"idle", "starting", "stopping", "done"}]
    /\ awaited \in [Requests -> Tasks \cup {None}]
    /\ raised \in SUBSET Tasks

Init ==
    /\ config \in BOOLEAN
    /\ rows = {} /\ old = {} /\ leaked = {} /\ raised = {}
    /\ results = <<>>
    /\ up = FALSE /\ current = None /\ on = FALSE /\ shown = "unknown"
    /\ task = [t \in Tasks |-> "none"]
    /\ cancelled = [t \in Tasks |-> FALSE]
    /\ post = [t \in Tasks |-> None]
    /\ request = [r \in Requests |-> "idle"]
    /\ awaited = [r \in Requests |-> None]

-----------------------------------------------------------------------------
(* Starting and stopping.                                                   *)

(* The part of start_synthetic_monitoring after its await: the globals are  *)
(* cleared, the configuration is read again, and a task made if it says so. *)
InstallUnread(enable, wanted, tasks) ==
    IF enable
    THEN \E t \in Tasks :
            /\ task[t] = "none"
            /\ current' = t
            /\ task' = [tasks EXCEPT ![t] = "created"]
            /\ on' = FALSE
    ELSE current' = None /\ task' = tasks /\ on' = FALSE

InstallStaysOn(enable, wanted, tasks) ==
    IF enable /\ wanted
    THEN \E t \in Tasks :
            /\ task[t] = "none"
            /\ current' = t
            /\ task' = [tasks EXCEPT ![t] = "created"]
            /\ UNCHANGED on
    ELSE current' = None /\ task' = tasks /\ UNCHANGED on

Install(enable, wanted, tasks) ==
    IF enable /\ wanted
    THEN \E t \in Tasks :
            /\ task[t] = "none"
            /\ current' = t
            /\ task' = [tasks EXCEPT ![t] = "created"]
            /\ on' = FALSE
    ELSE current' = None /\ task' = tasks /\ on' = FALSE

(* The server starts: lifespan calls start_synthetic_monitoring.  (Bound: a *)
(* start leaves a task identity for every settings request still to come.)  *)
Unused == {t \in Tasks : task[t] = "none"}
Unmade == {r \in Requests : request[r] # "done"}

Boot ==
    /\ ~up
    /\ Cardinality(Unused) > Cardinality(Unmade)
    /\ up' = TRUE
    /\ shown' = "unknown"
    /\ Install(TRUE, config, task)
    /\ UNCHANGED <<database, cancelled, post, settings, history>>

(* A settings request saves the configuration and stops the current task:   *)
(* cancel it and wait for its end.  With no task, or one that has ended,    *)
(* nothing is awaited and the request runs through.                         *)
InProgress == {r \in Requests : request[r] \in {"starting", "stopping"}}

NothingToStop == FALSE
MustStop == current \in Live

WriteSynthetic(r, enable) ==
    /\ up
    /\ request[r] = "idle"
    /\ Cardinality(InProgress) < Concurrent
    /\ config' = enable
    /\ IF MustStop
       THEN /\ cancelled' = [cancelled EXCEPT ![current] = TRUE]
            /\ awaited' = [awaited EXCEPT ![r] = current]
            /\ request' = [request EXCEPT ![r] = IF enable THEN "starting" ELSE "stopping"]
            /\ UNCHANGED <<current, on, task>>
       ELSE /\ Install(enable, enable, task)
            /\ request' = [request EXCEPT ![r] = "done"]
            /\ UNCHANGED <<cancelled, awaited>>
    /\ UNCHANGED <<rows, old, results, up, shown, post, history>>

(* The awaited task has ended: the request clears the globals, whatever     *)
(* they hold by now, and goes on to start a task if it was to enable.       *)
Resume(r) ==
    /\ r \in InProgress
    /\ task[awaited[r]] = "ended"
    /\ Install(request[r] = "starting", config, task)
    /\ request' = [request EXCEPT ![r] = "done"]
    /\ awaited' = [awaited EXCEPT ![r] = None]
    /\ UNCHANGED <<database, up, shown, cancelled, post, history>>

(* What a check leaves behind when it is given up with its POST under way:  *)
(* the row, if the server has made it or makes it later all the same.       *)
Abandoned(t) == {post[t]} \cap Rows

CancelArrivesBetweenChecks(t) == task[t] = "waiting" /\ cancelled[t]

CancelArrives(t) == t \in Live /\ cancelled[t]

(* CancelledError arrives at the await a task stands at.                    *)
TaskEnds(t) ==
    /\ CancelArrives(t)
    /\ task' = [task EXCEPT ![t] = "ended"]
    /\ cancelled' = [cancelled EXCEPT ![t] = FALSE]
    /\ post' = [post EXCEPT ![t] = None]
    /\ leaked' = leaked \cup Abandoned(t)
    /\ UNCHANGED <<database, memory, settings, raised>>

(* The process dies; tasks, requests and module state are gone.             *)
Crash ==
    /\ up
    /\ up' = FALSE /\ current' = None /\ on' = FALSE /\ shown' = "unknown"
    /\ task' = [t \in Tasks |-> IF t \in Live THEN "ended" ELSE task[t]]
    /\ cancelled' = [t \in Tasks |-> FALSE]
    /\ post' = [t \in Tasks |-> None]
    /\ request' = [r \in Requests |-> IF r \in InProgress THEN "done" ELSE request[r]]
    /\ awaited' = [r \in Requests |-> None]
    /\ leaked' = leaked \cup UNION {Abandoned(t) : t \in Tasks}
    /\ UNCHANGED <<database, raised>>

-----------------------------------------------------------------------------
(* The task.                                                                *)

Step(t, from, to) ==
    /\ task[t] = from
    /\ ~cancelled[t]
    /\ task' = [task EXCEPT ![t] = to]

Begin(t) ==
    /\ Step(t, "created", "warming")
    /\ on' = TRUE
    /\ UNCHANGED <<database, up, current, shown, cancelled, post, settings, history>>

(* /health answered, or the warm-up timed out: purge old rows, and send the *)
(* first POST.                                                              *)
Send(t) == post' = [post EXCEPT ![t] = "sent"]

WarmedUp(t) ==
    /\ Step(t, "warming", "posting")
    /\ rows' = rows \ old
    /\ old' = {}
    /\ leaked' = leaked \ old
    /\ Send(t)
    /\ UNCHANGED <<config, results, memory, cancelled, settings, raised>>

NextCheck(t) ==
    /\ Step(t, "waiting", "posting")
    /\ Send(t)
    /\ UNCHANGED <<database, memory, cancelled, settings, history>>

(* The server handles the POST (create_sync_log): a row, or an error.       *)
HandlePost(t) ==
    /\ post[t] = "sent"
    /\ \/ \E row \in Rows \ rows :
             /\ rows' = rows \cup {row}
             /\ post' = [post EXCEPT ![t] = row]
       \/ /\ post' = [post EXCEPT ![t] = "refused"]
          /\ UNCHANGED rows
    /\ UNCHANGED <<config, old, results, memory, task, cancelled, settings, history>>

(* 201 came back: the check deletes the row it was told of.                 *)
RemoveNothing(t) == rows
RemoveOwnRow(t) == rows \ {post[t]}

Passed(t) ==
    /\ post[t] \in Rows
    /\ Step(t, "posting", "closing")
    /\ rows' = RemoveOwnRow(t)
    /\ shown' = "passing"
    /\ post' = [post EXCEPT ![t] = None]
    /\ UNCHANGED <<config, old, results, up, current, on, cancelled, settings, history>>

(* Another answer, or none within REQUEST_TIMEOUT_SECONDS: alert.           *)
Refused(t) ==
    /\ post[t] = "refused"
    /\ Step(t, "posting", "alerting")
    /\ UNCHANGED <<database, memory, cancelled, post, settings, history>>

TimedOut(t) ==
    /\ post[t] # "refused"
    /\ Step(t, "posting", "alerting")
    /\ post' = [post EXCEPT ![t] = None]
    /\ leaked' = leaked \cup Abandoned(t)
    /\ UNCHANGED <<database, memory, cancelled, settings, raised>>

(* store_check_result: the newest MAX_RESULT_ROWS stay.                     *)
PruneLate(list)   == SubSeq(list, 1, IF Len(list) > MaxResults + 1 THEN MaxResults + 1 ELSE Len(list))
PruneNewest(list) == IF Len(list) > MaxResults THEN Tail(list) ELSE list

Prune(list) == SubSeq(list, 1, IF Len(list) > MaxResults THEN MaxResults ELSE Len(list))

Stored(status) == results' = Prune(<<status>> \o results)

(* The dispatch is over.  After a refusal the HTTP client has still to be   *)
(* closed, an await; after a timeout it already is, and the result is       *)
(* stored in the same step.                                                 *)
Alerted(t) ==
    /\ shown' = "failing"
    /\ IF post[t] = "refused"
       THEN Step(t, "alerting", "closing") /\ UNCHANGED results
            /\ UNCHANGED raised
       ELSE Step(t, "alerting", "waiting") /\ Stored("failing") /\ raised' = raised \ {t}
    /\ UNCHANGED <<config, rows, old, up, current, on, cancelled, post, settings, leaked>>

Recorded(t) ==
    /\ Step(t, "closing", "waiting")
    /\ Stored(IF post[t] = "refused" THEN "failing" ELSE "passing")
    /\ post' = [post EXCEPT ![t] = None]
    /\ raised' = raised \ {t}
    /\ UNCHANGED <<config, rows, old, memory, cancelled, settings, leaked>>

(* An answer of 201 that is no JSON, or a dispatch that raises: the check   *)
(* has no result, the loop logs the exception and waits for the next one.   *)
CheckRaises(t) ==
    /\ \/ post[t] \in Rows /\ Step(t, "posting", "waiting")
       \/ Step(t, "alerting", "waiting")
    /\ post' = [post EXCEPT ![t] = None]
    /\ leaked' = leaked \cup Abandoned(t)
    /\ raised' = raised \cup {t}
    /\ UNCHANGED <<database, memory, cancelled, settings>>

(* An hour passes for a row no check is about to remove.                    *)
GrowOld(row) ==
    /\ row \in leaked \ old
    /\ old' = old \cup {row}
    /\ UNCHANGED <<config, rows, results, memory, process, settings, history>>

TaskStep(t) ==
    \/ Begin(t) \/ WarmedUp(t) \/ NextCheck(t) \/ HandlePost(t) \/ Passed(t)
    \/ Refused(t) \/ TimedOut(t) \/ Alerted(t) \/ Recorded(t) \/ CheckRaises(t)

Next ==
    \/ Boot \/ Crash
    \/ \E r \in Requests : Resume(r) \/ \E enable \in BOOLEAN : WriteSynthetic(r, enable)
    \/ \E t \in Tasks : TaskStep(t) \/ TaskEnds(t)
    \/ \E row \in Rows : GrowOld(row)

Spec == Init /\ [][Next]_vars

(* The loop delivers a cancellation and resumes whoever waited for it.      *)
FairSpec == Spec /\ (\A t \in Tasks : WF_vars(TaskEnds(t)))
                 /\ (\A r \in Requests : WF_vars(Resume(r)))

-----------------------------------------------------------------------------
(* Properties.                                                              *)

Running == {t \in Live : ~cancelled[t]}

(* "Stop any existing task ... start new task": there is never a second     *)
(* monitor beside the one the globals refer to.                             *)
OneMonitor == \A t \in Running : t = current

NoSecondMonitor == Cardinality(Running) <= 1

(* When no settings request is in progress, the monitor runs exactly if the *)
(* stored configuration says so (write_synthetic: "apply immediately").     *)
SettingsApplied == up /\ InProgress = {} => (config <=> Running # {})

(* A check leaves no net row (synthetic-hygiene AC-001): a row in the       *)
(* database is one a running check will still remove, or one whose POST was *)
(* given up by timeout, exception, cancellation or crash.                   *)
NoRowForgotten == rows \subseteq leaked \cup {post[t] : t \in Tasks}

(* After a check that ended normally the status shown (_state) and          *)
(* the newest stored one (the history, the uptime) agree.                   *)
ShownIsStored ==
    \A t \in Running \ raised : task[t] = "waiting" => results # <<>> /\ shown = Head(results)

(* Outside a settings request the state says the monitor is on exactly      *)
(* while a task that has begun is running.                                  *)
OnMeansRunning ==
    InProgress = {} => (on <=> \E t \in Running : task[t] # "created")

(* Every settings request is answered.                                      *)
RequestsReturn == \A r \in Requests : r \in InProgress ~> r \notin InProgress
=============================================================================
