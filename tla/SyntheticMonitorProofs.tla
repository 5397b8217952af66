----------------------- MODULE SyntheticMonitorProofs -----------------------
(***************************************************************************)
(* Proofs about SyntheticMonitor: for any number of tasks, requests and    *)
(* rows no row is forgotten, and with settings requests one at a time the  *)
(* monitor is one task, running as stored and shown as it ran.             *)
(***************************************************************************)
EXTENDS SyntheticMonitor, TLAPS, FiniteSetTheorems, SequenceTheorems

(***************************************************************************)
(* Types, and which rows the checks under way know.                        *)
(***************************************************************************)

Answer == Rows \cup {None, "sent", "refused"}

Stands == {"none", "created", "warming", "posting", "alerting", "closing", "waiting", "ended"}

(* A task has a POST only while a check needs it; of a refused one it still *)
(* knows while it alerts and closes its client.                             *)
PostFits ==
    \A t \in Tasks :
        /\ task[t] \in {"none", "created", "warming", "waiting", "ended"} => post[t] = None
        /\ task[t] \in {"alerting", "closing"} => post[t] \in {None, "refused"}

(* The row a check will remove is there, nobody else's, and not given up.   *)
RowOfOne ==
    /\ \A t \in Tasks : post[t] \in Rows => post[t] \in rows \ leaked
    /\ \A t, u \in Tasks : post[t] \in Rows /\ post[t] = post[u] => t = u

OldIsLeaked == old \subseteq leaked

TypeInv == TypeOK /\ PostFits /\ RowOfOne /\ OldIsLeaked /\ NoRowForgotten

LEMMA PruneFacts ==
    ASSUME TypeOK, NEW status \in Status
    PROVE  /\ Prune(<<status>> \o results) \in Seq(Status)
           /\ Len(Prune(<<status>> \o results)) <= MaxResults
           /\ Prune(<<status>> \o results) # <<>>
           /\ Head(Prune(<<status>> \o results)) = status
<1> DEFINE list == <<status>> \o results
           size == IF Len(list) > MaxResults THEN MaxResults ELSE Len(list)
<1>1. results \in Seq(Status) /\ <<status>> \in Seq(Status) /\ Len(<<status>>) = 1 /\ <<status>>[1] = status
    BY DEF TypeOK
<1>2. list \in Seq(Status) /\ Len(list) = 1 + Len(results) /\ list[1] = status
    BY <1>1, ConcatProperties, LenProperties
<1>3. Len(results) \in Nat /\ MaxResults \in Nat \ {0}
    BY <1>1, LenProperties, MonitorAssumption
<1> HIDE DEF list
<1>4. size \in Nat /\ 1 <= size /\ size <= MaxResults /\ size <= Len(list)
    BY <1>2, <1>3
<1>5. \A i \in 1 .. size : list[i] \in Status
    BY <1>2, <1>3, <1>4, ElementOfSeq
<1> HIDE DEF size
<1>6. /\ SubSeq(list, 1, size) \in Seq(Status) /\ Len(SubSeq(list, 1, size)) = size
      /\ SubSeq(list, 1, size)[1] = list[1]
    BY <1>4, <1>5, SubSeqProperties
<1>7. Prune(list) = SubSeq(list, 1, size)
    BY DEF Prune, size
<1>8. Head(Prune(list)) = Prune(list)[1] /\ Prune(list) # <<>>
    BY <1>4, <1>6, <1>7
<1>9. Prune(list) \in Seq(Status) /\ Len(Prune(list)) <= MaxResults /\ Head(Prune(list)) = status
    BY <1>2, <1>4, <1>6, <1>7, <1>8
<1> QED BY <1>8, <1>9 DEF list

LEMMA TypeInit == Init => TypeInv
<1>1. <<>> \in Seq(Status) /\ Len(<<>>) = 0 /\ 0 <= MaxResults
    BY EmptySeq, MonitorAssumption
<1> QED BY <1>1, MonitorAssumption
        DEF Init, TypeInv, TypeOK, PostFits, RowOfOne, OldIsLeaked, NoRowForgotten, Status

(* What is no more than a column: the globals, the tasks, the requests.     *)
Columns ==
    /\ config \in BOOLEAN /\ up \in BOOLEAN /\ on \in BOOLEAN
    /\ current \in Tasks \cup {None}
    /\ shown \in Status \cup {"unknown"}
    /\ task \in [Tasks -> Stands]
    /\ cancelled \in [Tasks -> BOOLEAN]
    /\ request \in [Requests -> {"idle", "starting", "stopping", "done"}]
    /\ awaited \in [Requests -> Tasks \cup {None}]
    /\ raised \in SUBSET Tasks
    /\ post \in [Tasks -> Answer]

LEMMA InstallTypes ==
    ASSUME Columns, NEW enable \in BOOLEAN, NEW wanted \in BOOLEAN, Install(enable, wanted, task)
    PROVE  current' \in Tasks \cup {None} /\ task' \in [Tasks -> Stands] /\ on' \in BOOLEAN
    BY DEF Columns, Install, Stands

LEMMA StepTypes ==
    ASSUME Columns, NEW t \in Tasks, NEW from, NEW to \in Stands, Step(t, from, to)
    PROVE  task' \in [Tasks -> Stands]
    BY DEF Columns, Step

LEMMA ColumnStep == ASSUME TypeInv, [Next]_vars PROVE Columns'
<1>0. Columns
    BY DEF TypeInv, TypeOK, Columns, Answer, Stands
<1>1. CASE Boot
    BY <1>0, <1>1, InstallTypes DEF Boot, Columns, database, settings, history
<1>2. CASE Crash
    BY <1>0, <1>2 DEF Crash, Columns, database, Stands, Answer
<1>3. ASSUME NEW r \in Requests, Resume(r) PROVE Columns'
    BY <1>0, <1>3, InstallTypes DEF Resume, Columns, database, history
<1>4. ASSUME NEW r \in Requests, NEW enable \in BOOLEAN, WriteSynthetic(r, enable) PROVE Columns'
    BY <1>0, <1>4, InstallTypes DEF WriteSynthetic, Columns, MustStop, Live, history
<1>5. ASSUME NEW t \in Tasks, TaskEnds(t) PROVE Columns'
    BY <1>0, <1>5 DEF TaskEnds, Columns, database, memory, settings, Stands, Answer
<1>6. ASSUME NEW t \in Tasks, TaskStep(t) PROVE Columns'
    <2>1. CASE Begin(t)
        BY <1>0, <2>1, StepTypes DEF Begin, Columns, database, settings, history, Stands
    <2>2. CASE WarmedUp(t)
        BY <1>0, <2>2, StepTypes DEF WarmedUp, Columns, Send, memory, settings, Stands, Answer
    <2>3. CASE NextCheck(t)
        BY <1>0, <2>3, StepTypes DEF NextCheck, Columns, Send, database, memory, settings, history, Stands, Answer
    <2>4. CASE HandlePost(t)
        BY <1>0, <2>4 DEF HandlePost, Columns, memory, settings, history, Answer
    <2>5. CASE Passed(t)
        BY <1>0, <2>5, StepTypes DEF Passed, Columns, settings, history, Stands, Answer, Status
    <2>6. CASE Refused(t)
        BY <1>0, <2>6, StepTypes DEF Refused, Columns, database, memory, settings, history, Stands
    <2>7. CASE TimedOut(t)
        BY <1>0, <2>7, StepTypes DEF TimedOut, Columns, database, memory, settings, Stands, Answer
    <2>8. CASE Alerted(t)
        BY <1>0, <2>8, StepTypes DEF Alerted, Columns, settings, Stands, Status
    <2>9. CASE Recorded(t)
        BY <1>0, <2>9, StepTypes DEF Recorded, Columns, memory, settings, Stands, Answer
    <2>10. CASE CheckRaises(t)
        BY <1>0, <2>10, StepTypes DEF CheckRaises, Columns, database, memory, settings, Stands, Answer
    <2> QED BY <1>6, <2>1, <2>2, <2>3, <2>4, <2>5, <2>6, <2>7, <2>8, <2>9, <2>10 DEF TaskStep
<1>7. ASSUME NEW row \in Rows, GrowOld(row) PROVE Columns'
    BY <1>0, <1>7 DEF GrowOld, Columns, memory, process, settings, history
<1>8. CASE UNCHANGED vars
    BY <1>0, <1>8 DEF vars, Columns, database, memory, process, settings, history
<1> QED BY <1>1, <1>2, <1>3, <1>4, <1>5, <1>6, <1>7, <1>8 DEF Next

LEMMA ResultStep ==
    ASSUME TypeInv, [Next]_vars
    PROVE  results' \in Seq(Status) /\ Len(results') <= MaxResults
<1>0. results \in Seq(Status) /\ Len(results) <= MaxResults
    BY DEF TypeInv, TypeOK
<1>1. CASE UNCHANGED results
    BY <1>0, <1>1
<1>2. ASSUME NEW status \in Status, Stored(status)
      PROVE  results' \in Seq(Status) /\ Len(results') <= MaxResults
    BY <1>2, PruneFacts DEF Stored, TypeInv
<1>3. ASSUME NEW t \in Tasks, Alerted(t) \/ Recorded(t)
      PROVE  results' \in Seq(Status) /\ Len(results') <= MaxResults
    <2>1. UNCHANGED results \/ Stored("failing") \/ Stored("passing")
        BY <1>3 DEF Alerted, Recorded
    <2> QED BY <1>1, <1>2, <2>1 DEF Status
<1> QED BY <1>1, <1>3
        DEF Next, Boot, Crash, Resume, WriteSynthetic, TaskEnds, TaskStep, Begin, WarmedUp, NextCheck,
            HandlePost, Passed, Refused, TimedOut, CheckRaises, GrowOld, vars, database

(* Which rows there are, and who knows them.                                *)
RowInv == rows \in SUBSET Rows /\ old \in SUBSET rows /\ leaked \in SUBSET rows

LEMMA RowStep ==
    ASSUME TypeInv, [Next]_vars
    PROVE  RowInv' /\ PostFits' /\ RowOfOne' /\ OldIsLeaked' /\ NoRowForgotten'
<1> DEFINE Goal == RowInv' /\ PostFits' /\ RowOfOne' /\ OldIsLeaked' /\ NoRowForgotten'
<1> USE DEF RowInv, PostFits, RowOfOne, OldIsLeaked, NoRowForgotten
<1>0. /\ RowInv /\ PostFits /\ RowOfOne /\ OldIsLeaked /\ NoRowForgotten
      /\ task \in [Tasks -> Stands] /\ post \in [Tasks -> Answer]
    BY DEF TypeInv, TypeOK, Stands, Answer
<1>1. ASSUME NEW enable, NEW wanted, Install(enable, wanted, task),
             UNCHANGED <<rows, old, leaked, post>>
      PROVE  Goal
    BY <1>0, <1>1 DEF Install, Stands
<1>2. CASE Boot
    BY <1>1, <1>2 DEF Boot, database, history
<1>3. CASE Crash
    BY <1>0, <1>3, MonitorAssumption DEF Crash, database, Abandoned, Live, Stands, Answer
<1>4. ASSUME NEW r \in Requests, Resume(r) PROVE Goal
    BY <1>1, <1>4 DEF Resume, database, history
<1>5. ASSUME NEW r \in Requests, NEW enable \in BOOLEAN, WriteSynthetic(r, enable) PROVE Goal
    BY <1>0, <1>1, <1>5 DEF WriteSynthetic, history
<1>6. ASSUME NEW t \in Tasks, TaskEnds(t) PROVE Goal
    BY <1>0, <1>6, MonitorAssumption DEF TaskEnds, database, Abandoned, Stands, Answer
<1>7. ASSUME NEW t \in Tasks, TaskStep(t) PROVE Goal
    <2> USE MonitorAssumption DEF Step, Stands, Answer
    <2>1. CASE Begin(t)
        BY <1>0, <2>1 DEF Begin, database, history
    <2>2. CASE WarmedUp(t)
        BY <1>0, <2>2 DEF WarmedUp, Send
    <2>3. CASE NextCheck(t)
        BY <1>0, <2>3 DEF NextCheck, Send, database, history
    <2>4. CASE HandlePost(t)
        BY <1>0, <2>4 DEF HandlePost, history
    <2>5. CASE Passed(t)
        BY <1>0, <2>5 DEF Passed, RemoveOwnRow, history
    <2>6. CASE Refused(t)
        BY <1>0, <2>6 DEF Refused, database, history
    <2>7. CASE TimedOut(t)
        BY <1>0, <2>7 DEF TimedOut, Abandoned, database
    <2>8. CASE Alerted(t)
        BY <1>0, <2>8 DEF Alerted
    <2>9. CASE Recorded(t)
        BY <1>0, <2>9 DEF Recorded
    <2>10. CASE CheckRaises(t)
        BY <1>0, <2>10 DEF CheckRaises, Abandoned, database
    <2> QED BY <1>7, <2>1, <2>2, <2>3, <2>4, <2>5, <2>6, <2>7, <2>8, <2>9, <2>10 DEF TaskStep
<1>8. ASSUME NEW row \in Rows, GrowOld(row) PROVE Goal
    BY <1>0, <1>8 DEF GrowOld, process, history
<1>9. CASE UNCHANGED vars
    BY <1>0, <1>9 DEF vars, database, process, history
<1> QED BY <1>2, <1>3, <1>4, <1>5, <1>6, <1>7, <1>8, <1>9 DEF Next

LEMMA TypeStep == ASSUME TypeInv, [Next]_vars PROVE TypeInv'
<1>1. Columns'
    BY ColumnStep
<1>2. results' \in Seq(Status) /\ Len(results') <= MaxResults
    BY ResultStep
<1>3. RowInv' /\ PostFits' /\ RowOfOne' /\ OldIsLeaked' /\ NoRowForgotten'
    BY RowStep
<1> QED BY <1>1, <1>2, <1>3 DEF TypeInv, TypeOK, Columns, RowInv, Stands, Answer

LEMMA TypeAlways == Spec => []TypeInv
<1>1. Init => TypeInv
    BY TypeInit
<1>2. TypeInv /\ [Next]_vars => TypeInv'
    BY TypeStep
<1> QED BY <1>1, <1>2, PTL DEF Spec

(* Every state is typed: in particular the history of results never grows  *)
(* past MAX_RESULT_ROWS, and rows that were given up are rows.              *)
THEOREM TypeCorrect == Spec => []TypeOK
<1>1. TypeInv => TypeOK
    BY DEF TypeInv
<1> QED BY <1>1, TypeAlways, PTL

(* A row of the synthetic source is one a check under way will still        *)
(* remove, or one whose POST was given up, however often the monitor is     *)
(* replaced, cancelled or restarted, with requests overlapping or not.      *)
THEOREM RowsAccountedFor == Spec => []NoRowForgotten
<1>1. TypeInv => NoRowForgotten
    BY DEF TypeInv
<1> QED BY <1>1, TypeAlways, PTL

(***************************************************************************)
(* Settings requests one at a time: who runs, and what it was started for. *)
(***************************************************************************)

(* A request that waits has cancelled the one task there was, and goes on   *)
(* to what is stored; a process that is down runs nothing.                  *)
WaitsAlone ==
    /\ \A r, s \in InProgress : r = s
    /\ \A r \in InProgress :
          up /\ Running = {} /\ (config <=> request[r] = "starting")
    /\ ~up => Running = {} /\ ~on

Begun == \E t \in Running : task[t] # "created"

(* Only a task that lives is marked as cancelled.                           *)
Marked == \A t \in Tasks : cancelled[t] => t \in Live

ControlInv == Marked /\ WaitsAlone /\ OneMonitor /\ SettingsApplied /\ OnMeansRunning

LEMMA ControlInit == Init => ControlInv
    BY MonitorAssumption
    DEF Init, ControlInv, Marked, WaitsAlone, OneMonitor, SettingsApplied, OnMeansRunning, Running, Live, InProgress

LEMMA NoneWaits ==
    ASSUME Concurrent = 1, Cardinality(InProgress) < Concurrent
    PROVE  InProgress = {}
<1>1. IsFiniteSet(InProgress)
    BY MonitorAssumption, FS_Subset DEF InProgress
<1> QED BY <1>1, FS_EmptySet, FS_CardinalityType

(* A start out of a state in which nothing runs.                            *)
LEMMA InstallRuns ==
    ASSUME TypeInv, NEW enable \in BOOLEAN, NEW wanted \in BOOLEAN, Install(enable, wanted, task),
           Running = {}, UNCHANGED cancelled, Marked
    PROVE  /\ Marked' /\ ~on' /\ ~Begun' /\ OneMonitor'
           /\ (enable /\ wanted) <=> Running' # {}
<1>1. task \in [Tasks -> Stands]
    BY DEF TypeInv, TypeOK, Stands
<1>2. CASE enable /\ wanted
    <2>1. PICK t \in Tasks : /\ task[t] = "none" /\ current' = t
                             /\ task' = [task EXCEPT ![t] = "created"] /\ on' = FALSE
        BY <1>2 DEF Install
    <2>2. Running' = {t}
        BY <1>1, <2>1 DEF Running, Live, Marked
    <2>3. Marked'
        BY <1>1, <2>1 DEF Marked, Live
    <2> QED BY <1>1, <1>2, <2>1, <2>2, <2>3 DEF Begun, OneMonitor
<1>3. CASE ~(enable /\ wanted)
    <2>1. task' = task /\ on' = FALSE
        BY <1>3 DEF Install
    <2>2. Running' = {}
        BY <2>1 DEF Running, Live
    <2> QED BY <1>3, <2>1, <2>2 DEF Begun, OneMonitor, Marked, Live
<1> QED BY <1>2, <1>3

(* The task goes on: whoever ran before runs after it.                      *)
LEMMA StepRuns ==
    ASSUME TypeInv, Marked, NEW t \in Tasks, NEW from \in Stands \ {"none", "ended"},
           NEW to \in Stands \ {"none", "created", "ended"}, Step(t, from, to), UNCHANGED cancelled
    PROVE  /\ Running' = Running /\ Marked' /\ t \in Running
           /\ task'[t] # "created"
           /\ from # "created" => \A u \in Running : task'[u] = "created" <=> task[u] = "created"
<1>1. task \in [Tasks -> Stands]
    BY DEF TypeInv, TypeOK, Stands
<1> QED BY <1>1 DEF Step, Running, Live, Marked

(* A step of the monitor's loop changes neither who runs nor, but for its   *)
(* first, what the state shows of it.                                       *)
LEMMA LoopStep ==
    ASSUME TypeInv, Marked, NEW t \in Tasks, TaskStep(t)
    PROVE  /\ Running' = Running /\ Marked'
           /\ UNCHANGED <<config, up, current, settings>>
           /\ \/ t \in Running /\ on' /\ task'[t] # "created"
              \/ UNCHANGED on /\ \A u \in Running : task'[u] = "created" <=> task[u] = "created"
<1> USE DEF Stands, settings
<1>1. CASE Begin(t)
    BY <1>1, StepRuns DEF Begin, database, settings
<1>2. CASE WarmedUp(t)
    <2>1. Step(t, "warming", "posting") /\ UNCHANGED cancelled
        BY <1>2 DEF WarmedUp
    <2> QED BY <1>2, <2>1, StepRuns DEF WarmedUp, memory
<1>3. CASE NextCheck(t)
    <2>1. Step(t, "waiting", "posting") /\ UNCHANGED cancelled
        BY <1>3 DEF NextCheck
    <2> QED BY <1>3, <2>1, StepRuns DEF NextCheck, memory, database
<1>4. CASE HandlePost(t)
    BY <1>4 DEF HandlePost, memory, Running, Live, Marked
<1>5. CASE Passed(t)
    <2>1. Step(t, "posting", "closing") /\ UNCHANGED cancelled
        BY <1>5 DEF Passed
    <2> QED BY <1>5, <2>1, StepRuns DEF Passed
<1>6. CASE Refused(t) \/ TimedOut(t)
    <2>1. Step(t, "posting", "alerting") /\ UNCHANGED cancelled
        BY <1>6 DEF Refused, TimedOut
    <2> QED BY <1>6, <2>1, StepRuns DEF Refused, TimedOut, memory, database
<1>7. CASE Alerted(t)
    <2>1. (Step(t, "alerting", "closing") \/ Step(t, "alerting", "waiting")) /\ UNCHANGED cancelled
        BY <1>7 DEF Alerted
    <2> QED BY <1>7, <2>1, StepRuns DEF Alerted
<1>8. CASE Recorded(t)
    <2>1. Step(t, "closing", "waiting") /\ UNCHANGED cancelled
        BY <1>8 DEF Recorded
    <2> QED BY <1>8, <2>1, StepRuns DEF Recorded, memory
<1>9. CASE CheckRaises(t)
    <2>1. (Step(t, "posting", "waiting") \/ Step(t, "alerting", "waiting")) /\ UNCHANGED cancelled
        BY <1>9 DEF CheckRaises
    <2> QED BY <1>9, <2>1, StepRuns DEF CheckRaises, memory, database
<1> QED BY <1>1, <1>2, <1>3, <1>4, <1>5, <1>6, <1>7, <1>8, <1>9 DEF TaskStep

LEMMA ControlStep ==
    ASSUME Concurrent = 1, TypeInv, ControlInv, [Next]_vars
    PROVE  ControlInv'
<1>0. /\ Marked /\ WaitsAlone /\ OneMonitor /\ SettingsApplied /\ OnMeansRunning
      /\ task \in [Tasks -> Stands] /\ request \in [Requests -> {"idle", "starting", "stopping", "done"}]
      /\ cancelled \in [Tasks -> BOOLEAN] /\ config \in BOOLEAN
    BY DEF ControlInv, TypeInv, TypeOK, Stands
<1>1. CASE Boot
    <2>1. Running = {} /\ InProgress = {} /\ Install(TRUE, config, task) /\ up'
          /\ UNCHANGED <<config, cancelled, request>>
        BY <1>0, <1>1 DEF Boot, WaitsAlone, database, settings
    <2>2. Marked' /\ ~on' /\ ~Begun' /\ OneMonitor' /\ (config <=> Running' # {})
        BY <1>0, <2>1, InstallRuns
    <2>3. InProgress' = {}
        BY <2>1 DEF InProgress
    <2> QED BY <2>1, <2>2, <2>3
            DEF ControlInv, WaitsAlone, SettingsApplied, OnMeansRunning, Begun
<1>2. CASE Crash
    <2>1. ~up' /\ ~on' /\ InProgress' = {}
        BY <1>0, <1>2 DEF Crash, InProgress
    <2>2. Running' = {} /\ Marked'
        BY <1>0, <1>2 DEF Crash, Running, Live, Marked
    <2> QED BY <2>1, <2>2 DEF ControlInv, WaitsAlone, OneMonitor, SettingsApplied, OnMeansRunning
<1>3. ASSUME NEW r \in Requests, Resume(r) PROVE ControlInv'
    <2>1. /\ InProgress = {r} /\ up /\ Running = {} /\ (config <=> request[r] = "starting")
          /\ Install(request[r] = "starting", config, task)
          /\ request' = [request EXCEPT ![r] = "done"] /\ UNCHANGED <<config, up, cancelled>>
        BY <1>0, <1>3 DEF Resume, WaitsAlone, database
    <2>2. Marked' /\ ~on' /\ ~Begun' /\ OneMonitor' /\ (config <=> Running' # {})
        BY <1>0, <2>1, InstallRuns
    <2>3. InProgress' = {}
        BY <1>0, <2>1 DEF InProgress
    <2> QED BY <2>1, <2>2, <2>3
            DEF ControlInv, WaitsAlone, SettingsApplied, OnMeansRunning, Begun
<1>4. ASSUME NEW r \in Requests, NEW enable \in BOOLEAN, WriteSynthetic(r, enable)
      PROVE  ControlInv'
    <2>1. InProgress = {} /\ up /\ up' /\ config' = enable
        BY <1>4, NoneWaits DEF WriteSynthetic
    <2>2. CASE MustStop
        <3>1. /\ cancelled' = [cancelled EXCEPT ![current] = TRUE] /\ task' = task
              /\ request' = [request EXCEPT ![r] = IF enable THEN "starting" ELSE "stopping"]
              /\ current \in Live
            BY <1>4, <2>2 DEF WriteSynthetic, MustStop
        <3>2. Running' = {} /\ Marked'
            BY <1>0, <3>1 DEF Running, Live, OneMonitor, Marked
        <3>3. InProgress' = {r} /\ (enable <=> request'[r] = "starting")
            BY <1>0, <2>1, <3>1 DEF InProgress
        <3> QED BY <2>1, <3>2, <3>3
                DEF ControlInv, WaitsAlone, OneMonitor, SettingsApplied, OnMeansRunning
    <2>3. CASE ~MustStop
        <3>1. /\ Install(enable, enable, task) /\ UNCHANGED cancelled
              /\ request' = [request EXCEPT ![r] = "done"]
            BY <1>4, <2>3 DEF WriteSynthetic
        <3>2. Running = {}
            BY <1>0, <2>3 DEF MustStop, Running, OneMonitor
        <3>3. Marked' /\ ~on' /\ ~Begun' /\ OneMonitor' /\ (enable <=> Running' # {})
            BY <1>0, <3>1, <3>2, InstallRuns
        <3>4. InProgress' = {}
            BY <1>0, <2>1, <3>1 DEF InProgress
        <3> QED BY <2>1, <3>3, <3>4
                DEF ControlInv, WaitsAlone, SettingsApplied, OnMeansRunning, Begun
    <2> QED BY <2>2, <2>3
<1>5. ASSUME NEW t \in Tasks, TaskEnds(t) PROVE ControlInv'
    <2>1. /\ Running' = Running /\ Marked'
          /\ \A u \in Running : task'[u] = task[u]
        BY <1>0, <1>5 DEF TaskEnds, CancelArrives, Running, Live, Marked
    <2>2. UNCHANGED <<config, up, current, on, request>>
        BY <1>5 DEF TaskEnds, database, memory, settings
    <2> QED BY <1>0, <2>1, <2>2
            DEF ControlInv, WaitsAlone, OneMonitor, SettingsApplied, OnMeansRunning, InProgress
<1>6. ASSUME NEW t \in Tasks, TaskStep(t) PROVE ControlInv'
    <2>1. /\ Running' = Running /\ Marked'
          /\ UNCHANGED <<config, up, current, request>>
          /\ \/ t \in Running /\ on' /\ task'[t] # "created"
             \/ UNCHANGED on /\ \A u \in Running : task'[u] = "created" <=> task[u] = "created"
        BY <1>0, <1>6, LoopStep DEF settings
    <2>2. InProgress' = InProgress
        BY <2>1 DEF InProgress
    <2>3. WaitsAlone'
        BY <1>0, <2>1, <2>2 DEF WaitsAlone
    <2> QED BY <1>0, <2>1, <2>2, <2>3 DEF ControlInv, OneMonitor, SettingsApplied, OnMeansRunning
<1>7. CASE UNCHANGED vars \/ \E row \in Rows : GrowOld(row)
    <2>1. UNCHANGED <<config, up, current, on, task, cancelled, request>>
        BY <1>7 DEF vars, GrowOld, database, memory, process, settings
    <2> QED BY <1>0, <2>1 DEF ControlInv, Marked, WaitsAlone, OneMonitor, SettingsApplied,
                              OnMeansRunning, Running, Live, InProgress
<1> QED BY <1>1, <1>2, <1>3, <1>4, <1>5, <1>6, <1>7 DEF Next

LEMMA ControlAlways == ASSUME Concurrent = 1 PROVE Spec => []ControlInv
<1>1. Init => ControlInv
    BY ControlInit
<1>2. TypeInv /\ ControlInv /\ [Next]_vars => ControlInv'
    BY ControlStep
<1> QED BY <1>1, <1>2, TypeAlways, PTL DEF Spec

(* With settings requests one at a time there is no monitor beside the one  *)
(* the globals refer to: stop_synthetic_monitoring has waited for its end   *)
(* before a new one is made, also when a crash and a restart come between.  *)
THEOREM MonitorIsOne == ASSUME Concurrent = 1 PROVE Spec => []OneMonitor
<1>1. ControlInv => OneMonitor
    BY DEF ControlInv
<1> QED BY <1>1, ControlAlways, PTL

(* With settings requests one at a time the monitor runs, once a request    *)
(* is answered, exactly if the stored configuration says so.                *)
THEOREM RunsAsStored == ASSUME Concurrent = 1 PROVE Spec => []SettingsApplied
<1>1. ControlInv => SettingsApplied
    BY DEF ControlInv
<1> QED BY <1>1, ControlAlways, PTL

(* With settings requests one at a time _state.enabled, which the task sets *)
(* when it first runs, is true exactly while a begun monitor runs.          *)
THEOREM ShownAsRunning == ASSUME Concurrent = 1 PROVE Spec => []OnMeansRunning
<1>1. ControlInv => OnMeansRunning
    BY DEF ControlInv
<1> QED BY <1>1, ControlAlways, PTL

(***************************************************************************)
(* The status shown and the status stored.                                 *)
(***************************************************************************)

(* While a check closes its client, its result is shown and not yet stored. *)
ShownFirst ==
    \A t \in Running : task[t] = "closing" =>
        shown = IF post[t] = "refused" THEN "failing" ELSE "passing"

ShownInv == ShownIsStored /\ ShownFirst

(* The steps in which the running task leaves its place for another.        *)
LEMMA OnlyOneSteps ==
    ASSUME TypeInv, ControlInv, NEW t \in Tasks, NEW from \in Stands \ {"none", "ended"},
           NEW to \in Stands \ {"none", "created", "ended"}, Step(t, from, to), UNCHANGED cancelled
    PROVE  Running = {t} /\ Running' = {t} /\ task'[t] = to /\ task[t] = from
<1>1. Running' = Running /\ t \in Running
    BY StepRuns DEF ControlInv
<1>2. task \in [Tasks -> Stands]
    BY DEF TypeInv, TypeOK, Stands
<1> QED BY <1>1, <1>2 DEF Step, ControlInv, OneMonitor

LEMMA ShownStep ==
    ASSUME TypeInv, TypeInv', ControlInv, ControlInv', ShownInv, [Next]_vars
    PROVE  ShownInv'
<1>0. /\ task \in [Tasks -> Stands] /\ post \in [Tasks -> Answer] /\ PostFits
      /\ ShownIsStored /\ ShownFirst
    BY DEF TypeInv, TypeOK, Stands, Answer, ShownInv
<1> USE DEF ShownInv, ShownIsStored, ShownFirst
<1>1. Running \subseteq Tasks
    BY DEF Running, Live
<1>2. CASE UNCHANGED <<results, shown, post, raised>> /\ \A u \in Running' : u \in Running /\ task'[u] = task[u]
    BY <1>0, <1>2
<1>3. CASE \A u \in Running' : task'[u] \notin {"closing", "waiting"}
    BY <1>3
<1>4. ASSUME NEW enable, NEW wanted, Install(enable, wanted, task), UNCHANGED <<results, shown, post, raised, cancelled>>
      PROVE  ShownInv'
    <2>1. \A u \in Running' : task'[u] = "created" \/ (u \in Running /\ task'[u] = task[u])
        <3>1. task' = task \/ \E v \in Tasks : task' = [task EXCEPT ![v] = "created"]
            BY <1>4 DEF Install
        <3>2. \A u \in Tasks : task'[u] = "created" \/ task'[u] = task[u]
            BY <1>0, <3>1
        <3>3. UNCHANGED cancelled
            BY <1>4
        <3> QED BY <3>2, <3>3 DEF Running, Live
    <2>2. ASSUME NEW u \in Running', task'[u] \in {"closing", "waiting"}
          PROVE  u \in Running /\ task[u] = task'[u]
        BY <2>1, <2>2
    <2>3. ShownIsStored'
        BY <1>0, <1>4, <2>2
    <2>4. ShownFirst'
        BY <1>0, <1>4, <2>2
    <2> QED BY <2>3, <2>4
<1>5. CASE Boot
    <2>1. Running = {}
        BY <1>5 DEF Boot, ControlInv, WaitsAlone
    <2>2. \A u \in Running' : task'[u] = "created"
        BY <1>0, <1>5, <2>1 DEF Boot, Install, Running, Live
    <2> QED BY <1>3, <2>2
<1>6. CASE Crash
    <2>1. Running' = {}
        BY <1>0, <1>6 DEF Crash, Running, Live
    <2> QED BY <1>3, <2>1
<1>7. ASSUME NEW r \in Requests, Resume(r) PROVE ShownInv'
    BY <1>4, <1>7 DEF Resume, database, history
<1>8. ASSUME NEW r \in Requests, NEW enable \in BOOLEAN, WriteSynthetic(r, enable) PROVE ShownInv'
    <2>1. CASE MustStop
        <3>1. Running' = {}
            BY <1>8, <2>1 DEF WriteSynthetic, MustStop, ControlInv, OneMonitor, Running, Live, TypeInv, TypeOK
        <3> QED BY <1>3, <3>1
    <2>2. CASE ~MustStop
        BY <1>4, <1>8, <2>2 DEF WriteSynthetic, history
    <2> QED BY <2>1, <2>2
<1>9. ASSUME NEW t \in Tasks, TaskEnds(t) PROVE ShownInv'
    <2>1. \A u \in Running' : u \in Running /\ u # t /\ task'[u] = task[u] /\ post'[u] = post[u]
        BY <1>0, <1>9 DEF TaskEnds, CancelArrives, Running, Live
    <2>2. UNCHANGED <<results, shown, raised>>
        BY <1>9 DEF TaskEnds, database, memory
    <2> QED BY <1>0, <2>1, <2>2
<1>10. ASSUME NEW t \in Tasks, TaskStep(t) PROVE ShownInv'
    <2> USE DEF Stands
    <2>1. CASE Begin(t) \/ WarmedUp(t) \/ NextCheck(t) \/ Refused(t) \/ TimedOut(t)
        <3>1. /\ \/ Step(t, "created", "warming") \/ Step(t, "warming", "posting")
                 \/ Step(t, "waiting", "posting") \/ Step(t, "posting", "alerting")
              /\ UNCHANGED cancelled
            BY <2>1 DEF Begin, WarmedUp, NextCheck, Refused, TimedOut, memory
        <3>2. Running' = {t} /\ task'[t] \in {"warming", "posting", "alerting"}
            BY <3>1, OnlyOneSteps
        <3> QED BY <1>3, <3>2
    <2>2. CASE HandlePost(t)
        <3>1. Running' = Running /\ UNCHANGED <<task, results, shown, raised>>
            BY <2>2 DEF HandlePost, memory, history, Running, Live
        <3>2. post[t] = "sent" /\ \A u \in Tasks : u # t => post'[u] = post[u]
            BY <1>0, <2>2 DEF HandlePost
        <3>3. task[t] # "closing"
            BY <1>0, <3>2, MonitorAssumption DEF PostFits
        <3> QED BY <1>0, <1>1, <3>1, <3>2, <3>3
    <2>3. CASE Passed(t)
        <3>1. Step(t, "posting", "closing") /\ UNCHANGED cancelled
              /\ shown' = "passing" /\ post'[t] = None
            BY <1>0, <2>3 DEF Passed
        <3>2. Running' = {t} /\ task'[t] = "closing"
            BY <3>1, OnlyOneSteps
        <3> QED BY <3>1, <3>2, MonitorAssumption
    <2>4. CASE Alerted(t)
        <3>1. CASE post[t] = "refused"
            <4>1. Step(t, "alerting", "closing") /\ UNCHANGED <<cancelled, post>> /\ shown' = "failing"
                BY <2>4, <3>1 DEF Alerted
            <4>2. Running' = {t} /\ task'[t] = "closing"
                BY <4>1, OnlyOneSteps
            <4> QED BY <3>1, <4>1, <4>2
        <3>2. CASE post[t] # "refused"
            <4>1. Step(t, "alerting", "waiting") /\ UNCHANGED cancelled /\ shown' = "failing" /\ Stored("failing")
                BY <2>4, <3>2 DEF Alerted
            <4>2. Running' = {t} /\ task'[t] = "waiting"
                BY <4>1, OnlyOneSteps
            <4>3. results' # <<>> /\ Head(results') = "failing"
                BY <4>1, PruneFacts DEF Stored, Status, TypeInv
            <4> QED BY <4>1, <4>2, <4>3
        <3> QED BY <3>1, <3>2
    <2>5. CASE Recorded(t)
        <3> DEFINE status == IF post[t] = "refused" THEN "failing" ELSE "passing"
        <3>1. Step(t, "closing", "waiting") /\ UNCHANGED <<cancelled, shown>> /\ Stored(status)
            BY <2>5 DEF Recorded, memory
        <3>2. Running = {t} /\ Running' = {t} /\ task'[t] = "waiting" /\ task[t] = "closing"
            BY <3>1, OnlyOneSteps
        <3>3. results' # <<>> /\ Head(results') = status
            BY <3>1, PruneFacts DEF Stored, Status, TypeInv
        <3> QED BY <1>0, <3>1, <3>2, <3>3
    <2>6. CASE CheckRaises(t)
        <3>1. (Step(t, "posting", "waiting") \/ Step(t, "alerting", "waiting")) /\ UNCHANGED cancelled
              /\ t \in raised'
            BY <2>6 DEF CheckRaises
        <3>2. Running' = {t} /\ task'[t] = "waiting"
            BY <3>1, OnlyOneSteps
        <3> QED BY <3>1, <3>2
    <2> QED BY <1>10, <2>1, <2>2, <2>3, <2>4, <2>5, <2>6 DEF TaskStep
<1>11. CASE UNCHANGED vars \/ \E row \in Rows : GrowOld(row)
    <2>1. UNCHANGED <<results, shown, post, raised, task, cancelled>>
        BY <1>11 DEF vars, GrowOld, database, memory, process, history
    <2> QED BY <1>2, <2>1 DEF Running, Live
<1> QED BY <1>5, <1>6, <1>7, <1>8, <1>9, <1>10, <1>11 DEF Next

(* With settings requests one at a time, after a check that ended normally  *)
(* the status shown in _state is the newest stored one, whatever was        *)
(* pruned, cancelled or restarted before it.                                *)
THEOREM ShownAsStored == ASSUME Concurrent = 1 PROVE Spec => []ShownIsStored
<1>1. Init => ShownInv
    BY DEF Init, ShownInv, ShownIsStored, ShownFirst, Running, Live
<1>2. TypeInv /\ TypeInv' /\ ControlInv /\ ControlInv' /\ ShownInv /\ [Next]_vars => ShownInv'
    BY ShownStep
<1>3. ShownInv => ShownIsStored
    BY DEF ShownInv
<1> QED BY <1>1, <1>2, <1>3, TypeAlways, ControlAlways, PTL DEF Spec
=============================================================================
