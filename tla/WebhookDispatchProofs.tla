----------------------- MODULE WebhookDispatchProofs -----------------------
(***************************************************************************)
(* Proofs about WebhookDispatch: what the delivery log, the notified flag  *)
(* and the failure counter say to one another holds for any number of      *)
(* hooks, events and attempts, and for dispatches that overlap in any way. *)
(***************************************************************************)
EXTENDS WebhookDispatch, TLAPS, FiniteSetTheorems

USE DispatchAssumption

(***************************************************************************)
(* Types.                                                                  *)
(***************************************************************************)

(* EndSession drops the session of one dispatch and keeps the types.        *)
LEMMA EndSessionType ==
    ASSUME TypeOK, NEW e \in Events, NEW how \in {"done", "failed", "lost"}, EndSession(e, how)
    PROVE  /\ pc' \in [Events -> {"idle", "run", "done", "failed", "lost"}]
           /\ selected' \in [Events -> SUBSET Hooks]
           /\ seen' \in [Events -> [Hooks -> Nat]]
           /\ pending' \in SUBSET Note
    BY DEF TypeOK, EndSession, NeverFailed

(* The columns keep the types the rows declare them with, whatever order    *)
(* of requests, dispatches and crashes the server sees.                     *)
LEMMA TypeStep == TypeOK /\ [Next]_vars => TypeOK'
<1> SUFFICES ASSUME TypeOK, [Next]_vars PROVE TypeOK'
    OBVIOUS
<1>1. ASSUME NEW e \in Events, StartDispatch(e) PROVE TypeOK'
    BY <1>1 DEF StartDispatch, PersistedAtStart, TypeOK, history, Selectable
<1>2. ASSUME NEW e \in Events, Deliver(e) PROVE TypeOK'
    BY <1>2 DEF Deliver, Attempt, TypeOK, database, history, Note
<1>3. ASSUME NEW e \in Events, Commit(e) PROVE TypeOK'
    <2>1. fails' \in [Hooks -> Nat]
        BY <1>3 DEF Commit, CounterWritten, TypeOK
    <2>2. enabled' \in [Hooks -> BOOLEAN]
        BY <1>3 DEF Commit, EnabledWritten
    <2>3. streak' \in [Hooks -> Nat]
        BY <1>3 DEF Commit, TypeOK
    <2>4. notified' \in SUBSET stored' /\ stored' \in SUBSET Events /\ notes' \in SUBSET Note
        BY <1>3 DEF Commit, KeysHold, Won, TypeOK
    <2>5. /\ row' = row /\ accepts' = accepts /\ expired' = expired /\ crossed' = crossed
          /\ reopened' \in SUBSET Hooks /\ verdicts' \in SUBSET Verdict
        BY <1>3 DEF Commit, TypeOK
    <2> QED
        BY <1>3, <2>1, <2>2, <2>3, <2>4, <2>5, EndSessionType DEF Commit, TypeOK
<1>4. ASSUME NEW e \in Events, CommitFails(e) \/ AttemptRaises(e) \/ CancelSynthetic(e)
      PROVE TypeOK'
    <2>1. \E how \in {"done", "failed", "lost"} : EndSession(e, how)
        BY <1>4 DEF CommitFails, AttemptRaises, CancelSynthetic
    <2>2. UNCHANGED <<database, history>>
        BY <1>4 DEF CommitFails, AttemptRaises, CancelSynthetic
    <2> QED
        BY <2>1, <2>2, EndSessionType DEF TypeOK, database, history
<1>5. CASE Crash
    BY <1>5 DEF Crash, TypeOK, database, history, NeverFailed
<1>6. CASE Operator
    <2> SUFFICES ASSUME NEW h \in Hooks,
                        \/ DeleteWebhook(h)
                        \/ \E on \in BOOLEAN, filter \in SUBSET Sources :
                              CreateWebhook(h, on, filter) \/ UpdateWebhook(h, on, filter)
                 PROVE  TypeOK'
        BY <1>6 DEF Operator
    <2>1. ASSUME NEW on \in BOOLEAN, NEW filter \in SUBSET Sources, CreateWebhook(h, on, filter)
          PROVE  TypeOK'
        BY <2>1 DEF CreateWebhook, TypeOK, session, history
    <2>2. ASSUME NEW on \in BOOLEAN, NEW filter \in SUBSET Sources, UpdateWebhook(h, on, filter)
          PROVE  TypeOK'
        BY <2>2 DEF UpdateWebhook, TypeOK, session
    <2>3. CASE DeleteWebhook(h)
        BY <2>3 DEF DeleteWebhook, TypeOK, session
    <2> QED BY <2>1, <2>2, <2>3
<1>7. CASE UNCHANGED vars
    BY <1>7 DEF TypeOK, vars, database, session, history
<1>8. ASSUME NEW doomed \in SUBSET Events, RetentionPass(doomed) PROVE TypeOK'
    BY <1>8 DEF RetentionPass, NotesOf, TypeOK, session
<1> QED
    BY <1>1, <1>2, <1>3, <1>4, <1>5, <1>6, <1>7, <1>8 DEF Next

(* The type invariant of the dispatcher and of the tables it writes.        *)
THEOREM TypeCorrect == Spec => []TypeOK
<1>1. Init => TypeOK
    BY DEF Init, TypeOK, NeverFailed
<1> QED
    BY <1>1, TypeStep, PTL DEF Spec

(***************************************************************************)
(* The delivery log.                                                       *)
(***************************************************************************)

(* NotifiedIffDelivered and LogIsWholeStory are not inductive by themselves *)
(* because they say nothing of rows that are still in a session: a commit   *)
(* moves those into the log.  The strengthening says the same of pending    *)
(* rows, and that a session's rows and the log never speak of one event.    *)
(* An expired failure has been dispatched and is gone for good, so a        *)
(* dispatch it still runs in cannot commit a log row of it.                 *)
ExpiredIsGone ==
    /\ expired \cap (stored \cup Synthetic) = {}
    /\ \A e \in stored \cup expired : pc[e] # "idle"

PendingOfRunning ==
    \A n \in pending : pc[n.event] = "run" /\ n.hook \in selected[n.event]

NotifiedIsDone == \A e \in notified : pc[e] = "done"

LogInv ==
    /\ ExpiredIsGone
    /\ PendingOfRunning
    /\ AttemptsInOrder(pending)
    /\ NotifiedIsDone
    /\ NotifiedIffDelivered
    /\ LogIsWholeStory

(* Rows of a dispatch that ended without a commit disappear from the        *)
(* sessions; what is left is still in order.                                *)
LEMMA DroppedRowsInOrder ==
    ASSUME TypeOK, AttemptsInOrder(pending), NEW e \in Events
    PROVE  AttemptsInOrder({n \in pending : n.event # e})
    BY DEF TypeOK, AttemptsInOrder, Note

(* One more attempt extends the run of attempts of its hook.                *)
LEMMA AttemptKeepsOrder ==
    ASSUME TypeOK, AttemptsInOrder(pending),
           NEW e \in Events, NEW h \in Hooks, NEW n \in 1..MaxAttempts, NEW ok \in BOOLEAN,
           Attempt(e, h, n, ok)
    PROVE  AttemptsInOrder(pending')
<1> DEFINE new == [event |-> e, hook |-> h, attempt |-> n, ok |-> ok]
           at(p, m, b) == [event |-> p.event, hook |-> p.hook, attempt |-> m, ok |-> b]
<1>1. pending' = pending \cup {new}
    BY DEF Attempt
<1>2. \A p \in pending : p.event = e /\ p.hook = h => ~p.ok
    BY DEF Attempt, Judged, Delivered
<1>3. \A m \in 1..MaxAttempts : m < n => at(new, m, FALSE) \in pending
    <2> SUFFICES ASSUME NEW m \in 1..MaxAttempts, m < n PROVE at(new, m, FALSE) \in pending
        OBVIOUS
    <2>1. at(new, n - 1, FALSE) \in pending
        BY DEF Attempt
    <2>2. CASE m = n - 1
        BY <2>1, <2>2
    <2>3. CASE m < n - 1
        BY <2>1, <2>3 DEF AttemptsInOrder
    <2> QED
        BY <2>2, <2>3
<1>4. \A m \in 1..MaxAttempts : m >= n => at(new, m, FALSE) \notin pending
    <2> SUFFICES ASSUME NEW m \in 1..MaxAttempts, m >= n, at(new, m, FALSE) \in pending
                 PROVE FALSE
        OBVIOUS
    <2>1. at(new, n, FALSE) \in pending
        <3>1. CASE n = m
            BY <3>1
        <3>2. CASE n < m
            <4> DEFINE later == at(new, m, FALSE)
            <4>1. later.event = e /\ later.hook = h /\ later.attempt = m
                OBVIOUS
            <4> QED
                BY <3>2, <4>1 DEF AttemptsInOrder
        <3> QED
            BY <3>1, <3>2
    <2>2. Tried(e, h, pending)
        BY <2>1 DEF Tried
    <2> QED
        BY <2>1, <2>2 DEF Attempt
<1> SUFFICES ASSUME NEW p \in pending', NEW m \in 1..MaxAttempts
             PROVE  /\ m < p.attempt => at(p, m, FALSE) \in pending'
                    /\ p.ok /\ m >= p.attempt => at(p, m, FALSE) \notin pending'
                    /\ p.ok /\ m # p.attempt => at(p, m, TRUE) \notin pending'
    BY DEF AttemptsInOrder
<1>5. CASE p = new
    <2>1. p.event = e /\ p.hook = h /\ p.attempt = n /\ p.ok = ok
        BY <1>5
    <2>2. \A b \in BOOLEAN : at(p, m, b) = at(new, m, b)
        BY <2>1
    <2>3. m < n => at(p, m, FALSE) \in pending'
        BY <1>1, <1>3, <2>2
    <2>4. ok /\ m >= n => at(p, m, FALSE) \notin pending'
        BY <1>1, <1>4, <2>2
    <2>5. ok /\ m # n => at(p, m, TRUE) \notin pending'
        BY <1>1, <1>2, <2>2
    <2> QED
        BY <2>1, <2>3, <2>4, <2>5
<1>6. CASE p \in pending
    BY <1>1, <1>2, <1>6 DEF AttemptsInOrder
<1> QED
    BY <1>1, <1>5, <1>6

(* Adding the rows of one event to a log that has none of it.               *)
LEMMA MergeKeepsOrder ==
    ASSUME TypeOK, LogInv, NEW e \in Events, pc[e] = "run"
    PROVE  AttemptsInOrder(notes \cup {n \in pending : n.event = e})
<1>1. \A n \in notes : n.event # e
    BY DEF LogInv, LogIsWholeStory
<1> QED
    BY <1>1 DEF LogInv, LogIsWholeStory, AttemptsInOrder, TypeOK, Note

(* The one commit: its rows become the log of its event, complete because   *)
(* the retry loop is over for every hook, and the flag follows any_success. *)
LEMMA CommitKeepsLog ==
    ASSUME TypeOK, LogInv, NEW e \in Events, Commit(e)
    PROVE  LogInv'
<1> DEFINE mine == {n \in pending : n.event = e}
<1>1. /\ pc[e] = "run"
      /\ pc' = [pc EXCEPT ![e] = "done"]
      /\ selected' = selected
      /\ notes' = notes \cup mine
      /\ pending' = {n \in pending : n.event # e}
      /\ notified' = IF Won(e) # {} THEN notified \cup {e} ELSE notified
      /\ \A h \in selected[e] : Judged(e, h, pending)
      /\ expired' = expired
    BY DEF Commit, Finished, EndSession
<1>8. stored' = stored \/ (e \in Synthetic /\ stored' = stored \cup {e})
    BY DEF Commit
<1>0. ExpiredIsGone' /\ (e \in expired => selected[e] = {})
    <2>1. ExpiredIsGone'
        BY <1>1, <1>8 DEF LogInv, ExpiredIsGone, TypeOK
    <2>2. e \in expired => selected[e] = {}
        BY DEF LogInv, ExpiredIsGone, Commit, KeysHold, TypeOK
    <2> QED BY <2>1, <2>2
<1>2. \A n \in notes : n.event # e
    BY <1>1 DEF LogInv, LogIsWholeStory
<1>3. PendingOfRunning'
    BY <1>1 DEF LogInv, PendingOfRunning, TypeOK, Note
<1>4. AttemptsInOrder(pending)'
    BY <1>1, DroppedRowsInOrder DEF LogInv
<1>5. NotifiedIsDone'
    BY <1>1 DEF LogInv, NotifiedIsDone, TypeOK
<1>6. NotifiedIffDelivered'
    <2> SUFFICES ASSUME NEW d \in Events
                 PROVE  d \in notified' <=> \E h \in Hooks : Delivered(d, h, notes')
        BY DEF NotifiedIffDelivered
    <2>1. CASE d = e
        <3>1. e \notin notified
            BY <1>1 DEF LogInv, NotifiedIsDone
        <3>2. \A h \in Hooks : Delivered(e, h, notes') <=> Delivered(e, h, pending)
            BY <1>1, <1>2 DEF Delivered
        <3>3. Won(e) # {} <=> \E h \in Hooks : Delivered(e, h, pending)
            BY DEF Won, Delivered, LogInv, PendingOfRunning, TypeOK
        <3> QED
            BY <1>1, <2>1, <3>1, <3>2, <3>3
    <2>2. CASE d # e
        <3>1. \A h \in Hooks : Delivered(d, h, notes') <=> Delivered(d, h, notes)
            BY <1>1, <2>2 DEF Delivered
        <3> QED
            BY <1>1, <2>2, <3>1 DEF LogInv, NotifiedIffDelivered
    <2> QED
        BY <2>1, <2>2
<1>7. LogIsWholeStory'
    <2>1. \A n \in notes' : /\ pc'[n.event] = "done" /\ n.event \notin expired'
                            /\ n.hook \in selected'[n.event]
        BY <1>0, <1>1, <1>2 DEF LogInv, LogIsWholeStory, PendingOfRunning, TypeOK, Note
    <2>2. ASSUME NEW d \in Events \ expired', pc'[d] = "done", NEW h \in selected'[d]
          PROVE  Judged(d, h, notes')
        BY <1>1, <2>2 DEF LogInv, LogIsWholeStory, Judged, Delivered, GaveUp, TypeOK
    <2>3. AttemptsInOrder(notes')
        BY <1>1, MergeKeepsOrder
    <2> QED
        BY <2>1, <2>2, <2>3 DEF LogIsWholeStory
<1> QED
    BY <1>0, <1>3, <1>4, <1>5, <1>6, <1>7 DEF LogInv

(* A dispatch that ends without a commit takes its rows with it.            *)
LEMMA RollbackKeepsLog ==
    ASSUME TypeOK, LogInv, NEW e \in Events, NEW how \in {"failed", "lost"},
           pc[e] = "run", EndSession(e, how), UNCHANGED <<database, history>>
    PROVE  LogInv'
<1>1. /\ pc' = [pc EXCEPT ![e] = how]
      /\ selected' = selected
      /\ pending' = {n \in pending : n.event # e}
      /\ notes' = notes /\ notified' = notified /\ stored' = stored /\ expired' = expired
    BY DEF EndSession, database, history
<1>0. ExpiredIsGone'
    BY <1>1 DEF LogInv, ExpiredIsGone, TypeOK
<1>2. PendingOfRunning'
    BY <1>1 DEF LogInv, PendingOfRunning, TypeOK, Note
<1>3. AttemptsInOrder(pending)'
    BY <1>1, DroppedRowsInOrder DEF LogInv
<1>4. NotifiedIsDone' /\ NotifiedIffDelivered' 
    BY <1>1 DEF LogInv, NotifiedIsDone, NotifiedIffDelivered, TypeOK
<1>5. LogIsWholeStory'
    BY <1>1 DEF LogInv, LogIsWholeStory, TypeOK, Note
<1> QED
    BY <1>0, <1>2, <1>3, <1>4, <1>5 DEF LogInv

(* A retention pass takes the log of an event away as a whole, and its flag *)
(* with it.                                                                 *)
LEMMA RetentionKeepsLog ==
    ASSUME TypeOK, LogInv, NEW doomed \in SUBSET Events, RetentionPass(doomed)
    PROVE  LogInv'
<1>1. /\ UNCHANGED <<pc, selected, pending>>
      /\ notes' = {n \in notes : n.event \notin doomed} /\ notified' = notified \ doomed
      /\ expired' = expired \cup doomed /\ stored' = stored \ doomed
      /\ doomed \subseteq stored \ Synthetic
    BY DEF RetentionPass, NotesOf, session
<1>2. ExpiredIsGone' /\ PendingOfRunning' /\ AttemptsInOrder(pending)' /\ NotifiedIsDone'
    BY <1>1 DEF LogInv, ExpiredIsGone, PendingOfRunning, AttemptsInOrder, NotifiedIsDone, TypeOK
<1>3. NotifiedIffDelivered'
    BY <1>1 DEF LogInv, NotifiedIffDelivered, Delivered
<1>4. LogIsWholeStory'
    <2>1. \A n \in notes' : /\ pc'[n.event] = "done" /\ n.event \notin expired'
                            /\ n.hook \in selected'[n.event]
        BY <1>1 DEF LogInv, LogIsWholeStory
    <2>2. ASSUME NEW e \in Events \ expired', pc'[e] = "done", NEW h \in selected'[e]
          PROVE  Judged(e, h, notes')
        BY <1>1, <2>2 DEF LogInv, LogIsWholeStory, Judged, Delivered, GaveUp
    <2>3. AttemptsInOrder(notes')
        BY <1>1 DEF LogInv, LogIsWholeStory, AttemptsInOrder
    <2> QED
        BY <2>1, <2>2, <2>3 DEF LogIsWholeStory
<1> QED
    BY <1>2, <1>3, <1>4 DEF LogInv

(* No step of a dispatch, of the operator or of the environment breaks the  *)
(* agreement.                                                               *)
LEMMA LogStep == TypeOK /\ LogInv /\ [Next]_vars => LogInv'
<1> SUFFICES ASSUME TypeOK, LogInv, [Next]_vars PROVE LogInv'
    OBVIOUS
<1>1. ASSUME NEW e \in Events, StartDispatch(e) PROVE LogInv'
    <2>1. /\ pc[e] = "idle"
          /\ \E s \in SUBSET Hooks : selected' = [selected EXCEPT ![e] = s]
          /\ \/ pc' = [pc EXCEPT ![e] = "run"]
             \/ pc' = [pc EXCEPT ![e] = "done"] /\ selected' = [selected EXCEPT ![e] = {}]
          /\ notes' = notes /\ pending' = pending /\ notified' = notified
          /\ expired' = expired /\ stored' \in {stored, stored \cup {e}}
        BY <1>1 DEF StartDispatch, PersistedAtStart
    <2>0. e \notin expired /\ ExpiredIsGone'
        BY <2>1 DEF LogInv, ExpiredIsGone, TypeOK
    <2>2. (\A n \in notes : n.event # e) /\ (\A n \in pending : n.event # e)
        BY <2>1 DEF LogInv, LogIsWholeStory, PendingOfRunning
    <2>3. PendingOfRunning'
        BY <2>1, <2>2 DEF LogInv, PendingOfRunning, TypeOK, Note
    <2>4. NotifiedIsDone' /\ NotifiedIffDelivered'
        BY <2>1 DEF LogInv, NotifiedIsDone, NotifiedIffDelivered, TypeOK
    <2>5. LogIsWholeStory'
        BY <2>1, <2>2 DEF LogInv, LogIsWholeStory, TypeOK, Note
    <2> QED
        BY <2>0, <2>1, <2>3, <2>4, <2>5 DEF LogInv
<1>2. ASSUME NEW e \in Events, NEW h \in Hooks, NEW n \in 1..MaxAttempts, NEW ok \in BOOLEAN,
             Attempt(e, h, n, ok)
      PROVE  LogInv'
    <2>1. AttemptsInOrder(pending')
        BY <1>2, AttemptKeepsOrder DEF LogInv
    <2>2. PendingOfRunning'
        BY <1>2 DEF Attempt, LogInv, PendingOfRunning
    <2> QED
        BY <1>2, <2>1, <2>2
        DEF Attempt, database, history, LogInv, ExpiredIsGone, NotifiedIsDone, NotifiedIffDelivered,
            LogIsWholeStory
<1>3. ASSUME NEW e \in Events, Commit(e) PROVE LogInv'
    BY <1>3, CommitKeepsLog
<1>4. ASSUME NEW e \in Events, CommitFails(e) \/ AttemptRaises(e) \/ CancelSynthetic(e)
      PROVE LogInv'
    BY <1>4, RollbackKeepsLog DEF CommitFails, AttemptRaises, CancelSynthetic, Finished
<1>5. CASE Crash
    BY <1>5 DEF Crash, Running, database, history, LogInv, ExpiredIsGone, PendingOfRunning,
                NotifiedIsDone, NotifiedIffDelivered, LogIsWholeStory, AttemptsInOrder, TypeOK, Note
<1>6. CASE Operator
    <2>1. UNCHANGED <<stored, expired, notified, notes, session>>
        BY <1>6 DEF Operator, CreateWebhook, UpdateWebhook, DeleteWebhook, history
    <2> QED
        BY <2>1 DEF session, LogInv, ExpiredIsGone, PendingOfRunning, NotifiedIsDone, NotifiedIffDelivered,
                    LogIsWholeStory
<1>7. CASE UNCHANGED vars
    BY <1>7 DEF vars, database, session, history, LogInv, ExpiredIsGone, PendingOfRunning,
                NotifiedIsDone, NotifiedIffDelivered, LogIsWholeStory
<1>8. ASSUME NEW doomed \in SUBSET Events, RetentionPass(doomed) PROVE LogInv'
    BY <1>8, RetentionKeepsLog
<1> QED
    BY <1>1, <1>2, <1>3, <1>4, <1>5, <1>6, <1>7, <1>8 DEF Next, Deliver

LEMMA LogInvariant == Spec => []LogInv
<1>1. Init => LogInv
    BY DEF Init, LogInv, ExpiredIsGone, PendingOfRunning, NotifiedIsDone, NotifiedIffDelivered, LogIsWholeStory,
           AttemptsInOrder, Delivered
<1> QED
    BY <1>1, TypeCorrect, LogStep, PTL DEF Spec

(* A failure is marked notified exactly when the log shows a delivery.      *)
THEOREM NotifiedMatchesLog == Spec => []NotifiedIffDelivered
<1>1. LogInv => NotifiedIffDelivered
    BY DEF LogInv
<1> QED
    BY <1>1, LogInvariant, PTL

(* The log of an event is empty or complete, its attempts counted from 1.   *)
THEOREM LogComplete == Spec => []LogIsWholeStory
<1>1. LogInv => LogIsWholeStory
    BY DEF LogInv
<1> QED
    BY <1>1, LogInvariant, PTL

(***************************************************************************)
(* The failure counter.                                                    *)
(***************************************************************************)

(* The counter a dispatch will write comes from its own stale read, so the  *)
(* bound has to hold of every loaded value too.  The bound is not the log,  *)
(* which retention shortens, but what the dispatches found.                 *)
VerdictsOfDone == \A v \in verdicts : pc[v.event] = "done"

CounterInv ==
    /\ VerdictsOfDone
    /\ CounterJustified
    /\ \A e \in Events, h \in Hooks : seen[e][h] <= Cardinality(LostTo(h))

(* What a commit adds to the verdicts on one hook.                          *)
LEMMA CommitRecords ==
    ASSUME TypeOK, LogInv, VerdictsOfDone, NEW e \in Events, Commit(e), NEW h \in Hooks
    PROVE  /\ e \notin DeliveredTo(h) \cup LostTo(h)
           /\ DeliveredTo(h)' = IF h \in Won(e) THEN DeliveredTo(h) \cup {e} ELSE DeliveredTo(h)
           /\ LostTo(h)' = IF h \in LostOn(e) THEN LostTo(h) \cup {e} ELSE LostTo(h)
           /\ h \in LostOn(e) => e \notin expired /\ GaveUp(e, h, notes')
<1> DEFINE verdict(d, b) == [event |-> d, hook |-> h, won |-> b]
<1>1. pc[e] = "run" /\ notes' = notes \cup {n \in pending : n.event = e}
    BY DEF Commit, Finished
<1>2. e \notin DeliveredTo(h) \cup LostTo(h)
    BY <1>1 DEF VerdictsOfDone, DeliveredTo, LostTo
<1>3. \A d \in Events, b \in BOOLEAN : verdict(d, b) \in Verdict
    BY DEF Verdict
<1>4. \A d \in Events, b \in BOOLEAN : verdict(d, b) \in verdicts' <=>
          verdict(d, b) \in verdicts \/ (d = e /\ h \in (IF b THEN Won(e) ELSE LostOn(e)))
    BY <1>3 DEF Commit
<1>5. DeliveredTo(h)' = IF h \in Won(e) THEN DeliveredTo(h) \cup {e} ELSE DeliveredTo(h)
    BY <1>4 DEF DeliveredTo
<1>6. LostTo(h)' = IF h \in LostOn(e) THEN LostTo(h) \cup {e} ELSE LostTo(h)
    BY <1>4 DEF LostTo
<1>7. ASSUME h \in LostOn(e) PROVE e \notin expired /\ GaveUp(e, h, notes')
    <2>1. h \in selected[e] /\ GaveUp(e, h, pending)
        BY <1>7 DEF LostOn, Won, Commit, Finished, Judged, TypeOK
    <2>2. e \notin expired
        BY <2>1 DEF Commit, KeysHold, LogInv, ExpiredIsGone
    <2> QED BY <1>1, <2>1, <2>2 DEF GaveUp
<1> QED
    BY <1>2, <1>5, <1>6, <1>7

LEMMA LostIsFinite ==
    ASSUME NEW h \in Hooks PROVE IsFiniteSet(LostTo(h)) /\ Cardinality(LostTo(h)) \in Nat
    BY FS_Subset, FS_CardinalityType DEF LostTo

(* A dispatch that gives up on a hook adds one to those it has lost.        *)
LEMMA LostGrows ==
    ASSUME TypeOK, LogInv, VerdictsOfDone, NEW e \in Events, Commit(e), NEW h \in Hooks
    PROVE  /\ Cardinality(LostTo(h)) \in Nat /\ Cardinality(LostTo(h)') \in Nat
           /\ Cardinality(LostTo(h)) <= Cardinality(LostTo(h)')
           /\ h \in LostOn(e) => Cardinality(LostTo(h)') = Cardinality(LostTo(h)) + 1
<1>1. IsFiniteSet(LostTo(h)) /\ Cardinality(LostTo(h)) \in Nat
    BY LostIsFinite
<1>2. CASE h \in LostOn(e)
    <2>1. LostTo(h)' = LostTo(h) \cup {e} /\ e \notin LostTo(h)
        BY <1>2, CommitRecords
    <2>2. Cardinality(LostTo(h) \cup {e}) = Cardinality(LostTo(h)) + 1
        BY <1>1, <2>1, FS_AddElement
    <2> QED BY <1>1, <2>1, <2>2
<1>3. CASE h \notin LostOn(e)
    BY <1>1, <1>3, CommitRecords
<1> QED
    BY <1>2, <1>3

LEMMA CounterStep == TypeOK /\ LogInv /\ CounterInv /\ [Next]_vars => CounterInv'
<1> SUFFICES ASSUME TypeOK, LogInv, CounterInv, [Next]_vars PROVE CounterInv'
    OBVIOUS
<1>1. ASSUME NEW e \in Events, Commit(e) PROVE CounterInv'
    <2>1. ASSUME NEW h \in Hooks PROVE fails'[h] <= Cardinality(LostTo(h)')
        <3>1. fails'[h] = CounterWritten(e, h)
            BY <1>1 DEF Commit
        <3>2. seen[e][h] \in Nat /\ fails[h] \in Nat
            BY DEF TypeOK
        <3>3. seen[e][h] <= Cardinality(LostTo(h)) /\ fails[h] <= Cardinality(LostTo(h))
            BY DEF CounterInv, CounterJustified
        <3>4. CASE h \in LostOn(e)
            BY <1>1, <3>1, <3>2, <3>3, <3>4, LostGrows DEF CounterWritten, CounterInv
        <3>5. CASE h \notin LostOn(e)
            BY <1>1, <3>1, <3>2, <3>3, <3>5, LostGrows DEF CounterWritten, CounterInv
        <3> QED
            BY <3>4, <3>5
    <2>2. ASSUME NEW d \in Events, NEW h \in Hooks PROVE seen'[d][h] <= Cardinality(LostTo(h)')
        <3>1. seen'[d][h] \in {0, seen[d][h]}
            BY <1>1 DEF Commit, EndSession, NeverFailed, TypeOK
        <3>2. seen[d][h] \in Nat /\ seen[d][h] <= Cardinality(LostTo(h))
            BY DEF CounterInv, TypeOK
        <3> QED
            BY <1>1, <3>1, <3>2, LostGrows DEF CounterInv
    <2>3. ASSUME NEW h \in Hooks, NEW d \in LostTo(h)' \ expired' PROVE GaveUp(d, h, notes')
        <3>1. expired' = expired /\ notes \subseteq notes'
            BY <1>1 DEF Commit
        <3>2. CASE d \in LostTo(h)
            BY <2>3, <3>1, <3>2 DEF CounterInv, CounterJustified, GaveUp
        <3>3. CASE d \notin LostTo(h)
            BY <1>1, <2>3, <3>3, CommitRecords DEF CounterInv
        <3> QED
            BY <3>2, <3>3
    <2>4. VerdictsOfDone'
        BY <1>1 DEF Commit, EndSession, CounterInv, VerdictsOfDone, TypeOK, Verdict
    <2> QED
        BY <2>1, <2>2, <2>3, <2>4 DEF CounterInv, CounterJustified
<1>2. ASSUME UNCHANGED <<verdicts, expired, notes>>,
             \A h \in Hooks : fails'[h] \in {0, fails[h]},
             \A e \in Events : pc[e] = "done" => pc'[e] = "done",
             \A e \in Events, h \in Hooks : seen'[e][h] \in {0, seen[e][h], fails[h]}
      PROVE CounterInv'
    <2>1. \A h \in Hooks : LostTo(h)' = LostTo(h)
        BY <1>2 DEF LostTo
    <2>2. VerdictsOfDone'
        BY <1>2 DEF CounterInv, VerdictsOfDone, TypeOK, Verdict
    <2>3. \A h \in Hooks : fails'[h] <= Cardinality(LostTo(h)')
        BY <1>2, <2>1, LostIsFinite DEF CounterInv, CounterJustified
    <2>4. \A e \in Events, h \in Hooks : seen'[e][h] <= Cardinality(LostTo(h)')
        BY <1>2, <2>1, LostIsFinite DEF CounterInv, CounterJustified
    <2> QED
        BY <1>2, <2>1, <2>2, <2>3, <2>4 DEF CounterInv, CounterJustified
<1>3. ASSUME NEW e \in Events, StartDispatch(e) PROVE CounterInv'
    <2>1. /\ UNCHANGED <<verdicts, expired, notes, fails>> /\ seen' = [seen EXCEPT ![e] = fails]
          /\ \A d \in Events : pc[d] = "done" => pc'[d] = "done"
        BY <1>3 DEF StartDispatch, TypeOK
    <2> QED
        BY <1>2, <2>1 DEF TypeOK
<1>4. ASSUME NEW e \in Events,
             Deliver(e) \/ CommitFails(e) \/ AttemptRaises(e) \/ CancelSynthetic(e)
      PROVE CounterInv'
    <2>1. /\ UNCHANGED <<database, history>>
          /\ seen' = seen \/ seen' = [seen EXCEPT ![e] = NeverFailed]
          /\ \A d \in Events : pc[d] = "done" => pc'[d] = "done"
        BY <1>4 DEF Deliver, Attempt, CommitFails, AttemptRaises, CancelSynthetic, EndSession,
                    Finished, TypeOK
    <2> QED
        BY <1>2, <2>1 DEF database, history, NeverFailed, TypeOK
<1>5. CASE Crash
    BY <1>2, <1>5 DEF Crash, Running, database, history, NeverFailed
<1>6. CASE Operator
    <2>1. UNCHANGED <<verdicts, expired, notes, session>> /\ \A h \in Hooks : fails'[h] \in {0, fails[h]}
        BY <1>6 DEF Operator, CreateWebhook, UpdateWebhook, DeleteWebhook, history, TypeOK
    <2> QED
        BY <1>2, <2>1 DEF session
<1>7. CASE UNCHANGED vars
    BY <1>2, <1>7 DEF vars, database, session, history
<1>8. ASSUME NEW doomed \in SUBSET Events, RetentionPass(doomed) PROVE CounterInv'
    <2>1. /\ UNCHANGED <<verdicts, fails, seen, pc>> /\ expired' = expired \cup doomed
          /\ notes' = {n \in notes : n.event \notin doomed}
        BY <1>8 DEF RetentionPass, NotesOf, session
    <2>2. \A h \in Hooks : LostTo(h)' = LostTo(h)
        BY <2>1 DEF LostTo
    <2>3. VerdictsOfDone' /\ \A e \in Events, h \in Hooks : seen'[e][h] <= Cardinality(LostTo(h)')
        BY <2>1, <2>2 DEF CounterInv, VerdictsOfDone
    <2>4. \A h \in Hooks, e \in Events : GaveUp(e, h, notes) /\ e \notin expired' => GaveUp(e, h, notes')
        BY <2>1 DEF GaveUp
    <2>5. CounterJustified'
        BY <2>1, <2>2, <2>4 DEF CounterInv, CounterJustified, LostTo
    <2> QED
        BY <2>3, <2>5 DEF CounterInv
<1> QED
    BY <1>1, <1>3, <1>4, <1>5, <1>6, <1>7, <1>8 DEF Next

LEMMA CounterInvariant == Spec => []CounterInv
<1>1. Init => CounterInv
    <2> SUFFICES ASSUME Init PROVE CounterInv
        OBVIOUS
    <2>1. \A h \in Hooks : LostTo(h) = {}
        BY DEF Init, LostTo
    <2>5. \A h \in Hooks : 0 <= Cardinality(LostTo(h))
        BY LostIsFinite
    <2>2. \A h \in Hooks : fails[h] = 0 /\ \A e \in Events : seen[e][h] = 0
        BY DEF Init, NeverFailed
    <2>3. CounterJustified
        BY <2>1, <2>2, <2>5 DEF CounterJustified
    <2>4. VerdictsOfDone
        BY DEF Init, VerdictsOfDone
    <2> QED
        BY <2>2, <2>3, <2>4, <2>5 DEF CounterInv
<1> QED
    BY <1>1, TypeCorrect, LogInvariant, CounterStep, PTL DEF Spec

(* However dispatches overlap, consecutive_failures is backed by that many  *)
(* dispatches that gave up on the hook, each of which the log shows until   *)
(* retention takes its failure: a hook is never switched off before         *)
(* AUTO_DISABLE_THRESHOLD real failures.                                    *)
THEOREM CounterIsJustified == Spec => []CounterJustified
<1>1. CounterInv => CounterJustified
    BY DEF CounterInv
<1> QED
    BY <1>1, CounterInvariant, PTL

(***************************************************************************)
(* Persistence and the enabled flag.                                       *)
(***************************************************************************)

(* An exit-code failure that anyone was told of survives crash, rollback    *)
(* and deletion of hooks; only retention takes it away.                     *)
THEOREM FailureIsPersisted == Spec => []PersistedBeforeNotified
<1>1. Init => PersistedBeforeNotified
    BY DEF Init, PersistedBeforeNotified
<1>2. TypeOK /\ PersistedBeforeNotified /\ [Next]_vars => PersistedBeforeNotified'
    <2> SUFFICES ASSUME TypeOK, PersistedBeforeNotified, [Next]_vars
                 PROVE  PersistedBeforeNotified'
        OBVIOUS
    <2>1. ASSUME NEW e \in Events, StartDispatch(e) PROVE PersistedBeforeNotified'
        BY <2>1 DEF StartDispatch, PersistedAtStart, PersistedBeforeNotified, TypeOK
    <2>2. ASSUME NEW e \in Events,
                 \/ Deliver(e) \/ Commit(e) \/ CommitFails(e)
                 \/ AttemptRaises(e) \/ CancelSynthetic(e)
          PROVE PersistedBeforeNotified'
        <3>1. /\ stored \subseteq stored' /\ expired' = expired
              /\ \A d \in Events : d # e => pc'[d] = pc[d]
            BY <2>2 DEF Deliver, Attempt, Commit, CommitFails, AttemptRaises, CancelSynthetic,
                        EndSession, database, history, TypeOK
        <3>2. pc[e] = "run"
            BY <2>2 DEF Deliver, Attempt, Commit, CommitFails, AttemptRaises, CancelSynthetic, Finished
        <3> QED
            BY <3>1, <3>2 DEF PersistedBeforeNotified, TypeOK
    <2>3. CASE Crash
        BY <2>3 DEF Crash, Running, database, history, PersistedBeforeNotified
    <2>4. CASE Operator \/ UNCHANGED vars
        BY <2>4 DEF Operator, CreateWebhook, UpdateWebhook, DeleteWebhook, vars, database, session,
                    history, PersistedBeforeNotified
    <2>5. ASSUME NEW doomed \in SUBSET Events, RetentionPass(doomed) PROVE PersistedBeforeNotified'
        BY <2>5 DEF RetentionPass, session, PersistedBeforeNotified
    <2> QED
        BY <2>1, <2>2, <2>3, <2>4, <2>5 DEF Next
<1> QED
    BY <1>1, <1>2, TypeCorrect, PTL DEF Spec

(* A dispatch never writes an enabled value back over a newer one.          *)
THEOREM NoDispatchEnables == Spec => OnlyOperatorEnables
<1>1. TypeOK /\ [Next]_vars =>
          [\A h \in Hooks : ~enabled[h] /\ enabled'[h] => UNCHANGED <<session, notes>>]_vars
    <2> SUFFICES ASSUME TypeOK, Next,
                        NEW h \in Hooks, ~enabled[h], enabled'[h]
                 PROVE  UNCHANGED <<session, notes>>
        BY DEF OnlyOperatorEnables
    <2>1. ASSUME NEW e \in Events, Commit(e) PROVE FALSE
        BY <2>1 DEF Commit, EnabledWritten
    <2>2. ASSUME NEW e \in Events,
                 \/ StartDispatch(e) \/ Deliver(e) \/ CommitFails(e)
                 \/ AttemptRaises(e) \/ CancelSynthetic(e)
          PROVE FALSE
        BY <2>2 DEF StartDispatch, Deliver, Attempt, CommitFails, AttemptRaises, CancelSynthetic,
                    database
    <2>3. CASE Crash
        BY <2>3 DEF Crash, database
    <2>4. CASE Operator
        BY <2>4 DEF Operator, CreateWebhook, UpdateWebhook, DeleteWebhook
    <2>5. ASSUME NEW doomed \in SUBSET Events, RetentionPass(doomed) PROVE FALSE
        BY <2>5 DEF RetentionPass
    <2> QED
        BY <2>1, <2>2, <2>3, <2>4, <2>5 DEF Next
<1> QED
    BY <1>1, TypeCorrect, PTL DEF Spec, OnlyOperatorEnables

(***************************************************************************)
(* The dispatcher is a circuit breaker.                                    *)
(***************************************************************************)

(* Nothing but its one dispatch writes the counter of a hook that two       *)
(* dispatches have never served at a time: what that dispatch loaded is     *)
(* still what the row says when it commits, if there still is a row.        *)
Unshared ==
    \A h \in Hooks \ crossed :
        /\ \A d, e \in Running : h \in selected[d] /\ h \in selected[e] => d = e
        /\ \A e \in Running : h \in selected[e] /\ row[h] = "live" => seen[e][h] = fails[h]

Loaded == \A e \in Events : \A h \in selected[e] : row[h] # "absent"

LEMMA LoadedStep == TypeOK /\ Loaded /\ [Next]_vars => Loaded'
<1> SUFFICES ASSUME TypeOK, Loaded, [Next]_vars PROVE Loaded'
    OBVIOUS
<1>1. \A h \in Hooks : row[h] # "absent" => row'[h] # "absent"
    <2>1. CASE Operator
        <3>1. \E g \in Hooks : row' \in {row, [row EXCEPT ![g] = "live"], [row EXCEPT ![g] = "deleted"]}
            BY <2>1 DEF Operator, CreateWebhook, UpdateWebhook, DeleteWebhook
        <3> QED BY <3>1 DEF TypeOK
    <2>2. ASSUME NEW e \in Events,
                 \/ StartDispatch(e) \/ Deliver(e) \/ Commit(e) \/ CommitFails(e)
                 \/ AttemptRaises(e) \/ CancelSynthetic(e)
          PROVE  row' = row
        BY <2>2 DEF StartDispatch, Deliver, Attempt, Commit, CommitFails, AttemptRaises,
                    CancelSynthetic, database
    <2>3. ASSUME Crash \/ UNCHANGED vars \/ \E doomed \in SUBSET Events : RetentionPass(doomed)
          PROVE  row' = row
        BY <2>3 DEF Crash, RetentionPass, vars, database
    <2> QED BY <2>1, <2>2, <2>3 DEF Next
<1>2. ASSUME NEW e \in Events, StartDispatch(e) PROVE Loaded'
    BY <1>1, <1>2 DEF StartDispatch, Selectable, Loaded, TypeOK
<1>3. CASE selected' = selected
    BY <1>1, <1>3 DEF Loaded, TypeOK
<1> QED
    BY <1>2, <1>3 DEF Next, Deliver, Attempt, Commit, CommitFails, AttemptRaises, CancelSynthetic,
                      EndSession, Crash, Operator, CreateWebhook, UpdateWebhook, DeleteWebhook,
                      RetentionPass, vars, session

LEMMA UnsharedStep == TypeOK /\ Loaded /\ Unshared /\ [Next]_vars => Unshared'
<1> SUFFICES ASSUME TypeOK, Loaded, Unshared, [Next]_vars, NEW h \in Hooks \ crossed'
             PROVE  /\ \A d, e \in Running' : h \in selected'[d] /\ h \in selected'[e] => d = e
                    /\ \A e \in Running' : h \in selected'[e] /\ row'[h] = "live"
                          => seen'[e][h] = fails'[h]
    BY DEF Unshared
<1> DEFINE Goal == /\ \A d, e \in Running' : h \in selected'[d] /\ h \in selected'[e] => d = e
                   /\ \A e \in Running' : h \in selected'[e] /\ row'[h] = "live"
                         => seen'[e][h] = fails'[h]
<1>0. \A e \in Events : e \in Running' <=> pc'[e] = "run"
    BY DEF Running
<1>1. ASSUME NEW e \in Events, StartDispatch(e) PROVE Goal
    <2>1. /\ pc[e] = "idle" /\ UNCHANGED <<row, fails>>
          /\ \A d \in Events \ {e} : /\ pc'[d] = pc[d] /\ selected'[d] = selected[d]
                                     /\ seen'[d] = seen[d]
          /\ seen'[e] = fails
          /\ crossed' = crossed \cup {g \in selected'[e] : \E d \in Running : g \in selected[d]}
        BY <1>1 DEF StartDispatch, TypeOK
    <2>2. h \notin crossed /\ (h \in selected'[e] => \A d \in Running : h \notin selected[d])
        BY <2>1
    <2>3. \A d \in Running' : d # e => d \in Running
        BY <2>1 DEF Running
    <2> QED BY <2>1, <2>2, <2>3 DEF Unshared, Running
<1>2. ASSUME NEW e \in Events,
             Commit(e) \/ CommitFails(e) \/ AttemptRaises(e) \/ CancelSynthetic(e)
      PROVE Goal
    <2>1. e \in Running /\ \E how \in {"done", "failed", "lost"} : EndSession(e, how)
        BY <1>2 DEF Commit, CommitFails, AttemptRaises, CancelSynthetic, Finished, Running
    <2>2. /\ Running' = Running \ {e} /\ selected' = selected
          /\ \A d \in Running' : seen'[d] = seen[d]
        BY <2>1 DEF EndSession, Running, TypeOK
    <2>3. UNCHANGED <<row, crossed>>
        BY <1>2 DEF Commit, CommitFails, AttemptRaises, CancelSynthetic, database, history
    <2>4. ASSUME NEW d \in Running', h \in selected[d] PROVE fails'[h] = fails[h]
        <3>1. h \notin selected[e]
            BY <2>1, <2>2, <2>3, <2>4 DEF Unshared
        <3> QED
            BY <1>2, <3>1 DEF Commit, CounterWritten, Won, LostOn, CommitFails, AttemptRaises,
                              CancelSynthetic, database
    <2> QED BY <2>2, <2>3, <2>4 DEF Unshared
<1>3. CASE Crash
    BY <1>3 DEF Crash, Running
<1>4. ASSUME Running' = Running, UNCHANGED <<selected, seen, crossed>>,
             row'[h] = "live" => \/ h \in crossed
                                 \/ row[h] = "live" /\ fails'[h] = fails[h]
                                 \/ \A e \in Running : h \notin selected[e]
      PROVE Goal
    BY <1>4 DEF Unshared
<1>5. ASSUME NEW e \in Events, Deliver(e) PROVE Goal
    BY <1>4, <1>5 DEF Deliver, Attempt, database, history, Running
<1>6. CASE UNCHANGED vars
    BY <1>4, <1>6 DEF vars, database, session, history, Running
<1>7. ASSUME NEW doomed \in SUBSET Events, RetentionPass(doomed) PROVE Goal
    BY <1>4, <1>7 DEF RetentionPass, session, Running
<1>8. CASE Operator
    <2>1. PICK g \in Hooks :
             \/ DeleteWebhook(g)
             \/ \E on \in BOOLEAN, filter \in SUBSET Sources :
                   CreateWebhook(g, on, filter) \/ UpdateWebhook(g, on, filter)
        BY <1>8 DEF Operator
    <2>2. Running' = Running /\ UNCHANGED <<selected, seen, crossed>>
        BY <2>1 DEF CreateWebhook, UpdateWebhook, DeleteWebhook, session, history, Running
    <2>3. ASSUME row'[h] = "live"
          PROVE  \/ row[h] = "live" /\ fails'[h] = fails[h]
                 \/ \A e \in Running : h \notin selected[e]
        <3>1. CASE h = g /\ row[g] = "absent"
            BY <3>1 DEF Loaded, Running
        <3>2. CASE h # g \/ row[g] # "absent"
            BY <2>1, <2>3, <3>2 DEF CreateWebhook, UpdateWebhook, DeleteWebhook, TypeOK
        <3> QED BY <3>1, <3>2
    <2> QED BY <1>4, <2>2, <2>3
<1> QED
    BY <1>1, <1>2, <1>3, <1>5, <1>6, <1>7, <1>8 DEF Next

LEMMA UnsharedInvariant == Spec => []Unshared
<1>1. Init => Loaded /\ Unshared
    BY DEF Init, Loaded, Unshared, Running
<1> QED
    BY <1>1, TypeCorrect, LoadedStep, UnsharedStep, PTL DEF Spec

(* The counter a commit writes, as the breaker counts: exact for a hook     *)
(* that is not shared, within the dispatches given up for one that is.      *)
LEMMA CommitCounts ==
    ASSUME TypeOK, LogInv, CounterInv, Unshared, NEW e \in Events, Commit(e), NEW h \in Hooks
    PROVE  /\ fails'[h] = CounterWritten(e, h) /\ fails'[h] \in Nat
           /\ h \in LostOn(e) => fails'[h] = seen[e][h] + 1
           /\ h \in LostOn(e) => fails'[h] \in 1..Cardinality(LostTo(h)')
           /\ h \in LostOn(e) /\ h \notin crossed => fails'[h] = fails[h] + 1
           /\ h \in Won(e) => fails'[h] \in {0, fails[h]}
           /\ h \in Won(e) /\ h \notin crossed => fails'[h] = 0
           /\ h \notin LostOn(e) \cup Won(e) => fails'[h] = fails[h]
<1>1. fails'[h] = CounterWritten(e, h)
    BY DEF Commit
<1>2. seen[e][h] \in Nat /\ fails[h] \in Nat /\ seen[e][h] <= Cardinality(LostTo(h))
    BY DEF TypeOK, CounterInv
<1>3. h \in Won(e) => h \notin LostOn(e)
    BY DEF LostOn
<1>4. h \in LostOn(e) => Cardinality(LostTo(h)') = Cardinality(LostTo(h)) + 1
                         /\ Cardinality(LostTo(h)) \in Nat
    BY LostGrows DEF CounterInv
<1>5. h \in LostOn(e) \cup Won(e) /\ h \notin crossed => seen[e][h] = fails[h]
    BY DEF Commit, Finished, KeysHold, Unshared, Running, Won, LostOn
<1>6. CASE h \in LostOn(e)
    BY <1>1, <1>2, <1>3, <1>4, <1>5, <1>6 DEF CounterWritten
<1>7. CASE h \notin LostOn(e)
    BY <1>1, <1>2, <1>5, <1>7 DEF CounterWritten
<1> QED
    BY <1>6, <1>7, <1>1

(* The breaker's module counts sets as this one does.                       *)
LEMMA BreakerCounts == ASSUME NEW S PROVE Breaker!Cardinality(S) = Cardinality(S)
    BY DEF Breaker!Cardinality, Cardinality

(* Every step records the outcome of one dispatch, is the operator's, puts  *)
(* a hook under two dispatches, or leaves counter and switch alone.         *)
LEMMA BreakerStep ==
    TypeOK /\ LogInv /\ CounterInv /\ Unshared /\ [Next]_vars => [Breaker!Next]_(Breaker!vars)
<1> SUFFICES ASSUME TypeOK, LogInv, CounterInv, Unshared, [Next]_vars
             PROVE  [Breaker!Next]_(Breaker!vars)
    OBVIOUS
<1>0. ASSUME UNCHANGED verdicts
      PROVE  /\ [h \in Hooks |-> DeliveredTo(h)]' = [h \in Hooks |-> DeliveredTo(h)]
             /\ [h \in Hooks |-> LostTo(h)]' = [h \in Hooks |-> LostTo(h)]
    BY <1>0 DEF DeliveredTo, LostTo
<1>1. ASSUME NEW e \in Events, Commit(e) PROVE Breaker!Next
    <2>1. Won(e) \in SUBSET Hooks /\ LostOn(e) \in SUBSET Hooks /\ Won(e) \cap LostOn(e) = {}
        BY DEF Won, LostOn, TypeOK
    <2>2. DOMAIN fails' = Hooks /\ crossed' = crossed
        BY <1>1 DEF Commit
    <2>3. ASSUME NEW h \in Hooks
          PROVE  fails'[h] \in IF h \in LostOn(e)
                               THEN (IF h \in crossed THEN 1..Cardinality(LostTo(h)') ELSE {fails[h] + 1})
                               ELSE IF h \in Won(e) THEN (IF h \in crossed THEN {0, fails[h]} ELSE {0})
                               ELSE {fails[h]}
        BY <1>1, CommitCounts
    <2>4. enabled' = [h \in Hooks |-> enabled[h] /\ ~(h \in LostOn(e) /\ fails'[h] >= Threshold)]
        BY <1>1, CommitCounts DEF Commit, EnabledWritten, SwitchedOff
    <2>5. ASSUME NEW h \in Hooks
          PROVE  /\ e \notin DeliveredTo(h) \cup LostTo(h)
                 /\ DeliveredTo(h)' = IF h \in Won(e) THEN DeliveredTo(h) \cup {e} ELSE DeliveredTo(h)
                 /\ LostTo(h)' = IF h \in LostOn(e) THEN LostTo(h) \cup {e} ELSE LostTo(h)
        BY <1>1, CommitRecords DEF CounterInv
    <2>6. Breaker!Record(e, Won(e), LostOn(e))
        <3> DEFINE deliveredTo == [h \in Hooks |-> DeliveredTo(h)]
                   lostTo      == [h \in Hooks |-> LostTo(h)]
        <3>1. \A h \in Hooks : e \notin deliveredTo[h] \cup lostTo[h]
            BY <2>5
        <3>2. deliveredTo' = [h \in Hooks |-> IF h \in Won(e) THEN deliveredTo[h] \cup {e}
                                              ELSE deliveredTo[h]]
            BY <2>5
        <3>3. /\ lostTo' = [h \in Hooks |-> IF h \in LostOn(e) THEN lostTo[h] \cup {e}
                                           ELSE lostTo[h]]
              /\ \A h \in Hooks : lostTo'[h] = LostTo(h)'
            BY <2>5
        <3>4. \A h \in Hooks : fails'[h] \in IF h \in LostOn(e) THEN Breaker!CountAfterLoss(h)
                                            ELSE IF h \in Won(e) THEN Breaker!CountAfterWin(h)
                                            ELSE {fails[h]}
            BY <2>3, <3>3, BreakerCounts DEF Breaker!CountAfterLoss, Breaker!CountAfterWin
        <3> QED
            BY <2>1, <2>2, <2>4, <3>1, <3>2, <3>3, <3>4 DEF Breaker!Record
    <2> QED
        BY <2>1, <2>6 DEF Breaker!Next
<1>2. ASSUME NEW h \in Hooks, NEW on \in BOOLEAN, NEW filter \in SUBSET Sources,
             CreateWebhook(h, on, filter) \/ UpdateWebhook(h, on, filter)
      PROVE Breaker!Next
    <2>1. enabled' = [enabled EXCEPT ![h] = on] /\ UNCHANGED <<fails, verdicts, crossed>>
        BY <1>2 DEF CreateWebhook, UpdateWebhook, history
    <2> QED
        BY <1>0, <2>1 DEF Breaker!Next, Breaker!Switch
<1>3. ASSUME NEW h \in Hooks, DeleteWebhook(h) PROVE Breaker!Next
    <2>1. /\ enabled' = [enabled EXCEPT ![h] = FALSE] /\ fails' = [fails EXCEPT ![h] = 0]
          /\ UNCHANGED <<verdicts, crossed>>
        BY <1>3 DEF DeleteWebhook
    <2> QED
        BY <1>0, <2>1 DEF Breaker!Next, Breaker!Switch
<1>4. ASSUME NEW e \in Events, StartDispatch(e) PROVE Breaker!Next
    <2> DEFINE shared == {h \in selected'[e] : \E d \in Running : h \in selected[d]}
    <2>1. UNCHANGED <<fails, enabled, verdicts>> /\ crossed' = crossed \cup shared
        BY <1>4 DEF StartDispatch
    <2>2. shared \in SUBSET Hooks
        BY <1>4 DEF StartDispatch, TypeOK
    <2> QED
        BY <1>0, <2>1, <2>2 DEF Breaker!Next, Breaker!Cross
<1>5. CASE UNCHANGED <<fails, enabled, verdicts, crossed>>
    BY <1>0, <1>5 DEF Breaker!vars
<1> QED
    BY <1>1, <1>2, <1>3, <1>4, <1>5
    DEF Next, Operator, Deliver, Attempt, CommitFails, AttemptRaises, CancelSynthetic, Crash,
        RetentionPass, vars, database, history

(* In any overlap of dispatches, and whatever retention deletes, the        *)
(* dispatcher is the breaker that dispatch_webhooks documents; its count is *)
(* exact for a hook until two dispatches serve it at a time.                *)
THEOREM DispatchIsBreaker == Spec => BreakerSpec
<1>1. Init => Breaker!Init
    BY DEF Init, NeverFailed, DeliveredTo, LostTo, Breaker!Init
<1> QED
    BY <1>1, TypeCorrect, LogInvariant, CounterInvariant, UnsharedInvariant, BreakerStep, PTL
    DEF Spec, BreakerSpec, Breaker!Spec

(* What the counter counts.  A hook that was never created has no failures, *)
(* so creating it switched on breaks nothing; a counter that goes on after  *)
(* a re-enable is ahead of the run of failures, never behind it.            *)
NewHookIsClean  == \A h \in Hooks : row[h] = "absent" => streak[h] = 0
CountCoversRun  == \A h \in Hooks \ crossed : streak[h] <= fails[h]

StreakInv == NewHookIsClean /\ CountCoversRun /\ CounterIsStreak /\ TripsAtThreshold

LEMMA CommitKeepsStreak ==
    ASSUME TypeOK, LogInv, CounterInv, Unshared, StreakInv, NEW e \in Events, Commit(e)
    PROVE  StreakInv'
<1>1. /\ UNCHANGED <<row, crossed>> /\ reopened' = reopened \ Won(e)
      /\ \A h \in Won(e) \cup LostOn(e) : row[h] = "live"
      /\ \A h \in Hooks : enabled'[h] = EnabledWritten(e, h)
      /\ \A h \in Won(e) : h \notin LostOn(e)
    BY DEF Commit, KeysHold, Won, LostOn
<1>2. \A h \in Hooks : streak'[h] = IF h \in LostOn(e) THEN streak[h] + 1
                                    ELSE IF h \in Won(e) THEN 0 ELSE streak[h]
    BY DEF Commit
<1>3. NewHookIsClean'
    BY <1>1, <1>2 DEF StreakInv, NewHookIsClean
<1>4. ASSUME NEW h \in Hooks \ crossed
      PROVE  /\ streak'[h] <= fails'[h] /\ (h \notin reopened' => fails'[h] = streak'[h])
             /\ streak'[h] >= Threshold => ~enabled'[h]
    <2>1. /\ streak[h] \in Nat /\ fails[h] \in Nat /\ streak[h] <= fails[h]
          /\ h \notin reopened => fails[h] = streak[h]
          /\ streak[h] >= Threshold => ~enabled[h]
        BY DEF StreakInv, CountCoversRun, CounterIsStreak, TripsAtThreshold, TypeOK
    <2>2. CASE h \in LostOn(e)
        <3>1. fails'[h] = fails[h] + 1 /\ fails'[h] = seen[e][h] + 1 /\ streak'[h] = streak[h] + 1
            BY <1>2, <2>2, CommitCounts
        <3>2. fails'[h] >= Threshold => ~enabled'[h]
            BY <1>1, <2>2, <3>1 DEF EnabledWritten, SwitchedOff
        <3> QED BY <1>1, <2>1, <2>2, <3>1, <3>2
    <2>3. CASE h \in Won(e)
        BY <1>1, <1>2, <2>3, CommitCounts
    <2>4. CASE h \notin LostOn(e) \cup Won(e)
        <3>1. fails'[h] = fails[h] /\ streak'[h] = streak[h] /\ (~enabled[h] => ~enabled'[h])
            BY <1>1, <1>2, <2>4, CommitCounts DEF EnabledWritten
        <3> QED BY <1>1, <2>1, <2>4, <3>1
    <2> QED BY <2>2, <2>3, <2>4
<1> QED
    BY <1>1, <1>3, <1>4 DEF StreakInv, CountCoversRun, CounterIsStreak, TripsAtThreshold

LEMMA StreakStep ==
    TypeOK /\ LogInv /\ CounterInv /\ Unshared /\ StreakInv /\ [Next]_vars => StreakInv'
<1> SUFFICES ASSUME TypeOK, LogInv, CounterInv, Unshared, StreakInv, [Next]_vars PROVE StreakInv'
    OBVIOUS
<1> USE DEF StreakInv, NewHookIsClean, CountCoversRun, CounterIsStreak, TripsAtThreshold
<1>1. ASSUME NEW e \in Events, Commit(e) PROVE StreakInv'
    BY <1>1, CommitKeepsStreak
<1>2. ASSUME NEW h \in Hooks, NEW on \in BOOLEAN, NEW filter \in SUBSET Sources,
             CreateWebhook(h, on, filter)
      PROVE  StreakInv'
    BY <1>2 DEF CreateWebhook, history, TypeOK
<1>3. ASSUME NEW h \in Hooks, NEW on \in BOOLEAN, NEW filter \in SUBSET Sources,
             UpdateWebhook(h, on, filter)
      PROVE  StreakInv'
    <2>1. /\ UNCHANGED <<row, fails, crossed>> /\ row[h] = "live"
          /\ \A g \in Hooks \ {h} : enabled'[g] = enabled[g] /\ streak'[g] = streak[g]
          /\ enabled'[h] = on
          /\ \A g \in Hooks : g # h => (g \in reopened' <=> g \in reopened)
        BY <1>3 DEF UpdateWebhook, TypeOK
    <2>2. CASE Reopens(h, on)
        <3>1. streak'[h] = 0 /\ h \in reopened'
            BY <1>3, <2>2 DEF UpdateWebhook, TypeOK
        <3>2. \A g \in Hooks : streak[g] \in Nat /\ fails[g] \in Nat
            BY DEF TypeOK
        <3> QED BY <2>1, <3>1, <3>2
    <2>3. CASE ~Reopens(h, on)
        <3>1. UNCHANGED <<streak, reopened>>
            BY <1>3, <2>3 DEF UpdateWebhook
        <3>2. h \notin crossed /\ streak[h] >= Threshold => ~on
            <4>1. streak[h] \in Nat /\ fails[h] \in Nat
                BY DEF TypeOK
            <4> QED BY <2>3, <4>1 DEF Reopens
        <3> QED BY <2>1, <3>1, <3>2
    <2> QED BY <2>2, <2>3
<1>4. ASSUME NEW h \in Hooks, DeleteWebhook(h) PROVE StreakInv'
    BY <1>4 DEF DeleteWebhook, TypeOK
<1>5. ASSUME NEW e \in Events, StartDispatch(e) PROVE StreakInv'
    BY <1>5 DEF StartDispatch
<1>6. CASE UNCHANGED <<row, enabled, fails, streak, crossed, reopened>>
    BY <1>6
<1> QED
    BY <1>1, <1>2, <1>3, <1>4, <1>5, <1>6
    DEF Next, Operator, Deliver, Attempt, CommitFails, AttemptRaises, CancelSynthetic, Crash,
        RetentionPass, vars, database, history

LEMMA StreakInvariant == Spec => []StreakInv
<1>1. Init => StreakInv
    BY DEF Init, NeverFailed, StreakInv, NewHookIsClean, CountCoversRun, CounterIsStreak,
           TripsAtThreshold
<1> QED
    BY <1>1, TypeCorrect, LogInvariant, CounterInvariant, UnsharedInvariant, StreakStep, PTL DEF Spec

(* consecutive_failures is the current run of failures of a hook that was   *)
(* neither shared by two dispatches nor switched on again by the operator.  *)
THEOREM CounterCountsStreak == Spec => []CounterIsStreak
<1>1. StreakInv => CounterIsStreak
    BY DEF StreakInv
<1> QED
    BY <1>1, StreakInvariant, PTL

(* A hook that no two dispatches have served at a time and that failed      *)
(* AUTO_DISABLE_THRESHOLD times in a row, counted anew when the operator    *)
(* switched it on again, is switched off.                                   *)
THEOREM ThresholdDisables == Spec => []TripsAtThreshold
<1>1. StreakInv => TripsAtThreshold
    BY DEF StreakInv
<1> QED
    BY <1>1, StreakInvariant, PTL
=============================================================================
