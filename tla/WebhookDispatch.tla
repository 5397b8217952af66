-------------------------- MODULE WebhookDispatch --------------------------
(***************************************************************************)
(* Delivery of failure notifications (app/services/webhook_dispatcher.py)  *)
(* beside the operator's endpoints for the hooks (app/api/endpoints/       *)
(* webhooks.py) and the retention pass (app/services/retention.py), which  *)
(* takes failures and their delivery log away again.                       *)
(*                                                                         *)
(* The server is one asyncio loop whose database calls are synchronous, so *)
(* a handler runs without interruption from one await to the next.  A      *)
(* dispatch awaits every HTTP post, every back-off sleep and the closing   *)
(* of the HTTP client; between two of them other requests, other           *)
(* dispatches and a crash may come.  It works on the hook rows its session *)
(* loaded at the start and writes everything in one commit at the end.     *)
(***************************************************************************)
EXTENDS Integers, FiniteSets

CONSTANTS Hooks,        \* identities a webhook row may ever get (UUIDs, never reused)
          Events,       \* the failure events, each dispatched at most once
          Synthetic,    \* the events raised by the synthetic check
          Sources,      \* names of sync sources
          SourceOf,     \* the source an event is about
          MaxAttempts,  \* MAX_ATTEMPTS
          Threshold,    \* AUTO_DISABLE_THRESHOLD
          Overlap       \* how many dispatches may run at the same time

ASSUME DispatchAssumption ==
    /\ IsFiniteSet(Events)
    /\ Synthetic \subseteq Events
    /\ SourceOf \in [Events -> Sources]
    /\ MaxAttempts \in Nat \ {0}
    /\ Threshold \in Nat \ {0}
    /\ Overlap \in Nat \ {0}

VARIABLES
    (* the database *)
    row,        \* row[h]: is there a webhook_endpoints row for h; without one
                \* its columns have their initial values
    enabled,    \* its column enabled
    fails,      \* its column consecutive_failures
    accepts,    \* its column source_filters; NULL is the set of all Sources
    stored,     \* events with a committed failure_events row
    notified,   \* those of them whose column notified is TRUE
    notes,      \* committed notification_logs rows
    (* the dispatches, one per event *)
    pc,         \* where the dispatch of an event stands
    selected,   \* hooks it loaded at the start and has to deliver to
    seen,       \* consecutive_failures of each hook as loaded at the start
    pending,    \* notification_logs rows added to the sessions, uncommitted
    (* history: never read by an action *)
    expired,    \* failures that a retention pass has deleted
    verdicts,   \* what committed dispatches found of their hooks; nothing deletes it
    streak,     \* of h: the verdicts "lost" since one was "won", or since the
                \* operator switched h on again after it had been switched off
    crossed,    \* hooks that two dispatches at a time have had to serve
    reopened    \* hooks the operator switched on again, and no verdict "won" since

database == <<row, enabled, fails, accepts, stored, notified, notes>>
session  == <<pc, selected, seen, pending>>
history  == <<expired, verdicts, streak, crossed, reopened>>
vars     == <<database, session, history>>

Note    == [event: Events, hook: Hooks, attempt: 1..MaxAttempts, ok: BOOLEAN]
Verdict == [event: Events, hook: Hooks, won: BOOLEAN]

TypeOK ==
    /\ row \in [Hooks -> {"absent", "live", "deleted"}]
    /\ enabled \in [Hooks -> BOOLEAN]
    /\ fails \in [Hooks -> Nat]
    /\ accepts \in [Hooks -> SUBSET Sources]
    /\ stored \in SUBSET Events
    /\ notified \in SUBSET stored
    /\ notes \in SUBSET Note
    /\ pc \in [Events -> {"idle", "run", "done", "failed", "lost"}]
    /\ selected \in [Events -> SUBSET Hooks]
    /\ seen \in [Events -> [Hooks -> Nat]]
    /\ pending \in SUBSET Note
    /\ expired \in SUBSET Events
    /\ verdicts \in SUBSET Verdict
    /\ streak \in [Hooks -> Nat]
    /\ crossed \in SUBSET Hooks /\ reopened \in SUBSET Hooks

NeverFailed == [h \in Hooks |-> 0]

Init ==
    /\ row = [h \in Hooks |-> "absent"]
    /\ enabled = [h \in Hooks |-> FALSE]
    /\ fails = NeverFailed
    /\ accepts = [h \in Hooks |-> {}]
    /\ stored = {} /\ notified = {} /\ notes = {}
    /\ pc = [e \in Events |-> "idle"]
    /\ selected = [e \in Events |-> {}]
    /\ seen = [e \in Events |-> NeverFailed]
    /\ pending = {}
    /\ expired = {} /\ verdicts = {}
    /\ streak = NeverFailed
    /\ crossed = {} /\ reopened = {}

-----------------------------------------------------------------------------
(* What a set of notification_logs rows says about event e and hook h.      *)

Running == {e \in Events : pc[e] = "run"}

Tried(e, h, logs)     == \E n \in logs : n.event = e /\ n.hook = h
Delivered(e, h, logs) == \E n \in logs : n.event = e /\ n.hook = h /\ n.ok
GaveUp(e, h, logs)    == [event |-> e, hook |-> h, attempt |-> MaxAttempts, ok |-> FALSE] \in logs
Judged(e, h, logs)    == Delivered(e, h, logs) \/ GaveUp(e, h, logs)

Selectable(h) == row[h] = "live" /\ enabled[h]

-----------------------------------------------------------------------------
(* The dispatch.                                                            *)

(* A failing sync log is ingested: its FailureEvent is committed, then      *)
(* dispatch_webhooks selects the enabled hooks.  The synthetic check only   *)
(* flushes its event before the dispatch.  With no hook enabled the         *)
(* dispatch returns at once, and the check's own commit keeps the event.    *)
(* Nothing is awaited in between.                                           *)
PersistedLate(e, loaded) == IF loaded # {} THEN stored ELSE stored \cup {e}

PersistedAtStart(e, loaded) ==
    IF e \in Synthetic /\ loaded # {} THEN stored ELSE stored \cup {e}

StartDispatch(e) ==
    /\ pc[e] = "idle"
    /\ Cardinality(Running) < Overlap
    /\ LET loaded == {h \in Hooks : Selectable(h)} IN
         /\ pc' = [pc EXCEPT ![e] = IF loaded = {} THEN "done" ELSE "run"]
         /\ stored' = PersistedAtStart(e, loaded)
         /\ selected' = [selected EXCEPT ![e] = {h \in loaded : SourceOf[e] \in accepts[h]}]
         /\ seen' = [seen EXCEPT ![e] = fails]
    /\ crossed' = crossed \cup {h \in selected'[e] : \E d \in Running : h \in selected[d]}
    /\ UNCHANGED <<row, enabled, fails, accepts, notified, notes, pending,
                   expired, verdicts, streak, reopened>>

(* One pass of the retry loop for one hook: the post, with its single       *)
(* immediate repetition after a 429, its pending log row, and the back-off  *)
(* sleep.  The hooks are served one after the other.                        *)
Attempt(e, h, n, ok) ==
    /\ pc[e] = "run"
    /\ h \in selected[e]
    /\ ~Judged(e, h, pending)
    /\ \A g \in selected[e] \ {h} : Tried(e, g, pending) => Judged(e, g, pending)
    /\ IF Tried(e, h, pending)
       THEN /\ [event |-> e, hook |-> h, attempt |-> n - 1, ok |-> FALSE] \in pending
            /\ [event |-> e, hook |-> h, attempt |-> n, ok |-> FALSE] \notin pending
       ELSE n = 1
    /\ pending' = pending \cup {[event |-> e, hook |-> h, attempt |-> n, ok |-> ok]}
    /\ UNCHANGED <<database, pc, selected, seen, history>>

Deliver(e) == \E h \in Hooks, n \in 1..MaxAttempts, ok \in BOOLEAN : Attempt(e, h, n, ok)

FinishedAtFirstSuccess(e) == pc[e] = "run" /\ \E h \in selected[e] : Judged(e, h, pending)
FinishedWhenDelivered(e)  == pc[e] = "run" /\ \A h \in selected[e] : Delivered(e, h, pending)

(* Every selected hook is judged, the HTTP client is closed: commit.        *)
Finished(e) == pc[e] = "run" /\ \A h \in selected[e] : Judged(e, h, pending)

WonWhenTried(e) == {h \in selected[e] : Tried(e, h, pending)}

Won(e)    == {h \in selected[e] : Delivered(e, h, pending)}
LostOn(e) == selected[e] \ Won(e)

EndSession(e, how) ==
    /\ pc' = [pc EXCEPT ![e] = how]
    /\ seen' = [seen EXCEPT ![e] = NeverFailed]
    /\ pending' = {n \in pending : n.event # e}
    /\ UNCHANGED selected

(* The counter written is derived from the loaded one; an attribute that    *)
(* keeps its loaded value is not written at all.                            *)
CounterPerAttempt(e, h) ==
    IF h \in LostOn(e) THEN seen[e][h] + MaxAttempts
    ELSE IF h \in Won(e) /\ seen[e][h] # 0 THEN 0
    ELSE fails[h]

CounterNeverReset(e, h) == IF h \in LostOn(e) THEN seen[e][h] + 1 ELSE fails[h]

CounterDecremented(e, h) ==
    IF h \in LostOn(e) THEN seen[e][h] + 1
    ELSE IF h \in Won(e) THEN seen[e][h] - 1
    ELSE fails[h]

CounterWritten(e, h) ==
    IF h \in LostOn(e) THEN seen[e][h] + 1
    ELSE IF h \in Won(e) /\ seen[e][h] # 0 THEN 0
    ELSE fails[h]

SwitchedOffLate(e, h) == h \in LostOn(e) /\ seen[e][h] + 1 > Threshold

SwitchedOff(e, h) == h \in LostOn(e) /\ seen[e][h] + 1 >= Threshold

EnabledWrittenBack(e, h) == h \in Won(e) \/ (enabled[h] /\ ~SwitchedOff(e, h))

EnabledWritten(e, h) == enabled[h] /\ ~SwitchedOff(e, h)

(* The foreign keys of the log rows: a hook of this dispatch, or its event, *)
(* may have been deleted meanwhile.  A synthetic event is in the session.   *)
KeysHold(e) == \A h \in selected[e] : row[h] = "live" /\ (e \in Synthetic \/ e \in stored)

Commit(e) ==
    /\ Finished(e)
    /\ KeysHold(e)
    /\ fails' = [h \in Hooks |-> CounterWritten(e, h)]
    /\ enabled' = [h \in Hooks |-> EnabledWritten(e, h)]
    /\ stored' = IF e \in Synthetic THEN stored \cup {e} ELSE stored
    /\ notified' = IF Won(e) # {} THEN notified \cup {e} ELSE notified
    /\ notes' = notes \cup {n \in pending : n.event = e}
    /\ streak' = [h \in Hooks |-> IF h \in LostOn(e) THEN streak[h] + 1
                                  ELSE IF h \in Won(e) THEN 0 ELSE streak[h]]
    /\ verdicts' = verdicts \cup {v \in Verdict :
                     v.event = e /\ v.hook \in (IF v.won THEN Won(e) ELSE LostOn(e))}
    /\ reopened' = reopened \ Won(e)
    /\ EndSession(e, "done")
    /\ UNCHANGED <<row, accepts, expired, crossed>>

(* A key is broken: the one transaction rolls back as a whole.              *)
CommitFails(e) ==
    /\ Finished(e)
    /\ ~KeysHold(e)
    /\ EndSession(e, "failed")
    /\ UNCHANGED <<database, history>>

(* An attempt raises what _deliver_to_endpoint does not catch (a            *)
(* Retry-After header that is no number, a malformed URL): the exception    *)
(* leaves dispatch_webhooks, the remaining hooks get nothing, and the       *)
(* session is closed with all its rows uncommitted.                         *)
AttemptRaises(e) ==
    /\ pc[e] = "run"
    /\ ~Finished(e)
    /\ EndSession(e, "failed")
    /\ UNCHANGED <<database, history>>

(* New settings or shutdown cancel the synthetic task inside its dispatch:  *)
(* closing its session rolls back, the flushed event included.              *)
CancelSynthetic(e) ==
    /\ e \in Synthetic
    /\ pc[e] = "run"
    /\ EndSession(e, "lost")
    /\ UNCHANGED <<database, history>>

(* The process dies: every dispatch is gone, nothing resumes it.            *)
Crash ==
    /\ Running # {}
    /\ pc' = [e \in Events |-> IF e \in Running THEN "lost" ELSE pc[e]]
    /\ seen' = [e \in Events |-> NeverFailed]
    /\ pending' = {}
    /\ UNCHANGED <<database, selected, history>>

-----------------------------------------------------------------------------
(* The operator's endpoints.                                                *)

CreateWebhook(h, on, filter) ==
    /\ row[h] = "absent"
    /\ row' = [row EXCEPT ![h] = "live"]
    /\ enabled' = [enabled EXCEPT ![h] = on]
    /\ accepts' = [accepts EXCEPT ![h] = filter]
    /\ UNCHANGED <<fails, stored, notified, notes, session, history>>

(* Switching a hook back on leaves consecutive_failures as it was, also     *)
(* after the threshold switched it off.                                     *)
Reopens(h, on) == on /\ ~enabled[h] /\ fails[h] >= Threshold

UpdateWebhook(h, on, filter) ==
    /\ row[h] = "live"
    /\ <<on, filter>> # <<enabled[h], accepts[h]>>
    /\ enabled' = [enabled EXCEPT ![h] = on]
    /\ accepts' = [accepts EXCEPT ![h] = filter]
    /\ reopened' = IF Reopens(h, on) THEN reopened \cup {h} ELSE reopened
    /\ streak' = IF Reopens(h, on) THEN [streak EXCEPT ![h] = 0] ELSE streak
    /\ UNCHANGED <<row, fails, stored, notified, notes, session, expired, verdicts, crossed>>

(* notification_logs refers to the hook without ON DELETE: a hook with a    *)
(* committed log row cannot be deleted, the request fails with no effect.   *)
DeletableRow(h) == \A n \in notes : n.hook # h

DeleteWebhook(h) ==
    /\ row[h] = "live"
    /\ DeletableRow(h)
    /\ row' = [row EXCEPT ![h] = "deleted"]
    /\ enabled' = [enabled EXCEPT ![h] = FALSE]
    /\ fails' = [fails EXCEPT ![h] = 0]
    /\ accepts' = [accepts EXCEPT ![h] = {}]
    /\ streak' = [streak EXCEPT ![h] = 0]
    /\ UNCHANGED <<stored, notified, notes, session, expired, verdicts, crossed, reopened>>

Operator ==
    \E h \in Hooks :
        \/ \E on \in BOOLEAN, filter \in SUBSET Sources :
              CreateWebhook(h, on, filter) \/ UpdateWebhook(h, on, filter)
        \/ DeleteWebhook(h)

(* A retention pass deletes failures whose sync log is old, and what        *)
(* notification_logs has of them; the hooks and their counters stay.  The   *)
(* failure of a synthetic check refers to no log and is kept.  A dispatch   *)
(* sleeps as long as a Retry-After says, so it may still be running.        *)
NotesOf(doomed) == {n \in notes : n.event \in doomed}

RetentionPass(doomed) ==
    /\ doomed # {} /\ doomed \subseteq stored \ Synthetic
    /\ stored' = stored \ doomed
    /\ notified' = notified \ doomed
    /\ notes' = notes \ NotesOf(doomed)
    /\ expired' = expired \cup doomed
    /\ UNCHANGED <<row, enabled, fails, accepts, session, verdicts, streak, crossed, reopened>>

Next ==
    \/ \E e \in Events :
          StartDispatch(e) \/ Deliver(e) \/ Commit(e) \/ CommitFails(e)
          \/ AttemptRaises(e) \/ CancelSynthetic(e)
    \/ Crash
    \/ Operator
    \/ \E doomed \in SUBSET Events : RetentionPass(doomed)

Spec == Init /\ [][Next]_vars

(* The loop keeps running a dispatch whose awaits return: posts time out    *)
(* after REQUEST_TIMEOUT, sleeps end.                                       *)
FairSpec == Spec /\ \A e \in Events : WF_vars(Deliver(e) \/ Commit(e) \/ CommitFails(e))

-----------------------------------------------------------------------------
(* Properties.                                                              *)

(* dispatch_webhooks sets notified exactly when a hook accepted the event:  *)
(* the flag of a committed event and the committed delivery log agree, in   *)
(* every order of dispatches, deletions, cancellations and crashes.         *)
NotifiedIffDelivered ==
    \A e \in Events : e \in notified <=> \E h \in Hooks : Delivered(e, h, notes)

(* The committed log of an event is the whole story of its dispatch: either *)
(* nothing, or for every selected hook a run of failed attempts 1, 2, ...   *)
(* that ends with a success or with attempt MAX_ATTEMPTS, and no row after  *)
(* the end (the single commit at the end of dispatch_webhooks).  Retention  *)
(* takes the story of an event away as a whole.                             *)
AttemptsInOrder(logs) ==
    \A n \in logs, m \in 1..MaxAttempts :
       LET at(ok) == [event |-> n.event, hook |-> n.hook, attempt |-> m, ok |-> ok]
       IN /\ m < n.attempt => at(FALSE) \in logs
          /\ n.ok /\ m >= n.attempt => at(FALSE) \notin logs
          /\ n.ok /\ m # n.attempt => at(TRUE) \notin logs

LogIsWholeStory ==
    /\ \A n \in notes : /\ pc[n.event] = "done" /\ n.event \notin expired
                        /\ n.hook \in selected[n.event]
    /\ \A e \in Events \ expired : pc[e] = "done" => \A h \in selected[e] : Judged(e, h, notes)
    /\ AttemptsInOrder(notes)

(* consecutive_failures never overstates: it is at most the number of       *)
(* dispatches that gave up on that hook, however dispatches overlap,        *)
(* although each writes a value derived from a stale read; and the log      *)
(* shows each of those dispatches giving up until retention takes it.       *)
DeliveredTo(h) == {e \in Events : [event |-> e, hook |-> h, won |-> TRUE] \in verdicts}
LostTo(h)      == {e \in Events : [event |-> e, hook |-> h, won |-> FALSE] \in verdicts}

CounterJustified ==
    \A h \in Hooks : /\ fails[h] <= Cardinality(LostTo(h))
                     /\ \A e \in LostTo(h) \ expired : GaveUp(e, h, notes)

(* Only the operator switches a hook on: no dispatch writes back the        *)
(* enabled value it loaded, even when the operator or another dispatch      *)
(* switched the hook off while it ran.                                      *)
OnlyOperatorEnables ==
    [][\A h \in Hooks : ~enabled[h] /\ enabled'[h] => UNCHANGED <<session, notes>>]_vars

(* create_sync_log commits the failure before it dispatches ("failure must  *)
(* be persisted"): no crash or rollback after the first post takes an       *)
(* exit-code failure away, only retention does.                             *)
PersistedBeforeNotified ==
    \A e \in Events \ Synthetic : pc[e] # "idle" => e \in stored \cup expired

(* The counter of a hook is the length of its current run of failures in    *)
(* the order they were recorded.  Two cases are left out: a hook that two   *)
(* dispatches have served at a time, and one the operator has switched on   *)
(* again, of which the code and its specification say different things      *)
(* (CounterAsSpecified).                                                    *)
CounterIsStreak == \A h \in Hooks \ (crossed \cup reopened) : fails[h] = streak[h]

(* AUTO_DISABLE_THRESHOLD failed dispatches in a row, counted anew when the *)
(* operator switches the hook on again, switch it off, unless two           *)
(* dispatches have served it at a time.                                     *)
TripsAtThreshold == \A h \in Hooks \ crossed : streak[h] >= Threshold => ~enabled[h]

(* "Webhook endpoints are automatically disabled after 10 consecutive       *)
(* failures": however dispatches overlap.                                   *)
DisabledAtThreshold == \A h \in Hooks : streak[h] >= Threshold => ~enabled[h]

(* "Manual re-enable after auto-disable: reset consecutive_failures to 0":  *)
(* the counter is the run of failures since the last success or re-enable.  *)
CounterAsSpecified == \A h \in Hooks \ crossed : fails[h] = streak[h]

(* Every delivery attempt is logged: a dispatch with a hook to serve that   *)
(* was not killed has made an attempt, so it leaves a log row.              *)
AttemptsLogged ==
    \A e \in Events \ expired : pc[e] \in {"done", "failed"} /\ selected[e] # {} =>
        \E h \in selected[e] : Tried(e, h, notes)

(* The dispatcher implements the breaker of HookBreaker: counter and switch *)
(* of every hook are what the outcomes of committed dispatches, in their    *)
(* order, make them, through overlap, rollback, crash and retention.        *)
Breaker == INSTANCE HookBreaker WITH
               delivered <- [h \in Hooks |-> DeliveredTo(h)],
               givenUp   <- [h \in Hooks |-> LostTo(h)],
               count     <- fails,
               on        <- enabled
BreakerSpec == Breaker!Spec

(* Every dispatch ends: retries are bounded and no await blocks for ever,   *)
(* so of no event is there a time from which on its dispatch always runs.   *)
DispatchEnds == \A e \in Events : []<>(pc[e] # "run")
=============================================================================
