---------------------------- MODULE HookBreaker ----------------------------
(***************************************************************************)
(* The dispatcher seen from its hooks: a circuit breaker.  Each dispatch   *)
(* that gives up on a hook counts up by one, each that delivers starts the *)
(* count again, reaching the threshold switches the hook off, and only the *)
(* operator switches it on.  Once two dispatches have served a hook at a   *)
(* time the count is exact no longer, but it is never more than the        *)
(* dispatches given up and never zero after one.  Whether switching a hook *)
(* on starts its count again is left open: specs/webhook-service.md says   *)
(* that it does, the code that it does not.                                *)
(***************************************************************************)
EXTENDS Integers, FiniteSets

CONSTANTS Hooks, Events, Threshold

VARIABLES delivered,  \* dispatches that delivered to a hook
          givenUp,    \* dispatches that gave up on a hook
          count, on,
          crossed     \* hooks that two dispatches have served at a time

vars == <<delivered, givenUp, count, on, crossed>>

Init ==
    /\ delivered = [h \in Hooks |-> {}]
    /\ givenUp = [h \in Hooks |-> {}]
    /\ count = [h \in Hooks |-> 0]
    /\ on = [h \in Hooks |-> FALSE]
    /\ crossed = {}

CountAfterLoss(h) == IF h \in crossed THEN 1..Cardinality(givenUp'[h]) ELSE {count[h] + 1}
CountAfterWin(h)  == IF h \in crossed THEN {0, count[h]} ELSE {0}

(* The dispatch of e delivered to the hooks of won and gave up on those of  *)
(* lost, once.                                                              *)
Record(e, won, lost) ==
    /\ won \cap lost = {}
    /\ \A h \in Hooks : e \notin delivered[h] \cup givenUp[h]
    /\ delivered' = [h \in Hooks |-> IF h \in won THEN delivered[h] \cup {e} ELSE delivered[h]]
    /\ givenUp' = [h \in Hooks |-> IF h \in lost THEN givenUp[h] \cup {e} ELSE givenUp[h]]
    /\ DOMAIN count' = Hooks
    /\ \A h \in Hooks : count'[h] \in IF h \in lost THEN CountAfterLoss(h)
                                     ELSE IF h \in won THEN CountAfterWin(h) ELSE {count[h]}
    /\ on' = [h \in Hooks |-> on[h] /\ ~(h \in lost /\ count'[h] >= Threshold)]
    /\ UNCHANGED crossed

Switch(h, value) ==
    /\ on' = [on EXCEPT ![h] = value]
    /\ count' \in {count, [count EXCEPT ![h] = 0]}
    /\ UNCHANGED <<delivered, givenUp, crossed>>

Cross(hooks) ==
    /\ crossed' = crossed \cup hooks
    /\ UNCHANGED <<delivered, givenUp, count, on>>

Next ==
    \/ \E e \in Events, won, lost \in SUBSET Hooks : Record(e, won, lost)
    \/ \E h \in Hooks, value \in BOOLEAN : Switch(h, value)
    \/ \E hooks \in SUBSET Hooks : Cross(hooks)

Spec == Init /\ [][Next]_vars
=============================================================================
