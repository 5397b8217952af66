----------------------------- MODULE UpdateCheck -----------------------------
(***************************************************************************)
(* The check for a newer release.  The answer is kept in the memory of the *)
(* process; any request that finds it too old asks again, also while       *)
(* another one is asking.  What a release says is left out: it is there or *)
(* it is not.                                                              *)
(***************************************************************************)
EXTENDS FetchSlots

CONSTANT CheckTTL    \* update_check_ttl_seconds

ASSUME CheckAssumption == CheckTTL \in Nat

VARIABLES
    release,     \* _cache["release"] is there
    checkedAt,   \* _cache["checked_at"], or NULL
    checked      \* history: start of the youngest check that has ended, or NULL

update == <<release, checkedAt, checked>>

Outdated == checkedAt = NULL \/ clock - checkedAt > CheckTTL

BeginCheck(s) ==
    /\ Outdated
    /\ Occupy(s, [kind |-> "check", since |-> clock])
    /\ UNCHANGED <<clock, update>>

Ended(s) == checked' = IF slot[s].since > checked THEN slot[s].since ELSE checked

\* Mutant of Stamp: a failure leaves the time.
StampOfSuccess(s) ==
    \/ release' = TRUE /\ checkedAt' = slot[s].since
    \/ UNCHANGED <<release, checkedAt>>

\* An answer replaces the release, a failure leaves it; the time is set by
\* both, to the one that was read before the request.
Stamp(s) ==
    /\ release' = TRUE \/ UNCHANGED release
    /\ checkedAt' = slot[s].since

EndCheck(s) ==
    /\ slot[s].kind = "check"
    /\ Stamp(s) /\ Ended(s)
    /\ Release(s)
    /\ UNCHANGED clock

UpdateInit == release = FALSE /\ checkedAt = NULL /\ checked = NULL

UpdateNext == \E s \in Slots : BeginCheck(s) \/ EndCheck(s)
=============================================================================
