----------------------------- MODULE FetchSlots -----------------------------
(***************************************************************************)
(* What requests that wait for another server share: one clock and the     *)
(* event loop's requests in flight.  A slot holds a request between an     *)
(* await and its continuation.  Time passes only while no fetch has waited *)
(* longer than Patience.  That is an assumption on the providers: httpx    *)
(* applies its read timeout to each chunk of an answer, so the code itself *)
(* does not bound an answer that arrives in ever so many small chunks.     *)
(***************************************************************************)
EXTENDS Integers, Sequences, FiniteSets

CONSTANTS Slots,     \* requests that may wait at the same time
          Patience,  \* longest wait of a request
          MaxTime    \* bound of the model on the clock

ASSUME SlotsAssumption == Patience \in Nat /\ MaxTime \in Nat \ {0}

VARIABLES
    clock,
    slot    \* slot[s]: the waiting request, or Free

NULL == 0
Time == Nat \ {NULL}
Free == [kind |-> "free"]

IsFree(s) == slot[s].kind = "free"

Occupy(s, request) == IsFree(s) /\ slot' = [slot EXCEPT ![s] = request]
Release(s)         == slot' = [slot EXCEPT ![s] = Free]

Tick ==
    /\ clock < MaxTime
    /\ \A s \in Slots : ~IsFree(s) => clock - slot[s].since < Patience
    /\ clock' = clock + 1
    /\ UNCHANGED slot
=============================================================================
