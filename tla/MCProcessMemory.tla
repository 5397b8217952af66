--------------------------- MODULE MCProcessMemory ---------------------------
(***************************************************************************)
(* An instance of ProcessMemory: two requests at a time, two logins, and   *)
(* one accident: a second issuer, a new document, or a restart.  Logins    *)
(* and checks for a release are explored apart, as they share the slots    *)
(* and the clock only.                                                     *)
(***************************************************************************)
EXTENDS ProcessMemory, TLC, FiniteSetsExt

MCSymmetry == Permutations(Slots) \cup Permutations(Issuers)

Named == {issuer} \cup DOMAIN cache \cup {opened[n].issuer : n \in DOMAIN opened}

Accidents == Cardinality(Named) - 1 + boot - 1 + MapThenSumSet(LAMBDA i : Version(i) - 1, Issuers)

Bounds ==
    /\ Accidents <= 1
    /\ opened = <<>> \/ (checkedAt = NULL /\ \A s \in Slots : slot[s].kind # "check")
=============================================================================
