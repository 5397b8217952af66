------------------------ MODULE MCFailureDetection ------------------------
(* Instances of FailureDetection for TLC.                                   *)
EXTENDS FailureDetection, TLC

CONSTANTS nas, synthetic

RealAndSynthetic == {nas, synthetic}
OneDeadline      == {1}
TwoDeadlines     == {1, 2}
=============================================================================
