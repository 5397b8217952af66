------------------------ MODULE MCSyntheticMonitor ------------------------
(* Instances of SyntheticMonitor for TLC.                                   *)
EXTENDS SyntheticMonitor, TLC

CONSTANTS t1, t2, t3, r1, r2, r3, a, b

TwoTasks      == {t1, t2}
ThreeTasks    == {t1, t2, t3}
TwoRequests   == {r1, r2}
ThreeRequests == {r1, r2, r3}
TwoRows       == {a, b}
=============================================================================
