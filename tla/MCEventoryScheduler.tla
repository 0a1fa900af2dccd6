------------------------ MODULE MCEventoryScheduler ------------------------
(* Small instances of EventoryScheduler.                                   *)
EXTENDS EventoryScheduler

CONSTANTS e1, e2, m1, t1, t2, w1
=============================================================================
