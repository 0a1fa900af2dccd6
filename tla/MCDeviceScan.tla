---------------------------- MODULE MCDeviceScan ----------------------------
(* Small instances of DeviceScan.                                          *)
EXTENDS DeviceScan

CONSTANTS s1, s2, z1, j1, j2, d1, e1, nil

\* Every way through the statements of a scan.  A transfer without a zone and an
\* unknown action fail like an outtake without a job.
AllRequests ==
  [dev: {d1}, action: {"outtake"}, job: Jobs \cup {nil}, zone: {nil}]
    \cup [dev: {d1}, action: {"transfer", "intake"}, job: {nil}, zone: {z1}]
    \cup [dev: {d1}, action: {"check"}, job: {nil}, zone: {nil}]
=============================================================================
