------------------------------ MODULE SyncGate ------------------------------
(***************************************************************************)
(* What the sync scheduler promises its callers, without goroutines, locks *)
(* or wait groups: one sync at a time, and a shutdown that lets the one in *)
(* flight finish and then never lets another begin.                        *)
(***************************************************************************)
VARIABLES
  busy,   \* "none", or who asked for the sync in flight
  phase   \* "open", "draining" once shutdown was requested, then "closed"

gateVars == <<busy, phase>>

GateInit == busy = "none" /\ phase = "open"

\* A request is refused as soon as shutdown was requested; a tick that was
\* already due may still be served while the gate drains.
Begin(kind) ==
  /\ busy = "none"
  /\ phase = "open" \/ (phase = "draining" /\ kind = "scheduled")
  /\ busy' = kind
  /\ UNCHANGED phase

End   == busy # "none" /\ busy' = "none" /\ UNCHANGED phase
Drain == phase = "open" /\ phase' = "draining" /\ UNCHANGED busy
Close == phase = "draining" /\ busy = "none" /\ phase' = "closed" /\ UNCHANGED busy

GateNext ==
  \/ \E kind \in {"scheduled", "manual"} : Begin(kind)
  \/ End \/ Drain \/ Close

GateSpec == GateInit /\ [][GateNext]_gateVars
=============================================================================
