---------------------------- MODULE MovementLog ----------------------------
(***************************************************************************)
(* What ProcessScan promises to whoever reads where a device is and how it *)
(* got there, without transactions, locks and failures: a device moves in  *)
(* one instant, and that instant is the newest move of its history.  A     *)
(* device that comes back enters an entry, with the place it was scanned   *)
(* at, and is not moved by it.  No entry is changed or taken out.          *)
(* An operator can put a device somewhere without an entry.                *)
(***************************************************************************)
EXTENDS Naturals

CONSTANTS Things, Places, Nowhere

VARIABLES
  place,      \* where each thing is
  history     \* its entries: when, where to, and whether it was moved

logVars == <<place, history>>

LogInit ==
  /\ place = [t \in Things |-> Nowhere]
  /\ history = [t \in Things |-> {}]

\* The entry is named by the history that it has entered.
Enter(t, m) ==
  /\ m.place \in Places \cup {Nowhere}
  /\ history' = [history EXCEPT ![t] = @ \cup {m}]

Move(t) ==
  \E m \in history'[t] :
    /\ m.moves
    /\ \A past \in history[t] : past.moves => past.time < m.time
    /\ Enter(t, m)
    /\ place' = [place EXCEPT ![t] = m.place]

Return(t) ==
  /\ \E m \in history'[t] : ~m.moves /\ Enter(t, m)
  /\ UNCHANGED place

Put(t) ==
  /\ \E p \in Places : place' = [place EXCEPT ![t] = p]
  /\ UNCHANGED history

LogNext == \E t \in Things : Move(t) \/ Return(t) \/ Put(t)

LogSpec == LogInit /\ [][LogNext]_logVars
=============================================================================
