------------------------- MODULE DeviceDetailModal -------------------------
(***************************************************************************)
(* The details of a device                                                 *)
(* (web/src/components/DeviceDetailModal.tsx), from which the light of its *)
(* bin is switched on and off.  The page that shows the dialog keeps it    *)
(* mounted when it is closed.  `lit' is the light itself: it changes when  *)
(* the server handles a request, some time before the page hears of it.    *)
(***************************************************************************)
EXTENDS ReactPage

\* zoned: the device has a bin.  lost: a request failed, so that nobody knows
\* what it did.
Init ==
  /\ ui = [open |-> FALSE, zoned |-> FALSE, locating |-> FALSE, ledActive |-> FALSE,
           message |-> FALSE, timer |-> FALSE, lit |-> FALSE, lost |-> FALSE]
  /\ calls = {}

\* done: the server has handled it.  `cleanup' is a `clear' nobody waits for.
Request(ask) == [ask |-> ask, done |-> FALSE]

Announce(u) == [u EXCEPT !.message = TRUE, !.timer = TRUE]

\* Timers are not cancelled: one that another message set may come first.
Dismiss ==
  /\ ui.timer
  /\ \E another \in BOOLEAN : ui' = [ui EXCEPT !.message = FALSE, !.timer = another]
  /\ UNCHANGED calls

Open ==
  /\ ~ui.open
  /\ \E zoned \in BOOLEAN : ui' = [ui EXCEPT !.open = TRUE, !.zoned = zoned]
  /\ UNCHANGED calls

\* Mutant: the effect runs when the dialog closes, not when a light comes on.
CleanupOnClose(u, others) ==
  IF ui.open /\ ~u.open /\ u.ledActive
  THEN ui' = [u EXCEPT !.ledActive = FALSE] /\ calls' = others \union {Request("cleanup")}
  ELSE ui' = u /\ calls' = others

\* The effect on isOpen and ledActive, after a step that leaves them in `u':
\* a light that is on while the dialog is closed is put out.
Cleanup(u, others) ==
  IF ~u.open /\ u.ledActive
  THEN ui' = [u EXCEPT !.ledActive = FALSE] /\ calls' = others \union {Request("cleanup")}
  ELSE ui' = u /\ calls' = others

\* By its buttons, or by Escape.  (Not while another cleanup is under way: bound.)
Close ==
  /\ ui.open
  /\ ~\E h \in calls : h.ask = "cleanup"
  /\ Cleanup([ui EXCEPT !.open = FALSE], calls)

handleLocate ==
  /\ ui.open /\ ui.zoned /\ ~ui.locating /\ ~ui.ledActive
  /\ Begins(Request("locate"))
  /\ ui' = [ui EXCEPT !.locating = TRUE, !.message = FALSE]

handleClearLED ==
  /\ ui.open /\ ui.zoned /\ ~ui.locating /\ ui.ledActive
  /\ Begins(Request("clear"))
  /\ ui' = [ui EXCEPT !.locating = TRUE, !.message = FALSE]

\* The server handles a request, in whatever order they reach it.
Handled(h) ==
  /\ ~h.done
  /\ ui' = [ui EXCEPT !.lit = (h.ask = "locate")]
  /\ GoesOnAs(h, [h EXCEPT !.done = TRUE])

Located(h) ==
  /\ Awaits(h, {"locate"}) /\ h.done
  /\ Cleanup(Announce([ui EXCEPT !.ledActive = TRUE, !.locating = FALSE]), calls \ {h})

Cleared(h) ==
  /\ Awaits(h, {"clear"}) /\ h.done
  /\ Cleanup(Announce([ui EXCEPT !.ledActive = FALSE, !.locating = FALSE]), calls \ {h})

CleanedUp(h) ==
  /\ Awaits(h, {"cleanup"}) /\ h.done
  /\ UNCHANGED ui
  /\ Ends(h)

\* Not handled, or handled and the answer lost.
Failed(h) ==
  /\ LET u == [ui EXCEPT !.lost = TRUE]
     IN  ui' = IF h.ask = "cleanup" THEN u ELSE Announce([u EXCEPT !.locating = FALSE])
  /\ Ends(h)

Next ==
  \/ Open \/ Close \/ handleLocate \/ handleClearLED \/ Dismiss
  \/ \E h \in calls : Handled(h) \/ Located(h) \/ Cleared(h) \/ CleanedUp(h) \/ Failed(h)

Spec == Init /\ [][Next]_vars

(***************************************************************************)
(* Properties.                                                             *)
(***************************************************************************)

TypeOK ==
  /\ ui \in [open : BOOLEAN, zoned : BOOLEAN, locating : BOOLEAN, ledActive : BOOLEAN,
             message : BOOLEAN, timer : BOOLEAN, lit : BOOLEAN, lost : BOOLEAN]
  /\ calls \subseteq [ask : {"locate", "clear", "cleanup"}, done : BOOLEAN]

\* A dialog that is closed leaves no light on, also when the light came on only
\* after it was closed - unless a request failed (the effect "Cleanup LEDs when
\* modal closes", which also depends on ledActive).
LightGoesOut == ~ui.open /\ calls = {} => ~ui.lit \/ ui.lost

\* Every message has a timer that takes it away.
MessageGoesAway == ui.message => ui.timer

\* When nothing is in flight no button is off (the finally blocks).
NoSpinnerLeft == calls = {} => ~ui.locating
=============================================================================
