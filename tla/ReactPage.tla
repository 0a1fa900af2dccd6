----------------------------- MODULE ReactPage -----------------------------
(***************************************************************************)
(* What the modules of the web client (web/src) share.                     *)
(*                                                                         *)
(* `ui' is the state of the page that is shown.  `calls' is the set of its *)
(* handlers that wait for an answer.  A handler is a record: `ask' says    *)
(* what it waits for, the other fields what it still reads of the render   *)
(* in which it began (its closure) - not what `ui' has become since.       *)
(* Answers come in any order, or as failures.  What a handler sets between *)
(* two `await's React renders at once, so that is one step.                *)
(***************************************************************************)
EXTENDS Naturals, FiniteSets

CONSTANT MaxCalls   \* bound: handlers in flight at once

ASSUME MaxCallsAssumption == MaxCalls \in Nat \ {0}

VARIABLES ui, calls

vars == <<ui, calls>>

None == "none"

Busy == Cardinality(calls) >= MaxCalls

\* A handler that begins while its like is in flight is another one.  Which of
\* the two is answered first makes no difference, so the later one only counts.
Again(h) == [f \in DOMAIN h \union {"again"} |-> IF f = "again" THEN TRUE ELSE h[f]]
Joins(h, others) == calls' = others \union {IF h \in others THEN Again(h) ELSE h}
Without(h) == calls \ {IF Again(h) \in calls THEN Again(h) ELSE h}

Awaits(h, asks) == h.ask \in asks /\ "again" \notin DOMAIN h   \* h \in calls
Begins(h) == ~Busy /\ Joins(h, calls)
Ends(h) == calls' = Without(h)
GoesOnAs(h, next) == Joins(next, Without(h))
GoesOn(h, ask) == GoesOnAs(h, [h EXCEPT !.ask = ask])
=============================================================================
