----------------------------- MODULE MCDeviceIds -----------------------------
(* Small instances of DeviceIds, with numbers of one digit and more where  *)
(* the code has three and more.                                            *)
EXTENDS DeviceIds

CONSTANTS pA, pB, pC, s1, s2, b1, b2, t1, t2

INSTANCE Decimals WITH Pad <- Width

LampA == <<10, 1>>
LampB == <<11>>
LampC == <<12>>

MCStem == [p \in {pA, pB, pC} |->
             CASE p = pA -> LampA [] p = pB -> <<>> [] p = pC -> LampC]
MCFallback == [p \in {pA, pB, pC} |-> IF p = pB THEN LampB ELSE <<13>>]

Of(via, product, prefix, quantity) ==
  [via |-> via, product |-> product, prefix |-> prefix,
   quantity |-> quantity, start |-> 1]

MCAsk ==
  [r \in {s1, s2, b1, b2, t1, t2} |->
     CASE r = s1 -> Of("service", pA, <<>>, 2)
       [] r = s2 -> Of("service", pA, <<>>, 1)
       [] r = b1 -> Of("handler", pB, <<>>, 2)
       [] r = b2 -> Of("service", pB, <<>>, 1)
       [] r = t1 -> Of("handler", pC, <<>>, 1)
       [] r = t2 -> Of("handler", pC, <<>>, 1)]

Lamps(p, stem, numbers) ==
  [id \in {stem \o Padded(n) : n \in numbers} |-> p]

MCStarts ==
  {[asked |-> {s1, s2}, devices |-> Lamps(pA, LampA, {3, 99})],
   [asked |-> {b1, b2}, devices |-> Lamps(pB, LampB, {2})],
   [asked |-> {t1, t2}, devices |-> Lamps(pC, LampC, {9})]}
MCRenameTo == {LampB \o <<3>>}

\* Products 1 and 11, neither with an abbreviation: prefixes P1 and P11, and
\* one device of product 11.
One    == <<11, 1>>
Eleven == <<11, 1, 1>>
OverlapStem == [p \in {pA, pB} |-> <<>>]
OverlapFallback == [p \in {pA, pB} |-> IF p = pA THEN One ELSE Eleven]
OverlapAsk == [r \in {s1, s2} |->
                 Of("service", IF r = s1 THEN pA ELSE pB, <<>>, 1)]
OverlapStarts ==
  {[asked |-> {s1, s2}, devices |-> Lamps(pB, Eleven, {1})]}
=============================================================================
