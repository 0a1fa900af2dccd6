------------------------- MODULE MCConsumableStock -------------------------
(* Small instances of ConsumableStock.                                     *)
EXTENDS ConsumableStock, TLC

CONSTANTS s1, s2, e1, z1, z2, nil

\* A product without a location, with one, and with two of them.
NoPlace   == {[l \in Locs |-> nil]}
OnePlace  == {[l \in Locs |-> IF l = z1 THEN 2 ELSE nil]}
TwoPlaces == {[l \in Locs |-> IF l = nil THEN nil ELSE 1]}
Places    == NoPlace \cup OnePlace \cup TwoPlaces
=============================================================================
