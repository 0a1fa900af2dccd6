------------------------------ MODULE Decimals ------------------------------
(***************************************************************************)
(* Counters as text: what %03d and ::TEXT print and CAST reads back, with  *)
(* digits as the numbers 0..9.  A character above 9 is a letter.           *)
(***************************************************************************)
EXTENDS Integers, SequencesExt

CONSTANT Pad   \* digits a counter is padded to

Digits == 0..9

Numeral[n \in Nat] ==
  IF n < 10 THEN <<n>> ELSE Append(Numeral[n \div 10], n % 10)

\* fmt.Sprintf("%03d", n)
Padded(n) ==
  LET zeros == IF Len(Numeral[n]) < Pad THEN Pad - Len(Numeral[n]) ELSE 0
  IN  [i \in 1..zeros |-> 0] \o Numeral[n]

\* The number a text of digits stands for; -1 for any other text.
Number(text) ==
  IF text = <<>> \/ \E i \in DOMAIN text : text[i] \notin Digits THEN -1
  ELSE FoldLeft(LAMBDA n, d : 10 * n + d, 0, text)
=============================================================================
