-------------------------------- MODULE Sums --------------------------------
(***************************************************************************)
(* Sums over finite sets.  The amount of a product is summed over its      *)
(* zones, the number of devices of a tree over its branches; SumProofs     *)
(* says what the sum is for every finite set.                              *)
(***************************************************************************)
EXTENDS Integers, FiniteSetsExt

\* The sum of what the function f returns on the elements of S.
SumOf(f, S) == MapThenSumSet(LAMBDA x : f[x], S)
=============================================================================
