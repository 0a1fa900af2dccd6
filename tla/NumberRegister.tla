--------------------------- MODULE NumberRegister ---------------------------
(***************************************************************************)
(* What CreateDevices promises to whoever numbers devices with it, without *)
(* tables, locks and transactions: a request gets, at once and once, as    *)
(* many numbers of its series as it asked for, one after the other and all *)
(* above the numbers in use.  Numbers go out of use one by one, and nobody *)
(* else puts one into use.                                                 *)
(***************************************************************************)
EXTENDS Naturals

CONSTANTS
  Clients,    \* the requests
  Series,     \* series of numbers, of which a client asks for some of one
  SeriesOf,   \* [Clients -> Series]
  Wants,      \* [Clients -> Nat \ {0}]
  MaxNumber

VARIABLES
  numbers,    \* the numbers in use, of each series
  served      \* the clients that got theirs

registerVars == <<numbers, served>>

RegisterInit == numbers \in [Series -> SUBSET (0 .. MaxNumber)] /\ served = {}

Issue(c) ==
  /\ c \notin served /\ served' = served \cup {c}
  /\ \E first \in 1 .. MaxNumber :
       /\ \A n \in numbers[SeriesOf[c]] : n < first
       /\ numbers' = [numbers EXCEPT ![SeriesOf[c]] =
                        @ \cup first .. first + Wants[c] - 1]

Remove(s, n) == UNCHANGED served /\ numbers' = [numbers EXCEPT ![s] = @ \ {n}]

RegisterNext ==
  \/ \E c \in Clients : Issue(c)
  \/ \E s \in Series : \E n \in numbers[s] : Remove(s, n)

RegisterSpec == RegisterInit /\ [][RegisterNext]_registerVars
=============================================================================
