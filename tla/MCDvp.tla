------------------------------- MODULE MCDvp -------------------------------
(* Instances of Dvp for TLC: two deals are funded at once and one of them is released; the
   wallet can pay for both or for the transfer. *)
EXTENDS Dvp

CONSTANTS r1, r2, r3, s1, d1, d2

Asks == [r \in {r1, r2, r3} |->
  CASE r = r1 -> [op |-> "fund", deal |-> d1, amount |-> 1]
    [] r = r2 -> [op |-> "fund", deal |-> d2, amount |-> 2]
    [] r = r3 -> [op |-> "release", deal |-> d1, amount |-> 0]]

OneAsk == [r \in {r1} |-> [op |-> "fund", deal |-> d1, amount |-> 1]]

Worths == [s \in {s1} |-> 3]

=============================================================================
