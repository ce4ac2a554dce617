----------------------------- MODULE MCTreasury -----------------------------
(* Instances of Treasury for TLC. *)
EXTENDS Treasury, TLC

CONSTANTS i1, i2, r1, r2, r3

\* Two instructions that do not both fit into an opening balance of four. The
\* first is asked for twice, and may be paid twice.
Payouts ==
  [r \in {r1, r2, r3} |->
     IF r = r3 THEN [instruction |-> i2, amount |-> 3] ELSE [instruction |-> i1, amount |-> 2]]

\* The first instruction may be sent at two nonces, and replaced at the first; the
\* second waits in the queue.
Hashes ==
  {[of |-> i1, nonce |-> 1, bid |-> 1], [of |-> i1, nonce |-> 1, bid |-> 2],
   [of |-> i1, nonce |-> 2, bid |-> 1]}

\* The two requests for the first instruction are alike.
Alike == Permutations({r1, r2})

=============================================================================
