----------------------------- MODULE MCRelayer -----------------------------
(* Instances of Relayer for TLC. *)
EXTENDS Relayer, TLC

\* The kinds of fault of a run, each at most once.
Once(kinds) == [k \in FaultKinds |-> IF k \in kinds THEN 1 ELSE 0]

Crashes    == Once({"crash"})
Reorgs     == Once({"crash", "reorg"})
LostAcks   == Once({"ack"})
AllFaults  == Once(FaultKinds)

Symmetry == Permutations(Settlements)

=============================================================================
