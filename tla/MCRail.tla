------------------------------- MODULE MCRail -------------------------------
(* Instances of Rail for TLC. *)
EXTENDS Rail

CONSTANT h1

\* The kinds of fault of a run, each at most once.
Once(kinds) == [k \in FaultKinds |-> IF k \in kinds THEN 1 ELSE 0]

NoFaults  == Once({})
Reorgs    == Once({"reorg"})
AllButAck == Once({"crash", "throw", "reorg"})

=============================================================================
