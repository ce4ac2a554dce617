-------------------------- MODULE MCChainListener --------------------------
(* Instances of ChainListener for TLC. *)
EXTENDS ChainListener

\* The kinds of fault of a run, each at most once.
Once(kinds) == [k \in FaultKinds |-> IF k \in kinds THEN 1 ELSE 0]

Faulty == Once({"crash", "throw", "reorg"})

=============================================================================
