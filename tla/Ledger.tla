------------------------------- MODULE Ledger -------------------------------
(***************************************************************************)
(* The double-entry ledger (ledger/ledger.service.ts): the rows that       *)
(* recordSettlementFinalized writes for a settlement, counted per account, *)
(* under the table's constraint unique(settlementId, account). The GENESIS *)
(* row and the amounts are not modelled.                                   *)
(***************************************************************************)
EXTENDS SettlementState

VARIABLE ledger     \* how many rows a settlement has, per account

Accounts == {"OPERATOR", "SETTLED_OUT"}

LedgerTypeOK == ledger \in [Settlements -> [Accounts -> Nat]]

LedgerInit == ledger = [s \in Settlements |-> [a \in Accounts |-> 0]]

Booked(s) == \E a \in Accounts : ledger[s][a] > 0

\* Mutant: no unique constraint.
BookAgain(s) == ledger' = [ledger EXCEPT ![s] = [a \in Accounts |-> @[a] + 1]]

\* recordSettlementFinalized(): both rows in one database transaction, or
\* none when the constraint finds the settlement booked.
Book(s) ==
  IF Booked(s) THEN UNCHANGED ledger
  ELSE ledger' = [ledger EXCEPT ![s] = [a \in Accounts |-> @[a] + 1]]

=============================================================================
