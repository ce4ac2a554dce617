-------------------------- MODULE SettlementState --------------------------
(***************************************************************************)
(* The settlement table and the outbox table, written only through         *)
(* SettlementStateService (settlement-state/settlement-state.service.ts).  *)
(* A row keeps the fields the rest of the code decides on; amounts,        *)
(* addresses, failure reasons and timestamps are not modelled.             *)
(***************************************************************************)
EXTENDS Chain

VARIABLES
  row,      \* the settlement rows, by id
  outbox    \* the outbox events of each settlement, oldest first

stateVars == <<row, outbox>>

\* "NONE" stands for a settlement that has no row yet.
Statuses == {"NONE", "RECEIVED", "COMPLIANCE_APPROVED", "REJECTED_COMPLIANCE",
             "SUBMITTED", "CONFIRMED", "FINAL", "FAILED"}

\* The statuses that OUTBOX_EVENT_TYPES maps to an event.
EventStatuses == {"SUBMITTED", "CONFIRMED", "FINAL", "FAILED"}

BlockIds == [height : Nat, fork : Nat]

ASSUME StateAssumption == Null \notin BlockIds

Row == [status : Statuses,
        tx     : Txs \cup {Null},         \* txHash
        nonce  : Nat \cup {Null},
        retry  : Nat,                     \* retryCount
        cblock : BlockIds \cup {Null}]    \* confirmedBlockHash

NoRow == [status |-> "NONE", tx |-> Null, nonce |-> Null, retry |-> 0, cblock |-> Null]

StateTypeOK ==
  /\ row \in [Settlements -> Row]
  /\ outbox \in [Settlements -> Seq(EventStatuses)]

StateInit ==
  /\ row = [s \in Settlements |-> NoRow]
  /\ outbox = [s \in Settlements |-> <<>>]

\* findByStatuses
WithStatus(statuses) == {s \in Settlements : row[s].status \in statuses}

\* The UPDATE of transition() with the event inserted by the same database
\* transaction. The expectedFrom guard reads the row before, in a step of the
\* caller: at the READ COMMITTED isolation the transaction runs at, the read
\* takes no lock and the UPDATE does not repeat the test.
Transition(s, next) ==
  /\ row' = [row EXCEPT ![s] = next]
  /\ outbox' = IF next.status \in EventStatuses
               THEN [outbox EXCEPT ![s] = Append(@, next.status)]
               ELSE outbox

\* recordResend(): the new hash and retry count, whatever the status is now.
RecordResend(s, t, retry) ==
  /\ row' = [row EXCEPT ![s].tx = t, ![s].retry = retry]
  /\ UNCHANGED outbox

\* README: "state is always re-derived from receipts". A settlement the chain
\* paid is not FAILED. (sweepStuckTransactions gives up on pending transfers
\* that may still be mined; processReceipt fails a reverted transfer that a
\* reorganisation may still let succeed.)
FailedIsUnpaid == \A s \in Settlements : row[s].status = "FAILED" => ~ Paid(s)

=============================================================================
