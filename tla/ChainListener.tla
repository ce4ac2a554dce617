--------------------------- MODULE ChainListener ---------------------------
(***************************************************************************)
(* ChainListenerService (chain-listener/chain-listener.service.ts): the    *)
(* confirmation poll, which never overlaps itself, and the Transfer event  *)
(* handlers, which overlap it and each other. A watcher is one run of      *)
(* either; its steps are what it does between two awaits.                  *)
(***************************************************************************)
EXTENDS Ledger

CONSTANTS
  Poll,                     \* the watcher that runs pollConfirmations
  EventHandlers,            \* bound: how many processByTxHash run at once
  ConfirmationsConfirmed,   \* config.confirmationsConfirmed
  ConfirmationsFinal        \* config.confirmationsFinal

\* env.validation.ts: CONFIRMATIONS_FINAL is at least CONFIRMATIONS_CONFIRMED.
ASSUME ListenerAssumption ==
  /\ Poll \notin EventHandlers
  /\ ConfirmationsConfirmed \in Nat \ {0}
  /\ ConfirmationsFinal \in Nat
  /\ ConfirmationsFinal >= ConfirmationsConfirmed

Watchers == {Poll} \cup EventHandlers

VARIABLE watcher    \* the local variables of each watcher

listenerVars == <<ledger, watcher>>

\* A settlement row as the watcher read it.
OpenRow == [id : Settlements, status : Statuses, tx : Txs \cup {Null}, cblock : BlockIds \cup {Null}]

\* The row of s, as a watcher keeps it.
Open(s) == [id |-> s, status |-> row[s].status, tx |-> row[s].tx, cblock |-> row[s].cblock]

WatcherIdle == [pc |-> "idle", list |-> {}, head |-> 0, cur |-> Null, to |-> "NONE", block |-> Null]

ListenerTypeOK ==
  /\ LedgerTypeOK
  /\ watcher \in [Watchers ->
       [pc : {"idle", "head", "each", "book", "check", "write"},
        list : SUBSET OpenRow, head : Nat, cur : OpenRow \cup {Null},
        to : {"NONE", "SUBMITTED", "CONFIRMED", "FINAL", "FAILED"},
        block : BlockIds \cup {Null}]]
  /\ \A w \in Watchers : watcher[w].pc \in {"book", "check", "write"} => watcher[w].cur \in OpenRow

ListenerInit ==
  /\ LedgerInit
  /\ watcher = [w \in Watchers |-> WatcherIdle]

OpenStatuses == {"SUBMITTED", "CONFIRMED"}

----------------------------------------------------------------------------
\* pollConfirmations: on its interval, at boot and after a reconnect.
PollRead ==
  /\ watcher[Poll].pc = "idle"
  /\ WithStatus(OpenStatuses) # {}
  /\ watcher' = [watcher EXCEPT ![Poll] =
       [WatcherIdle EXCEPT !.pc = "head", !.list = {Open(s) : s \in WithStatus(OpenStatuses)}]]
  /\ UNCHANGED <<chainVars, stateVars, ledger>>

\* processByTxHash: a Transfer event of a mined transfer, at any time after,
\* any number of times, or never.
EventRead(w, s) ==
  /\ watcher[w].pc = "idle"
  /\ row[s].status \in OpenStatuses
  /\ Mined(row[s].tx)
  /\ Receipt(row[s].tx).ok
  /\ watcher' = [watcher EXCEPT ![w] = [WatcherIdle EXCEPT !.pc = "head", !.list = {Open(s)}]]
  /\ UNCHANGED <<chainVars, stateVars, ledger>>

\* getCurrentBlock, once for all the rows that were read.
ReadHead(w) ==
  /\ watcher[w].pc = "head"
  /\ watcher' = [watcher EXCEPT ![w].pc = "each", ![w].head = Len(blocks)]
  /\ UNCHANGED <<chainVars, stateVars, ledger>>

\* The loop goes on with the rows after cur.
After(w, cur) ==
  LET rest == watcher[w].list \ {cur}
  IN  IF rest = {} THEN WatcherIdle
      ELSE [WatcherIdle EXCEPT !.pc = "each", !.list = rest, !.head = watcher[w].head]

\* Mutant: the whole receipt is stored.
BlockIdReceipt(receipt) == receipt

BlockId(receipt) == [height |-> receipt.height, fork |-> receipt.fork]

\* Mutant: one confirmation too many.
ConfirmationsOff(head, receipt) == head - receipt.height + 2

Confirmations(head, receipt) == head - receipt.height + 1

\* Mutant: the block a settlement was confirmed in is not compared.
VerdictNoReorg(w, s, receipt) ==
  IF receipt = Null THEN IF s.cblock # Null THEN "SUBMITTED" ELSE "NONE"
  ELSE IF ~ receipt.ok THEN "FAILED"
  ELSE IF Confirmations(watcher[w].head, receipt) >= ConfirmationsFinal THEN "FINAL"
  ELSE IF /\ Confirmations(watcher[w].head, receipt) >= ConfirmationsConfirmed
          /\ s.status = "SUBMITTED" THEN "CONFIRMED"
  ELSE "NONE"

\* Mutant: a transfer that vanished after its confirmation is left alone.
VerdictNoVanish(w, s, receipt) ==
  IF receipt = Null THEN "NONE"
  ELSE IF ~ receipt.ok THEN "FAILED"
  ELSE IF s.cblock # Null /\ s.cblock # BlockId(receipt) THEN "SUBMITTED"
  ELSE IF Confirmations(watcher[w].head, receipt) >= ConfirmationsFinal THEN "FINAL"
  ELSE IF /\ Confirmations(watcher[w].head, receipt) >= ConfirmationsConfirmed
          /\ s.status = "SUBMITTED" THEN "CONFIRMED"
  ELSE "NONE"

\* processReceipt: the status a row read as s should move to; "NONE" to stay.
Verdict(w, s, receipt) ==
  IF receipt = Null THEN IF s.cblock # Null THEN "SUBMITTED" ELSE "NONE"
  ELSE IF ~ receipt.ok THEN "FAILED"
  ELSE IF s.cblock # Null /\ s.cblock # BlockId(receipt) THEN "SUBMITTED"
  ELSE IF Confirmations(watcher[w].head, receipt) >= ConfirmationsFinal THEN "FINAL"
  ELSE IF /\ Confirmations(watcher[w].head, receipt) >= ConfirmationsConfirmed
          /\ s.status = "SUBMITTED" THEN "CONFIRMED"
  ELSE "NONE"

\* The receipt of one of the rows: decide, and book before finalising.
ReadReceipt(w, s) ==
  /\ watcher[w].pc = "each"
  /\ s \in watcher[w].list
  /\ LET receipt == Receipt(s.tx)
         to      == Verdict(w, s, receipt)
     IN  watcher' = [watcher EXCEPT ![w] =
           IF to = "NONE" THEN After(w, s)
           ELSE [@ EXCEPT !.pc = IF to = "FINAL" THEN "book" ELSE "check",
                          !.cur = s, !.to = to,
                          !.block = IF receipt = Null THEN Null ELSE BlockId(receipt)]]
  /\ UNCHANGED <<chainVars, stateVars, ledger>>

\* Mutant: the booking fails and finalize goes on.
BookFinalSkipped(w) ==
  /\ watcher[w].pc = "book"
  /\ watcher' = [watcher EXCEPT ![w].pc = "check"]
  /\ UNCHANGED <<chainVars, stateVars, ledger>>

\* finalize: the ledger first.
BookFinal(w) ==
  /\ watcher[w].pc = "book"
  /\ Book(watcher[w].cur.id)
  /\ watcher' = [watcher EXCEPT ![w].pc = "check"]
  /\ UNCHANGED <<chainVars, stateVars>>

\* Mutant: FINAL is reached from CONFIRMED only.
ExpectedFromConfirmed(to) == IF to = "CONFIRMED" THEN {"SUBMITTED"}
                             ELSE IF to \in {"SUBMITTED", "FINAL"} THEN {"CONFIRMED"}
                             ELSE {"SUBMITTED", "CONFIRMED"}

\* The expectedFrom list of each transition.
ExpectedFrom(to) == IF to = "CONFIRMED" THEN {"SUBMITTED"}
                    ELSE IF to = "SUBMITTED" THEN {"CONFIRMED"}
                    ELSE {"SUBMITTED", "CONFIRMED"}

\* Mutant: the guard is not asked.
CheckGuardSkipped(w) ==
  /\ watcher[w].pc = "check"
  /\ watcher' = [watcher EXCEPT ![w].pc = "write"]
  /\ UNCHANGED <<chainVars, stateVars, ledger>>

\* transition(): the SELECT and the expectedFrom guard.
CheckGuard(w) ==
  /\ watcher[w].pc = "check"
  /\ LET cur == watcher[w].cur
     IN  watcher' = [watcher EXCEPT ![w] =
           IF row[cur.id].status \in ExpectedFrom(watcher[w].to)
           THEN [@ EXCEPT !.pc = "write"] ELSE After(w, cur)]
  /\ UNCHANGED <<chainVars, stateVars, ledger>>

\* Mutant: a reorganised settlement keeps the block it was confirmed in.
VerdictRowKeepsBlock(w) ==
  LET cur == watcher[w].cur
      to  == watcher[w].to
  IN  IF to = "CONFIRMED"
      THEN [row[cur.id] EXCEPT !.status = to, !.tx = cur.tx, !.cblock = watcher[w].block]
      ELSE IF to = "FINAL" THEN [row[cur.id] EXCEPT !.status = to, !.tx = cur.tx]
      ELSE [row[cur.id] EXCEPT !.status = to]

\* The columns each of processReceipt's transitions sets.
VerdictRow(w) ==
  LET cur == watcher[w].cur
      to  == watcher[w].to
  IN  IF to = "CONFIRMED"
      THEN [row[cur.id] EXCEPT !.status = to, !.tx = cur.tx, !.cblock = watcher[w].block]
      ELSE IF to = "FINAL" THEN [row[cur.id] EXCEPT !.status = to, !.tx = cur.tx]
      ELSE IF to = "SUBMITTED" THEN [row[cur.id] EXCEPT !.status = to, !.cblock = Null]
      ELSE [row[cur.id] EXCEPT !.status = to]

\* transition(): the UPDATE, which does not repeat the guard.
WriteStatus(w) ==
  /\ watcher[w].pc = "write"
  /\ Transition(watcher[w].cur.id, VerdictRow(w))
  /\ watcher' = [watcher EXCEPT ![w] = After(w, watcher[w].cur)]
  /\ UNCHANGED <<chainVars, ledger>>

\* A call of the poll rejects: the whole poll ends, until the next interval.
PollThrows ==
  /\ watcher[Poll].pc # "idle"
  /\ Spend("throw")
  /\ watcher' = [watcher EXCEPT ![Poll] = WatcherIdle]
  /\ UNCHANGED <<sent, pool, blocks, stateVars, ledger>>

\* The process exits: killed, or on the unhandled rejection of an event
\* handler, whose promise nobody awaits.
ListenerExit == watcher' = [w \in Watchers |-> WatcherIdle]

ListenerCrash ==
  /\ Spend("crash")
  /\ ListenerExit
  /\ UNCHANGED <<sent, pool, blocks, stateVars, ledger>>

----------------------------------------------------------------------------
Continue(w) ==
  \/ ReadHead(w)
  \/ \E s \in watcher[w].list : ReadReceipt(w, s)
  \/ BookFinal(w) \/ CheckGuard(w) \/ WriteStatus(w)

Watch ==
  \/ PollRead
  \/ \E w \in EventHandlers, s \in Settlements : EventRead(w, s)
  \/ \E w \in Watchers : Continue(w)
  \/ PollThrows

\* The listener on its own: the relayer has recorded a broadcast of every
\* settlement, each at a nonce of its own.
OpenInit ==
  /\ blocks = <<>>
  /\ faults = Faults
  /\ \E nonce \in [Settlements -> 0 .. Cardinality(Settlements) - 1], fee \in MarketFees :
       /\ \A s, u \in Settlements : nonce[s] = nonce[u] => s = u
       /\ sent = {[sid |-> s, nonce |-> nonce[s], fee |-> fee] : s \in Settlements}
       /\ row = [s \in Settlements |->
                   [status |-> "SUBMITTED", tx |-> [sid |-> s, nonce |-> nonce[s], fee |-> fee],
                    nonce |-> nonce[s], retry |-> 0, cblock |-> Null]]
  /\ pool = sent
  /\ outbox = [s \in Settlements |-> <<"SUBMITTED">>]
  /\ ListenerInit

ListenerNext ==
  \/ Watch
  \/ ListenerCrash
  \/ ChainNext /\ UNCHANGED <<stateVars, listenerVars>>

allVars == <<chainVars, stateVars, listenerVars>>

ListenerSpec == OpenInit /\ [][ListenerNext]_allVars

\* The interval fires again and again and the poll runs to its end; a handler
\* that began ends; blocks keep coming. No event needs to be delivered.
ListenerFairness ==
  /\ WF_allVars(PollRead)
  /\ \A w \in Watchers : WF_allVars(Continue(w))
  /\ WF_allVars(MineEmpty /\ UNCHANGED <<stateVars, listenerVars>>)

FairListenerSpec == ListenerSpec /\ ListenerFairness

----------------------------------------------------------------------------
(* What the listener must keep. *)

OpenTypeOK == ChainTypeOK /\ StateTypeOK /\ ListenerTypeOK

\* A settlement is booked once, in both accounts or in neither, however many
\* watchers finalise it (recordSettlementFinalized).
LedgerBalanced ==
  \A s \in Settlements : /\ ledger[s]["OPERATOR"] = ledger[s]["SETTLED_OUT"]
                         /\ ledger[s]["OPERATOR"] <= 1

\* No settlement is FINAL without its ledger rows, wherever a crash or another
\* watcher cuts in (finalize books first).
FinalIsBooked == \A s \in Settlements : row[s].status = "FINAL" => Booked(s)

\* What is in the ledger moved on the chain and stays there: "only on what the
\* chain actually confirms". It needs reorganisations to be shallower than
\* CONFIRMATIONS_FINAL.
BookedStaysPaid == \A s \in Settlements : Booked(s) => Paid(s)

\* The block recorded at CONFIRMED is there exactly while it can be compared:
\* a row that is SUBMITTED has none, so it re-confirms cleanly (handleReorg).
BlockRecordedWhenConfirmed ==
  \A s \in Settlements :
    /\ row[s].status = "CONFIRMED" => row[s].cblock # Null
    /\ row[s].status = "SUBMITTED" => row[s].cblock = Null

\* The confirmation of s names a block that no longer holds its transfer.
StaleConfirmation(s) ==
  /\ row[s].status = "CONFIRMED"
  /\ ~ (Mined(row[s].tx) /\ BlockId(Receipt(row[s].tx)) = row[s].cblock)

\* A confirmation that a reorganisation undid is withdrawn.
StaleConfirmationEnds == \A s \in Settlements : StaleConfirmation(s) ~> ~ StaleConfirmation(s)

\* A transfer that stays on the chain makes its settlement FINAL.
PaidBecomesFinal ==
  \A s \in Settlements : <>[] Paid(s) => <>[] (row[s].status = "FINAL")

\* Booked and then interrupted, finalisation is replayed: no ledger entry is
\* left orphaned by a settlement that is not FINAL.
BookedBecomesFinal == \A s \in Settlements : Booked(s) ~> row[s].status = "FINAL"

\* "Count gas only on the first finalization": a settlement is finalised once,
\* and nothing is announced after.
FinalEventLast ==
  \A s \in Settlements : \A i \in DOMAIN outbox[s] :
    outbox[s][i] = "FINAL" => i = Len(outbox[s])

=============================================================================
