------------------------------ MODULE Relayer ------------------------------
(***************************************************************************)
(* RelayerService (relayer/relayer.service.ts) and the interval that calls *)
(* its sweep (relayer/stuck-tx.watcher.ts).                                *)
(*                                                                         *)
(* Three activities run in one process and interleave at every await: the  *)
(* boot recovery, the single worker that drains the in-memory queue, and   *)
(* the stuck-transaction sweep. One action is what an activity does        *)
(* between two awaits. A broadcast and the node's answer are one action:   *)
(* sendLock lets no second broadcast start while the first is in the air.  *)
(***************************************************************************)
EXTENDS SettlementState

CONSTANT MaxRetries     \* config.maxRetries

ASSUME RelayerAssumption == MaxRetries \in Nat

VARIABLES
  requests,     \* settlements approved by SettlementsService.create, not yet enqueued
  queue,        \* the FIFO of settlement ids
  inflight,     \* the fee in the in-flight map's entry, Null without an entry
  localNonce,   \* the next nonce to use
  draining,     \* set by onModuleDestroy
  worker,       \* processJob's local variables
  sweep,        \* sweepStuckTransactions' local variables
  boot          \* recoverInFlight's local variables; "down" before the process starts

relayerVars == <<requests, queue, inflight, localNonce, draining, worker, sweep, boot>>
vars == <<chainVars, stateVars, relayerVars>>

\* A SUBMITTED row as a findByStatuses result keeps it.
Snapshot == [id : Settlements, tx : Txs, nonce : Nat, retry : Nat]

SnapshotsOf(statuses) ==
  {[id |-> s, tx |-> row[s].tx, nonce |-> row[s].nonce, retry |-> row[s].retry]
     : s \in WithStatus(statuses)}

WorkerIdle == [pc |-> "idle", id |-> Null, resume |-> FALSE, nonce |-> 0, fee |-> 0, retry |-> 0]
SweepIdle  == [pc |-> "idle", list |-> {}, cur |-> Null, fee |-> 0, retry |-> 0]
BootDown   == [pc |-> "down", list |-> {}, cur |-> Null]

MemoryTypeOK ==
  /\ requests \subseteq Settlements
  /\ queue \in Seq(Settlements)
  /\ inflight \in [Settlements -> Nat \cup {Null}]
  /\ localNonce \in Nat
  /\ draining \in BOOLEAN

WorkerTypeOK ==
  /\ worker \in [pc : {"idle", "send", "resync", "record", "fail"},
                 id : Settlements \cup {Null}, resume : BOOLEAN,
                 nonce : Nat, fee : Nat, retry : Nat]
  /\ worker.pc # "idle" => worker.id \in Settlements

SweepTypeOK ==
  /\ sweep \in [pc : {"idle", "each", "send", "record", "fail"},
                list : SUBSET Snapshot, cur : Snapshot \cup {Null},
                fee : Nat, retry : Nat]
  /\ sweep.pc \in {"send", "record", "fail"} => sweep.cur \in Snapshot

BootTypeOK ==
  /\ boot \in [pc : {"down", "read", "each", "lookup", "fail", "done"},
               list : SUBSET Snapshot, cur : Snapshot \cup {Null}]
  /\ boot.pc \in {"lookup", "fail"} => boot.cur \in Snapshot

RelayerTypeOK == MemoryTypeOK /\ WorkerTypeOK /\ SweepTypeOK /\ BootTypeOK

TypeOK == ChainTypeOK /\ StateTypeOK /\ RelayerTypeOK

RelayerInit ==
  /\ requests = {}
  /\ queue = <<>>
  /\ inflight = [s \in Settlements |-> Null]
  /\ localNonce = 0
  /\ draining = FALSE
  /\ worker = WorkerIdle
  /\ sweep = SweepIdle
  /\ boot = BootDown

Up == boot.pc # "down"

\* enqueueId(): draining drops the job without a trace.
Enqueued(s) == IF draining THEN queue ELSE Append(queue, s)

----------------------------------------------------------------------------
(* Boot: onApplicationBootstrap and recoverInFlight. *)

BootNonce ==
  /\ boot.pc = "down"
  /\ localNonce' = PendingNonce
  /\ boot' = [boot EXCEPT !.pc = "read"]
  /\ UNCHANGED <<chainVars, stateVars, requests, queue, inflight, draining, worker, sweep>>

BootRead ==
  /\ boot.pc = "read"
  /\ boot' = LET list == SnapshotsOf({"SUBMITTED"})
             IN  [boot EXCEPT !.pc = IF list = {} THEN "done" ELSE "each", !.list = list]
  /\ UNCHANGED <<chainVars, stateVars, requests, queue, inflight, localNonce, draining, worker, sweep>>

\* The recovery loop goes on with the rows after snap.
BootNext(snap) ==
  LET rest == boot.list \ {snap}
  IN  boot' = [pc |-> IF rest = {} THEN "done" ELSE "each", list |-> rest, cur |-> Null]

\* The receipt of a row's transaction: mined rows are the listener's, reverted
\* ones fail, the others are looked up.
BootReceipt(snap) ==
  /\ boot.pc = "each"
  /\ snap \in boot.list
  /\ IF ~ Mined(snap.tx)
     THEN boot' = [boot EXCEPT !.pc = "lookup", !.cur = snap]
     ELSE IF Receipt(snap.tx).ok
     THEN BootNext(snap)
     ELSE boot' = [boot EXCEPT !.pc = "fail", !.cur = snap]
  /\ UNCHANGED <<chainVars, stateVars, requests, queue, inflight, localNonce, draining, worker, sweep>>

BootFail ==
  /\ boot.pc = "fail"
  /\ inflight' = [inflight EXCEPT ![boot.cur.id] = Null]
  /\ Transition(boot.cur.id,
       [row[boot.cur.id] EXCEPT !.status = "FAILED", !.retry = boot.cur.retry])
  /\ BootNext(boot.cur)
  /\ UNCHANGED <<chainVars, requests, queue, localNonce, draining, worker, sweep>>

\* The transaction is still known: track it. Dropped: queue the row again.
BootLookup ==
  /\ boot.pc = "lookup"
  /\ IF Known(boot.cur.tx)
     THEN /\ inflight' = [inflight EXCEPT ![boot.cur.id] = boot.cur.tx.fee]
          /\ UNCHANGED queue
     ELSE /\ queue' = Enqueued(boot.cur.id)
          /\ UNCHANGED inflight
  /\ BootNext(boot.cur)
  /\ UNCHANGED <<chainVars, stateVars, requests, localNonce, draining, worker, sweep>>

----------------------------------------------------------------------------
(* The submission path: the end of SettlementsService.create. *)

Approve(s) ==
  /\ boot.pc = "done"
  /\ row[s].status = "NONE"
  /\ Transition(s, [row[s] EXCEPT !.status = "COMPLIANCE_APPROVED"])
  /\ requests' = requests \cup {s}
  /\ UNCHANGED <<chainVars, queue, inflight, localNonce, draining, worker, sweep, boot>>

Enqueue(s) ==
  /\ s \in requests
  /\ requests' = requests \ {s}
  /\ queue' = Enqueued(s)
  /\ UNCHANGED <<chainVars, stateVars, inflight, localNonce, draining, worker, sweep, boot>>

----------------------------------------------------------------------------
(* The worker: runWorker and processJob. *)

NextJob ==
  /\ worker.pc = "idle"
  /\ queue # <<>>
  /\ ~ draining
  /\ queue' = Tail(queue)

Sendable == {"COMPLIANCE_APPROVED", "SUBMITTED"}

\* Mutants: a dropped job is sent at a new nonce; every job is taken for a resumed one.
TakeJobFresh ==
  /\ NextJob
  /\ row[Head(queue)].status \in Sendable
  /\ \E fee \in MarketFees :
       worker' = [pc |-> "send", id |-> Head(queue), resume |-> FALSE, nonce |-> localNonce,
                  fee |-> fee, retry |-> row[Head(queue)].retry]
  /\ UNCHANGED <<chainVars, stateVars, requests, inflight, localNonce, draining, sweep, boot>>

TakeJobResumed ==
  /\ NextJob
  /\ row[Head(queue)].status \in Sendable
  /\ \E fee \in MarketFees :
       worker' = [pc |-> "send", id |-> Head(queue), resume |-> TRUE, nonce |-> row[Head(queue)].nonce,
                  fee |-> fee, retry |-> row[Head(queue)].retry]
  /\ UNCHANGED <<chainVars, stateVars, requests, inflight, localNonce, draining, sweep, boot>>

TakeJob ==
  /\ NextJob
  /\ row[Head(queue)].status \in Sendable
  /\ \E fee \in MarketFees :
       LET id     == Head(queue)
           resume == row[id].status = "SUBMITTED" /\ row[id].nonce # Null
       IN  worker' = [pc |-> "send", id |-> id, resume |-> resume,
                      nonce |-> IF resume THEN row[id].nonce ELSE localNonce,
                      fee |-> fee, retry |-> row[id].retry]
  /\ UNCHANGED <<chainVars, stateVars, requests, inflight, localNonce, draining, sweep, boot>>

SkipJob ==
  /\ NextJob
  /\ row[Head(queue)].status \notin Sendable
  /\ UNCHANGED <<chainVars, stateVars, requests, inflight, localNonce, draining, worker, sweep, boot>>

\* findById or getFeeData rejects: runWorker logs it and forgets the job.
LoseJob ==
  /\ NextJob
  /\ Spend("throw")
  /\ UNCHANGED <<sent, pool, blocks, stateVars, requests, inflight, localNonce, draining, worker, sweep, boot>>

WorkerTx == [sid |-> worker.id, nonce |-> worker.nonce, fee |-> worker.fee]

\* The catch block: a retryable failure is counted and tried again, from
\* where pc says, until maxRetries is exceeded.
\* Mutant: the last failure ends the job and nobody fails the settlement.
RetryForgets(pc) ==
  worker' = [worker EXCEPT !.retry = @ + 1,
                           !.pc = IF worker.retry + 1 > MaxRetries THEN "idle" ELSE pc]

Retry(pc) ==
  worker' = [worker EXCEPT !.retry = @ + 1,
                           !.pc = IF worker.retry + 1 > MaxRetries THEN "fail" ELSE pc]

\* Mutant: the nonce is not consumed.
SendAckNoIncrement ==
  /\ worker.pc = "send"
  /\ Accept(WorkerTx)
  /\ inflight' = [inflight EXCEPT ![worker.id] = worker.fee]
  /\ worker' = [worker EXCEPT !.pc = "record"]
  /\ UNCHANGED <<blocks, faults, stateVars, requests, queue, localNonce, draining, sweep, boot>>

SendAck ==
  /\ worker.pc = "send"
  /\ Accept(WorkerTx)
  /\ localNonce' = IF ~ worker.resume /\ worker.nonce = localNonce
                   THEN localNonce + 1 ELSE localNonce
  /\ inflight' = [inflight EXCEPT ![worker.id] = worker.fee]
  /\ worker' = [worker EXCEPT !.pc = "record"]
  /\ UNCHANGED <<blocks, faults, stateVars, requests, queue, draining, sweep, boot>>

\* The node accepts the transaction and the answer is lost: a network error.
SendLost ==
  /\ worker.pc = "send"
  /\ Accept(WorkerTx)
  /\ Spend("ack")
  /\ Retry("send")
  /\ UNCHANGED <<blocks, stateVars, requests, queue, inflight, localNonce, draining, sweep, boot>>

\* The node refuses the nonce: classifyTxError asks for a resync.
\* Mutant: a refused broadcast consumes a nonce too.
SendRefusedIncrement ==
  /\ worker.pc = "send"
  /\ ~ Accepts(WorkerTx)
  /\ worker' = [worker EXCEPT !.retry = @ + 1, !.nonce = @ + 1,
                              !.pc = IF worker.retry + 1 > MaxRetries THEN "fail" ELSE "send"]
  /\ localNonce' = localNonce + 1
  /\ UNCHANGED <<chainVars, stateVars, requests, queue, inflight, draining, sweep, boot>>

SendRefused ==
  /\ worker.pc = "send"
  /\ ~ Accepts(WorkerTx)
  /\ Retry("resync")
  /\ UNCHANGED <<chainVars, stateVars, requests, queue, inflight, localNonce, draining, sweep, boot>>

\* The node is not reached: TRANSIENT or UNKNOWN.
SendTransient ==
  /\ worker.pc = "send"
  /\ Retry("send")
  /\ UNCHANGED <<chainVars, stateVars, requests, queue, inflight, localNonce, draining, sweep, boot>>

\* Mutant: a bump that truncation takes back.
BumpFeeTruncated(fee) == (fee * 120) \div 100

\* bumpFees: a quarter more, in whole wei.
BumpFee(fee) == (fee * 125) \div 100

\* UNDERPRICED, not as a replacement: the retry pays more.
SendUnderpriced ==
  /\ worker.pc = "send"
  /\ worker.fee < MaxFee
  /\ worker' = IF worker.retry + 1 > MaxRetries
               THEN [worker EXCEPT !.retry = @ + 1, !.pc = "fail"]
               ELSE [worker EXCEPT !.retry = @ + 1, !.fee = BumpFee(@)]
  /\ UNCHANGED <<chainVars, stateVars, requests, queue, inflight, localNonce, draining, sweep, boot>>

\* INSUFFICIENT_FUNDS or REVERTED.
SendPermanent ==
  /\ worker.pc = "send"
  /\ worker' = [worker EXCEPT !.pc = "fail"]
  /\ UNCHANGED <<chainVars, stateVars, requests, queue, inflight, localNonce, draining, sweep, boot>>

\* The refetched nonce is for fresh jobs; a resumed one keeps the stored nonce.
Resync ==
  /\ worker.pc = "resync"
  /\ IF worker.resume
     THEN /\ worker' = [worker EXCEPT !.pc = "send"]
          /\ UNCHANGED localNonce
     ELSE /\ worker' = [worker EXCEPT !.pc = "send", !.nonce = PendingNonce]
          /\ localNonce' = PendingNonce
  /\ UNCHANGED <<chainVars, stateVars, requests, queue, inflight, draining, sweep, boot>>

SubmittedRow ==
  [row[worker.id] EXCEPT !.status = "SUBMITTED", !.tx = WorkerTx,
                         !.nonce = worker.nonce, !.retry = worker.retry]

Record ==
  /\ worker.pc = "record"
  /\ Transition(worker.id, SubmittedRow)
  /\ worker' = WorkerIdle
  /\ UNCHANGED <<chainVars, requests, queue, inflight, localNonce, draining, sweep, boot>>

\* The write fails, or commits and its answer is lost; the same catch block
\* takes it for a failed send.
RecordThrows ==
  /\ worker.pc = "record"
  /\ Spend("ack")
  /\ Transition(worker.id, SubmittedRow) \/ UNCHANGED stateVars
  /\ Retry("send")
  /\ UNCHANGED <<sent, pool, blocks, requests, queue, inflight, localNonce, draining, sweep, boot>>

Fail ==
  /\ worker.pc = "fail"
  /\ inflight' = [inflight EXCEPT ![worker.id] = Null]
  /\ Transition(worker.id, [row[worker.id] EXCEPT !.status = "FAILED", !.retry = worker.retry])
  /\ worker' = WorkerIdle
  /\ UNCHANGED <<chainVars, requests, queue, localNonce, draining, sweep, boot>>

\* A rejection inside the catch block leaves processJob: the job is forgotten.
WorkerThrows ==
  /\ worker.pc \in {"resync", "fail"}
  /\ Spend("throw")
  /\ inflight' = IF worker.pc = "fail" THEN [inflight EXCEPT ![worker.id] = Null] ELSE inflight
  /\ worker' = WorkerIdle
  /\ UNCHANGED <<sent, pool, blocks, stateVars, requests, queue, localNonce, draining, sweep, boot>>

----------------------------------------------------------------------------
(* The sweep: sweepStuckTransactions and bumpAndResend. *)

SweepRead ==
  /\ Up
  /\ ~ draining
  /\ sweep.pc = "idle"
  /\ WithStatus({"SUBMITTED"}) # {}
  /\ sweep' = [sweep EXCEPT !.pc = "each", !.list = SnapshotsOf({"SUBMITTED"})]
  /\ UNCHANGED <<chainVars, stateVars, requests, queue, inflight, localNonce, draining, worker, boot>>

\* The loop goes on with the rows after snap.
SweepNext(snap) ==
  LET rest == sweep.list \ {snap}
  IN  sweep' = IF rest = {} THEN SweepIdle
               ELSE [SweepIdle EXCEPT !.pc = "each", !.list = rest]

SweepMined(snap) ==
  /\ sweep.pc = "each"
  /\ snap \in sweep.list
  /\ Mined(snap.tx)
  /\ inflight' = [inflight EXCEPT ![snap.id] = Null]
  /\ SweepNext(snap)
  /\ UNCHANGED <<chainVars, stateVars, requests, queue, localNonce, draining, worker, boot>>

\* Sent less than STUCK_TX_SECONDS ago.
SweepNotStale(snap) ==
  /\ sweep.pc = "each"
  /\ snap \in sweep.list
  /\ ~ Mined(snap.tx)
  /\ SweepNext(snap)
  /\ UNCHANGED <<chainVars, stateVars, requests, queue, inflight, localNonce, draining, worker, boot>>

\* The fee to bump: the in-flight entry's, else the known transaction's, else
\* the market's.
PreviousFees(snap) ==
  IF inflight[snap.id] # Null THEN {inflight[snap.id]}
  ELSE IF Known(snap.tx) THEN {snap.tx.fee}
  ELSE MarketFees

SweepStale(snap) ==
  /\ sweep.pc = "each"
  /\ snap \in sweep.list
  /\ ~ Mined(snap.tx)
  /\ IF snap.retry >= MaxRetries
     THEN sweep' = [sweep EXCEPT !.pc = "fail", !.cur = snap, !.retry = snap.retry]
     ELSE \E fee \in PreviousFees(snap) :
            /\ fee < MaxFee
            /\ sweep' = [sweep EXCEPT !.pc = "send", !.cur = snap,
                                      !.fee = BumpFee(fee), !.retry = snap.retry + 1]
  /\ UNCHANGED <<chainVars, stateVars, requests, queue, inflight, localNonce, draining, worker, boot>>

\* Mutant: the resend takes the next nonce instead of the stored one.
SweepTxNextNonce == [sid |-> sweep.cur.id, nonce |-> localNonce, fee |-> sweep.fee]

SweepTx == [sid |-> sweep.cur.id, nonce |-> sweep.cur.nonce, fee |-> sweep.fee]

ResendAck ==
  /\ sweep.pc = "send"
  /\ Accept(SweepTx)
  /\ inflight' = [inflight EXCEPT ![sweep.cur.id] = sweep.fee]
  /\ sweep' = [sweep EXCEPT !.pc = "record"]
  /\ UNCHANGED <<blocks, faults, stateVars, requests, queue, localNonce, draining, worker, boot>>

\* Accepted, and the answer is lost: the row keeps the replaced hash.
ResendLost ==
  /\ sweep.pc = "send"
  /\ Accept(SweepTx)
  /\ Spend("ack")
  /\ SweepNext(sweep.cur)
  /\ UNCHANGED <<blocks, stateVars, requests, queue, inflight, localNonce, draining, worker, boot>>

\* Refused for its nonce ("leaving to listener") or not delivered ("will
\* retry next sweep"): nothing is written.
ResendRefused ==
  /\ sweep.pc = "send"
  /\ SweepNext(sweep.cur)
  /\ UNCHANGED <<chainVars, stateVars, requests, queue, inflight, localNonce, draining, worker, boot>>

\* A permanent error fails the settlement.
ResendPermanent ==
  /\ sweep.pc = "send"
  /\ sweep' = [sweep EXCEPT !.pc = "fail"]
  /\ UNCHANGED <<chainVars, stateVars, requests, queue, inflight, localNonce, draining, worker, boot>>

ResendRecord ==
  /\ sweep.pc = "record"
  /\ RecordResend(sweep.cur.id, SweepTx, sweep.retry)
  /\ SweepNext(sweep.cur)
  /\ UNCHANGED <<chainVars, requests, queue, inflight, localNonce, draining, worker, boot>>

ResendRecordThrows ==
  /\ sweep.pc = "record"
  /\ Spend("ack")
  /\ RecordResend(sweep.cur.id, SweepTx, sweep.retry) \/ UNCHANGED stateVars
  /\ SweepNext(sweep.cur)
  /\ UNCHANGED <<sent, pool, blocks, requests, queue, inflight, localNonce, draining, worker, boot>>

SweepFail ==
  /\ sweep.pc = "fail"
  /\ inflight' = [inflight EXCEPT ![sweep.cur.id] = Null]
  /\ Transition(sweep.cur.id, [row[sweep.cur.id] EXCEPT !.status = "FAILED", !.retry = sweep.retry])
  /\ SweepNext(sweep.cur)
  /\ UNCHANGED <<chainVars, requests, queue, localNonce, draining, worker, boot>>

\* A rejected call outside bumpAndResend's try ends the whole sweep.
SweepThrows ==
  /\ sweep.pc \in {"each", "fail"}
  /\ Spend("throw")
  /\ inflight' = IF sweep.pc = "fail" THEN [inflight EXCEPT ![sweep.cur.id] = Null] ELSE inflight
  /\ sweep' = SweepIdle
  /\ UNCHANGED <<sent, pool, blocks, stateVars, requests, queue, localNonce, draining, worker, boot>>

----------------------------------------------------------------------------
(* Shutdown and crash. *)

\* onModuleDestroy: modelled only when the process may still exit.
Drain ==
  /\ Up
  /\ ~ draining
  /\ faults["crash"] > 0
  /\ draining' = TRUE
  /\ UNCHANGED <<chainVars, stateVars, requests, queue, inflight, localNonce, worker, sweep, boot>>

\* The process loses its memory.
Exit ==
  /\ requests' = {}
  /\ queue' = <<>>
  /\ inflight' = [s \in Settlements |-> Null]
  /\ localNonce' = 0
  /\ draining' = FALSE
  /\ worker' = WorkerIdle
  /\ sweep' = SweepIdle
  /\ boot' = BootDown

\* The process exits, in order or not. Everything in the database stays.
Crash ==
  /\ Up
  /\ Spend("crash")
  /\ Exit
  /\ UNCHANGED <<sent, pool, blocks, stateVars>>

----------------------------------------------------------------------------
Boot ==
  \/ BootNonce \/ BootRead \/ BootFail \/ BootLookup
  \/ \E snap \in boot.list : BootReceipt(snap)

Submit == \E s \in Settlements : Approve(s) \/ Enqueue(s)

Worker ==
  \/ TakeJob \/ SkipJob \/ LoseJob
  \/ SendAck \/ SendLost \/ SendRefused \/ SendTransient \/ SendUnderpriced \/ SendPermanent
  \/ Resync \/ Record \/ RecordThrows \/ Fail \/ WorkerThrows

Sweep ==
  \/ SweepRead
  \/ \E snap \in sweep.list : SweepMined(snap) \/ SweepNotStale(snap) \/ SweepStale(snap)
  \/ ResendAck \/ ResendLost \/ ResendRefused \/ ResendPermanent
  \/ ResendRecord \/ ResendRecordThrows \/ SweepFail \/ SweepThrows

RelayerNext == Boot \/ Submit \/ Worker \/ Sweep \/ Drain \/ Crash

Init == ChainInit /\ StateInit /\ RelayerInit

Next ==
  \/ RelayerNext
  \/ ChainNext /\ UNCHANGED <<stateVars, relayerVars>>

Spec == Init /\ [][Next]_vars

\* The event loop runs what is ready: every activity that can go on does.
RelayerFairness == WF_vars(Boot) /\ WF_vars(Worker) /\ WF_vars(\E s \in Settlements : Enqueue(s))

FairSpec == Spec /\ RelayerFairness

----------------------------------------------------------------------------
(* What the relayer must keep. *)

\* "Money moves exactly once": no settlement is paid by two mined transfers,
\* whatever the retries, the gas bumps, the crashes and the reorganisations
\* (processJob, bumpAndResend, recoverInFlight).
PaidAtMostOnce == \A s \in Settlements : \A i, j \in Payments(s) : i = j

\* A settlement is paid again at most once for every acknowledgement that was
\* lost: nothing else makes the relayer pay twice.
ExtraPaymentsAreLostAcks ==
  \A s \in Settlements :
    Cardinality(Payments(s)) <= 1 + (Faults["ack"] - faults["ack"])

\* Every transfer ever signed for a settlement carries the same nonce, so the
\* chain can take at most one of them: a resend, a retry or a resumed job never
\* moves to another nonce once the node accepted one.
OneNonce == \A t, u \in sent : t.sid = u.sid => t.nonce = u.nonce

\* No nonce is used for two settlements: a fresh job never replaces the
\* pending transfer of another settlement (localNonce).
NonceNotShared == \A t, u \in sent : t.nonce = u.nonce => t.sid = u.sid

\* Every nonce below a used one was used: no gap wedges the wallet.
NoNonceGap ==
  \A t \in sent : \A n \in 0 .. t.nonce - 1 : \E u \in sent : u.nonce = n

\* The hash a row stores is a transfer the node accepted for this settlement,
\* at the nonce the row stores: what the sweep, the recovery and the listener
\* ask the chain about is this settlement's own transaction.
RowIsOwnTransfer ==
  \A s \in Settlements :
    /\ row[s].tx # Null => /\ row[s].tx \in sent
                           /\ row[s].tx.sid = s
                           /\ row[s].tx.nonce = row[s].nonce
    /\ row[s].status = "SUBMITTED" => row[s].tx # Null

\* A resend pays more than the recorded transfer it is to replace; otherwise the
\* node refuses it on every sweep and no retry is counted (bumpFees truncates:
\* fees below four wei do not grow). A lost acknowledgement leaves the in-flight
\* fee too low; an eviction or a reorganisation may bring a replaced transfer back.
Undisturbed == \A kind \in {"ack", "drop", "reorg"} : faults[kind] = Faults[kind]

ResendOutbids ==
  sweep.pc = "send" /\ sweep.cur.tx \in pool /\ Undisturbed =>
    sweep.fee > sweep.cur.tx.fee

\* README: FAILED and FINAL end the lifecycle. (processJob and recordResend
\* write without an expectedFrom guard.)
TerminalStays ==
  [][\A s \in Settlements :
       row[s].status \in {"FINAL", "FAILED"} => row'[s].status = row[s].status]_vars

\* docs/INTEGRATION-RND.md:131: "on boot, every in-flight settlement is reconciled
\* against the chain". COMPLIANCE_APPROVED is in flight (IN_FLIGHT_STATUSES), so that
\* an approved settlement is sent or failed in the end, also when the process exits
\* meanwhile (recoverInFlight).
ApprovedIsDecided ==
  \A s \in Settlements :
    row[s].status = "COMPLIANCE_APPROVED" ~> row[s].status \in {"SUBMITTED", "FAILED"}

=============================================================================
