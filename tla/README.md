# The USDC settlement rail, in TLA+

This directory is a verification project for the settlement rail under `src/`: a NestJS
process that takes payment instructions over HTTP, sends one USDC transfer for each from a
single operator wallet, follows it on the chain until it is final, and keeps a double-entry
ledger of what the chain confirmed. The modules model the code of `src/src/`; the node, the
network and the database engine are modelled by what the code relies on.

Paths below are relative to `src/src/` unless they start with `src/`.

## 1. Inventory

| Component | Source | State | Operations |
|---|---|---|---|
| Settlement state | `settlement-state/settlement-state.service.ts`, `src/prisma/schema.prisma` | tables `settlement`, `statusTransition`, `outboxEvent` | `create`, `transition` (guard `expectedFrom`, outbox event), `recordResend`, `findBy*`, `sumByStatuses` |
| Settlements | `settlements/settlements.service.ts` | none of its own | `create`: idempotency, balance, insert, compliance, approval, enqueue |
| Relayer | `relayer/relayer.service.ts`, `stuck-tx.watcher.ts`, `tx-error.ts`, `mutex.ts` | in memory: `queue`, `inflight`, `localNonce`, `draining`, `sendLock` | boot recovery, worker, sweep with gas bump, drain |
| Chain listener | `chain-listener/chain-listener.service.ts` | in memory: `polling` and the locals of running handlers | `pollConfirmations`, `processByTxHash`, `handleReorg`, `finalize` |
| Ledger | `ledger/ledger.service.ts` | table `ledgerEntry`, unique `(settlementId, account)` | opening snapshot, `recordSettlementFinalized`, balances |
| Chain access | `chain/chain.service.ts` | provider generation, `reconnectAttempts` | RPC accessors, WSS reconnect |
| Reconciliation | `reconciliation/reconciliation.service.ts` | table `reconciliationRun` | `run` on a cron: three concurrent reads and a comparison |
| Outbox relay | `outbox/outbox.relay.ts`, publishers | `running`, `publishedAt` | publish oldest first, mark, stop at the first failure |
| DvP | `dvp/dvp.service.ts`, `src/contracts/contracts/DvPEscrow.sol` | the contract's deals | `fund`, `release`, `refund`, `cancel` |
| Compliance, config, signer, health, metrics, presenters | the remaining directories | none that a decision depends on | lookups, validation, gauges, wiring |

How they interact. `create` hands an approved id to the relayer's in-memory queue (a call, not a
table). The relayer and the listener run in one process and never call each other: they share the
settlement rows, which both write through `transition`, and the chain, which both read. Only the
`expectedFrom` guards of the listener stand between their writes; the relayer writes without one.
The listener calls the ledger before it writes `FINAL`. `transition` inserts the outbox event in the
same database transaction; the outbox relay reads it later. Reconciliation reads all of them.
DvP sends from the same wallet with nonces of the provider's choosing.

What is hard here, and what makes each component correct:

- *Relayer.* Three activities (boot recovery, worker, sweep) interleave at every `await`; a broadcast
  can be accepted without the caller learning of it; the process can exit between a broadcast and the
  write that records it; the node can forget a pending transfer; a replaced transfer can still be
  mined. Correct: a settlement is paid at most once, its transfers share one nonce, no nonce serves
  two settlements and none is skipped, the stored hash is the settlement's own, every approved
  settlement is sent or failed.
- *Chain listener.* The poll and any number of event handlers work on copies of a row, check the
  guard in one step and write in another, on a chain that may be reorganised between any two reads.
  Correct: booked once and in both accounts, booked before `FINAL`, what is booked stays on the
  chain, an undone confirmation is withdrawn, an interrupted finalisation is replayed, a transfer
  that stays mined ends in `FINAL`.
- *Rail (both).* Both write the same rows, and the relayer asks for no guard. Correct: whatever is written late,
  events, ledger and rows tell one story, what is paid is noticed, what is approved or mined is decided.
- *Settlements.* Concurrent `create` calls, whose balance is two queries and whose insert comes after
  both; a crash or a rejected call between insert and approval. Correct: an instruction reaches the
  relayer at most once, an overdraft takes a race of two balances, a row is left RECEIVED by a fault only.
- *Reconciliation.* Its three reads are not one snapshot, booking and FINAL are two writes, a row stores one hash
  of several, and the timer runs before the opening snapshot. Correct: a run that nothing disturbs reports what
  the books cannot explain, less what they count twice or do not know yet.
- *Outbox relay.* Transactions commit out of the order of their stamps; publishing and marking fail
  apart. Correct: per settlement in order and without a gap, at least once, a repetition for each fault at most.
- *DvP and escrow.* One wallet and one allowance, used by concurrent calls and by the relayer; a deadline
  with two sides; `cancel` open beside both. Correct: every deal's money is where its state says, an answer is
  true, a call that nobody overlaps succeeds.

`PROJECT.json` lists each hazard at the line where it bites.

## 2. Modules

```
              Lifecycle (abstract)               EventChannel (abstract)
                  ^ refined by                        ^ refined by
Chain <- SettlementState <- Relayer <-- Rail <- MCRail   Outbox <- MCOutbox
              ^                           |
            Ledger <- ChainListener ------+

Books <- Intake ---------+
  ^                      +-- Treasury <- MCTreasury      DvPEscrow <- Dvp <- MCDvp
  +---- Reconciliation --+

ChainProofs <- RelayerProofs  <-+                        SumProofs <- TreasuryProofs
            <- ListenerProofs <-+-- RailProofs                     <- DvpProofs
                                                                   <- OutboxProofs
```

MCRelayer and MCChainListener instantiate these two components alone.

There are four views of the one process. **Rail** has every await of relayer and listener, and no amounts.
**Books** has the amounts and, of relayer and listener, only the writes they make in order; **Intake** and
**Reconciliation** run against them await by await, **Treasury** composes the three. **Outbox** has the event
rows and the stream. **Dvp** has the operator's wallet and what the escrow contract does with its money.

**Chain** (external). The node as the code uses it. `sent` is every transaction a node ever accepted,
since any of them may be mined by somebody; `pool` is what our node knows to be pending; `blocks` is the
canonical chain. `Mine`, `Reorg`, `Drop` are the environment. `ValidChain` is consensus: nonces are mined
in order. A transaction is the record of the settlement it pays, its nonce and its fee; signing the same
three gives the same hash, so the record stands for the hash. `faults` is a budget per kind of fault.

**SettlementState**. `row` is the settlement table, `outbox` the events of each settlement, oldest first.
`Transition(s, next)` is the UPDATE with its event; the `expectedFrom` read is a step of the caller,
because the transaction runs at READ COMMITTED: the SELECT takes no lock and the UPDATE does not repeat
the test.

**Relayer**. `worker`, `sweep` and `boot` are the local variables of `processJob`,
`sweepStuckTransactions`/`bumpAndResend` and `recoverInFlight`; their `pc` says at which `await` each
stands. One action is what an activity does between two awaits that matter; a branch of the code is a
disjunct or an action: `TakeJob`/`SkipJob`/`LoseJob` for the dequeue, `SendAck`/`SendLost`/`SendRefused`/
`SendTransient`/`SendUnderpriced`/`SendPermanent` for the classes of `classifyTxError`, `Resync`, `Record`,
`Fail` for what follows; `SweepMined`/`SweepNotStale`/`SweepStale` and the `Resend*` actions for the sweep.
`Crash` clears what is in memory and keeps the tables. A broadcast and the node's answer are one action,
because `sendLock` lets no second broadcast start in between.

**Ledger**. Rows per settlement and account, under the unique constraint.

**ChainListener**. A *watcher* is one run of the poll or of an event handler: it read its rows (`list`),
the block number (`head`) and one receipt, decides (`Verdict` is `processReceipt`), books, checks the guard
and writes, in that order, one step each. `OpenInit` starts the listener alone on broadcast settlements.

**Rail**. Relayer and listener in one process, with one crash for both.

**Lifecycle** (abstract). What those who consume the events or read the ledger are promised of a settlement: a
status, its announcements and the booking, which change together or in a given order. A watcher of the chain first
*decides*, which needs a status that allows it and, for `FINAL`, the booking (`Decide`), and announces later and
once (`Watched`), whatever was announced in between; a fault makes it forget. `due` is what was decided and not
announced. So the late writes and double announcements of section 4 are allowed, and these are not: `CONFIRMED` or
`FINAL` announced without a decision or twice for one, decided on a status that forbids it, `FINAL` unbooked, a
booking twice or before the broadcast, a status without its event. `Rail` refines it (`KeepsPromise`), poll, event
handlers and relayer racing: the status is the row's, the announcements are the outbox, booked is the ledger, and
due are the watchers between the guard and the UPDATE of `transition` (`Due`).

**Books**. `status`, `amount` and `txHash` are the settlement table, `booked` and `genesis` the ledger, `paid` and
`escrow` what left the wallet, `Wallet` what `balanceOf` answers. A transfer is a settlement, its nonce and a bid
that tells replacements apart; the record stands for the hash. The row names the last one recorded: `Resend`
replaces it at the same nonce while the former may still be mined, and `SubmitUnheard` is the lost acknowledgement
after which a job goes on at another nonce, so that a settlement may be paid twice. Boot is `Boot` (the timers of
`onModuleInit`), `SnapshotRead` and `SnapshotWrite` (`ensureOpeningSnapshot`), after which the server is up.
`BookFinal` and `WriteFinal` are the two halves of `finalize`.

**Intake**. `call[r]` holds the locals of one `create`: `Lookup`, the two halves of `availableBalance` in any order
(`ReadLedger`, `ReadInFlight`), `Refuse` / `Insert` / `InsertRaced` (P2002), `Screen` (compliance and the
status it leads to), `Enqueue`. `CallThrows` is a rejected database call, `IntakeExit` the end of the process.

**Reconciliation**. `recon` holds the locals of one `run`: the three reads of `Promise.all` in any order, the pending
rows first, each with the hash it stores then, and the receipts of these hashes one by one, the comparison. A run may
begin as soon as the timers are on, when there is no opening balance yet (`ReconLedger` reads zero).

**Outbox**. `Stamp` and `Commit` are the event insert of `transition` and its commit; `relay` holds the locals of
`relay()`: `Tick` (the query), then `Publish` and `Mark` for each row, each of which may fail before or after it
took effect. `PublishResent` is the Redis client sending a command again after a lost connection. An event is its
settlement and its number; `heard` is the stream.

**EventChannel** (abstract). The consumer hears the next event of a settlement, or the last one again.

**DvPEscrow**. The contract: a condition (`CanFund`, ...) and an effect (`Fund`, ...) per function, over the token's
`balance` and `allowance`. **Dvp**. `call[r]` holds the locals of one `fund` or `release`; ethers reads the nonce
(`ReadNonce`) and broadcasts later (`Broadcast`), `Wait` is `wait(1)`. `job` and `localNonce` are what the
relayer knows: `TakeJob`, `SendTransfer`, `Resync`, `Retry`, `GiveUp` are the branches of `processJob` that
the wallet's nonce decides.

**ChainProofs**, **RelayerProofs**, **ListenerProofs**, **RailProofs**, **SumProofs**, **TreasuryProofs**,
**DvpProofs**, **OutboxProofs**. Theorems and their lemmas, see section 5. Each extends the component it is about.

### Abstractions

- Addresses, failure reasons, timestamps and audit rows are left out: no modelled decision reads them.
- In **Rail** amounts are left out; in **Books** a settlement has one.
- Fees are wei. `BumpFee` is `bumpFees`, truncation included; `MaxFee` is a bound: fees above it are not
  tried. The runs start at four wei, the least fee a bump raises (`BumpOutbidsFromFourWei`).
- In **Dvp** fees are left out: at a nonce that is already pending the node takes or refuses a transaction, and
  either of the two may be mined. `estimateGas` and the broadcast are one step (a call that would revert is
  refused); a transfer always has its money; the operator's `cancel` by hand is made at most once for each deal of
  `Cancelled`.
- In **Books** relayer and listener make their writes without the races of **Rail**: a settlement whose stored hash
  is mined is never given up there, and a transfer given up may be mined later. A revert moves nothing and is left out.
- In **Outbox** the stamps (`createdAt`) of different events differ, and that of an event is taken under the row
  lock of its settlement (the UPDATE precedes the INSERT).
- STUCK_TX_SECONDS is a choice between `SweepNotStale` and `SweepStale`.
- In **SettlementState** the events are kept per settlement: the order across settlements is **Outbox**'s matter.
- History variables record what a property needs to know of the past and no action reads: `handed` and `raced`
  (Intake), `moved` (Reconciliation), `disturbed` (Dvp).
- `crash` stands for a kill, a supervisor restart and an unhandled rejection of an event handler (nobody
  awaits its promise); a failing boot is a crash that follows it.
- The branches for a SUBMITTED row without a hash are left out: every SUBMITTED row has one
  (`SubmittedHasTx`, proved).

## 3. Runs

`tlc -config <run>.cfg <module>`; every run is a bounded instance and completes.

| Run | Instance | Question |
|---|---|---|
| `relayer_nonce` | 2 settlements, 1 crash, 1 reorganisation | types; paid once, one nonce per settlement, rows name their own transfer, no shared nonce, no gap |
| `relayer_ack` | 1 settlement, one fault of *every* kind, 2 retries, reverts | each payment too many is a lost acknowledgement; a resend outbids |
| `listener_race` | 1 settlement, poll and 1 handler; crash, thrown call, reorganisation; fairness | the listener's safety and liveness |
| `rail` | 1 settlement, poll and 1 handler; reverts, reorganisation | both components: ledger agrees with chain, `FINAL` only for a payment in the confirmed block, refinement of `Lifecycle` |
| `rail_decides` | 1 settlement, no event is heard; crash, thrown call, reorganisation; fairness | both components: approved and mined settlements are decided, by the poll alone |
| `books` | 2 instructions, 3 requests, a DvP deal, 1 fault | handed over once, overdraft only by a race, RECEIVED is attended, what a reconciliation reports at any time from the start of its timer |
| `outbox` | 2 settlements, 2 events each, batches of 2, 2 faults, fairness | refinement of `EventChannel`, every event is heard, marks and repetitions |
| `dvp` | 2 deals, 3 requests, a cancellation, 1 transfer, 1 fault | money follows the deals, answers are true, who is alone succeeds |
| `relayer_double_pay`, `relayer_stranded`, `dvp_shared_nonce`, `rail_lost_hash` | smallest that shows it | a documented promise the code does not keep (section 4) |

Bounds and why they are enough. Two settlements are what it takes to share or skip a nonce, to overdraw a
balance, to commit events out of order, and to have a loop with a row after the one that fails; with one, the
other runs afford deeper faults. `MaxRetries` 1 or 2 reaches both sides of each comparison with `maxRetries`.
`MaxFee` above the market's fee allows one replacement; with a second one, and without
reverts, `relayer_ack` still passes, and the proof of `ResendOutbids` is for any number. `LastTxBlock` 2 lets a settlement be paid twice, and
`MaxBlocks` leaves room to reach `ConfirmationsFinal`. In `books` three requests are two for one instruction
and one for another that does not fit beside it (`Opening` 4, amounts 2 and 3); the first has three transfers, one and
its replacement at one nonce and one at the next, which is what it takes to mine a hash the row no longer stores
and to pay twice. In `outbox` a batch of two holds
two events of one settlement or one of each, and a third event stays behind it; two faults are a repetition and
a repetition of the repetition. In `dvp` the two funds differ in amount, so that an allowance can be too small, `Funds` 3 pays for both deals or for the transfer, and
`MaxTime` lets a deadline pass. `Window` is 1. One fault of a kind is enough for each execution of section 4;
several kinds meet in one run. `CHECK_DEADLOCK FALSE` everywhere: a rail with nothing left to do, its fault
budget, blocks, requests and events used up, is at rest, and that is no error.

`BookedStaysPaid` and the runs that check it take `MaxReorgDepth` smaller than `ConfirmationsFinal`: this is
what CONFIRMATIONS_FINAL is for. `rail` has an event handler, as the process always has, and checks safety;
`rail_decides` has none because no event need ever arrive, so that the poll must do: a handler that runs only adds
steps, and the two liveness properties also hold with one, under a crash and a rejected call or under a reorganisation,
on instances without a replacement (`MaxFee` 4). `ApprovedIsDecidedUnlessForgotten` excuses a drain, and a job that
nothing in the process holds any more after a crash or a rejected call; `RetryForgets` shows that it excuses no more.
`NonceNotShared` and `NoNonceGap` are checked without evictions and without lost acknowledgements,
`PaidAtMostOnce` without lost acknowledgements; section 4 shows what happens otherwise. `ResendOutbids` excuses
itself once an acknowledgement is lost (the in-flight entry does not know the fee of the transfer the node accepted), a
transaction evicted or a block replaced (each may bring a replaced transfer back into the pool below the recorded one). In `books` a
property that a fault excuses compares `faults` with `MaxFaults`, so that the states before the fault show the
property without it.

Fairness. Node's event loop runs every ready continuation, so an activity that can go on does: weak
fairness of `Boot`, `Worker`, `Enqueue`, `Sweep` and each watcher's `Continue`. `PollRead` is fair because its
interval fires for ever; event handlers are never assumed to start. `MineEmpty` is fair: blocks keep coming
(up to `MaxBlocks`); `Mine` of a given transfer is *not*. `SweepStale` is strongly fair: the sweep passes
again and again, and a transfer that stays unmined is older than STUCK_TX_SECONDS on all but finitely many
passes. Faults, drains and crashes have no fairness. `listener_race` and `rail_decides` keep their liveness under a crash, as
the supervisor restarts the process and the poll starts over. In `outbox` the relay is weakly fair: its interval
fires for ever and a run goes on to its end or fails; producers, failures and exits are not. `books` and `dvp`
check no liveness.

## 4. Where code and documents differ

Each of the four is a listed run with a shortest counterexample.

1. `relayer_double_pay`: one `try` covers the broadcast and the write that records it. The node accepts
   the transfer and its answer is lost; the retry is refused as already known, `Resync` moves the fresh
   job to the next pending nonce, and the settlement is paid again.
2. `relayer_stranded`: a crash leaves a COMPLIANCE_APPROVED settlement behind for good: the queue is in
   memory and recovery reads SUBMITTED rows only. Its transfer may already be on the chain.
3. `dvp_shared_nonce`: relayer.service.ts:34-40 tracks the wallet's nonce locally because "any gap or reuse would
   wedge the whole account"; DvP sends from the same wallet with the provider's nonces, beside the mutex. While a
   DvP transaction is pending (in the shortest execution the `approve` of a `fund`), the next transfer carries the
   same nonce. The node may take either in place of the other, and only one of them can be mined. Where it refuses
   the transfer as an underpriced replacement, the relayer asks for the next pending nonce and goes on there.
4. `rail_lost_hash`: a gas bump replaces the stored hash while the original is mined. The row asks for the
   resend's receipt for ever; each sweep is refused and counts no retry.

Seen on the way, stated in the modules or easily derived, without a listed run:

- `NonceNotShared` fails with an eviction: after a crash the boot's pending nonce is the evicted transfer's, the
  resumed job does not advance `localNonce`, and a fresh job takes the same nonce.
- `TerminalStays`: a resumed job's `Record` makes a FAILED settlement SUBMITTED again, after a crash and an eviction.
- `FailedIsUnpaid`: the sweep gives up on a pending transfer that is mined later; a revert at depth one is
  reorganised and succeeds. FAILED rows are never polled.
- `FinalStays`, and docs/INTEGRATION-RND.md:162 ("Recommended terminal signal for the trading system is FINAL"): the
  sweep reads no receipt, the transfer is mined and finalised, and the sweep's unguarded write (`fail()`,
  relayer.service.ts:239) makes the FINAL settlement FAILED. A handler's late CONFIRMED reopens one too, and puts the
  block it saw in the row of a settlement that another watcher is finalising.
- `FinalEventLast`: poll and handler both pass the guard and both write FINAL: two events.
- `processJob` reads the row, estimates the gas and builds the fees before its `try` (relayer.service.ts:119, 141-142):
  when one of these calls rejects, or one in the `catch` block, `runWorker` logs it and the approved settlement is in
  no queue any more (`LoseJob`, `WorkerThrows`; `ApprovedIsDecidedUnlessForgotten` excepts the fault).
- `Wedged`: a late SUBMITTED write leaves the block a settlement was confirmed in, which `handleReorg`'s guard
  then refuses to clear on every poll once the transfer is mined elsewhere. `MinedIsDecided` excepts it.
- `create` reads the balance and inserts with awaits in between, although its comment says "rejects (422) if the
  amount exceeds available balance": `OverdraftIsARace` says that this, and a FINAL written between the two
  queries of a balance, are the only ways to overdraw.
- After a crash between insert and approval a row stays RECEIVED: recovery does not read it and a retry of the
  instruction is an idempotent hit. It draws on the balance for ever (`ReceivedIsAttended` excepts the fault).
- TESTING.md:110 says "MATCHED ... at rest and while in-flight": a run between the booking and the FINAL status
  subtracts a settlement twice, a funded DvP deal is a difference while it is locked, and so is for ever what a
  transfer paid whose hash no row stores: one that a gas bump replaced (finding 4), a second payment (finding 1), one
  given up and mined later. A run before the opening snapshot of the first boot reports the whole wallet.
  (`DiffIsExplained` names the terms; they may also cancel out.)
- A settlement's transfer displaced by a DvP transaction stays SUBMITTED: its nonce is used up, each resend of the
  sweep is refused as too low and counts no retry. `fund` of a deal that exists approves first and then fails,
  which leaves an allowance.

## 5. Proofs

`tlapm <module>.tla` checks every step of the module's proofs; each module states the result for all values of the
constants that meet the assumptions below. Every inductive invariant was first checked by TLC on the
instance of its run. Each is what the property at hand needs to know of the local variables: that a
copy made before an `await` still says something true after it.

### The chain (ChainProofs)

Lemmas the others cite: `ValidChainStep` (every block and reorganisation keeps nonces mined in order),
`NonceMinedOnce` and `OneNoncePaysOnce` (transfers of one nonce pay once), and `DeepBlocksStay`: blocks below
`MaxReorgDepth` are never replaced.

### The relayer (RelayerProofs)

- `TypeCorrect`: `Spec => []TypeOK`. `TypeOK` is not inductive: a snapshot of a SUBMITTED row needs a hash
  and a nonce, and `PendingNonce` is a number only if `sent` is finite. `TypeInv` adds both.
- `MoneyMovesOnce`: `Faults["ack"] = 0` implies `Spec => []PaidAtMostOnce`. Crashes, evictions,
  reorganisations and thrown calls are unbounded; what is assumed is exactly what finding 1 is about:
  the node's acceptance is learnt and recorded, or the process dies.
- `ResendsKeepNonce` (`OneNonce`) and `RowsNameOwnTransfer` (`RowIsOwnTransfer`), under the same assumption.
- `NoncesAreNotShared` (`NonceNotShared`) and `NoncesHaveNoGap` (`NoNonceGap`): `Faults["ack"] = 0` and
  `Faults["drop"] = 0`; section 4 has the execution with an eviction.
- `OnlyLostAcksPayAgain` (`ExtraPaymentsAreLostAcks`), without any assumption on the faults: finding 1 is the only
  way to pay twice, and each lost acknowledgement pays at most once more.
- `ResendsOutbid` (`ResendOutbids`), from market fees of at least four wei: `BumpOutbidsFromFourWei` says that
  `BumpFee(fee) > fee` if and only if `fee >= 4`.

The argument. If all transfers of a settlement carry one nonce, the chain holds at most one of them. That all
carry one nonce needs to know where the next one may come from, which is `NonceInv`:

- `RowInv`: a row's nonce is that of every transfer of its settlement; a settlement never submitted has none.
- `SnapshotInv`: what recovery and the sweep remember of a row still has the row's nonce, though other
  activities wrote the row since.
- `WorkerInv`: a resumed job holds its row's nonce; a fresh job's settlement has nothing sent until the
  node accepted it.
- `WaitingInv`: an approved settlement is in one place only, the requests, one slot of the queue or the
  worker, so no second job can send it at another nonce.

There is one lemma per group of actions, with one step per action.

- `FirstNonceInv`, for the shared nonce and the gap: the nonces in use are `0 .. localNonce - 1` while the relayer is up,
  and each is mined or pending, so a boot or a resync that asks the node is told the same number
  (`PendingNonceIsFirst`). A fresh job takes that one; resumed jobs and resends repeat one of their settlement.
- `AckInv`, for the count: a settlement has at most `1 + Lost` nonces, and a fresh job about to send works for one
  that has at most `Lost`. Rows and snapshots remember nonces that were sent, so whoever resumes or resends adds none.
  It does not need `NonceInv`, which lost acknowledgements break.
- `FeeInv` and `PoolInv`, for the fee: hashes are recorded after the broadcast and fees stay at four wei or more; the
  node keeps one transfer of a nonce, the dearest it was sent, and the in-flight entry, where there is one, knows at
  least its fee. What the sweep compares with is a copy of the row made before the call; `StaleOutbids` says that a copy
  that fell behind names a transfer that was replaced, and then the property has nothing to say. `PoolInv` holds while
  nothing disturbs (`Undisturbed`), and takes from `AckInv` that a settlement has one nonce.

### The listener (ListenerProofs)

For finitely many settlements (the poll's list of rows is finite) and any number of event handlers:

- `ListenerTypeCorrect`, `BookedOnceInBoth` (`LedgerBalanced`), `FinalAfterBooking` (`FinalIsBooked`).
  `ListenerInv` says what a watcher remembers (`Sound`): only rows that were broadcast, no head beyond the
  chain, and, once past the booking, a settlement that is booked. So a FINAL written from however old a copy is booked.
- `ConfirmationNamesBlock` (`BlockRecordedWhenConfirmed`): the listener alone never loses a confirmation's block. Not
  so with the relayer beside it: section 4, `Wedged`.
- `LedgerFollowsChain` (`BookedStaysPaid`), from `MaxReorgDepth < ConfirmationsFinal`. `DeepInv`: whatever is booked,
  and whatever a watcher is about to book, rests on a payment deeper than any reorganisation. The head is read before
  the receipt, so a decision counts its depth from a head that may be old, and that only makes it later, never
  earlier (`FinalVerdictIsDeep`). TLC finds it violated with `MaxReorgDepth` equal to `ConfirmationsFinal`.

### The rail (RailProofs)

`RailInv` is `TypeInv` and `ListenerInv` with `RelayerRows`, the relayer's side of the bargain: it works only on
settlements that have a row, and recovers or resends only what was broadcast. `RelayerWrites` names the only three
things it may do to a row, and the listener's invariant survives each of them.

- `RailTypeCorrect`, `RailFinalAfterBooking`, `RailLedgerFollowsChain`: as above, with the relayer beside.
- `RailMoneyMovesOnce`: `PaidAtMostOnce` holds of the whole rail when `Faults["ack"] = 0`. What is new is that the
  listener writes hashes and nonces too, from its copies: `SeenSent` says that they are accepted transfers, so of the
  settlement's one nonce.
- `FinalInConfirmedBlock` (`FinalBlockIsCanonical`), from `MaxReorgDepth < ConfirmationsFinal`, for the poll and any
  number of handlers: `CanonicalInv` says that a watcher which finalises holds the block of a payment deeper than
  any reorganisation. `RailMoves` says what a step of anybody does to one watcher, `FinalVerdictIsDeep` that the verdict
  compared the block of the copy with the receipt's. The theorem is about the watcher's copy: the row may name
  another block by the time it is FINAL (section 4, `FinalStays`).
- `RailImplementsLifecycle`: `RailSpec => KeepsPromise`, for any number of handlers and any faults. `DueFacts` says
  what is due; a passing `CheckGuard` is `Decide`, `WriteStatus` is `Watched`, `BookFinal` is `Booking` or a stutter, a
  rejected call and an exit are `Forget`, the relayer's writes are `Accept` or `Relayed`. That FINAL is decided
  only when booked is `ListenerInv`.

### The books (SumProofs, TreasuryProofs)

`SumProofs` has what a sum over a finite set is: zero over the empty set, one more summand for one more element,
additive over disjoint sets, monotone. The library states induction over finite sets for an operator, which the
provers cannot instantiate; `SubsetInduction` states it for a set of sets, of which the induction predicate is a
member test.

For any finite set of instructions, any requests, amounts and faults:

- `InstructionHandedOnce` (`HandedOnce`; needs no finiteness). `HInv`: a request past its insert owns its
  instruction (`OneOwner`). The insert succeeds only where there is no row; no step takes a row away; so nobody else
  can come to own it, and the owner ends with the hand-over.
- `TreasuryTypeCorrect`, `OnlyFaultsAbandon` (`ReceivedIsAttended`).
- `OverdraftNeedsARace` (`OverdraftIsARace`). `Balances` is the reason: while no race was lost, what is booked or in
  flight is covered by the two answers a request has, whichever came first. A row only moves from in flight to
  booked, in that direction, so one order of the two queries can count it twice and the other not at all: that is the race.
- `DiffIsExact` (`DiffIsExplained`). `Reading`: a run that nothing disturbed holds what it would still read, so its
  difference is that of the sums, which are then split into disjoint parts. The sum of what the wallet lost is over
  transfers and that of the books over settlements; `SumRenamed` (SumProofs) equates the two where each row names
  one mined transfer of its own, and the transfers nobody names are the excess. `Snapshot` says what a run before the
  first boot's snapshot finds.

### DvP and the escrow (DvpProofs)

- `DvpTypeCorrect`, and `AnswersHold` (`AnswersAreTrue`): what a mined transaction did still shows in the deal
  (`MinedIsTrue`), because no function of the contract takes it back, and a call waits for its own.
- `MoneyIsSafe` (`MoneyFollowsDeals`), for finitely many deals: each of the five functions moves one amount and
  one deal (`ContractStep`), and the sums follow.
- `LoneCallsSucceed` (the action property `LoneCallSucceeds`) and `LoneTransfersAreMined` (`LoneTransferIsMined`).
  `LoneCall` and `LoneTransfer` say that whoever is not disturbed has the wallet for itself: nothing else is pending,
  its nonce is the next, its allowance is there. `PendingNonceIsFirstGap` gives the node's answer from that, and
  `AloneAtWork` that an undisturbed user is alone in every step. A transfer that is not disturbed
  never loses its nonce, and it is not given up if `MaxRetries > 0` (the property says so): the relayer's nonce is stale
  after each DvP transaction, and the one retry it takes to learn so must be allowed. MAX_RETRIES may be 0
  (`config/env.validation.ts`); then the first settlement after a DvP call fails.

### The outbox (OutboxProofs)

For any number of settlements, events and faults and any batch size, without fairness:

- `MarksAreHeard`: `OutboxSpec => []MarkedIsHeard`.
- `OutboxImplementsChannel`: `OutboxSpec => ImplementsChannel`, under the mapping that takes the number of committed
  events for what was told. A commit is `Tell`, a delivery is `HearNext` or `HearAgain`, the rest stutters.
- `OutboxTypeCorrect`, and `RepeatsNeedFaults` (`RepeatsAreFaults`).

The argument is that only two events may be delivered at a time: the last one heard, or the next. `OInv` says why.
`InOrder`: the stamps of a settlement increase with the numbers, since its row lock is held from the stamp to
the commit, whatever the other settlements do. So the relay's order is, within a settlement, the order of the
numbers, and `BatchFromTheFirst`: a batch that holds an event holds all the unmarked ones before it
(`FirstOfIsClosed`; this needs the batch to be finite, and fails for a batch that is not taken oldest first).
`Abreast`: the stream is at most one event ahead of the marks, since a run that does not mark what it published
ends there. `NextIsDue` puts them together. `StepImplements` maps the steps.

`StreamInv` adds what the last two results need: events differ in their stamps, so the batch is no larger than
`BatchSize`; and `Paid`, which charges a repetition when the fault happens and not when the event is heard again:
a settlement whose last event is heard and unmarked, and not about to be marked (`Owed`), has a fault in hand.

### Assumptions, and what is only model-checked

The assumptions on the constants are `ChainAssumption`, `StateAssumption`, `RelayerAssumption`, `ListenerAssumption`,
`BooksAssumption`, `IntakeAssumption`, `OutboxAssumption`, `EscrowAssumption` and `DvpAssumption`; TLC evaluates them in
every run that extends their module. They say that numbers are numbers and `Null` is nothing else; the two that come
from the code are `ConfirmationsFinal >= ConfirmationsConfirmed > 0` and that a `fund` has a positive amount (the DTO's
decorator). A theorem with a hypothesis of its own names it above.

Model-checked only: all liveness (`listener_race`, `rail_decides`, `outbox`), which is out of the prover's reach. Every
invariant that a passing run checks, both refinements and the action property of `dvp` are proved.

## 6. Not modelled, and the plan

Not modelled. The WSS link of `chain.service.ts` (reconnect, backoff, resubscription): the listener's model takes
events at any time or never, which is all a link can do to it, and its liveness holds by the poll alone. The
promise chain of `mutex.ts`: a broadcast and its answer are one step. `classifyTxError`'s patterns: its classes are
modelled, not the wording of node errors. The compliance lookup (its answer is a choice in `Intake`),
configuration, signer, presenters, DTO validation, health and metrics are stateless or pure I/O; the mock token and
scripts are test assets.

No checked safety property is left to prove. Open: under which condition a resend outbids after a
reorganisation (`ResendOutbids` is stated up to the first); and `NonceNotShared` of the whole rail, where the listener's
copies write nonces too.
