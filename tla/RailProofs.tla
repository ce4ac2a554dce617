----------------------------- MODULE RailProofs -----------------------------
(***************************************************************************)
(* Proofs about the rail: what the relayer and the listener keep together, *)
(* each while the other writes the same rows.                              *)
(***************************************************************************)
EXTENDS Rail, RelayerProofs, ListenerProofs

----------------------------------------------------------------------------
(* The inductive invariant. *)

\* The relayer works on settlements that have a row, and recovers or resends
\* only what was broadcast.
RelayerRows ==
  /\ worker.pc # "idle" => row[worker.id].status # "NONE"
  /\ \A s \in requests : row[s].status # "NONE"
  /\ \A i \in DOMAIN queue : row[queue[i]].status # "NONE"
  /\ \A snap \in boot.list \cup sweep.list : OnChain(snap.id)
  /\ boot.pc \in {"lookup", "fail"} => OnChain(boot.cur.id)
  /\ sweep.pc \in {"send", "record", "fail"} => OnChain(sweep.cur.id)

RailInv == TypeInv /\ ListenerInv /\ RelayerRows

----------------------------------------------------------------------------
(* What the relayer writes. *)

\* Approved, broadcast or failed: transition().
Moved(s, next) ==
  /\ Transition(s, next)
  /\ \/ /\ row[s].status = "NONE" /\ next.status = "COMPLIANCE_APPROVED"
        /\ next.tx = row[s].tx /\ next.nonce = row[s].nonce
     \/ /\ row[s].status # "NONE" /\ next.status = "SUBMITTED"
        /\ next.tx \in Txs /\ next.tx.sid = s /\ next.nonce \in Nat
     \/ /\ row[s].status # "NONE" /\ next.status = "FAILED"
        /\ next.tx = row[s].tx /\ next.nonce = row[s].nonce

\* A new hash: recordResend().
Resent(s, next) ==
  /\ row' = [row EXCEPT ![s] = next]
  /\ UNCHANGED outbox
  /\ OnChain(s)
  /\ next.tx \in Txs /\ next.tx.sid = s
  /\ next.status = row[s].status /\ next.nonce = row[s].nonce

\* One row at a time, and never the block of a confirmation.
RelayerWrites ==
  \/ UNCHANGED stateVars
  \/ \E s \in Settlements, next \in Row :
       next.cblock = row[s].cblock /\ (Moved(s, next) \/ Resent(s, next))

LEMMA FailWrites ==
  ASSUME StateTypeOK, NEW s \in Settlements, NEW retry \in Nat, row[s].status # "NONE",
         Transition(s, [row[s] EXCEPT !.status = "FAILED", !.retry = retry])
  PROVE  RelayerWrites
<1> DEFINE next == [row[s] EXCEPT !.status = "FAILED", !.retry = retry]
<1>1. /\ next \in Row /\ next.status = "FAILED" /\ next.cblock = row[s].cblock
      /\ next.tx = row[s].tx /\ next.nonce = row[s].nonce
  BY DEF StateTypeOK, Row, Statuses
<1>2. Transition(s, next)
  OBVIOUS
<1> HIDE DEF next
<1>3. Moved(s, next)
  BY <1>1, <1>2 DEF Moved
<1> QED
  BY <1>1, <1>3 DEF RelayerWrites

LEMMA BootWrites ==
  ASSUME RailInv, Boot
  PROVE  RelayerWrites
<1>1. CASE BootFail
  <2>1. /\ boot.cur.id \in Settlements /\ boot.cur.retry \in Nat
        /\ OnChain(boot.cur.id) /\ StateTypeOK
    BY <1>1 DEF BootFail, RailInv, RelayerRows, TypeInv, TypeOK, RelayerTypeOK, BootTypeOK, Snapshot
  <2>2. row[boot.cur.id].status # "NONE"
    BY <2>1 DEF OnChain, EventStatuses
  <2> QED
    BY <1>1, <2>1, <2>2, FailWrites DEF BootFail
<1>2. CASE UNCHANGED stateVars
  BY <1>2 DEF RelayerWrites
<1> QED
  BY <1>1, <1>2 DEF Boot, BootNonce, BootRead, BootReceipt, BootLookup

LEMMA SubmitWrites ==
  ASSUME RailInv, Submit
  PROVE  RelayerWrites
<1>1. ASSUME NEW s \in Settlements, Approve(s)
      PROVE  RelayerWrites
  <2> DEFINE next == [row[s] EXCEPT !.status = "COMPLIANCE_APPROVED"]
  <2>1. row[s] \in Row
    BY DEF RailInv, TypeInv, TypeOK, StateTypeOK
  <2>2. /\ next \in Row /\ next.status = "COMPLIANCE_APPROVED" /\ next.cblock = row[s].cblock
        /\ next.tx = row[s].tx /\ next.nonce = row[s].nonce
    BY <2>1 DEF Row, Statuses
  <2>3. Transition(s, next) /\ row[s].status = "NONE"
    BY <1>1 DEF Approve
  <2> HIDE DEF next
  <2>4. Moved(s, next)
    BY <2>2, <2>3 DEF Moved
  <2> QED
    BY <2>2, <2>4 DEF RelayerWrites
<1>2. CASE UNCHANGED stateVars
  BY <1>2 DEF RelayerWrites
<1> QED
  BY <1>1, <1>2 DEF Submit, Enqueue

LEMMA WorkerWrites ==
  ASSUME RailInv, Worker
  PROVE  RelayerWrites
<1>1. CASE UNCHANGED stateVars
  BY <1>1 DEF RelayerWrites
<1> DEFINE id == worker.id
<1>2. ASSUME worker.pc # "idle"
      PROVE  /\ id \in Settlements /\ worker.nonce \in Nat /\ worker.retry \in Nat
             /\ worker.fee \in Nat /\ row[id].status # "NONE" /\ row[id] \in Row /\ StateTypeOK
  BY <1>2 DEF RailInv, RelayerRows, TypeInv, TypeOK, StateTypeOK, RelayerTypeOK, WorkerTypeOK
<1>3. ASSUME worker.pc = "record", Transition(id, SubmittedRow)
      PROVE  RelayerWrites
  <2>1. WorkerTx \in Txs /\ WorkerTx.sid = id
    BY <1>2, <1>3 DEF WorkerTx, Txs
  <2>2. /\ SubmittedRow \in Row /\ SubmittedRow.status = "SUBMITTED"
        /\ SubmittedRow.tx = WorkerTx /\ SubmittedRow.nonce = worker.nonce
        /\ SubmittedRow.cblock = row[id].cblock
    BY <1>2, <1>3, <2>1 DEF SubmittedRow, Row, Statuses
  <2>3. Moved(id, SubmittedRow)
    BY <1>2, <1>3, <2>1, <2>2 DEF Moved
  <2> QED
    BY <1>2, <1>3, <2>2, <2>3 DEF RelayerWrites
<1>4. CASE Fail
  BY <1>2, <1>4, FailWrites DEF Fail
<1> QED
  BY <1>1, <1>3, <1>4 DEF Worker, TakeJob, SkipJob, LoseJob, SendAck, SendLost, SendRefused,
     SendTransient, SendUnderpriced, SendPermanent, Resync, Record, RecordThrows, WorkerThrows

LEMMA SweepWrites ==
  ASSUME RailInv, Sweep
  PROVE  RelayerWrites
<1>1. CASE UNCHANGED stateVars
  BY <1>1 DEF RelayerWrites
<1> DEFINE id == sweep.cur.id
<1>2. ASSUME sweep.pc \in {"record", "fail"}
      PROVE  /\ id \in Settlements /\ sweep.cur.nonce \in Nat /\ sweep.fee \in Nat
             /\ sweep.retry \in Nat /\ OnChain(id) /\ row[id] \in Row /\ StateTypeOK
  BY <1>2 DEF RailInv, RelayerRows, TypeInv, TypeOK, StateTypeOK, RelayerTypeOK, SweepTypeOK, Snapshot
<1>3. ASSUME sweep.pc = "record", RecordResend(id, SweepTx, sweep.retry)
      PROVE  RelayerWrites
  <2> DEFINE next == [row[id] EXCEPT !.tx = SweepTx, !.retry = sweep.retry]
  <2>1. SweepTx \in Txs /\ SweepTx.sid = id
    BY <1>2, <1>3 DEF SweepTx, Txs
  <2>2. row' = [row EXCEPT ![id] = next] /\ UNCHANGED outbox
    BY <1>2, <1>3 DEF RecordResend, StateTypeOK
  <2>3. /\ next \in Row /\ next.status = row[id].status /\ next.tx = SweepTx
        /\ next.nonce = row[id].nonce /\ next.cblock = row[id].cblock
    BY <1>2, <1>3, <2>1 DEF Row
  <2> HIDE DEF next
  <2>4. Resent(id, next)
    BY <1>2, <1>3, <2>1, <2>2, <2>3 DEF Resent
  <2> QED
    BY <1>2, <1>3, <2>3, <2>4 DEF RelayerWrites
<1>4. CASE SweepFail
  <2>1. row[id].status # "NONE"
    BY <1>2, <1>4 DEF SweepFail, OnChain, EventStatuses
  <2> QED
    BY <1>2, <1>4, <2>1, FailWrites DEF SweepFail
<1> QED
  BY <1>1, <1>3, <1>4 DEF Sweep, SweepRead, SweepMined, SweepNotStale, SweepStale, ResendAck,
     ResendLost, ResendRefused, ResendPermanent, ResendRecord, ResendRecordThrows, SweepThrows

LEMMA RelayerStepWrites ==
  ASSUME RailInv, RelayerStep
  PROVE  RelayerWrites
<1>1. CASE Drain
  BY <1>1 DEF Drain, RelayerWrites
<1> QED
  BY <1>1, BootWrites, SubmitWrites, WorkerWrites, SweepWrites DEF RelayerStep

\* A settlement keeps its row, and what was broadcast stays broadcast; no write
\* of the relayer makes a settlement FINAL or changes the block it was confirmed in.
LEMMA WritesFacts ==
  ASSUME StateTypeOK, RowsOnChain, RelayerWrites
  PROVE  /\ RowsOnChain'
         /\ \A s \in Settlements :
              /\ row[s].status # "NONE" => row'[s].status # "NONE"
              /\ OnChain(s) => OnChain(s)'
              /\ row'[s].status = row[s].status \/ row'[s].status \in {"SUBMITTED", "FAILED"}
                 \/ (row[s].status = "NONE" /\ row'[s].status = "COMPLIANCE_APPROVED")
              /\ row'[s].cblock = row[s].cblock
<1>1. CASE UNCHANGED stateVars
  BY <1>1 DEF stateVars, RowsOnChain, OnChain
<1>2. ASSUME NEW s \in Settlements, NEW next \in Row, next.cblock = row[s].cblock,
             Moved(s, next) \/ Resent(s, next)
      PROVE  /\ RowsOnChain'
             /\ \A u \in Settlements :
                  /\ row[u].status # "NONE" => row'[u].status # "NONE"
                  /\ OnChain(u) => OnChain(u)'
                  /\ row'[u].status = row[u].status \/ row'[u].status \in {"SUBMITTED", "FAILED"}
                     \/ (row[u].status = "NONE" /\ row'[u].status = "COMPLIANCE_APPROVED")
                  /\ row'[u].cblock = row[u].cblock
  <2>1. \A u \in Settlements : row'[u] = IF u = s THEN next ELSE row[u]
    BY <1>2, TransitionFacts DEF Moved, Resent, StateTypeOK
  <2>2. /\ row[s].status # "NONE" => next.status # "NONE"
        /\ next.status = row[s].status \/ next.status \in {"SUBMITTED", "FAILED"}
           \/ (row[s].status = "NONE" /\ next.status = "COMPLIANCE_APPROVED")
        /\ next.tx # Null => next.tx.sid = s
    BY <1>2 DEF Moved, Resent, RowsOnChain
  <2>3. /\ OnChain(s) =>
             /\ next.status \in EventStatuses /\ next.tx \in Txs
             /\ next.tx.sid = s /\ next.nonce \in Nat
        /\ next.status \in OpenStatuses =>
             /\ next.status \in EventStatuses /\ next.tx \in Txs
             /\ next.tx.sid = s /\ next.nonce \in Nat
    BY <1>2 DEF Moved, Resent, OnChain, EventStatuses, OpenStatuses
  <2>4. \A u \in Settlements : OnChain(u) => OnChain(u)'
    BY <2>1, <2>3 DEF OnChain
  <2>5. RowsOnChain'
    BY <2>1, <2>2, <2>3 DEF RowsOnChain, OnChain
  <2> QED
    BY <1>2, <2>1, <2>2, <2>4, <2>5
<1> QED
  BY <1>1, <1>2 DEF RelayerWrites

----------------------------------------------------------------------------
(* Each component's invariant is kept by the other's steps. *)

LEMMA RelayerKeepsListener ==
  ASSUME RailInv, RelayerStep
  PROVE  ListenerInv'
<1>1. RelayerWrites
  BY RelayerStepWrites
<1>2. StateTypeOK /\ RowsOnChain /\ ChainTypeOK
  BY DEF RailInv, TypeInv, TypeOK, ListenerInv
<1>3. UNCHANGED blocks /\ UNCHANGED listenerVars
  BY RelayerKeepsBlocks DEF RelayerStep, RelayerNext
<1>4. /\ RowsOnChain'
      /\ \A s \in Settlements : /\ OnChain(s) => OnChain(s)'
                                /\ row'[s].status = "FINAL" => row[s].status = "FINAL"
  BY <1>1, <1>2, WritesFacts
<1>5. watcher' = watcher /\ ledger' = ledger
  BY <1>3 DEF listenerVars
<1>6. Advance
  BY <1>2, <1>3, <1>4, <1>5, LenIsNat DEF Advance, Booked
<1>7. \A w \in Watchers : Sound(watcher[w])'
  <2> SUFFICES ASSUME NEW w \in Watchers
               PROVE  Sound(watcher[w])'
    OBVIOUS
  <2>1. PICK r \in WatcherRecord : r = watcher[w] /\ Sound(r)
    BY WatcherFields DEF RailInv
  <2>2. Sound(r)'
    BY <1>6, <2>1, SoundStays
  <2> QED
    BY <1>5, <2>1, <2>2 DEF Sound
<1>8. ListenerTypeOK' /\ LedgerBalanced' /\ FinalIsBooked'
  BY <1>4, <1>5 DEF RailInv, ListenerInv, ListenerTypeOK, LedgerTypeOK, LedgerBalanced,
     FinalIsBooked, Booked
<1> QED
  BY <1>4, <1>7, <1>8 DEF ListenerInv

\* Rows that only advance leave what the relayer remembers of them true.
LEMMA AdvancedRows ==
  ASSUME RailInv, UNCHANGED relayerVars,
         \A s \in Settlements : /\ row[s].status # "NONE" => row'[s].status # "NONE"
                                /\ OnChain(s) => OnChain(s)'
  PROVE  RelayerRows'
<1>1. /\ worker.pc # "idle" => worker.id \in Settlements
      /\ requests \subseteq Settlements
      /\ \A i \in DOMAIN queue : queue[i] \in Settlements
      /\ \A snap \in boot.list \cup sweep.list : snap.id \in Settlements
      /\ boot.pc \in {"lookup", "fail"} => boot.cur.id \in Settlements
      /\ sweep.pc \in {"send", "record", "fail"} => sweep.cur.id \in Settlements
  BY WaitingIds DEF RailInv, TypeInv, TypeOK, RelayerTypeOK, WorkerTypeOK, BootTypeOK,
     SweepTypeOK, Snapshot
<1>2. UNCHANGED <<requests, queue, worker, sweep, boot>>
  BY DEF relayerVars
<1> QED
  BY <1>1, <1>2 DEF RailInv, RelayerRows

LEMMA WatchAdvancesRows ==
  ASSUME ListenerInv, TablesTypeOK, Watch
  PROVE  \A s \in Settlements : /\ row[s].status # "NONE" => row'[s].status # "NONE"
                                /\ OnChain(s) => OnChain(s)'
<1>1. CASE UNCHANGED row
  BY <1>1 DEF OnChain
<1>2. ASSUME NEW w \in Watchers, WriteStatus(w)
      PROVE  \A s \in Settlements : /\ row[s].status # "NONE" => row'[s].status # "NONE"
                                    /\ OnChain(s) => OnChain(s)'
  <2>1. /\ watcher[w].cur \in OpenRow
        /\ watcher[w].to \in EventStatuses
        /\ \A s \in Settlements : row'[s] = IF s = watcher[w].cur.id THEN VerdictRow(w) ELSE row[s]
        /\ \A s \in Settlements : OnChain(s) => OnChain(s)'
    BY <1>2, WriteFacts
  <2>2. VerdictRow(w).status = watcher[w].to
    BY <2>1, WatcherFields, VerdictRowFacts DEF TablesTypeOK, EventStatuses
  <2> QED
    BY <2>1, <2>2 DEF EventStatuses
<1> QED
  BY <1>1, <1>2 DEF Watch, PollRead, EventRead, Continue, ReadHead, ReadReceipt, BookFinal,
     CheckGuard, PollThrows, stateVars

LEMMA ListenerKeepsRelayer ==
  ASSUME RailInv, ListenerStep
  PROVE  TypeInv' /\ RelayerRows'
<1>1. TablesTypeOK /\ ListenerInv /\ Watch /\ UNCHANGED relayerVars
  BY DEF RailInv, TypeInv, TypeOK, TablesTypeOK, ListenerStep
<1>2. TablesTypeOK' /\ ListenerInv' /\ UNCHANGED sent
  BY <1>1, WatchKeeps
<1>3. SubmittedHasTx'
  <2>1. RowsOnChain'
    BY <1>2 DEF ListenerInv
  <2> QED
    BY <2>1 DEF RowsOnChain, OnChain, OpenStatuses, SubmittedHasTx
<1>4. RelayerTypeOK'
  BY <1>1 DEF RailInv, TypeInv, TypeOK, relayerVars,
     RelayerTypeOK, MemoryTypeOK, WorkerTypeOK, SweepTypeOK, BootTypeOK
<1>5. TypeInv'
  BY <1>2, <1>3, <1>4 DEF RailInv, TypeInv, TypeOK, TablesTypeOK
<1>6. RelayerRows'
  BY <1>1, AdvancedRows, WatchAdvancesRows
<1> QED
  BY <1>5, <1>6

\* Rows that only advance, and an activity that takes up no other row than one
\* of this kind.
LEMMA RowsAdvance ==
  ASSUME RailInv, RelayerWrites,
         worker'.pc # "idle" => worker'.id \in Settlements /\ row[worker'.id].status # "NONE",
         \A s \in requests' :
           s \in Settlements /\ (row[s].status # "NONE" \/ row'[s].status # "NONE"),
         \A i \in DOMAIN queue' : queue'[i] \in Settlements /\ row[queue'[i]].status # "NONE",
         \A snap \in boot'.list \cup sweep'.list : snap.id \in Settlements /\ OnChain(snap.id),
         boot'.pc \in {"lookup", "fail"} => boot'.cur.id \in Settlements /\ OnChain(boot'.cur.id),
         sweep'.pc \in {"send", "record", "fail"} =>
           sweep'.cur.id \in Settlements /\ OnChain(sweep'.cur.id)
  PROVE  RelayerRows'
<1>1. \A s \in Settlements : /\ row[s].status # "NONE" => row'[s].status # "NONE"
                             /\ OnChain(s) => OnChain(s)'
  BY WritesFacts DEF RailInv, TypeInv, TypeOK, ListenerInv
<1> QED
  BY <1>1 DEF RelayerRows, OnChain

\* What the activities remember now.
LEMMA RowsFacts ==
  ASSUME RailInv
  PROVE  /\ worker.pc # "idle" => worker.id \in Settlements /\ row[worker.id].status # "NONE"
         /\ \A s \in requests : s \in Settlements /\ row[s].status # "NONE"
         /\ \A i \in DOMAIN queue : queue[i] \in Settlements /\ row[queue[i]].status # "NONE"
         /\ \A snap \in boot.list \cup sweep.list : snap.id \in Settlements /\ OnChain(snap.id)
         /\ boot.pc \in {"lookup", "fail"} => boot.cur.id \in Settlements /\ OnChain(boot.cur.id)
         /\ sweep.pc \in {"send", "record", "fail"} =>
              sweep.cur.id \in Settlements /\ OnChain(sweep.cur.id)
         /\ \A snap \in SnapshotsOf({"SUBMITTED"}) : snap.id \in Settlements /\ OnChain(snap.id)
<1>1. /\ worker.pc # "idle" => worker.id \in Settlements
      /\ \A snap \in boot.list \cup sweep.list : snap.id \in Settlements
      /\ boot.pc \in {"lookup", "fail"} => boot.cur.id \in Settlements
      /\ sweep.pc \in {"send", "record", "fail"} => sweep.cur.id \in Settlements
  BY DEF RailInv, TypeInv, TypeOK, RelayerTypeOK, WorkerTypeOK, BootTypeOK, SweepTypeOK, Snapshot
<1>2. requests \subseteq Settlements /\ \A i \in DOMAIN queue : queue[i] \in Settlements
  BY WaitingIds DEF RailInv
<1>3. \A snap \in SnapshotsOf({"SUBMITTED"}) : snap.id \in Settlements /\ OnChain(snap.id)
  BY DEF SnapshotsOf, WithStatus, RailInv, ListenerInv, RowsOnChain, OpenStatuses
<1> QED
  BY <1>1, <1>2, <1>3 DEF RailInv, RelayerRows

LEMMA BootKeepsRows ==
  ASSUME RailInv, Boot
  PROVE  RelayerRows'
<1>a. RelayerWrites
  BY BootWrites
<1>b. /\ UNCHANGED <<requests, worker, sweep>>
  BY DEF Boot, BootNonce, BootRead, BootReceipt, BootFail, BootLookup
<1>1. /\ boot'.list \subseteq boot.list \cup SnapshotsOf({"SUBMITTED"})
      /\ boot'.pc \in {"lookup", "fail"} => boot'.cur \in boot.list
  <2>1. CASE BootNonce \/ BootRead
    BY <2>1 DEF BootNonce, BootRead, RailInv, TypeInv, TypeOK, RelayerTypeOK, BootTypeOK
  <2>2. ASSUME NEW snap, BootNext(snap)
        PROVE  boot'.list \subseteq boot.list /\ boot'.pc \notin {"lookup", "fail"}
    BY <2>2 DEF BootNext
  <2>3. ASSUME NEW snap \in boot.list, BootReceipt(snap)
        PROVE  \/ BootNext(snap)
               \/ /\ boot'.list = boot.list
                  /\ boot'.cur = snap
    BY <2>3 DEF BootReceipt, RailInv, TypeInv, TypeOK, RelayerTypeOK, BootTypeOK
  <2>4. CASE \E snap \in boot.list : BootReceipt(snap)
    BY <2>2, <2>3, <2>4
  <2>5. CASE BootFail \/ BootLookup
    BY <2>2, <2>5 DEF BootFail, BootLookup
  <2> QED
    BY <2>1, <2>4, <2>5 DEF Boot
<1>2. queue' = queue \/ (boot.pc = "lookup" /\ queue' = Enqueued(boot.cur.id))
  BY DEF Boot, BootNonce, BootRead, BootReceipt, BootFail, BootLookup
<1>3. \A i \in DOMAIN queue' : queue'[i] \in Settlements /\ row[queue'[i]].status # "NONE"
  <2>1. CASE queue' = queue
    BY <2>1, RowsFacts
  <2>2. CASE boot.pc = "lookup" /\ queue' = Enqueued(boot.cur.id)
    <3>1. boot.cur.id \in Settlements /\ row[boot.cur.id].status # "NONE"
      BY <2>2, RowsFacts DEF OnChain, EventStatuses
    <3>2. \A i \in DOMAIN queue' :
            \/ i \in DOMAIN queue /\ queue'[i] = queue[i]
            \/ queue'[i] = boot.cur.id
      BY <2>2, <3>1, EnqueuedFacts DEF RailInv
    <3> QED
      BY <3>1, <3>2, RowsFacts
  <2> QED
    BY <1>2, <2>1, <2>2
<1> QED
  BY <1>a, <1>b, <1>1, <1>3, RowsFacts, RowsAdvance

LEMMA SubmitKeepsRows ==
  ASSUME RailInv, NEW s \in Settlements, Approve(s) \/ Enqueue(s)
  PROVE  RelayerRows'
<1>a. RelayerWrites
  BY SubmitWrites DEF Submit
<1>b. UNCHANGED <<worker, sweep, boot>>
  BY DEF Approve, Enqueue
<1>1. CASE Approve(s)
  <2>1. row'[s].status # "NONE" /\ requests' = requests \cup {s} /\ queue' = queue
    BY <1>1, TransitionFacts DEF Approve, RailInv, TypeInv, TypeOK, StateTypeOK, Row
  <2> QED
    BY <1>a, <1>b, <2>1, RowsFacts, RowsAdvance
<1>2. CASE Enqueue(s)
  <2>1. s \in requests /\ requests' \subseteq requests /\ queue' = Enqueued(s)
    BY <1>2 DEF Enqueue
  <2>2. \A i \in DOMAIN queue' :
          \/ i \in DOMAIN queue /\ queue'[i] = queue[i]
          \/ queue'[i] = s
    BY <2>1, EnqueuedFacts DEF RailInv
  <2>3. \A i \in DOMAIN queue' : queue'[i] \in Settlements /\ row[queue'[i]].status # "NONE"
    BY <2>1, <2>2, RowsFacts
  <2> QED
    BY <1>a, <1>b, <2>1, <2>3, RowsFacts, RowsAdvance
<1> QED
  BY <1>1, <1>2

LEMMA WorkerKeepsRows ==
  ASSUME RailInv, Worker
  PROVE  RelayerRows'
<1>a. RelayerWrites
  BY WorkerWrites
<1>b. UNCHANGED <<requests, sweep, boot>>
  BY DEF Worker, TakeJob, SkipJob, LoseJob, SendAck, SendLost, SendRefused,
     SendTransient, SendUnderpriced, SendPermanent, Resync, Record, RecordThrows, Fail, WorkerThrows
<1>1. CASE NextJob
  <2>1. /\ 1 \in DOMAIN queue /\ queue[1] = Head(queue) /\ Head(queue) \in Settlements
        /\ \A i \in DOMAIN queue' : i + 1 \in DOMAIN queue /\ queue'[i] = queue[i + 1]
    BY <1>1, DequeuedFacts DEF RailInv
  <2>2. \A i \in DOMAIN queue' : queue'[i] \in Settlements /\ row[queue'[i]].status # "NONE"
    BY <2>1, RowsFacts
  <2>3. row[Head(queue)].status # "NONE"
    BY <2>1, RowsFacts
  <2>4. CASE worker' = worker
    BY <1>a, <1>b, <2>2, <2>4, RowsFacts, RowsAdvance
  <2>5. CASE TakeJob
    <3>1. worker'.id = Head(queue)
      BY <2>5 DEF TakeJob
    <3> QED
      BY <1>a, <1>b, <2>1, <2>2, <2>3, <3>1, RowsFacts, RowsAdvance
  <2>6. worker' = worker \/ TakeJob
    BY <1>1 DEF NextJob, Worker, SkipJob, LoseJob, SendAck, SendLost, SendRefused,
       SendTransient, SendUnderpriced, SendPermanent, Resync, Record, RecordThrows, Fail, WorkerThrows
  <2> QED
    BY <2>4, <2>5, <2>6
<1>2. CASE queue' = queue /\ worker.pc # "idle" /\ (worker'.pc = "idle" \/ worker'.id = worker.id)
  BY <1>a, <1>b, <1>2, RowsFacts, RowsAdvance
<1>3. CASE SendAck \/ SendLost \/ SendRefused \/ SendTransient \/ SendUnderpriced \/ SendPermanent \/ Resync
  <2>1. worker'.id = worker.id
    BY <1>3 DEF SendAck, SendLost, SendRefused, SendTransient, SendUnderpriced, SendPermanent,
       Resync, Retry, RailInv, TypeInv, TypeOK, RelayerTypeOK, WorkerTypeOK
  <2>2. queue' = queue /\ worker.pc # "idle"
    BY <1>3 DEF SendAck, SendLost, SendRefused, SendTransient, SendUnderpriced, SendPermanent, Resync
  <2> QED
    BY <1>2, <2>1, <2>2
<1>4. CASE RecordThrows
  <2>1. worker'.id = worker.id
    BY <1>4 DEF RecordThrows, Retry, RailInv, TypeInv, TypeOK, RelayerTypeOK, WorkerTypeOK
  <2> QED
    BY <1>2, <1>4, <2>1 DEF RecordThrows
<1>5. CASE Record \/ Fail \/ WorkerThrows
  BY <1>2, <1>5 DEF Record, Fail, WorkerThrows, WorkerIdle
<1> QED
  BY <1>1, <1>3, <1>4, <1>5 DEF Worker, TakeJob, SkipJob, LoseJob

LEMMA SweepKeepsRows ==
  ASSUME RailInv, Sweep
  PROVE  RelayerRows'
<1>a. RelayerWrites
  BY SweepWrites
<1>b. UNCHANGED <<requests, queue, worker, boot>>
  BY DEF Sweep, SweepRead, SweepMined, SweepNotStale, SweepStale, ResendAck,
     ResendLost, ResendRefused, ResendPermanent, ResendRecord, ResendRecordThrows, SweepFail, SweepThrows
<1> DEFINE Listed == sweep'.list \subseteq sweep.list \cup SnapshotsOf({"SUBMITTED"})
           Kept == sweep'.pc \in {"send", "record", "fail"} =>
                     \/ sweep'.cur \in sweep.list
                     \/ sweep.pc \in {"send", "record", "fail"} /\ sweep'.cur = sweep.cur
<1>c. SUFFICES Listed /\ Kept
  BY <1>a, <1>b, RowsFacts, RowsAdvance
<1>d. ASSUME NEW snap, SweepNext(snap)
      PROVE  Listed /\ Kept
  BY <1>d, SweepNextFacts
<1>1. CASE SweepRead \/ SweepThrows
  <2>1. /\ sweep'.list \in {{}, SnapshotsOf({"SUBMITTED"})}
        /\ sweep'.pc \in {"idle", "each"}
    <3>1. CASE SweepRead
      BY <3>1 DEF SweepRead, RailInv, TypeInv, TypeOK, RelayerTypeOK, SweepTypeOK
    <3>2. CASE SweepThrows
      BY <3>2 DEF SweepThrows, SweepIdle
    <3> QED
      BY <1>1, <3>1, <3>2
  <2> QED
    BY <2>1
<1>2. CASE ResendAck \/ ResendPermanent
  <2>1. sweep.pc = "send" /\ sweep'.list = sweep.list /\ sweep'.cur = sweep.cur
    BY <1>2 DEF ResendAck, ResendPermanent, RailInv, TypeInv, TypeOK, RelayerTypeOK, SweepTypeOK
  <2> QED
    BY <2>1
<1>3. ASSUME NEW snap \in sweep.list, SweepStale(snap)
      PROVE  Listed /\ Kept
  <2>1. sweep'.list = sweep.list /\ sweep'.cur = snap
    BY <1>3 DEF SweepStale, RailInv, TypeInv, TypeOK, RelayerTypeOK, SweepTypeOK
  <2> QED
    BY <2>1
<1>4. CASE (\E snap \in sweep.list : SweepMined(snap) \/ SweepNotStale(snap))
           \/ ResendLost \/ ResendRefused \/ ResendRecord \/ ResendRecordThrows \/ SweepFail
  <2>1. \E snap : SweepNext(snap)
    BY <1>4 DEF SweepMined, SweepNotStale, ResendLost, ResendRefused, ResendRecord,
       ResendRecordThrows, SweepFail
  <2> QED
    BY <1>d, <2>1
<1> HIDE DEF Listed, Kept
<1> QED
  BY <1>1, <1>3, <1>2, <1>4 DEF Sweep

LEMMA RelayerKeepsRows ==
  ASSUME RailInv, RelayerStep
  PROVE  RelayerRows'
<1>1. CASE Drain
  BY <1>1, RowsFacts, RowsAdvance DEF Drain, RelayerWrites
<1> QED
  BY <1>1, BootKeepsRows, SubmitKeepsRows, WorkerKeepsRows, SweepKeepsRows DEF RelayerStep, Submit

----------------------------------------------------------------------------
(* The invariant of the rail. *)

LEMMA RailInitInv ==
  ASSUME RailInit
  PROVE  RailInv
<1>1. TypeInv
  BY InitType DEF RailInit
<1>2. /\ row = [s \in Settlements |-> NoRow] /\ Len(blocks) = 0
      /\ watcher = [w \in Watchers |-> WatcherIdle] /\ LedgerInit
  BY DEF RailInit, Init, ChainInit, StateInit, ListenerInit
<1>3. LedgerTypeOK /\ LedgerBalanced
  BY <1>2 DEF LedgerInit, LedgerTypeOK, LedgerBalanced, Accounts
<1>4. ListenerTypeOK
  BY <1>2, <1>3, IdleType, WatchersType
<1>5. RowsOnChain /\ FinalIsBooked
  BY <1>2 DEF RowsOnChain, NoRow, OpenStatuses, FinalIsBooked
<1>6. \A w \in Watchers : Sound(watcher[w])
  BY <1>2 DEF Sound, WatcherIdle, Deciding
<1>7. RelayerRows
  BY DEF RailInit, Init, RelayerInit, WorkerIdle, BootDown, SweepIdle, RelayerRows
<1> QED
  BY <1>1, <1>3, <1>4, <1>5, <1>6, <1>7 DEF RailInv, ListenerInv

LEMMA RailStep ==
  ASSUME RailInv, [RailNext]_railVars
  PROVE  RailInv'
<1>1. CASE RelayerStep
  <2>1. TypeInv'
    BY <1>1, TypeStep DEF RelayerStep, RelayerNext, Next, RailInv
  <2> QED
    BY <1>1, <2>1, RelayerKeepsListener, RelayerKeepsRows DEF RailInv
<1>2. CASE ListenerStep
  BY <1>2, ListenerKeepsRelayer, WatchKeeps
     DEF RailInv, ListenerStep, TypeInv, TypeOK, TablesTypeOK
<1>3. CASE RailCrash
  <2>1. Crash
    BY <1>3 DEF RailCrash, Crash
  <2>2. TypeInv'
    BY <2>1, TypeStep DEF RelayerNext, Next, RailInv
  <2>3. ListenerInv'
    BY <1>3, ExitKeepsListener DEF RailCrash, RailInv, TypeInv, TypeOK, stateVars
  <2>4. RelayerRows'
    BY <1>3 DEF RailCrash, Exit, WorkerIdle, BootDown, SweepIdle, RelayerRows
  <2> QED
    BY <2>2, <2>3, <2>4 DEF RailInv
<1>4. CASE ChainStep
  <2>1. TypeInv'
    BY <1>4, TypeStep DEF ChainStep, Next, RailInv
  <2>2. ListenerInv'
    BY <1>4, ChainKeepsListener DEF ChainStep, RailInv, TypeInv, TypeOK, stateVars
  <2>3. RelayerRows'
    BY <1>4, AdvancedRows DEF ChainStep, stateVars, OnChain
  <2> QED
    BY <2>1, <2>2, <2>3 DEF RailInv
<1>5. CASE UNCHANGED railVars
  <2>1. UNCHANGED vars /\ UNCHANGED listenerVars
    BY <1>5 DEF railVars
  <2>2. TypeInv'
    BY <2>1, TypeStep DEF RailInv
  <2>3. RelayerRows'
    BY <2>1, AdvancedRows DEF vars, stateVars, OnChain
  <2>4. ListenerInv'
    BY <2>1, LenIsNat, OutsideStep, WatchersType
       DEF vars, chainVars, stateVars, listenerVars, RailInv, TypeInv, TypeOK, ListenerInv
  <2> QED
    BY <2>2, <2>3, <2>4 DEF RailInv
<1> QED
  BY <1>1, <1>2, <1>3, <1>4, <1>5 DEF RailNext

LEMMA RailInvariant == RailSpec => []RailInv
BY RailInitInv, RailStep, PTL DEF RailSpec

\* RailTypeOK: every variable of the rail keeps its type.
THEOREM RailTypeCorrect == RailSpec => []RailTypeOK
<1>1. RailInv => RailTypeOK
  BY DEF RailInv, TypeInv, ListenerInv, RailTypeOK
<1> QED
  BY <1>1, RailInvariant, PTL

\* FinalIsBooked, on the whole rail: no settlement is FINAL without its ledger
\* rows, although the relayer and the listener write the same rows and the
\* process may exit between the booking and the status (finalize).
THEOREM RailFinalAfterBooking == RailSpec => []FinalIsBooked
<1>1. RailInv => FinalIsBooked
  BY DEF RailInv, ListenerInv
<1> QED
  BY <1>1, RailInvariant, PTL

----------------------------------------------------------------------------
(* What is booked was paid, and stays paid. *)

LEMMA RelayerStepKeeps ==
  ASSUME RelayerStep
  PROVE  UNCHANGED blocks /\ UNCHANGED <<ledger, watcher>>
BY RelayerKeepsBlocks DEF RelayerStep, RelayerNext, listenerVars

LEMMA DeepStep ==
  ASSUME RailInv, MaxReorgDepth < ConfirmationsFinal, DeepInv, [RailNext]_railVars
  PROVE  DeepInv'
<1>1. ChainTypeOK /\ TablesTypeOK /\ ListenerInv
  BY DEF RailInv, TypeInv, TypeOK, TablesTypeOK
<1>2. CASE RelayerStep
  BY <1>1, <1>2, RelayerStepKeeps, OutsideKeepsDeep
<1>3. CASE ListenerStep
  BY <1>1, <1>3, WatchKeepsDeep DEF ListenerStep
<1>4. CASE RailCrash
  BY <1>1, <1>4, OutsideKeepsDeep DEF RailCrash
<1>5. CASE ChainStep
  BY <1>1, <1>5, OutsideKeepsDeep DEF ChainStep, listenerVars
<1>6. CASE UNCHANGED railVars
  BY <1>1, <1>6, OutsideKeepsDeep DEF railVars, vars, chainVars, listenerVars
<1> QED
  BY <1>2, <1>3, <1>4, <1>5, <1>6 DEF RailNext

\* BookedStaysPaid, on the whole rail: whatever hashes and statuses the relayer
\* writes meanwhile, what the ledger holds was paid, deeper than any
\* reorganisation reaches.
THEOREM RailLedgerFollowsChain ==
  ASSUME MaxReorgDepth < ConfirmationsFinal
  PROVE  RailSpec => []BookedStaysPaid
<1>1. RailInit => DeepInv
  BY DEF RailInit, ListenerInit, LedgerInit, WatcherIdle, DeepInv, Booked
<1>2. RailInv /\ DeepInv /\ [RailNext]_railVars => DeepInv'
  BY DeepStep
<1> QED
  BY <1>1, <1>2, DeepIsPaid, RailInvariant, PTL DEF RailSpec

----------------------------------------------------------------------------
(* A FINAL settlement was paid in the block of its confirmation. *)

PaidIn(s, block) ==
  \E i \in Nat : DeepPayment(s, i) /\ [height |-> i, fork |-> blocks[i].fork] = block

\* A watcher that finalises holds a copy of the row whose block, if it names one,
\* holds the payment, deeper than any reorganisation reaches.
CanonicalInv ==
  \A w \in Watchers :
    /\ watcher[w].pc \in Deciding
    /\ watcher[w].to = "FINAL"
    /\ watcher[w].cur.cblock # Null
    => PaidIn(watcher[w].cur.id, watcher[w].cur.cblock)

LEMMA PaidInStays ==
  ASSUME ChainTypeOK, ChainNext \/ UNCHANGED blocks, NEW s, NEW block, PaidIn(s, block)
  PROVE  PaidIn(s, block)'
<1>1. PICK i \in Nat : DeepPayment(s, i) /\ [height |-> i, fork |-> blocks[i].fork] = block
  BY DEF PaidIn
<1>2. DeepPayment(s, i)' /\ blocks'[i] = blocks[i]
  BY <1>1, DeepPaymentStays DEF DeepPayment, Payments
<1> QED
  BY <1>1, <1>2 DEF PaidIn

\* What a step does to one watcher, wherever the step comes from.
LEMMA RailMoves ==
  ASSUME RailInv, [RailNext]_railVars, NEW v \in Watchers
  PROVE  \/ (ChainNext \/ UNCHANGED blocks) /\ (watcher'[v] = watcher[v] \/ Rests(v))
         \/ ListenerStep /\ Moves(v)
<1>1. CASE RelayerStep
  BY <1>1, RelayerStepKeeps
<1>2. CASE ListenerStep
  BY <1>2, WatcherMoves DEF ListenerStep, RailInv
<1>3. CASE RailCrash
  BY <1>3 DEF RailCrash, ListenerExit, WatcherIdle, Rests, Deciding
<1>4. CASE ChainStep
  BY <1>4 DEF ChainStep, listenerVars
<1>5. CASE UNCHANGED railVars
  BY <1>5 DEF railVars, vars, chainVars, listenerVars
<1> QED
  BY <1>1, <1>2, <1>3, <1>4, <1>5 DEF RailNext

\* A FINAL verdict compared the block of the copy with the receipt's.
LEMMA DecidesCanonical ==
  ASSUME RailInv, MaxReorgDepth < ConfirmationsFinal, NEW v \in Watchers, Decides(v),
         watcher'[v].to = "FINAL", watcher'[v].cur.cblock # Null
  PROVE  PaidIn(watcher'[v].cur.id, watcher'[v].cur.cblock)
<1>1. PICK o : o = watcher'[v].cur
  OBVIOUS
<1>2. o \in watcher[v].list /\ Verdict(v, o, Receipt(o.tx)) = "FINAL"
  BY <1>1 DEF Decides
<1>3. \E i \in Nat : /\ DeepPayment(o.id, i)
                     /\ o.cblock \in {Null, [height |-> i, fork |-> blocks[i].fork]}
  BY <1>2, FinalVerdictIsDeep DEF RailInv, TypeInv, TypeOK, TablesTypeOK
<1>4. PaidIn(o.id, o.cblock)
  BY <1>1, <1>3 DEF PaidIn
<1> QED
  BY <1>1, <1>4

LEMMA CanonicalStep ==
  ASSUME MaxReorgDepth < ConfirmationsFinal, RailInv, CanonicalInv, [RailNext]_railVars
  PROVE  CanonicalInv'
<1> SUFFICES ASSUME NEW v \in Watchers, watcher'[v].pc \in Deciding,
                    watcher'[v].to = "FINAL", watcher'[v].cur.cblock # Null
             PROVE  PaidIn(watcher[v].cur.id, watcher[v].cur.cblock)'
  BY DEF CanonicalInv, Watchers
<1>1. PICK o : o = watcher'[v].cur
  OBVIOUS
<1>2. ChainNext \/ UNCHANGED blocks
  BY RailMoves, WatchKeeps DEF ListenerStep, RailInv, TypeInv, TypeOK, TablesTypeOK
<1>3. ASSUME watcher[v].pc \in Deciding, watcher[v].to = "FINAL", watcher[v].cur = o
      PROVE  PaidIn(o.id, o.cblock)
  <2>1. PaidIn(watcher[v].cur.id, watcher[v].cur.cblock)
    BY <1>1, <1>3 DEF CanonicalInv
  <2> QED
    BY <1>3, <2>1
<1>4. PaidIn(o.id, o.cblock)
  <2>1. CASE watcher'[v] = watcher[v]
    BY <1>1, <1>3, <2>1
  <2>2. CASE Rests(v) \/ Reads(v)
    BY <2>2 DEF Rests, Reads, Deciding
  <2>3. CASE Decides(v)
    BY <1>1, <2>3, DecidesCanonical
  <2>4. CASE Proceeds(v, "book", "check") \/ Proceeds(v, "check", "write")
    BY <1>1, <1>3, <2>4 DEF Proceeds, Deciding
  <2> QED
    BY <2>1, <2>2, <2>3, <2>4, RailMoves DEF Moves
<1>5. PaidIn(o.id, o.cblock)'
  BY <1>2, <1>4, PaidInStays DEF RailInv, TypeInv, TypeOK
<1> QED
  BY <1>1, <1>5 DEF PaidIn

\* FinalBlockIsCanonical: when reorganisations are shallower than
\* CONFIRMATIONS_FINAL, a watcher finalises no settlement for a payment in
\* another block than the one its copy of the row names (processReceipt), and
\* that block is still there when FINAL is written.
THEOREM FinalInConfirmedBlock ==
  ASSUME MaxReorgDepth < ConfirmationsFinal
  PROVE  RailSpec => []FinalBlockIsCanonical
<1>1. RailInit => CanonicalInv
  BY DEF RailInit, ListenerInit, WatcherIdle, Deciding, CanonicalInv
<1>2. RailInv /\ CanonicalInv /\ [RailNext]_railVars => CanonicalInv'
  BY CanonicalStep
<1>3. CanonicalInv => FinalBlockIsCanonical
  BY DEF CanonicalInv, FinalBlockIsCanonical, PaidIn, DeepPayment, Deciding
<1> QED
  BY <1>1, <1>2, <1>3, RailInvariant, PTL DEF RailSpec

----------------------------------------------------------------------------
(* The rail implements Lifecycle. *)

\* What watcher w decided.
DueOf(w) == [by |-> w, of |-> watcher[w].cur.id, to |-> watcher[w].to]

\* The settlement a deciding watcher holds was broadcast.
LEMMA HeldRow ==
  ASSUME ListenerInv, NEW w \in Watchers, watcher[w].pc \in Deciding
  PROVE  /\ watcher[w].cur.id \in Settlements /\ OnChain(watcher[w].cur.id)
         /\ watcher[w].to \in {"SUBMITTED", "CONFIRMED", "FINAL", "FAILED"}
         /\ watcher[w].pc \in {"check", "write"} /\ watcher[w].to = "FINAL"
              => Booked(watcher[w].cur.id)
<1>1. watcher[w] \in WatcherRecord /\ Sound(watcher[w])
  BY WatcherFields
<1> QED
  BY <1>1 DEF WatcherRecord, Sound, OpenRow, Deciding

LEMMA DueFacts == \A d : d \in Due <=> \E w \in Watchers : watcher[w].pc = "write" /\ d = DueOf(w)
BY DEF Due, DueOf

LEMMA DueFactsNext ==
  \A d : d \in Due' <=> \E w \in Watchers : watcher'[w].pc = "write"
                          /\ d = [by |-> w, of |-> watcher'[w].cur.id, to |-> watcher'[w].to]
BY DEF Due

LEMMA SameDue ==
  ASSUME UNCHANGED watcher
  PROVE  Due' = Due
BY DEF Due

\* Watchers that are interrupted announce nothing more.
LEMMA LessDue ==
  ASSUME \A w \in Watchers : watcher'[w] = watcher[w] \/ watcher'[w].pc # "write"
  PROVE  Due' \subseteq Due
BY DueFacts, DueFactsNext DEF DueOf

\* A step of one watcher that ends no decision and takes none.
LEMMA OtherDue ==
  ASSUME NEW w \in Watchers, NEW r, watcher' = [watcher EXCEPT ![w] = r],
         watcher[w].pc # "write", r.pc # "write", ListenerTypeOK
  PROVE  Due' = Due
<1>1. watcher'[w] = r /\ \A v \in Watchers \ {w} : watcher'[v] = watcher[v]
  BY DEF ListenerTypeOK
<1>2. \A d : d \in Due' <=> d \in Due
  BY <1>1, DueFacts, DueFactsNext DEF DueOf
<1> QED
  BY <1>2

LEMMA SameLifecycle ==
  ASSUME UNCHANGED outbox, UNCHANGED ledger, Due' = Due,
         \A s \in Settlements : row'[s].status = row[s].status
  PROVE  UNCHANGED Promise!lifecycleVars
BY DEF Promise!lifecycleVars, Booked

LEMMA TransitionAnnounces ==
  ASSUME StateTypeOK, NEW s \in Settlements, NEW next, next.status \in EventStatuses,
         Transition(s, next), UNCHANGED ledger
  PROVE  Promise!Announce(s, next.status)
<1>1. [u \in Settlements |-> row'[u].status]
        = [[u \in Settlements |-> row[u].status] EXCEPT ![s] = next.status]
  BY TransitionFacts
<1>2. outbox' = [outbox EXCEPT ![s] = Append(@, next.status)]
  BY DEF Transition
<1>3. {u \in Settlements : Booked(u)}' = {u \in Settlements : Booked(u)}
  BY DEF Booked
<1> QED
  BY <1>1, <1>2, <1>3 DEF Promise!Announce

LEMMA RelayerPromise ==
  ASSUME RailInv, RelayerStep
  PROVE  Promise!Step \/ UNCHANGED Promise!lifecycleVars
<1>1. ledger' = ledger /\ RelayerWrites /\ StateTypeOK /\ Due' = Due
  BY RelayerStepKeeps, RelayerStepWrites, SameDue DEF RailInv, TypeInv, TypeOK
<1>2. CASE UNCHANGED stateVars
  BY <1>1, <1>2, SameLifecycle DEF stateVars
<1>3. ASSUME NEW s \in Settlements, NEW next \in Row, Resent(s, next)
      PROVE  UNCHANGED Promise!lifecycleVars
  <2>1. \A u \in Settlements : row'[u].status = row[u].status
    BY <1>1, <1>3 DEF Resent, StateTypeOK
  <2> QED
    BY <1>1, <1>3, <2>1, SameLifecycle DEF Resent
<1>4. ASSUME NEW s \in Settlements, NEW next \in Row, Moved(s, next)
      PROVE  Promise!Step
  <2> DEFINE status == [u \in Settlements |-> row[u].status]
  <2>1. status[s] = row[s].status /\ Transition(s, next)
    BY <1>4 DEF Moved
  <2>2. CASE next.status \in {"SUBMITTED", "FAILED"} /\ row[s].status # "NONE"
    <3>1. PICK to \in {"SUBMITTED", "FAILED"} : to = next.status
      BY <2>2
    <3>2. Promise!Announce(s, to)
      BY <1>1, <2>1, <3>1, TransitionAnnounces DEF EventStatuses
    <3>3. Promise!Relayed(s)
      BY <1>1, <2>1, <2>2, <3>2 DEF Promise!Relayed
    <3> QED
      BY <3>3 DEF Promise!Step
  <2>3. CASE row[s].status = "NONE" /\ next.status = "COMPLIANCE_APPROVED"
    <3>1. [u \in Settlements |-> row'[u].status] = [status EXCEPT ![s] = "COMPLIANCE_APPROVED"]
      BY <1>1, <2>1, <2>3, TransitionFacts
    <3>2. outbox' = outbox
      BY <2>1, <2>3 DEF Transition, EventStatuses
    <3>3. {u \in Settlements : Booked(u)}' = {u \in Settlements : Booked(u)}
      BY <1>1 DEF Booked
    <3>4. Promise!Accept(s)
      BY <1>1, <2>3, <3>1, <3>2, <3>3 DEF Promise!Accept
    <3> QED
      BY <3>4 DEF Promise!Step
  <2> QED
    BY <1>4, <2>2, <2>3 DEF Moved
<1> QED
  BY <1>1, <1>2, <1>3, <1>4 DEF RelayerWrites

LEMMA BookPromise ==
  ASSUME RailInv, NEW w \in Watchers, BookFinal(w)
  PROVE  Promise!Step \/ UNCHANGED Promise!lifecycleVars
<1> DEFINE s == watcher[w].cur.id
<1>1. s \in Settlements /\ OnChain(s)
  BY HeldRow DEF BookFinal, RailInv, Deciding
<1>2. /\ Book(s) /\ row' = row /\ outbox' = outbox
      /\ \A u \in Settlements : Booked(u)' <=> Booked(u) \/ u = s
  BY <1>1, BookFacts DEF BookFinal, stateVars, RailInv, ListenerInv, ListenerTypeOK
<1>3. Due' = Due
  <2>1. watcher[w].pc = "book"
    BY DEF BookFinal
  <2>2. watcher' = [watcher EXCEPT ![w] = [watcher[w] EXCEPT !.pc = "check"]]
    BY DEF BookFinal
  <2>3. [watcher[w] EXCEPT !.pc = "check"].pc = "check"
    BY WatcherFields DEF RailInv, WatcherRecord
  <2> QED
    BY <2>1, <2>2, <2>3, OtherDue DEF RailInv, ListenerInv
<1> HIDE DEF s
<1>4. CASE Booked(s)
  <2>1. ledger' = ledger
    BY <1>2, <1>4 DEF Book
  <2> QED
    BY <1>2, <1>3, <2>1, SameLifecycle
<1>5. CASE ~ Booked(s)
  <2>1. {u \in Settlements : Booked(u)'} = {u \in Settlements : Booked(u)} \cup {s}
    BY <1>1, <1>2
  <2>2. [u \in Settlements |-> row[u].status][s] \notin Promise!Accepted
    BY <1>1 DEF OnChain, EventStatuses, Promise!Accepted
  <2>3. s \notin {u \in Settlements : Booked(u)}
    BY <1>5
  <2>4. Promise!Booking(s)
    BY <1>2, <1>3, <2>1, <2>2, <2>3 DEF Promise!Booking
  <2> QED
    BY <1>1, <2>4 DEF Promise!Step
<1> QED
  BY <1>4, <1>5

\* The guard of a transition is the decision.
LEMMA CheckPromise ==
  ASSUME RailInv, NEW w \in Watchers, CheckGuard(w)
  PROVE  Promise!Step \/ UNCHANGED Promise!lifecycleVars
<1> DEFINE cur == watcher[w].cur
<1>1. /\ ListenerTypeOK /\ ListenerInv /\ watcher \in [Watchers -> WatcherRecord]
      /\ watcher[w] \in WatcherRecord /\ watcher[w].pc = "check"
  BY WatchersType DEF RailInv, ListenerInv, CheckGuard
<1>2. UNCHANGED <<row, outbox, ledger>>
  BY DEF CheckGuard, stateVars
<1>3. CASE row[cur.id].status \notin ExpectedFrom(watcher[w].to)
  <2>1. watcher' = [watcher EXCEPT ![w] = After(w, cur)] /\ After(w, cur).pc # "write"
    BY <1>1, <1>3, AfterFacts DEF CheckGuard
  <2>2. Due' = Due
    BY <1>1, <2>1, OtherDue
  <2> QED
    BY <1>2, <2>2, SameLifecycle
<1>4. CASE row[cur.id].status \in ExpectedFrom(watcher[w].to)
  <2>1. PICK s \in Settlements : s = cur.id
    BY <1>1, HeldRow DEF Deciding
  <2>2. PICK to \in {"SUBMITTED", "CONFIRMED", "FINAL", "FAILED"} : to = watcher[w].to
    BY <1>1, HeldRow DEF Deciding
  <2>3. /\ watcher'[w].pc = "write" /\ watcher'[w].cur.id = s /\ watcher'[w].to = to
        /\ \A v \in Watchers \ {w} : watcher'[v] = watcher[v]
    <3>1. watcher' = [watcher EXCEPT ![w] = [watcher[w] EXCEPT !.pc = "write"]]
      BY <1>4 DEF CheckGuard
    <3>2. watcher'[w] = [watcher[w] EXCEPT !.pc = "write"]
      BY <1>1, <3>1
    <3> QED
      BY <1>1, <2>1, <2>2, <3>1, <3>2 DEF WatcherRecord
  <2>4. \A d \in Due : d.by # w
    BY <1>1, DueFacts DEF DueOf
  <2>5. Due' = Due \cup {[by |-> w, of |-> s, to |-> to]}
    <3>1. \A d : d \in Due' <=> d \in Due \/ d = [by |-> w, of |-> s, to |-> to]
      BY <1>1, <2>3, DueFacts, DueFactsNext DEF DueOf
    <3> QED
      BY <3>1
  <2>6. [u \in Settlements |-> row[u].status][s] \in Promise!From(to)
    BY <1>4, <2>1, <2>2 DEF ExpectedFrom, Promise!From
  <2>7. to = "FINAL" => s \in {u \in Settlements : Booked(u)}
    BY <1>1, <2>1, <2>2, HeldRow DEF Deciding
  <2>8. {u \in Settlements : Booked(u)}' = {u \in Settlements : Booked(u)}
    BY <1>2 DEF Booked
  <2>9. Promise!Decide(w, s, to)
    BY <1>2, <2>4, <2>5, <2>6, <2>7, <2>8 DEF Promise!Decide
  <2> QED
    BY <2>9 DEF Promise!Step
<1> QED
  BY <1>3, <1>4

\* The UPDATE of a transition announces what was decided.
LEMMA WritePromise ==
  ASSUME RailInv, NEW w \in Watchers, WriteStatus(w)
  PROVE  Promise!Step
<1>1. /\ ListenerInv /\ ListenerTypeOK /\ TablesTypeOK /\ StateTypeOK
      /\ watcher \in [Watchers -> WatcherRecord] /\ watcher[w] \in WatcherRecord
  BY WatchersType DEF RailInv, TypeInv, TypeOK, TablesTypeOK, ListenerInv
<1>2. PICK s \in Settlements : s = watcher[w].cur.id
  BY <1>1, WriteFacts
<1>3. PICK to \in EventStatuses : to = watcher[w].to
  BY <1>1, WriteFacts
<1>4. PICK next \in Row : next = VerdictRow(w)
  BY <1>1, WriteFacts
<1>5. next.status = to
  BY <1>1, <1>3, <1>4, WriteFacts, VerdictRowFacts DEF EventStatuses
<1>6. Transition(s, next) /\ ledger' = ledger /\ watcher[w].pc = "write"
  BY <1>2, <1>4 DEF WriteStatus, Transition
<1>7. PICK d : d = [by |-> w, of |-> s, to |-> to]
  OBVIOUS
<1>8. d \in Due
  BY <1>2, <1>3, <1>6, <1>7, DueFacts DEF DueOf
<1>9. Due' = Due \ {d}
  <2>1. /\ watcher'[w] = After(w, watcher[w].cur)
        /\ \A v \in Watchers \ {w} : watcher'[v] = watcher[v]
    BY <1>1 DEF WriteStatus
  <2>2. watcher'[w].pc # "write"
    BY <1>1, <2>1, AfterFacts
  <2>3. \A e : e \in Due' <=> e \in Due /\ e # d
    BY <1>2, <1>3, <1>7, <2>1, <2>2, DueFacts, DueFactsNext DEF DueOf
  <2> QED
    BY <2>3
<1>10. Promise!Announce(s, to)
  BY <1>1, <1>5, <1>6, TransitionAnnounces
<1>11. Promise!Watched(d)
  BY <1>7, <1>8, <1>9, <1>10 DEF Promise!Watched
<1> QED
  BY <1>8, <1>11 DEF Promise!Step

\* What only reads the tables leaves what is decided alone.
LEMMA ReadPromise ==
  ASSUME RailInv, Watch, ~ PollThrows,
         \A w \in Watchers : ~ (BookFinal(w) \/ CheckGuard(w) \/ WriteStatus(w))
  PROVE  UNCHANGED Promise!lifecycleVars
<1>1. ListenerTypeOK /\ watcher \in [Watchers -> WatcherRecord] /\ Poll \in Watchers
  BY WatchersType DEF RailInv, ListenerInv, Watchers
<1>2. UNCHANGED <<row, outbox, ledger>>
  BY DEF Watch, PollRead, EventRead, Continue, ReadHead, ReadReceipt, stateVars
<1>3. PICK w \in Watchers : \/ w = Poll /\ PollRead
                            \/ w \in EventHandlers /\ \E s \in Settlements : EventRead(w, s)
                            \/ ReadHead(w)
                            \/ \E o \in watcher[w].list : ReadReceipt(w, o)
  BY <1>1 DEF Watch, Continue, Watchers
<1>4. /\ watcher[w].pc # "write" /\ watcher'[w].pc # "write"
      /\ \A v \in Watchers \ {w} : watcher'[v] = watcher[v]
  <2>1. CASE w = Poll /\ PollRead
    BY <1>1, <2>1 DEF PollRead, WatcherIdle
  <2>2. CASE \E s \in Settlements : EventRead(w, s)
    BY <1>1, <2>2 DEF EventRead, WatcherIdle
  <2>3. CASE ReadHead(w)
    BY <1>1, <2>3 DEF ReadHead, WatcherRecord
  <2>4. CASE \E o \in watcher[w].list : ReadReceipt(w, o)
    BY <1>1, <2>4, AfterFacts DEF ReadReceipt, WatcherRecord
  <2> QED
    BY <1>3, <2>1, <2>2, <2>3, <2>4
<1>5. \A d : d \in Due' <=> d \in Due
  BY <1>4, DueFacts, DueFactsNext DEF DueOf
<1> QED
  BY <1>2, <1>5, SameLifecycle

\* A rejected call of the poll and an exit forget what was decided.
LEMMA ForgetPromise ==
  ASSUME RailInv, PollThrows \/ RailCrash
  PROVE  Promise!Step
<1>1. watcher \in [Watchers -> WatcherRecord] /\ Poll \in Watchers
  BY WatchersType DEF RailInv, ListenerInv, Watchers
<1>2. \A w \in Watchers : watcher'[w] = watcher[w] \/ watcher'[w].pc # "write"
  BY <1>1 DEF PollThrows, RailCrash, ListenerExit, WatcherIdle
<1>3. Due' \in SUBSET Due
  BY <1>2, LessDue
<1>4. UNCHANGED <<row, outbox, ledger>>
  BY DEF PollThrows, RailCrash, stateVars
<1>5. {u \in Settlements : Booked(u)}' = {u \in Settlements : Booked(u)}
  BY <1>4 DEF Booked
<1>6. Promise!Forget
  BY <1>3, <1>4, <1>5 DEF Promise!Forget
<1> QED
  BY <1>6 DEF Promise!Step

LEMMA PromiseStep ==
  ASSUME RailInv, [RailNext]_railVars
  PROVE  [Promise!Step]_(Promise!lifecycleVars)
<1>1. CASE RelayerStep
  BY <1>1, RelayerPromise
<1>2. CASE ListenerStep
  <2>1. Watch
    BY <1>2 DEF ListenerStep
  <2> QED
    BY <2>1, WritePromise, CheckPromise, BookPromise, ForgetPromise, ReadPromise
<1>3. CASE RailCrash
  BY <1>3, ForgetPromise
<1>4. CASE ChainStep \/ UNCHANGED railVars
  <2>1. UNCHANGED stateVars /\ ledger' = ledger /\ watcher' = watcher
    BY <1>4 DEF ChainStep, railVars, vars, listenerVars
  <2> QED
    BY <2>1, SameDue, SameLifecycle DEF stateVars
<1> QED
  BY <1>1, <1>2, <1>3, <1>4 DEF RailNext

\* KeepsPromise: the rail implements Lifecycle, for any number of settlements,
\* event handlers and faults: retries, crashes, reorganisations, racing handlers
\* and late writes show themselves to those who consume the events and read the
\* ledger as that module says, and not otherwise.
THEOREM RailImplementsLifecycle == RailSpec => KeepsPromise
<1>1. RailInit => Promise!Begin
  <2> SUFFICES ASSUME RailInit PROVE Promise!Begin
    OBVIOUS
  <2>1. Due = {}
    BY DueFacts DEF RailInit, ListenerInit, WatcherIdle
  <2> QED
    BY <2>1 DEF RailInit, Init, StateInit, NoRow, ListenerInit, LedgerInit, Booked, Promise!Begin
<1>2. RailInv /\ [RailNext]_railVars => [Promise!Step]_(Promise!lifecycleVars)
  BY PromiseStep
<1> QED
  BY <1>1, <1>2, RailInvariant, PTL DEF RailSpec, KeepsPromise, Promise!LifecycleSpec

----------------------------------------------------------------------------
(* Money moves at most once, although the listener writes the rows too. *)

\* The hashes a watcher asks the chain about, and may write back, were accepted.
SeenSent == \A w \in Watchers : \A o \in watcher[w].list : o.tx \in sent

RailNonceInv == RailInv /\ NonceInv /\ SeenSent /\ ValidChain(blocks)

\* A late write of the listener puts back at most an older hash of the same nonce.
LEMMA WatchKeepsRowNonces ==
  ASSUME RailInv, NonceInv, SeenSent, Watch
  PROVE  \A s \in Settlements :
           /\ row'[s].nonce = row[s].nonce
           /\ Early(s) => row'[s] = row[s]
           /\ ~ Early(s) => row'[s].status \notin {"NONE", "COMPLIANCE_APPROVED"}
           /\ row'[s].tx # row[s].tx =>
                /\ row'[s].tx \in sent
                /\ row'[s].tx.sid = s
                /\ row'[s].tx.nonce = row[s].nonce
<1>1. CASE UNCHANGED row
  BY <1>1 DEF Early
<1>2. ASSUME NEW w \in Watchers, WriteStatus(w)
      PROVE  \A s \in Settlements :
               /\ row'[s].nonce = row[s].nonce
               /\ Early(s) => row'[s] = row[s]
               /\ ~ Early(s) => row'[s].status \notin {"NONE", "COMPLIANCE_APPROVED"}
               /\ row'[s].tx # row[s].tx =>
                    /\ row'[s].tx \in sent
                    /\ row'[s].tx.sid = s
                    /\ row'[s].tx.nonce = row[s].nonce
  <2>1. ListenerInv /\ TablesTypeOK /\ StateTypeOK
    BY DEF RailInv, TypeInv, TypeOK, TablesTypeOK
  <2>2. PICK cur \in OpenRow : cur = watcher[w].cur
    BY <1>2, <2>1, WriteFacts
  <2>3. PICK next \in Row : next = VerdictRow(w)
    BY <1>2, <2>1, WriteFacts
  <2>4. /\ cur.id \in Settlements /\ cur.tx.sid = cur.id /\ OnChain(cur.id)
        /\ watcher[w].to \in EventStatuses
        /\ \A s \in Settlements : row'[s] = IF s = cur.id THEN next ELSE row[s]
    BY <1>2, <2>1, <2>2, <2>3, WriteFacts
  <2>5. /\ next.status \in EventStatuses
        /\ next.nonce = row[cur.id].nonce
        /\ next.tx \in {cur.tx, row[cur.id].tx}
    BY <2>1, <2>2, <2>3, <2>4, WatcherFields, VerdictRowFacts DEF EventStatuses
  <2>6. cur.tx \in sent
    <3>1. watcher[w].pc = "write" /\ Sound(watcher[w])
      BY <1>2, <2>1, WatcherFields DEF WriteStatus
    <3> QED
      BY <2>2, <3>1 DEF Sound, Deciding, SeenSent
  <2>7. cur.tx.nonce = row[cur.id].nonce
    <3>1. row[cur.id].nonce # Null
      BY <2>4, ChainAssumption DEF OnChain
    <3> QED
      BY <2>4, <2>6, <3>1 DEF NonceInv, RowInv, SentAt
  <2>8. ~ Early(cur.id)
    BY <2>4 DEF Early, OnChain, EventStatuses
  <2> QED
    BY <2>4, <2>5, <2>6, <2>7, <2>8 DEF Early, EventStatuses
<1> QED
  BY <1>1, <1>2 DEF Watch, PollRead, EventRead, Continue, ReadHead, ReadReceipt, BookFinal,
     CheckGuard, PollThrows, stateVars

LEMMA ListenerKeepsNonces ==
  ASSUME RailInv, NonceInv, SeenSent, ListenerStep
  PROVE  NonceInv'
<1>1. /\ sent' = sent /\ faults'["ack"] = faults["ack"]
      /\ requests' = requests /\ queue' = queue /\ worker' = worker
      /\ boot' = boot /\ sweep' = sweep
  BY WatchKeeps DEF ListenerStep, RailInv, TypeInv, TypeOK, TablesTypeOK, relayerVars
<1>2. \A s \in Settlements :
        /\ row'[s].nonce = row[s].nonce
        /\ Early(s) => row'[s] = row[s]
        /\ ~ Early(s) => row'[s].status \notin {"NONE", "COMPLIANCE_APPROVED"}
        /\ row'[s].tx # row[s].tx =>
             /\ row'[s].tx \in sent
             /\ row'[s].tx.sid = s
             /\ row'[s].tx.nonce = row[s].nonce
  BY WatchKeepsRowNonces DEF ListenerStep
<1>3. OneNonce'
  BY <1>1 DEF NonceInv, OneNonce
<1>4. RowInv'
  BY <1>1, <1>2 DEF NonceInv, RowInv, Early, NoneSent, SentAt
<1>5. SnapshotInv'
  <2>1. /\ \A snap \in boot.list \cup sweep.list : snap.id \in Settlements
        /\ boot.pc \in {"lookup", "fail"} => boot.cur.id \in Settlements
        /\ sweep.pc \in {"send", "record", "fail"} => sweep.cur.id \in Settlements
    BY RowsFacts
  <2> QED
    BY <1>1, <1>2, <2>1 DEF NonceInv, SnapshotInv, Current, Early, SweepTx
<1>6. WorkerInv'
  <2>1. worker.pc # "idle" => worker.id \in Settlements
    BY RowsFacts
  <2> QED
    BY <1>1, <1>2, <2>1 DEF NonceInv, WorkerInv, WorkerTx, NoneSent, SentAt, Early
<1>7. WaitingInv'
  <2>1. \A s \in Settlements :
          /\ row[s].status = "COMPLIANCE_APPROVED" <=> row'[s].status = "COMPLIANCE_APPROVED"
          /\ row[s].status = "NONE" <=> row'[s].status = "NONE"
    BY <1>2 DEF Early
  <2>2. requests \subseteq Settlements /\ \A i \in DOMAIN queue : queue[i] \in Settlements
    BY RowsFacts
  <2> QED
    BY <1>1, <2>1, <2>2 DEF NonceInv, WaitingInv, NoneSent, Busy
<1> QED
  BY <1>1, <1>3, <1>4, <1>5, <1>6, <1>7 DEF NonceInv

LEMMA RelayerSendsMore ==
  ASSUME RelayerNext
  PROVE  sent \subseteq sent'
BY DEF RelayerNext, Boot, BootNonce, BootRead, BootReceipt, BootFail, BootLookup,
   Submit, Approve, Enqueue, Worker, TakeJob, SkipJob, LoseJob, SendAck, SendLost,
   SendRefused, SendTransient, SendUnderpriced, SendPermanent, Resync, Record, RecordThrows,
   Fail, WorkerThrows, Sweep, SweepRead, SweepMined, SweepNotStale, SweepStale, ResendAck,
   ResendLost, ResendRefused, ResendPermanent, ResendRecord, ResendRecordThrows, SweepFail,
   SweepThrows, Drain, Crash, Accept, chainVars

LEMMA ListenerKeepsSeen ==
  ASSUME RailInv, NonceInv, SeenSent, ListenerStep
  PROVE  SeenSent'
<1>1. Watch /\ ListenerInv /\ sent' = sent
  BY WatchKeeps DEF ListenerStep, RailInv, TypeInv, TypeOK, TablesTypeOK
<1>2. ASSUME NEW w \in Watchers, NEW o \in watcher'[w].list
      PROVE  o.tx \in sent
  <2>1. CASE o \in watcher[w].list
    BY <2>1 DEF SeenSent
  <2>2. ASSUME NEW s \in WithStatus(OpenStatuses), o = Open(s)
        PROVE  o.tx \in sent
    <3>1. s \in Settlements /\ o.tx = row[s].tx /\ row[s].tx \in Txs
      BY <1>1, <2>2 DEF WithStatus, Open, ListenerInv, RowsOnChain, OnChain
    <3> QED
      BY <3>1, ChainAssumption DEF NonceInv, RowInv
  <2>3. Moves(w)
    BY <1>1, WatcherMoves
  <2>4. CASE Reads(w)
    BY <1>2, <2>2, <2>4 DEF Reads
  <2>5. CASE ~ Reads(w)
    BY <1>2, <2>1, <2>3, <2>5 DEF Moves, Rests, Decides, Proceeds
  <2> QED
    BY <2>4, <2>5
<1> QED
  BY <1>1, <1>2 DEF SeenSent

LEMMA RailNonceStep ==
  ASSUME RailNonceInv, [RailNext]_railVars
  PROVE  RailNonceInv'
<1>1. RailInv'
  BY RailStep DEF RailNonceInv
<1>2. TypeInv /\ RailInv /\ NonceInv /\ SeenSent /\ ValidChain(blocks)
  BY DEF RailNonceInv, RailInv
<1>3. CASE RelayerStep
  <2>1. RelayerNext /\ watcher' = watcher
    BY <1>3 DEF RelayerStep, RelayerNext, listenerVars
  <2>2. NonceInv' /\ ValidChain(blocks)'
    BY <1>2, <2>1, NonceStep, ValidChainStep DEF Next
  <2>3. SeenSent'
    BY <1>2, <2>1, RelayerSendsMore DEF SeenSent
  <2> QED
    BY <1>1, <2>2, <2>3 DEF RailNonceInv
<1>4. CASE ListenerStep
  <2>1. blocks' = blocks
    BY <1>2, <1>4, WatchKeeps DEF ListenerStep, RailInv, TypeInv, TypeOK, TablesTypeOK
  <2>2. ValidChain(blocks)'
    BY <1>2, <2>1 DEF ValidChain, NoncesBelow
  <2> QED
    BY <1>1, <1>2, <1>4, <2>2, ListenerKeepsNonces, ListenerKeepsSeen DEF RailNonceInv
<1>5. CASE RailCrash
  <2>1. Crash
    BY <1>5 DEF RailCrash, Crash
  <2>2. NonceInv' /\ ValidChain(blocks)'
    BY <1>2, <2>1, NonceStep, ValidChainStep DEF Next, RelayerNext
  <2>3. SeenSent'
    BY <1>5 DEF RailCrash, ListenerExit, WatcherIdle, SeenSent
  <2> QED
    BY <1>1, <2>2, <2>3 DEF RailNonceInv
<1>6. CASE ChainStep \/ UNCHANGED railVars
  <2>1. [Next]_vars /\ watcher' = watcher
    BY <1>6 DEF ChainStep, railVars, Next, listenerVars
  <2>2. NonceInv' /\ ValidChain(blocks)'
    BY <1>2, <2>1, NonceStep, ValidChainStep
  <2>3. sent' = sent
    BY <1>2, <1>6, ChainStepType DEF ChainStep, railVars, vars, chainVars, TypeInv, TypeOK
  <2>4. SeenSent'
    BY <1>2, <2>1, <2>3 DEF SeenSent
  <2> QED
    BY <1>1, <2>2, <2>4 DEF RailNonceInv
<1> QED
  BY <1>3, <1>4, <1>5, <1>6 DEF RailNext

\* PaidAtMostOnce, on the whole rail: when every broadcast the node accepts is
\* acknowledged and recorded, no settlement is paid twice, although a late write
\* of a watcher may put a settlement back to SUBMITTED with an older hash.
THEOREM RailMoneyMovesOnce ==
  ASSUME Faults["ack"] = 0
  PROVE  RailSpec => []PaidAtMostOnce
<1>1. RailInit => RailNonceInv
  BY RailInitInv, InitNonce DEF RailInit, Init, ChainInit, ValidChain, RailNonceInv, SeenSent,
     ListenerInit, WatcherIdle
<1>2. RailNonceInv /\ [RailNext]_railVars => RailNonceInv'
  BY RailNonceStep
<1>3. RailNonceInv => PaidAtMostOnce
  BY OneNoncePaysOnce DEF RailNonceInv, RailInv, TypeInv, TypeOK, NonceInv
<1> QED
  BY <1>1, <1>2, <1>3, PTL DEF RailSpec

=============================================================================
