--------------------------- MODULE RelayerProofs ---------------------------
(***************************************************************************)
(* Proofs about the relayer, for any number of settlements, any retry      *)
(* limit, any chain length and any number of faults.                       *)
(***************************************************************************)
EXTENDS Relayer, ChainProofs

----------------------------------------------------------------------------
(* The inductive invariants. *)

\* Type correctness needs two facts more: the snapshots of SUBMITTED rows are
\* complete, and the pending nonce is the cardinality of a finite set.
TypeInv == TypeOK /\ SubmittedHasTx /\ IsFiniteSet(sent)

NoneSent(s) == \A t \in sent : t.sid # s
SentAt(s, nonce) == \A t \in sent : t.sid = s => t.nonce = nonce

\* A row never submitted.
Early(s) == row[s].status \in {"NONE", "COMPLIANCE_APPROVED"}

\* The nonce of a row is the nonce of every transfer of its settlement.
RowInv ==
  \A s \in Settlements :
    /\ row[s].status = "NONE" => NoneSent(s)
    /\ Early(s) => row[s].nonce = Null
    /\ row[s].nonce # Null => SentAt(s, row[s].nonce)
    /\ row[s].tx # Null => /\ row[s].tx \in sent
                           /\ row[s].tx.sid = s
                           /\ row[s].tx.nonce = row[s].nonce

\* What the boot recovery and the sweep remember of a row is still its nonce.
Current(snap) == ~ Early(snap.id) /\ row[snap.id].nonce = snap.nonce

SnapshotInv ==
  /\ \A snap \in boot.list \cup sweep.list : Current(snap)
  /\ boot.pc \in {"lookup", "fail"} => Current(boot.cur)
  /\ sweep.pc \in {"send", "record", "fail"} => Current(sweep.cur)
  /\ sweep.pc = "record" => SweepTx \in sent

\* A resumed job keeps the nonce of its row; a fresh one is alone in having
\* sent its settlement, and only once the node accepted it.
WorkerInv ==
  worker.pc # "idle" =>
    /\ worker.resume => row[worker.id].nonce = worker.nonce
    /\ ~ worker.resume =>
         /\ row[worker.id].status = "COMPLIANCE_APPROVED"
         /\ worker.pc # "record" => NoneSent(worker.id)
         /\ worker.pc = "record" => SentAt(worker.id, worker.nonce)
    /\ worker.pc = "record" => WorkerTx \in sent

Busy(s) == worker.pc # "idle" /\ worker.id = s

\* An approved settlement waits in one place only, and nothing was sent for it.
WaitingInv ==
  /\ \A s \in requests :
       /\ row[s].status = "COMPLIANCE_APPROVED"
       /\ NoneSent(s)
       /\ ~ Busy(s)
       /\ \A i \in DOMAIN queue : queue[i] # s
  /\ \A i \in DOMAIN queue : row[queue[i]].status # "NONE"
  /\ \A i \in DOMAIN queue :
       row[queue[i]].status = "COMPLIANCE_APPROVED" =>
         /\ NoneSent(queue[i])
         /\ ~ Busy(queue[i])
         /\ \A j \in DOMAIN queue : queue[j] = queue[i] => j = i

NonceInv ==
  /\ faults["ack"] = 0
  /\ OneNonce
  /\ RowInv
  /\ SnapshotInv
  /\ WorkerInv
  /\ WaitingInv

----------------------------------------------------------------------------
(* The fees. *)

\* A bumped fee is a number.
LEMMA BumpFeeType ==
  ASSUME NEW fee \in Nat
  PROVE  BumpFee(fee) \in Nat
BY DEF BumpFee

\* A bumped fee outbids the one it bumps exactly when that is four wei or more:
\* below, truncation takes the bump back (bumpFees).
THEOREM BumpOutbidsFromFourWei ==
  \A fee \in Nat : BumpFee(fee) > fee <=> fee >= 4
BY DEF BumpFee

----------------------------------------------------------------------------
(* Lemmas about the local variables. *)

\* findByStatuses(['SUBMITTED']) returns rows with a hash and a nonce.
LEMMA SnapshotsType ==
  ASSUME StateTypeOK, SubmittedHasTx
  PROVE  SnapshotsOf({"SUBMITTED"}) \subseteq Snapshot
BY DEF SnapshotsOf, WithStatus, Snapshot, StateTypeOK, Row, SubmittedHasTx

\* The steps of the loops and of the retry keep the local variables well typed.
LEMMA BootNextType ==
  ASSUME BootTypeOK, NEW snap, BootNext(snap)
  PROVE  BootTypeOK'
BY DEF BootNext, BootTypeOK

\* The sweep's next row keeps the type.
LEMMA SweepNextType ==
  ASSUME SweepTypeOK, NEW snap, SweepNext(snap)
  PROVE  SweepTypeOK'
BY DEF SweepNext, SweepTypeOK, SweepIdle

LEMMA RetryType ==
  ASSUME WorkerTypeOK, worker.pc # "idle", NEW pc \in {"send", "resync"}, Retry(pc)
  PROVE  WorkerTypeOK'
<1>1. worker.retry + 1 \in Nat
  BY DEF WorkerTypeOK
<1>2. (IF worker.retry + 1 > MaxRetries THEN "fail" ELSE pc) \in {"send", "resync", "fail"}
  OBVIOUS
<1> QED
  BY <1>1, <1>2 DEF Retry, WorkerTypeOK

\* An enqueued job keeps the type.
LEMMA EnqueuedType ==
  ASSUME MemoryTypeOK, NEW s \in Settlements
  PROVE  Enqueued(s) \in Seq(Settlements)
BY AppendProperties DEF Enqueued, MemoryTypeOK

----------------------------------------------------------------------------
(* Type correctness. *)

\* TypeInv holds initially.
LEMMA InitType ==
  ASSUME Init
  PROVE  TypeInv
<1>1. ChainTypeOK /\ IsFiniteSet(sent)
  BY FS_EmptySet, ChainAssumption, EmptySeq DEF Init, ChainInit, ChainTypeOK
<1>2. StateTypeOK /\ SubmittedHasTx
  BY EmptySeq DEF Init, StateInit, NoRow, Row, Statuses, StateTypeOK, SubmittedHasTx
<1>3. RelayerTypeOK
  BY EmptySeq DEF Init, RelayerInit, WorkerIdle, SweepIdle, BootDown,
     RelayerTypeOK, MemoryTypeOK, WorkerTypeOK, SweepTypeOK, BootTypeOK
<1> QED
  BY <1>1, <1>2, <1>3 DEF TypeInv, TypeOK

\* A step that leaves the chain and the tables alone.
LEMMA LocalStepType ==
  ASSUME TypeInv, UNCHANGED chainVars, UNCHANGED stateVars
  PROVE  ChainTypeOK' /\ IsFiniteSet(sent') /\ StateTypeOK' /\ SubmittedHasTx'
BY UnchangedChainType, UnchangedStateType DEF TypeInv, TypeOK, chainVars, ChainTypeOK

LEMMA BootType ==
  ASSUME TypeInv, Boot
  PROVE  TypeInv'
<1> USE DEF TypeInv, TypeOK, RelayerTypeOK
<1>1. CASE BootNonce
  <2>1. PendingNonce \in Nat
    BY PendingNonceType
  <2>2. MemoryTypeOK' /\ WorkerTypeOK' /\ SweepTypeOK' /\ BootTypeOK'
    BY <1>1, <2>1 DEF BootNonce, MemoryTypeOK, WorkerTypeOK, SweepTypeOK, BootTypeOK
  <2> QED
    BY <1>1, <2>2, LocalStepType DEF BootNonce
<1>2. CASE BootRead
  <2>1. BootTypeOK'
    BY <1>2, SnapshotsType DEF BootRead, BootTypeOK
  <2>2. MemoryTypeOK' /\ WorkerTypeOK' /\ SweepTypeOK'
    BY <1>2 DEF BootRead, MemoryTypeOK, WorkerTypeOK, SweepTypeOK
  <2> QED
    BY <1>2, <2>1, <2>2, LocalStepType DEF BootRead
<1>3. ASSUME NEW snap \in boot.list, BootReceipt(snap)
      PROVE  TypeInv'
  <2>1. BootTypeOK'
    <3>1. CASE BootNext(snap)
      BY <3>1, BootNextType
    <3>2. CASE \E pc \in {"lookup", "fail"} : boot' = [boot EXCEPT !.pc = pc, !.cur = snap]
      BY <3>2 DEF BootTypeOK
    <3> QED
      BY <1>3, <3>1, <3>2 DEF BootReceipt
  <2>2. MemoryTypeOK' /\ WorkerTypeOK' /\ SweepTypeOK'
    BY <1>3 DEF BootReceipt, MemoryTypeOK, WorkerTypeOK, SweepTypeOK
  <2> QED
    BY <1>3, <2>1, <2>2, LocalStepType DEF BootReceipt
<1>4. CASE BootFail
  <2>1. boot.cur.id \in Settlements /\ boot.cur.retry \in Nat
    BY <1>4 DEF BootFail, BootTypeOK, Snapshot
  <2>2. StateTypeOK' /\ SubmittedHasTx'
    BY <1>4, <2>1, FailType DEF BootFail
  <2>3. MemoryTypeOK' /\ WorkerTypeOK' /\ SweepTypeOK' /\ BootTypeOK'
    BY <1>4, <2>1, BootNextType DEF BootFail, MemoryTypeOK, WorkerTypeOK, SweepTypeOK
  <2>4. ChainTypeOK' /\ IsFiniteSet(sent')
    BY <1>4, UnchangedChainType DEF BootFail, chainVars, ChainTypeOK
  <2> QED
    BY <2>2, <2>3, <2>4
<1>5. CASE BootLookup
  <2>1. boot.cur.id \in Settlements /\ boot.cur.tx.fee \in Nat
    BY <1>5 DEF BootLookup, BootTypeOK, Snapshot, Txs
  <2>2. MemoryTypeOK'
    BY <1>5, <2>1, EnqueuedType DEF BootLookup, MemoryTypeOK
  <2>3. WorkerTypeOK' /\ SweepTypeOK' /\ BootTypeOK'
    BY <1>5, BootNextType DEF BootLookup, WorkerTypeOK, SweepTypeOK
  <2> QED
    BY <1>5, <2>2, <2>3, LocalStepType DEF BootLookup
<1> QED
  BY <1>1, <1>2, <1>3, <1>4, <1>5 DEF Boot

LEMMA SubmitType ==
  ASSUME TypeInv, NEW s \in Settlements, Approve(s) \/ Enqueue(s)
  PROVE  TypeInv'
<1> USE DEF TypeInv, TypeOK, RelayerTypeOK
<1>1. CASE Approve(s)
  <2>1. StateTypeOK' /\ SubmittedHasTx'
    <3> DEFINE next == [row[s] EXCEPT !.status = "COMPLIANCE_APPROVED"]
    <3>1. next \in Row /\ next.status # "SUBMITTED"
      BY DEF StateTypeOK, Row, Statuses
    <3> QED
      BY <1>1, <3>1, TransitionType DEF Approve
  <2>2. MemoryTypeOK' /\ WorkerTypeOK' /\ SweepTypeOK' /\ BootTypeOK'
    BY <1>1 DEF Approve, MemoryTypeOK, WorkerTypeOK, SweepTypeOK, BootTypeOK
  <2>3. ChainTypeOK' /\ IsFiniteSet(sent')
    BY <1>1, UnchangedChainType DEF Approve, chainVars, ChainTypeOK
  <2> QED
    BY <2>1, <2>2, <2>3
<1>2. CASE Enqueue(s)
  <2>1. MemoryTypeOK' /\ WorkerTypeOK' /\ SweepTypeOK' /\ BootTypeOK'
    BY <1>2, EnqueuedType DEF Enqueue, MemoryTypeOK, WorkerTypeOK, SweepTypeOK, BootTypeOK
  <2> QED
    BY <1>2, <2>1, LocalStepType DEF Enqueue
<1> QED
  BY <1>1, <1>2

LEMMA WorkerType ==
  ASSUME TypeInv, Worker
  PROVE  TypeInv'
<1> USE DEF TypeInv, TypeOK, RelayerTypeOK
<1>a. worker.pc # "idle" => WorkerTx \in Txs
  BY DEF WorkerTx, Txs, WorkerTypeOK
<1>b. worker.pc # "idle" => SubmittedRow \in Row /\ SubmittedRow.tx \in Txs /\ SubmittedRow.nonce \in Nat
  <2> SUFFICES ASSUME worker.pc # "idle"
               PROVE  SubmittedRow \in Row /\ SubmittedRow.tx \in Txs /\ SubmittedRow.nonce \in Nat
    OBVIOUS
  <2>1. row[worker.id] \in Row /\ worker.nonce \in Nat /\ worker.retry \in Nat
    BY DEF WorkerTypeOK, StateTypeOK
  <2> QED
    BY <1>a, <2>1 DEF SubmittedRow, Row, Statuses
<1>1. CASE TakeJob
  <2>1. Head(queue) \in Settlements /\ Tail(queue) \in Seq(Settlements)
    BY <1>1, HeadTailProperties DEF TakeJob, NextJob, MemoryTypeOK
  <2>2. WorkerTypeOK'
    <3> DEFINE id == Head(queue)
               resume == row[id].status = "SUBMITTED" /\ row[id].nonce # Null
               nonce == IF resume THEN row[id].nonce ELSE localNonce
    <3>1. nonce \in Nat /\ row[id].retry \in Nat
      BY <2>1 DEF StateTypeOK, Row, MemoryTypeOK
    <3>2. PICK fee \in MarketFees :
            worker' = [pc |-> "send", id |-> id, resume |-> resume, nonce |-> nonce,
                       fee |-> fee, retry |-> row[id].retry]
      BY <1>1 DEF TakeJob
    <3>3. fee \in Nat /\ resume \in BOOLEAN
      BY ChainAssumption
    <3> HIDE DEF nonce, resume, id
    <3>4. id \in Settlements
      BY <2>1 DEF id
    <3> QED
      BY <3>1, <3>2, <3>3, <3>4 DEF WorkerTypeOK
  <2>3. MemoryTypeOK' /\ SweepTypeOK' /\ BootTypeOK'
    BY <1>1, <2>1 DEF TakeJob, NextJob, MemoryTypeOK, SweepTypeOK, BootTypeOK
  <2> QED
    BY <1>1, <2>2, <2>3, LocalStepType DEF TakeJob
<1>2. CASE SkipJob \/ LoseJob
  <2>1. Tail(queue) \in Seq(Settlements)
    BY <1>2, HeadTailProperties DEF SkipJob, LoseJob, NextJob, MemoryTypeOK
  <2>2. MemoryTypeOK' /\ WorkerTypeOK' /\ SweepTypeOK' /\ BootTypeOK'
    BY <1>2, <2>1 DEF SkipJob, LoseJob, NextJob, MemoryTypeOK, WorkerTypeOK, SweepTypeOK, BootTypeOK
  <2>3. StateTypeOK' /\ SubmittedHasTx'
    BY <1>2, UnchangedStateType DEF SkipJob, LoseJob
  <2>4. faults' \in [FaultKinds -> Nat]
    BY <1>2, SpendType DEF SkipJob, LoseJob, FaultKinds, chainVars, ChainTypeOK
  <2>5. ChainTypeOK' /\ IsFiniteSet(sent')
    BY <1>2, <2>4, UnchangedChainType DEF SkipJob, LoseJob, chainVars
  <2> QED
    BY <2>2, <2>3, <2>5
<1>3. CASE SendAck
  <2>1. ChainTypeOK' /\ IsFiniteSet(sent')
    BY <1>3, <1>a, AcceptType DEF SendAck, ChainTypeOK
  <2>2. MemoryTypeOK' /\ WorkerTypeOK'
    BY <1>3 DEF SendAck, MemoryTypeOK, WorkerTypeOK
  <2>3. SweepTypeOK' /\ BootTypeOK' /\ StateTypeOK' /\ SubmittedHasTx'
    BY <1>3, UnchangedStateType DEF SendAck, SweepTypeOK, BootTypeOK
  <2> QED
    BY <2>1, <2>2, <2>3
<1>4. CASE SendLost
  <2>1. faults' \in [FaultKinds -> Nat]
    BY <1>4, SpendType DEF SendLost, FaultKinds, ChainTypeOK
  <2>2. ChainTypeOK' /\ IsFiniteSet(sent')
    BY <1>4, <1>a, <2>1, AcceptType DEF SendLost
  <2>3. MemoryTypeOK' /\ WorkerTypeOK'
    BY <1>4, RetryType DEF SendLost, MemoryTypeOK
  <2>4. SweepTypeOK' /\ BootTypeOK' /\ StateTypeOK' /\ SubmittedHasTx'
    BY <1>4, UnchangedStateType DEF SendLost, SweepTypeOK, BootTypeOK
  <2> QED
    BY <2>2, <2>3, <2>4
<1>5. CASE SendRefused \/ SendTransient
  <2>1. WorkerTypeOK'
    BY <1>5, RetryType DEF SendRefused, SendTransient
  <2>2. MemoryTypeOK' /\ SweepTypeOK' /\ BootTypeOK'
    BY <1>5 DEF SendRefused, SendTransient, MemoryTypeOK, SweepTypeOK, BootTypeOK
  <2> QED
    BY <1>5, <2>1, <2>2, LocalStepType DEF SendRefused, SendTransient
<1>6. CASE SendUnderpriced \/ SendPermanent
  <2>1. WorkerTypeOK'
    <3>1. worker.retry + 1 \in Nat /\ BumpFee(worker.fee) \in Nat
      BY BumpFeeType DEF WorkerTypeOK
    <3> QED
      BY <1>6, <3>1 DEF SendUnderpriced, SendPermanent, WorkerTypeOK
  <2>2. MemoryTypeOK' /\ SweepTypeOK' /\ BootTypeOK'
    BY <1>6 DEF SendUnderpriced, SendPermanent, MemoryTypeOK, SweepTypeOK, BootTypeOK
  <2> QED
    BY <1>6, <2>1, <2>2, LocalStepType DEF SendUnderpriced, SendPermanent
<1>7. CASE Resync
  <2>1. PendingNonce \in Nat
    BY PendingNonceType
  <2>2. MemoryTypeOK' /\ WorkerTypeOK' /\ SweepTypeOK' /\ BootTypeOK'
    BY <1>7, <2>1 DEF Resync, MemoryTypeOK, WorkerTypeOK, SweepTypeOK, BootTypeOK
  <2> QED
    BY <1>7, <2>2, LocalStepType DEF Resync
<1>8. CASE Record
  <2>1. StateTypeOK' /\ SubmittedHasTx'
    BY <1>8, <1>b, TransitionType DEF Record, WorkerTypeOK
  <2>2. MemoryTypeOK' /\ WorkerTypeOK' /\ SweepTypeOK' /\ BootTypeOK'
    BY <1>8 DEF Record, WorkerIdle, MemoryTypeOK, WorkerTypeOK, SweepTypeOK, BootTypeOK
  <2>3. ChainTypeOK' /\ IsFiniteSet(sent')
    BY <1>8, UnchangedChainType DEF Record, chainVars, ChainTypeOK
  <2> QED
    BY <2>1, <2>2, <2>3
<1>9. CASE RecordThrows
  <2>1. StateTypeOK' /\ SubmittedHasTx'
    BY <1>9, <1>b, TransitionType, UnchangedStateType DEF RecordThrows, WorkerTypeOK
  <2>2. MemoryTypeOK' /\ WorkerTypeOK' /\ SweepTypeOK' /\ BootTypeOK'
    BY <1>9, RetryType DEF RecordThrows, MemoryTypeOK, SweepTypeOK, BootTypeOK
  <2>3. faults' \in [FaultKinds -> Nat]
    BY <1>9, SpendType DEF RecordThrows, FaultKinds, ChainTypeOK
  <2>4. ChainTypeOK' /\ IsFiniteSet(sent')
    BY <1>9, <2>3, UnchangedChainType DEF RecordThrows
  <2> QED
    BY <2>1, <2>2, <2>4
<1>10. CASE Fail
  <2>1. StateTypeOK' /\ SubmittedHasTx'
    BY <1>10, FailType DEF Fail, WorkerTypeOK
  <2>2. MemoryTypeOK' /\ WorkerTypeOK' /\ SweepTypeOK' /\ BootTypeOK'
    BY <1>10 DEF Fail, WorkerIdle, MemoryTypeOK, WorkerTypeOK, SweepTypeOK, BootTypeOK
  <2>3. ChainTypeOK' /\ IsFiniteSet(sent')
    BY <1>10, UnchangedChainType DEF Fail, chainVars, ChainTypeOK
  <2> QED
    BY <2>1, <2>2, <2>3
<1>11. CASE WorkerThrows
  <2>1. MemoryTypeOK' /\ WorkerTypeOK' /\ SweepTypeOK' /\ BootTypeOK'
    BY <1>11 DEF WorkerThrows, WorkerIdle, MemoryTypeOK, WorkerTypeOK, SweepTypeOK, BootTypeOK
  <2>2. faults' \in [FaultKinds -> Nat]
    BY <1>11, SpendType DEF WorkerThrows, FaultKinds, ChainTypeOK
  <2>3. ChainTypeOK' /\ IsFiniteSet(sent')
    BY <1>11, <2>2, UnchangedChainType DEF WorkerThrows
  <2>4. StateTypeOK' /\ SubmittedHasTx'
    BY <1>11, UnchangedStateType DEF WorkerThrows
  <2> QED
    BY <2>1, <2>3, <2>4
<1> QED
  BY <1>1, <1>2, <1>3, <1>4, <1>5, <1>6, <1>7, <1>8, <1>9, <1>10, <1>11 DEF Worker

LEMMA SweepType ==
  ASSUME TypeInv, Sweep
  PROVE  TypeInv'
<1> USE DEF TypeInv, TypeOK, RelayerTypeOK
<1>a. sweep.pc \in {"send", "record", "fail"} =>
        sweep.cur.id \in Settlements /\ SweepTx \in Txs
  BY DEF SweepTx, Txs, SweepTypeOK, Snapshot
<1>1. CASE SweepRead
  <2>1. SweepTypeOK'
    BY <1>1, SnapshotsType DEF SweepRead, SweepTypeOK
  <2>2. MemoryTypeOK' /\ WorkerTypeOK' /\ BootTypeOK'
    BY <1>1 DEF SweepRead, MemoryTypeOK, WorkerTypeOK, BootTypeOK
  <2> QED
    BY <1>1, <2>1, <2>2, LocalStepType DEF SweepRead
<1>2. ASSUME NEW snap \in sweep.list, SweepMined(snap) \/ SweepNotStale(snap)
      PROVE  TypeInv'
  <2>1. SweepTypeOK'
    BY <1>2, SweepNextType DEF SweepMined, SweepNotStale
  <2>2. MemoryTypeOK' /\ WorkerTypeOK' /\ BootTypeOK'
    BY <1>2 DEF SweepMined, SweepNotStale, MemoryTypeOK, WorkerTypeOK, BootTypeOK
  <2> QED
    BY <1>2, <2>1, <2>2, LocalStepType DEF SweepMined, SweepNotStale
<1>3. ASSUME NEW snap \in sweep.list, SweepStale(snap)
      PROVE  TypeInv'
  <2>1. snap \in Snapshot /\ snap.id \in Settlements /\ snap.tx.fee \in Nat /\ snap.retry \in Nat
    BY DEF SweepTypeOK, Snapshot, Txs
  <2>2. SweepTypeOK'
    <3>1. CASE snap.retry >= MaxRetries
      BY <1>3, <2>1, <3>1 DEF SweepStale, SweepTypeOK
    <3>2. CASE ~ (snap.retry >= MaxRetries)
      <4>1. PICK fee \in PreviousFees(snap) :
              sweep' = [sweep EXCEPT !.pc = "send", !.cur = snap,
                                     !.fee = BumpFee(fee), !.retry = snap.retry + 1]
        BY <1>3, <3>2 DEF SweepStale
      <4>2. fee \in Nat
        BY <2>1, ChainAssumption DEF PreviousFees, MemoryTypeOK
      <4>3. BumpFee(fee) \in Nat /\ snap.retry + 1 \in Nat
        BY <2>1, <4>2, BumpFeeType
      <4> QED
        BY <2>1, <4>1, <4>3 DEF SweepTypeOK
    <3> QED
      BY <3>1, <3>2
  <2>3. MemoryTypeOK' /\ WorkerTypeOK' /\ BootTypeOK'
    BY <1>3 DEF SweepStale, MemoryTypeOK, WorkerTypeOK, BootTypeOK
  <2> QED
    BY <1>3, <2>2, <2>3, LocalStepType DEF SweepStale
<1>4. CASE ResendAck
  <2>1. ChainTypeOK' /\ IsFiniteSet(sent')
    BY <1>4, <1>a, AcceptType DEF ResendAck, ChainTypeOK
  <2>2. MemoryTypeOK' /\ SweepTypeOK'
    BY <1>4, <1>a DEF ResendAck, MemoryTypeOK, SweepTypeOK
  <2>3. WorkerTypeOK' /\ BootTypeOK' /\ StateTypeOK' /\ SubmittedHasTx'
    BY <1>4, UnchangedStateType DEF ResendAck, WorkerTypeOK, BootTypeOK
  <2> QED
    BY <2>1, <2>2, <2>3
<1>5. CASE ResendLost
  <2>1. faults' \in [FaultKinds -> Nat]
    BY <1>5, SpendType DEF ResendLost, FaultKinds, ChainTypeOK
  <2>2. ChainTypeOK' /\ IsFiniteSet(sent')
    BY <1>5, <1>a, <2>1, AcceptType DEF ResendLost
  <2>3. SweepTypeOK'
    BY <1>5, SweepNextType DEF ResendLost
  <2>4. MemoryTypeOK' /\ WorkerTypeOK' /\ BootTypeOK' /\ StateTypeOK' /\ SubmittedHasTx'
    BY <1>5, UnchangedStateType DEF ResendLost, MemoryTypeOK, WorkerTypeOK, BootTypeOK
  <2> QED
    BY <2>2, <2>3, <2>4
<1>6. CASE ResendRefused \/ ResendPermanent
  <2>1. SweepTypeOK'
    BY <1>6, SweepNextType DEF ResendRefused, ResendPermanent, SweepTypeOK
  <2>2. MemoryTypeOK' /\ WorkerTypeOK' /\ BootTypeOK'
    BY <1>6 DEF ResendRefused, ResendPermanent, MemoryTypeOK, WorkerTypeOK, BootTypeOK
  <2> QED
    BY <1>6, <2>1, <2>2, LocalStepType DEF ResendRefused, ResendPermanent
<1>7. CASE ResendRecord
  <2>1. StateTypeOK' /\ SubmittedHasTx'
    BY <1>7, <1>a, RecordResendType DEF ResendRecord, SweepTypeOK
  <2>2. SweepTypeOK'
    BY <1>7, SweepNextType DEF ResendRecord
  <2>3. MemoryTypeOK' /\ WorkerTypeOK' /\ BootTypeOK'
    BY <1>7 DEF ResendRecord, MemoryTypeOK, WorkerTypeOK, BootTypeOK
  <2>4. ChainTypeOK' /\ IsFiniteSet(sent')
    BY <1>7, UnchangedChainType DEF ResendRecord, chainVars, ChainTypeOK
  <2> QED
    BY <2>1, <2>2, <2>3, <2>4
<1>8. CASE ResendRecordThrows
  <2>1. StateTypeOK' /\ SubmittedHasTx'
    BY <1>8, <1>a, RecordResendType, UnchangedStateType DEF ResendRecordThrows, SweepTypeOK
  <2>2. SweepTypeOK'
    BY <1>8, SweepNextType DEF ResendRecordThrows
  <2>3. MemoryTypeOK' /\ WorkerTypeOK' /\ BootTypeOK'
    BY <1>8 DEF ResendRecordThrows, MemoryTypeOK, WorkerTypeOK, BootTypeOK
  <2>4. faults' \in [FaultKinds -> Nat]
    BY <1>8, SpendType DEF ResendRecordThrows, FaultKinds, ChainTypeOK
  <2>5. ChainTypeOK' /\ IsFiniteSet(sent')
    BY <1>8, <2>4, UnchangedChainType DEF ResendRecordThrows
  <2> QED
    BY <2>1, <2>2, <2>3, <2>5
<1>9. CASE SweepFail
  <2>1. StateTypeOK' /\ SubmittedHasTx'
    BY <1>9, <1>a, FailType DEF SweepFail, SweepTypeOK
  <2>2. SweepTypeOK' /\ MemoryTypeOK' /\ WorkerTypeOK' /\ BootTypeOK'
    BY <1>9, SweepNextType DEF SweepFail, MemoryTypeOK, WorkerTypeOK, BootTypeOK
  <2>3. ChainTypeOK' /\ IsFiniteSet(sent')
    BY <1>9, UnchangedChainType DEF SweepFail, chainVars, ChainTypeOK
  <2> QED
    BY <2>1, <2>2, <2>3
<1>10. CASE SweepThrows
  <2>1. SweepTypeOK' /\ MemoryTypeOK' /\ WorkerTypeOK' /\ BootTypeOK'
    BY <1>10 DEF SweepThrows, SweepIdle, SweepTypeOK, MemoryTypeOK, WorkerTypeOK, BootTypeOK
  <2>2. faults' \in [FaultKinds -> Nat]
    BY <1>10, SpendType DEF SweepThrows, FaultKinds, ChainTypeOK
  <2>3. ChainTypeOK' /\ IsFiniteSet(sent') /\ StateTypeOK' /\ SubmittedHasTx'
    BY <1>10, <2>2, UnchangedChainType, UnchangedStateType DEF SweepThrows
  <2> QED
    BY <2>1, <2>3
<1> QED
  BY <1>1, <1>2, <1>3, <1>4, <1>5, <1>6, <1>7, <1>8, <1>9, <1>10 DEF Sweep

LEMMA DrainCrashType ==
  ASSUME TypeInv, Drain \/ Crash
  PROVE  TypeInv'
<1> USE DEF TypeInv, TypeOK, RelayerTypeOK
<1>1. MemoryTypeOK' /\ WorkerTypeOK' /\ SweepTypeOK' /\ BootTypeOK'
  <2>1. CASE Drain
    BY <2>1 DEF Drain, MemoryTypeOK, WorkerTypeOK, SweepTypeOK, BootTypeOK
  <2>2. CASE Crash
    BY <2>2, EmptySeq DEF Crash, Exit, WorkerIdle, SweepIdle, BootDown,
       MemoryTypeOK, WorkerTypeOK, SweepTypeOK, BootTypeOK
  <2> QED
    BY <2>1, <2>2
<1>2. faults' \in [FaultKinds -> Nat]
  BY SpendType DEF Drain, Crash, chainVars, FaultKinds, ChainTypeOK
<1>3. ChainTypeOK' /\ IsFiniteSet(sent')
  BY <1>2, UnchangedChainType DEF Drain, Crash, chainVars
<1>4. StateTypeOK' /\ SubmittedHasTx'
  BY UnchangedStateType DEF Drain, Crash
<1> QED
  BY <1>1, <1>3, <1>4

\* TypeInv is inductive.
LEMMA TypeStep ==
  ASSUME TypeInv, [Next]_vars
  PROVE  TypeInv'
<1>1. CASE RelayerNext
  BY <1>1, BootType, SubmitType, WorkerType, SweepType, DrainCrashType DEF RelayerNext, Submit
<1>2. CASE ChainNext /\ UNCHANGED <<stateVars, relayerVars>>
  <2>1. ChainTypeOK' /\ IsFiniteSet(sent')
    BY <1>2, ChainStepType DEF TypeInv, TypeOK
  <2>2. StateTypeOK' /\ SubmittedHasTx'
    BY <1>2, UnchangedStateType DEF TypeInv, TypeOK
  <2>3. RelayerTypeOK'
    BY <1>2 DEF TypeInv, TypeOK, relayerVars,
       RelayerTypeOK, MemoryTypeOK, WorkerTypeOK, SweepTypeOK, BootTypeOK
  <2> QED
    BY <2>1, <2>2, <2>3 DEF TypeInv, TypeOK
<1>3. CASE UNCHANGED vars
  BY <1>3, LocalStepType DEF vars, TypeInv, TypeOK, relayerVars,
     RelayerTypeOK, MemoryTypeOK, WorkerTypeOK, SweepTypeOK, BootTypeOK
<1> QED
  BY <1>1, <1>2, <1>3 DEF Next

\* The variables keep their types, and a SUBMITTED row always has a hash and a nonce.
LEMMA TypeInvariant == Spec => []TypeInv
BY InitType, TypeStep, PTL DEF Spec

\* TypeOK: every variable of the relayer keeps its type, whatever is lost,
\* dropped or reorganised and however often the process restarts.
THEOREM TypeCorrect == Spec => []TypeOK
<1>1. TypeInv => TypeOK
  BY DEF TypeInv
<1> QED
  BY <1>1, TypeInvariant, PTL

----------------------------------------------------------------------------
(* Money moves at most once, while every broadcast the node accepted is      *)
(* acknowledged and recorded.                                                *)

\* Failing a settlement touches neither its nonce nor its hash.
LEMMA FailKeeps ==
  ASSUME TypeInv, NonceInv, NEW s \in Settlements, NEW retry \in Nat,
         row[s].status # "NONE", UNCHANGED sent,
         Transition(s, [row[s] EXCEPT !.status = "FAILED", !.retry = retry])
  PROVE  /\ OneNonce' /\ RowInv'
         /\ \A u \in Settlements :
              /\ row'[u].nonce = row[u].nonce
              /\ row'[u].status = IF u = s THEN "FAILED" ELSE row[u].status
<1> DEFINE next == [row[s] EXCEPT !.status = "FAILED", !.retry = retry]
<1>1. \A u \in Settlements : row'[u] = IF u = s THEN next ELSE row[u]
  BY TransitionFacts DEF TypeInv, TypeOK
<1>2. /\ next.status = "FAILED" /\ next.nonce = row[s].nonce /\ next.tx = row[s].tx
  BY DEF TypeInv, TypeOK, StateTypeOK, Row
<1> HIDE DEF next
<1>3. OneNonce'
  BY DEF NonceInv, OneNonce
<1>4. RowInv'
  BY <1>1, <1>2 DEF NonceInv, RowInv, Early, NoneSent, SentAt
<1> QED
  BY <1>1, <1>2, <1>3, <1>4

\* Rows and transfers that do not change keep what is said about them.
LEMMA SameRows ==
  ASSUME NonceInv, UNCHANGED row, UNCHANGED sent
  PROVE  OneNonce' /\ RowInv'
BY DEF NonceInv, OneNonce, RowInv, Early, NoneSent, SentAt

\* The queue after a settlement joined it.
LEMMA EnqueuedFacts ==
  ASSUME TypeInv, NEW s \in Settlements, queue' = Enqueued(s)
  PROVE  \A i \in DOMAIN queue' :
           \/ i \in DOMAIN queue /\ queue'[i] = queue[i]
           \/ i \notin DOMAIN queue /\ i = Len(queue) + 1 /\ queue'[i] = s
<1>1. queue \in Seq(Settlements) /\ Len(queue) \in Nat /\ DOMAIN queue = 1 .. Len(queue)
  BY LenProperties DEF TypeInv, TypeOK, RelayerTypeOK, MemoryTypeOK
<1>2. CASE draining
  BY <1>2 DEF Enqueued
<1>3. CASE ~ draining
  <2>1. /\ queue' \in Seq(Settlements)
        /\ Len(queue') = Len(queue) + 1
        /\ \A i \in 1 .. Len(queue) : queue'[i] = queue[i]
        /\ queue'[Len(queue) + 1] = s
    BY <1>1, <1>3, AppendProperties DEF Enqueued
  <2>2. DOMAIN queue' = 1 .. Len(queue) + 1
    BY <2>1, LenProperties
  <2> QED
    BY <1>1, <2>1, <2>2
<1> QED
  BY <1>2, <1>3

\* The queue after its head left it.
LEMMA DequeuedFacts ==
  ASSUME TypeInv, NextJob
  PROVE  /\ 1 \in DOMAIN queue /\ queue[1] = Head(queue) /\ Head(queue) \in Settlements
         /\ \A i \in DOMAIN queue' : i + 1 \in DOMAIN queue /\ i + 1 # 1 /\ queue'[i] = queue[i + 1]
         /\ DOMAIN queue' \subseteq Nat
<1>1. queue \in Seq(Settlements) /\ queue # <<>> /\ queue' = Tail(queue)
  BY DEF TypeInv, TypeOK, RelayerTypeOK, MemoryTypeOK, NextJob
<1>2. Len(queue) \in Nat \ {0} /\ DOMAIN queue = 1 .. Len(queue)
  BY <1>1, EmptySeq, LenProperties
<1>3. /\ Head(queue) \in Settlements
      /\ queue' \in Seq(Settlements)
      /\ Len(queue') = Len(queue) - 1
      /\ \A i \in 1 .. Len(queue') : queue'[i] = queue[i + 1]
  BY <1>1, HeadTailProperties
<1>4. DOMAIN queue' = 1 .. Len(queue) - 1
  BY <1>3, LenProperties
<1>5. Head(queue) = queue[1]
  BY <1>1
<1> QED
  BY <1>2, <1>3, <1>4, <1>5

\* The relayer's names in the queue and the requests are settlements.
LEMMA WaitingIds ==
  ASSUME TypeInv
  PROVE  /\ requests \subseteq Settlements
         /\ \A i \in DOMAIN queue : queue[i] \in Settlements
BY ElementOfSeq, LenProperties DEF TypeInv, TypeOK, RelayerTypeOK, MemoryTypeOK

\* A step that neither enqueues nor takes a job: it sends for a busy or a
\* submitted settlement only, and only such a one changes its status.
LEMMA QuietKeepsWaiting ==
  ASSUME TypeInv, WaitingInv, queue' = queue, requests' = requests,
         \A s \in Settlements :
           /\ Busy(s)' => Busy(s)
           /\ row'[s].status = "NONE" => row[s].status = "NONE"
           /\ row'[s].status = "COMPLIANCE_APPROVED" => row[s].status = "COMPLIANCE_APPROVED"
           /\ row[s].status = "COMPLIANCE_APPROVED" /\ ~ Busy(s) =>
                row'[s].status = row[s].status /\ (NoneSent(s) => NoneSent(s)')
  PROVE  WaitingInv'
<1>1. \A r \in requests' :
        /\ row'[r].status = "COMPLIANCE_APPROVED" /\ NoneSent(r)' /\ ~ Busy(r)'
        /\ \A i \in DOMAIN queue' : queue'[i] # r
  BY WaitingIds DEF WaitingInv
<1>2. \A i \in DOMAIN queue' : row'[queue'[i]].status # "NONE"
  BY WaitingIds DEF WaitingInv
<1>3. \A i \in DOMAIN queue' :
        row'[queue'[i]].status = "COMPLIANCE_APPROVED" =>
          /\ NoneSent(queue[i])' /\ ~ Busy(queue[i])'
          /\ \A j \in DOMAIN queue' : queue'[j] = queue'[i] => j = i
  <2> SUFFICES ASSUME NEW i \in DOMAIN queue, row'[queue[i]].status = "COMPLIANCE_APPROVED"
               PROVE  /\ NoneSent(queue[i])' /\ ~ Busy(queue[i])'
                      /\ \A j \in DOMAIN queue : queue[j] = queue[i] => j = i
    OBVIOUS
  <2>1. queue[i] \in Settlements /\ row[queue[i]].status = "COMPLIANCE_APPROVED"
    BY WaitingIds
  <2>2. /\ NoneSent(queue[i]) /\ ~ Busy(queue[i])
        /\ \A j \in DOMAIN queue : queue[j] = queue[i] => j = i
    BY <2>1 DEF WaitingInv
  <2> QED
    BY <2>1, <2>2
<1> QED
  BY <1>1, <1>2, <1>3 DEF WaitingInv

\* An approved request: nothing was sent for it, and no job runs for it.
LEMMA ApproveKeepsWaiting ==
  ASSUME TypeInv, WaitingInv, NEW s \in Settlements, Approve(s), NoneSent(s), ~ Busy(s)
  PROVE  WaitingInv'
<1> DEFINE next == [row[s] EXCEPT !.status = "COMPLIANCE_APPROVED"]
<1>1. /\ \A u \in Settlements : row'[u] = IF u = s THEN next ELSE row[u]
      /\ row[s].status = "NONE" /\ sent' = sent /\ worker' = worker
      /\ queue' = queue /\ requests' = requests \cup {s}
  BY TransitionFacts DEF Approve, TypeInv, TypeOK, chainVars
<1>2. next.status = "COMPLIANCE_APPROVED"
  BY DEF TypeInv, TypeOK, StateTypeOK, Row
<1> HIDE DEF next
<1>3. \A i \in DOMAIN queue : queue[i] # s /\ queue[i] \in Settlements
  BY <1>1, WaitingIds DEF WaitingInv
<1>4. \A r \in requests' :
        /\ row'[r].status = "COMPLIANCE_APPROVED" /\ NoneSent(r)' /\ ~ Busy(r)'
        /\ \A i \in DOMAIN queue' : queue'[i] # r
  BY <1>1, <1>2, <1>3, WaitingIds DEF WaitingInv, NoneSent, Busy
<1>5. \A i \in DOMAIN queue' : row'[queue'[i]] = row[queue[i]]
  BY <1>1, <1>3
<1> QED
  BY <1>1, <1>4, <1>5 DEF WaitingInv, NoneSent, Busy

\* The head of the queue is taken, skipped or lost.
LEMMA DequeueKeepsWaiting ==
  ASSUME TypeInv, WaitingInv, TakeJob \/ SkipJob \/ LoseJob
  PROVE  WaitingInv'
<1>1. /\ row' = row /\ sent' = sent /\ requests' = requests /\ NextJob /\ worker.pc = "idle"
      /\ worker' = worker \/ worker'.id = Head(queue)
  BY DEF TakeJob, SkipJob, LoseJob, NextJob, chainVars, stateVars
<1>2. /\ 1 \in DOMAIN queue /\ queue[1] = Head(queue) /\ Head(queue) \in Settlements
      /\ \A i \in DOMAIN queue' : i + 1 \in DOMAIN queue /\ i + 1 # 1 /\ queue'[i] = queue[i + 1]
      /\ DOMAIN queue' \subseteq Nat
  BY <1>1, DequeuedFacts
<1>3. \A s \in Settlements : Busy(s)' => s = Head(queue)
  BY <1>1 DEF Busy
<1>4. \A r \in requests' :
        /\ row'[r].status = "COMPLIANCE_APPROVED" /\ NoneSent(r)' /\ ~ Busy(r)'
        /\ \A i \in DOMAIN queue' : queue'[i] # r
  BY <1>1, <1>2, <1>3, WaitingIds DEF WaitingInv, NoneSent
<1>5. \A i \in DOMAIN queue' : row'[queue'[i]].status # "NONE"
  BY <1>1, <1>2 DEF WaitingInv
<1>6. \A i \in DOMAIN queue' :
        row'[queue'[i]].status = "COMPLIANCE_APPROVED" =>
          /\ NoneSent(queue[i])' /\ ~ Busy(queue[i])'
          /\ \A j \in DOMAIN queue' : queue'[j] = queue'[i] => j = i
  <2> SUFFICES ASSUME NEW i \in DOMAIN queue', row[queue[i + 1]].status = "COMPLIANCE_APPROVED"
               PROVE  /\ NoneSent(queue[i])' /\ ~ Busy(queue[i])'
                      /\ \A j \in DOMAIN queue' : queue'[j] = queue'[i] => j = i
    BY <1>1, <1>2
  <2>1. /\ NoneSent(queue[i + 1])
        /\ \A j \in DOMAIN queue : queue[j] = queue[i + 1] => j = i + 1
    BY <1>2 DEF WaitingInv
  <2>2. queue[i + 1] # Head(queue) /\ queue[i + 1] \in Settlements
    BY <1>2, <2>1, WaitingIds
  <2> QED
    BY <1>1, <1>2, <1>3, <2>1, <2>2 DEF NoneSent
<1> QED
  BY <1>4, <1>5, <1>6 DEF WaitingInv

\* A settlement joins the queue from the requests, or after it was submitted.
LEMMA EnqueueKeepsWaiting ==
  ASSUME TypeInv, WaitingInv, NEW s \in Settlements, UNCHANGED <<row, sent, worker>>,
         queue' = Enqueued(s), requests' = requests \ {s}, row[s].status # "NONE",
         row[s].status = "COMPLIANCE_APPROVED" => s \in requests
  PROVE  WaitingInv'
<1>1. \A i \in DOMAIN queue' :
        \/ i \in DOMAIN queue /\ queue'[i] = queue[i]
        \/ i \notin DOMAIN queue /\ i = Len(queue) + 1 /\ queue'[i] = s
  BY EnqueuedFacts
<1>2. \A r \in requests' :
        /\ row'[r].status = "COMPLIANCE_APPROVED" /\ NoneSent(r)' /\ ~ Busy(r)'
        /\ \A i \in DOMAIN queue' : queue'[i] # r
  BY <1>1 DEF WaitingInv, NoneSent, Busy
<1>3. \A i \in DOMAIN queue' : row'[queue'[i]].status # "NONE"
  BY <1>1 DEF WaitingInv
<1>4. ASSUME NEW i \in DOMAIN queue', row[queue'[i]].status = "COMPLIANCE_APPROVED"
      PROVE  /\ NoneSent(queue'[i]) /\ ~ Busy(queue'[i])
             /\ \A j \in DOMAIN queue' : queue'[j] = queue'[i] => j = i
  <2>1. CASE i \in DOMAIN queue /\ queue'[i] = queue[i]
    <3>1. /\ NoneSent(queue[i]) /\ ~ Busy(queue[i])
          /\ \A j \in DOMAIN queue : queue[j] = queue[i] => j = i
          /\ queue[i] \notin requests
      BY <1>4, <2>1 DEF WaitingInv
    <3>2. s # queue[i]
      BY <1>4, <2>1, <3>1
    <3> QED
      BY <1>1, <2>1, <3>1, <3>2
  <2>2. CASE i = Len(queue) + 1 /\ queue'[i] = s
    <3>1. NoneSent(s) /\ ~ Busy(s) /\ \A j \in DOMAIN queue : queue[j] # s
      BY <1>4, <2>2 DEF WaitingInv
    <3> QED
      BY <1>1, <2>2, <3>1
  <2> QED
    BY <1>1, <2>1, <2>2
<1>5. \A i \in DOMAIN queue' :
        row'[queue'[i]].status = "COMPLIANCE_APPROVED" =>
          /\ NoneSent(queue[i])' /\ ~ Busy(queue[i])'
          /\ \A j \in DOMAIN queue' : queue'[j] = queue'[i] => j = i
  BY <1>4 DEF NoneSent, Busy
<1> QED
  BY <1>2, <1>3, <1>5 DEF WaitingInv

\* Rows, transfers, the worker and what waits do not change.
LEMMA SameWorkerAndQueue ==
  ASSUME NonceInv, row' = row, sent' = sent, worker' = worker, queue' = queue, requests' = requests
  PROVE  WorkerInv' /\ WaitingInv'
<1>1. WorkerInv'
  BY DEF NonceInv, WorkerInv, WorkerTx, NoneSent, SentAt
<1>2. WaitingInv'
  BY DEF NonceInv, WaitingInv, NoneSent, Busy
<1> QED
  BY <1>1, <1>2

\* A failed settlement leaves the queue, the requests and the worker as they were.
LEMMA FailKeepsWaiting ==
  ASSUME TypeInv, NonceInv, NEW s \in Settlements,
         \A u \in Settlements :
           row'[u].status = IF u = s THEN "FAILED" ELSE row[u].status,
         sent' = sent, queue' = queue, requests' = requests,
         row[s].status # "COMPLIANCE_APPROVED" \/ Busy(s),
         worker' = worker \/ worker'.pc = "idle"
  PROVE  WaitingInv'
<1>1. \A u \in Settlements : (Busy(u)' => Busy(u)) /\ (NoneSent(u) => NoneSent(u)')
  BY DEF Busy, NoneSent
<1>2. \A u \in Settlements :
        row[u].status = "COMPLIANCE_APPROVED" /\ ~ Busy(u) => row'[u].status = row[u].status
  OBVIOUS
<1> QED
  BY <1>1, <1>2, QuietKeepsWaiting DEF NonceInv

\* The snapshots taken of SUBMITTED rows are current.
LEMMA SnapshotsCurrent ==
  ASSUME NEW snap \in SnapshotsOf({"SUBMITTED"})
  PROVE  Current(snap)
BY DEF SnapshotsOf, WithStatus, Current, Early

LEMMA BootKeeps ==
  ASSUME TypeInv, NonceInv, Boot
  PROVE  NonceInv'
<1> USE DEF NonceInv
<1>1. CASE BootNonce
  <2>1. SnapshotInv'
    BY <1>1 DEF BootNonce, SnapshotInv, Current, Early, SweepTx, chainVars, stateVars
  <2> QED
    BY <1>1, <2>1, SameRows, SameWorkerAndQueue DEF BootNonce, chainVars, stateVars
<1>2. CASE BootRead
  <2>1. boot'.list = SnapshotsOf({"SUBMITTED"}) /\ boot'.pc \notin {"lookup", "fail"}
    BY <1>2 DEF BootRead, TypeInv, TypeOK, RelayerTypeOK, BootTypeOK
  <2>2. SnapshotInv'
    BY <1>2, <2>1, SnapshotsCurrent
       DEF BootRead, SnapshotInv, Current, Early, SweepTx, chainVars, stateVars
  <2> QED
    BY <1>2, <2>2, SameRows, SameWorkerAndQueue DEF BootRead, chainVars, stateVars
<1>3. ASSUME NEW snap \in boot.list, BootReceipt(snap)
      PROVE  NonceInv'
  <2>1. /\ boot'.list \subseteq boot.list
        /\ boot'.pc \in {"lookup", "fail"} => boot'.cur = snap
    <3>1. CASE BootNext(snap)
      BY <3>1 DEF BootNext
    <3>2. CASE \E pc \in {"lookup", "fail"} : boot' = [boot EXCEPT !.pc = pc, !.cur = snap]
      BY <3>2 DEF TypeInv, TypeOK, RelayerTypeOK, BootTypeOK
    <3> QED
      BY <1>3, <3>1, <3>2 DEF BootReceipt
  <2>2. SnapshotInv'
    BY <1>3, <2>1 DEF BootReceipt, SnapshotInv, Current, Early, SweepTx, chainVars, stateVars
  <2> QED
    BY <1>3, <2>2, SameRows, SameWorkerAndQueue DEF BootReceipt, chainVars, stateVars
<1>4. CASE BootFail
  <2>1. /\ boot.cur \in Snapshot /\ boot.cur.id \in Settlements /\ boot.cur.retry \in Nat
        /\ Current(boot.cur)
    BY <1>4 DEF BootFail, TypeInv, TypeOK, RelayerTypeOK, BootTypeOK, Snapshot, SnapshotInv
  <2>2. /\ OneNonce' /\ RowInv'
        /\ \A u \in Settlements :
             /\ row'[u].nonce = row[u].nonce
             /\ row'[u].status = IF u = boot.cur.id THEN "FAILED" ELSE row[u].status
    BY <1>4, <2>1, FailKeeps DEF BootFail, Current, Early, chainVars
  <2>3. boot'.list \subseteq boot.list /\ boot'.pc \notin {"lookup", "fail"}
    BY <1>4 DEF BootFail, BootNext
  <2>4. /\ \A snap \in boot.list \cup sweep.list : snap.id \in Settlements
        /\ sweep.pc \in {"send", "record", "fail"} => sweep.cur.id \in Settlements
    BY DEF TypeInv, TypeOK, RelayerTypeOK, BootTypeOK, SweepTypeOK, Snapshot
  <2>5. SnapshotInv'
    BY <1>4, <2>2, <2>3, <2>4 DEF BootFail, SnapshotInv, Current, Early, SweepTx, chainVars
  <2>6. WorkerInv'
    BY <1>4, <2>1, <2>2 DEF BootFail, WorkerInv, WorkerTx, NoneSent, SentAt, Current, Early,
       chainVars, TypeInv, TypeOK, RelayerTypeOK, WorkerTypeOK
  <2>7. WaitingInv'
    BY <1>4, <2>1, <2>2, FailKeepsWaiting DEF BootFail, Current, Early, chainVars
  <2> QED
    BY <1>4, <2>2, <2>5, <2>6, <2>7 DEF BootFail, chainVars
<1>5. CASE BootLookup
  <2>1. /\ boot.cur \in Snapshot /\ boot.cur.id \in Settlements /\ Current(boot.cur)
    BY <1>5 DEF BootLookup, TypeInv, TypeOK, RelayerTypeOK, BootTypeOK, Snapshot, SnapshotInv
  <2>2. boot'.list \subseteq boot.list /\ boot'.pc \notin {"lookup", "fail"}
    BY <1>5 DEF BootLookup, BootNext
  <2>3. SnapshotInv'
    BY <1>5, <2>2 DEF BootLookup, SnapshotInv, Current, Early, SweepTx, chainVars, stateVars
  <2>4. WorkerInv'
    BY <1>5 DEF BootLookup, WorkerInv, WorkerTx, NoneSent, SentAt, chainVars, stateVars
  <2>5. WaitingInv'
    <3>1. row[boot.cur.id].status \notin {"NONE", "COMPLIANCE_APPROVED"}
      BY <2>1 DEF Current, Early
    <3>2. requests' = requests \ {boot.cur.id}
      BY <1>5, <3>1 DEF BootLookup, WaitingInv
    <3>3. row' = row /\ sent' = sent /\ worker' = worker /\ requests' = requests
      BY <1>5 DEF BootLookup, chainVars, stateVars
    <3>4. CASE queue' = Enqueued(boot.cur.id)
      BY <2>1, <3>1, <3>2, <3>3, <3>4, EnqueueKeepsWaiting DEF NonceInv
    <3>5. CASE queue' = queue
      BY <3>3, <3>5, SameWorkerAndQueue
    <3> QED
      BY <1>5, <3>4, <3>5 DEF BootLookup
  <2> QED
    BY <1>5, <2>3, <2>4, <2>5, SameRows DEF BootLookup, chainVars, stateVars
<1> QED
  BY <1>1, <1>2, <1>3, <1>4, <1>5 DEF Boot

\* No job runs for a settlement that has no row.
LEMMA WorkerHasRow ==
  ASSUME TypeInv, NonceInv, worker.pc # "idle"
  PROVE  /\ worker.id \in Settlements
         /\ row[worker.id].status # "NONE"
         /\ worker.resume <=> ~ Early(worker.id)
<1>1. worker.id \in Settlements /\ worker.nonce \in Nat /\ worker.resume \in BOOLEAN
  BY DEF TypeInv, TypeOK, RelayerTypeOK, WorkerTypeOK
<1>2. worker.resume => ~ Early(worker.id)
  BY <1>1, ChainAssumption DEF NonceInv, RowInv, WorkerInv
<1> QED
  BY <1>1, <1>2 DEF NonceInv, WorkerInv, Early

LEMMA SubmitKeeps ==
  ASSUME TypeInv, NonceInv, NEW s \in Settlements, Approve(s) \/ Enqueue(s)
  PROVE  NonceInv'
<1>1. CASE Approve(s)
  <2> DEFINE next == [row[s] EXCEPT !.status = "COMPLIANCE_APPROVED"]
  <2>1. /\ \A u \in Settlements : row'[u] = IF u = s THEN next ELSE row[u]
        /\ row[s].status = "NONE" /\ Early(s) /\ sent' = sent /\ faults' = faults
        /\ worker' = worker /\ queue' = queue /\ requests' = requests \cup {s}
        /\ boot' = boot /\ sweep' = sweep
    BY <1>1, TransitionFacts DEF Approve, TypeInv, TypeOK, chainVars, Early
  <2>2. next.status = "COMPLIANCE_APPROVED" /\ next.nonce = row[s].nonce /\ next.tx = row[s].tx
    BY DEF TypeInv, TypeOK, StateTypeOK, Row
  <2> HIDE DEF next
  <2>3. NoneSent(s) /\ row[s].nonce = Null
    BY <2>1 DEF NonceInv, RowInv
  <2>4. OneNonce'
    BY <2>1 DEF NonceInv, OneNonce
  <2>5. RowInv'
    BY <2>1, <2>2, <2>3 DEF NonceInv, RowInv, Early, NoneSent, SentAt
  <2>6. SnapshotInv'
    <3>1. /\ \A snap \in boot.list \cup sweep.list : snap.id \in Settlements
          /\ boot.pc \in {"lookup", "fail"} => boot.cur.id \in Settlements
          /\ sweep.pc \in {"send", "record", "fail"} => sweep.cur.id \in Settlements
      BY DEF TypeInv, TypeOK, RelayerTypeOK, BootTypeOK, SweepTypeOK, Snapshot
    <3> QED
      BY <2>1, <3>1 DEF NonceInv, SnapshotInv, Current, Early, SweepTx
  <2>7. ~ Busy(s) /\ WorkerInv'
    <3>1. worker.pc # "idle" => worker.id \in Settlements /\ worker.id # s
      BY <2>1, WorkerHasRow
    <3> QED
      BY <2>1, <3>1 DEF NonceInv, WorkerInv, WorkerTx, NoneSent, SentAt, Busy
  <2>8. WaitingInv'
    BY <1>1, <2>3, <2>7, ApproveKeepsWaiting DEF NonceInv
  <2> QED
    BY <2>1, <2>4, <2>5, <2>6, <2>7, <2>8 DEF NonceInv
<1>2. CASE Enqueue(s)
  <2>1. row' = row /\ sent' = sent /\ worker' = worker /\ faults' = faults
        /\ boot' = boot /\ sweep' = sweep /\ s \in requests
    BY <1>2 DEF Enqueue, chainVars, stateVars
  <2>2. SnapshotInv' /\ WorkerInv'
    BY <2>1 DEF NonceInv, SnapshotInv, Current, Early, SweepTx, WorkerInv, WorkerTx, NoneSent, SentAt
  <2>3. WaitingInv'
    <3>1. row[s].status # "NONE"
      BY <2>1 DEF NonceInv, WaitingInv
    <3> QED
      BY <1>2, <2>1, <3>1, EnqueueKeepsWaiting DEF Enqueue, NonceInv
  <2> QED
    BY <2>1, <2>2, <2>3, SameRows DEF NonceInv
<1> QED
  BY <1>1, <1>2

\* The worker takes the head of the queue, or leaves it.
LEMMA DequeueKeeps ==
  ASSUME TypeInv, NonceInv, TakeJob \/ SkipJob \/ LoseJob
  PROVE  NonceInv'
<1>1. /\ row' = row /\ sent' = sent /\ requests' = requests /\ boot' = boot /\ sweep' = sweep
      /\ NextJob /\ worker.pc = "idle"
  BY DEF TakeJob, SkipJob, LoseJob, NextJob, chainVars, stateVars
<1>2. faults'["ack"] = 0
  BY SpendType DEF TakeJob, SkipJob, LoseJob, chainVars, NonceInv, TypeInv, TypeOK, ChainTypeOK, FaultKinds
<1>3. SnapshotInv'
  BY <1>1 DEF NonceInv, SnapshotInv, Current, Early, SweepTx
<1>4. /\ 1 \in DOMAIN queue /\ queue[1] = Head(queue) /\ Head(queue) \in Settlements
      /\ \A i \in DOMAIN queue' : i + 1 \in DOMAIN queue /\ i + 1 # 1 /\ queue'[i] = queue[i + 1]
      /\ DOMAIN queue' \subseteq Nat
  BY <1>1, DequeuedFacts
<1>5. CASE worker' = worker
  <2>1. WorkerInv'
    BY <1>1, <1>5 DEF WorkerInv
  <2>2. WaitingInv'
    BY DequeueKeepsWaiting DEF NonceInv
  <2> QED
    BY <1>1, <1>2, <1>3, <2>1, <2>2, SameRows DEF NonceInv
<1>6. CASE TakeJob
  <2> DEFINE id == Head(queue)
             resume == row[id].status = "SUBMITTED" /\ row[id].nonce # Null
  <2>1. /\ worker'.pc = "send" /\ worker'.id = Head(queue)
        /\ worker'.resume <=> (row[Head(queue)].status = "SUBMITTED" /\ row[Head(queue)].nonce # Null)
        /\ worker'.resume => worker'.nonce = row[Head(queue)].nonce
        /\ row[Head(queue)].status \in {"COMPLIANCE_APPROVED", "SUBMITTED"}
    <3>1. PICK fee \in MarketFees :
            worker' = [pc |-> "send", id |-> id, resume |-> resume,
                       nonce |-> IF resume THEN row[id].nonce ELSE localNonce,
                       fee |-> fee, retry |-> row[id].retry]
      BY <1>6 DEF TakeJob
    <3>2. row[id].status \in {"COMPLIANCE_APPROVED", "SUBMITTED"}
      BY <1>6 DEF TakeJob, Sendable
    <3>3. /\ worker'.pc = "send" /\ worker'.id = id /\ worker'.resume = resume
          /\ worker'.nonce = IF resume THEN row[id].nonce ELSE localNonce
      <4> HIDE DEF resume, id
      <4> QED
        BY <3>1
    <3> QED
      BY <3>2, <3>3
  <2>2. row[Head(queue)].status = "SUBMITTED" => row[Head(queue)].nonce # Null
    BY <1>4, ChainAssumption DEF TypeInv, SubmittedHasTx
  <2>3. row[Head(queue)].status = "COMPLIANCE_APPROVED" =>
          /\ NoneSent(Head(queue))
          /\ \A j \in DOMAIN queue : queue[j] = Head(queue) => j = 1
    BY <1>4 DEF NonceInv, WaitingInv
  <2>4. WorkerInv'
    BY <1>1, <2>1, <2>2, <2>3 DEF WorkerInv, NoneSent
  <2>5. WaitingInv'
    BY DequeueKeepsWaiting DEF NonceInv
  <2> QED
    BY <1>1, <1>2, <1>3, <2>4, <2>5, SameRows DEF NonceInv
<1> QED
  BY <1>5, <1>6 DEF SkipJob, LoseJob

\* A broadcast at the nonce of the row, or the first one of an approved settlement.
LEMMA AcceptKeeps ==
  ASSUME TypeInv, NonceInv, NEW t \in Txs, Accept(t), row' = row,
         \/ row[t.sid].nonce = t.nonce
         \/ NoneSent(t.sid) /\ row[t.sid].status = "COMPLIANCE_APPROVED"
  PROVE  /\ sent' = sent \cup {t}
         /\ SentAt(t.sid, t.nonce)
         /\ OneNonce' /\ RowInv'
<1>1. t.sid \in Settlements /\ t.nonce \in Nat /\ t.nonce # Null
  BY ChainAssumption DEF Txs
<1>2. sent' = sent \cup {t}
  BY DEF Accept
<1>3. SentAt(t.sid, t.nonce)
  BY <1>1 DEF NonceInv, RowInv, NoneSent, SentAt
<1>4. OneNonce'
  BY <1>2, <1>3 DEF NonceInv, OneNonce, SentAt
<1>5. row[t.sid].status # "NONE" /\ row[t.sid].nonce \in {Null, t.nonce}
  BY <1>1 DEF NonceInv, RowInv, Early
<1>6. RowInv'
  BY <1>2, <1>3, <1>5 DEF NonceInv, RowInv, Early, NoneSent, SentAt
<1> QED
  BY <1>2, <1>3, <1>4, <1>6

\* What waits is for other settlements than the one that is sent.
LEMMA SendKeepsWaiting ==
  ASSUME TypeInv, NonceInv, NEW t, sent' = sent \cup {t}, row' = row,
         queue' = queue, requests' = requests,
         Busy(t.sid) \/ ~ Early(t.sid),
         worker' = worker \/ (worker'.pc # "idle" /\ worker'.id = worker.id /\ worker.pc # "idle")
  PROVE  WaitingInv'
<1>1. \A s \in Settlements : Busy(s)' => Busy(s)
  BY DEF Busy
<1>2. ASSUME NEW s \in Settlements, row[s].status = "COMPLIANCE_APPROVED", ~ Busy(s), NoneSent(s)
      PROVE  NoneSent(s)'
  <2>1. s # t.sid
    BY <1>2 DEF Early
  <2> QED
    BY <1>2, <2>1 DEF NoneSent
<1> QED
  BY <1>1, <1>2, QuietKeepsWaiting DEF NonceInv

LEMMA SendKeeps ==
  ASSUME TypeInv, NonceInv, SendAck
  PROVE  NonceInv'
<1>1. /\ worker.pc = "send" /\ Accept(WorkerTx) /\ row' = row /\ faults' = faults
      /\ queue' = queue /\ requests' = requests /\ boot' = boot /\ sweep' = sweep
      /\ worker' = [worker EXCEPT !.pc = "record"]
  BY DEF SendAck, stateVars
<1>2. /\ worker'.pc = "record" /\ worker'.id = worker.id /\ worker'.resume = worker.resume
      /\ worker'.nonce = worker.nonce /\ WorkerTx' = WorkerTx
  BY <1>1 DEF TypeInv, TypeOK, RelayerTypeOK, WorkerTypeOK, WorkerTx
<1>3. /\ WorkerTx \in Txs /\ WorkerTx.sid = worker.id /\ WorkerTx.nonce = worker.nonce
      /\ worker.resume \in BOOLEAN
  BY <1>1 DEF WorkerTx, Txs, TypeInv, TypeOK, RelayerTypeOK, WorkerTypeOK
<1>4. \/ worker.resume /\ row[worker.id].nonce = worker.nonce
      \/ /\ ~ worker.resume /\ NoneSent(worker.id)
         /\ row[worker.id].status = "COMPLIANCE_APPROVED"
  BY <1>1, <1>3 DEF NonceInv, WorkerInv
<1>5. /\ sent' = sent \cup {WorkerTx} /\ SentAt(worker.id, worker.nonce)
      /\ OneNonce' /\ RowInv'
  BY <1>1, <1>3, <1>4, AcceptKeeps
<1>6. SnapshotInv'
  BY <1>1, <1>5 DEF NonceInv, SnapshotInv, Current, Early, SweepTx
<1>7. WorkerInv'
  <2>1. SentAt(worker.id, worker.nonce)'
    BY <1>2, <1>3, <1>5 DEF SentAt
  <2> QED
    BY <1>1, <1>2, <1>4, <1>5, <2>1 DEF WorkerInv, SentAt
<1>8. WaitingInv'
  <2>1. Busy(WorkerTx.sid)
    BY <1>1, <1>3 DEF Busy
  <2> QED
    BY <1>1, <1>2, <1>5, <2>1, SendKeepsWaiting
<1> QED
  BY <1>1, <1>5, <1>6, <1>7, <1>8 DEF NonceInv

\* A failed attempt changes at most the nonce of a fresh job.
LEMMA AttemptKeeps ==
  ASSUME TypeInv, NonceInv,
         SendRefused \/ SendTransient \/ SendUnderpriced \/ SendPermanent \/ Resync
  PROVE  NonceInv'
<1>1. /\ row' = row /\ sent' = sent /\ faults' = faults /\ worker.pc \in {"send", "resync"}
      /\ queue' = queue /\ requests' = requests /\ boot' = boot /\ sweep' = sweep
  BY DEF SendRefused, SendTransient, SendUnderpriced, SendPermanent, Resync, chainVars, stateVars
<1>2. /\ worker'.pc \in {"send", "resync", "fail"} /\ worker'.id = worker.id
      /\ worker'.resume = worker.resume
      /\ worker.resume => worker'.nonce = worker.nonce
  <2>1. CASE SendRefused \/ SendTransient
    <3>1. PICK pc \in {"send", "resync"} : Retry(pc)
      BY <2>1 DEF SendRefused, SendTransient
    <3> QED
      BY <3>1 DEF Retry, TypeInv, TypeOK, RelayerTypeOK, WorkerTypeOK
  <2>2. CASE SendUnderpriced \/ SendPermanent
    BY <2>2 DEF SendUnderpriced, SendPermanent, TypeInv, TypeOK, RelayerTypeOK, WorkerTypeOK
  <2>3. CASE Resync
    BY <2>3 DEF Resync, TypeInv, TypeOK, RelayerTypeOK, WorkerTypeOK
  <2> QED
    BY <2>1, <2>2, <2>3
<1>3. SnapshotInv'
  BY <1>1 DEF NonceInv, SnapshotInv, Current, Early, SweepTx
<1>4. WorkerInv'
  BY <1>1, <1>2 DEF NonceInv, WorkerInv, NoneSent
<1>5. WaitingInv'
  BY <1>1, <1>2 DEF NonceInv, WaitingInv, NoneSent, Busy
<1> QED
  BY <1>1, <1>3, <1>4, <1>5, SameRows DEF NonceInv

\* The row of the sent settlement takes the hash and the nonce that were sent.
LEMMA RecordKeeps ==
  ASSUME TypeInv, NonceInv, Record
  PROVE  NonceInv'
<1> DEFINE id == worker.id
           next == SubmittedRow
<1>1. /\ worker.pc = "record" /\ sent' = sent /\ faults' = faults /\ worker' = WorkerIdle
      /\ queue' = queue /\ requests' = requests /\ boot' = boot /\ sweep' = sweep
      /\ \A u \in Settlements : row'[u] = IF u = id THEN next ELSE row[u]
  <2>1. worker.id \in Settlements
    BY DEF Record, TypeInv, TypeOK, RelayerTypeOK, WorkerTypeOK
  <2> QED
    BY <2>1, TransitionFacts DEF Record, chainVars, TypeInv, TypeOK
<1>2. /\ id \in Settlements /\ worker.nonce \in Nat /\ worker.nonce # Null /\ worker.resume \in BOOLEAN
      /\ WorkerTx \in sent /\ WorkerTx.sid = id /\ WorkerTx.nonce = worker.nonce
  BY <1>1, ChainAssumption DEF NonceInv, WorkerInv, WorkerTx, TypeInv, TypeOK, RelayerTypeOK, WorkerTypeOK
<1>3. next.status = "SUBMITTED" /\ next.nonce = worker.nonce /\ next.tx = WorkerTx
  BY <1>2 DEF SubmittedRow, TypeInv, TypeOK, StateTypeOK, Row
<1> HIDE DEF next
<1>4. \/ worker.resume /\ row[id].nonce = worker.nonce /\ ~ Early(id)
      \/ ~ worker.resume /\ row[id].status = "COMPLIANCE_APPROVED" /\ Early(id)
  BY <1>1, <1>2, WorkerHasRow DEF NonceInv, WorkerInv, Early
<1>5. SentAt(id, worker.nonce)
  BY <1>1, <1>2, <1>4 DEF NonceInv, WorkerInv, RowInv
<1>6. OneNonce'
  BY <1>1 DEF NonceInv, OneNonce
<1>7. RowInv'
  <2> SUFFICES ASSUME NEW u \in Settlements
               PROVE  /\ row'[u].status = "NONE" => NoneSent(u)'
                      /\ Early(u)' => row'[u].nonce = Null
                      /\ row'[u].nonce # Null => \A t \in sent : t.sid = u => t.nonce = row'[u].nonce
                      /\ row'[u].tx # Null => /\ row'[u].tx \in sent
                                              /\ row'[u].tx.sid = u
                                              /\ row'[u].tx.nonce = row'[u].nonce
    BY <1>1 DEF RowInv, SentAt
  <2>1. CASE u = id
    BY <1>1, <1>2, <1>3, <1>5, <2>1 DEF Early, SentAt
  <2>2. CASE u # id
    BY <1>1, <2>2 DEF NonceInv, RowInv, Early, NoneSent, SentAt
  <2> QED
    BY <2>1, <2>2
<1>9. SnapshotInv'
  <2>1. /\ \A snap \in boot.list \cup sweep.list : snap.id \in Settlements
        /\ boot.pc \in {"lookup", "fail"} => boot.cur.id \in Settlements
        /\ sweep.pc \in {"send", "record", "fail"} => sweep.cur.id \in Settlements
    BY DEF TypeInv, TypeOK, RelayerTypeOK, BootTypeOK, SweepTypeOK, Snapshot
  <2> QED
    BY <1>1, <1>3, <1>4, <2>1 DEF NonceInv, SnapshotInv, Current, Early, SweepTx
<1>10. WorkerInv'
  BY <1>1 DEF WorkerInv, WorkerIdle
<1>11. WaitingInv'
  <2>1. Busy(id) /\ \A s \in Settlements : ~ Busy(s)'
    BY <1>1 DEF Busy, WorkerIdle
  <2>2. \A r \in requests' :
          /\ row'[r].status = "COMPLIANCE_APPROVED" /\ NoneSent(r)' /\ ~ Busy(r)'
          /\ \A i \in DOMAIN queue' : queue'[i] # r
    BY <1>1, <2>1, WaitingIds DEF NonceInv, WaitingInv, NoneSent
  <2>3. \A i \in DOMAIN queue' : row'[queue'[i]].status # "NONE"
    BY <1>1, <1>3, WaitingIds DEF NonceInv, WaitingInv
  <2>4. \A i \in DOMAIN queue' :
          row'[queue'[i]].status = "COMPLIANCE_APPROVED" =>
            /\ NoneSent(queue[i])' /\ ~ Busy(queue[i])'
            /\ \A j \in DOMAIN queue' : queue'[j] = queue'[i] => j = i
    <3> SUFFICES ASSUME NEW i \in DOMAIN queue, row'[queue[i]].status = "COMPLIANCE_APPROVED"
                 PROVE  /\ NoneSent(queue[i])' /\ ~ Busy(queue[i])'
                        /\ \A j \in DOMAIN queue : queue[j] = queue[i] => j = i
      BY <1>1
    <3>1. row[queue[i]].status = "COMPLIANCE_APPROVED" /\ queue[i] \in Settlements
      BY <1>1, <1>3, WaitingIds
    <3> QED
      BY <1>1, <2>1, <3>1 DEF NonceInv, WaitingInv, NoneSent
  <2> QED
    BY <2>2, <2>3, <2>4 DEF WaitingInv
<1> QED
  BY <1>1, <1>6, <1>7, <1>9, <1>10, <1>11 DEF NonceInv

\* Giving up on a job, and forgetting one.
LEMMA WorkerEndKeeps ==
  ASSUME TypeInv, NonceInv, Fail \/ WorkerThrows
  PROVE  NonceInv'
<1>1. /\ worker.pc # "idle" /\ worker' = WorkerIdle /\ sent' = sent
      /\ queue' = queue /\ requests' = requests /\ boot' = boot /\ sweep' = sweep
  BY DEF Fail, WorkerThrows, chainVars
<1>2. WorkerInv' /\ worker'.pc = "idle"
  BY <1>1 DEF WorkerInv, WorkerIdle
<1>3. CASE Fail
  <2>1. worker.id \in Settlements /\ worker.retry \in Nat /\ row[worker.id].status # "NONE"
    BY <1>1, WorkerHasRow DEF TypeInv, TypeOK, RelayerTypeOK, WorkerTypeOK
  <2>2. /\ OneNonce' /\ RowInv'
        /\ \A u \in Settlements :
             /\ row'[u].nonce = row[u].nonce
             /\ row'[u].status = IF u = worker.id THEN "FAILED" ELSE row[u].status
    BY <1>1, <1>3, <2>1, FailKeeps DEF Fail
  <2>3. SnapshotInv'
    <3>1. /\ \A snap \in boot.list \cup sweep.list : snap.id \in Settlements
          /\ boot.pc \in {"lookup", "fail"} => boot.cur.id \in Settlements
          /\ sweep.pc \in {"send", "record", "fail"} => sweep.cur.id \in Settlements
      BY DEF TypeInv, TypeOK, RelayerTypeOK, BootTypeOK, SweepTypeOK, Snapshot
    <3> QED
      BY <1>1, <2>2, <3>1 DEF NonceInv, SnapshotInv, Current, Early, SweepTx
  <2>4. WaitingInv'
    <3>1. Busy(worker.id)
      BY <1>1 DEF Busy
    <3> QED
      BY <1>1, <1>2, <2>1, <2>2, <3>1, FailKeepsWaiting
  <2>5. faults' = faults
    BY <1>3 DEF Fail, chainVars
  <2> QED
    BY <1>2, <2>2, <2>3, <2>4, <2>5 DEF NonceInv
<1>4. CASE WorkerThrows
  <2>1. row' = row /\ faults'["ack"] = 0
    BY <1>4, SpendType DEF WorkerThrows, stateVars, NonceInv, TypeInv, TypeOK, ChainTypeOK, FaultKinds
  <2>2. SnapshotInv'
    BY <1>1, <2>1 DEF NonceInv, SnapshotInv, Current, Early, SweepTx
  <2>3. WaitingInv'
    BY <1>1, <1>2, <2>1 DEF NonceInv, WaitingInv, NoneSent, Busy
  <2> QED
    BY <1>1, <1>2, <2>1, <2>2, <2>3, SameRows DEF NonceInv
<1> QED
  BY <1>3, <1>4

LEMMA WorkerKeeps ==
  ASSUME TypeInv, NonceInv, Worker
  PROVE  NonceInv'
<1>1. ~ Spend("ack")
  BY DEF Spend, NonceInv
<1>2. ~ SendLost /\ ~ RecordThrows
  BY <1>1 DEF SendLost, RecordThrows
<1> QED
  BY <1>2, DequeueKeeps, SendKeeps, AttemptKeeps, RecordKeeps, WorkerEndKeeps DEF Worker

\* The sweep's steps that write and send nothing.
LEMMA SweepLookKeeps ==
  ASSUME TypeInv, NonceInv, row' = row, sent' = sent, worker' = worker, boot' = boot,
         queue' = queue, requests' = requests, faults'["ack"] = 0,
         \A snap \in sweep'.list : Current(snap),
         sweep'.pc \in {"send", "record", "fail"} => Current(sweep'.cur),
         sweep'.pc # "record"
  PROVE  NonceInv'
<1>1. SnapshotInv'
  BY DEF NonceInv, SnapshotInv, Current, Early
<1> QED
  BY <1>1, SameRows, SameWorkerAndQueue DEF NonceInv

LEMMA SweepNextFacts ==
  ASSUME NEW snap, SweepNext(snap)
  PROVE  sweep'.list \subseteq sweep.list /\ sweep'.pc \in {"idle", "each"}
BY DEF SweepNext, SweepIdle

LEMMA SweepKeeps ==
  ASSUME TypeInv, NonceInv, Sweep
  PROVE  NonceInv'
<1>a. ~ Spend("ack")
  BY DEF Spend, NonceInv
<1>b. \A snap \in sweep.list : Current(snap)
  BY DEF NonceInv, SnapshotInv
<1>c. sweep.pc \in {"send", "record", "fail"} =>
        /\ Current(sweep.cur) /\ sweep.cur.id \in Settlements
        /\ SweepTx \in Txs /\ SweepTx.sid = sweep.cur.id /\ SweepTx.nonce = sweep.cur.nonce
  BY DEF NonceInv, SnapshotInv, SweepTx, Txs, Snapshot, TypeInv, TypeOK, RelayerTypeOK, SweepTypeOK
<1>1. CASE SweepRead
  <2>1. sweep'.list = SnapshotsOf({"SUBMITTED"}) /\ sweep'.pc = "each"
    BY <1>1 DEF SweepRead, TypeInv, TypeOK, RelayerTypeOK, SweepTypeOK
  <2> QED
    BY <1>1, <2>1, SnapshotsCurrent, SweepLookKeeps DEF SweepRead, chainVars, stateVars, NonceInv
<1>2. ASSUME NEW snap \in sweep.list, SweepMined(snap) \/ SweepNotStale(snap)
      PROVE  NonceInv'
  <2>1. sweep'.list \subseteq sweep.list /\ sweep'.pc \in {"idle", "each"}
    BY <1>2, SweepNextFacts DEF SweepMined, SweepNotStale
  <2> QED
    BY <1>2, <1>b, <2>1, SweepLookKeeps
       DEF SweepMined, SweepNotStale, chainVars, stateVars, NonceInv
<1>3. ASSUME NEW snap \in sweep.list, SweepStale(snap)
      PROVE  NonceInv'
  <2>1. sweep'.list = sweep.list /\ sweep'.pc \in {"fail", "send"} /\ sweep'.cur = snap
    BY <1>3 DEF SweepStale, TypeInv, TypeOK, RelayerTypeOK, SweepTypeOK
  <2> QED
    BY <1>3, <1>b, <2>1, SweepLookKeeps DEF SweepStale, chainVars, stateVars, NonceInv
<1>4. CASE ResendAck
  <2>1. /\ row' = row /\ worker' = worker /\ boot' = boot /\ faults' = faults
        /\ queue' = queue /\ requests' = requests /\ Accept(SweepTx) /\ sweep.pc = "send"
        /\ sweep'.list = sweep.list /\ sweep'.cur = sweep.cur /\ sweep'.pc = "record"
        /\ SweepTx' = SweepTx
    BY <1>4 DEF ResendAck, stateVars, SweepTx, TypeInv, TypeOK, RelayerTypeOK, SweepTypeOK
  <2>2. row[SweepTx.sid].nonce = SweepTx.nonce /\ ~ Early(SweepTx.sid)
    BY <1>c, <2>1 DEF Current
  <2>3. /\ sent' = sent \cup {SweepTx} /\ SentAt(SweepTx.sid, SweepTx.nonce)
        /\ OneNonce' /\ RowInv'
    BY <1>c, <2>1, <2>2, AcceptKeeps
  <2>4. SnapshotInv'
    BY <2>1, <2>3 DEF NonceInv, SnapshotInv, Current, Early
  <2>5. WorkerInv'
    <3>1. worker.pc # "idle" /\ ~ worker.resume => worker.id # SweepTx.sid
      BY <2>2, WorkerHasRow
    <3>2. worker.pc # "idle" => worker.resume \in BOOLEAN
      BY DEF TypeInv, TypeOK, RelayerTypeOK, WorkerTypeOK
    <3> QED
      BY <2>1, <2>3, <3>1, <3>2 DEF NonceInv, WorkerInv, WorkerTx, NoneSent, SentAt
  <2>6. WaitingInv'
    BY <2>1, <2>2, <2>3, SendKeepsWaiting
  <2> QED
    BY <2>1, <2>3, <2>4, <2>5, <2>6 DEF NonceInv
<1>5. CASE ResendRefused
  <2>1. sweep'.list \subseteq sweep.list /\ sweep'.pc \in {"idle", "each"}
    BY <1>5, SweepNextFacts DEF ResendRefused
  <2> QED
    BY <1>5, <1>b, <2>1, SweepLookKeeps DEF ResendRefused, chainVars, stateVars, NonceInv
<1>6. CASE ResendPermanent
  <2>1. sweep'.list = sweep.list /\ sweep'.pc = "fail" /\ sweep'.cur = sweep.cur
    BY <1>6 DEF ResendPermanent, TypeInv, TypeOK, RelayerTypeOK, SweepTypeOK
  <2> QED
    BY <1>6, <1>b, <1>c, <2>1, SweepLookKeeps
       DEF ResendPermanent, chainVars, stateVars, NonceInv
<1>7. CASE ResendRecord
  <2>1. /\ sweep.pc = "record" /\ sent' = sent /\ faults' = faults /\ worker' = worker
        /\ queue' = queue /\ requests' = requests /\ boot' = boot
    BY <1>7 DEF ResendRecord, chainVars
  <2>2. /\ row[sweep.cur.id].nonce = SweepTx.nonce /\ SweepTx \in sent
        /\ SweepTx.sid = sweep.cur.id
    BY <1>c, <2>1 DEF Current, NonceInv, SnapshotInv
  <2>3. \A u \in Settlements :
          /\ row'[u].status = row[u].status /\ row'[u].nonce = row[u].nonce
          /\ row'[u].tx = IF u = sweep.cur.id THEN SweepTx ELSE row[u].tx
    BY <1>7 DEF ResendRecord, RecordResend, TypeInv, TypeOK, StateTypeOK, Row
  <2>4. sweep'.list \subseteq sweep.list /\ sweep'.pc \in {"idle", "each"}
    BY <1>7, SweepNextFacts DEF ResendRecord
  <2>5. OneNonce' /\ RowInv'
    <3>1. OneNonce'
      BY <2>1 DEF NonceInv, OneNonce
    <3>2. ASSUME NEW u \in Settlements
          PROVE  /\ row'[u].status = "NONE" => NoneSent(u)'
                 /\ Early(u)' => row'[u].nonce = Null
                 /\ row'[u].nonce # Null => \A t \in sent : t.sid = u => t.nonce = row'[u].nonce
                 /\ row'[u].tx # Null => /\ row'[u].tx \in sent
                                         /\ row'[u].tx.sid = u
                                         /\ row'[u].tx.nonce = row'[u].nonce
      <4>1. CASE u = sweep.cur.id
        BY <2>1, <2>2, <2>3, <4>1 DEF NonceInv, RowInv, Early, NoneSent, SentAt
      <4>2. CASE u # sweep.cur.id
        BY <2>1, <2>3, <4>2 DEF NonceInv, RowInv, Early, NoneSent, SentAt
      <4> QED
        BY <4>1, <4>2
    <3> QED
      BY <2>1, <3>1, <3>2 DEF RowInv, SentAt
  <2>6. SnapshotInv'
    <3>1. /\ \A snap \in boot.list \cup sweep.list : snap.id \in Settlements
          /\ boot.pc \in {"lookup", "fail"} => boot.cur.id \in Settlements
      BY DEF TypeInv, TypeOK, RelayerTypeOK, BootTypeOK, SweepTypeOK, Snapshot
    <3> QED
      BY <2>1, <2>3, <2>4, <3>1 DEF NonceInv, SnapshotInv, Current, Early
  <2>7. WorkerInv'
    <3>1. worker.pc # "idle" => worker.id \in Settlements
      BY WorkerHasRow
    <3> QED
      BY <2>1, <2>3, <3>1 DEF NonceInv, WorkerInv, WorkerTx, NoneSent, SentAt
  <2>8. WaitingInv'
    <3>1. \A r \in requests : row'[r].status = row[r].status
      BY <2>3, WaitingIds
    <3>2. \A i \in DOMAIN queue : row'[queue[i]].status = row[queue[i]].status
      BY <2>3, WaitingIds
    <3> QED
      BY <2>1, <3>1, <3>2 DEF NonceInv, WaitingInv, NoneSent, Busy
  <2> QED
    BY <2>1, <2>5, <2>6, <2>7, <2>8 DEF NonceInv
<1>8. CASE SweepFail
  <2>1. /\ sweep.cur.id \in Settlements /\ sweep.retry \in Nat /\ Current(sweep.cur)
        /\ row[sweep.cur.id].status \notin {"NONE", "COMPLIANCE_APPROVED"}
    BY <1>8, <1>c DEF SweepFail, Current, Early, TypeInv, TypeOK, RelayerTypeOK, SweepTypeOK
  <2>2. /\ sent' = sent /\ faults' = faults /\ worker' = worker
        /\ queue' = queue /\ requests' = requests /\ boot' = boot
    BY <1>8 DEF SweepFail, chainVars
  <2>3. /\ OneNonce' /\ RowInv'
        /\ \A u \in Settlements :
             /\ row'[u].nonce = row[u].nonce
             /\ row'[u].status = IF u = sweep.cur.id THEN "FAILED" ELSE row[u].status
    BY <1>8, <2>1, <2>2, FailKeeps DEF SweepFail
  <2>4. sweep'.list \subseteq sweep.list /\ sweep'.pc \in {"idle", "each"}
    BY <1>8, SweepNextFacts DEF SweepFail
  <2>5. SnapshotInv'
    <3>1. /\ \A snap \in boot.list \cup sweep.list : snap.id \in Settlements
          /\ boot.pc \in {"lookup", "fail"} => boot.cur.id \in Settlements
      BY DEF TypeInv, TypeOK, RelayerTypeOK, BootTypeOK, SweepTypeOK, Snapshot
    <3> QED
      BY <2>2, <2>3, <2>4, <3>1 DEF NonceInv, SnapshotInv, Current, Early
  <2>6. WorkerInv'
    BY <2>1, <2>2, <2>3, WorkerHasRow DEF NonceInv, WorkerInv, WorkerTx, NoneSent, SentAt
  <2>7. WaitingInv'
    BY <2>1, <2>2, <2>3, FailKeepsWaiting
  <2> QED
    BY <2>2, <2>3, <2>5, <2>6, <2>7 DEF NonceInv
<1>9. CASE SweepThrows
  <2>1. sweep'.list = {} /\ sweep'.pc = "idle"
    BY <1>9 DEF SweepThrows, SweepIdle
  <2>2. faults'["ack"] = 0
    BY <1>9, SpendType DEF SweepThrows, NonceInv, TypeInv, TypeOK, ChainTypeOK, FaultKinds
  <2> QED
    BY <1>9, <2>1, <2>2, SweepLookKeeps DEF SweepThrows, stateVars
<1>10. ~ ResendLost /\ ~ ResendRecordThrows
  BY <1>a DEF ResendLost, ResendRecordThrows
<1> QED
  BY <1>1, <1>2, <1>3, <1>4, <1>5, <1>6, <1>7, <1>8, <1>9, <1>10 DEF Sweep

LEMMA DrainCrashKeeps ==
  ASSUME TypeInv, NonceInv, Drain \/ Crash
  PROVE  NonceInv'
<1>1. CASE Drain
  <2>1. SnapshotInv'
    BY <1>1 DEF Drain, NonceInv, SnapshotInv, Current, Early, SweepTx, chainVars, stateVars
  <2> QED
    BY <1>1, <2>1, SameRows, SameWorkerAndQueue DEF Drain, NonceInv, chainVars, stateVars
<1>2. CASE Crash
  <2>1. row' = row /\ sent' = sent /\ faults'["ack"] = 0
    BY <1>2, SpendType DEF Crash, stateVars, NonceInv, TypeInv, TypeOK, ChainTypeOK, FaultKinds
  <2>2. SnapshotInv' /\ WorkerInv' /\ WaitingInv'
    BY <1>2 DEF Crash, Exit, WorkerIdle, SweepIdle, BootDown, SnapshotInv, WorkerInv, WaitingInv
  <2> QED
    BY <2>1, <2>2, SameRows DEF NonceInv
<1> QED
  BY <1>1, <1>2

\* NonceInv holds initially.
LEMMA InitNonce ==
  ASSUME Init, Faults["ack"] = 0
  PROVE  NonceInv
<1>1. sent = {} /\ faults["ack"] = 0 /\ row = [s \in Settlements |-> NoRow]
  BY DEF Init, ChainInit, StateInit
<1>2. OneNonce /\ RowInv
  BY <1>1 DEF OneNonce, RowInv, NoneSent, NoRow, Early
<1>3. SnapshotInv /\ WorkerInv /\ WaitingInv
  BY DEF Init, RelayerInit, WorkerIdle, SweepIdle, BootDown, SnapshotInv, WorkerInv, WaitingInv
<1> QED
  BY <1>1, <1>2, <1>3 DEF NonceInv

\* NonceInv is inductive.
LEMMA NonceStep ==
  ASSUME TypeInv, NonceInv, [Next]_vars
  PROVE  NonceInv'
<1>1. CASE RelayerNext
  BY <1>1, BootKeeps, SubmitKeeps, WorkerKeeps, SweepKeeps, DrainCrashKeeps DEF RelayerNext, Submit
<1>2. CASE (ChainNext \/ UNCHANGED chainVars) /\ UNCHANGED <<stateVars, relayerVars>>
  <2>1. sent' = sent /\ faults'["ack"] = 0
    BY <1>2, ChainStepType DEF NonceInv, TypeInv, TypeOK, chainVars
  <2>2. SnapshotInv'
    BY <1>2, <2>1 DEF NonceInv, SnapshotInv, Current, Early, SweepTx, stateVars, relayerVars
  <2> QED
    BY <1>2, <2>1, <2>2, SameRows, SameWorkerAndQueue DEF NonceInv, stateVars, relayerVars
<1> QED
  BY <1>1, <1>2 DEF Next, vars

\* The relayer changes nothing on the chain but by a broadcast.
LEMMA RelayerKeepsBlocks ==
  ASSUME RelayerNext \/ UNCHANGED vars
  PROVE  UNCHANGED blocks
BY DEF RelayerNext, Boot, BootNonce, BootRead, BootReceipt, BootFail, BootLookup,
   Submit, Approve, Enqueue, Worker, TakeJob, SkipJob, LoseJob, SendAck, SendLost,
   SendRefused, SendTransient, SendUnderpriced, SendPermanent, Resync, Record, RecordThrows,
   Fail, WorkerThrows, Sweep, SweepRead, SweepMined, SweepNotStale, SweepStale, ResendAck,
   ResendLost, ResendRefused, ResendPermanent, ResendRecord, ResendRecordThrows, SweepFail,
   SweepThrows, Drain, Crash, vars, chainVars

LEMMA ValidChainStep ==
  ASSUME TypeInv, ValidChain(blocks), [Next]_vars
  PROVE  ValidChain(blocks)'
<1>1. CASE UNCHANGED blocks
  BY <1>1 DEF ValidChain, NoncesBelow
<1> QED
  BY <1>1, RelayerKeepsBlocks, ValidChainKept DEF Next, TypeInv, TypeOK

LEMMA OneNoncePaysOnce ==
  ASSUME ChainTypeOK, ValidChain(blocks), OneNonce
  PROVE  PaidAtMostOnce
BY NonceMinedOnce DEF OneNonce, PaidAtMostOnce, Payments, ChainTypeOK

\* Spec keeps the nonce of every settlement, as long as no acknowledgement is lost.
LEMMA NonceInvariant ==
  ASSUME Faults["ack"] = 0
  PROVE  Spec => [](TypeInv /\ NonceInv /\ ValidChain(blocks))
<1>1. Init => TypeInv /\ NonceInv /\ ValidChain(blocks)
  BY InitType, InitNonce DEF Init, ChainInit, ValidChain
<1>2. TypeInv /\ NonceInv /\ ValidChain(blocks) /\ [Next]_vars
        => (TypeInv /\ NonceInv /\ ValidChain(blocks))'
  BY TypeStep, NonceStep, ValidChainStep
<1> QED
  BY <1>1, <1>2, PTL DEF Spec

\* PaidAtMostOnce: when every broadcast the node accepts is acknowledged and
\* recorded, no settlement is paid twice, however often the process crashes,
\* transactions are dropped or blocks reorganised.
THEOREM MoneyMovesOnce ==
  ASSUME Faults["ack"] = 0
  PROVE  Spec => []PaidAtMostOnce
<1>1. TypeInv /\ NonceInv /\ ValidChain(blocks) => PaidAtMostOnce
  BY OneNoncePaysOnce DEF TypeInv, TypeOK, NonceInv
<1> QED
  BY <1>1, NonceInvariant, PTL

\* OneNonce: a resend, a retry, a recovered or a resumed job signs at the nonce
\* of the first broadcast.
THEOREM ResendsKeepNonce ==
  ASSUME Faults["ack"] = 0
  PROVE  Spec => []OneNonce
<1>1. NonceInv => OneNonce
  BY DEF NonceInv
<1> QED
  BY <1>1, NonceInvariant, PTL

\* RowIsOwnTransfer: the hash stored for a settlement is a transfer of its own,
\* accepted by the node at the stored nonce.
THEOREM RowsNameOwnTransfer ==
  ASSUME Faults["ack"] = 0
  PROVE  Spec => []RowIsOwnTransfer
<1>1. TypeInv /\ NonceInv => RowIsOwnTransfer
  <2>1. TypeInv => \A s \in Settlements : row[s].status = "SUBMITTED" => row[s].tx # Null
    BY ChainAssumption DEF TypeInv, SubmittedHasTx
  <2> QED
    BY <2>1 DEF NonceInv, RowInv, RowIsOwnTransfer
<1> QED
  BY <1>1, NonceInvariant, PTL

----------------------------------------------------------------------------
(* The nonces in use have no gap, and none serves two settlements, while no  *)
(* acknowledgement is lost and no transaction evicted.                       *)

NoncesOf(txs) == {t.nonce : t \in txs}
Used == NoncesOf(sent)
Held == MinedNonces \cup NoncesOf(pool)

\* Every nonce in use is mined or pending, the relayer knows the first that is
\* not in use, and a fresh job takes that one; the others repeat a nonce of
\* their settlement.
FirstNonceInv ==
  /\ faults["drop"] = 0
  /\ Used \subseteq Held
  /\ \E n \in Nat : Used = 0 .. n - 1
  /\ Up => Used = 0 .. localNonce - 1
  /\ ~ Up => requests = {} /\ queue = <<>> /\ worker.pc = "idle"
  /\ worker.pc = "send" /\ ~ worker.resume => worker.nonce = localNonce
  /\ \A s \in Settlements :
       row[s].nonce # Null => \E t \in sent : t.sid = s /\ t.nonce = row[s].nonce
  /\ NonceNotShared

\* A nonce a job or a resend holds counts as used.
LEMMA HeldIsUsed ==
  ASSUME ChainTypeOK PROVE Held \subseteq Used
<1>1. DOMAIN blocks = 1 .. Len(blocks)
  BY LenProperties DEF ChainTypeOK
<1> QED
  BY <1>1 DEF Held, Used, NoncesOf, MinedNonces, NoncesBelow, ChainTypeOK

\* getTransactionCount(operator, 'pending') is the first nonce not in use.
LEMMA PendingNonceIsFirst ==
  ASSUME ChainTypeOK, Used \subseteq Held, NEW n \in Nat, Used = 0 .. n - 1
  PROVE  PendingNonce = n
<1>1. MinedNonces \cup {t.nonce : t \in pool} = 0 .. n - 1
  BY HeldIsUsed DEF Held, NoncesOf
<1>2. {m \in 0 .. n - 1 : 0 .. m \subseteq 0 .. n - 1} = 0 .. n - 1
  OBVIOUS
<1>3. Cardinality(0 .. n - 1) = n
  BY FS_Interval
<1>4. ASSUME NEW used, used = 0 .. n - 1
      PROVE  Cardinality({m \in used : 0 .. m \subseteq used}) = n
  <2>1. {m \in used : 0 .. m \subseteq used} = 0 .. n - 1
    BY <1>2, <1>4
  <2> QED
    BY <1>3, <2>1
<1> QED
  BY <1>1, <1>4 DEF PendingNonce

\* Faults only happen, they are never taken back.
LEMMA SpendFalls ==
  ASSUME ChainTypeOK, NEW kind \in FaultKinds, Spend(kind)
  PROVE  \A k \in FaultKinds : faults'[k] <= faults[k]
BY DEF Spend, ChainTypeOK

\* A fault budget never grows.
LEMMA FaultsFall ==
  ASSUME TypeInv, [Next]_vars
  PROVE  \A k \in FaultKinds : faults'[k] <= faults[k]
<1>1. faults' = faults \/ \E kind \in FaultKinds : Spend(kind)
  <2>1. CASE RelayerNext \/ UNCHANGED vars
    BY <2>1 DEF FaultKinds, RelayerNext, Boot, BootNonce, BootRead, BootReceipt, BootFail, BootLookup,
       Submit, Approve, Enqueue, Worker, TakeJob, SkipJob, LoseJob, SendAck, SendLost,
       SendRefused, SendTransient, SendUnderpriced, SendPermanent, Resync, Record, RecordThrows,
       Fail, WorkerThrows, Sweep, SweepRead, SweepMined, SweepNotStale, SweepStale, ResendAck,
       ResendLost, ResendRefused, ResendPermanent, ResendRecord, ResendRecordThrows, SweepFail,
       SweepThrows, Drain, Crash, vars, chainVars
  <2>2. CASE ChainNext
    BY <2>2 DEF ChainNext, Mine, MineEmpty, Reorg, Drop, FaultKinds
  <2> QED
    BY <2>1, <2>2 DEF Next
<1>2. \A k \in FaultKinds : faults[k] \in Nat
  BY DEF TypeInv, TypeOK, ChainTypeOK
<1>3. CASE faults' = faults
  BY <1>2, <1>3
<1> QED
  BY <1>1, <1>3, SpendFalls DEF TypeInv, TypeOK

\* What is mined or pending stays so, but for an eviction.
LEMMA HeldStays ==
  ASSUME ChainTypeOK, ChainNext, faults["drop"] = 0
  PROVE  sent' = sent /\ Held \subseteq Held'
<1>1. sent' = sent
  BY ChainStepType
<1>2. blocks \in Seq(Block) /\ DOMAIN blocks = 1 .. Len(blocks) /\ Len(blocks) \in Nat
  BY LenProperties DEF ChainTypeOK
<1>3. /\ ChainTypeOK' /\ blocks' \in Seq(Block) /\ DOMAIN blocks' = 1 .. Len(blocks')
  <2>1. ChainTypeOK' BY ChainStepType
  <2> QED BY <2>1, LenProperties DEF ChainTypeOK
<1>4. \A j \in DOMAIN blocks' : blocks'[j].tx # Null => blocks'[j].tx.nonce \in MinedNonces'
  BY <1>3 DEF MinedNonces, NoncesBelow
<1>5. \A m \in MinedNonces : \E j \in DOMAIN blocks : blocks[j].tx # Null /\ blocks[j].tx.nonce = m
  BY <1>2 DEF MinedNonces, NoncesBelow
<1>6. CASE MineEmpty \/ \E t \in sent, ok \in Outcomes : Mine(t, ok)
  <2>1. PICK b : blocks' = Append(blocks, b) /\ b.tx \in sent \cup {Null}
                 /\ pool' = {u \in pool : b.tx # Null => u.nonce # b.tx.nonce}
    <3>1. CASE MineEmpty
      BY <3>1 DEF MineEmpty, NewBlock
    <3>2. CASE \E t \in sent, ok \in Outcomes : Mine(t, ok)
      <4>1. PICK t \in sent, ok \in Outcomes : Mine(t, ok) BY <3>2
      <4>2. t # Null BY ChainAssumption DEF ChainTypeOK
      <4> QED BY <4>1, <4>2 DEF Mine, NewBlock
    <3> QED BY <1>6, <3>1, <3>2
  <2>2. /\ \A i \in DOMAIN blocks : i \in DOMAIN blocks' /\ blocks'[i] = blocks[i]
        /\ Len(blocks) + 1 \in DOMAIN blocks' /\ blocks'[Len(blocks) + 1] = b
    BY <1>2, <1>3, <2>1
  <2>3. MinedNonces \subseteq MinedNonces' BY <1>4, <1>5, <2>2
  <2>4. b.tx # Null => b.tx.nonce \in MinedNonces' BY <1>4, <2>2
  <2> QED BY <1>1, <2>1, <2>3, <2>4 DEF Held, NoncesOf
<1>7. CASE \E k \in 1 .. MaxReorgDepth : Reorg(k)
  <2>1. PICK k \in 1 .. MaxReorgDepth : Reorg(k) BY <1>7
  <2>2. k \in Nat \ {0} /\ k <= Len(blocks) /\ faults["reorg"] > 0
    BY <2>1, ChainAssumption DEF Reorg, Spend
  <2>3. Len(SubSeq(blocks, 1, Len(blocks) - k)) = Len(blocks) - k
    <3>1. Len(blocks) - k \in Nat /\ Len(blocks) - k <= Len(blocks) BY <1>2, <2>2
    <3> QED BY <1>2, <3>1, PrefixProperties
  <2>4. PICK suffix \in [1 .. k -> [tx : sent \cup {Null}, ok : Outcomes, fork : {Fork - 1}]] :
          LET next   == SubSeq(blocks, 1, Len(blocks) - k) \o suffix
              undone == {blocks[i].tx : i \in {j \in Len(blocks) - k + 1 .. Len(blocks) : blocks[j].tx # Null}}
          IN  /\ blocks' = next
              /\ pool' = {u \in pool \cup undone : u.nonce \notin NoncesBelow(next, Len(next))}
    BY <2>1, <2>3 DEF Reorg
  <2>a. blocks' = SubSeq(blocks, 1, Len(blocks) - k) \o suffix
    BY <2>4
  <2>b. pool' = {u \in pool \cup {blocks[i].tx : i \in {j \in Len(blocks) - k + 1 .. Len(blocks) : blocks[j].tx # Null}} :
                   u.nonce \notin NoncesBelow(blocks', Len(blocks'))}
    BY <2>4
  <2>5. /\ Len(blocks') = Len(blocks)
        /\ \A i \in 1 .. Len(blocks) - k : blocks'[i] = blocks[i]
    BY <2>2, <2>a, ReorgBlocksType
  <2>6. MinedNonces' = NoncesBelow(blocks', Len(blocks')) BY DEF MinedNonces, NoncesBelow
  <2>7. ASSUME NEW u, u \in pool \/ \E j \in Len(blocks) - k + 1 .. Len(blocks) : blocks[j].tx # Null /\ blocks[j].tx = u
        PROVE  u.nonce \in Held'
    BY <2>b, <2>6, <2>7 DEF Held, NoncesOf
  <2>8. ASSUME NEW m \in MinedNonces PROVE m \in Held'
    <3>1. PICK j \in DOMAIN blocks : blocks[j].tx # Null /\ blocks[j].tx.nonce = m BY <1>5
    <3>2. CASE j \in 1 .. Len(blocks) - k
      BY <1>2, <1>3, <1>4, <2>5, <3>1, <3>2 DEF Held
    <3>3. CASE j \in Len(blocks) - k + 1 .. Len(blocks)
      BY <2>7, <3>1, <3>3
    <3> QED BY <1>2, <2>2, <3>2, <3>3
  <2> QED BY <1>1, <2>7, <2>8 DEF Held, NoncesOf
<1>8. ~ \E t \in pool : Drop(t) BY DEF Drop, Spend
<1> QED BY <1>6, <1>7, <1>8 DEF ChainNext

\* A broadcast at a nonce of the settlement, and one at the first free nonce.
LEMMA AcceptHeld ==
  ASSUME ChainTypeOK, NEW t \in Txs, Accept(t), UNCHANGED blocks, Used \subseteq Held
  PROVE  /\ Used' = Used \cup {t.nonce} /\ Used' \subseteq Held'
         /\ sent' = sent \cup {t}
<1>1. MinedNonces' = MinedNonces BY DEF MinedNonces, NoncesBelow
<1>2. sent' = sent \cup {t} /\ pool' = {u \in pool : u.nonce # t.nonce} \cup {t} BY DEF Accept
<1> QED BY <1>1, <1>2 DEF Held, Used, NoncesOf

\* A step that leaves the chain, the nonces of the rows, localNonce and the
\* broadcast at hand alone.
LEMMA QuietKeepsFirst ==
  ASSUME TypeInv, FirstNonceInv, UNCHANGED <<sent, pool, blocks, localNonce>>,
         faults'["drop"] = 0, Up' <=> Up,
         \A s \in Settlements : row'[s].nonce = row[s].nonce,
         worker'.pc = "send" =>
           worker.pc = "send" /\ worker'.nonce = worker.nonce /\ worker'.resume = worker.resume,
         Up \/ (requests' = requests /\ queue' = queue /\ worker' = worker)
  PROVE  FirstNonceInv'
<1>1. Used' = Used /\ Held' = Held
  BY DEF Used, Held, NoncesOf, MinedNonces, NoncesBelow
<1>2. NonceNotShared'
  BY DEF FirstNonceInv, NonceNotShared
<1>3. \A s \in Settlements :
        row'[s].nonce # Null => \E t \in sent' : t.sid = s /\ t.nonce = row'[s].nonce
  BY DEF FirstNonceInv
<1> QED
  BY <1>1, <1>2, <1>3 DEF FirstNonceInv

\* A broadcast takes the first free nonce for a settlement that sent nothing,
\* or repeats the nonce of its settlement.
LEMMA SendKeepsFirst ==
  ASSUME TypeInv, NonceInv, FirstNonceInv, SendAck \/ ResendAck
  PROVE  FirstNonceInv'
<1>1. PICK t \in Txs :
        /\ Accept(t)
        /\ \/ /\ row[t.sid].nonce = t.nonce /\ localNonce' = localNonce
              /\ \/ worker' = worker
                 \/ worker'.pc = "record"
           \/ /\ t.nonce = localNonce /\ localNonce' = localNonce + 1 /\ NoneSent(t.sid)
              /\ worker'.pc = "record" /\ Up
  <2>1. CASE SendAck
    <3>1. /\ worker.pc = "send" /\ WorkerTx \in Txs /\ Accept(WorkerTx)
          /\ WorkerTx.sid = worker.id /\ WorkerTx.nonce = worker.nonce
          /\ worker.resume \in BOOLEAN /\ worker'.pc = "record"
      BY <2>1 DEF SendAck, WorkerTx, Txs, TypeInv, TypeOK, RelayerTypeOK, WorkerTypeOK
    <3>2. Up
      BY <3>1 DEF FirstNonceInv
    <3>3. CASE worker.resume
      <4>1. row[worker.id].nonce = worker.nonce /\ localNonce' = localNonce
        BY <2>1, <3>1, <3>3 DEF NonceInv, WorkerInv, SendAck
      <4> QED
        BY <3>1, <4>1
    <3>4. CASE ~ worker.resume
      <4>1. worker.nonce = localNonce /\ localNonce' = localNonce + 1 /\ NoneSent(worker.id)
        BY <2>1, <3>1, <3>4 DEF NonceInv, WorkerInv, SendAck, FirstNonceInv
      <4> QED
        BY <3>1, <3>2, <4>1
    <3> QED
      BY <3>1, <3>3, <3>4
  <2>2. CASE ResendAck
    <3>1. /\ SweepTx \in Txs /\ Accept(SweepTx) /\ SweepTx.sid = sweep.cur.id
          /\ SweepTx.nonce = sweep.cur.nonce /\ Current(sweep.cur)
          /\ localNonce' = localNonce /\ worker' = worker
      BY <2>2 DEF ResendAck, SweepTx, Txs, Snapshot, NonceInv, SnapshotInv,
         TypeInv, TypeOK, RelayerTypeOK, SweepTypeOK
    <3> QED
      BY <3>1 DEF Current
  <2> QED
    BY <2>1, <2>2
<1>2. /\ row' = row /\ blocks' = blocks /\ faults' = faults /\ boot' = boot
      /\ requests' = requests /\ queue' = queue
  BY DEF SendAck, ResendAck, stateVars
<1>3. /\ Used' = Used \cup {t.nonce} /\ Used' \subseteq Held' /\ sent' = sent \cup {t}
      /\ t.nonce \in Nat /\ t.nonce # Null /\ t.sid \in Settlements
  BY <1>1, <1>2, AcceptHeld, ChainAssumption DEF FirstNonceInv, TypeInv, TypeOK, Txs
<1>4. \A s \in Settlements :
        row'[s].nonce # Null => \E u \in sent' : u.sid = s /\ u.nonce = row'[s].nonce
  BY <1>2, <1>3 DEF FirstNonceInv
<1>5. CASE /\ row[t.sid].nonce = t.nonce /\ localNonce' = localNonce
           /\ worker' = worker \/ worker'.pc = "record"
  <2>1. PICK u \in sent : u.sid = t.sid /\ u.nonce = t.nonce
    BY <1>3, <1>5 DEF FirstNonceInv
  <2>2. Used' = Used
    BY <1>3, <2>1 DEF Used, NoncesOf
  <2>3. NonceNotShared'
    BY <1>3, <2>1 DEF FirstNonceInv, NonceNotShared
  <2>4. Up' <=> Up
    BY <1>2 DEF Up
  <2>5. worker.pc = "idle" => worker'.pc = "idle"
    BY DEF SendAck, ResendAck
  <2> QED
    BY <1>2, <1>3, <1>4, <1>5, <2>2, <2>3, <2>4, <2>5 DEF FirstNonceInv
<1>6. CASE /\ t.nonce = localNonce /\ localNonce' = localNonce + 1 /\ NoneSent(t.sid)
           /\ worker'.pc = "record" /\ Up
  <2>1. Used = 0 .. localNonce - 1 /\ localNonce \in Nat
    BY <1>6 DEF FirstNonceInv, TypeInv, TypeOK, RelayerTypeOK, MemoryTypeOK
  <2>2. Used' = 0 .. localNonce' - 1 /\ localNonce' \in Nat
    BY <1>3, <1>6, <2>1
  <2>3. \A u \in sent : u.nonce # t.nonce
    BY <1>6, <2>1 DEF Used, NoncesOf
  <2>4. NonceNotShared'
    BY <1>3, <2>3 DEF FirstNonceInv, NonceNotShared
  <2>5. Up'
    BY <1>2, <1>6 DEF Up
  <2> QED
    BY <1>2, <1>3, <1>4, <1>6, <2>2, <2>4, <2>5 DEF FirstNonceInv
<1> QED
  BY <1>1, <1>5, <1>6

\* Where localNonce is read from the chain, and where a row gets its nonce.
LEMMA NonceReadKeepsFirst ==
  ASSUME TypeInv, NonceInv, FirstNonceInv, BootNonce \/ Resync \/ TakeJob \/ Record
  PROVE  FirstNonceInv'
<1>1. /\ UNCHANGED <<sent, pool, blocks, faults>>
      /\ Used' = Used /\ Held' = Held
  BY DEF BootNonce, Resync, TakeJob, Record, chainVars, Used, Held, NoncesOf, MinedNonces, NoncesBelow
<1>2. NonceNotShared'
  BY <1>1 DEF FirstNonceInv, NonceNotShared
<1>3. PICK n \in Nat : Used = 0 .. n - 1
  BY DEF FirstNonceInv
<1>4. PendingNonce = n
  BY <1>3, PendingNonceIsFirst DEF FirstNonceInv, TypeInv, TypeOK
<1>5. CASE BootNonce
  <2>1. /\ localNonce' = n /\ Up' /\ row' = row /\ worker' = worker /\ worker.pc = "idle"
    BY <1>4, <1>5 DEF BootNonce, Up, stateVars, FirstNonceInv, TypeInv, TypeOK, RelayerTypeOK, BootTypeOK
  <2> QED
    BY <1>1, <1>2, <1>3, <2>1 DEF FirstNonceInv
<1>6. CASE Resync
  <2>1. /\ worker.pc = "resync" /\ Up /\ boot' = boot /\ row' = row
        /\ requests' = requests /\ queue' = queue
        /\ worker'.resume = worker.resume /\ worker.resume \in BOOLEAN
    BY <1>6 DEF Resync, stateVars, FirstNonceInv, TypeInv, TypeOK, RelayerTypeOK, WorkerTypeOK
  <2>2. Up'
    BY <2>1 DEF Up
  <2>3. CASE worker.resume
    BY <1>1, <1>2, <1>6, <2>1, <2>2, <2>3 DEF FirstNonceInv, Resync
  <2>4. CASE ~ worker.resume
    <3>1. localNonce' = n /\ worker'.nonce = n
      BY <1>4, <1>6, <2>4 DEF Resync, TypeInv, TypeOK, RelayerTypeOK, WorkerTypeOK
    <3> QED
      BY <1>1, <1>2, <1>3, <2>1, <2>2, <3>1 DEF FirstNonceInv
  <2> QED
    BY <2>1, <2>3, <2>4
<1>7. CASE TakeJob
  <2>1. Up /\ boot' = boot /\ row' = row /\ localNonce' = localNonce
    BY <1>7 DEF TakeJob, NextJob, stateVars, FirstNonceInv
  <2>2. ~ worker'.resume => worker'.nonce = localNonce
    <3> DEFINE id == Head(queue)
               resume == row[id].status = "SUBMITTED" /\ row[id].nonce # Null
    <3>1. PICK fee \in MarketFees :
            worker' = [pc |-> "send", id |-> id, resume |-> resume,
                       nonce |-> IF resume THEN row[id].nonce ELSE localNonce,
                       fee |-> fee, retry |-> row[id].retry]
      BY <1>7 DEF TakeJob
    <3> HIDE DEF id, resume
    <3> QED
      BY <3>1
  <2>3. Up'
    BY <2>1 DEF Up
  <2> QED
    BY <1>1, <1>2, <2>1, <2>2, <2>3 DEF FirstNonceInv
<1>8. CASE Record
  <2>1. /\ worker.pc = "record" /\ Up /\ boot' = boot /\ localNonce' = localNonce
        /\ worker'.pc = "idle" /\ WorkerTx \in sent /\ Transition(worker.id, SubmittedRow)
        /\ worker.id \in Settlements
    BY <1>8 DEF Record, WorkerIdle, FirstNonceInv, NonceInv, WorkerInv,
       TypeInv, TypeOK, RelayerTypeOK, WorkerTypeOK
  <2>2. /\ WorkerTx.sid = worker.id /\ WorkerTx.nonce = worker.nonce
        /\ SubmittedRow.nonce = worker.nonce
    BY <2>1 DEF WorkerTx, SubmittedRow, TypeInv, TypeOK, StateTypeOK, Row
  <2>3. \A s \in Settlements : row'[s] = IF s = worker.id THEN SubmittedRow ELSE row[s]
    BY <2>1, TransitionFacts DEF TypeInv, TypeOK
  <2>4. \A s \in Settlements :
          row'[s].nonce # Null => \E t \in sent : t.sid = s /\ t.nonce = row'[s].nonce
    BY <2>1, <2>2, <2>3 DEF FirstNonceInv
  <2>5. Up'
    BY <2>1 DEF Up
  <2> QED
    BY <1>1, <1>2, <2>1, <2>4, <2>5 DEF FirstNonceInv
<1> QED
  BY <1>5, <1>6, <1>7, <1>8

\* FAILED is written without touching the nonce.
LEMMA FailNonces ==
  ASSUME TypeInv, NEW s \in Settlements, NEW retry,
         Transition(s, [row[s] EXCEPT !.status = "FAILED", !.retry = retry])
  PROVE  \A u \in Settlements : row'[u].nonce = row[u].nonce
<1> DEFINE next == [row[s] EXCEPT !.status = "FAILED", !.retry = retry]
<1>1. \A u \in Settlements : row'[u] = IF u = s THEN next ELSE row[u]
  BY TransitionFacts DEF TypeInv, TypeOK
<1>2. next.nonce = row[s].nonce
  BY DEF TypeInv, TypeOK, StateTypeOK, Row
<1> QED
  BY <1>1, <1>2

\* The recovery keeps FirstNonceInv.
LEMMA BootKeepsFirst ==
  ASSUME TypeInv, NonceInv, FirstNonceInv, Boot
  PROVE  FirstNonceInv'
<1>1. CASE BootRead \/ BootLookup \/ \E snap \in boot.list : BootReceipt(snap)
  <2>1. /\ UNCHANGED <<chainVars, stateVars, localNonce, worker>>
        /\ boot.pc \in {"read", "each", "lookup"} /\ boot'.pc \in {"read", "each", "lookup", "fail", "done"}
    <3>1. CASE BootRead
      BY <3>1 DEF BootRead, TypeInv, TypeOK, RelayerTypeOK, BootTypeOK
    <3>2. CASE BootLookup
      BY <3>2 DEF BootLookup, BootNext
    <3>3. CASE \E snap \in boot.list : BootReceipt(snap)
      <4>1. PICK snap \in boot.list : BootReceipt(snap)
        BY <3>3
      <4>2. \/ BootNext(snap)
            \/ boot' = [boot EXCEPT !.pc = "lookup", !.cur = snap]
            \/ boot' = [boot EXCEPT !.pc = "fail", !.cur = snap]
        BY <4>1 DEF BootReceipt
      <4>3. ASSUME NEW pc \in {"lookup", "fail"}, boot' = [boot EXCEPT !.pc = pc, !.cur = snap]
            PROVE  boot'.pc = pc
        BY <4>3 DEF TypeInv, TypeOK, RelayerTypeOK, BootTypeOK
      <4>4. BootNext(snap) => boot'.pc \in {"each", "done"}
        BY DEF BootNext
      <4>5. boot'.pc \in {"each", "lookup", "fail", "done"}
        BY <4>2, <4>3, <4>4
      <4> QED
        BY <4>1, <4>5 DEF BootReceipt
    <3> QED
      BY <1>1, <3>1, <3>2, <3>3
  <2> QED
    BY <2>1, QuietKeepsFirst DEF chainVars, stateVars, Up, FirstNonceInv
<1>2. CASE BootFail
  <2>1. /\ UNCHANGED <<chainVars, localNonce, worker>>
        /\ boot.pc = "fail" /\ boot'.pc \in {"each", "done"} /\ boot.cur.id \in Settlements
    BY <1>2 DEF BootFail, BootNext, TypeInv, TypeOK, RelayerTypeOK, BootTypeOK, Snapshot
  <2>2. \A s \in Settlements : row'[s].nonce = row[s].nonce
    BY <1>2, <2>1, FailNonces DEF BootFail
  <2> QED
    BY <2>1, <2>2, QuietKeepsFirst DEF chainVars, Up, FirstNonceInv
<1> QED
  BY <1>1, <1>2, NonceReadKeepsFirst DEF Boot

\* Approval and enqueueing keep FirstNonceInv.
LEMMA SubmitKeepsFirst ==
  ASSUME TypeInv, NonceInv, FirstNonceInv, NEW s \in Settlements, Approve(s) \/ Enqueue(s)
  PROVE  FirstNonceInv'
<1>1. /\ UNCHANGED <<chainVars, localNonce, worker, boot>> /\ Up
  BY DEF Approve, Enqueue, Up, FirstNonceInv
<1>2. \A u \in Settlements : row'[u].nonce = row[u].nonce
  <2>1. CASE Approve(s)
    <3> DEFINE next == [row[s] EXCEPT !.status = "COMPLIANCE_APPROVED"]
    <3>1. \A u \in Settlements : row'[u] = IF u = s THEN next ELSE row[u]
      BY <2>1, TransitionFacts DEF Approve, TypeInv, TypeOK
    <3>2. next.nonce = row[s].nonce
      BY DEF TypeInv, TypeOK, StateTypeOK, Row
    <3> QED
      BY <3>1, <3>2
  <2> QED
    BY <2>1 DEF Enqueue, stateVars
<1> QED
  BY <1>1, <1>2, QuietKeepsFirst DEF chainVars, Up, FirstNonceInv

\* Every step of processJob keeps FirstNonceInv.
LEMMA WorkerKeepsFirst ==
  ASSUME TypeInv, NonceInv, FirstNonceInv, Worker
  PROVE  FirstNonceInv'
<1>1. ~ SendLost /\ ~ RecordThrows
  BY DEF SendLost, RecordThrows, Spend, NonceInv
<1>2. CASE SkipJob \/ LoseJob \/ SendRefused \/ SendTransient \/ SendUnderpriced \/ SendPermanent \/ WorkerThrows
  <2>1. /\ UNCHANGED <<sent, pool, blocks, stateVars, localNonce, boot>> /\ Up
    BY <1>2 DEF SkipJob, LoseJob, NextJob, SendRefused, SendTransient, SendUnderpriced, SendPermanent,
       WorkerThrows, chainVars, FirstNonceInv
  <2>2. worker'.pc = "send" =>
          worker.pc = "send" /\ worker'.nonce = worker.nonce /\ worker'.resume = worker.resume
    <3>1. CASE SkipJob \/ LoseJob
      BY <3>1 DEF SkipJob, LoseJob
    <3>2. CASE SendRefused
      BY <3>2 DEF SendRefused, Retry, TypeInv, TypeOK, RelayerTypeOK, WorkerTypeOK
    <3>3. CASE SendTransient
      BY <3>3 DEF SendTransient, Retry, TypeInv, TypeOK, RelayerTypeOK, WorkerTypeOK
    <3>4. CASE SendUnderpriced
      BY <3>4 DEF SendUnderpriced, TypeInv, TypeOK, RelayerTypeOK, WorkerTypeOK
    <3>5. CASE SendPermanent \/ WorkerThrows
      BY <3>5 DEF SendPermanent, WorkerThrows, WorkerIdle, TypeInv, TypeOK, RelayerTypeOK, WorkerTypeOK
    <3> QED
      BY <1>2, <3>1, <3>2, <3>3, <3>4, <3>5
  <2>3. faults'["drop"] = 0
    BY <1>2, SpendFalls, ChainStepType DEF SkipJob, LoseJob, SendRefused, SendTransient, SendUnderpriced,
       SendPermanent, WorkerThrows, Spend, chainVars, FirstNonceInv, TypeInv, TypeOK, ChainTypeOK, FaultKinds
  <2> QED
    BY <2>1, <2>2, <2>3, QuietKeepsFirst DEF stateVars, Up
<1>3. CASE Fail
  <2>1. /\ UNCHANGED <<chainVars, localNonce, boot>> /\ Up /\ worker'.pc = "idle"
        /\ worker.id \in Settlements
    BY <1>3, WorkerHasRow DEF Fail, WorkerIdle, FirstNonceInv
  <2>2. \A s \in Settlements : row'[s].nonce = row[s].nonce
    BY <1>3, <2>1, FailNonces DEF Fail
  <2> QED
    BY <2>1, <2>2, QuietKeepsFirst DEF chainVars, Up, FirstNonceInv
<1> QED
  BY <1>1, <1>2, <1>3, SendKeepsFirst, NonceReadKeepsFirst DEF Worker

\* Every step of the sweep keeps FirstNonceInv.
LEMMA SweepKeepsFirst ==
  ASSUME TypeInv, NonceInv, FirstNonceInv, Sweep
  PROVE  FirstNonceInv'
<1>1. ~ ResendLost /\ ~ ResendRecordThrows
  BY DEF ResendLost, ResendRecordThrows, Spend, NonceInv
<1>2. CASE ~ ResendAck
  <2>1. UNCHANGED <<sent, pool, blocks, localNonce, worker, boot, requests, queue>>
    BY <1>1, <1>2 DEF Sweep, SweepRead, SweepMined, SweepNotStale, SweepStale, ResendRefused,
       ResendPermanent, ResendRecord, SweepFail, SweepThrows, chainVars
  <2>2. faults'["drop"] = 0
    <3>1. faults' = faults \/ Spend("throw")
      BY <1>1, <1>2 DEF Sweep, SweepRead, SweepMined, SweepNotStale, SweepStale, ResendRefused,
         ResendPermanent, ResendRecord, SweepFail, SweepThrows, chainVars
    <3> QED
      BY <3>1 DEF Spend, FirstNonceInv, TypeInv, TypeOK, ChainTypeOK, FaultKinds
  <2>3. \A s \in Settlements : row'[s].nonce = row[s].nonce
    <3>1. CASE SweepFail
      <4>1. sweep.cur.id \in Settlements
        BY <3>1 DEF SweepFail, Snapshot, TypeInv, TypeOK, RelayerTypeOK, SweepTypeOK
      <4> QED
        BY <3>1, <4>1, FailNonces DEF SweepFail
    <3>2. CASE ResendRecord
      BY <3>2 DEF ResendRecord, RecordResend, TypeInv, TypeOK, StateTypeOK, Row
    <3>3. CASE ~ SweepFail /\ ~ ResendRecord
      BY <1>1, <1>2, <3>3 DEF Sweep, SweepRead, SweepMined, SweepNotStale, SweepStale, ResendRefused,
         ResendPermanent, SweepThrows, stateVars
    <3> QED
      BY <3>1, <3>2, <3>3
  <2> QED
    BY <2>1, <2>2, <2>3, QuietKeepsFirst DEF Up
<1> QED
  BY <1>2, SendKeepsFirst

\* Drains and crashes keep FirstNonceInv.
LEMMA DrainCrashKeepsFirst ==
  ASSUME TypeInv, NonceInv, FirstNonceInv, Drain \/ Crash
  PROVE  FirstNonceInv'
<1>1. CASE Drain
  BY <1>1, QuietKeepsFirst DEF Drain, chainVars, stateVars, Up, FirstNonceInv
<1>2. CASE Crash
  <2>1. /\ UNCHANGED <<sent, pool, blocks, stateVars>> /\ faults'["drop"] = 0
        /\ ~ Up' /\ requests' = {} /\ queue' = <<>> /\ worker'.pc = "idle"
    BY <1>2 DEF Crash, Exit, Spend, BootDown, WorkerIdle, Up, FirstNonceInv,
       TypeInv, TypeOK, ChainTypeOK, FaultKinds
  <2>2. Used' = Used /\ Held' = Held
    BY <2>1 DEF Used, Held, NoncesOf, MinedNonces, NoncesBelow
  <2> QED
    BY <2>1, <2>2 DEF FirstNonceInv, NonceNotShared, stateVars
<1> QED
  BY <1>1, <1>2

\* FirstNonceInv is inductive.
LEMMA FirstNonceStep ==
  ASSUME TypeInv, NonceInv, FirstNonceInv, [Next]_vars
  PROVE  FirstNonceInv'
<1>1. CASE RelayerNext
  BY <1>1, BootKeepsFirst, SubmitKeepsFirst, WorkerKeepsFirst, SweepKeepsFirst, DrainCrashKeepsFirst
     DEF RelayerNext, Submit
<1>2. CASE UNCHANGED vars
  BY <1>2, QuietKeepsFirst DEF vars, chainVars, stateVars, relayerVars, Up, FirstNonceInv
<1>3. CASE ChainNext /\ UNCHANGED <<stateVars, relayerVars>>
  <2>1. sent' = sent /\ Held \subseteq Held'
    BY <1>3, HeldStays DEF FirstNonceInv, TypeInv, TypeOK
  <2>2. faults'["drop"] = 0
    <3>1. faults' = faults \/ \E kind \in FaultKinds : Spend(kind)
      BY <1>3 DEF ChainNext, Mine, MineEmpty, Reorg, Drop, FaultKinds
    <3>2. faults["drop"] = 0 /\ "drop" \in FaultKinds /\ faults'["drop"] \in Nat
      BY <1>3, ChainStepType DEF FirstNonceInv, TypeInv, TypeOK, ChainTypeOK, FaultKinds
    <3> QED
      BY <3>1, <3>2, SpendFalls DEF TypeInv, TypeOK
  <2>3. Used' = Used /\ NonceNotShared'
    BY <2>1 DEF Used, NoncesOf, FirstNonceInv, NonceNotShared
  <2> QED
    BY <1>3, <2>1, <2>2, <2>3 DEF FirstNonceInv, stateVars, relayerVars, Up
<1> QED
  BY <1>1, <1>2, <1>3 DEF Next

\* FirstNonceInv holds at the first boot.
LEMMA InitFirstNonce ==
  ASSUME Init, Faults["drop"] = 0
  PROVE  FirstNonceInv
<1>1. sent = {} /\ faults["drop"] = 0 /\ row = [s \in Settlements |-> NoRow]
  BY DEF Init, ChainInit, StateInit
<1>2. Used = {} /\ Used = 0 .. 0 - 1
  BY <1>1 DEF Used, NoncesOf
<1> QED
  BY <1>1, <1>2 DEF Init, RelayerInit, WorkerIdle, BootDown, Up, FirstNonceInv, NonceNotShared, NoRow

\* FirstNonceInv is an invariant.
LEMMA FirstNonceInvariant ==
  ASSUME Faults["ack"] = 0, Faults["drop"] = 0
  PROVE  Spec => []FirstNonceInv
<1>1. Init => FirstNonceInv
  BY InitFirstNonce
<1>2. TypeInv /\ NonceInv /\ FirstNonceInv /\ [Next]_vars => FirstNonceInv'
  BY FirstNonceStep
<1>3. Spec => [](TypeInv /\ NonceInv /\ ValidChain(blocks))
  BY NonceInvariant
<1> QED
  BY <1>1, <1>2, <1>3, PTL DEF Spec

\* NonceNotShared: while no acknowledgement is lost and no transaction evicted,
\* a fresh job, a resync and a restart never take the nonce of another
\* settlement (localNonce, onApplicationBootstrap, processJob's resync).
THEOREM NoncesAreNotShared ==
  ASSUME Faults["ack"] = 0, Faults["drop"] = 0
  PROVE  Spec => []NonceNotShared
<1>1. FirstNonceInv => NonceNotShared
  BY DEF FirstNonceInv
<1> QED
  BY <1>1, FirstNonceInvariant, PTL

\* NoNonceGap: under the same faults the nonces signed are 0, 1, 2, ... without
\* a hole, so no transfer waits for a nonce nobody will use.
THEOREM NoncesHaveNoGap ==
  ASSUME Faults["ack"] = 0, Faults["drop"] = 0
  PROVE  Spec => []NoNonceGap
<1>1. TypeInv /\ FirstNonceInv => NoNonceGap
  BY DEF FirstNonceInv, Used, NoncesOf, NoNonceGap, TypeInv, TypeOK, ChainTypeOK, Txs
<1> QED
  BY <1>1, FirstNonceInvariant, TypeInvariant, PTL

----------------------------------------------------------------------------
(* What a lost acknowledgement costs, whatever else fails. *)

NoncesIn(txs, s) == NoncesOf({t \in txs : t.sid = s})
NoncesFor(s) == NoncesIn(sent, s)

\* The acknowledgements lost so far.
Lost == Faults["ack"] - faults["ack"]

RowNonces ==
  \A s \in Settlements :
    /\ row[s].status = "NONE" => NoncesFor(s) = {}
    /\ Early(s) => row[s].nonce = Null
    /\ row[s].nonce # Null => row[s].nonce \in NoncesFor(s)

\* What the recovery and the sweep remember was sent at the nonce they remember.
Remembered(snap) == ~ Early(snap.id) /\ snap.nonce \in NoncesFor(snap.id)

SnapshotNonces ==
  /\ \A snap \in boot.list \cup sweep.list : Remembered(snap)
  /\ boot.pc \in {"lookup", "fail"} => Remembered(boot.cur)
  /\ sweep.pc \in {"send", "record", "fail"} => Remembered(sweep.cur)

\* A fresh job about to send may take one nonce more.
WorkerNonces ==
  worker.pc # "idle" =>
    /\ row[worker.id].status # "NONE"
    /\ worker.resume \/ worker.pc = "record" => worker.nonce \in NoncesFor(worker.id)
    /\ ~ worker.resume /\ worker.pc # "record" => Cardinality(NoncesFor(worker.id)) <= Lost

AckInv ==
  /\ Lost >= 0
  /\ \A s \in Settlements : Cardinality(NoncesFor(s)) <= 1 + Lost
  /\ RowNonces
  /\ SnapshotNonces
  /\ WorkerNonces
  /\ WaitingInv

\* A settlement has finitely many nonces.
LEMMA NoncesForType ==
  ASSUME TypeInv, NEW s
  PROVE  IsFiniteSet(NoncesFor(s)) /\ Cardinality(NoncesFor(s)) \in Nat
<1> DEFINE txs == {t \in sent : t.sid = s}
           f == [t \in txs |-> t.nonce]
<1>1. IsFiniteSet(txs)
  BY FS_Subset DEF TypeInv
<1>2. f \in Surjection(txs, NoncesFor(s))
  BY DEF Surjection, NoncesFor, NoncesIn, NoncesOf
<1> QED
  BY <1>1, <1>2, FS_Surjection, FS_CardinalityType

\* Acknowledgements once lost stay lost.
LEMMA LostGrows ==
  ASSUME TypeInv, TypeInv', [Next]_vars
  PROVE  Lost \in Int /\ Lost' \in Int /\ Lost <= Lost'
<1>1. "ack" \in FaultKinds
  BY DEF FaultKinds
<1>2. Faults["ack"] \in Nat /\ faults["ack"] \in Nat /\ faults'["ack"] \in Nat
  BY <1>1, ChainAssumption DEF TypeInv, TypeOK, ChainTypeOK
<1>3. faults'["ack"] <= faults["ack"]
  BY <1>1, FaultsFall
<1> QED
  BY <1>2, <1>3 DEF Lost

\* A settlement with no transfer has no nonce, and conversely.
LEMMA NoneSentNonces ==
  ASSUME NEW s PROVE NoneSent(s) <=> NoncesFor(s) = {}
BY DEF NoneSent, NoncesFor, NoncesIn, NoncesOf

\* A fresh job's broadcast is the only step that takes a new nonce.
FreshSend == worker.pc = "send" /\ ~ worker.resume /\ (SendAck \/ SendLost)

\* An accepted transfer gives its settlement its nonce.
LEMMA AcceptNonces ==
  ASSUME NEW t, Accept(t), NEW s
  PROVE  NoncesIn(sent', s) = IF s = t.sid THEN NoncesFor(s) \cup {t.nonce} ELSE NoncesFor(s)
<1>1. sent' = sent \cup {t}
  BY DEF Accept
<1> QED
  BY <1>1 DEF NoncesIn, NoncesFor, NoncesOf

\* Only a fresh send gives a settlement a nonce it did not have.
LEMMA NoncesStep ==
  ASSUME TypeInv, AckInv, [Next]_vars
  PROVE  \/ \A s \in Settlements : NoncesIn(sent', s) = NoncesFor(s)
         \/ /\ FreshSend
            /\ \A s \in Settlements :
                 NoncesIn(sent', s) = IF s = worker.id THEN NoncesFor(s) \cup {worker.nonce}
                                      ELSE NoncesFor(s)
<1>1. CASE SendAck \/ SendLost
  <2>1. /\ Accept(WorkerTx) /\ worker.pc = "send" /\ worker.resume \in BOOLEAN
        /\ WorkerTx.sid = worker.id /\ WorkerTx.nonce = worker.nonce
    BY <1>1 DEF SendAck, SendLost, WorkerTx, TypeInv, TypeOK, RelayerTypeOK, WorkerTypeOK
  <2>2. \A s : NoncesIn(sent', s) = IF s = worker.id THEN NoncesFor(s) \cup {worker.nonce}
                                    ELSE NoncesFor(s)
    BY <2>1, AcceptNonces
  <2>3. worker.resume => worker.nonce \in NoncesFor(worker.id)
    BY <2>1 DEF AckInv, WorkerNonces
  <2> QED
    BY <1>1, <2>1, <2>2, <2>3 DEF FreshSend
<1>2. CASE ResendAck \/ ResendLost
  <2>1. /\ Accept(SweepTx) /\ sweep.pc = "send"
        /\ SweepTx.sid = sweep.cur.id /\ SweepTx.nonce = sweep.cur.nonce
    BY <1>2 DEF ResendAck, ResendLost, SweepTx
  <2>2. sweep.cur.nonce \in NoncesFor(sweep.cur.id)
    BY <2>1 DEF AckInv, SnapshotNonces, Remembered
  <2> QED
    BY <2>1, <2>2, AcceptNonces
<1>3. CASE ~ SendAck /\ ~ SendLost /\ ~ ResendAck /\ ~ ResendLost
  <2>1. sent' = sent
    <3>1. CASE RelayerNext \/ UNCHANGED vars
      BY <1>3, <3>1 DEF RelayerNext, Boot, BootNonce, BootRead, BootReceipt, BootFail, BootLookup,
         Submit, Approve, Enqueue, Worker, TakeJob, SkipJob, LoseJob,
         SendRefused, SendTransient, SendUnderpriced, SendPermanent, Resync, Record, RecordThrows,
         Fail, WorkerThrows, Sweep, SweepRead, SweepMined, SweepNotStale, SweepStale,
         ResendRefused, ResendPermanent, ResendRecord, ResendRecordThrows, SweepFail,
         SweepThrows, Drain, Crash, vars, chainVars
    <3>2. CASE ChainNext
      BY <3>2, ChainStepType DEF TypeInv, TypeOK
    <3> QED
      BY <3>1, <3>2 DEF Next
  <2> QED
    BY <2>1 DEF NoncesFor
<1> QED
  BY <1>1, <1>2, <1>3

\* What a step does to the status and the nonce of a row.
RowStep(s) ==
  \/ row'[s].status = row[s].status /\ row'[s].nonce = row[s].nonce
  \/ /\ row'[s].status = "FAILED" /\ row'[s].nonce = row[s].nonce
     /\ \/ Busy(s)
        \/ boot.pc = "fail" /\ boot.cur.id = s
        \/ sweep.pc = "fail" /\ sweep.cur.id = s
  \/ /\ row'[s].status = "COMPLIANCE_APPROVED" /\ row'[s].nonce = row[s].nonce
     /\ Approve(s)
  \/ /\ row'[s].status = "SUBMITTED" /\ row'[s].nonce = worker.nonce
     /\ Busy(s) /\ worker.pc = "record"

\* FAILED is written without touching the nonce.
LEMMA FailRowStep ==
  ASSUME TypeInv, NEW s \in Settlements, NEW retry,
         Transition(s, [row[s] EXCEPT !.status = "FAILED", !.retry = retry])
  PROVE  \A u \in Settlements :
           /\ row'[u].nonce = row[u].nonce
           /\ row'[u].status = IF u = s THEN "FAILED" ELSE row[u].status
<1> DEFINE next == [row[s] EXCEPT !.status = "FAILED", !.retry = retry]
<1>1. \A u \in Settlements : row'[u] = IF u = s THEN next ELSE row[u]
  BY TransitionFacts DEF TypeInv, TypeOK
<1>2. next.nonce = row[s].nonce /\ next.status = "FAILED"
  BY DEF TypeInv, TypeOK, StateTypeOK, Row
<1> HIDE DEF next
<1> QED
  BY <1>1, <1>2

\* What a step may do to a row's status and nonce.
LEMMA RowsStep ==
  ASSUME TypeInv, [Next]_vars
  PROVE  \A s \in Settlements : RowStep(s)
<1>1. CASE UNCHANGED stateVars
  BY <1>1 DEF stateVars, RowStep
<1>2. CASE BootFail
  <2>1. boot.pc = "fail" /\ boot.cur.id \in Settlements
    BY <1>2 DEF BootFail, TypeInv, TypeOK, RelayerTypeOK, BootTypeOK, Snapshot
  <2> QED
    BY <1>2, <2>1, FailRowStep DEF BootFail, RowStep
<1>3. CASE SweepFail
  <2>1. sweep.pc = "fail" /\ sweep.cur.id \in Settlements
    BY <1>3 DEF SweepFail, TypeInv, TypeOK, RelayerTypeOK, SweepTypeOK, Snapshot
  <2> QED
    BY <1>3, <2>1, FailRowStep DEF SweepFail, RowStep
<1>4. CASE Fail
  <2>1. Busy(worker.id) /\ worker.id \in Settlements
    BY <1>4 DEF Fail, Busy, TypeInv, TypeOK, RelayerTypeOK, WorkerTypeOK
  <2> QED
    BY <1>4, <2>1, FailRowStep DEF Fail, RowStep
<1>5. ASSUME NEW s \in Settlements, Approve(s)
      PROVE  \A u \in Settlements : RowStep(u)
  <2> DEFINE next == [row[s] EXCEPT !.status = "COMPLIANCE_APPROVED"]
  <2>1. \A u \in Settlements : row'[u] = IF u = s THEN next ELSE row[u]
    BY <1>5, TransitionFacts DEF Approve, TypeInv, TypeOK
  <2>2. next.nonce = row[s].nonce /\ next.status = "COMPLIANCE_APPROVED"
    BY DEF TypeInv, TypeOK, StateTypeOK, Row
  <2> HIDE DEF next
  <2> QED
    BY <1>5, <2>1, <2>2 DEF RowStep
<1>6. CASE /\ worker.pc = "record"
           /\ Transition(worker.id, SubmittedRow)
  <2>1. Busy(worker.id) /\ worker.id \in Settlements
    BY <1>6 DEF Busy, TypeInv, TypeOK, RelayerTypeOK, WorkerTypeOK
  <2>2. \A u \in Settlements : row'[u] = IF u = worker.id THEN SubmittedRow ELSE row[u]
    BY <1>6, <2>1, TransitionFacts DEF TypeInv, TypeOK
  <2>3. SubmittedRow.status = "SUBMITTED" /\ SubmittedRow.nonce = worker.nonce
    BY <2>1 DEF SubmittedRow, TypeInv, TypeOK, StateTypeOK, Row
  <2> QED
    BY <1>6, <2>1, <2>2, <2>3 DEF RowStep
<1>7. CASE RecordResend(sweep.cur.id, SweepTx, sweep.retry)
  BY <1>7 DEF RecordResend, RowStep, TypeInv, TypeOK, StateTypeOK, Row
<1>8. ASSUME ~ UNCHANGED stateVars
      PROVE  \/ BootFail \/ SweepFail \/ Fail \/ \E s \in Settlements : Approve(s)
             \/ worker.pc = "record" /\ Transition(worker.id, SubmittedRow)
             \/ RecordResend(sweep.cur.id, SweepTx, sweep.retry)
  BY <1>8 DEF Next, RelayerNext, Boot, BootNonce, BootRead, BootReceipt, BootLookup,
     Submit, Enqueue, Worker, TakeJob, SkipJob, LoseJob, SendAck, SendLost,
     SendRefused, SendTransient, SendUnderpriced, SendPermanent, Resync, Record, RecordThrows,
     WorkerThrows, Sweep, SweepRead, SweepMined, SweepNotStale, SweepStale, ResendAck,
     ResendLost, ResendRefused, ResendPermanent, ResendRecord, ResendRecordThrows,
     SweepThrows, Drain, Crash, vars, stateVars
<1> QED
  BY <1>1, <1>2, <1>3, <1>4, <1>5, <1>6, <1>7, <1>8

\* A row never submitted comes from one never submitted.
LEMMA EarlyRows ==
  ASSUME NEW s \in Settlements, RowStep(s)
  PROVE  /\ row'[s].status = "NONE" => row[s].status = "NONE"
         /\ row'[s].status \in {"NONE", "COMPLIANCE_APPROVED"} =>
              Early(s) /\ row'[s].nonce = row[s].nonce
         /\ \/ row'[s].nonce = row[s].nonce
            \/ row'[s].nonce = worker.nonce /\ Busy(s) /\ worker.pc = "record"
BY DEF RowStep, Early, Approve

\* A settlement loses no nonce.
LEMMA NoncesGrow ==
  ASSUME TypeInv, AckInv, [Next]_vars, NEW s \in Settlements
  PROVE  NoncesFor(s) \subseteq NoncesIn(sent', s)
BY NoncesStep

\* RowNonces is inductive relative to the rest.
LEMMA RowNoncesStep ==
  ASSUME TypeInv, AckInv, [Next]_vars
  PROVE  RowNonces'
<1> SUFFICES ASSUME NEW s \in Settlements
             PROVE  /\ row'[s].status = "NONE" => NoncesIn(sent', s) = {}
                    /\ Early(s)' => row'[s].nonce = Null
                    /\ row'[s].nonce # Null => row'[s].nonce \in NoncesIn(sent', s)
  BY DEF RowNonces, NoncesFor
<1>1. RowStep(s)
  BY RowsStep
<1>2. /\ row[s].status = "NONE" => NoncesFor(s) = {}
      /\ Early(s) => row[s].nonce = Null
      /\ row[s].nonce # Null => row[s].nonce \in NoncesFor(s)
  BY DEF AckInv, RowNonces
<1>3. NoncesFor(s) \subseteq NoncesIn(sent', s)
  BY NoncesGrow
<1>4. ASSUME row'[s].status = "NONE"
      PROVE  NoncesIn(sent', s) = {}
  <2>1. row[s].status = "NONE"
    BY <1>1, <1>4, EarlyRows
  <2>2. FreshSend => worker.id # s
    BY <2>1 DEF FreshSend, AckInv, WorkerNonces
  <2> QED
    BY <1>2, <2>1, <2>2, NoncesStep
<1>5. Early(s)' => row'[s].nonce = Null
  BY <1>1, <1>2, EarlyRows DEF Early
<1>6. Busy(s) /\ worker.pc = "record" => worker.nonce \in NoncesFor(s)
  BY DEF Busy, AckInv, WorkerNonces
<1> QED
  BY <1>1, <1>2, <1>3, <1>4, <1>5, <1>6, EarlyRows

\* What was remembered stays so.
LEMMA RememberedStays ==
  ASSUME TypeInv, AckInv, [Next]_vars, NEW snap, snap.id \in Settlements, Remembered(snap)
  PROVE  /\ row'[snap.id].status \notin {"NONE", "COMPLIANCE_APPROVED"}
         /\ snap.nonce \in NoncesIn(sent', snap.id)
<1>1. RowStep(snap.id)
  BY RowsStep
<1> QED
  BY <1>1, EarlyRows, NoncesGrow DEF Remembered

\* A row findByStatuses(['SUBMITTED']) returns has a nonce, which was sent.
LEMMA SnapshotsRemembered ==
  ASSUME TypeInv, AckInv, NEW snap \in SnapshotsOf({"SUBMITTED"})
  PROVE  Remembered(snap)
<1>1. PICK s \in Settlements : row[s].status = "SUBMITTED" /\ snap.id = s /\ snap.nonce = row[s].nonce
  BY DEF SnapshotsOf, WithStatus
<1>2. row[s].nonce # Null
  BY <1>1, ChainAssumption DEF TypeInv, SubmittedHasTx
<1> QED
  BY <1>1, <1>2 DEF AckInv, RowNonces, Remembered, Early

\* Where the recovery's snapshots come from.
LEMMA BootSnapshots ==
  ASSUME TypeInv, [Next]_vars
  PROVE  /\ \A snap \in boot'.list : snap \in boot.list \/ snap \in SnapshotsOf({"SUBMITTED"})
         /\ boot'.pc \in {"lookup", "fail"} =>
              \/ boot'.cur \in boot.list
              \/ boot.pc \in {"lookup", "fail"} /\ boot'.cur = boot.cur
<1>1. CASE boot' = boot
  BY <1>1
<1>2. CASE BootNonce
  BY <1>2 DEF BootNonce, TypeInv, TypeOK, RelayerTypeOK, BootTypeOK
<1>3. CASE BootRead
  <2>1. boot'.list = SnapshotsOf({"SUBMITTED"}) /\ boot'.pc \in {"done", "each"}
    BY <1>3 DEF BootRead, TypeInv, TypeOK, RelayerTypeOK, BootTypeOK
  <2> QED
    BY <2>1
<1>4. ASSUME NEW snap, BootNext(snap)
      PROVE  /\ boot'.list \subseteq boot.list
             /\ boot'.pc \notin {"lookup", "fail"}
  BY <1>4 DEF BootNext
<1>5. ASSUME NEW snap \in boot.list, BootReceipt(snap)
      PROVE  /\ boot'.list \subseteq boot.list
             /\ boot'.pc \in {"lookup", "fail"} => boot'.cur \in boot.list
  <2>1. ASSUME NEW pc \in {"lookup", "fail"}, boot' = [boot EXCEPT !.pc = pc, !.cur = snap]
        PROVE  boot'.list = boot.list /\ boot'.cur = snap
    BY <2>1 DEF TypeInv, TypeOK, RelayerTypeOK, BootTypeOK
  <2> QED
    BY <1>5, <1>4, <2>1 DEF BootReceipt
<1>6. CASE BootFail \/ BootLookup
  <2>1. PICK cur : BootNext(cur)
    BY <1>6 DEF BootFail, BootLookup
  <2> QED
    BY <2>1, <1>4
<1>7. CASE Crash
  BY <1>7 DEF Crash, Exit, BootDown
<1>8. \/ boot' = boot \/ BootNonce \/ BootRead \/ BootFail \/ BootLookup
      \/ (\E snap \in boot.list : BootReceipt(snap)) \/ Crash
  BY DEF Next, RelayerNext, Boot, Submit, Approve, Enqueue, Worker, TakeJob, SkipJob, LoseJob,
     SendAck, SendLost, SendRefused, SendTransient, SendUnderpriced, SendPermanent, Resync,
     Record, RecordThrows, Fail, WorkerThrows, Sweep, SweepRead, SweepMined, SweepNotStale,
     SweepStale, ResendAck, ResendLost, ResendRefused, ResendPermanent, ResendRecord,
     ResendRecordThrows, SweepFail, SweepThrows, Drain, vars, relayerVars
<1> QED
  BY <1>1, <1>2, <1>3, <1>5, <1>6, <1>7, <1>8

\* Where the sweep's snapshots come from, and its fee.
LEMMA SweepSnapshots ==
  ASSUME TypeInv, [Next]_vars
  PROVE  /\ \A snap \in sweep'.list : snap \in sweep.list \/ snap \in SnapshotsOf({"SUBMITTED"})
         /\ sweep'.pc \in {"send", "record", "fail"} =>
              \/ \E snap \in sweep.list : SweepStale(snap) /\ sweep'.cur = snap
              \/ /\ sweep.pc \in {"send", "record", "fail"} /\ sweep'.cur = sweep.cur
                 /\ sweep'.fee = sweep.fee
                 /\ \/ sweep'.pc = sweep.pc
                    \/ sweep'.pc = "record" /\ ResendAck
                    \/ sweep'.pc = "fail"
<1>1. CASE sweep' = sweep
  BY <1>1
<1>2. CASE SweepRead
  <2>1. sweep'.list = SnapshotsOf({"SUBMITTED"}) /\ sweep'.pc = "each"
    BY <1>2 DEF SweepRead, TypeInv, TypeOK, RelayerTypeOK, SweepTypeOK
  <2> QED
    BY <2>1
<1>3. CASE \E snap : SweepNext(snap)
  BY <1>3, SweepNextFacts
<1>4. ASSUME NEW snap \in sweep.list, SweepStale(snap)
      PROVE  sweep'.list = sweep.list /\ sweep'.cur = snap
  BY <1>4 DEF SweepStale, TypeInv, TypeOK, RelayerTypeOK, SweepTypeOK
<1>5. CASE ResendAck
  <2>1. /\ sweep'.list = sweep.list /\ sweep'.cur = sweep.cur /\ sweep.pc = "send"
        /\ sweep'.pc = "record" /\ sweep'.fee = sweep.fee
    BY <1>5 DEF ResendAck, TypeInv, TypeOK, RelayerTypeOK, SweepTypeOK
  <2> QED
    BY <1>5, <2>1
<1>6. CASE ResendPermanent
  <2>1. /\ sweep'.list = sweep.list /\ sweep'.cur = sweep.cur /\ sweep.pc = "send"
        /\ sweep'.pc = "fail" /\ sweep'.fee = sweep.fee
    BY <1>6 DEF ResendPermanent, TypeInv, TypeOK, RelayerTypeOK, SweepTypeOK
  <2> QED
    BY <2>1
<1>7. CASE SweepThrows \/ Crash
  BY <1>7 DEF SweepThrows, Crash, Exit, SweepIdle
<1>8. \/ sweep' = sweep \/ SweepRead \/ (\E snap \in sweep.list : SweepStale(snap))
      \/ ResendAck \/ ResendPermanent \/ SweepThrows \/ Crash \/ (\E snap : SweepNext(snap))
  BY DEF Next, RelayerNext, Boot, BootNonce, BootRead, BootReceipt, BootFail, BootLookup,
     Submit, Approve, Enqueue, Worker, TakeJob, SkipJob, LoseJob,
     SendAck, SendLost, SendRefused, SendTransient, SendUnderpriced, SendPermanent, Resync,
     Record, RecordThrows, Fail, WorkerThrows, Sweep, SweepMined, SweepNotStale,
     ResendLost, ResendRefused, ResendRecord,
     ResendRecordThrows, SweepFail, Drain, vars, relayerVars
<1> QED
  BY <1>1, <1>2, <1>3, <1>4, <1>5, <1>6, <1>7, <1>8

\* SnapshotNonces is inductive relative to the rest.
LEMMA SnapshotNoncesStep ==
  ASSUME TypeInv, TypeInv', AckInv, [Next]_vars
  PROVE  SnapshotNonces'
<1>1. /\ \A snap \in boot'.list \cup sweep'.list : snap.id \in Settlements /\ Remembered(snap)
      /\ boot'.pc \in {"lookup", "fail"} => boot'.cur.id \in Settlements /\ Remembered(boot'.cur)
      /\ sweep'.pc \in {"send", "record", "fail"} =>
           sweep'.cur.id \in Settlements /\ Remembered(sweep'.cur)
  <2>1. /\ \A snap \in boot.list \cup sweep.list : Remembered(snap)
        /\ boot.pc \in {"lookup", "fail"} => Remembered(boot.cur)
        /\ sweep.pc \in {"send", "record", "fail"} => Remembered(sweep.cur)
    BY DEF AckInv, SnapshotNonces
  <2>2. \A snap \in SnapshotsOf({"SUBMITTED"}) : Remembered(snap)
    BY SnapshotsRemembered
  <2>3. /\ \A snap \in boot'.list \cup sweep'.list : snap.id \in Settlements
        /\ boot'.pc \in {"lookup", "fail"} => boot'.cur.id \in Settlements
        /\ sweep'.pc \in {"send", "record", "fail"} => sweep'.cur.id \in Settlements
    BY DEF TypeInv, TypeOK, RelayerTypeOK, BootTypeOK, SweepTypeOK, Snapshot
  <2>4. /\ \A snap \in boot'.list : Remembered(snap)
        /\ boot'.pc \in {"lookup", "fail"} => Remembered(boot'.cur)
    BY <2>1, <2>2, BootSnapshots
  <2>5. /\ \A snap \in sweep'.list : Remembered(snap)
        /\ sweep'.pc \in {"send", "record", "fail"} => Remembered(sweep'.cur)
    BY <2>1, <2>2, SweepSnapshots
  <2> QED
    BY <2>3, <2>4, <2>5
<1>2. \A snap : snap.id \in Settlements /\ Remembered(snap) =>
        /\ row'[snap.id].status \notin {"NONE", "COMPLIANCE_APPROVED"}
        /\ snap.nonce \in NoncesIn(sent', snap.id)
  BY RememberedStays
<1> QED
  BY <1>1, <1>2 DEF SnapshotNonces, Remembered, Early, NoncesFor

\* An attempt goes on with the settlement and, resumed, the nonce it has.
LEMMA AttemptFacts ==
  ASSUME TypeInv,
         \/ SendLost \/ SendRefused \/ SendTransient \/ SendUnderpriced \/ SendPermanent
         \/ Resync \/ RecordThrows
  PROVE  /\ worker.pc \in {"send", "resync", "record"}
         /\ worker'.pc \in {"send", "resync", "fail"}
         /\ worker'.id = worker.id /\ worker'.resume = worker.resume
         /\ worker.resume => worker'.nonce = worker.nonce
<1>1. ASSUME NEW pc \in {"send", "resync"}, Retry(pc)
      PROVE  /\ worker'.pc \in {"send", "resync", "fail"}
             /\ worker'.id = worker.id /\ worker'.resume = worker.resume
             /\ worker'.nonce = worker.nonce
  BY <1>1 DEF Retry, TypeInv, TypeOK, RelayerTypeOK, WorkerTypeOK
<1>2. CASE SendLost \/ SendRefused \/ SendTransient \/ RecordThrows
  BY <1>1, <1>2 DEF SendLost, SendRefused, SendTransient, RecordThrows
<1>3. CASE SendUnderpriced \/ SendPermanent
  BY <1>3 DEF SendUnderpriced, SendPermanent, TypeInv, TypeOK, RelayerTypeOK, WorkerTypeOK
<1>4. CASE Resync
  BY <1>4 DEF Resync, TypeInv, TypeOK, RelayerTypeOK, WorkerTypeOK
<1> QED
  BY <1>2, <1>3, <1>4

\* A step either leaves the worker alone or is one of its own.
LEMMA WorkerSteps ==
  ASSUME [Next]_vars
  PROVE  \/ worker' = worker \/ worker'.pc = "idle" \/ TakeJob \/ SendAck
         \/ SendLost \/ SendRefused \/ SendTransient \/ SendUnderpriced \/ SendPermanent
         \/ Resync \/ RecordThrows
<1>1. CASE Worker
  <2>1. SkipJob \/ LoseJob => worker' = worker
    BY DEF SkipJob, LoseJob
  <2>2. Record \/ Fail \/ WorkerThrows => worker'.pc = "idle"
    BY DEF Record, Fail, WorkerThrows, WorkerIdle
  <2> QED
    BY <1>1, <2>1, <2>2 DEF Worker
<1>2. CASE Crash
  BY <1>2 DEF Crash, Exit, WorkerIdle
<1>3. CASE Boot \/ Submit \/ Drain
  BY <1>3 DEF Boot, BootNonce, BootRead, BootReceipt, BootFail, BootLookup, Submit, Approve, Enqueue, Drain
<1>4. CASE Sweep
  BY <1>4 DEF Sweep, SweepRead, SweepMined, SweepNotStale, SweepStale, ResendAck, ResendLost,
     ResendRefused, ResendPermanent, ResendRecord, ResendRecordThrows, SweepFail, SweepThrows
<1>5. CASE UNCHANGED relayerVars
  BY <1>5 DEF relayerVars
<1> QED
  BY <1>1, <1>2, <1>3, <1>4, <1>5 DEF Next, RelayerNext, vars

\* A taken job holds its row's nonce, or has nothing sent yet.
LEMMA TakeJobNonces ==
  ASSUME TypeInv, AckInv, TakeJob
  PROVE  WorkerNonces'
<1> DEFINE id == Head(queue)
           resume == row[id].status = "SUBMITTED" /\ row[id].nonce # Null
<1>1. /\ row' = row /\ sent' = sent /\ faults' = faults /\ NextJob
      /\ row[id].status \in {"COMPLIANCE_APPROVED", "SUBMITTED"}
  BY DEF TakeJob, chainVars, stateVars, Sendable
<1>2. PICK fee \in MarketFees :
        worker' = [pc |-> "send", id |-> id, resume |-> resume,
                   nonce |-> IF resume THEN row[id].nonce ELSE localNonce,
                   fee |-> fee, retry |-> row[id].retry]
  BY DEF TakeJob
<1>3. 1 \in DOMAIN queue /\ queue[1] = id /\ id \in Settlements
  BY <1>1, DequeuedFacts
<1>4. resume => row[id].nonce \in NoncesFor(id)
  BY <1>3 DEF AckInv, RowNonces
<1>5. ~ resume => NoncesFor(id) = {}
  <2>1. row[id].status = "SUBMITTED" => row[id].nonce # Null
    BY <1>3, ChainAssumption DEF TypeInv, SubmittedHasTx
  <2>2. row[id].status = "COMPLIANCE_APPROVED" => NoneSent(id)
    BY <1>3 DEF AckInv, WaitingInv
  <2> QED
    BY <1>1, <2>1, <2>2, NoneSentNonces
<1>6. Cardinality({}) = 0 /\ Lost >= 0
  BY FS_EmptySet DEF AckInv
<1>7. \A s : NoncesFor(s)' = NoncesFor(s)
  BY <1>1 DEF NoncesFor
<1>8. Lost' = Lost
  BY <1>1 DEF Lost
<1>9. /\ worker'.pc = "send" /\ worker'.id = id /\ worker'.resume = resume
      /\ worker'.nonce = IF resume THEN row[id].nonce ELSE localNonce
  <2> HIDE DEF id, resume
  <2> QED
    BY <1>2
<1> HIDE DEF id, resume
<1>10. ~ resume => Cardinality(NoncesFor(id)) = 0
  BY <1>5, <1>6
<1>11. NoncesFor(worker.id)' = NoncesFor(id)
  BY <1>1, <1>9 DEF NoncesFor
<1> QED
  BY <1>1, <1>4, <1>6, <1>8, <1>9, <1>10, <1>11 DEF WorkerNonces

\* A lost acknowledgement is counted.
LEMMA SpendAckLost ==
  ASSUME TypeInv, Spend("ack")
  PROVE  Lost' = Lost + 1 /\ Lost \in Int
<1>1. "ack" \in FaultKinds
  BY DEF FaultKinds
<1>2. faults["ack"] \in Nat /\ Faults["ack"] \in Nat /\ faults'["ack"] = faults["ack"] - 1
  BY <1>1, ChainAssumption DEF Spend, TypeInv, TypeOK, ChainTypeOK
<1> QED
  BY <1>2 DEF Lost

\* WorkerNonces is inductive relative to the rest.
LEMMA WorkerNoncesStep ==
  ASSUME TypeInv, TypeInv', AckInv, [Next]_vars
  PROVE  WorkerNonces'
<1>1. CASE worker'.pc = "idle"
  BY <1>1 DEF WorkerNonces
<1>2. CASE TakeJob
  BY <1>2, TakeJobNonces
<1>a. Lost \in Int /\ Lost' \in Int /\ Lost <= Lost'
  BY LostGrows
<1>b. worker.pc # "idle" =>
        /\ worker.id \in Settlements /\ worker.resume \in BOOLEAN
        /\ row'[worker.id].status # "NONE"
        /\ NoncesFor(worker.id) \subseteq NoncesIn(sent', worker.id)
        /\ Cardinality(NoncesFor(worker.id)) \in Nat
        /\ Cardinality(NoncesFor(worker.id)) <= 1 + Lost
  BY RowsStep, EarlyRows, NoncesGrow, NoncesForType
     DEF AckInv, WorkerNonces, TypeInv, TypeOK, RelayerTypeOK, WorkerTypeOK
<1>3. CASE SendAck
  <2>1. /\ worker.pc = "send" /\ Accept(WorkerTx) /\ WorkerTx.sid = worker.id
        /\ WorkerTx.nonce = worker.nonce /\ worker'.pc = "record"
        /\ worker'.id = worker.id /\ worker'.nonce = worker.nonce
    BY <1>3 DEF SendAck, WorkerTx, TypeInv, TypeOK, RelayerTypeOK, WorkerTypeOK
  <2>2. worker.nonce \in NoncesIn(sent', worker.id)
    BY <2>1, AcceptNonces
  <2> QED
    BY <1>b, <2>1, <2>2 DEF WorkerNonces, NoncesFor
<1>4. CASE \/ SendLost \/ SendRefused \/ SendTransient \/ SendUnderpriced \/ SendPermanent
           \/ Resync \/ RecordThrows
  <2>1. /\ worker.pc \in {"send", "resync", "record"}
        /\ worker'.pc \in {"send", "resync", "fail"}
        /\ worker'.id = worker.id /\ worker'.resume = worker.resume
        /\ worker.resume => worker'.nonce = worker.nonce
    BY <1>4, AttemptFacts
  <2>2. worker.resume => worker'.nonce \in NoncesIn(sent', worker.id)
    BY <1>b, <2>1 DEF AckInv, WorkerNonces
  <2>3. ASSUME ~ worker.resume
        PROVE  Cardinality(NoncesIn(sent', worker.id)) <= Lost'
    <3>1. CASE SendLost
      <4>1. /\ Accept(WorkerTx) /\ WorkerTx.sid = worker.id /\ Spend("ack")
            /\ worker.pc = "send"
        BY <3>1 DEF SendLost, WorkerTx
      <4>2. Cardinality(NoncesFor(worker.id)) <= Lost
        BY <2>3, <4>1 DEF AckInv, WorkerNonces
      <4>3. NoncesIn(sent', worker.id) = NoncesFor(worker.id) \cup {WorkerTx.nonce}
        BY <4>1, AcceptNonces
      <4>4. Cardinality(NoncesFor(worker.id) \cup {WorkerTx.nonce})
              \in {Cardinality(NoncesFor(worker.id)), Cardinality(NoncesFor(worker.id)) + 1}
        BY NoncesForType, FS_AddElement
      <4> QED
        BY <1>a, <1>b, <2>1, <4>1, <4>2, <4>3, <4>4, SpendAckLost
    <3>2. CASE ~ SendLost
      <4>1. NoncesIn(sent', worker.id) = NoncesFor(worker.id)
        <5>1. ~ SendAck
          BY <2>1 DEF SendAck, TypeInv, TypeOK, RelayerTypeOK, WorkerTypeOK
        <5> QED
          BY <1>b, <2>1, <3>2, <5>1, NoncesStep DEF FreshSend
      <4>2. CASE worker.pc # "record"
        BY <1>a, <1>b, <2>1, <2>3, <4>1, <4>2 DEF AckInv, WorkerNonces
      <4>3. CASE worker.pc = "record"
        <5>1. RecordThrows
          BY <1>4, <4>3 DEF SendLost, SendRefused, SendTransient, SendUnderpriced, SendPermanent, Resync
        <5>2. Spend("ack")
          BY <5>1 DEF RecordThrows
        <5> QED
          BY <1>b, <2>1, <4>1, <5>2, SpendAckLost
      <4> QED
        BY <4>2, <4>3
    <3> QED
      BY <3>1, <3>2
  <2> QED
    BY <1>b, <2>1, <2>2, <2>3 DEF WorkerNonces, NoncesFor
<1>5. CASE worker' = worker /\ ~ SendAck /\ ~ SendLost
  <2>1. worker.pc # "idle" => NoncesIn(sent', worker.id) = NoncesFor(worker.id)
    BY <1>b, <1>5, NoncesStep DEF FreshSend
  <2> QED
    BY <1>a, <1>b, <1>5, <2>1 DEF AckInv, WorkerNonces, NoncesFor
<1>6. \/ worker'.pc = "idle" \/ TakeJob \/ SendAck
      \/ SendLost \/ SendRefused \/ SendTransient \/ SendUnderpriced \/ SendPermanent
      \/ Resync \/ RecordThrows
      \/ worker' = worker /\ ~ SendAck /\ ~ SendLost
  BY WorkerSteps
<1> QED
  BY <1>1, <1>2, <1>3, <1>4, <1>5, <1>6

\* The settlements that wait keep waiting in one place.
LEMMA WaitingStep ==
  ASSUME TypeInv, AckInv, [Next]_vars
  PROVE  WaitingInv'
<1>a. WaitingInv
  BY DEF AckInv
<1>1. CASE \E s \in Settlements : Approve(s)
  <2>1. PICK s \in Settlements : Approve(s)
    BY <1>1
  <2>2. NoneSent(s) /\ ~ Busy(s)
    BY <2>1, NoneSentNonces DEF Approve, Busy, AckInv, RowNonces, WorkerNonces
  <2> QED
    BY <1>a, <2>1, <2>2, ApproveKeepsWaiting
<1>2. CASE \E s \in Settlements : Enqueue(s)
  <2>1. PICK s \in Settlements : Enqueue(s)
    BY <1>2
  <2>2. s \in requests /\ row[s].status # "NONE"
    BY <1>a, <2>1 DEF Enqueue, WaitingInv
  <2> QED
    BY <1>a, <2>1, <2>2, EnqueueKeepsWaiting DEF Enqueue, chainVars, stateVars
<1>3. CASE TakeJob \/ SkipJob \/ LoseJob
  BY <1>a, <1>3, DequeueKeepsWaiting
<1>4. CASE BootLookup
  <2>1. /\ UNCHANGED <<row, sent, worker, requests>> /\ Remembered(boot.cur)
        /\ boot.cur.id \in Settlements
        /\ queue' = queue \/ queue' = Enqueued(boot.cur.id)
    BY <1>4 DEF BootLookup, chainVars, stateVars, AckInv, SnapshotNonces,
       TypeInv, TypeOK, RelayerTypeOK, BootTypeOK, Snapshot
  <2>2. boot.cur.id \notin requests /\ row[boot.cur.id].status \notin {"NONE", "COMPLIANCE_APPROVED"}
    BY <1>a, <2>1 DEF WaitingInv, Remembered, Early
  <2>3. requests \ {boot.cur.id} = requests
    BY <2>2
  <2>4. CASE queue' = queue
    BY <1>a, <2>1, <2>4 DEF WaitingInv, NoneSent, Busy
  <2>5. CASE queue' = Enqueued(boot.cur.id)
    BY <1>a, <2>1, <2>2, <2>3, <2>5, EnqueueKeepsWaiting
  <2> QED
    BY <2>1, <2>4, <2>5
<1>5. CASE Crash
  BY <1>5 DEF Crash, Exit, WaitingInv
<1>6. CASE /\ queue' = queue /\ requests' = requests
           /\ ~ (\E s \in Settlements : Approve(s)) /\ ~ TakeJob
  <2>1. ASSUME NEW s \in Settlements
        PROVE  Busy(s)' => Busy(s)
    <3>1. worker'.pc = "idle" \/ (worker.pc # "idle" /\ worker'.id = worker.id) \/ worker' = worker
      <4>1. \/ worker' = worker \/ worker'.pc = "idle"
            \/ SendAck \/ SendLost \/ SendRefused \/ SendTransient \/ SendUnderpriced
            \/ SendPermanent \/ Resync \/ RecordThrows
        BY <1>6, WorkerSteps
      <4>2. CASE SendAck
        BY <4>2 DEF SendAck, TypeInv, TypeOK, RelayerTypeOK, WorkerTypeOK
      <4> QED
        BY <4>1, <4>2, AttemptFacts
    <3> QED
      BY <3>1 DEF Busy
  <2>2. ASSUME NEW s \in Settlements
        PROVE  /\ row'[s].status = "NONE" => row[s].status = "NONE"
               /\ row'[s].status = "COMPLIANCE_APPROVED" => row[s].status = "COMPLIANCE_APPROVED"
               /\ row[s].status = "COMPLIANCE_APPROVED" /\ ~ Busy(s) => row'[s].status = row[s].status
    <3>1. RowStep(s)
      BY RowsStep
    <3>2. /\ boot.pc = "fail" => ~ Early(boot.cur.id)
          /\ sweep.pc = "fail" => ~ Early(sweep.cur.id)
      BY DEF AckInv, SnapshotNonces, Remembered
    <3> QED
      BY <1>6, <3>1, <3>2 DEF RowStep, Early
  <2>3. ASSUME NEW s \in Settlements, ~ Busy(s), NoneSent(s)
        PROVE  NoneSent(s)'
    <3>1. FreshSend => s # worker.id
      BY <2>3 DEF FreshSend, Busy
    <3>2. NoncesFor(s) = {}
      BY <2>3, NoneSentNonces
    <3>3. NoncesIn(sent', s) = {}
      BY <3>1, <3>2, NoncesStep
    <3> QED
      BY <3>3 DEF NoncesIn, NoncesOf, NoneSent
  <2> QED
    BY <1>a, <1>6, <2>1, <2>2, <2>3, QuietKeepsWaiting
<1>7. \/ \E s \in Settlements : Approve(s)
      \/ \E s \in Settlements : Enqueue(s)
      \/ TakeJob \/ SkipJob \/ LoseJob \/ BootLookup \/ Crash
      \/ /\ queue' = queue /\ requests' = requests
         /\ ~ (\E s \in Settlements : Approve(s)) /\ ~ TakeJob
  BY DEF Next, RelayerNext, Boot, BootNonce, BootRead, BootReceipt, BootFail,
     Submit, Worker, SendAck, SendLost, SendRefused, SendTransient,
     SendUnderpriced, SendPermanent, Resync, Record, RecordThrows, Fail, WorkerThrows,
     Sweep, SweepRead, SweepMined, SweepNotStale, SweepStale, ResendAck, ResendLost,
     ResendRefused, ResendPermanent, ResendRecord, ResendRecordThrows, SweepFail, SweepThrows,
     Drain, vars, relayerVars
<1> QED
  BY <1>1, <1>2, <1>3, <1>4, <1>5, <1>6, <1>7

\* AckInv is inductive.
LEMMA AckStep ==
  ASSUME TypeInv, TypeInv', AckInv, [Next]_vars
  PROVE  AckInv'
<1>1. Lost \in Int /\ Lost' \in Int /\ Lost <= Lost'
  BY LostGrows
<1>2. Lost' >= 0
  BY <1>1 DEF AckInv
<1>3. ASSUME NEW s \in Settlements
      PROVE  Cardinality(NoncesIn(sent', s)) <= 1 + Lost'
  <2>1. Cardinality(NoncesFor(s)) \in Nat /\ Cardinality(NoncesFor(s)) <= 1 + Lost
    BY NoncesForType DEF AckInv
  <2>2. CASE NoncesIn(sent', s) = NoncesFor(s)
    BY <1>1, <2>1, <2>2
  <2>3. CASE FreshSend /\ s = worker.id /\ NoncesIn(sent', s) = NoncesFor(s) \cup {worker.nonce}
    <3>1. Cardinality(NoncesFor(s)) <= Lost
      BY <2>3 DEF FreshSend, AckInv, WorkerNonces
    <3>2. Cardinality(NoncesFor(s) \cup {worker.nonce}) \in {Cardinality(NoncesFor(s)), Cardinality(NoncesFor(s)) + 1}
      BY NoncesForType, FS_AddElement
    <3> QED
      BY <1>1, <2>1, <2>3, <3>1, <3>2
  <2> QED
    BY <2>2, <2>3, NoncesStep
<1>4. \A s \in Settlements : Cardinality(NoncesFor(s)') <= 1 + Lost'
  BY <1>3 DEF NoncesFor
<1> QED
  BY <1>2, <1>4, RowNoncesStep, SnapshotNoncesStep, WorkerNoncesStep, WaitingStep DEF AckInv

\* AckInv holds initially.
LEMMA InitAck ==
  ASSUME Init
  PROVE  AckInv
<1>1. sent = {} /\ faults = Faults /\ row = [s \in Settlements |-> NoRow]
  BY DEF Init, ChainInit, StateInit
<1>2. Faults["ack"] \in Nat
  BY ChainAssumption DEF FaultKinds
<1>3. Lost = 0
  BY <1>1, <1>2 DEF Lost
<1>4. \A s : NoncesFor(s) = {}
  BY <1>1 DEF NoncesFor, NoncesIn, NoncesOf
<1>5. \A s \in Settlements : Cardinality(NoncesFor(s)) <= 1 + Lost
  BY <1>3, <1>4, FS_EmptySet
<1>6. RowNonces
  BY <1>1, <1>4 DEF RowNonces, NoRow
<1>7. SnapshotNonces /\ WorkerNonces /\ WaitingInv
  BY DEF Init, RelayerInit, WorkerIdle, SweepIdle, BootDown, SnapshotNonces, WorkerNonces, WaitingInv
<1> QED
  BY <1>3, <1>5, <1>6, <1>7 DEF AckInv

\* The mined transfers of a settlement have different nonces.
LEMMA PaymentsHaveNonces ==
  ASSUME TypeInv, ValidChain(blocks), NEW s
  PROVE  Cardinality(Payments(s)) <= Cardinality(NoncesFor(s))
<1> DEFINE f == [i \in Payments(s) |-> blocks[i].tx.nonce]
<1>1. f \in [Payments(s) -> NoncesFor(s)]
  BY DEF Payments, NoncesFor, NoncesIn, NoncesOf, TypeInv, TypeOK, ChainTypeOK
<1>2. \A i, j \in Payments(s) : f[i] = f[j] => i = j
  BY NonceMinedOnce DEF Payments, TypeInv, TypeOK
<1>3. f \in Injection(Payments(s), NoncesFor(s))
  BY <1>1, <1>2 DEF Injection, IsInjective
<1> QED
  BY <1>3, NoncesForType, FS_Injection

\* ExtraPaymentsAreLostAcks: under any number of crashes, rejected calls,
\* evictions, reorganisations and lost acknowledgements, a settlement is paid
\* again at most once for every acknowledgement lost. Nothing else in
\* processJob, the sweep or the recovery moves money twice.
THEOREM OnlyLostAcksPayAgain == Spec => []ExtraPaymentsAreLostAcks
<1>1. Init => TypeInv /\ AckInv /\ ValidChain(blocks)
  BY InitType, InitAck DEF Init, ChainInit, ValidChain
<1>2. TypeInv /\ AckInv /\ ValidChain(blocks) /\ [Next]_vars
        => (TypeInv /\ AckInv /\ ValidChain(blocks))'
  BY TypeStep, AckStep, ValidChainStep
<1>3. TypeInv /\ AckInv /\ ValidChain(blocks) => ExtraPaymentsAreLostAcks
  <2> SUFFICES ASSUME TypeInv, AckInv, ValidChain(blocks), NEW s \in Settlements
               PROVE  Cardinality(Payments(s)) <= 1 + Lost
    BY DEF ExtraPaymentsAreLostAcks, Lost
  <2>1. Cardinality(Payments(s)) <= Cardinality(NoncesFor(s))
    BY PaymentsHaveNonces
  <2>2. Cardinality(NoncesFor(s)) <= 1 + Lost
    BY DEF AckInv
  <2>3. IsFiniteSet(Payments(s))
    <3>1. DOMAIN blocks = 1 .. Len(blocks) /\ Len(blocks) \in Nat
      BY LenProperties DEF TypeInv, TypeOK, ChainTypeOK
    <3>2. IsFiniteSet(1 .. Len(blocks))
      BY <3>1, FS_Interval
    <3> QED
      BY <3>1, <3>2, FS_Subset DEF Payments
  <2>4. Lost \in Int /\ Cardinality(Payments(s)) \in Nat /\ Cardinality(NoncesFor(s)) \in Nat
    BY <2>3, NoncesForType, FS_CardinalityType, ChainAssumption DEF Lost, FaultKinds, TypeInv, TypeOK, ChainTypeOK
  <2> QED
    BY <2>1, <2>2, <2>4
<1> QED
  BY <1>1, <1>2, <1>3, PTL DEF Spec

----------------------------------------------------------------------------
(* A resend outbids.                                                       *)

\* A transfer the node forgot for one of its nonce: a mined or a dearer one.
Superseded(t) ==
  \/ t.nonce \in MinedNonces
  \/ \E u \in pool : u.nonce = t.nonce /\ u.fee > t.fee

\* The snapshot's hash is a transfer of its settlement.
Own(snap) == snap.tx \in sent /\ snap.tx.sid = snap.id

\* Hashes are recorded after the broadcast, and no fee falls below four wei.
FeeInv ==
  /\ \A kind \in FaultKinds : faults[kind] <= Faults[kind]
  /\ \A t \in sent : t.fee >= 4
  /\ \A s \in Settlements :
       /\ inflight[s] # Null => inflight[s] >= 4
       /\ row[s].tx # Null => row[s].tx \in sent /\ row[s].tx.sid = s
  /\ worker.pc # "idle" => worker.fee >= 4
  /\ worker.pc = "record" => WorkerTx \in sent
  /\ sweep.pc \in {"send", "record"} => sweep.fee >= 4
  /\ sweep.pc = "record" => SweepTx \in sent
  /\ \A snap \in boot.list \cup sweep.list : Own(snap)
  /\ boot.pc \in {"lookup", "fail"} => Own(boot.cur)
  /\ sweep.pc \in {"send", "record", "fail"} => Own(sweep.cur)

\* Undisturbed, the node keeps one transfer of a nonce, the dearest, and the
\* in-flight entry knows at least its fee.
PoolInv ==
  /\ \A t, u \in pool : t.nonce = u.nonce => t = u
  /\ \A t \in pool : t.nonce \notin MinedNonces
  /\ \A t \in sent : t \in pool \/ Superseded(t)
  /\ \A t \in pool : inflight[t.sid] # Null => inflight[t.sid] >= t.fee
  /\ sweep.pc = "send" => sweep.fee > sweep.cur.tx.fee \/ Superseded(sweep.cur.tx)

\* A budget never exceeds what it began with; undisturbed, it was not drawn on.
LEMMA FaultsBelow ==
  ASSUME TypeInv, TypeInv', FeeInv, [Next]_vars
  PROVE  /\ \A kind \in FaultKinds : faults'[kind] <= Faults[kind]
         /\ Undisturbed' => Undisturbed /\ \A kind \in {"ack", "drop", "reorg"} : ~ Spend(kind)
<1>1. \A kind \in FaultKinds :
        /\ faults[kind] \in Nat /\ faults'[kind] \in Nat /\ Faults[kind] \in Nat
        /\ faults'[kind] <= faults[kind] /\ faults[kind] <= Faults[kind]
  BY FaultsFall, ChainAssumption DEF TypeInv, TypeOK, ChainTypeOK, FeeInv
<1>2. {"ack", "drop", "reorg"} \subseteq FaultKinds
  BY DEF FaultKinds
<1>3. \A kind \in FaultKinds : Spend(kind) => faults'[kind] < faults[kind]
  BY <1>1 DEF Spend, TypeInv, TypeOK, ChainTypeOK
<1>4. \A kind \in FaultKinds : faults'[kind] <= Faults[kind]
  BY <1>1
<1>5. ASSUME Undisturbed', NEW kind \in {"ack", "drop", "reorg"}
      PROVE  faults[kind] = Faults[kind] /\ ~ Spend(kind)
  <2>1. kind \in FaultKinds /\ faults'[kind] = Faults[kind]
    BY <1>2, <1>5 DEF Undisturbed
  <2> QED
    BY <1>1, <1>3, <2>1
<1> QED
  BY <1>4, <1>5 DEF Undisturbed

\* Two different nonces make a set of two.
LEMMA AtMostOneNonce ==
  ASSUME NEW S, IsFiniteSet(S), Cardinality(S) <= 1, NEW x \in S, NEW y \in S
  PROVE  x = y
<1>4. IsFiniteSet({x}) /\ Cardinality({x}) = 1
  BY FS_Singleton
<1>5. ASSUME x # y
      PROVE  FALSE
  <2>1. Cardinality({x} \cup {y}) = 2
    BY <1>4, <1>5, FS_AddElement
  <2>2. ({x} \cup {y}) \in SUBSET S
    OBVIOUS
  <2>3. Cardinality({x} \cup {y}) <= Cardinality(S)
    BY <2>2, FS_Subset
  <2>4. Cardinality(S) \in Nat
    BY FS_CardinalityType
  <2> QED
    BY <2>1, <2>3, <2>4
<1> QED
  BY <1>5

\* Without a lost acknowledgement the transfers of a settlement share a nonce.
LEMMA UndisturbedNonces ==
  ASSUME TypeInv, AckInv, Undisturbed
  PROVE  OneNonce
<1>1. Lost = 0
  BY ChainAssumption DEF Undisturbed, Lost, FaultKinds, TypeInv, TypeOK, ChainTypeOK
<1>2. ASSUME NEW t \in sent, NEW u \in sent, t.sid = u.sid
      PROVE  t.nonce = u.nonce
  <2>1. t.sid \in Settlements /\ t.nonce \in NoncesFor(t.sid) /\ u.nonce \in NoncesFor(t.sid)
    BY <1>2 DEF NoncesFor, NoncesIn, NoncesOf, TypeInv, TypeOK, ChainTypeOK, Txs
  <2>2. Cardinality(NoncesFor(t.sid)) <= 1
    BY <1>1, <2>1 DEF AckInv
  <2> QED
    BY <2>1, <2>2, NoncesForType, AtMostOneNonce
<1> QED
  BY <1>2 DEF OneNonce

\* What a step does to the signed transfers.
LEMMA SentStep ==
  ASSUME TypeInv, [Next]_vars
  PROVE  \/ sent' = sent
         \/ worker.pc = "send" /\ sent' = sent \cup {WorkerTx}
         \/ sweep.pc = "send" /\ sent' = sent \cup {SweepTx}
<1>1. CASE RelayerNext \/ UNCHANGED vars
  BY <1>1 DEF Accept, RelayerNext, Boot, BootNonce, BootRead, BootReceipt, BootFail, BootLookup,
     Submit, Approve, Enqueue, Worker, TakeJob, SkipJob, LoseJob, SendAck, SendLost,
     SendRefused, SendTransient, SendUnderpriced, SendPermanent, Resync, Record, RecordThrows,
     Fail, WorkerThrows, Sweep, SweepRead, SweepMined, SweepNotStale, SweepStale, ResendAck, ResendLost,
     ResendRefused, ResendPermanent, ResendRecord, ResendRecordThrows, SweepFail,
     SweepThrows, Drain, Crash, vars, chainVars
<1>2. CASE ChainNext
  BY <1>2, ChainStepType DEF TypeInv, TypeOK
<1> QED
  BY <1>1, <1>2 DEF Next

\* Where an in-flight fee comes from.
LEMMA InflightStep ==
  ASSUME TypeInv, [Next]_vars, NEW s \in Settlements
  PROVE  \/ inflight'[s] \in {inflight[s], Null}
         \/ SendAck /\ s = worker.id /\ inflight'[s] = worker.fee
         \/ ResendAck /\ s = sweep.cur.id /\ inflight'[s] = sweep.fee
         \/ BootLookup /\ Known(boot.cur.tx) /\ s = boot.cur.id /\ inflight'[s] = boot.cur.tx.fee
<1>a. inflight \in [Settlements -> Nat \cup {Null}]
  BY DEF TypeInv, TypeOK, RelayerTypeOK, MemoryTypeOK
<1>1. CASE inflight' = inflight
  BY <1>1
<1>3. CASE \E u : inflight' = [inflight EXCEPT ![u] = Null]
  BY <1>a, <1>3
<1>4. CASE inflight' = [u \in Settlements |-> Null]
  BY <1>4
<1>5. CASE SendAck \/ ResendAck \/ BootLookup
  BY <1>a, <1>1, <1>5 DEF SendAck, ResendAck, BootLookup
<1>6. \/ inflight' = inflight \/ SendAck \/ ResendAck \/ BootLookup
      \/ \E u : inflight' = [inflight EXCEPT ![u] = Null]
      \/ inflight' = [u \in Settlements |-> Null]
  <2>1. CASE Worker
    BY <2>1 DEF Worker, TakeJob, SkipJob, LoseJob, SendLost, SendRefused, SendTransient,
       SendUnderpriced, SendPermanent, Resync, Record, RecordThrows, Fail, WorkerThrows
  <2>2. CASE Sweep
    BY <2>2 DEF Sweep, SweepRead, SweepMined, SweepNotStale, SweepStale, ResendLost,
       ResendRefused, ResendPermanent, ResendRecord, ResendRecordThrows, SweepFail, SweepThrows
  <2>3. CASE Boot \/ Submit \/ Drain \/ Crash
    BY <2>3 DEF Boot, BootNonce, BootRead, BootReceipt, BootFail, Submit, Approve, Enqueue,
       Drain, Crash, Exit
  <2>4. CASE UNCHANGED relayerVars
    BY <2>4 DEF relayerVars
  <2> QED
    BY <2>1, <2>2, <2>3, <2>4 DEF Next, RelayerNext, vars
<1> QED
  BY <1>1, <1>3, <1>4, <1>5, <1>6

\* Where the hash of a row comes from.
LEMMA RowTxStep ==
  ASSUME TypeInv, [Next]_vars, NEW s \in Settlements
  PROVE  \/ row'[s].tx = row[s].tx
         \/ worker.pc = "record" /\ s = worker.id /\ row'[s].tx = WorkerTx
         \/ sweep.pc = "record" /\ s = sweep.cur.id /\ row'[s].tx = SweepTx
<1>1. ASSUME NEW u \in Settlements, NEW next, Transition(u, next)
      PROVE  row'[s] = IF s = u THEN next ELSE row[s]
  BY <1>1, TransitionFacts DEF TypeInv, TypeOK
<1>2. ASSUME NEW u \in Settlements, NEW retry,
             Transition(u, [row[u] EXCEPT !.status = "FAILED", !.retry = retry])
      PROVE  row'[s].tx = row[s].tx
  <2> DEFINE next == [row[u] EXCEPT !.status = "FAILED", !.retry = retry]
  <2>1. row'[s] = IF s = u THEN next ELSE row[s]
    BY <1>1, <1>2
  <2>2. next.tx = row[u].tx
    BY DEF TypeInv, TypeOK, StateTypeOK, Row
  <2> QED
    BY <2>1, <2>2
<1>3. CASE UNCHANGED stateVars
  BY <1>3 DEF stateVars
<1>4. CASE BootFail \/ SweepFail \/ Fail
  <2>1. /\ BootFail => boot.cur.id \in Settlements
        /\ SweepFail => sweep.cur.id \in Settlements
        /\ Fail => worker.id \in Settlements
    BY DEF BootFail, SweepFail, Fail, Snapshot, TypeInv, TypeOK, RelayerTypeOK, BootTypeOK,
       SweepTypeOK, WorkerTypeOK
  <2> QED
    BY <1>2, <1>4, <2>1 DEF BootFail, SweepFail, Fail
<1>5. ASSUME NEW u \in Settlements, Approve(u)
      PROVE  row'[s].tx = row[s].tx
  <2> DEFINE next == [row[u] EXCEPT !.status = "COMPLIANCE_APPROVED"]
  <2>1. row'[s] = IF s = u THEN next ELSE row[s]
    BY <1>1, <1>5 DEF Approve
  <2>2. next.tx = row[u].tx
    BY DEF TypeInv, TypeOK, StateTypeOK, Row
  <2> QED
    BY <2>1, <2>2
<1>6. CASE /\ worker.pc = "record"
           /\ Transition(worker.id, SubmittedRow)
  <2>1. worker.id \in Settlements
    BY <1>6 DEF TypeInv, TypeOK, RelayerTypeOK, WorkerTypeOK
  <2>2. SubmittedRow.tx = WorkerTx
    BY <2>1 DEF SubmittedRow, TypeInv, TypeOK, StateTypeOK, Row
  <2> QED
    BY <1>1, <1>6, <2>1, <2>2
<1>7. CASE sweep.pc = "record" /\ RecordResend(sweep.cur.id, SweepTx, sweep.retry)
  BY <1>7 DEF RecordResend, TypeInv, TypeOK, StateTypeOK, Row
<1>8. ASSUME ~ UNCHANGED stateVars
      PROVE  \/ BootFail \/ SweepFail \/ Fail \/ \E u \in Settlements : Approve(u)
             \/ worker.pc = "record" /\ Transition(worker.id, SubmittedRow)
             \/ sweep.pc = "record" /\ RecordResend(sweep.cur.id, SweepTx, sweep.retry)
  BY <1>8 DEF Next, RelayerNext, Boot, BootNonce, BootRead, BootReceipt, BootLookup,
     Submit, Enqueue, Worker, TakeJob, SkipJob, LoseJob, SendAck, SendLost,
     SendRefused, SendTransient, SendUnderpriced, SendPermanent, Resync, Record, RecordThrows,
     WorkerThrows, Sweep, SweepRead, SweepMined, SweepNotStale, SweepStale, ResendAck,
     ResendLost, ResendRefused, ResendPermanent, ResendRecord, ResendRecordThrows,
     SweepThrows, Drain, Crash, vars, stateVars
<1> QED
  BY <1>3, <1>4, <1>5, <1>6, <1>7, <1>8

\* Every fee in play stays at four wei or more, and every hash stored or
\* remembered was sent for its settlement.
LEMMA FeeStep ==
  ASSUME TypeInv, TypeInv', FeeInv, [Next]_vars, \A fee \in MarketFees : fee >= 4
  PROVE  FeeInv'
<1>a. sent \subseteq sent'
  BY SentStep
<1>b. \A fee \in Nat : fee >= 4 => BumpFee(fee) >= 4 /\ BumpFee(fee) \in Nat
  BY DEF BumpFee
<1>1. \A kind \in FaultKinds : faults'[kind] <= Faults[kind]
  BY FaultsBelow
<1>2. \A t \in sent' : t.fee >= 4
  <2>1. worker.pc = "send" => WorkerTx.fee >= 4
    BY DEF FeeInv, WorkerTx
  <2>2. sweep.pc = "send" => SweepTx.fee >= 4
    BY DEF FeeInv, SweepTx
  <2> QED
    BY <2>1, <2>2, SentStep DEF FeeInv
<1>3. ASSUME NEW s \in Settlements, inflight'[s] # Null
      PROVE  inflight'[s] >= 4
  <2>1. BootLookup => boot.cur.tx.fee >= 4
    BY DEF BootLookup, FeeInv, Own
  <2>2. SendAck => worker.fee >= 4
    BY DEF SendAck, FeeInv
  <2>3. ResendAck => sweep.fee >= 4
    BY DEF ResendAck, FeeInv
  <2> QED
    BY <1>3, <2>1, <2>2, <2>3, InflightStep DEF FeeInv
<1>4. ASSUME NEW s \in Settlements, row'[s].tx # Null
      PROVE  row'[s].tx \in sent' /\ row'[s].tx.sid = s
  <2>1. worker.pc = "record" => WorkerTx \in sent /\ WorkerTx.sid = worker.id
    BY DEF FeeInv, WorkerTx
  <2>2. sweep.pc = "record" => SweepTx \in sent /\ SweepTx.sid = sweep.cur.id
    BY DEF FeeInv, SweepTx
  <2> QED
    BY <1>a, <1>4, <2>1, <2>2, RowTxStep DEF FeeInv
<1>5. /\ worker'.pc # "idle" => worker'.fee >= 4
      /\ worker'.pc = "record" => WorkerTx' \in sent'
  <2>1. CASE worker' = worker
    BY <1>a, <2>1 DEF FeeInv, WorkerTx
  <2>2. CASE TakeJob
    <3>1. PICK id, resume, nonce, retry :
            \E fee \in MarketFees :
              worker' = [pc |-> "send", id |-> id, resume |-> resume, nonce |-> nonce,
                         fee |-> fee, retry |-> retry]
      BY <2>2 DEF TakeJob
    <3> QED
      BY <3>1
  <2>3. CASE SendAck
    <3>1. /\ worker.pc = "send" /\ Accept(WorkerTx) /\ worker'.fee = worker.fee
          /\ WorkerTx' = WorkerTx
      BY <2>3 DEF SendAck, WorkerTx, TypeInv, TypeOK, RelayerTypeOK, WorkerTypeOK
    <3> QED
      BY <3>1 DEF FeeInv, Accept
  <2>4. CASE \/ SendLost \/ SendRefused \/ SendTransient \/ SendUnderpriced \/ SendPermanent
             \/ Resync \/ RecordThrows
    <3>1. worker.pc # "idle" /\ worker'.pc \notin {"record"}
      BY <2>4, AttemptFacts
    <3>2. worker'.fee \in {worker.fee, BumpFee(worker.fee)}
      <4>1. ASSUME NEW pc, Retry(pc)
            PROVE  worker'.fee = worker.fee
        BY <4>1 DEF Retry, TypeInv, TypeOK, RelayerTypeOK, WorkerTypeOK
      <4>2. CASE SendLost \/ SendRefused \/ SendTransient \/ RecordThrows
        BY <4>1, <4>2 DEF SendLost, SendRefused, SendTransient, RecordThrows
      <4>3. CASE SendUnderpriced
        BY <4>3 DEF SendUnderpriced, TypeInv, TypeOK, RelayerTypeOK, WorkerTypeOK
      <4>4. CASE SendPermanent \/ Resync
        BY <4>4 DEF SendPermanent, Resync, TypeInv, TypeOK, RelayerTypeOK, WorkerTypeOK
      <4> QED
        BY <2>4, <4>2, <4>3, <4>4
    <3>3. worker.fee \in Nat /\ worker.fee >= 4
      BY <3>1 DEF FeeInv, TypeInv, TypeOK, RelayerTypeOK, WorkerTypeOK
    <3> QED
      BY <1>b, <3>1, <3>2, <3>3
  <2> QED
    BY <2>1, <2>2, <2>3, <2>4, WorkerSteps
<1>6. \A snap : Own(snap) => snap.tx \in sent' /\ snap.tx.sid = snap.id
  BY <1>a DEF Own
<1>7. \A snap \in SnapshotsOf({"SUBMITTED"}) : Own(snap)
  BY ChainAssumption DEF SnapshotsOf, WithStatus, Own, FeeInv, TypeInv, SubmittedHasTx
<1>8. /\ \A snap \in boot'.list : Own(snap)
      /\ boot'.pc \in {"lookup", "fail"} => Own(boot'.cur)
  BY <1>7, BootSnapshots DEF FeeInv
<1>9. /\ \A snap \in sweep'.list : Own(snap)
      /\ sweep'.pc \in {"send", "record", "fail"} => Own(sweep'.cur)
  BY <1>7, SweepSnapshots DEF FeeInv
<1>10. /\ sweep'.pc \in {"send", "record"} => sweep'.fee >= 4
       /\ sweep'.pc = "record" => SweepTx' \in sent'
  <2> SUFFICES ASSUME sweep'.pc \in {"send", "record"}
               PROVE  /\ sweep'.fee >= 4
                      /\ sweep'.pc = "record" => SweepTx' \in sent'
    OBVIOUS
  <2>1. ASSUME NEW snap \in sweep.list, SweepStale(snap)
        PROVE  /\ sweep'.fee >= 4
               /\ sweep'.pc # "record"
    <3>1. PICK fee \in PreviousFees(snap) :
            sweep' = [sweep EXCEPT !.pc = "send", !.cur = snap,
                                   !.fee = BumpFee(fee), !.retry = snap.retry + 1]
      <4>1. CASE snap.retry >= MaxRetries
        BY <2>1, <4>1 DEF SweepStale, TypeInv, TypeOK, RelayerTypeOK, SweepTypeOK
      <4> QED
        BY <2>1, <4>1 DEF SweepStale
    <3>2. fee \in Nat /\ fee >= 4
      <4>1. snap.id \in Settlements /\ snap.tx \in sent /\ snap.tx.fee \in Nat
        BY DEF FeeInv, Own, TypeInv, TypeOK, RelayerTypeOK, SweepTypeOK, Snapshot, Txs
      <4> QED
        BY <4>1, ChainAssumption DEF PreviousFees, FeeInv, TypeInv, TypeOK, RelayerTypeOK, MemoryTypeOK
    <3>3. sweep'.fee = BumpFee(fee) /\ sweep'.pc = "send"
      BY <3>1 DEF TypeInv, TypeOK, RelayerTypeOK, SweepTypeOK
    <3> QED
      BY <1>b, <3>2, <3>3
  <2>2. ASSUME /\ sweep.pc \in {"send", "record", "fail"} /\ sweep'.cur = sweep.cur
               /\ sweep'.fee = sweep.fee
               /\ sweep'.pc = sweep.pc \/ (sweep'.pc = "record" /\ ResendAck)
        PROVE  /\ sweep'.fee >= 4
               /\ sweep'.pc = "record" => SweepTx' \in sent'
    <3>1. SweepTx' = SweepTx
      BY <2>2 DEF SweepTx
    <3>2. ResendAck => SweepTx \in sent' /\ sweep.pc = "send"
      BY DEF ResendAck, Accept
    <3> QED
      BY <1>a, <2>2, <3>1, <3>2 DEF FeeInv
  <2> QED
    BY <2>1, <2>2, SweepSnapshots
<1>11. \A snap \in boot'.list \cup sweep'.list : Own(snap)'
  BY <1>6, <1>8, <1>9 DEF Own
<1>12. /\ boot'.pc \in {"lookup", "fail"} => Own(boot.cur)'
       /\ sweep'.pc \in {"send", "record", "fail"} => Own(sweep.cur)'
  BY <1>6, <1>8, <1>9 DEF Own
<1> QED
  BY <1>1, <1>2, <1>3, <1>4, <1>5, <1>10, <1>11, <1>12 DEF FeeInv

\* What an undisturbed step does to the pool.
LEMMA PoolStep ==
  ASSUME TypeInv, [Next]_vars, \A kind \in {"ack", "drop", "reorg"} : ~ Spend(kind)
  PROVE  \/ /\ sent' = sent
            /\ \E mined \in SUBSET Nat :
                 /\ MinedNonces' = MinedNonces \cup mined
                 /\ pool' = {u \in pool : u.nonce \notin mined}
         \/ SendAck /\ Accept(WorkerTx) /\ MinedNonces' = MinedNonces
         \/ ResendAck /\ Accept(SweepTx) /\ MinedNonces' = MinedNonces
<1>1. ASSUME UNCHANGED <<sent, pool, blocks>>
      PROVE  /\ sent' = sent
             /\ \E mined \in SUBSET Nat :
                  /\ MinedNonces' = MinedNonces \cup mined
                  /\ pool' = {u \in pool : u.nonce \notin mined}
  <2>1. MinedNonces' = MinedNonces \cup {} /\ pool' = {u \in pool : u.nonce \notin {}}
    BY <1>1 DEF MinedNonces, NoncesBelow
  <2>2. {} \in SUBSET Nat
    OBVIOUS
  <2> QED
    BY <1>1, <2>1, <2>2
<1>2. CASE SendAck \/ ResendAck
  BY <1>2 DEF SendAck, ResendAck, MinedNonces, NoncesBelow
<1>3. ASSUME NEW b \in Block, blocks' = Append(blocks, b)
      PROVE  MinedNonces' = MinedNonces \cup (IF b.tx = Null THEN {} ELSE {b.tx.nonce})
  <2>1. /\ blocks \in Seq(Block) /\ Len(blocks) \in Nat
        /\ Len(blocks') = Len(blocks) + 1
        /\ \A i \in 1 .. Len(blocks) : blocks'[i] = blocks[i]
        /\ blocks'[Len(blocks) + 1] = b
    BY <1>3, LenProperties, AppendProperties DEF TypeInv, TypeOK, ChainTypeOK
  <2>2. \A i \in 1 .. Len(blocks') : i \in 1 .. Len(blocks) \/ i = Len(blocks) + 1
    BY <2>1
  <2>3. \A i \in 1 .. Len(blocks) : i \in 1 .. Len(blocks')
    BY <2>1
  <2>4. Len(blocks) + 1 \in 1 .. Len(blocks')
    BY <2>1
  <2>5. \A n : n \in MinedNonces' <=>
               \/ n \in MinedNonces
               \/ b.tx # Null /\ n = b.tx.nonce
    BY <2>1, <2>2, <2>3, <2>4 DEF MinedNonces, NoncesBelow
  <2> QED
    BY <2>5
<1>4. CASE MineEmpty
  <2>1. NewBlock(Null, TRUE) \in Block /\ NewBlock(Null, TRUE).tx = Null
    BY DEF NewBlock, Block, Fork, FaultKinds, TypeInv, TypeOK, ChainTypeOK
  <2>2. MinedNonces' = MinedNonces \cup {} /\ pool' = {u \in pool : u.nonce \notin {}}
    BY <1>3, <1>4, <2>1 DEF MineEmpty
  <2> QED
    BY <1>4, <2>2 DEF MineEmpty
<1>5. CASE \E t \in sent, ok \in Outcomes : Mine(t, ok)
  <2>1. PICK t \in sent, ok \in Outcomes : Mine(t, ok)
    BY <1>5
  <2>2. /\ t \in Txs /\ t # Null /\ t.nonce \in Nat
        /\ NewBlock(t, ok) \in Block /\ NewBlock(t, ok).tx = t
    BY ChainAssumption
       DEF NewBlock, Block, Fork, Outcomes, FaultKinds, Txs, TypeInv, TypeOK, ChainTypeOK
  <2>3. MinedNonces' = MinedNonces \cup {t.nonce} /\ pool' = {u \in pool : u.nonce \notin {t.nonce}}
    BY <1>3, <2>1, <2>2 DEF Mine
  <2> QED
    BY <2>1, <2>2, <2>3 DEF Mine
<1>6. \/ UNCHANGED <<sent, pool, blocks>> \/ SendAck \/ ResendAck \/ MineEmpty
      \/ \E t \in sent, ok \in Outcomes : Mine(t, ok)
  <2>1. CASE ChainNext
    BY <2>1 DEF ChainNext, Reorg, Drop
  <2>2. CASE RelayerNext \/ UNCHANGED vars
    BY <2>2 DEF RelayerNext, Boot, BootNonce, BootRead, BootReceipt, BootFail, BootLookup,
       Submit, Approve, Enqueue, Worker, TakeJob, SkipJob, LoseJob, SendLost,
       SendRefused, SendTransient, SendUnderpriced, SendPermanent, Resync, Record, RecordThrows,
       Fail, WorkerThrows, Sweep, SweepRead, SweepMined, SweepNotStale, SweepStale, ResendLost,
       ResendRefused, ResendPermanent, ResendRecord, ResendRecordThrows, SweepFail,
       SweepThrows, Drain, Crash, vars, chainVars
  <2> QED
    BY <2>1, <2>2 DEF Next
<1> QED
  BY <1>1, <1>2, <1>4, <1>5, <1>6

\* A superseded transfer stays so, and so does the order in the pool.
LEMMA MinedKeepsPool ==
  ASSUME TypeInv, PoolInv, sent' = sent, NEW mined \in SUBSET Nat,
         MinedNonces' = MinedNonces \cup mined,
         pool' = {u \in pool : u.nonce \notin mined}
  PROVE  /\ \A t \in sent : Superseded(t) => Superseded(t)'
         /\ \A t, u \in pool' : t.nonce = u.nonce => t = u
         /\ \A t \in pool' : t.nonce \notin MinedNonces'
         /\ \A t \in sent' : t \in pool' \/ Superseded(t)'
         /\ pool' \subseteq pool
<1>1. \A t \in sent : Superseded(t) => Superseded(t)'
  BY DEF Superseded
<1>2. \A t \in sent : t \in pool' \/ Superseded(t)'
  BY <1>1 DEF PoolInv, Superseded
<1> QED
  BY <1>1, <1>2 DEF PoolInv

\* An accepted transfer keeps what PoolInv says of the pool.
LEMMA AcceptKeepsPool ==
  ASSUME TypeInv, PoolInv, NEW a \in Txs, Accept(a), MinedNonces' = MinedNonces
  PROVE  /\ \A t \in sent : Superseded(t) => Superseded(t)'
         /\ \A t, u \in pool' : t.nonce = u.nonce => t = u
         /\ \A t \in pool' : t.nonce \notin MinedNonces'
         /\ \A t \in sent' : t \in pool' \/ Superseded(t)'
         /\ \A t \in pool' : t = a \/ (t \in pool /\ t.nonce # a.nonce)
<1>1. /\ sent' = sent \cup {a} /\ pool' = {u \in pool : u.nonce # a.nonce} \cup {a}
      /\ a.nonce \notin MinedNonces /\ \A u \in pool : u.nonce = a.nonce => u.fee < a.fee
  BY DEF Accept, Accepts
<1>2. \A t \in sent : t.fee \in Nat
  BY DEF TypeInv, TypeOK, ChainTypeOK, Txs
<1>3. pool \subseteq sent /\ a.fee \in Nat
  BY DEF TypeInv, TypeOK, ChainTypeOK, Txs
<1>4. ASSUME NEW t \in sent, Superseded(t)
      PROVE  Superseded(t)'
  <2>1. CASE t.nonce \in MinedNonces
    BY <2>1 DEF Superseded
  <2>2. CASE \E u \in pool : u.nonce = t.nonce /\ u.fee > t.fee
    <3>1. PICK u \in pool : u.nonce = t.nonce /\ u.fee > t.fee
      BY <2>2
    <3>2. CASE u.nonce = a.nonce
      <4>1. a.fee > t.fee
        BY <1>1, <1>2, <1>3, <3>1, <3>2
      <4> QED
        BY <1>1, <3>1, <3>2, <4>1 DEF Superseded
    <3>3. CASE u.nonce # a.nonce
      BY <1>1, <3>1, <3>3 DEF Superseded
    <3> QED
      BY <3>2, <3>3
  <2> QED
    BY <1>4, <2>1, <2>2 DEF Superseded
<1>5. ASSUME NEW t \in sent
      PROVE  t \in pool' \/ Superseded(t)'
  <2>1. CASE t \in pool /\ t.nonce = a.nonce
    BY <1>1, <2>1 DEF Superseded
  <2>2. CASE t \in pool /\ t.nonce # a.nonce
    BY <1>1, <2>2
  <2>3. CASE Superseded(t)
    BY <1>4, <2>3
  <2> QED
    BY <2>1, <2>2, <2>3 DEF PoolInv
<1> QED
  BY <1>1, <1>4, <1>5 DEF PoolInv

\* The fee a sweep takes for a transfer is above the recorded one's.
LEMMA StaleOutbids ==
  ASSUME TypeInv, AckInv, FeeInv, PoolInv, \A fee \in MarketFees : fee >= 4,
         NEW snap \in sweep.list, SweepStale(snap), sweep'.pc = "send"
  PROVE  sweep'.fee > snap.tx.fee \/ Superseded(snap.tx)
<1>1. PICK fee \in PreviousFees(snap) :
        sweep' = [sweep EXCEPT !.pc = "send", !.cur = snap,
                               !.fee = BumpFee(fee), !.retry = snap.retry + 1]
  <2>1. CASE snap.retry >= MaxRetries
    BY <2>1 DEF SweepStale, TypeInv, TypeOK, RelayerTypeOK, SweepTypeOK
  <2> QED
    BY <2>1 DEF SweepStale
<1>2. sweep'.fee = BumpFee(fee)
  BY <1>1 DEF TypeInv, TypeOK, RelayerTypeOK, SweepTypeOK
<1>3. /\ snap.id \in Settlements /\ snap.tx \in sent /\ snap.tx.sid = snap.id
      /\ snap.tx.fee \in Nat /\ snap.tx.fee >= 4
  BY DEF FeeInv, Own, TypeInv, TypeOK, RelayerTypeOK, SweepTypeOK, Snapshot, Txs
<1>4. inflight[snap.id] # Null => inflight[snap.id] \in Nat /\ inflight[snap.id] >= 4
  BY <1>3 DEF FeeInv, TypeInv, TypeOK, RelayerTypeOK, MemoryTypeOK
<1>5. \A f \in Nat : f >= 4 => BumpFee(f) > f /\ BumpFee(f) \in Nat
  BY DEF BumpFee
<1>6. CASE snap.tx \in pool
  <2>1. fee \in Nat /\ fee >= 4 /\ fee >= snap.tx.fee
    <3>1. CASE inflight[snap.id] # Null
      BY <1>3, <1>4, <1>6, <3>1 DEF PreviousFees, PoolInv
    <3>2. CASE inflight[snap.id] = Null
      BY <1>3, <1>6, <3>2 DEF PreviousFees, Known
    <3> QED
      BY <3>1, <3>2
  <2> QED
    BY <1>2, <1>3, <1>5, <2>1
<1>7. CASE snap.tx \notin pool
  BY <1>3, <1>7 DEF PoolInv
<1> QED
  BY <1>6, <1>7

\* PoolInv is inductive as long as nothing disturbs.
LEMMA PoolInvStep ==
  ASSUME TypeInv, TypeInv', AckInv, AckInv', FeeInv, FeeInv', PoolInv, [Next]_vars,
         Undisturbed, Undisturbed', \A fee \in MarketFees : fee >= 4,
         \A kind \in {"ack", "drop", "reorg"} : ~ Spend(kind), OneNonce, OneNonce'
  PROVE  PoolInv'
<1>1. WorkerTx \in Txs \/ worker.pc = "idle"
  BY DEF WorkerTx, Txs, TypeInv, TypeOK, RelayerTypeOK, WorkerTypeOK
<1>2. SweepTx \in Txs \/ sweep.pc # "send"
  BY DEF SweepTx, Txs, Snapshot, TypeInv, TypeOK, RelayerTypeOK, SweepTypeOK
<1>3. \/ /\ sent' = sent /\ pool' \subseteq pool
         /\ ~ SendAck /\ ~ ResendAck
      \/ SendAck \/ ResendAck
  BY PoolStep
<1>a. SendAck => WorkerTx \in Txs /\ worker.pc = "send" /\ Accept(WorkerTx)
  BY <1>1 DEF SendAck
<1>b. ResendAck => SweepTx \in Txs /\ sweep.pc = "send" /\ Accept(SweepTx)
  BY <1>2 DEF ResendAck
<1>c. SendAck \/ ResendAck => MinedNonces' = MinedNonces
  BY DEF SendAck, ResendAck, MinedNonces, NoncesBelow
<1>4. /\ \A t \in sent : Superseded(t) => Superseded(t)'
      /\ \A t, u \in pool' : t.nonce = u.nonce => t = u
      /\ \A t \in pool' : t.nonce \notin MinedNonces'
      /\ \A t \in sent' : t \in pool' \/ Superseded(t)'
  <2>1. CASE SendAck
    BY <1>a, <1>c, <2>1, AcceptKeepsPool
  <2>2. CASE ResendAck
    BY <1>b, <1>c, <2>2, AcceptKeepsPool
  <2>3. CASE ~ SendAck /\ ~ ResendAck
    <3>1. PICK mined \in SUBSET Nat :
            /\ sent' = sent
            /\ MinedNonces' = MinedNonces \cup mined
            /\ pool' = {u \in pool : u.nonce \notin mined}
      BY <2>3, PoolStep
    <3> QED
      BY <3>1, MinedKeepsPool
  <2> QED
    BY <2>1, <2>2, <2>3
<1>5. ASSUME NEW t \in pool', inflight'[t.sid] # Null
      PROVE  inflight'[t.sid] >= t.fee
  <2>1. /\ t \in sent' /\ t.sid \in Settlements /\ t.fee \in Nat /\ sent' \subseteq Txs
    BY DEF TypeInv, TypeOK, ChainTypeOK, Txs
  <2>2. ASSUME NEW a, Accept(a), a \in Txs, MinedNonces' = MinedNonces,
               inflight' = [inflight EXCEPT ![a.sid] = a.fee]
        PROVE  inflight'[t.sid] >= t.fee
    <3>1. a \in sent' /\ a.sid \in Settlements /\ a.fee \in Nat
      BY <2>2 DEF Accept, Txs
    <3>2. t = a \/ (t \in pool /\ t.nonce # a.nonce)
      BY <2>2, AcceptKeepsPool
    <3>3. CASE t = a
      BY <2>1, <2>2, <3>1, <3>3 DEF TypeInv, TypeOK, RelayerTypeOK, MemoryTypeOK
    <3>4. CASE t \in pool /\ t.nonce # a.nonce
      <4>2. t.sid # a.sid
        BY <2>1, <3>1, <3>4 DEF OneNonce
      <4>3. inflight'[t.sid] = inflight[t.sid]
        BY <2>1, <2>2, <4>2 DEF TypeInv, TypeOK, RelayerTypeOK, MemoryTypeOK
      <4> QED
        BY <1>5, <3>4, <4>3 DEF PoolInv
    <3> QED
      BY <3>2, <3>3, <3>4
  <2>3. CASE SendAck
    <3>1. inflight' = [inflight EXCEPT ![WorkerTx.sid] = WorkerTx.fee]
      BY <2>3 DEF SendAck, WorkerTx
    <3> QED
      BY <1>a, <1>c, <2>2, <2>3, <3>1
  <2>4. CASE ResendAck
    <3>1. inflight' = [inflight EXCEPT ![SweepTx.sid] = SweepTx.fee]
      BY <2>4 DEF ResendAck, SweepTx
    <3> QED
      BY <1>b, <1>c, <2>2, <2>4, <3>1
  <2>5. CASE ~ SendAck /\ ~ ResendAck
    <3>1. t \in pool /\ sent' = sent
      BY <1>3, <2>5
    <3>2. CASE inflight'[t.sid] = inflight[t.sid]
      BY <1>5, <3>1, <3>2 DEF PoolInv
    <3>3. CASE /\ BootLookup /\ Known(boot.cur.tx) /\ t.sid = boot.cur.id
               /\ inflight'[t.sid] = boot.cur.tx.fee
      <4>1. PICK b : b = boot.cur.tx
        OBVIOUS
      <4>2. b \in sent /\ b.sid = t.sid
        BY <3>3, <4>1 DEF BootLookup, FeeInv, Own
      <4>3. b.nonce = t.nonce
        BY <2>1, <3>1, <4>2 DEF OneNonce
      <4>4. ~ Mined(b)
        <5>1. Mined(b) => b.nonce \in MinedNonces
          <6>1. DOMAIN blocks = 1 .. Len(blocks)
            BY LenProperties DEF TypeInv, TypeOK, ChainTypeOK
          <6>2. b # Null
            BY <4>2, ChainAssumption DEF TypeInv, TypeOK, ChainTypeOK
          <6> QED
            BY <6>1, <6>2 DEF Mined, Heights, MinedNonces, NoncesBelow
        <5> QED
          BY <3>1, <4>3, <5>1 DEF PoolInv
      <4>5. b \in pool
        BY <3>3, <4>1, <4>4 DEF Known
      <4>6. b = t
        BY <3>1, <4>3, <4>5 DEF PoolInv
      <4> QED
        BY <2>1, <3>3, <4>1, <4>6
    <3> QED
      BY <1>5, <2>1, <2>5, <3>2, <3>3, InflightStep
  <2> QED
    BY <2>3, <2>4, <2>5
<1>6. ASSUME sweep'.pc = "send"
      PROVE  sweep'.fee > sweep'.cur.tx.fee \/ Superseded(sweep.cur.tx)'
  <2>1. ASSUME NEW snap \in sweep.list, SweepStale(snap), sweep'.cur = snap
        PROVE  sweep'.fee > sweep'.cur.tx.fee \/ Superseded(sweep.cur.tx)'
    <3>1. PICK t : t = snap.tx
      OBVIOUS
    <3>2. t \in sent
      BY <3>1 DEF FeeInv, Own
    <3>3. sweep'.fee > t.fee \/ Superseded(t)
      BY <1>6, <2>1, <3>1, StaleOutbids
    <3>4. sweep'.fee > t.fee \/ Superseded(t)'
      BY <1>4, <3>2, <3>3
    <3>5. sweep'.cur.tx = t
      BY <2>1, <3>1
    <3> QED
      BY <3>4, <3>5 DEF Superseded
  <2>2. ASSUME sweep.pc = "send", sweep'.cur = sweep.cur, sweep'.fee = sweep.fee
        PROVE  sweep'.fee > sweep'.cur.tx.fee \/ Superseded(sweep.cur.tx)'
    <3>1. PICK t : t = sweep.cur.tx
      OBVIOUS
    <3>2. t \in sent
      BY <2>2, <3>1 DEF FeeInv, Own
    <3>3. sweep.fee > t.fee \/ Superseded(t)
      BY <2>2, <3>1 DEF PoolInv
    <3>4. sweep'.fee > t.fee \/ Superseded(t)'
      BY <1>4, <2>2, <3>2, <3>3
    <3>5. sweep'.cur.tx = t
      BY <2>2, <3>1
    <3> QED
      BY <3>4, <3>5 DEF Superseded
  <2> QED
    BY <1>6, <2>1, <2>2, SweepSnapshots
<1> QED
  BY <1>4, <1>5, <1>6 DEF PoolInv

\* FeeInv and PoolInv hold initially.
LEMMA InitFee ==
  ASSUME Init
  PROVE  FeeInv /\ PoolInv
<1>1. sent = {} /\ pool = {} /\ faults = Faults /\ row = [s \in Settlements |-> NoRow]
  BY DEF Init, ChainInit, StateInit
<1>2. \A kind \in FaultKinds : Faults[kind] \in Nat
  BY ChainAssumption
<1>3. FeeInv
  BY <1>1, <1>2 DEF Init, RelayerInit, WorkerIdle, SweepIdle, BootDown, FeeInv, NoRow
<1>4. PoolInv
  BY <1>1 DEF Init, RelayerInit, SweepIdle, PoolInv
<1> QED
  BY <1>3, <1>4

\* ResendOutbids: with market fees of four wei or more, and as long as no
\* acknowledgement was lost, nothing evicted and no block replaced, a resend
\* pays more than the pending transfer its row names, across crashes and
\* rejected calls (bumpFees, bumpAndResend, recoverInFlight).
THEOREM ResendsOutbid ==
  ASSUME \A fee \in MarketFees : fee >= 4
  PROVE  Spec => []ResendOutbids
<1> DEFINE Inv == /\ TypeInv /\ AckInv /\ FeeInv
                  /\ Undisturbed => PoolInv
<1>1. Init => Inv
  BY InitType, InitAck, InitFee
<1>a. TypeInv /\ AckInv /\ Undisturbed => OneNonce
  BY UndisturbedNonces
<1>b. (TypeInv /\ AckInv /\ Undisturbed => OneNonce)'
  BY <1>a, PTL
<1>2. Inv /\ [Next]_vars => Inv'
  <2> SUFFICES ASSUME Inv, [Next]_vars
               PROVE  Inv'
    OBVIOUS
  <2>1. TypeInv'
    BY TypeStep
  <2>2. AckInv' /\ FeeInv'
    BY <2>1, AckStep, FeeStep
  <2>3. Undisturbed' => PoolInv'
    BY <1>a, <1>b, <2>1, <2>2, FaultsBelow, PoolInvStep
  <2> QED
    BY <2>1, <2>2, <2>3
<1>3. Inv => ResendOutbids
  <2> SUFFICES ASSUME Inv, sweep.pc = "send", sweep.cur.tx \in pool, Undisturbed
               PROVE  sweep.fee > sweep.cur.tx.fee
    BY DEF ResendOutbids
  <2>1. PoolInv
    OBVIOUS
  <2>2. sweep.cur.tx.fee \in Nat
    BY DEF TypeInv, TypeOK, ChainTypeOK, Txs
  <2>3. ~ Superseded(sweep.cur.tx)
    BY <2>1, <2>2 DEF PoolInv, Superseded
  <2> QED
    BY <2>1, <2>3 DEF PoolInv
<1> HIDE DEF Inv
<1> QED
  BY <1>1, <1>2, <1>3, PTL DEF Spec

=============================================================================
