--------------------------- MODULE TreasuryProofs ---------------------------
(***************************************************************************)
(* Proofs about the books: for any number of requests, instructions and    *)
(* transfers, any amounts and any faults, an instruction reaches the       *)
(* relayer at most once, an overdraft needs a race, and a run of the       *)
(* reconciliation reports exactly what the books cannot explain.           *)
(***************************************************************************)
EXTENDS Treasury, SumProofs

----------------------------------------------------------------------------
(* The inductive invariant. *)

\* The part of a request that comes after its insert.
Owns(r) == call[r].pc \in {"screen", "enqueue"}

\* What the tables and the requests look like.
Shapes ==
  /\ status \in [Instructions -> Statuses]
  /\ handed \in [Instructions -> {0, 1}]
  /\ DOMAIN call = Requests
  /\ \A r \in Requests : call[r] = [pc |-> call[r].pc, ledger |-> call[r].ledger, open |-> call[r].open]

\* A settlement without a row was never given away.
NoRowNotHanded == \A i \in Instructions : status[i] = "NONE" => handed[i] = 0

\* The request that inserted the row is the only one to go on with it.
OneOwner ==
  \A r \in Requests : Owns(r) =>
    /\ status[Instruction(r)] # "NONE"
    /\ handed[Instruction(r)] = 0
    /\ \A q \in Requests \ {r} : Owns(q) => Instruction(q) # Instruction(r)

HInv == Shapes /\ NoRowNotHanded /\ OneOwner

\* The instruction of a request is one, and so is that of a transfer.
LEMMA InstructionType == ASSUME NEW r \in Requests PROVE Instruction(r) \in Instructions
BY IntakeAssumption DEF Instruction

LEMMA TransferType == ASSUME NEW t \in Transfers PROVE t.of \in Instructions /\ t # Null
BY BooksAssumption

LEMMA InitHInv == TreasuryInit => HInv
<1> SUFFICES ASSUME TreasuryInit PROVE HInv OBVIOUS
<1>1. Shapes
  BY DEF TreasuryInit, BooksInit, IntakeInit, Shapes, NewCall, Statuses
<1>2. NoRowNotHanded
  BY DEF TreasuryInit, IntakeInit, NoRowNotHanded
<1>3. \A r \in Requests : ~ Owns(r)
  BY DEF TreasuryInit, IntakeInit, Owns, NewCall
<1>4. OneOwner
  BY <1>3 DEF OneOwner
<1> QED BY <1>1, <1>2, <1>4 DEF HInv

\* A step that leaves the requests alone and takes no row away keeps the invariant.
LEMMA RowsKept ==
  ASSUME HInv, UNCHANGED <<call, handed>>,
         status' \in [Instructions -> Statuses],
         \A i \in Instructions : status[i] # "NONE" => status'[i] # "NONE"
  PROVE  HInv'
<1>1. Shapes'
  BY DEF HInv, Shapes
<1>2. NoRowNotHanded'
  BY DEF HInv, NoRowNotHanded
<1>3. OneOwner'
  BY InstructionType DEF HInv, OneOwner, Owns, Instruction
<1> QED BY <1>1, <1>2, <1>3 DEF HInv

\* A status write is no removal.
LEMMA MoveKeepsRows ==
  ASSUME HInv, NEW i \in Instructions, NEW to \in Statuses \ {"NONE"}, Move(i, to)
  PROVE  /\ status' \in [Instructions -> Statuses]
         /\ \A j \in Instructions : status[j] # "NONE" => status'[j] # "NONE"
BY DEF HInv, Shapes, Move

----------------------------------------------------------------------------
(* The steps. *)

\* The relayer, the listener and DvP write statuses and leave the requests alone.
LEMMA MoneyKeeps == HInv /\ MoneyStep => HInv'
<1> SUFFICES ASSUME HInv, MoneyStep PROVE HInv' OBVIOUS
<1>1. UNCHANGED <<call, handed>> BY DEF MoneyStep
<1>2. CASE UNCHANGED status
  BY <1>1, <1>2, RowsKept DEF HInv, Shapes
<1>3. ASSUME NEW i \in Instructions, NEW to \in Statuses \ {"NONE"}, Move(i, to) PROVE HInv'
  BY <1>1, <1>3, MoveKeepsRows, RowsKept
<1>4. \/ UNCHANGED status
      \/ \E i \in Instructions : \E to \in {"SUBMITTED", "FAILED", "CONFIRMED", "FINAL"} : Move(i, to)
  BY TransferType
     DEF MoneyStep, BooksNext, Boot, SnapshotRead, SnapshotWrite, Submit, SubmitUnheard, Resend,
         GiveUp, Mine,
         Unmine, Confirm, BookFinal, WriteFinal, FundDeal, RefundDeal, rows
<1>5. {"SUBMITTED", "FAILED", "CONFIRMED", "FINAL"} \subseteq Statuses \ {"NONE"} BY DEF Statuses
<1> QED BY <1>2, <1>3, <1>4, <1>5

\* A step of a request that neither inserts, screens nor enqueues: it ends the
\* request, or it goes on before the insert.
LEMMA BeforeInsert ==
  ASSUME HInv, NEW r \in Requests, NEW c, UNCHANGED <<status, handed>>,
         call' = [call EXCEPT ![r] = c],
         c = [pc |-> c.pc, ledger |-> c.ledger, open |-> c.open],
         c.pc \notin {"screen", "enqueue"}
  PROVE  HInv'
<1>1. Shapes'
  BY DEF HInv, Shapes
<1>2. NoRowNotHanded'
  BY DEF HInv, NoRowNotHanded
<1>3. \A q \in Requests : Owns(q)' => q # r /\ Owns(q)
  BY DEF HInv, Shapes, Owns
<1>4. OneOwner'
  BY <1>3 DEF HInv, OneOwner, Instruction
<1> QED BY <1>1, <1>2, <1>4 DEF HInv

\* The insert: there was no row, hence no owner, and nothing was handed over.
LEMMA InsertKeeps == ASSUME HInv, NEW r \in Requests, Insert(r) PROVE HInv'
<1>1. Instruction(r) \in Instructions BY InstructionType
<1>2. /\ status[Instruction(r)] = "NONE"
      /\ status' = [status EXCEPT ![Instruction(r)] = "RECEIVED"]
      /\ call' = [call EXCEPT ![r] = [NewCall EXCEPT !.pc = "screen"]]
      /\ UNCHANGED handed
  BY DEF Insert
<1>3. Shapes'
  BY <1>1, <1>2 DEF HInv, Shapes, NewCall, Statuses
<1>4. NoRowNotHanded'
  BY <1>1, <1>2 DEF HInv, Shapes, NoRowNotHanded
<1>5. handed[Instruction(r)] = 0
  BY <1>1, <1>2 DEF HInv, NoRowNotHanded
<1>6. \A q \in Requests : Owns(q) => Instruction(q) # Instruction(r)
  BY <1>2 DEF HInv, OneOwner
<1>7. \A q \in Requests \ {r} : Owns(q)' <=> Owns(q)
  BY <1>2 DEF HInv, Shapes, Owns
<1>8. \A i \in Instructions : status[i] # "NONE" \/ i = Instruction(r) => status'[i] # "NONE"
  BY <1>1, <1>2 DEF HInv, Shapes
<1>9. OneOwner'
  BY <1>1, <1>2, <1>5, <1>6, <1>7, <1>8, InstructionType DEF HInv, OneOwner, Instruction
<1> QED BY <1>3, <1>4, <1>9 DEF HInv

\* The verdict: the owner goes on alone, or ends.
LEMMA ScreenKeeps == ASSUME HInv, NEW r \in Requests, Screen(r) PROVE HInv'
<1>1. Instruction(r) \in Instructions BY InstructionType
<1>2. /\ Owns(r)
      /\ UNCHANGED handed
      /\ \E to \in {"REJECTED_COMPLIANCE", "COMPLIANCE_APPROVED"} : Move(Instruction(r), to)
      /\ \/ call' = [call EXCEPT ![r] = Done]
         \/ call' = [call EXCEPT ![r].pc = "enqueue"]
  BY DEF Screen, Owns
<1>3. {"REJECTED_COMPLIANCE", "COMPLIANCE_APPROVED"} \subseteq Statuses \ {"NONE"} BY DEF Statuses
<1>4. /\ status' \in [Instructions -> Statuses]
      /\ \A j \in Instructions : status[j] # "NONE" => status'[j] # "NONE"
  BY <1>1, <1>2, <1>3, MoveKeepsRows
<1>5. Shapes'
  BY <1>2, <1>4 DEF HInv, Shapes, Done, NewCall
<1>6. NoRowNotHanded'
  BY <1>2, <1>4 DEF HInv, NoRowNotHanded
<1>7. \A q \in Requests : Owns(q)' => Owns(q)
  BY <1>2 DEF HInv, Shapes, Owns
<1>8. OneOwner'
  BY <1>2, <1>4, <1>7, InstructionType DEF HInv, OneOwner, Instruction
<1> QED BY <1>5, <1>6, <1>8 DEF HInv

\* The hand-over: the owner was the only one and is none any more.
LEMMA EnqueueKeeps == ASSUME HInv, NEW r \in Requests, Enqueue(r) PROVE HInv'
<1>1. Instruction(r) \in Instructions BY InstructionType
<1>2. /\ Owns(r)
      /\ UNCHANGED status
      /\ handed' = [handed EXCEPT ![Instruction(r)] = @ + 1]
      /\ call' = [call EXCEPT ![r] = Done]
  BY DEF Enqueue, Owns, rows
<1>3. /\ handed[Instruction(r)] = 0
      /\ status[Instruction(r)] # "NONE"
      /\ \A q \in Requests \ {r} : Owns(q) => Instruction(q) # Instruction(r)
  BY <1>2 DEF HInv, OneOwner
<1>4. Shapes'
  BY <1>1, <1>2, <1>3 DEF HInv, Shapes, Done, NewCall
<1>5. NoRowNotHanded'
  BY <1>1, <1>2, <1>3 DEF HInv, Shapes, NoRowNotHanded
<1>6. \A q \in Requests : Owns(q)' => q # r /\ Owns(q)
  BY <1>2 DEF HInv, Shapes, Owns, Done, NewCall
<1>7. \A i \in Instructions \ {Instruction(r)} : handed'[i] = handed[i]
  BY <1>1, <1>2 DEF HInv, Shapes
<1>8. OneOwner'
  BY <1>2, <1>3, <1>6, <1>7, InstructionType DEF HInv, OneOwner, Instruction
<1> QED BY <1>4, <1>5, <1>8 DEF HInv

\* The other steps of a request.
LEMMA LookupKeeps ==
  ASSUME HInv, NEW r \in Requests,
         Lookup(r) \/ ReadLedger(r) \/ ReadInFlight(r) \/ Refuse(r) \/ InsertRaced(r) \/ CallThrows(r)
  PROVE  HInv'
<1>1. UNCHANGED <<status, handed>>
  BY DEF Lookup, ReadLedger, ReadInFlight, Refuse, InsertRaced, CallThrows, booksVars, rows
<1>2. ASSUME NEW pc, NEW ledger, NEW open, pc \notin {"screen", "enqueue"},
             call' = [call EXCEPT ![r] = [pc |-> pc, ledger |-> ledger, open |-> open]]
      PROVE  HInv'
  <2>. DEFINE c == [pc |-> pc, ledger |-> ledger, open |-> open]
  <2>1. c = [pc |-> c.pc, ledger |-> c.ledger, open |-> c.open] /\ c.pc = pc OBVIOUS
  <2>2. call' = [call EXCEPT ![r] = c] BY <1>2
  <2>. HIDE DEF c
  <2> QED BY <1>1, <1>2, <2>1, <2>2, BeforeInsert
<1>3. call[r] = [pc |-> call[r].pc, ledger |-> call[r].ledger, open |-> call[r].open]
  BY DEF HInv, Shapes
<1>4. CASE Lookup(r)
  <2>. DEFINE found == IF status[Instruction(r)] = "NONE" THEN "balance" ELSE "done"
  <2>1. call' = [call EXCEPT ![r] = [call[r] EXCEPT !.pc = found]]
    BY <1>4, Zenon DEF Lookup
  <2>2. found \in {"balance", "done"} OBVIOUS
  <2>. HIDE DEF found
  <2>3. [call[r] EXCEPT !.pc = found] = [pc |-> found, ledger |-> call[r].ledger, open |-> call[r].open]
    BY <1>3
  <2>4. call' = [call EXCEPT ![r] = [pc |-> found, ledger |-> call[r].ledger, open |-> call[r].open]]
    BY <2>1, <2>3
  <2>5. found \notin {"screen", "enqueue"} BY <2>2
  <2> QED BY <1>2, <2>4, <2>5
<1>5. CASE ReadLedger(r)
  <2>1. call' = [call EXCEPT ![r] = [call[r] EXCEPT !.ledger = booked]] /\ call[r].pc = "balance"
    BY <1>5 DEF ReadLedger
  <2>2. [call[r] EXCEPT !.ledger = booked] = [pc |-> call[r].pc, ledger |-> booked, open |-> call[r].open]
    BY <1>3
  <2> QED BY <1>2, <2>1, <2>2
<1>6. CASE ReadInFlight(r)
  <2>. DEFINE open == WithStatus(InFlight)
  <2>1. call' = [call EXCEPT ![r] = [call[r] EXCEPT !.open = open]] /\ call[r].pc = "balance"
    BY <1>6 DEF ReadInFlight
  <2>. HIDE DEF open
  <2>2. [call[r] EXCEPT !.open = open] = [pc |-> call[r].pc, ledger |-> call[r].ledger, open |-> open]
    BY <1>3
  <2> QED BY <1>2, <2>1, <2>2
<1>7. CASE Refuse(r) \/ InsertRaced(r) \/ CallThrows(r)
  <2>1. call' = [call EXCEPT ![r] = Done]
    BY <1>7 DEF Refuse, InsertRaced, CallThrows
  <2>2. Done = [pc |-> "done", ledger |-> Null, open |-> Null]
    BY DEF Done, NewCall
  <2>3. call' = [call EXCEPT ![r] = [pc |-> "done", ledger |-> Null, open |-> Null]]
    BY <2>1, <2>2
  <2>4. "done" \notin {"screen", "enqueue"} OBVIOUS
  <2> QED BY <1>2, <2>3, <2>4
<1> QED BY <1>4, <1>5, <1>6, <1>7

LEMMA IntakeKeeps == HInv /\ IntakeStep => HInv'
BY LookupKeeps, InsertKeeps, ScreenKeeps, EnqueueKeeps DEF IntakeStep, IntakeNext, Step

\* The process exits: every request that began is done.
LEMMA ExitKeeps == HInv /\ TreasuryExit => HInv'
<1> SUFFICES ASSUME HInv, TreasuryExit PROVE HInv' OBVIOUS
<1>1. /\ UNCHANGED <<status, handed>>
      /\ call' = [r \in Requests |-> IF call[r].pc = "new" THEN call[r] ELSE Done]
  BY DEF TreasuryExit, Exit, IntakeExit, rows
<1>2. Shapes'
  BY <1>1 DEF HInv, Shapes, Done, NewCall
<1>3. NoRowNotHanded'
  BY <1>1 DEF HInv, NoRowNotHanded
<1>4. \A r \in Requests : ~ Owns(r)'
  BY <1>1 DEF Owns, Done, NewCall
<1>5. OneOwner'
  BY <1>4 DEF OneOwner
<1> QED BY <1>2, <1>3, <1>5 DEF HInv

\* The reconciliation only reads.
LEMMA ReconKeeps == HInv /\ ReconStep => HInv'
<1> SUFFICES ASSUME HInv, ReconStep PROVE HInv' OBVIOUS
<1>1. UNCHANGED <<status, call, handed>>
  BY DEF ReconStep, intakeVars, ReconNext, ReconStart, ReconLedger, ReconChain, ReconRows, ReconReceipt,
         ReconCompare, ReconEnd, booksVars, rows
<1> QED BY <1>1, RowsKept DEF HInv, Shapes

LEMMA StepKeeps == HInv /\ [TreasuryNext]_treasuryVars => HInv'
<1> SUFFICES ASSUME HInv, [TreasuryNext]_treasuryVars PROVE HInv' OBVIOUS
<1>1. CASE UNCHANGED treasuryVars
  <2>1. UNCHANGED <<status, call, handed>>
    BY <1>1 DEF treasuryVars, booksVars, rows, intakeVars
  <2> QED BY <2>1, RowsKept DEF HInv, Shapes
<1> QED BY <1>1, MoneyKeeps, IntakeKeeps, ReconKeeps, ExitKeeps DEF TreasuryNext

----------------------------------------------------------------------------
\* README: "concurrent identical POSTs converge on one settlement and enqueue
\* exactly once". An instruction is handed to the relayer at most once, however
\* many requests carry it (SettlementsService.create).
THEOREM InstructionHandedOnce == TreasurySpec => []HandedOnce
<1>1. HInv => HandedOnce
  BY DEF HInv, Shapes, HandedOnce
<1> QED BY <1>1, InitHInv, StepKeeps, PTL DEF TreasurySpec

----------------------------------------------------------------------------
(* The inductive invariant of the books. *)

\* What the theorems take for granted of the parameters.
Finite == IsFiniteSet(Instructions) /\ IsFiniteSet(Transfers)

\* How far a settlement got: what is queued was handed over and waits, what a
\* node accepted was handed over, a row names a transfer of its own once it is
\* SUBMITTED, what is booked is mined, and a request between its insert and the
\* hand-over still sees the status it wrote.
Flow ==
  /\ \A i \in queue : status[i] = "COMPLIANCE_APPROVED" /\ handed[i] = 1
  /\ \A t \in sent :
       /\ status[t.of] \in {"COMPLIANCE_APPROVED", "SUBMITTED", "CONFIRMED", "FINAL", "FAILED"}
       /\ handed[t.of] = 1
  /\ \A i \in Instructions :
       /\ txHash[i] # Null => txHash[i] \in sent /\ txHash[i].of = i
       /\ txHash[i] # Null => status[i] \in {"SUBMITTED", "CONFIRMED", "FINAL", "FAILED"}
       /\ status[i] \in {"SUBMITTED", "CONFIRMED", "FINAL"} => txHash[i] # Null
  /\ \A i \in booked : status[i] \in {"SUBMITTED", "CONFIRMED", "FINAL"} /\ txHash[i] \in paid
  /\ \A r \in Requests :
       /\ call[r].pc = "screen" => status[Instruction(r)] = "RECEIVED"
       /\ call[r].pc = "enqueue" => status[Instruction(r)] = "COMPLIANCE_APPROVED"

\* Before the opening snapshot is written no row is and no money moves; only a
\* server that is up serves requests, and no timer outlives its process.
Opened ==
  /\ process # "booting" => seen = Null
  /\ seen # Null => genesis = Null /\ seen = Opening
  /\ genesis \in {Null, Opening}
  /\ genesis = Null =>
       /\ process # "up" /\ sent = {} /\ escrow = 0
       /\ \A i \in Instructions : status[i] = "NONE"
  /\ process = "down" => recon.pc = "idle"
  /\ process # "up" => \A r \in Requests : call[r].pc \in {"new", "done"}

\* What the two answers of a balance cover, while no race was lost: a settlement
\* missing from a ledger already read is still in flight for the other query; one
\* already in flight stays in the other answer.
Covers(r) ==
  call[r].pc = "balance" =>
    /\ call[r].ledger # Null /\ call[r].open = Null =>
         booked \subseteq call[r].ledger \cup WithStatus(InFlight)
    /\ call[r].ledger = Null /\ call[r].open # Null =>
         WithStatus(InFlight) \subseteq call[r].open
    /\ call[r].ledger # Null /\ call[r].open # Null =>
         WithStatus(InFlight) \cup booked \subseteq call[r].ledger \cup call[r].open

Balances ==
  /\ \A r \in Requests : call[r].pc = "new" => call[r].ledger = Null /\ call[r].open = Null
  /\ ~ raced => \A r \in Requests : Covers(r)

\* getOpeningBalance, and the transfers the pending rows name.
Snapshot == IF genesis = Null THEN 0 ELSE genesis
Named == {txHash[i] : i \in WithStatus(Pending)} \ {Null}

\* What a run of the reconciliation has read so far is what it would still read.
Reading ==
  /\ recon.pc = "idle" => recon = ReconIdle
  /\ recon.pc = "reading" /\ ~ moved =>
       /\ recon.ledger # Null => recon.ledger = booked /\ recon.opening = Snapshot
       /\ recon.chain # Null => recon.chain = Wallet
       /\ recon.list = Null => recon.mined = {}
       /\ recon.list # Null =>
            /\ recon.list \subseteq Named
            /\ recon.mined = {t.of : t \in (Named \ recon.list) \cap paid}

Budget == faults \in 0..MaxFaults

BooksInv ==
  /\ HInv /\ Flow /\ Opened /\ TreasuryTypeOK
  /\ Balances /\ OverdraftIsARace
  /\ Reading /\ DiffIsExplained
  /\ Budget /\ ReceivedIsAttended

----------------------------------------------------------------------------
(* The sums. *)

\* What the totals of the books are sums of.
Excess == paid \ {txHash[i] : i \in booked \cup WithStatus(Pending)}

SumsOf ==
  /\ Wallet = Opening - Sum(Worth, paid) - escrow
  /\ Drawn = Sum(amount, WithStatus(InFlight) \cup booked)
  /\ Unexplained = escrow + Sum(Worth, Excess)
  /\ CountedTwice = Sum(amount, booked \cap WithStatus(Pending))

LEMMA TotalsAreSums == SumsOf
BY DEF SumsOf, Excess, Wallet, Drawn, Unexplained, CountedTwice, Total, Spent, Sum

LEMMA TotalsAreSumsNext == SumsOf'
BY TotalsAreSums, PTL

\* A set of settlements sums to a natural, however their amounts are split.
LEMMA AmountsSum ==
  ASSUME Finite, BooksInv, NEW S \in SUBSET Instructions
  PROVE  /\ IsFiniteSet(S)
         /\ \A i \in S : amount[i] \in Nat /\ amount[i] \in Int
         /\ \A T \in SUBSET S : Sum(amount, T) \in Nat /\ Sum(amount, T) <= Sum(amount, S)
         /\ \A T \in SUBSET S : Sum(amount, S) = Sum(amount, T) + Sum(amount, S \ T)
<1>1. IsFiniteSet(S) BY FS_Subset DEF Finite
<1>2. \A i \in S : amount[i] \in Nat /\ amount[i] \in Int
  BY DEF BooksInv, TreasuryTypeOK, BooksTypeOK
<1>3. \A T \in SUBSET S : Sum(amount, T) \in Nat /\ Sum(amount, T) <= Sum(amount, S)
  BY <1>1, <1>2, SumOfNaturals
<1>4. \A T \in SUBSET S : Sum(amount, S) = Sum(amount, T) + Sum(amount, S \ T)
  BY <1>1, <1>2, SumSplits
<1> QED BY <1>1, <1>2, <1>3, <1>4

\* So does a set of transfers.
LEMMA WorthsSum ==
  ASSUME Finite, BooksInv, NEW S \in SUBSET Transfers
  PROVE  /\ IsFiniteSet(S)
         /\ \A t \in S : Worth[t] \in Nat /\ Worth[t] \in Int
         /\ \A T \in SUBSET S : Sum(Worth, T) \in Nat /\ Sum(Worth, T) <= Sum(Worth, S)
         /\ \A T \in SUBSET S : Sum(Worth, S) = Sum(Worth, T) + Sum(Worth, S \ T)
<1>1. IsFiniteSet(S) BY FS_Subset DEF Finite
<1>2. \A t \in S : Worth[t] \in Nat /\ Worth[t] \in Int
  BY TransferType DEF BooksInv, TreasuryTypeOK, BooksTypeOK, Worth
<1>3. \A T \in SUBSET S : Sum(Worth, T) \in Nat /\ Sum(Worth, T) <= Sum(Worth, S)
  BY <1>1, <1>2, SumOfNaturals
<1>4. \A T \in SUBSET S : Sum(Worth, S) = Sum(Worth, T) + Sum(Worth, S \ T)
  BY <1>1, <1>2, SumSplits
<1> QED BY <1>1, <1>2, <1>3, <1>4

\* Only the insert writes an amount, and only where there was no row.
LEMMA AmountsStay ==
  ASSUME BooksInv, [TreasuryNext]_treasuryVars
  PROVE  \/ UNCHANGED amount
         \/ \E r \in Requests :
              /\ Insert(r)
              /\ status[Instruction(r)] = "NONE"
              /\ amount' = [amount EXCEPT ![Instruction(r)] = Body[r].amount]
<1>1. CASE UNCHANGED treasuryVars
  BY <1>1 DEF treasuryVars, booksVars, rows
<1>2. CASE MoneyStep
  BY <1>2 DEF MoneyStep, BooksNext, Boot, SnapshotRead, SnapshotWrite, Submit, SubmitUnheard,
         Resend, GiveUp, Mine, Unmine, Confirm,
              BookFinal, WriteFinal, FundDeal, RefundDeal, rows
<1>3. CASE IntakeStep
  BY <1>3 DEF IntakeStep, IntakeNext, Step, Lookup, ReadLedger, ReadInFlight, Refuse, Insert, InsertRaced,
              Screen, Enqueue, CallThrows, booksVars, rows
<1>4. CASE ReconStep
  BY <1>4 DEF ReconStep, ReconNext, ReconStart, ReconLedger, ReconChain, ReconRows, ReconReceipt,
              ReconCompare, ReconEnd, booksVars, rows
<1>5. CASE TreasuryExit
  BY <1>5 DEF TreasuryExit, Exit, rows
<1> QED BY <1>1, <1>2, <1>3, <1>4, <1>5 DEF TreasuryNext

LEMMA SumsStay ==
  ASSUME Finite, BooksInv, [TreasuryNext]_treasuryVars,
         NEW S \in SUBSET Instructions, \A i \in S : status[i] # "NONE"
  PROVE  Sum(amount', S) = Sum(amount, S)
<1>1. \A i \in S : amount'[i] = amount[i]
  BY AmountsStay, InstructionType DEF BooksInv, TreasuryTypeOK, BooksTypeOK
<1>2. IsFiniteSet(S) BY FS_Subset DEF Finite
<1> QED BY <1>1, <1>2, SumSame

\* What a node accepted keeps its worth.
LEMMA WorthsStay ==
  ASSUME Finite, BooksInv, [TreasuryNext]_treasuryVars, NEW S \in SUBSET sent
  PROVE  Sum(Worth', S) = Sum(Worth, S)
<1>1. S \in SUBSET Transfers /\ \A t \in S : status[t.of] # "NONE"
  BY DEF BooksInv, TreasuryTypeOK, BooksTypeOK, Flow
<1>2. \A t \in S : amount'[t.of] = amount[t.of]
  BY <1>1, AmountsStay, TransferType, InstructionType DEF BooksInv, TreasuryTypeOK, BooksTypeOK
<1>3. \A t \in S : Worth'[t] = Worth[t]
  BY <1>1, <1>2 DEF Worth
<1>4. IsFiniteSet(S) BY <1>1, FS_Subset DEF Finite
<1> QED BY <1>3, <1>4, SumSame

\* What was booked or is in flight has a row, and what was sent is a transfer.
LEMMA RowsOfMoney ==
  ASSUME BooksInv
  PROVE  /\ paid \subseteq sent /\ sent \subseteq Transfers /\ booked \subseteq Instructions
         /\ \A i \in booked : status[i] # "NONE"
         /\ WithStatus(InFlight) \subseteq Instructions /\ WithStatus(Pending) \subseteq Instructions
         /\ \A i \in WithStatus(InFlight) \cup WithStatus(Pending) : status[i] # "NONE"
BY DEF BooksInv, TreasuryTypeOK, BooksTypeOK, Flow, WithStatus, InFlight, Pending

\* The wallet moves only with what is paid and what is in escrow.
LEMMA WalletStays ==
  ASSUME Finite, BooksInv, [TreasuryNext]_treasuryVars, UNCHANGED <<paid, escrow>>
  PROVE  Wallet' = Wallet
<1>1. Sum(Worth', paid) = Sum(Worth, paid) BY WorthsStay, RowsOfMoney
<1> QED BY <1>1, TotalsAreSums, TotalsAreSumsNext DEF SumsOf

----------------------------------------------------------------------------
(* The types. *)

\* The wallet is never overdrawn: USDC moves only what is there.
LEMMA WalletCovers ==
  ASSUME Finite, BooksInv, [TreasuryNext]_treasuryVars
  PROVE  Wallet' \in Nat
<1>1. Wallet \in Nat /\ escrow \in Nat BY DEF BooksInv, TreasuryTypeOK, BooksTypeOK
<1>2. Opening \in Nat /\ Deal \in Nat BY BooksAssumption
<1>3. Wallet = Opening - Sum(Worth, paid) - escrow BY TotalsAreSums DEF SumsOf
<1>4. Wallet' = Opening - Sum(Worth', paid') - escrow' BY TotalsAreSumsNext DEF SumsOf
<1>5. Sum(Worth, paid) \in Nat BY WorthsSum, RowsOfMoney
<1>6. CASE UNCHANGED <<paid, escrow>>
  BY <1>1, <1>6, WalletStays
<1>7. ASSUME NEW t \in Transfers, Mine(t) PROVE Wallet' \in Nat
  <2>1. /\ t \in sent /\ Worth[t] <= Wallet /\ paid' = paid \cup {t} /\ escrow' = escrow
        /\ t \notin paid
    BY <1>7 DEF Mine
  <2>2. paid \cup {t} \in SUBSET sent /\ paid \cup {t} \in SUBSET Transfers /\ paid \in SUBSET Transfers
    BY <2>1, RowsOfMoney
  <2>3. Sum(Worth', paid \cup {t}) = Sum(Worth, paid \cup {t}) BY <2>2, WorthsStay
  <2>4. IsFiniteSet(paid) /\ Worth[t] \in Nat /\ \A u \in paid \cup {t} : Worth[u] \in Int
    BY <2>2, WorthsSum
  <2>5. Sum(Worth, paid \cup {t}) = Worth[t] + Sum(Worth, paid) BY <2>1, <2>4, SumAddsOne
  <2>7. Wallet' = Opening - (Worth[t] + Sum(Worth, paid)) - escrow
    BY <1>4, <2>1, <2>3, <2>5
  <2> QED BY <1>1, <1>2, <1>3, <1>5, <2>1, <2>4, <2>7
<1>8. ASSUME NEW t \in Transfers, Unmine(t) PROVE Wallet' \in Nat
  <2>1. paid' = paid \ {t} /\ escrow' = escrow BY <1>8 DEF Unmine
  <2>2. paid \ {t} \in SUBSET paid /\ paid \ {t} \in SUBSET sent /\ paid \in SUBSET Transfers
    BY RowsOfMoney
  <2>3. Sum(Worth', paid \ {t}) = Sum(Worth, paid \ {t}) BY <2>2, WorthsStay
  <2>4. Sum(Worth, paid \ {t}) \in Nat /\ Sum(Worth, paid \ {t}) <= Sum(Worth, paid)
    BY <2>2, WorthsSum
  <2>5. Wallet' = Opening - Sum(Worth, paid \ {t}) - escrow BY <1>4, <2>1, <2>3
  <2> QED BY <1>1, <1>2, <1>3, <1>5, <2>4, <2>5
<1>9. CASE FundDeal \/ RefundDeal
  <2>1. paid' = paid BY <1>9 DEF FundDeal, RefundDeal
  <2>2. Sum(Worth', paid') = Sum(Worth, paid) BY <2>1, WorthsStay, RowsOfMoney
  <2>3. CASE FundDeal
    <3>1. Deal <= Wallet /\ escrow = 0 /\ escrow' = Deal BY <2>3 DEF FundDeal
    <3> QED BY <1>1, <1>2, <1>3, <1>4, <1>5, <2>2, <3>1
  <2>4. CASE RefundDeal
    <3>1. escrow' = 0 BY <2>4 DEF RefundDeal
    <3> QED BY <1>1, <1>2, <1>3, <1>4, <1>5, <2>2, <3>1
  <2> QED BY <1>9, <2>3, <2>4
<1>10. \/ UNCHANGED <<paid, escrow>>
       \/ \E t \in Transfers : Mine(t) \/ Unmine(t)
       \/ FundDeal \/ RefundDeal
  <2>1. CASE UNCHANGED treasuryVars
    BY <2>1 DEF treasuryVars, booksVars, money
  <2>2. CASE MoneyStep
    BY <2>2 DEF MoneyStep, BooksNext, Boot, SnapshotRead, SnapshotWrite, Submit, SubmitUnheard,
           Resend, GiveUp, Confirm, BookFinal,
                WriteFinal, money
  <2>3. CASE IntakeStep
    BY <2>3 DEF IntakeStep, IntakeNext, Step, Lookup, ReadLedger, ReadInFlight, Refuse, Insert, InsertRaced,
                Screen, Enqueue, CallThrows, booksVars, money
  <2>4. CASE ReconStep
    BY <2>4 DEF ReconStep, ReconNext, ReconStart, ReconLedger, ReconChain, ReconRows, ReconReceipt,
                ReconCompare, ReconEnd, booksVars, money
  <2>5. CASE TreasuryExit
    BY <2>5 DEF TreasuryExit, Exit, money
  <2> QED BY <2>1, <2>2, <2>3, <2>4, <2>5 DEF TreasuryNext
<1> QED BY <1>6, <1>7, <1>8, <1>9, <1>10

\* What a step writes is of the type of what it writes to.
LEMMA BooksTypes ==
  ASSUME Finite, BooksInv, [TreasuryNext]_treasuryVars
  PROVE  BooksTypeOK'
<1>1. status' \in [Instructions -> Statuses]
  BY StepKeeps DEF BooksInv, HInv, Shapes
<1>2. amount' \in [Instructions -> Nat]
  <2>1. \A r \in Requests : Body[r].amount \in Nat BY IntakeAssumption
  <2> QED BY <2>1, AmountsStay, InstructionType DEF BooksInv, TreasuryTypeOK, BooksTypeOK
<1>3. Wallet' \in Nat BY WalletCovers
<1>. DEFINE Rest ==
       /\ txHash \in [Instructions -> Transfers \cup {Null}]
       /\ \A S \in {booked, queue} : S \subseteq Instructions
       /\ paid \subseteq sent /\ sent \subseteq Transfers
       /\ {genesis, seen} \subseteq Nat \cup {Null}
       /\ {escrow, faults} \subseteq Nat
       /\ process \in {"down", "booting", "up"}
       /\ process = "up" => genesis # Null
<1>4. Rest'
  <2>1. Rest /\ Wallet \in Nat BY DEF BooksInv, TreasuryTypeOK, BooksTypeOK
  <2>2. {Opening, Deal} \subseteq Nat /\ Null \notin Nat BY BooksAssumption
  <2>3. CASE UNCHANGED treasuryVars
    BY <2>1, <2>3 DEF treasuryVars, booksVars, rows, money
  <2>4. CASE MoneyStep
    <3>1. CASE Boot \/ SnapshotRead BY <2>1, <3>1 DEF Boot, SnapshotRead, rows, money
    <3>2. CASE SnapshotWrite BY <2>1, <2>2, <3>2 DEF SnapshotWrite, rows, BooksInv, Opened
    <3>3. ASSUME NEW i \in Instructions, GiveUp(i) \/ Confirm(i) \/ BookFinal(i) \/ WriteFinal(i)
          PROVE Rest'
      BY <2>1, <3>3 DEF GiveUp, Confirm, BookFinal, WriteFinal, rows, money
    <3>4. ASSUME NEW t \in Transfers, Submit(t) \/ SubmitUnheard(t) \/ Resend(t) \/ Mine(t) \/ Unmine(t)
          PROVE Rest'
      <4>1. t.of \in Instructions BY TransferType
      <4>2. CASE Submit(t) BY <2>1, <4>1, <4>2 DEF Submit, money
      <4>3. CASE SubmitUnheard(t) BY <2>1, <4>3 DEF SubmitUnheard, Fault, rows, money
      <4>4. CASE Resend(t) BY <2>1, <4>1, <4>4 DEF Resend, money
      <4>5. CASE Mine(t) BY <2>1, <4>5 DEF Mine, rows
      <4>6. CASE Unmine(t) BY <2>1, <4>6 DEF Unmine, Fault, rows
      <4> QED BY <3>4, <4>2, <4>3, <4>4, <4>5, <4>6
    <3>5. CASE FundDeal \/ RefundDeal BY <2>1, <2>2, <3>5 DEF FundDeal, RefundDeal, rows
    <3> QED BY <2>4, <3>1, <3>2, <3>3, <3>4, <3>5 DEF MoneyStep, BooksNext
  <2>5. ASSUME NEW r \in Requests, Enqueue(r) PROVE Rest'
    BY <2>1, <2>5, InstructionType DEF Enqueue, rows, money
  <2>6. ASSUME NEW r \in Requests, CallThrows(r) PROVE Rest'
    BY <2>1, <2>6 DEF CallThrows, Fault, rows, money
  <2>7. ASSUME NEW r \in Requests,
               Lookup(r) \/ ReadLedger(r) \/ ReadInFlight(r) \/ Refuse(r) \/ InsertRaced(r) \/ Insert(r) \/ Screen(r)
        PROVE Rest'
    BY <2>1, <2>7 DEF Lookup, ReadLedger, ReadInFlight, Refuse, InsertRaced, Insert, Screen,
           booksVars, rows,
                      money
  <2>8. CASE ReconStep
    BY <2>1, <2>8 DEF ReconStep, ReconNext, ReconStart, ReconLedger, ReconChain, ReconRows, ReconReceipt,
                      ReconCompare, ReconEnd, booksVars, rows, money
  <2>9. CASE TreasuryExit
    BY <2>1, <2>9 DEF TreasuryExit, Exit, Fault, rows, money
  <2>. HIDE DEF Rest
  <2> QED BY <2>3, <2>4, <2>5, <2>6, <2>7, <2>8, <2>9 DEF TreasuryNext, IntakeStep, IntakeNext, Step
<1> QED BY <1>1, <1>2, <1>3, <1>4 DEF BooksTypeOK

LEMMA IntakeTypes ==
  ASSUME BooksInv, [TreasuryNext]_treasuryVars
  PROVE  IntakeTypeOK'
<1>. DEFINE Calls == [pc : {"new", "balance", "screen", "enqueue", "done"}, ledger : (SUBSET Instructions) \cup {Null},
                      open : (SUBSET Instructions) \cup {Null}]
<1>1. call \in [Requests -> Calls] /\ raced \in BOOLEAN /\ booked \in SUBSET Instructions
  BY DEF BooksInv, TreasuryTypeOK, IntakeTypeOK, BooksTypeOK
<1>2. handed' \in [Instructions -> Nat]
  BY StepKeeps DEF BooksInv, HInv, Shapes
<1>3. Done \in Calls /\ [NewCall EXCEPT !.pc = "screen"] \in Calls
  BY DEF Done, NewCall
<1>4. WithStatus(InFlight) \in SUBSET Instructions BY DEF WithStatus
<1>5. call' \in [Requests -> Calls]
  <2>1. CASE UNCHANGED call BY <1>1, <2>1
  <2>2. ASSUME NEW r \in Requests, NEW c \in Calls, call' = [call EXCEPT ![r] = c]
        PROVE call' \in [Requests -> Calls]
    <3>. HIDE DEF Calls
    <3> QED BY <1>1, <2>2
  <2>3. ASSUME NEW r \in Requests, Step(r) \/ CallThrows(r)
        PROVE \E c \in Calls : call' = [call EXCEPT ![r] = c]
    <3>1. call[r] \in Calls BY <1>1
    <3>2. CASE Refuse(r) \/ InsertRaced(r) \/ Enqueue(r) \/ CallThrows(r) \/ Insert(r)
      <4>. HIDE DEF Calls
      <4> QED BY <1>3, <3>2 DEF Refuse, InsertRaced, Enqueue, CallThrows, Insert
    <3>3. \A pc \in {"balance", "done", "enqueue"} : [call[r] EXCEPT !.pc = pc] \in Calls
      BY <3>1
    <3>4. CASE Lookup(r)
      <4>. DEFINE pc == IF status[Instruction(r)] = "NONE" THEN "balance" ELSE "done"
      <4>1. call' = [call EXCEPT ![r] = [call[r] EXCEPT !.pc = pc]] BY <3>4, Zenon DEF Lookup
      <4>2. pc \in {"balance", "done", "enqueue"} OBVIOUS
      <4>. HIDE DEF pc, Calls
      <4> QED BY <3>3, <4>1, <4>2
    <3>5. CASE Screen(r)
      <4>1. \/ call' = [call EXCEPT ![r] = Done]
            \/ call' = [call EXCEPT ![r] = [call[r] EXCEPT !.pc = "enqueue"]]
        BY <3>5 DEF Screen
      <4>. HIDE DEF Calls
      <4> QED BY <1>3, <3>3, <4>1
    <3>6. CASE ReadLedger(r)
      <4>1. [call[r] EXCEPT !.ledger = booked] \in Calls BY <1>1, <3>1
      <4>2. call' = [call EXCEPT ![r] = [call[r] EXCEPT !.ledger = booked]] BY <3>6 DEF ReadLedger
      <4>. HIDE DEF Calls
      <4> QED BY <4>1, <4>2
    <3>7. CASE ReadInFlight(r)
      <4>. DEFINE open == WithStatus(InFlight)
      <4>1. call' = [call EXCEPT ![r] = [call[r] EXCEPT !.open = open]] BY <3>7 DEF ReadInFlight
      <4>2. open \in SUBSET Instructions BY <1>4
      <4>. HIDE DEF open
      <4>3. [call[r] EXCEPT !.open = open] \in Calls BY <3>1, <4>2
      <4>. HIDE DEF Calls
      <4> QED BY <4>1, <4>3
    <3> QED BY <2>3, <3>2, <3>4, <3>5, <3>6, <3>7 DEF Step
  <2>4. CASE TreasuryExit
    <3>1. call' = [r \in Requests |-> IF call[r].pc = "new" THEN call[r] ELSE Done]
      BY <2>4 DEF TreasuryExit, IntakeExit
    <3>. HIDE DEF Calls
    <3> QED BY <1>1, <1>3, <3>1
  <2>5. MoneyStep \/ ReconStep \/ UNCHANGED treasuryVars => UNCHANGED call
    BY DEF MoneyStep, ReconStep, treasuryVars, intakeVars
  <2>. HIDE DEF Calls
  <2> QED BY <2>1, <2>2, <2>3, <2>4, <2>5 DEF TreasuryNext, IntakeStep, IntakeNext
<1>6. raced' \in BOOLEAN
  <2>1. CASE MoneyStep
    <3>1. raced' = (raced \/ \E i \in Instructions : status[i] # "FINAL" /\ status'[i] = "FINAL" /\ Overlooked(i))
      BY <2>1 DEF MoneyStep
    <3> QED BY <1>1, <3>1, Zenon
  <2>2. ASSUME NEW r \in Requests, Insert(r) PROVE raced' \in BOOLEAN
    <3>1. raced' = (raced \/ \E q \in Requests \ {r} : call[q].pc = "balance" /\ call[q].open # Null)
      BY <2>2 DEF Insert
    <3> QED BY <1>1, <3>1, Zenon
  <2>3. UNCHANGED raced => raced' \in BOOLEAN BY <1>1
  <2>4. \/ MoneyStep \/ UNCHANGED raced
        \/ \E r \in Requests : Insert(r)
    BY DEF TreasuryNext, treasuryVars, intakeVars, IntakeStep, IntakeNext, Step, Lookup,
           ReadLedger, ReadInFlight,
           Refuse, InsertRaced, Screen, Enqueue, CallThrows, ReconStep, TreasuryExit
  <2> QED BY <2>1, <2>2, <2>3, <2>4
<1> QED BY <1>2, <1>5, <1>6 DEF IntakeTypeOK

\* The opening balance a run reads.
LEMMA SnapshotType == ASSUME BooksInv PROVE Snapshot = Opening - Unrecorded /\ Snapshot \in Nat
BY BooksAssumption DEF BooksInv, Opened, Snapshot, Unrecorded

LEMMA NamedType == ASSUME BooksInv PROVE Named \in SUBSET Transfers
BY DEF BooksInv, TreasuryTypeOK, BooksTypeOK, Named, WithStatus

LEMMA ReconTypes ==
  ASSUME Finite, BooksInv, [TreasuryNext]_treasuryVars
  PROVE  ReconTypeOK'
<1>. DEFINE Runs == [pc : {"idle", "reading", "compared"}, opening : Nat,
                     ledger : (SUBSET Instructions) \cup {Null}, chain : Nat \cup {Null},
                     list : (SUBSET Transfers) \cup {Null}, mined : SUBSET Instructions, diff : Int]
<1>1. /\ recon \in Runs /\ moved \in BOOLEAN
      /\ booked \in SUBSET Instructions /\ Wallet \in Nat
  BY DEF BooksInv, TreasuryTypeOK, ReconTypeOK, BooksTypeOK
<1>2. Opening \in Nat BY BooksAssumption
<1>3. ReconIdle \in Runs BY DEF ReconIdle
<1>4. moved' \in BOOLEAN
  <2>1. CASE TreasuryNext
    <3>1. moved' = (recon'.pc # "idle" /\ (moved \/ Readable' # Readable)) BY <2>1 DEF TreasuryNext, Moved
    <3> QED BY <1>1, <3>1, Zenon
  <2>2. CASE UNCHANGED treasuryVars BY <1>1, <2>2 DEF treasuryVars, reconVars
  <2> QED BY <2>1, <2>2
<1>5. CASE UNCHANGED recon
  BY <1>1, <1>4, <1>5 DEF ReconTypeOK
<1>6. recon' \in Runs => ReconTypeOK' BY <1>4 DEF ReconTypeOK
<1>7. CASE ReconStart
  <2>1. recon' = [recon EXCEPT !.pc = "reading"] BY <1>7 DEF ReconStart
  <2>2. recon' \in Runs BY <1>1, <2>1
  <2> QED BY <1>6, <2>2
<1>8. CASE ReconLedger
  <2>. DEFINE w == Snapshot
  <2>1. recon' = [recon EXCEPT !.ledger = booked, !.opening = w] BY <1>8 DEF ReconLedger, Snapshot
  <2>2. w \in Nat BY SnapshotType
  <2>. HIDE DEF w
  <2>3. recon' \in Runs BY <1>1, <2>1, <2>2
  <2> QED BY <1>6, <2>3
<1>9. CASE ReconChain
  <2>. DEFINE w == Wallet
  <2>1. recon' = [recon EXCEPT !.chain = w] BY <1>9 DEF ReconChain
  <2>2. w \in Nat BY <1>1
  <2>. HIDE DEF w
  <2>3. recon' \in Runs BY <1>1, <2>1, <2>2
  <2> QED BY <1>6, <2>3
<1>10. CASE ReconRows
  <2>. DEFINE w == Named
  <2>1. recon' = [recon EXCEPT !.list = w] BY <1>10 DEF ReconRows, Named
  <2>2. w \in SUBSET Transfers BY NamedType
  <2>. HIDE DEF w
  <2>3. recon' \in Runs BY <1>1, <2>1, <2>2
  <2> QED BY <1>6, <2>3
<1>11. ASSUME NEW t \in Transfers, ReconReceipt(t) PROVE ReconTypeOK'
  <2>. DEFINE list == recon.list \ {t}
              mined == IF t \in paid THEN recon.mined \cup {t.of} ELSE recon.mined
  <2>1. recon' = [recon EXCEPT !.list = list, !.mined = mined] BY <1>11 DEF ReconReceipt
  <2>2. recon.list \in SUBSET Transfers /\ recon.mined \in SUBSET Instructions /\ t.of \in Instructions
    BY <1>1, <1>11, TransferType DEF ReconReceipt
  <2>3. list \in SUBSET Transfers /\ mined \in SUBSET Instructions BY <2>2
  <2>. HIDE DEF list, mined
  <2>4. recon' \in Runs BY <1>1, <2>1, <2>3
  <2> QED BY <1>6, <2>4
<1>12. CASE ReconCompare
  <2>. DEFINE diff == recon.opening - Total(recon.ledger) - Total(recon.mined) - recon.chain
  <2>1. recon' = [ReconIdle EXCEPT !.pc = "compared", !.diff = diff] BY <1>12 DEF ReconCompare
  <2>2. /\ recon.ledger \in SUBSET Instructions /\ recon.chain \in Nat /\ recon.mined \in SUBSET Instructions
        /\ recon.opening \in Nat
    BY <1>1, <1>12 DEF ReconCompare
  <2>3. Total(recon.ledger) = Sum(amount, recon.ledger) /\ Total(recon.mined) = Sum(amount, recon.mined)
    BY DEF Total, Sum
  <2>4. Sum(amount, recon.ledger) \in Nat /\ Sum(amount, recon.mined) \in Nat
    BY <2>2, AmountsSum
  <2>5. diff \in Int BY <2>2, <2>3, <2>4
  <2>. HIDE DEF diff
  <2>6. recon' \in Runs BY <1>3, <2>1, <2>5 DEF ReconIdle
  <2> QED BY <1>6, <2>6
<1>13. CASE ReconEnd \/ TreasuryExit
  <2>1. recon' = ReconIdle BY <1>13 DEF ReconEnd, TreasuryExit, ReconExit
  <2> QED BY <1>3, <1>6, <2>1
<1>14. \/ UNCHANGED recon \/ ReconStep \/ TreasuryExit
  BY DEF TreasuryNext, treasuryVars, reconVars, MoneyStep, IntakeStep
<1> QED BY <1>5, <1>7, <1>8, <1>9, <1>10, <1>11, <1>12, <1>13, <1>14 DEF ReconStep, ReconNext

LEMMA TypesStep ==
  ASSUME Finite, BooksInv, [TreasuryNext]_treasuryVars
  PROVE  TreasuryTypeOK'
BY BooksTypes, IntakeTypes, ReconTypes DEF TreasuryTypeOK

----------------------------------------------------------------------------
(* How far a settlement gets. *)

LEMMA FlowStep ==
  ASSUME BooksInv, [TreasuryNext]_treasuryVars
  PROVE  Flow'
<1>. USE InstructionType DEF Statuses
<1>1. Flow /\ HInv BY DEF BooksInv
<1>2. /\ status \in [Instructions -> Statuses] /\ handed \in [Instructions -> {0, 1}] /\ DOMAIN call = Requests
      /\ queue \subseteq Instructions /\ paid \subseteq sent /\ sent \subseteq Transfers
      /\ booked \subseteq Instructions /\ txHash \in [Instructions -> Transfers \cup {Null}]
  BY <1>1 DEF HInv, Shapes, BooksInv, TreasuryTypeOK, BooksTypeOK
<1>3. \A r \in Requests : Instruction(r)' = Instruction(r) BY DEF Instruction
\* A request between its insert and the hand-over owns its settlement.
<1>4. \A r \in Requests : Owns(r) => Instruction(r) \notin queue /\ \A t \in sent : t.of # Instruction(r)
  <2> SUFFICES ASSUME NEW r \in Requests, Owns(r)
               PROVE  Instruction(r) \notin queue /\ \A t \in sent : t.of # Instruction(r)
    OBVIOUS
  <2>1. handed[Instruction(r)] = 0 BY <1>1 DEF HInv, OneOwner
  <2> QED BY <1>1, <2>1 DEF Flow
<1>5. CASE UNCHANGED <<status, handed, booked, paid, sent, txHash, call>> /\ queue' \subseteq queue
  BY <1>1, <1>3, <1>5 DEF Flow
<1>6. ASSUME NEW t \in Transfers, Submit(t), UNCHANGED <<call, handed>> PROVE Flow'
  <2>. DEFINE i == t.of
  <2>1. /\ i \in queue /\ queue' = queue \ {i} /\ sent' = sent \cup {t}
        /\ txHash' = [txHash EXCEPT ![i] = t]
        /\ status' = [status EXCEPT ![i] = "SUBMITTED"] /\ UNCHANGED <<booked, paid>>
    BY <1>6 DEF Submit, Move, money
  <2>2. \A r \in Requests : Owns(r) => Instruction(r) # i BY <1>4, <2>1
  <2>3. i \in Instructions /\ t # Null BY TransferType
  <2>4. i \notin booked /\ handed[i] = 1 BY <1>1, <2>1 DEF Flow
  <2>5. \A j \in Instructions : j # i => status'[j] = status[j] /\ txHash'[j] = txHash[j]
    BY <1>2, <2>1
  <2>6. status'[i] = "SUBMITTED" /\ txHash'[i] = t /\ t.of = i BY <1>2, <2>1, <2>3
  <2>7. \A u \in sent' : /\ status'[u.of] \in {"COMPLIANCE_APPROVED", "SUBMITTED", "CONFIRMED", "FINAL", "FAILED"}
                          /\ handed'[u.of] = 1
    BY <1>1, <1>2, <1>6, <2>1, <2>4, <2>5, <2>6, TransferType DEF Flow
  <2>. HIDE DEF i
  <2>8. \A r \in Requests : /\ call'[r].pc = "screen" => status'[Instruction(r)] = "RECEIVED"
                            /\ call'[r].pc = "enqueue" => status'[Instruction(r)] = "COMPLIANCE_APPROVED"
    BY <1>1, <1>6, <2>2, <2>5 DEF Flow, Owns
  <2>9. \A j \in queue' : status'[j] = "COMPLIANCE_APPROVED" /\ handed'[j] = 1
    BY <1>1, <1>2, <1>6, <2>1, <2>5 DEF Flow
  <2>10. \A j \in Instructions :
           /\ txHash'[j] # Null => txHash'[j] \in sent' /\ txHash'[j].of = j
           /\ txHash'[j] # Null => status'[j] \in {"SUBMITTED", "CONFIRMED", "FINAL", "FAILED"}
           /\ status'[j] \in {"SUBMITTED", "CONFIRMED", "FINAL"} => txHash'[j] # Null
    BY <1>1, <2>1, <2>3, <2>5, <2>6 DEF Flow
  <2>11. \A j \in booked' : status'[j] \in {"SUBMITTED", "CONFIRMED", "FINAL"} /\ txHash'[j] \in paid'
    BY <1>1, <1>2, <2>1, <2>4, <2>5 DEF Flow
  <2> QED BY <1>3, <2>7, <2>8, <2>9, <2>10, <2>11 DEF Flow
<1>7. ASSUME NEW t \in Transfers, SubmitUnheard(t), UNCHANGED <<call, handed>> PROVE Flow'
  <2>1. t.of \in queue /\ sent' = sent \cup {t} /\ UNCHANGED <<status, txHash, booked, paid, queue>>
    BY <1>7 DEF SubmitUnheard, rows, money
  <2> QED BY <1>1, <1>3, <1>7, <2>1 DEF Flow
<1>8. ASSUME NEW t \in Transfers, Resend(t), UNCHANGED <<call, handed>> PROVE Flow'
  <2>. DEFINE i == t.of
  <2>1. /\ status[i] = "SUBMITTED" /\ txHash[i] \notin paid /\ sent' = sent \cup {t}
        /\ txHash' = [txHash EXCEPT ![i] = t] /\ UNCHANGED <<status, booked, paid, queue>>
    BY <1>8 DEF Resend, Mined, money
  <2>2. i \in Instructions /\ t # Null BY TransferType
  <2>3. i \notin booked BY <1>1, <2>1 DEF Flow
  <2>4. txHash[i] \in sent /\ txHash[i].of = i BY <1>1, <2>1, <2>2 DEF Flow
  <2>5. handed[i] = 1 BY <1>1, <2>4 DEF Flow
  <2>6. txHash'[i] = t /\ t.of = i BY <1>2, <2>1, <2>2
  <2>7. \A j \in Instructions : j # i => txHash'[j] = txHash[j] BY <1>2, <2>1
  <2>8. \A u \in sent' : /\ status'[u.of] \in {"COMPLIANCE_APPROVED", "SUBMITTED", "CONFIRMED", "FINAL", "FAILED"}
                          /\ handed'[u.of] = 1
    BY <1>1, <1>8, <2>1, <2>5 DEF Flow
  <2>. HIDE DEF i
  <2>9. \A j \in Instructions :
           /\ txHash'[j] # Null => txHash'[j] \in sent' /\ txHash'[j].of = j
           /\ txHash'[j] # Null => status'[j] \in {"SUBMITTED", "CONFIRMED", "FINAL", "FAILED"}
           /\ status'[j] \in {"SUBMITTED", "CONFIRMED", "FINAL"} => txHash'[j] # Null
    BY <1>1, <2>1, <2>2, <2>6, <2>7 DEF Flow
  <2>10. \A j \in booked' : status'[j] \in {"SUBMITTED", "CONFIRMED", "FINAL"} /\ txHash'[j] \in paid'
    BY <1>1, <1>2, <2>1, <2>3, <2>7 DEF Flow
  <2> QED BY <1>1, <1>3, <1>8, <2>1, <2>8, <2>9, <2>10 DEF Flow
<1>9. ASSUME NEW i \in Instructions, GiveUp(i), UNCHANGED <<call, handed>> PROVE Flow'
  <2>1. /\ \/ i \in queue
           \/ status[i] = "SUBMITTED" /\ txHash[i] \notin paid
        /\ queue' = queue \ {i}
        /\ status' = [status EXCEPT ![i] = "FAILED"] /\ UNCHANGED <<txHash, booked, paid, sent>>
    BY <1>9 DEF GiveUp, Mined, Move, money
  <2>2. \A r \in Requests : Owns(r) => Instruction(r) # i BY <1>1, <1>4, <2>1 DEF Flow, Owns
  <2>3. i \notin booked BY <1>1, <2>1 DEF Flow
  <2> QED BY <1>1, <1>2, <1>3, <1>9, <2>1, <2>2, <2>3, TransferType DEF Flow, Owns
<1>10. ASSUME NEW i \in Instructions, Confirm(i) \/ WriteFinal(i), UNCHANGED <<call, handed>> PROVE Flow'
  <2>1. /\ status[i] \in {"SUBMITTED", "CONFIRMED"}
        /\ \E to \in {"SUBMITTED", "CONFIRMED", "FINAL"} : status' = [status EXCEPT ![i] = to]
        /\ UNCHANGED <<txHash, booked, paid, sent, queue>>
    BY <1>10 DEF Confirm, WriteFinal, Move, money, Pending
  <2>2. \A r \in Requests : Owns(r) => Instruction(r) # i BY <1>1, <2>1 DEF Flow, Owns
  <2>3. i \notin queue BY <1>1, <2>1 DEF Flow
  <2> QED BY <1>1, <1>2, <1>3, <1>10, <2>1, <2>2, <2>3, TransferType DEF Flow, Owns
<1>11. ASSUME NEW t \in Transfers, Mine(t) \/ Unmine(t), UNCHANGED <<call, handed>> PROVE Flow'
  <2>1. /\ \A i \in booked : txHash[i] \in paid => txHash[i] \in paid'
        /\ UNCHANGED <<status, txHash, booked, sent, queue>>
    <3>1. CASE Mine(t) BY <3>1 DEF Mine, rows
    <3>2. CASE Unmine(t)
      <4>1. /\ paid' = paid \ {t} /\ UNCHANGED <<status, txHash, booked, sent, queue>>
            /\ ~ (t.of \in booked /\ t = txHash[t.of])
        BY <3>2 DEF Unmine, rows
      <4>2. \A i \in booked : txHash[i] # t
        BY <1>1, <1>2, <4>1, TransferType DEF Flow
      <4> QED BY <4>1, <4>2
    <3> QED BY <1>11, <3>1, <3>2
  <2> QED BY <1>1, <1>3, <1>11, <2>1 DEF Flow
<1>12. ASSUME NEW i \in Instructions, BookFinal(i), UNCHANGED <<call, handed>> PROVE Flow'
  <2>1. /\ status[i] \in {"SUBMITTED", "CONFIRMED"} /\ txHash[i] \in paid /\ booked' = booked \cup {i}
        /\ UNCHANGED <<status, txHash, paid, sent, queue>>
    BY <1>12 DEF BookFinal, Mined, Pending, rows
  <2> QED BY <1>1, <1>3, <1>12, <2>1 DEF Flow
<1>13. ASSUME NEW r \in Requests, Insert(r) PROVE Flow'
  <2>. DEFINE i == Instruction(r)
  <2>1. /\ status[i] = "NONE" /\ status' = [status EXCEPT ![i] = "RECEIVED"]
        /\ call' = [call EXCEPT ![r] = [NewCall EXCEPT !.pc = "screen"]]
        /\ UNCHANGED <<txHash, booked, paid, sent, queue, handed>>
    BY <1>13 DEF Insert, money
  <2>2. i \notin queue /\ \A t \in sent : t.of # i BY <1>1, <2>1 DEF Flow
  <2>3. \A q \in Requests \ {r} : call'[q] = call[q] BY <1>2, <2>1
  <2>4. call'[r].pc = "screen" BY <1>2, <2>1 DEF NewCall
  <2>5. \A q \in Requests \ {r} : Owns(q) => Instruction(q) # i
    BY <1>1, <2>1 DEF HInv, OneOwner
  <2>6. i \in Instructions OBVIOUS
  <2>7. \A q \in Requests : Instruction(q) \in Instructions OBVIOUS
  <2>8. \A q \in Requests : /\ call'[q].pc = "screen" => status'[Instruction(q)] = "RECEIVED"
                            /\ call'[q].pc = "enqueue" => status'[Instruction(q)] = "COMPLIANCE_APPROVED"
    <3> SUFFICES ASSUME NEW q \in Requests
                 PROVE  /\ call'[q].pc = "screen" => status'[Instruction(q)] = "RECEIVED"
                        /\ call'[q].pc = "enqueue" => status'[Instruction(q)] = "COMPLIANCE_APPROVED"
      OBVIOUS
    <3>. HIDE DEF i
    <3>1. CASE q = r BY <1>2, <2>1, <2>4, <2>6, <3>1 DEF i
    <3>2. CASE q # r BY <1>1, <1>2, <2>1, <2>3, <2>5, <2>7, <3>2 DEF Flow, Owns
    <3> QED BY <3>1, <3>2
  <2>9. status[i] \notin {"SUBMITTED", "CONFIRMED", "FINAL", "FAILED"} /\ i \notin booked /\ txHash[i] = Null
    BY <1>1, <2>1, <2>6 DEF Flow, Owns
  <2>. HIDE DEF i
  <2> QED BY <1>1, <1>2, <1>3, <2>1, <2>2, <2>6, <2>8, <2>9, TransferType DEF Flow
<1>14. ASSUME NEW r \in Requests, Screen(r) PROVE Flow'
  <2>. DEFINE i == Instruction(r)
  <2>1. /\ Owns(r) /\ UNCHANGED <<txHash, booked, paid, sent, queue, handed>>
        /\ \/ status' = [status EXCEPT ![i] = "REJECTED_COMPLIANCE"] /\ call' = [call EXCEPT ![r] = Done]
           \/ status' = [status EXCEPT ![i] = "COMPLIANCE_APPROVED"] /\ call' = [call EXCEPT ![r].pc = "enqueue"]
    BY <1>14 DEF Screen, Owns, Move, money
  <2>2. i \notin queue /\ \A t \in sent : t.of # i BY <1>4, <2>1
  <2>3. \A q \in Requests \ {r} : call'[q] = call[q] BY <1>2, <2>1
  <2>4. \/ call'[r].pc = "done"
        \/ call'[r].pc = "enqueue" /\ status' = [status EXCEPT ![i] = "COMPLIANCE_APPROVED"]
    <3>1. \A c : [call EXCEPT ![r] = c][r] = c BY <1>2
    <3>2. call[r] = [pc |-> call[r].pc, ledger |-> call[r].ledger, open |-> call[r].open]
      BY <1>1 DEF HInv, Shapes
    <3> QED BY <1>2, <2>1, <3>1, <3>2 DEF Done, NewCall
  <2>5. \A q \in Requests \ {r} : Owns(q) => Instruction(q) # i
    BY <1>1, <2>1 DEF HInv, OneOwner
  <2>6. i \in Instructions OBVIOUS
  <2>7. \A q \in Requests : Instruction(q) \in Instructions OBVIOUS
  <2>8. \A q \in Requests : /\ call'[q].pc = "screen" => status'[Instruction(q)] = "RECEIVED"
                            /\ call'[q].pc = "enqueue" => status'[Instruction(q)] = "COMPLIANCE_APPROVED"
    <3> SUFFICES ASSUME NEW q \in Requests
                 PROVE  /\ call'[q].pc = "screen" => status'[Instruction(q)] = "RECEIVED"
                        /\ call'[q].pc = "enqueue" => status'[Instruction(q)] = "COMPLIANCE_APPROVED"
      OBVIOUS
    <3>. HIDE DEF i
    <3>1. CASE q = r BY <1>2, <2>4, <2>6, <3>1 DEF i
    <3>2. CASE q # r BY <1>1, <1>2, <2>1, <2>3, <2>5, <2>7, <3>2 DEF Flow, Owns
    <3> QED BY <3>1, <3>2
  <2>9. status[i] \notin {"SUBMITTED", "CONFIRMED", "FINAL", "FAILED"} /\ i \notin booked /\ txHash[i] = Null
    BY <1>1, <2>1, <2>6 DEF Flow, Owns
  <2>. HIDE DEF i
  <2> QED BY <1>1, <1>2, <1>3, <2>1, <2>2, <2>6, <2>8, <2>9, TransferType DEF Flow
<1>15. ASSUME NEW r \in Requests, Enqueue(r) PROVE Flow'
  <2>. DEFINE i == Instruction(r)
  <2>1. /\ Owns(r) /\ call[r].pc = "enqueue" /\ UNCHANGED <<status, txHash, booked, paid, sent>>
        /\ queue' = queue \cup {i} /\ handed' = [handed EXCEPT ![i] = @ + 1]
        /\ call' = [call EXCEPT ![r] = Done]
    BY <1>15 DEF Enqueue, Owns, money, rows
  <2>2. i \notin queue /\ \A t \in sent : t.of # i BY <1>4, <2>1
  <2>3. \A q \in Requests : call'[q].pc \in {"screen", "enqueue"} => call'[q] = call[q]
    BY <1>2, <2>1 DEF Done, NewCall
  <2>4. handed'[i] = 1 /\ \A j \in Instructions \ {i} : handed'[j] = handed[j]
    BY <1>1, <1>2, <2>1 DEF HInv, OneOwner
  <2>5. status[i] = "COMPLIANCE_APPROVED" BY <1>1, <2>1 DEF Flow
  <2>. HIDE DEF i
  <2> QED BY <1>1, <1>2, <1>3, <2>1, <2>2, <2>3, <2>4, <2>5 DEF Flow
<1>16. ASSUME NEW r \in Requests,
              Lookup(r) \/ ReadLedger(r) \/ ReadInFlight(r) \/ Refuse(r) \/ InsertRaced(r) \/ CallThrows(r)
       PROVE Flow'
  <2>1. UNCHANGED <<status, txHash, booked, paid, sent, queue, handed>>
    BY <1>16 DEF Lookup, ReadLedger, ReadInFlight, Refuse, InsertRaced, CallThrows, booksVars, money, rows
  <2>2. \A q \in Requests : call'[q].pc \in {"screen", "enqueue"} => call'[q].pc = call[q].pc
    <3>1. call[r] = [pc |-> call[r].pc, ledger |-> call[r].ledger, open |-> call[r].open]
      BY <1>1 DEF HInv, Shapes
    <3>2. CASE Lookup(r)
      <4>. DEFINE pc == IF status[Instruction(r)] = "NONE" THEN "balance" ELSE "done"
      <4>1. call' = [call EXCEPT ![r] = [call[r] EXCEPT !.pc = pc]] BY <3>2, Zenon DEF Lookup
      <4>2. pc \notin {"screen", "enqueue"} OBVIOUS
      <4>. HIDE DEF pc
      <4>3. [call[r] EXCEPT !.pc = pc].pc = pc BY <3>1
      <4> QED BY <1>2, <4>1, <4>2, <4>3
    <3>3. CASE ReadLedger(r) \/ ReadInFlight(r)
      <4>1. \E x : \/ call' = [call EXCEPT ![r] = [call[r] EXCEPT !.ledger = x]]
                   \/ call' = [call EXCEPT ![r] = [call[r] EXCEPT !.open = x]]
        BY <3>3 DEF ReadLedger, ReadInFlight
      <4> QED BY <1>2, <3>1, <4>1
    <3>4. CASE Refuse(r) \/ InsertRaced(r) \/ CallThrows(r)
      <4>1. call' = [call EXCEPT ![r] = Done] BY <3>4 DEF Refuse, InsertRaced, CallThrows
      <4> QED BY <1>2, <4>1 DEF Done, NewCall
    <3> QED BY <1>16, <3>2, <3>3, <3>4
  <2> QED BY <1>1, <1>3, <2>1, <2>2 DEF Flow
<1>17. CASE TreasuryExit
  <2>1. /\ UNCHANGED <<status, txHash, booked, paid, sent, handed>> /\ queue' = {}
        /\ call' = [r \in Requests |-> IF call[r].pc = "new" THEN call[r] ELSE Done]
    BY <1>17 DEF TreasuryExit, Exit, IntakeExit, rows, money
  <2>2. \A r \in Requests : call'[r].pc \notin {"screen", "enqueue"} BY <2>1 DEF Done, NewCall
  <2> QED BY <1>1, <2>1, <2>2 DEF Flow
<1>18. \/ UNCHANGED <<status, handed, booked, paid, sent, txHash, call>> /\ queue' = queue
       \/ TreasuryExit
       \/ \E r \in Requests : Step(r) \/ CallThrows(r)
       \/ /\ UNCHANGED <<call, handed>>
          /\ \/ \E t \in Transfers : Submit(t) \/ SubmitUnheard(t) \/ Resend(t) \/ Mine(t) \/ Unmine(t)
             \/ \E i \in Instructions : GiveUp(i) \/ Confirm(i) \/ BookFinal(i) \/ WriteFinal(i)
  <2>1. CASE UNCHANGED treasuryVars
    BY <2>1 DEF treasuryVars, booksVars, rows, money, intakeVars
  <2>2. CASE ReconStep
    BY <2>2 DEF ReconStep, intakeVars, ReconNext, ReconStart, ReconLedger, ReconChain, ReconRows,
           ReconReceipt,
                ReconCompare, ReconEnd, booksVars, rows, money
  <2>3. CASE MoneyStep
    BY <2>3 DEF MoneyStep, BooksNext, Boot, SnapshotRead, SnapshotWrite, FundDeal, RefundDeal, rows, money
  <2> QED BY <2>1, <2>2, <2>3 DEF TreasuryNext, IntakeStep, IntakeNext
<1> QED BY <1>5, <1>6, <1>7, <1>8, <1>9, <1>10, <1>11, <1>12, <1>13, <1>14, <1>15, <1>16, <1>17,
     <1>18 DEF Step

----------------------------------------------------------------------------
(* The requests and the processes. *)

\* What a step of a request leaves in its local variables.
LEMMA CallWrites ==
  ASSUME HInv, NEW r \in Requests, Step(r) \/ CallThrows(r)
  PROVE  /\ \A q \in Requests \ {r} : call'[q] = call[q]
         /\ call[r].pc \in {"new", "balance", "screen", "enqueue"}
         /\ call'[r].pc \in {"balance", "screen", "enqueue", "done"}
         /\ call'[r].pc = "balance" =>
              \/ Lookup(r) /\ call[r].pc = "new" /\ call'[r].ledger = call[r].ledger /\ call'[r].open = call[r].open
              \/ ReadLedger(r) /\ call[r].pc = "balance" /\ call'[r].ledger = booked /\ call'[r].open = call[r].open
              \/ ReadInFlight(r) /\ call[r].pc = "balance" /\ call'[r].ledger = call[r].ledger
                 /\ call'[r].open = WithStatus(InFlight)
         /\ Lookup(r) => process = "up"
<1>1. /\ DOMAIN call = Requests
      /\ call[r] = [pc |-> call[r].pc, ledger |-> call[r].ledger, open |-> call[r].open]
  BY DEF HInv, Shapes
<1>2. \A c : call' = [call EXCEPT ![r] = c] => call'[r] = c /\ \A q \in Requests \ {r} : call'[q] = call[q]
  <2> SUFFICES ASSUME NEW c, call' = [call EXCEPT ![r] = c]
               PROVE  call'[r] = c /\ \A q \in Requests \ {r} : call'[q] = call[q]
    OBVIOUS
  <2> QED BY <1>1
<1>3. CASE Lookup(r)
  <2>. DEFINE pc == IF status[Instruction(r)] = "NONE" THEN "balance" ELSE "done"
  <2>1. call' = [call EXCEPT ![r] = [call[r] EXCEPT !.pc = pc]] /\ call[r].pc = "new" /\ process = "up"
    BY <1>3, Zenon DEF Lookup
  <2>2. pc \in {"balance", "done"} OBVIOUS
  <2>. HIDE DEF pc
  <2>3. call'[r] = [call[r] EXCEPT !.pc = pc] /\ \A q \in Requests \ {r} : call'[q] = call[q]
    BY <1>2, <2>1
  <2>4. call'[r].pc = pc /\ call'[r].ledger = call[r].ledger /\ call'[r].open = call[r].open
    BY <1>1, <2>3
  <2> QED BY <1>3, <2>1, <2>2, <2>3, <2>4
<1>4. CASE ReadLedger(r)
  <2>1. call' = [call EXCEPT ![r] = [call[r] EXCEPT !.ledger = booked]] /\ call[r].pc = "balance"
    BY <1>4 DEF ReadLedger
  <2>2. call'[r] = [call[r] EXCEPT !.ledger = booked] /\ \A q \in Requests \ {r} : call'[q] = call[q]
    BY <1>2, <2>1
  <2>3. call'[r].pc = "balance" /\ call'[r].ledger = booked /\ call'[r].open = call[r].open
    BY <1>1, <2>1, <2>2
  <2>4. Lookup(r) => process = "up" BY DEF Lookup
  <2> QED BY <1>4, <2>1, <2>2, <2>3, <2>4
<1>5. CASE ReadInFlight(r)
  <2>. DEFINE open == WithStatus(InFlight)
  <2>1. call' = [call EXCEPT ![r] = [call[r] EXCEPT !.open = open]] /\ call[r].pc = "balance"
    BY <1>5 DEF ReadInFlight
  <2>. HIDE DEF open
  <2>2. call'[r] = [call[r] EXCEPT !.open = open] /\ \A q \in Requests \ {r} : call'[q] = call[q]
    BY <1>2, <2>1
  <2>3. call'[r].pc = "balance" /\ call'[r].ledger = call[r].ledger /\ call'[r].open = open
    BY <1>1, <2>1, <2>2
  <2>4. Lookup(r) => process = "up" BY DEF Lookup
  <2> QED BY <1>5, <2>1, <2>2, <2>3, <2>4 DEF open
<1>6. CASE Refuse(r) \/ InsertRaced(r) \/ Enqueue(r) \/ CallThrows(r)
  <2>1. call' = [call EXCEPT ![r] = Done] /\ call[r].pc \in {"balance", "screen", "enqueue"}
    BY <1>6 DEF Refuse, InsertRaced, Enqueue, CallThrows, Counted
  <2>2. call'[r].pc = "done" /\ \A q \in Requests \ {r} : call'[q] = call[q]
    BY <1>2, <2>1 DEF Done, NewCall
  <2>3. Lookup(r) => process = "up" BY DEF Lookup
  <2> QED BY <2>1, <2>2, <2>3
<1>7. CASE Insert(r)
  <2>1. call' = [call EXCEPT ![r] = [NewCall EXCEPT !.pc = "screen"]] /\ call[r].pc = "balance"
    BY <1>7 DEF Insert, Counted
  <2>2. call'[r].pc = "screen" /\ \A q \in Requests \ {r} : call'[q] = call[q]
    BY <1>2, <2>1 DEF NewCall
  <2>3. Lookup(r) => process = "up" BY DEF Lookup
  <2> QED BY <2>1, <2>2, <2>3
<1>8. CASE Screen(r)
  <2>1. /\ call[r].pc = "screen"
        /\ \/ call' = [call EXCEPT ![r] = Done]
           \/ call' = [call EXCEPT ![r] = [call[r] EXCEPT !.pc = "enqueue"]]
    BY <1>8 DEF Screen
  <2>2. call'[r].pc \in {"done", "enqueue"} /\ \A q \in Requests \ {r} : call'[q] = call[q]
    BY <1>1, <1>2, <2>1 DEF Done, NewCall
  <2>3. Lookup(r) => process = "up" BY DEF Lookup
  <2> QED BY <2>1, <2>2, <2>3
<1> QED BY <1>3, <1>4, <1>5, <1>6, <1>7, <1>8 DEF Step

\* The snapshot is written before anything else happens, and the memory of a
\* process ends with it.
LEMMA OpenedStep ==
  ASSUME Finite, BooksInv, [TreasuryNext]_treasuryVars
  PROVE  Opened'
<1>1. Opened /\ Flow /\ HInv BY DEF BooksInv
<1>2. Opening \in Nat /\ Null # Opening BY BooksAssumption
<1>. DEFINE Early ==
       /\ process # "booting" => seen = Null
       /\ seen # Null => genesis = Null /\ seen = Opening
       /\ genesis \in {Null, Opening}
       /\ genesis = Null => process # "up" /\ sent = {} /\ escrow = 0 /\ \A i \in Instructions : status[i] = "NONE"
     Alone ==
       /\ process = "down" => recon.pc = "idle"
       /\ process # "up" => \A r \in Requests : call[r].pc \in {"new", "done"}
<1>3. Early /\ Alone BY <1>1 DEF Opened
<1>4. Early' /\ Alone' => Opened' BY DEF Opened
<1>5. CASE UNCHANGED treasuryVars
  BY <1>1, <1>5 DEF Opened, treasuryVars, booksVars, rows, money, intakeVars, reconVars
<1>6. CASE MoneyStep
  <2>1. UNCHANGED <<call, recon>> BY <1>6 DEF MoneyStep
  <2>2. CASE SnapshotRead
    <3>1. process = "booting" /\ seen = Null /\ UNCHANGED <<genesis, sent, escrow, status>>
      BY <2>2 DEF SnapshotRead, rows, money
    <3>2. \/ genesis = Null /\ process' = process /\ seen' = Wallet
          \/ genesis # Null /\ process' = "up" /\ seen' = seen
      BY <2>2 DEF SnapshotRead
    <3>3. genesis = Null => Wallet = Opening
      <4> SUFFICES ASSUME genesis = Null PROVE Wallet = Opening OBVIOUS
      <4>1. sent = {} /\ escrow = 0 /\ paid = {} BY <1>1, RowsOfMoney DEF Opened
      <4>2. Sum(Worth, paid) = 0 BY <4>1, FS_EmptySet, SumNext
      <4>3. Wallet = Opening - Sum(Worth, paid) - escrow BY TotalsAreSums DEF SumsOf
      <4> QED BY <1>2, <4>1, <4>2, <4>3
    <3>4. Early' BY <1>3, <3>1, <3>2, <3>3
    <3>5. Alone' BY <1>3, <2>1, <3>1, <3>2
    <3>. HIDE DEF Early, Alone
    <3> QED BY <1>4, <3>4, <3>5
  <2>3. CASE Boot
    BY <1>3, <1>4, <2>1, <2>3 DEF Boot, rows, money
  <2>4. CASE SnapshotWrite
    BY <1>2, <1>3, <1>4, <2>1, <2>4 DEF SnapshotWrite, rows
  <2>5. ASSUME NEW i \in Instructions,
               GiveUp(i) \/ Confirm(i) \/ BookFinal(i) \/ WriteFinal(i) PROVE Opened'
    BY <1>3, <1>4, <2>1, <2>5 DEF GiveUp, Confirm, BookFinal, WriteFinal, rows, money
  <2>6. ASSUME NEW t \in Transfers, Submit(t) \/ SubmitUnheard(t) \/ Resend(t) PROVE Opened'
    BY <1>3, <1>4, <2>1, <2>6 DEF Submit, SubmitUnheard, Resend, rows, money
  <2>7. ASSUME NEW t \in Transfers, Mine(t) \/ Unmine(t) PROVE Opened'
    BY <1>3, <1>4, <2>1, <2>7 DEF Mine, Unmine, rows, money
  <2>8. CASE FundDeal \/ RefundDeal
    BY <1>3, <1>4, <2>1, <2>8 DEF FundDeal, RefundDeal, rows
  <2> QED BY <1>6, <2>2, <2>3, <2>4, <2>5, <2>6, <2>7, <2>8 DEF MoneyStep, BooksNext
<1>7. ASSUME NEW r \in Requests, Step(r) \/ CallThrows(r), UNCHANGED recon PROVE Opened'
  <2>1. call[r].pc \in {"new", "balance", "screen", "enqueue"} /\ (Lookup(r) => process = "up")
    BY <1>1, <1>7, CallWrites
  <2>2. call[r].pc = "new" => Lookup(r)
    BY <1>7 DEF Step, ReadLedger, ReadInFlight, Refuse, Insert, InsertRaced, Counted, Screen,
           Enqueue, CallThrows
  <2>3. process = "up" BY <1>3, <2>1, <2>2
  <2>4. UNCHANGED <<process, genesis, seen>>
    BY <1>7 DEF Step, Lookup, ReadLedger, ReadInFlight, Refuse, Insert, InsertRaced, Screen,
           Enqueue, CallThrows,
                booksVars, money
  <2> QED BY <1>3, <1>4, <2>3, <2>4
<1>8. CASE ReconStep
  <2>1. UNCHANGED <<process, genesis, seen, sent, escrow, status, call>>
    BY <1>8 DEF ReconStep, intakeVars, ReconNext, ReconStart, ReconLedger, ReconChain, ReconRows,
           ReconReceipt,
                ReconCompare, ReconEnd, booksVars, rows, money
  <2>2. process # "down"
    BY <1>3, <1>8 DEF ReconStep, ReconNext, ReconStart, ReconLedger, ReconChain, ReconRows, ReconReceipt,
                ReconCompare, ReconEnd
  <2> QED BY <1>3, <1>4, <2>1, <2>2
<1>9. CASE TreasuryExit
  <2>1. /\ process' = "down" /\ seen' = Null /\ UNCHANGED <<genesis, sent, escrow, status>>
        /\ call' = [r \in Requests |-> IF call[r].pc = "new" THEN call[r] ELSE Done] /\ recon' = ReconIdle
    BY <1>9 DEF TreasuryExit, Exit, IntakeExit, ReconExit, rows, money
  <2>2. Early' BY <1>3, <2>1
  <2>3. Alone' BY <2>1 DEF Done, NewCall, ReconIdle
  <2>. HIDE DEF Early, Alone
  <2> QED BY <1>4, <2>2, <2>3
<1> QED BY <1>5, <1>6, <1>7, <1>8, <1>9 DEF TreasuryNext, IntakeStep, IntakeNext

----------------------------------------------------------------------------
(* The balances. *)

\* A request whose answers still cover what is drawn, while others move: what is
\* in flight shrinks, what is booked was in flight, and what turns FINAL is in
\* the ledger already read.
LEMMA CoversKept ==
  ASSUME NEW q \in Requests, Covers(q), call'[q] = call[q],
         \/ WithStatus(InFlight)' \subseteq WithStatus(InFlight)
         \/ call[q].pc = "balance" => call[q].open = Null,
         booked' \subseteq booked \cup WithStatus(InFlight),
         call[q].pc = "balance" /\ call[q].ledger # Null /\ call[q].open = Null =>
           booked' \subseteq call[q].ledger \cup WithStatus(InFlight)'
  PROVE  Covers(q)'
<1>1. PICK IF1, IF2 : IF1 = WithStatus(InFlight) /\ IF2 = WithStatus(InFlight)' OBVIOUS
<1>2. /\ IF2 \subseteq IF1 \/ (call[q].pc = "balance" => call[q].open = Null)
      /\ booked' \subseteq booked \cup IF1
      /\ call[q].pc = "balance" /\ call[q].ledger # Null /\ call[q].open = Null =>
           booked' \subseteq call[q].ledger \cup IF2
  BY <1>1
<1>3. call[q].pc = "balance" =>
        /\ call[q].ledger # Null /\ call[q].open = Null => booked \subseteq call[q].ledger \cup IF1
        /\ call[q].ledger = Null /\ call[q].open # Null => IF1 \subseteq call[q].open
        /\ call[q].ledger # Null /\ call[q].open # Null => IF1 \cup booked \subseteq call[q].ledger \cup call[q].open
  BY <1>1 DEF Covers
<1>4. call[q].pc = "balance" =>
        /\ call[q].ledger # Null /\ call[q].open = Null => booked' \subseteq call[q].ledger \cup IF2
        /\ call[q].ledger = Null /\ call[q].open # Null => IF2 \subseteq call[q].open
        /\ call[q].ledger # Null /\ call[q].open # Null => IF2 \cup booked' \subseteq call[q].ledger \cup call[q].open
  BY <1>2, <1>3
<1> QED BY <1>1, <1>4 DEF Covers

\* What the relayer and the listener do to the settlements in flight.
LEMMA MoneyDraws ==
  ASSUME BooksInv, MoneyStep
  PROVE  /\ WithStatus(InFlight)' \subseteq WithStatus(InFlight)
         /\ booked' \subseteq booked \cup WithStatus(InFlight)
         /\ \A i \in booked' : \/ i \in WithStatus(InFlight)'
                               \/ i \in booked /\ status[i] = "FINAL"
                               \/ i \in booked /\ status[i] # "FINAL" /\ status'[i] = "FINAL"
<1>. DEFINE I(st) == {i \in Instructions : st[i] \in InFlight}
<1>1. WithStatus(InFlight) = I(status) /\ WithStatus(InFlight)' = I(status') BY DEF WithStatus
<1>2. /\ Flow /\ status \in [Instructions -> Statuses] /\ booked \subseteq Instructions
  BY DEF BooksInv, TreasuryTypeOK, BooksTypeOK
<1>. DEFINE Goal == /\ I(status') \subseteq I(status)
                    /\ booked' \subseteq booked \cup I(status)
                    /\ \A i \in booked' : \/ i \in I(status')
                                          \/ i \in booked /\ status[i] = "FINAL"
                                          \/ i \in booked /\ status[i] # "FINAL" /\ status'[i] = "FINAL"
<1>3. ASSUME NEW t \in Transfers, Submit(t) PROVE Goal
  BY <1>2, <1>3, TransferType DEF Submit, Flow, Move, InFlight, money
<1>4. ASSUME NEW i \in Instructions, GiveUp(i) PROVE Goal
  BY <1>2, <1>4 DEF GiveUp, Flow, Mined, Move, InFlight, money
<1>5. ASSUME NEW i \in Instructions, Confirm(i) PROVE Goal
  BY <1>2, <1>5 DEF Confirm, Flow, Move, InFlight, money
<1>6. ASSUME NEW i \in Instructions, BookFinal(i) PROVE Goal
  BY <1>2, <1>6 DEF BookFinal, Flow, Pending, InFlight, rows
<1>7. ASSUME NEW i \in Instructions, WriteFinal(i) PROVE Goal
  BY <1>2, <1>7 DEF WriteFinal, Flow, Pending, Move, InFlight, money
<1>8. ASSUME UNCHANGED <<status, booked>> PROVE Goal
  BY <1>2, <1>8 DEF Flow, InFlight
<1>9. \/ UNCHANGED <<status, booked>>
      \/ \E t \in Transfers : Submit(t)
      \/ \E i \in Instructions : GiveUp(i) \/ Confirm(i) \/ BookFinal(i) \/ WriteFinal(i)
  BY DEF MoneyStep, BooksNext, Boot, SnapshotRead, SnapshotWrite, SubmitUnheard, Resend, Mine,
         Unmine, FundDeal,
         RefundDeal, rows, money
<1>10. Goal
  <2>. HIDE DEF Goal
  <2> QED BY <1>3, <1>4, <1>5, <1>6, <1>7, <1>8, <1>9
<1>. HIDE DEF I
<1> QED BY <1>1, <1>10

LEMMA BalancesStep ==
  ASSUME Finite, BooksInv, [TreasuryNext]_treasuryVars
  PROVE  Balances'
<1>1. Balances /\ Flow /\ HInv BY DEF BooksInv
<1>2. status \in [Instructions -> Statuses] /\ raced \in BOOLEAN /\ booked \subseteq Instructions
  BY DEF BooksInv, TreasuryTypeOK, BooksTypeOK, IntakeTypeOK
<1>3. CASE UNCHANGED <<status, booked, call, raced>>
  <2>1. \A q \in Requests : Covers(q)' <=> Covers(q) BY <1>3 DEF Covers, WithStatus
  <2> QED BY <1>1, <1>3, <2>1 DEF Balances
<1>4. CASE MoneyStep
  <2>1. UNCHANGED call /\ raced' = (raced \/ \E i \in Instructions :
                                       status[i] # "FINAL" /\ status'[i] = "FINAL" /\ Overlooked(i))
    BY <1>4 DEF MoneyStep
  <2>2. ASSUME ~ raced', NEW q \in Requests PROVE Covers(q)'
    <3>1. Covers(q) /\ ~ raced BY <1>1, <2>1, <2>2 DEF Balances
    <3>2. call[q].pc = "balance" /\ call[q].ledger # Null /\ call[q].open = Null =>
            booked' \subseteq call[q].ledger \cup WithStatus(InFlight)'
      <4> SUFFICES ASSUME call[q].pc = "balance", call[q].ledger # Null, call[q].open = Null,
                          NEW i \in booked', i \notin WithStatus(InFlight)'
                   PROVE  i \in call[q].ledger
        OBVIOUS
      <4>1. i \in booked BY <1>4, MoneyDraws
      <4>2. CASE status[i] = "FINAL"
        <5>1. i \notin WithStatus(InFlight) BY <4>2 DEF WithStatus, InFlight
        <5> QED BY <3>1, <4>1, <5>1 DEF Covers
      <4>3. CASE status[i] # "FINAL" /\ status'[i] = "FINAL"
        <5>1. ~ Overlooked(i) BY <1>2, <2>1, <2>2, <4>1, <4>3
        <5> QED BY <5>1 DEF Overlooked
      <4> QED BY <1>4, <4>2, <4>3, MoneyDraws
    <3> QED BY <1>4, <2>1, <3>1, <3>2, MoneyDraws, CoversKept
  <2> QED BY <1>1, <2>1, <2>2 DEF Balances
<1>5. ASSUME NEW r \in Requests, Step(r) \/ CallThrows(r) PROVE Balances'
  <2>1. \A q \in Requests : call'[q].pc = "new" => call'[q].ledger = Null /\ call'[q].open = Null
    BY <1>1, <1>5, CallWrites DEF Balances
  <2>2. UNCHANGED booked
    BY <1>5 DEF Step, Lookup, ReadLedger, ReadInFlight, Refuse, Insert, InsertRaced, Screen,
           Enqueue, CallThrows,
                booksVars, money
  <2>3. \/ UNCHANGED <<status, raced>>
        \/ Insert(r)
        \/ Screen(r)
    BY <1>5 DEF Step, Lookup, ReadLedger, ReadInFlight, Refuse, InsertRaced, Enqueue, CallThrows,
           booksVars, rows
  <2>4. ASSUME ~ raced' PROVE ~ raced
    <3>1. CASE Insert(r)
      <4>1. raced' = (raced \/ \E q \in Requests \ {r} : call[q].pc = "balance" /\ call[q].open # Null)
        BY <3>1 DEF Insert
      <4> QED BY <2>4, <4>1
    <3>2. CASE Screen(r) BY <2>4, <3>2 DEF Screen
    <3> QED BY <2>3, <2>4, <3>1, <3>2
  <2>5. ASSUME ~ raced', NEW q \in Requests \ {r} PROVE Covers(q)'
    <3>1. Covers(q) /\ call'[q] = call[q] BY <1>1, <1>5, <2>4, <2>5, CallWrites DEF Balances
    <3>2. CASE UNCHANGED <<status, raced>>
      BY <2>2, <3>1, <3>2 DEF Covers, WithStatus
    <3>3. CASE Insert(r)
      <4>1. call[q].pc = "balance" => call[q].open = Null BY <2>5, <3>3 DEF Insert
      <4>2. WithStatus(InFlight) \subseteq WithStatus(InFlight)'
        <5>1. status[Instruction(r)] = "NONE" /\ status' = [status EXCEPT ![Instruction(r)] = "RECEIVED"]
          BY <3>3 DEF Insert
        <5> QED BY <1>2, <5>1 DEF WithStatus, InFlight
      <4>3. call[q].pc = "balance" /\ call[q].ledger # Null /\ call[q].open = Null =>
              booked' \subseteq call[q].ledger \cup WithStatus(InFlight)'
        BY <2>2, <3>1, <4>2 DEF Covers
      <4> QED BY <2>2, <3>1, <4>1, <4>3, CoversKept
    <3>4. CASE Screen(r)
      <4>1. PICK to \in {"REJECTED_COMPLIANCE", "COMPLIANCE_APPROVED"} : Move(Instruction(r), to)
        BY <3>4 DEF Screen
      <4>2. status[Instruction(r)] = "RECEIVED" BY <1>1, <3>4 DEF Flow, Screen
      <4>3. Instruction(r) \notin booked BY <1>1, <4>2 DEF Flow
      <4>4. /\ WithStatus(InFlight)' \subseteq WithStatus(InFlight)
            /\ \A i \in WithStatus(InFlight) : i # Instruction(r) => i \in WithStatus(InFlight)'
        BY <1>2, <4>1, <4>2 DEF Move, WithStatus, InFlight
      <4>5. call[q].pc = "balance" /\ call[q].ledger # Null /\ call[q].open = Null =>
              booked' \subseteq call[q].ledger \cup WithStatus(InFlight)'
        BY <2>2, <3>1, <4>3, <4>4 DEF Covers
      <4> QED BY <2>2, <3>1, <4>4, <4>5, CoversKept
    <3> QED BY <2>3, <3>2, <3>3, <3>4
  <2>6. ASSUME ~ raced' PROVE Covers(r)'
    <3>1. Covers(r) /\ Balances BY <1>1, <2>4, <2>6 DEF Balances
    <3>2. SUFFICES ASSUME call'[r].pc = "balance" PROVE Covers(r)' BY DEF Covers
    <3>3. CASE call[r].pc = "new" /\ call'[r].ledger = call[r].ledger /\ call'[r].open = call[r].open
      BY <3>1, <3>3 DEF Balances, Covers
    <3>4. CASE ReadLedger(r) /\ call[r].pc = "balance" /\ call'[r].ledger = booked /\ call'[r].open = call[r].open
      <4>1. UNCHANGED <<status, booked>> BY <3>4 DEF ReadLedger, booksVars, rows, money
      <4>2. WithStatus(InFlight)' = WithStatus(InFlight) BY <4>1 DEF WithStatus
      <4>3. call[r].ledger = Null BY <3>4 DEF ReadLedger
      <4> QED BY <3>1, <3>4, <4>1, <4>2, <4>3 DEF Covers
    <3>5. CASE ReadInFlight(r) /\ call[r].pc = "balance" /\ call'[r].ledger = call[r].ledger
               /\ call'[r].open = WithStatus(InFlight)
      <4>1. UNCHANGED <<status, booked>> BY <3>5 DEF ReadInFlight, booksVars, rows, money
      <4>2. WithStatus(InFlight)' = WithStatus(InFlight) BY <4>1 DEF WithStatus
      <4>3. call[r].open = Null BY <3>5 DEF ReadInFlight
      <4> QED BY <3>1, <3>5, <4>1, <4>2, <4>3 DEF Covers
    <3> QED BY <1>1, <1>5, <3>2, <3>3, <3>4, <3>5, CallWrites
  <2> QED BY <2>1, <2>5, <2>6 DEF Balances
<1>6. CASE TreasuryExit
  <2>1. call' = [r \in Requests |-> IF call[r].pc = "new" THEN call[r] ELSE Done]
    BY <1>6 DEF TreasuryExit, IntakeExit
  <2>2. \A q \in Requests : call'[q].pc # "balance" BY <2>1 DEF Done, NewCall
  <2>3. \A q \in Requests : call'[q].pc = "new" => call'[q] = call[q] BY <2>1 DEF Done, NewCall
  <2> QED BY <1>1, <2>2, <2>3 DEF Balances, Covers
<1>7. ReconStep \/ UNCHANGED treasuryVars => UNCHANGED <<status, booked, call, raced>>
  BY DEF ReconStep, intakeVars, ReconNext, ReconStart, ReconLedger, ReconChain, ReconRows, ReconReceipt,
         ReconCompare, ReconEnd, booksVars, rows, money, treasuryVars
<1> QED BY <1>3, <1>4, <1>5, <1>6, <1>7 DEF TreasuryNext, IntakeStep, IntakeNext

\* What is in flight or booked.
Drawing == WithStatus(InFlight) \cup booked

LEMMA DrawingIs ==
  ASSUME BooksInv
  PROVE  /\ Drawing \in SUBSET Instructions
         /\ \A i \in Drawing : status[i] # "NONE"
BY RowsOfMoney DEF Drawing

\* A step that draws on nothing new.
LEMMA NoNewDraw ==
  ASSUME Finite, BooksInv, [TreasuryNext]_treasuryVars,
         Drawing' \subseteq Drawing
  PROVE  Drawn' <= Drawn /\ Drawn' \in Nat /\ Drawn \in Nat
<1>1. PICK D, E : D = Drawing /\ E = Drawing' OBVIOUS
<1>2. E \in SUBSET D /\ D \in SUBSET Instructions /\ \A i \in D : status[i] # "NONE"
  BY <1>1, DrawingIs
<1>3. Drawn = Sum(amount, D) BY <1>1, TotalsAreSums DEF SumsOf, Drawing
<1>4. Drawn' = Sum(amount', E) BY <1>1, TotalsAreSumsNext DEF SumsOf, Drawing
<1>5. Sum(amount', E) = Sum(amount, E) BY <1>2, SumsStay
<1>6. Sum(amount, E) \in Nat /\ Sum(amount, D) \in Nat /\ Sum(amount, E) <= Sum(amount, D)
  BY <1>2, AmountsSum
<1> QED BY <1>3, <1>4, <1>5, <1>6

\* A request inserts what the balance it computed can afford; that balance counts
\* all that is drawn.
LEMMA InsertAffords ==
  ASSUME Finite, BooksInv, TreasuryNext, ~ raced, NEW r \in Requests, Insert(r)
  PROVE  Drawn' <= genesis /\ genesis' = genesis
<1>1. PICK L, O, D, a, i : /\ L = call[r].ledger /\ O = call[r].open /\ D = Drawing
                           /\ a = Body[r].amount /\ i = Instruction(r)
  OBVIOUS
<1>2. /\ call[r].pc = "balance" /\ L # Null /\ O # Null /\ Affordable(r)
      /\ status[i] = "NONE" /\ UNCHANGED <<booked, genesis>>
      /\ status' = [status EXCEPT ![i] = "RECEIVED"] /\ amount' = [amount EXCEPT ![i] = a]
  BY <1>1 DEF Insert, Counted, money
<1>3. L \in SUBSET Instructions /\ O \in SUBSET Instructions
  BY <1>1, <1>2 DEF BooksInv, TreasuryTypeOK, IntakeTypeOK
<1>4. D \in SUBSET Instructions /\ (\A j \in D : status[j] # "NONE") /\ i \in Instructions /\ a \in Nat
  BY <1>1, DrawingIs, InstructionType, IntakeAssumption
<1>5. D \subseteq L \cup O
  BY <1>1, <1>2 DEF BooksInv, Balances, Covers, Drawing
<1>6. genesis = Opening /\ Opening \in Nat
  <2>1. process = "up" BY <1>2 DEF BooksInv, Opened
  <2> QED BY <2>1, BooksAssumption DEF BooksInv, Opened
<1>7. a <= genesis - Sum(amount, L) - Sum(amount, O)
  BY <1>1, <1>2 DEF Affordable, Total, Sum
<1>8. Sum(amount, D) \in Nat /\ Sum(amount, D) <= Sum(amount, L) + Sum(amount, O)
      /\ Sum(amount, L) \in Nat /\ Sum(amount, O) \in Nat
  <2>1. L \cup O \in SUBSET Instructions BY <1>3
  <2>2. Sum(amount, D) \in Nat /\ Sum(amount, D) <= Sum(amount, L \cup O) BY <1>5, <2>1, AmountsSum
  <2>3. L \in SUBSET (L \cup O) /\ (L \cup O) \ L = O \ L OBVIOUS
  <2>4. Sum(amount, L \cup O) = Sum(amount, L) + Sum(amount, O \ L)
    BY <2>1, <2>3, AmountsSum
  <2>5. Sum(amount, O \ L) \in Nat /\ Sum(amount, O) \in Nat /\ Sum(amount, O \ L) <= Sum(amount, O)
    BY <1>3, AmountsSum
  <2>6. Sum(amount, L) \in Nat BY <1>3, AmountsSum
  <2> QED BY <2>2, <2>4, <2>5, <2>6
<1>9. Drawn' = Sum(amount', D \cup {i})
  <2>1. WithStatus(InFlight)' \cup booked' = D \cup {i}
    <3>1. status \in [Instructions -> Statuses] BY DEF BooksInv, TreasuryTypeOK, BooksTypeOK
    <3>2. {j \in Instructions : status'[j] \in InFlight} = {j \in Instructions : status[j] \in InFlight} \cup {i}
      BY <1>2, <1>4, <3>1 DEF InFlight
    <3>3. WithStatus(InFlight)' = WithStatus(InFlight) \cup {i} BY <3>2 DEF WithStatus
    <3> QED BY <1>1, <1>2, <3>3 DEF Drawing
  <2> QED BY <2>1, TotalsAreSumsNext DEF SumsOf
<1>10. Sum(amount', D \cup {i}) = amount'[i] + Sum(amount', D)
  <2>1. IsFiniteSet(D) /\ i \notin D BY <1>2, <1>4, FS_Subset DEF Finite
  <2>2. \A j \in D \cup {i} : amount'[j] \in Int
    BY <1>2, <1>4 DEF BooksInv, TreasuryTypeOK, BooksTypeOK
  <2> QED BY <2>1, <2>2, SumAddsOne
<1>11. Sum(amount', D) = Sum(amount, D) BY <1>4, SumsStay
<1>12. amount'[i] = a BY <1>2, <1>4 DEF BooksInv, TreasuryTypeOK, BooksTypeOK
<1> QED BY <1>2, <1>4, <1>6, <1>7, <1>8, <1>9, <1>10, <1>11, <1>12

LEMMA OverdraftStep ==
  ASSUME Finite, BooksInv, [TreasuryNext]_treasuryVars
  PROVE  OverdraftIsARace'
<1>. SUFFICES ASSUME ~ raced', genesis' # Null PROVE Drawn' <= genesis' BY DEF OverdraftIsARace
<1>1. Opened /\ Flow /\ OverdraftIsARace BY DEF BooksInv
<1>2. Opening \in Nat /\ Null # Opening BY BooksAssumption
<1>3. CASE SnapshotWrite
  <2>1. genesis' = Opening /\ genesis = Null /\ UNCHANGED <<status, booked>>
    BY <1>1, <1>3 DEF SnapshotWrite, Opened, rows
  <2>2. Drawing = {}
    BY <1>1, <2>1, RowsOfMoney DEF Opened, Flow, Drawing, WithStatus, InFlight
  <2>3. Drawing' = {}
    BY <2>1, <2>2 DEF Drawing, WithStatus
  <2>4. Sum(amount', {}) = 0 BY FS_EmptySet, SumNext
  <2>5. Drawn' = Sum(amount', Drawing') BY TotalsAreSumsNext DEF SumsOf, Drawing
  <2> QED BY <1>2, <2>1, <2>3, <2>4, <2>5
<1>4. ASSUME Drawing' \subseteq Drawing, UNCHANGED genesis, ~ raced PROVE Drawn' <= genesis'
  <2>1. Drawn <= genesis /\ genesis \in Nat
    BY <1>1, <1>2, <1>4 DEF OverdraftIsARace, Opened
  <2> QED BY <1>4, <2>1, NoNewDraw
<1>5. CASE UNCHANGED <<status, booked, genesis, raced>>
  BY <1>4, <1>5 DEF Drawing, WithStatus
<1>6. CASE MoneyStep /\ ~ SnapshotWrite
  <2>1. Drawing' \subseteq Drawing BY <1>6, MoneyDraws DEF Drawing
  <2>2. UNCHANGED genesis
    BY <1>6 DEF MoneyStep, BooksNext, Boot, SnapshotRead, Submit, SubmitUnheard, Resend, GiveUp,
           Mine, Unmine, Confirm,
                BookFinal, WriteFinal, FundDeal, RefundDeal, money
  <2>3. ~ raced BY <1>6 DEF MoneyStep
  <2> QED BY <1>4, <2>1, <2>2, <2>3
<1>7. ASSUME NEW r \in Requests, Insert(r), TreasuryNext PROVE Drawn' <= genesis'
  <2>1. ~ raced
    <3>1. raced' = (raced \/ \E q \in Requests \ {r} : call[q].pc = "balance" /\ call[q].open # Null)
      BY <1>7 DEF Insert
    <3> QED BY <3>1
  <2> QED BY <1>7, <2>1, InsertAffords
<1>8. ASSUME NEW r \in Requests, Screen(r) PROVE Drawn' <= genesis'
  <2>1. PICK to \in {"REJECTED_COMPLIANCE", "COMPLIANCE_APPROVED"} : Move(Instruction(r), to)
    BY <1>8 DEF Screen
  <2>2. status[Instruction(r)] = "RECEIVED" BY <1>1, <1>8 DEF Flow, Screen
  <2>3. UNCHANGED <<booked, genesis, raced>> BY <1>8 DEF Screen, money
  <2>4. WithStatus(InFlight)' \subseteq WithStatus(InFlight)
    BY <2>1, <2>2 DEF Move, WithStatus, InFlight, BooksInv, TreasuryTypeOK, BooksTypeOK
  <2>5. Drawing' \subseteq Drawing BY <2>3, <2>4 DEF Drawing
  <2> QED BY <1>4, <2>3, <2>5
<1>9. ASSUME NEW r \in Requests, Step(r) \/ CallThrows(r), ~ Insert(r), ~ Screen(r)
      PROVE UNCHANGED <<status, booked, genesis, raced>>
  BY <1>9 DEF Step, Lookup, ReadLedger, ReadInFlight, Refuse, InsertRaced, Enqueue, CallThrows, booksVars,
              rows, money
<1>10. ReconStep \/ TreasuryExit \/ UNCHANGED treasuryVars => UNCHANGED <<status, booked, genesis, raced>>
  BY DEF ReconStep, intakeVars, ReconNext, ReconStart, ReconLedger, ReconChain, ReconRows, ReconReceipt,
         ReconCompare, ReconEnd, booksVars, rows, money, treasuryVars, TreasuryExit, Exit
<1> QED BY <1>3, <1>5, <1>6, <1>7, <1>8, <1>9, <1>10 DEF TreasuryNext, IntakeStep, IntakeNext

----------------------------------------------------------------------------
(* The reconciliation. *)

\* While a run is under way and nothing it reads has moved, the sums it reads
\* have not either.
LEMMA StillReadable ==
  ASSUME Finite, BooksInv, [TreasuryNext]_treasuryVars, recon'.pc # "idle", ~ moved'
  PROVE  /\ ~ moved
         /\ UNCHANGED <<booked, paid, escrow, txHash, WithStatus(Pending), Snapshot, Named, Unrecorded>>
         /\ UNCHANGED <<Wallet, Unexplained, CountedTwice>>
<1>1. ~ moved /\ UNCHANGED <<genesis, booked, paid, escrow, txHash, WithStatus(Pending)>>
  <2>1. CASE TreasuryNext
    <3>1. moved' = (recon'.pc # "idle" /\ (moved \/ Readable' # Readable)) BY <2>1 DEF TreasuryNext, Moved
    <3>2. ~ moved /\ Readable' = Readable BY <3>1
    <3> QED BY <3>2 DEF Readable
  <2>2. CASE UNCHANGED treasuryVars
    BY <2>2 DEF treasuryVars, booksVars, rows, money, reconVars, WithStatus
  <2> QED BY <2>1, <2>2
<1>2. UNCHANGED <<Snapshot, Named, Unrecorded, Excess>>
  <2>1. PICK P : P = WithStatus(Pending) OBVIOUS
  <2>2. WithStatus(Pending)' = P BY <1>1, <2>1
  <2>3. /\ Named = {txHash[i] : i \in P} \ {Null} /\ Named' = {txHash'[i] : i \in P} \ {Null}
        /\ Excess = paid \ {txHash[i] : i \in booked \cup P}
        /\ Excess' = paid' \ {txHash'[i] : i \in booked' \cup P}
    BY <2>1, <2>2 DEF Named, Excess
  <2> QED BY <1>1, <2>3 DEF Snapshot, Unrecorded
<1>3. /\ booked \cap WithStatus(Pending) \in SUBSET Instructions
      /\ \A i \in booked : status[i] # "NONE"
      /\ paid \in SUBSET sent /\ Excess \in SUBSET sent
  BY RowsOfMoney DEF Excess
<1>4. PICK P : P = booked \cap WithStatus(Pending) /\ P = booked' \cap WithStatus(Pending)' BY <1>1
<1>5. P \in SUBSET Instructions /\ \A i \in P : status[i] # "NONE" BY <1>3, <1>4
<1>6. /\ Sum(Worth', paid) = Sum(Worth, paid)
      /\ Sum(Worth', Excess) = Sum(Worth, Excess)
      /\ Sum(amount', P) = Sum(amount, P)
  <2>1. Sum(amount', P) = Sum(amount, P) BY <1>5, SumsStay
  <2> QED BY <1>3, <2>1, WorthsStay
<1>7. /\ Wallet' = Opening - Sum(Worth', paid) - escrow
      /\ Unexplained' = escrow + Sum(Worth', Excess)
      /\ CountedTwice' = Sum(amount', P)
  BY <1>1, <1>2, <1>4, TotalsAreSumsNext DEF SumsOf
<1>8. Wallet' = Wallet /\ Unexplained' = Unexplained /\ CountedTwice' = CountedTwice
  BY <1>6, <1>4, <1>7, TotalsAreSums DEF SumsOf
<1> QED BY <1>1, <1>2, <1>8

LEMMA ReadingStep ==
  ASSUME Finite, BooksInv, [TreasuryNext]_treasuryVars
  PROVE  Reading'
<1>. DEFINE Runs == [pc : {"idle", "reading", "compared"}, opening : Nat,
                     ledger : (SUBSET Instructions) \cup {Null}, chain : Nat \cup {Null},
                     list : (SUBSET Transfers) \cup {Null}, mined : SUBSET Instructions, diff : Int]
<1>1. Reading /\ recon \in Runs BY DEF BooksInv, TreasuryTypeOK, ReconTypeOK
\* What the run has read, apart from what is still there to be read.
<1>. DEFINE Read(c, b, o, w, p, a) ==
       /\ c.ledger # Null => c.ledger = b /\ c.opening = o
       /\ c.chain # Null => c.chain = w
       /\ c.list = Null => c.mined = {}
       /\ c.list # Null => c.list \subseteq p /\ c.mined = {t.of : t \in (p \ c.list) \cap a}
<1>2. SUFFICES /\ recon'.pc = "idle" => recon' = ReconIdle
               /\ recon'.pc = "reading" /\ ~ moved' => Read(recon', booked, Snapshot, Wallet, Named, paid)
  <2>1. recon'.pc = "reading" /\ ~ moved' =>
          UNCHANGED <<booked, paid, Snapshot, Named, Wallet>>
    BY StillReadable
  <2> QED BY <2>1 DEF Reading
<1>3. recon.pc = "reading" /\ ~ moved => Read(recon, booked, Snapshot, Wallet, Named, paid)
  BY <1>1 DEF Reading
<1>4. recon'.pc = "reading" /\ ~ moved' => ~ moved BY StillReadable
<1>5. PICK o, w, p : o = Snapshot /\ w = Wallet /\ p = Named OBVIOUS
<1>6. recon.pc = "reading" /\ ~ moved => Read(recon, booked, o, w, p, paid) BY <1>3, <1>5
<1>. DEFINE Goal == /\ recon'.pc = "idle" => recon' = ReconIdle
                    /\ recon'.pc = "reading" /\ ~ moved' => Read(recon', booked, o, w, p, paid)
<1>7. SUFFICES Goal BY <1>5
<1>8. CASE UNCHANGED recon
  BY <1>1, <1>4, <1>6, <1>8 DEF Reading
<1>9. CASE ReconStart
  <2>1. recon = ReconIdle /\ recon' = [recon EXCEPT !.pc = "reading"]
    BY <1>1, <1>9 DEF ReconStart, Reading
  <2>2. recon'.pc = "reading" /\ recon'.ledger = Null /\ recon'.chain = Null /\ recon'.list = Null /\ recon'.mined = {}
    BY <2>1 DEF ReconIdle
  <2> QED BY <2>2
<1>10. CASE ReconLedger
  <2>1. recon.pc = "reading" /\ recon' = [recon EXCEPT !.ledger = booked, !.opening = o]
    BY <1>5, <1>10 DEF ReconLedger, Snapshot
  <2>2. /\ recon'.pc = "reading" /\ recon'.ledger = booked /\ recon'.opening = o
        /\ recon'.chain = recon.chain /\ recon'.list = recon.list /\ recon'.mined = recon.mined
    BY <1>1, <2>1
  <2> QED BY <1>4, <1>6, <2>1, <2>2
<1>11. CASE ReconChain
  <2>1. recon.pc = "reading" /\ recon' = [recon EXCEPT !.chain = w]
    BY <1>5, <1>11 DEF ReconChain
  <2>2. /\ recon'.pc = "reading" /\ recon'.chain = w
        /\ recon'.ledger = recon.ledger /\ recon'.opening = recon.opening
        /\ recon'.list = recon.list /\ recon'.mined = recon.mined
    BY <1>1, <2>1
  <2> QED BY <1>4, <1>6, <2>1, <2>2
<1>12. CASE ReconRows
  <2>1. recon.pc = "reading" /\ recon.list = Null /\ recon' = [recon EXCEPT !.list = p]
    BY <1>5, <1>12 DEF ReconRows, Named
  <2>2. /\ recon'.pc = "reading" /\ recon'.list = p
        /\ recon'.ledger = recon.ledger /\ recon'.opening = recon.opening
        /\ recon'.chain = recon.chain /\ recon'.mined = recon.mined
    BY <1>1, <2>1
  <2>3. p # Null BY <1>5, NamedType, BooksAssumption
  <2>4. {t.of : t \in (p \ p) \cap paid} = {} OBVIOUS
  <2> QED BY <1>4, <1>6, <2>1, <2>2, <2>3, <2>4
<1>13. ASSUME NEW t \in Transfers, ReconReceipt(t) PROVE Goal
  <2>. DEFINE list == recon.list \ {t}
              mined == IF t \in paid THEN recon.mined \cup {t.of} ELSE recon.mined
  <2>1. /\ recon.pc = "reading" /\ recon.list # Null /\ t \in recon.list
        /\ recon' = [recon EXCEPT !.list = list, !.mined = mined]
    BY <1>13 DEF ReconReceipt
  <2>2. recon.list \in SUBSET Transfers BY <1>1, <2>1
  <2>3. list # Null BY <2>2, BooksAssumption
  <2>4. ASSUME recon.list \subseteq p, recon.mined = {u.of : u \in (p \ recon.list) \cap paid}
        PROVE  list \subseteq p /\ mined = {u.of : u \in (p \ list) \cap paid}
    <3>1. (p \ list) \cap paid = ((p \ recon.list) \cap paid) \cup ({t} \cap paid)
      BY <2>1, <2>4
    <3>2. {u.of : u \in (p \ list) \cap paid}
            = {u.of : u \in (p \ recon.list) \cap paid} \cup {u.of : u \in {t} \cap paid}
      <4>. HIDE DEF list
      <4> QED BY <3>1
    <3> QED BY <2>1, <2>4, <3>2
  <2>. HIDE DEF list, mined
  <2>5. /\ recon'.pc = "reading" /\ recon'.list = list /\ recon'.mined = mined
        /\ recon'.ledger = recon.ledger /\ recon'.opening = recon.opening /\ recon'.chain = recon.chain
    BY <1>1, <2>1
  <2> QED BY <1>4, <1>6, <2>1, <2>3, <2>4, <2>5
<1>14. CASE ReconCompare
  <2>1. recon'.pc = "compared" BY <1>14 DEF ReconCompare, ReconIdle
  <2> QED BY <2>1
<1>15. CASE ReconEnd \/ TreasuryExit
  <2>1. recon' = ReconIdle BY <1>15 DEF ReconEnd, TreasuryExit, ReconExit
  <2>2. recon'.pc = "idle" BY <2>1 DEF ReconIdle
  <2> QED BY <2>1, <2>2
<1>16. \/ UNCHANGED recon \/ ReconStep \/ TreasuryExit
  BY DEF TreasuryNext, treasuryVars, reconVars, MoneyStep, IntakeStep
<1>. HIDE DEF Goal
<1> QED BY <1>8, <1>9, <1>10, <1>11, <1>12, <1>13, <1>14, <1>15, <1>16 DEF ReconStep, ReconNext

\* The comparison of a run that read one moment.
LEMMA DiffStep ==
  ASSUME Finite, BooksInv, [TreasuryNext]_treasuryVars
  PROVE  DiffIsExplained'
<1>. SUFFICES ASSUME recon'.pc = "compared", ~ moved'
              PROVE  recon'.diff = Unexplained' - CountedTwice' - Unrecorded'
  BY DEF DiffIsExplained
<1>1. ~ moved /\ UNCHANGED <<Unexplained, CountedTwice, Unrecorded>>
  BY StillReadable
<1>2. SUFFICES recon'.diff = Unexplained - CountedTwice - Unrecorded BY <1>1
<1>3. CASE UNCHANGED recon
  BY <1>1, <1>3 DEF BooksInv, DiffIsExplained
<1>4. CASE ReconCompare
  <2>1. PICK P, B, A, h, M :
          /\ P = WithStatus(Pending) /\ B = booked /\ A = paid /\ h = txHash
          /\ M = {i \in P : h[i] \in A}
    OBVIOUS
  <2>2. /\ recon.pc = "reading" /\ recon.ledger # Null /\ recon.chain # Null /\ recon.list = {}
        /\ recon' = [ReconIdle EXCEPT !.pc = "compared",
                       !.diff = recon.opening - Total(recon.ledger) - Total(recon.mined) - recon.chain]
    BY <1>4 DEF ReconCompare
  <2>3. /\ B \in SUBSET Instructions /\ P \in SUBSET Instructions /\ A \in SUBSET Transfers
        /\ \A i \in Instructions : h[i] # Null => h[i] \in Transfers /\ h[i].of = i
        /\ \A i \in P : h[i] # Null
        /\ \A i \in B : h[i] \in A
        /\ Null \notin A
    BY <2>1, RowsOfMoney, TransferType DEF BooksInv, Flow, WithStatus, Pending
\* What the run has read: the booked rows, and the pending ones whose transfer is mined.
  <2>4. recon.ledger = B /\ recon.opening = Snapshot /\ recon.chain = Wallet /\ recon.mined = M
    <3>1. {} # Null BY BooksAssumption
    <3>2. /\ recon.ledger = B /\ recon.opening = Snapshot /\ recon.chain = Wallet
          /\ recon.mined = {t.of : t \in (Named \ {}) \cap A}
      BY <1>1, <2>1, <2>2, <3>1 DEF BooksInv, Reading
    <3>3. Named = {h[i] : i \in P} \ {Null} BY <2>1 DEF Named
    <3>4. {t.of : t \in (Named \ {}) \cap A} = M BY <2>1, <2>3, <3>3
    <3> QED BY <3>2, <3>4
  <2>5. recon'.diff = Opening - Unrecorded - Sum(amount, B) - Sum(amount, M) - Wallet
    <3>. DEFINE diff == recon.opening - Total(recon.ledger) - Total(recon.mined) - recon.chain
    <3>1. recon' = [ReconIdle EXCEPT !.pc = "compared", !.diff = diff] BY <2>2
    <3>2. diff = Opening - Unrecorded - Sum(amount, B) - Sum(amount, M) - Wallet
      BY <2>4, SnapshotType DEF Total, Sum
    <3>. HIDE DEF diff
    <3>3. recon'.diff = diff BY <3>1 DEF ReconIdle
    <3> QED BY <3>2, <3>3
\* What is paid: by the transfers that booked or pending rows name, or in excess.
  <2>6. PICK N, X : N = {h[i] : i \in B \cup M} /\ X = Excess OBVIOUS
  <2>7. N \in SUBSET A /\ A \ N = X
    BY <2>1, <2>3, <2>6 DEF Excess
  <2>8. Wallet = Opening - Sum(Worth, A) - escrow /\ Unexplained = escrow + Sum(Worth, X)
        /\ CountedTwice = Sum(amount, B \cap P)
    BY <2>1, <2>6, TotalsAreSums DEF SumsOf
  <2>9. Sum(Worth, A) = Sum(Worth, N) + Sum(Worth, X) BY <2>3, <2>7, WorthsSum
  <2>10. Sum(Worth, N) = Sum(amount, B \cup M)
    <3>1. B \cup M \in SUBSET Instructions BY <2>1, <2>3
    <3>2. \A i \in B \cup M : h[i] \in Transfers /\ h[i].of = i BY <2>1, <2>3
    <3>3. \A i \in B \cup M : amount[i] \in Int /\ Worth[h[i]] = amount[i]
      BY <3>1, <3>2, AmountsSum DEF Worth
    <3>4. \A i, j \in B \cup M : h[i] = h[j] => i = j BY <3>2
    <3>5. IsFiniteSet(B \cup M) BY <3>1, AmountsSum
    <3> QED BY <2>6, <3>3, <3>4, <3>5, SumRenamed
  <2>11. Sum(amount, B \cup M) = Sum(amount, B) + Sum(amount, M \ B)
    <3>1. B \cup M \in SUBSET Instructions /\ B \in SUBSET (B \cup M) /\ (B \cup M) \ B = M \ B
      BY <2>1, <2>3
    <3> QED BY <3>1, AmountsSum
  <2>12. Sum(amount, M) = Sum(amount, B \cap P) + Sum(amount, M \ B)
    <3>1. M \in SUBSET Instructions /\ B \cap P \in SUBSET M /\ M \ (B \cap P) = M \ B
      BY <2>1, <2>3
    <3> QED BY <3>1, AmountsSum
  <2>13. /\ Sum(Worth, A) \in Nat /\ Sum(Worth, N) \in Nat /\ Sum(Worth, X) \in Nat
         /\ Sum(amount, B) \in Nat /\ Sum(amount, M) \in Nat /\ Sum(amount, M \ B) \in Nat
         /\ Sum(amount, B \cap P) \in Nat
    <3>1. A \in SUBSET A /\ N \in SUBSET A /\ X \in SUBSET A BY <2>7
    <3>2. B \in SUBSET Instructions /\ M \in SUBSET Instructions /\ M \ B \in SUBSET Instructions
          /\ B \cap P \in SUBSET Instructions
      BY <2>1, <2>3
    <3>3. \A S \in SUBSET Instructions : Sum(amount, S) \in Nat BY AmountsSum
    <3> QED BY <2>3, <3>1, <3>2, <3>3, WorthsSum
  <2>14. escrow \in Nat /\ Opening \in Nat /\ Unrecorded \in Int
    BY BooksAssumption DEF BooksInv, TreasuryTypeOK, BooksTypeOK, Unrecorded
  <2> QED BY <2>5, <2>8, <2>9, <2>10, <2>11, <2>12, <2>13, <2>14
<1>5. \/ UNCHANGED recon \/ ReconStep \/ TreasuryExit
  BY DEF TreasuryNext, treasuryVars, reconVars, MoneyStep, IntakeStep
<1>6. CASE ReconEnd \/ TreasuryExit
  <2>1. recon'.pc = "idle" BY <1>6 DEF ReconEnd, TreasuryExit, ReconExit, ReconIdle
  <2> QED BY <2>1
<1>7. ASSUME ReconStart \/ ReconLedger \/ ReconChain \/ ReconRows \/ \E t \in Transfers : ReconReceipt(t)
      PROVE FALSE
  <2>1. \A x, y : /\ [recon EXCEPT !.pc = "reading"].pc = "reading"
                  /\ [recon EXCEPT !.ledger = x, !.opening = y].pc = recon.pc
                  /\ [recon EXCEPT !.chain = x].pc = recon.pc
                  /\ [recon EXCEPT !.list = x].pc = recon.pc
                  /\ [recon EXCEPT !.list = x, !.mined = y].pc = recon.pc
    BY DEF BooksInv, TreasuryTypeOK, ReconTypeOK
  <2>2. recon'.pc = "reading"
    <3>1. CASE ReconStart BY <2>1, <3>1 DEF ReconStart
    <3>2. CASE ReconLedger BY <2>1, <3>2 DEF ReconLedger
    <3>3. CASE ReconChain BY <2>1, <3>3 DEF ReconChain
    <3>4. CASE ReconRows BY <2>1, <3>4 DEF ReconRows
    <3>5. CASE \E t \in Transfers : ReconReceipt(t) BY <2>1, <3>5 DEF ReconReceipt
    <3> QED BY <1>7, <3>1, <3>2, <3>3, <3>4, <3>5
  <2> QED BY <2>2
<1> QED BY <1>3, <1>4, <1>5, <1>6, <1>7 DEF ReconStep, ReconNext

----------------------------------------------------------------------------
(* Who attends to a settlement. *)

LEMMA AttendedStep ==
  ASSUME Finite, BooksInv, [TreasuryNext]_treasuryVars
  PROVE  ReceivedIsAttended' /\ Budget'
<1>1. /\ ReceivedIsAttended /\ HInv /\ Flow
      /\ faults \in Nat /\ faults <= MaxFaults /\ MaxFaults \in Nat
      /\ status \in [Instructions -> Statuses]
  BY BooksAssumption DEF BooksInv, Budget, TreasuryTypeOK, BooksTypeOK
<1>2. CASE Fault
  BY <1>1, <1>2 DEF Fault, ReceivedIsAttended, Budget
<1>3. ASSUME UNCHANGED faults,
             \A i \in Instructions : status'[i] = "RECEIVED" =>
               \/ \E r \in Requests : call'[r].pc = "screen" /\ Instruction(r) = i
               \/ status[i] = "RECEIVED" /\ \A r \in Requests : call[r].pc = "screen" /\ Instruction(r) = i => call'[r] = call[r]
      PROVE ReceivedIsAttended' /\ Budget'
  <2>1. Budget' BY <1>1, <1>3 DEF Budget
  <2>2. ASSUME NEW i \in Instructions, status'[i] = "RECEIVED"
        PROVE \/ \E r \in Requests : call'[r].pc = "screen" /\ Instruction(r) = i
              \/ faults' < MaxFaults
    BY <1>1, <1>3, <2>2 DEF ReceivedIsAttended
  <2>3. \A r \in Requests : Instruction(r)' = Instruction(r) BY DEF Instruction
  <2> QED BY <2>1, <2>2, <2>3 DEF ReceivedIsAttended
<1>4. CASE UNCHANGED <<status, call, faults>>
  BY <1>3, <1>4
<1>5. CASE MoneyStep
  <2>1. UNCHANGED call BY <1>5 DEF MoneyStep
  <2>2. ASSUME NEW i \in Instructions, NEW to \in {"SUBMITTED", "FAILED", "CONFIRMED", "FINAL"}, Move(i, to),
               UNCHANGED faults
        PROVE ReceivedIsAttended' /\ Budget'
    BY <1>1, <1>3, <2>1, <2>2 DEF Move
  <2>3. \/ UNCHANGED <<status, faults>>
        \/ Fault
        \/ /\ UNCHANGED faults
           /\ \E i \in Instructions : \E to \in {"SUBMITTED", "FAILED", "CONFIRMED", "FINAL"} : Move(i, to)
    BY <1>5, TransferType
       DEF MoneyStep, BooksNext, Boot, SnapshotRead, SnapshotWrite, Submit, SubmitUnheard, Resend,
           GiveUp, Mine,
           Unmine, Confirm, BookFinal, WriteFinal, FundDeal, RefundDeal, rows
  <2> QED BY <1>2, <1>4, <2>1, <2>2, <2>3
<1>6. ASSUME NEW r \in Requests, Insert(r) PROVE ReceivedIsAttended' /\ Budget'
  <2>1. UNCHANGED faults /\ status' = [status EXCEPT ![Instruction(r)] = "RECEIVED"] /\ call[r].pc = "balance"
    BY <1>6 DEF Insert, Counted
  <2>2. call'[r].pc = "screen" BY <1>1, <1>6 DEF HInv, Shapes, Insert, NewCall
  <2>3. \A q \in Requests \ {r} : call'[q] = call[q] BY <1>1, <1>6, CallWrites DEF Step
  <2>4. \A i \in Instructions : i # Instruction(r) => status'[i] = status[i] BY <1>1, <2>1
  <2> QED BY <1>3, <2>1, <2>2, <2>3, <2>4
<1>7. ASSUME NEW r \in Requests, Screen(r) PROVE ReceivedIsAttended' /\ Budget'
  <2>1. PICK to \in {"REJECTED_COMPLIANCE", "COMPLIANCE_APPROVED"} : Move(Instruction(r), to)
    BY <1>7 DEF Screen
  <2>2. UNCHANGED faults BY <1>7 DEF Screen
  <2>3. \A q \in Requests \ {r} : call'[q] = call[q] BY <1>1, <1>7, CallWrites DEF Step
  <2>4. \A i \in Instructions : status'[i] = "RECEIVED" => status[i] = "RECEIVED" /\ i # Instruction(r)
    BY <1>1, <2>1, InstructionType DEF Move
  <2> QED BY <1>3, <2>2, <2>3, <2>4
<1>8. ASSUME NEW r \in Requests, Step(r), ~ Insert(r), ~ Screen(r) PROVE ReceivedIsAttended' /\ Budget'
  <2>1. UNCHANGED <<status, faults>>
    BY <1>8 DEF Step, Lookup, ReadLedger, ReadInFlight, Refuse, InsertRaced, Enqueue, booksVars, rows
  <2>2. \A q \in Requests \ {r} : call'[q] = call[q] BY <1>1, <1>8, CallWrites
  <2>3. call[r].pc # "screen"
    BY <1>8 DEF Step, Lookup, ReadLedger, ReadInFlight, Refuse, InsertRaced, Counted, Enqueue
  <2> QED BY <1>3, <2>1, <2>2, <2>3
<1>9. \/ UNCHANGED <<status, call, faults>> \/ Fault \/ MoneyStep
      \/ \E r \in Requests : Step(r)
  <2>1. CASE UNCHANGED treasuryVars
    BY <2>1 DEF treasuryVars, booksVars, rows, intakeVars
  <2>2. CASE ReconStep
    BY <2>2 DEF ReconStep, intakeVars, ReconNext, ReconStart, ReconLedger, ReconChain, ReconRows,
           ReconReceipt,
                ReconCompare, ReconEnd, booksVars, rows
  <2>3. CASE TreasuryExit BY <2>3 DEF TreasuryExit, Exit
  <2>4. \A r \in Requests : CallThrows(r) => Fault BY DEF CallThrows
  <2> QED BY <2>1, <2>2, <2>3, <2>4 DEF TreasuryNext, IntakeStep, IntakeNext
<1> QED BY <1>2, <1>4, <1>5, <1>6, <1>7, <1>8, <1>9

----------------------------------------------------------------------------
LEMMA BooksInvInit == Finite /\ TreasuryInit => BooksInv
<1> SUFFICES ASSUME Finite, TreasuryInit PROVE BooksInv OBVIOUS
<1>. USE BooksAssumption DEF TreasuryInit
<1>1. HInv BY InitHInv
<1>2. \A r \in Requests : call[r] = NewCall BY DEF IntakeInit
<1>3. Flow BY <1>2 DEF Flow, BooksInit, NewCall
<1>4. Opened BY <1>2 DEF Opened, BooksInit, ReconInit, ReconIdle, NewCall
<1>5. Balances BY <1>2 DEF Balances, Covers, NewCall
<1>6. Reading BY DEF Reading, ReconInit, ReconIdle
<1>7. OverdraftIsARace /\ DiffIsExplained
  BY DEF OverdraftIsARace, DiffIsExplained, BooksInit, ReconInit, ReconIdle
<1>8. Budget /\ ReceivedIsAttended BY DEF Budget, ReceivedIsAttended, BooksInit
<1>9. BooksTypeOK
  <2>1. Wallet \in Nat
    <3>1. Sum(Worth, {}) = 0 BY FS_EmptySet, SumNext
    <3>2. Wallet = Opening - Sum(Worth, paid) - escrow BY TotalsAreSums DEF SumsOf
    <3> QED BY <3>1, <3>2 DEF BooksInit
  <2> QED BY <2>1 DEF BooksTypeOK, BooksInit, Statuses
<1>10. IntakeTypeOK
  <2>1. call = [r \in Requests |-> NewCall] /\ handed = [i \in Instructions |-> 0] /\ raced = FALSE BY DEF IntakeInit
  <2>2. NewCall \in [pc : {"new", "balance", "screen", "enqueue", "done"}, ledger : (SUBSET Instructions) \cup {Null},
                     open : (SUBSET Instructions) \cup {Null}]
    BY DEF NewCall
  <2>. HIDE DEF NewCall
  <2> QED BY <2>1, <2>2 DEF IntakeTypeOK
<1>11. ReconTypeOK
  <2>1. recon = ReconIdle /\ moved = FALSE BY DEF ReconInit
  <2>2. ReconIdle \in [pc : {"idle", "reading", "compared"}, opening : Nat,
                      ledger : (SUBSET Instructions) \cup {Null}, chain : Nat \cup {Null},
                      list : (SUBSET Transfers) \cup {Null}, mined : SUBSET Instructions, diff : Int]
    BY DEF ReconIdle
  <2> QED BY <2>1, <2>2 DEF ReconTypeOK
<1> QED BY <1>1, <1>3, <1>4, <1>5, <1>6, <1>7, <1>8, <1>9, <1>10, <1>11 DEF BooksInv, TreasuryTypeOK

LEMMA BooksInvStep ==
  Finite /\ BooksInv /\ [TreasuryNext]_treasuryVars => BooksInv'
<1> SUFFICES ASSUME Finite, BooksInv, [TreasuryNext]_treasuryVars PROVE BooksInv'
  OBVIOUS
<1>1. HInv' BY StepKeeps DEF BooksInv
<1> QED BY <1>1, FlowStep, OpenedStep, TypesStep, BalancesStep, OverdraftStep, ReadingStep,
     DiffStep, AttendedStep
     DEF BooksInv

LEMMA BooksInvariant == ASSUME Finite PROVE TreasurySpec => []BooksInv
BY BooksInvInit, BooksInvStep, PTL DEF TreasurySpec

\* Every variable of the intake, the books and the reconciliation keeps its type;
\* the wallet is never overdrawn and the server is up only after the opening
\* snapshot (ensureOpeningSnapshot).
THEOREM TreasuryTypeCorrect ==
  ASSUME Finite PROVE TreasurySpec => []TreasuryTypeOK
<1>1. BooksInv => TreasuryTypeOK BY DEF BooksInv
<1> QED BY <1>1, BooksInvariant, PTL

\* "Rejects (422) if the amount exceeds available balance" (create): what is in
\* flight or booked never exceeds the opening balance, unless a request inserted
\* between the balance and the insert of another, or a settlement turned FINAL
\* between the two queries of one balance.
THEOREM OverdraftNeedsARace ==
  ASSUME Finite PROVE TreasurySpec => []OverdraftIsARace
<1>1. BooksInv => OverdraftIsARace BY DEF BooksInv
<1> QED BY <1>1, BooksInvariant, PTL

\* Only a fault leaves a RECEIVED settlement without the request that screens it.
THEOREM OnlyFaultsAbandon ==
  ASSUME Finite PROVE TreasurySpec => []ReceivedIsAttended
<1>1. BooksInv => ReceivedIsAttended BY DEF BooksInv
<1> QED BY <1>1, BooksInvariant, PTL

\* ReconciliationService.run: a run during which nothing it reads moves reports
\* exactly the money the books cannot explain (in escrow, or paid by a transfer
\* whose hash no booked or pending row stores), less what they count twice or,
\* before the opening snapshot, do not know yet.
THEOREM DiffIsExact ==
  ASSUME Finite PROVE TreasurySpec => []DiffIsExplained
<1>1. BooksInv => DiffIsExplained BY DEF BooksInv
<1> QED BY <1>1, BooksInvariant, PTL

=============================================================================
