------------------------------- MODULE Intake -------------------------------
(***************************************************************************)
(* SettlementsService.create (settlements/settlements.service.ts): HTTP    *)
(* requests that run concurrently, each with its own awaits. The balance   *)
(* is two queries, of the ledger and of the settlements in flight, whose   *)
(* answers are of different moments; the insert comes after both.          *)
(***************************************************************************)
EXTENDS Books

CONSTANTS
  Requests,    \* the POST /settlements requests
  Body         \* what each asks for

ASSUME IntakeAssumption ==
  Body \in [Requests -> [instruction : Instructions, amount : Nat]]

VARIABLES
  call,      \* create()'s local variables, for each request
  handed,    \* history: how often each settlement was given to the relayer
  raced      \* history: a balance was computed from answers that miss a settlement

intakeVars == <<call, handed, raced>>

NewCall == [pc |-> "new", ledger |-> Null, open |-> Null]
Done == [NewCall EXCEPT !.pc = "done"]

IntakeTypeOK ==
  /\ call \in [Requests ->
       [pc : {"new", "balance", "screen", "enqueue", "done"},
        ledger : (SUBSET Instructions) \cup {Null}, open : (SUBSET Instructions) \cup {Null}]]
  /\ handed \in [Instructions -> Nat]
  /\ raced \in BOOLEAN

IntakeInit ==
  /\ call = [r \in Requests |-> NewCall]
  /\ handed = [i \in Instructions |-> 0]
  /\ raced = FALSE

Instruction(r) == Body[r].instruction

\* The fast path: the existing settlement is returned unchanged.
Lookup(r) ==
  /\ process = "up"
  /\ call[r].pc = "new"
  /\ call' = [call EXCEPT ![r].pc = IF status[Instruction(r)] = "NONE" THEN "balance" ELSE "done"]
  /\ UNCHANGED <<booksVars, handed, raced>>

\* getOperatorBalance: the opening balance less what is booked.
ReadLedger(r) ==
  /\ call[r].pc = "balance"
  /\ call[r].ledger = Null
  /\ call' = [call EXCEPT ![r].ledger = booked]
  /\ UNCHANGED <<booksVars, handed, raced>>

\* sumByStatuses(IN_FLIGHT_STATUSES)
ReadInFlight(r) ==
  /\ call[r].pc = "balance"
  /\ call[r].open = Null
  /\ call' = [call EXCEPT ![r].open = WithStatus(InFlight)]
  /\ UNCHANGED <<booksVars, handed, raced>>

Counted(r) == call[r].pc = "balance" /\ call[r].ledger # Null /\ call[r].open # Null

Affordable(r) ==
  Body[r].amount <= genesis - Total(call[r].ledger) - Total(call[r].open)

\* 422 InsufficientBalance
Refuse(r) ==
  /\ Counted(r)
  /\ ~ Affordable(r)
  /\ call' = [call EXCEPT ![r] = Done]
  /\ UNCHANGED <<booksVars, handed, raced>>

\* state.create: the row, under unique(instructionId).
\* Mutant: the insert is an upsert.
InsertAgain(r) ==
  /\ Counted(r)
  /\ Affordable(r)
  /\ status' = [status EXCEPT ![Instruction(r)] = "RECEIVED"]
  /\ amount' = [amount EXCEPT ![Instruction(r)] = Body[r].amount]
  /\ call' = [call EXCEPT ![r] = [NewCall EXCEPT !.pc = "screen"]]
  /\ raced' = (raced \/ \E q \in Requests \ {r} : call[q].pc = "balance" /\ call[q].open # Null)
  /\ UNCHANGED <<txHash, money, queue, sent, process, seen, faults, handed>>

Insert(r) ==
  /\ Counted(r)
  /\ Affordable(r)
  /\ status[Instruction(r)] = "NONE"
  /\ status' = [status EXCEPT ![Instruction(r)] = "RECEIVED"]
  /\ amount' = [amount EXCEPT ![Instruction(r)] = Body[r].amount]
  /\ call' = [call EXCEPT ![r] = [NewCall EXCEPT !.pc = "screen"]]
  /\ raced' = (raced \/ \E q \in Requests \ {r} : call[q].pc = "balance" /\ call[q].open # Null)
  /\ UNCHANGED <<txHash, money, queue, sent, process, seen, faults, handed>>

\* P2002: another request inserted the instruction first; its row is returned.
InsertRaced(r) ==
  /\ Counted(r)
  /\ Affordable(r)
  /\ status[Instruction(r)] # "NONE"
  /\ call' = [call EXCEPT ![r] = Done]
  /\ UNCHANGED <<booksVars, handed, raced>>

\* Mutant: the verdict is not written, only acted upon.
ScreenUnwritten(r) ==
  /\ call[r].pc = "screen"
  /\ \/ call' = [call EXCEPT ![r] = Done]
     \/ call' = [call EXCEPT ![r].pc = "enqueue"]
  /\ UNCHANGED <<booksVars, handed, raced>>

\* compliance.check, whose provider may be any, and the status it leads to.
Screen(r) ==
  /\ call[r].pc = "screen"
  /\ \/ /\ Move(Instruction(r), "REJECTED_COMPLIANCE")
        /\ call' = [call EXCEPT ![r] = Done]
     \/ /\ Move(Instruction(r), "COMPLIANCE_APPROVED")
        /\ call' = [call EXCEPT ![r].pc = "enqueue"]
  /\ UNCHANGED <<amount, txHash, money, queue, sent, process, seen, faults, handed, raced>>

\* relayer.enqueue
Enqueue(r) ==
  /\ call[r].pc = "enqueue"
  /\ queue' = queue \cup {Instruction(r)}
  /\ handed' = [handed EXCEPT ![Instruction(r)] = @ + 1]
  /\ call' = [call EXCEPT ![r] = Done]
  /\ UNCHANGED <<rows, money, sent, process, seen, faults, raced>>

\* A database call rejects, or what it wrote is not learnt: the request ends with
\* an error, the row stays as it is.
CallThrows(r) ==
  /\ call[r].pc \in {"balance", "screen", "enqueue"}
  /\ Fault
  /\ call' = [call EXCEPT ![r] = Done]
  /\ UNCHANGED <<rows, money, queue, sent, process, seen, handed, raced>>

\* The requests end with the process; those not begun come after it.
IntakeExit ==
  call' = [r \in Requests |-> IF call[r].pc = "new" THEN call[r] ELSE Done]

Step(r) ==
  \/ Lookup(r) \/ ReadLedger(r) \/ ReadInFlight(r) \/ Refuse(r)
  \/ Insert(r) \/ InsertRaced(r) \/ Screen(r) \/ Enqueue(r)

IntakeNext == \E r \in Requests : Step(r) \/ CallThrows(r)

\* A settlement that turns FINAL between the two queries of a balance is in
\* neither answer.
Overlooked(i) ==
  \E q \in Requests :
    /\ call[q].pc = "balance"
    /\ call[q].ledger # Null /\ i \notin call[q].ledger
    /\ call[q].open = Null

----------------------------------------------------------------------------
(* What the intake must keep. *)

\* An instruction reaches the relayer at most once, however many requests carry
\* it, however they interleave and wherever one fails (instructionId @unique).
HandedOnce == \A i \in Instructions : handed[i] <= 1

\* What the settlements in flight and in the ledger draw on.
Drawn == Total(WithStatus(InFlight) \cup booked)

\* "Rejects (422) if the amount exceeds available balance": the rail commits
\* more than it opened with only where a request inserted between the balance
\* and the insert of another, or a settlement turned FINAL between the two
\* queries of one balance.
OverdraftIsARace == ~ raced /\ genesis # Null => Drawn <= genesis

\* A settlement is RECEIVED only while the request that inserted it screens it.
\* When that request ends before, by an exit or a rejected call, nobody takes the
\* settlement up: a retry of the instruction is an idempotent hit that returns it.
ReceivedIsAttended ==
  \A i \in Instructions :
    status[i] = "RECEIVED" =>
      \/ \E r \in Requests : call[r].pc = "screen" /\ Instruction(r) = i
      \/ faults < MaxFaults

=============================================================================
