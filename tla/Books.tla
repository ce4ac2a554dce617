------------------------------- MODULE Books -------------------------------
(***************************************************************************)
(* The rail as its books see it: what each settlement is worth, where its  *)
(* status stands, what the ledger (ledger/ledger.service.ts) holds and     *)
(* what the operator's wallet holds. The relayer and the listener appear   *)
(* as the writes they make in order; their retries and races are the       *)
(* matter of Rail. Components that work with amounts extend this module.   *)
(***************************************************************************)
EXTENDS Integers, FiniteSetsExt

CONSTANTS
  Instructions,   \* the instruction ids: a settlement row has one, unique
  Transfers,      \* the transactions the relayer may sign, each with its own hash
  Null,           \* an absent value
  Opening,        \* the wallet's balance before the first boot
  Deal,           \* the amount a DvP deal locks in escrow
  MaxFaults       \* bound: exits of the process, rejected calls, reorganisations

ASSUME BooksAssumption ==
  /\ {Opening, Deal, MaxFaults} \subseteq Nat
  /\ Transfers \subseteq [of : Instructions, nonce : Nat, bid : Nat]
  /\ Null \notin Nat \cup Transfers
  /\ \A S \in (SUBSET Instructions) \cup (SUBSET Transfers) : Null # S

VARIABLES
  status,     \* the status of each settlement, "NONE" without a row
  amount,     \* what each settlement is worth
  txHash,     \* the transfer each row names, Null before the first
  booked,     \* the settlements with their ledger rows
  genesis,    \* the GENESIS ledger row, Null before the first boot
  queue,      \* the relayer's in-memory queue
  sent,       \* the transfers a node accepted
  paid,       \* the transfers on the chain
  escrow,     \* what the wallet put into the DvP escrow
  process,    \* "down", "booting" (the timers run, the server not yet) or "up"
  seen,       \* what the boot read of the wallet
  faults      \* how many faults may still happen

rows == <<status, amount, txHash>>
money == <<booked, genesis, paid, escrow>>
booksVars == <<rows, money, queue, sent, process, seen, faults>>

Statuses == {"NONE", "RECEIVED", "COMPLIANCE_APPROVED", "REJECTED_COMPLIANCE",
             "SUBMITTED", "CONFIRMED", "FINAL", "FAILED"}

\* Mutant: a received settlement draws on nothing.
InFlightNotReceived == {"COMPLIANCE_APPROVED", "SUBMITTED", "CONFIRMED"}

\* IN_FLIGHT_STATUSES and PENDING_STATUSES
InFlight == {"RECEIVED", "COMPLIANCE_APPROVED", "SUBMITTED", "CONFIRMED"}
Pending == {"SUBMITTED", "CONFIRMED"}

WithStatus(statuses) == {i \in Instructions : status[i] \in statuses}

\* SUM(amount)
Total(S) == MapThenSumSet(LAMBDA i : amount[i], S)

\* What a transfer moves.
Worth == [t \in Transfers |-> amount[t.of]]

Spent(S) == MapThenSumSet(LAMBDA t : Worth[t], S)

\* balanceOf(operator)
Wallet == Opening - Spent(paid) - escrow

\* The transfer the row names is mined, with success.
Mined(i) == txHash[i] \in paid

BooksInit ==
  /\ status = [i \in Instructions |-> "NONE"]
  /\ amount = [i \in Instructions |-> 0]
  /\ txHash = [i \in Instructions |-> Null]
  /\ booked = {}
  /\ genesis = Null
  /\ queue = {}
  /\ sent = {}
  /\ paid = {}
  /\ escrow = 0
  /\ process = "down"
  /\ seen = Null
  /\ faults = MaxFaults

Fault ==
  /\ faults > 0
  /\ faults' = faults - 1

----------------------------------------------------------------------------
(* Boot: the timers first (onModuleInit), then ensureOpeningSnapshot, then   *)
(* the server.                                                               *)

Boot ==
  /\ process = "down"
  /\ process' = "booting"
  /\ UNCHANGED <<rows, money, queue, sent, seen, faults>>

\* Mutant: the server does not wait for the snapshot.
SnapshotReadOnly ==
  /\ process = "booting"
  /\ process' = "up"
  /\ seen' = Wallet
  /\ UNCHANGED <<rows, money, queue, sent, faults>>

SnapshotRead ==
  /\ process = "booting"
  /\ seen = Null
  /\ IF genesis = Null
     THEN seen' = Wallet /\ UNCHANGED process
     ELSE process' = "up" /\ UNCHANGED seen
  /\ UNCHANGED <<rows, money, queue, sent, faults>>

SnapshotWrite ==
  /\ process = "booting"
  /\ seen # Null
  /\ genesis' = seen
  /\ process' = "up"
  /\ seen' = Null
  /\ UNCHANGED <<rows, booked, paid, escrow, queue, sent, faults>>

----------------------------------------------------------------------------
(* The relayer and the listener, in order. *)

Move(i, to) == status' = [status EXCEPT ![i] = to]

\* A transfer at localNonce: the nonces used have no gap.
Fresh(t) == t.nonce = Cardinality({u.nonce : u \in sent}) + 1

\* processJob: accepted, and the row names it.
Submit(t) ==
  /\ process = "up"
  /\ t.of \in queue
  /\ Fresh(t)
  /\ queue' = queue \ {t.of}
  /\ sent' = sent \cup {t}
  /\ txHash' = [txHash EXCEPT ![t.of] = t]
  /\ Move(t.of, "SUBMITTED")
  /\ UNCHANGED <<amount, money, process, seen, faults>>

\* Accepted, and the answer lost: the job is still the worker's, and its retry,
\* refused as known or as too low, goes on at a nonce of its own.
SubmitUnheard(t) ==
  /\ process = "up"
  /\ t.of \in queue
  /\ Fresh(t)
  /\ Fault
  /\ sent' = sent \cup {t}
  /\ UNCHANGED <<rows, money, queue, process, seen>>

\* bumpAndResend, or a resumed job: the same nonce, another hash, which replaces
\* the one the row names.
Resend(t) ==
  /\ process = "up"
  /\ status[t.of] = "SUBMITTED"
  /\ ~ Mined(t.of)
  /\ t \notin sent
  /\ t.nonce = txHash[t.of].nonce
  /\ \A u \in paid : u.nonce # t.nonce
  /\ sent' = sent \cup {t}
  /\ txHash' = [txHash EXCEPT ![t.of] = t]
  /\ UNCHANGED <<status, amount, money, queue, process, seen, faults>>

\* fail(): a permanent error, or retries used up while what the row names is not mined.
GiveUp(i) ==
  /\ process = "up"
  /\ i \in queue \/ (status[i] = "SUBMITTED" /\ ~ Mined(i))
  /\ queue' = queue \ {i}
  /\ Move(i, "FAILED")
  /\ UNCHANGED <<amount, txHash, money, sent, process, seen, faults>>

\* A transfer is mined, of its nonce the only one, also when it was given up or
\* replaced; USDC moves only what is there.
Mine(t) ==
  /\ t \in sent
  /\ \A u \in paid : u.nonce # t.nonce
  /\ Worth[t] <= Wallet
  /\ paid' = paid \cup {t}
  /\ UNCHANGED <<rows, booked, genesis, escrow, queue, sent, process, seen, faults>>

\* A reorganisation, shallower than finality, takes it back.
Unmine(t) ==
  /\ t \in paid
  /\ ~ (t.of \in booked /\ t = txHash[t.of])
  /\ Fault
  /\ paid' = paid \ {t}
  /\ UNCHANGED <<rows, booked, genesis, escrow, queue, sent, process, seen>>

\* processReceipt: CONFIRMED; handleReorg: back to SUBMITTED.
Confirm(i) ==
  /\ process = "up"
  /\ \/ status[i] = "SUBMITTED" /\ Mined(i) /\ Move(i, "CONFIRMED")
     \/ status[i] = "CONFIRMED" /\ ~ Mined(i) /\ Move(i, "SUBMITTED")
  /\ UNCHANGED <<amount, txHash, money, queue, sent, process, seen, faults>>

\* finalize: the ledger first (recordSettlementFinalized), the status after.
BookFinal(i) ==
  /\ process = "up"
  /\ status[i] \in Pending
  /\ Mined(i)
  /\ i \notin booked
  /\ booked' = booked \cup {i}
  /\ UNCHANGED <<rows, genesis, paid, escrow, queue, sent, process, seen, faults>>

WriteFinal(i) ==
  /\ process = "up"
  /\ status[i] \in Pending
  /\ i \in booked
  /\ Move(i, "FINAL")
  /\ UNCHANGED <<amount, txHash, money, queue, sent, process, seen, faults>>

----------------------------------------------------------------------------
(* DvP: funding a deal and its refund move the wallet, and no ledger row. *)

FundDeal ==
  /\ process = "up"
  /\ escrow = 0
  /\ Deal <= Wallet
  /\ escrow' = Deal
  /\ UNCHANGED <<rows, booked, genesis, paid, queue, sent, process, seen, faults>>

RefundDeal ==
  /\ escrow # 0
  /\ escrow' = 0
  /\ UNCHANGED <<rows, booked, genesis, paid, queue, sent, process, seen, faults>>

----------------------------------------------------------------------------
\* The process exits and forgets its queue.
Exit ==
  /\ process # "down"
  /\ Fault
  /\ process' = "down"
  /\ seen' = Null
  /\ queue' = {}
  /\ UNCHANGED <<rows, money, sent>>

BooksNext ==
  \/ Boot \/ SnapshotRead \/ SnapshotWrite
  \/ \E t \in Transfers : Submit(t) \/ SubmitUnheard(t) \/ Resend(t) \/ Mine(t) \/ Unmine(t)
  \/ \E i \in Instructions : GiveUp(i) \/ Confirm(i) \/ BookFinal(i) \/ WriteFinal(i)
  \/ FundDeal \/ RefundDeal

BooksTypeOK ==
  /\ status \in [Instructions -> Statuses]
  /\ amount \in [Instructions -> Nat]
  /\ txHash \in [Instructions -> Transfers \cup {Null}]
  /\ \A S \in {booked, queue} : S \subseteq Instructions
  /\ paid \subseteq sent /\ sent \subseteq Transfers
  /\ {genesis, seen} \subseteq Nat \cup {Null}
  /\ {escrow, Wallet, faults} \subseteq Nat
  /\ process \in {"down", "booting", "up"}
  /\ process = "up" => genesis # Null

=============================================================================
