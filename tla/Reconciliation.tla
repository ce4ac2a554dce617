--------------------------- MODULE Reconciliation ---------------------------
(***************************************************************************)
(* ReconciliationService (reconciliation/reconciliation.service.ts): a run *)
(* reads the ledger, the wallet and the mined pending settlements at the   *)
(* same time, row by row, while all three move, and compares               *)
(* ledger - pending with the wallet. Its timer runs before the opening     *)
(* snapshot is written.                                                    *)
(***************************************************************************)
EXTENDS Books

VARIABLES
  recon,     \* run()'s local variables
  moved      \* history: something it reads changed since the run began

reconVars == <<recon, moved>>

ReconIdle == [pc |-> "idle", opening |-> 0, ledger |-> Null, chain |-> Null, list |-> Null, mined |-> {}, diff |-> 0]

ReconTypeOK ==
  /\ recon \in [pc : {"idle", "reading", "compared"}, opening : Nat,
                ledger : (SUBSET Instructions) \cup {Null}, chain : Nat \cup {Null},
                list : (SUBSET Transfers) \cup {Null}, mined : SUBSET Instructions, diff : Int]
  /\ moved \in BOOLEAN

ReconInit == recon = ReconIdle /\ moved = FALSE

\* The timer, started by onModuleInit, fires, or POST /reconcile is called.
ReconStart ==
  /\ process # "down"
  /\ recon.pc = "idle"
  /\ recon' = [recon EXCEPT !.pc = "reading"]
  /\ UNCHANGED booksVars

\* getOperatorBalance: the opening balance, zero without its row, and what is booked.
ReconLedger ==
  /\ recon.pc = "reading"
  /\ recon.ledger = Null
  /\ recon' = [recon EXCEPT !.ledger = booked, !.opening = IF genesis = Null THEN 0 ELSE genesis]
  /\ UNCHANGED booksVars

\* getChainBalance
ReconChain ==
  /\ recon.pc = "reading"
  /\ recon.chain = Null
  /\ recon' = [recon EXCEPT !.chain = Wallet]
  /\ UNCHANGED booksVars

\* computeMinedPending: the rows first, each with the transfer it names then; their
\* receipts one after the other.
ReconRows ==
  /\ recon.pc = "reading"
  /\ recon.list = Null
  /\ recon' = [recon EXCEPT !.list = {txHash[i] : i \in WithStatus(Pending)} \ {Null}]
  /\ UNCHANGED booksVars

\* Mutant: a row counts whichever of its transfers is mined.
ReconReceiptAny(t) ==
  /\ recon.pc = "reading"
  /\ recon.list # Null
  /\ t \in recon.list
  /\ recon' = [recon EXCEPT !.list = @ \ {t},
                            !.mined = IF \E u \in paid : u.of = t.of THEN @ \cup {t.of} ELSE @]
  /\ UNCHANGED booksVars

ReconReceipt(t) ==
  /\ recon.pc = "reading"
  /\ recon.list # Null
  /\ t \in recon.list
  /\ recon' = [recon EXCEPT !.list = @ \ {t}, !.mined = IF t \in paid THEN @ \cup {t.of} ELSE @]
  /\ UNCHANGED booksVars

\* The comparison and its record.
ReconCompare ==
  /\ recon.pc = "reading"
  /\ recon.ledger # Null
  /\ recon.chain # Null
  /\ recon.list = {}
  /\ recon' = [ReconIdle EXCEPT !.pc = "compared",
                 !.diff = recon.opening - Total(recon.ledger) - Total(recon.mined) - recon.chain]
  /\ UNCHANGED booksVars

\* The run ends. Nothing is corrected.
ReconEnd ==
  /\ recon.pc = "compared"
  /\ recon' = ReconIdle
  /\ UNCHANGED booksVars

ReconExit == recon' = ReconIdle

ReconNext ==
  \/ ReconStart \/ ReconLedger \/ ReconChain \/ ReconRows
  \/ \E t \in Transfers : ReconReceipt(t)
  \/ ReconCompare \/ ReconEnd

\* What the run reads.
Readable == <<genesis, booked, paid, escrow, txHash, WithStatus(Pending)>>

----------------------------------------------------------------------------
(* What a run tells. *)

\* Money that left the wallet and that nothing on the books explains: locked in
\* escrow, or paid by a transfer that no booked or pending row names, because it
\* was given up, replaced by another hash, or sent a second time.
Unexplained ==
  escrow + Spent(paid \ {txHash[i] : i \in booked \cup WithStatus(Pending)})

\* Money counted twice: in the ledger already, and pending still, until finalize
\* goes on to the status.
CountedTwice == Total(booked \cap WithStatus(Pending))

\* Money the ledger does not know yet: all of it, until the opening snapshot.
Unrecorded == IF genesis = Null THEN Opening ELSE 0

\* A run that nothing disturbs reports exactly the money the books cannot
\* explain, less what they count twice or do not know yet. (The one may hide the
\* other, "MATCHED while in flight" does not hold between booking and FINAL, and
\* a run before the opening snapshot reports the whole wallet.)
DiffIsExplained ==
  recon.pc = "compared" /\ ~ moved => recon.diff = Unexplained - CountedTwice - Unrecorded

=============================================================================
