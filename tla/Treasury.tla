------------------------------ MODULE Treasury ------------------------------
(***************************************************************************)
(* Intake, reconciliation and the movement of money in one process.        *)
(***************************************************************************)
EXTENDS Intake, Reconciliation

treasuryVars == <<booksVars, intakeVars, reconVars>>

TreasuryInit == BooksInit /\ IntakeInit /\ ReconInit

\* The history of the balances: a settlement is overlooked by one.
MoneyStep ==
  /\ BooksNext
  /\ UNCHANGED <<call, handed, recon>>
  /\ raced' = (raced \/ \E i \in Instructions :
                 status[i] # "FINAL" /\ status'[i] = "FINAL" /\ Overlooked(i))

IntakeStep == IntakeNext /\ UNCHANGED recon

ReconStep == ReconNext /\ UNCHANGED intakeVars

\* The process exits: every component loses its memory.
TreasuryExit == Exit /\ IntakeExit /\ ReconExit /\ UNCHANGED <<handed, raced>>

\* The history of a run of the reconciliation.
Moved == moved' = (recon'.pc # "idle" /\ (moved \/ Readable' # Readable))

TreasuryNext == (MoneyStep \/ IntakeStep \/ ReconStep \/ TreasuryExit) /\ Moved

TreasurySpec == TreasuryInit /\ [][TreasuryNext]_treasuryVars

TreasuryTypeOK == BooksTypeOK /\ IntakeTypeOK /\ ReconTypeOK

=============================================================================
