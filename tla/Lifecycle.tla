----------------------------- MODULE Lifecycle -----------------------------
(***************************************************************************)
(* What a settlement promises to those who watch it (the trading system    *)
(* that consumes the events, the accountant who reads the ledger), without *)
(* relayer, listener, chain or process: a status, the announcements made   *)
(* so far and whether the ledger booked it.                                *)
(*                                                                         *)
(* A watcher of the chain decides in one step, when the status allows it,  *)
(* and announces in a later one, so that its announcement may come late:   *)
(* after others, of other watchers or of the relayer, which asks nobody.   *)
(***************************************************************************)
EXTENDS Sequences, FiniteSets

CONSTANTS Settlements, Watchers

VARIABLES
  status,    \* the status of each settlement
  told,      \* what was announced of it, oldest first
  booked,    \* the settlements in the ledger
  due        \* what was decided and not yet announced: by whom, of what, which status

lifecycleVars == <<status, told, booked, due>>

\* The statuses a settlement starts its way on the chain from.
Accepted == {"NONE", "COMPLIANCE_APPROVED"}

Begin ==
  /\ status = [s \in Settlements |-> "NONE"]
  /\ told = [s \in Settlements |-> <<>>]
  /\ booked = {}
  /\ due = {}

\* A new status and its announcement are one step.
Announce(s, to) ==
  /\ status' = [status EXCEPT ![s] = to]
  /\ told' = [told EXCEPT ![s] = Append(@, to)]
  /\ UNCHANGED booked

\* No announcement before the first broadcast.
Accept(s) ==
  /\ status[s] = "NONE"
  /\ status' = [status EXCEPT ![s] = "COMPLIANCE_APPROVED"]
  /\ UNCHANGED <<told, booked, due>>

\* The relayer broadcasts, again perhaps, or gives up: it announces that at any
\* time, but neither CONFIRMED nor FINAL.
Relayed(s) ==
  /\ status[s] # "NONE"
  /\ \E to \in {"SUBMITTED", "FAILED"} : Announce(s, to)
  /\ UNCHANGED due

\* What a watcher may decide on: a confirmation of what is submitted, its
\* withdrawal, and the end of what is under way.
From(to) == IF to = "CONFIRMED" THEN {"SUBMITTED"}
            ELSE IF to = "SUBMITTED" THEN {"CONFIRMED"}
            ELSE {"SUBMITTED", "CONFIRMED"}

\* One decision of a watcher at a time, and FINAL only for what is booked.
Decide(w, s, to) ==
  /\ \A d \in due : d.by # w
  /\ status[s] \in From(to)
  /\ to = "FINAL" => s \in booked
  /\ due' = due \cup {[by |-> w, of |-> s, to |-> to]}
  /\ UNCHANGED <<status, told, booked>>

\* Once for each decision, whatever was announced in between.
Watched(d) ==
  /\ d \in due
  /\ Announce(d.of, d.to)
  /\ due' = due \ {d}

\* The process exits, or a call rejects: what was decided is not announced.
Forget ==
  /\ due' \in SUBSET due
  /\ UNCHANGED <<status, told, booked>>

\* Booked once and for good, and not before it was broadcast.
Booking(s) ==
  /\ status[s] \notin Accepted
  /\ s \notin booked
  /\ booked' = booked \cup {s}
  /\ UNCHANGED <<status, told, due>>

Step ==
  \/ \E s \in Settlements : Accept(s) \/ Relayed(s) \/ Booking(s)
  \/ \E w \in Watchers, s \in Settlements, to \in {"SUBMITTED", "CONFIRMED", "FINAL", "FAILED"} :
       Decide(w, s, to)
  \/ \E d \in due : Watched(d)
  \/ Forget

LifecycleSpec == Begin /\ [][Step]_lifecycleVars

=============================================================================
