-------------------------------- MODULE Dvp --------------------------------
(***************************************************************************)
(* DvpService (dvp/dvp.service.ts): fund() and release() calls run         *)
(* concurrently, each transaction takes the provider's pending nonce       *)
(* (ethers: the nonce first, the broadcast later) and is waited for.       *)
(* The relayer sends the settlements' transfers from the same wallet, with *)
(* the nonce it keeps in memory (relayer/relayer.service.ts, processJob);  *)
(* its lost acknowledgements, gas bumps and recovery are the matter of     *)
(* Relayer.                                                                *)
(*                                                                         *)
(* A transaction is told from another by its user: the request that made   *)
(* it, or the settlement it pays. Fees are abstracted: at a nonce that is  *)
(* already pending a node may take the transaction or refuse it, and       *)
(* either of the two may be mined.                                         *)
(***************************************************************************)
EXTENDS DvPEscrow, Sequences

CONSTANTS
  Requests,     \* the POST /settlements/dvp and .../release requests
  Body,         \* what each asks for
  Transfers,    \* the settlements the relayer sends
  Amount,       \* what each of them is worth
  Cancelled,    \* bound: the deals the operator may cancel by hand
  Null,         \* an absent value
  Window,       \* deadlineSeconds
  MaxRetries,   \* the relayer's retry limit
  MaxFaults     \* bound: exits, lost answers, and refusals that say nothing of the nonce

Users == Requests \cup Transfers

ASSUME DvpAssumption ==
  /\ Body \in [Requests -> [op : {"fund", "release"}, deal : Deals, amount : Nat]]
  /\ Amount \in [Transfers -> Nat]
  /\ {Window, MaxRetries, MaxFaults} \subseteq Nat
  /\ Cancelled \subseteq Deals
  /\ \A r \in Requests : Body[r].op = "fund" => Body[r].amount > 0    \* @IsPositiveDecimal
  /\ Requests \cap Transfers = {} /\ Users \cap Deals = {}
  /\ Null \notin Nat \cup Users \cup {"Funded", "Released", "error"}

VARIABLES
  sent,         \* every transaction a node accepted
  mined,        \* the wallet's mined transactions by nonce, and how they ended
  call,         \* the local variables of each request's handler
  job,          \* what the relayer knows of each settlement
  localNonce,   \* the relayer's nonce
  disturbed,    \* history: the users whose work another user's overlapped
  faults        \* how many faults may still happen

walletVars == <<sent, mined>>
dvpVars == <<escrowVars, walletVars, call, job, localNonce, disturbed, faults>>

Actions == {"approve", "fund", "release", "transfer", "cancel"}
Tx == [nonce : Nat, by : Users \cup Deals, does : Actions, deadline : Nat]

NewCall == [pc |-> "new", tx |-> Null, deadline |-> 0, answer |-> Null]
NewJob == [status |-> "COMPLIANCE_APPROVED", nonce |-> Null, retries |-> 0]

DvpTypeOK ==
  /\ EscrowTypeOK
  /\ sent \subseteq Tx
  /\ mined \in Seq([tx : sent, ok : BOOLEAN])
  /\ call \in [Requests -> [
       pc : {"new", "allowance", "approve", "fund", "release", "send", "wait", "done"},
       tx : Tx \cup {Null}, deadline : Nat, answer : {Null, "Funded", "Released", "error"}]]
  /\ \A r \in Requests : call[r].pc = "wait" => call[r].tx \in sent
  /\ job \in [Transfers -> [
       status : {"COMPLIANCE_APPROVED", "SENDING", "SUBMITTED", "FAILED", "FORGOTTEN"},
       nonce : Nat \cup {Null}, retries : Nat]]
  /\ {localNonce, faults} \subseteq Nat
  /\ disturbed \subseteq Users

DvpInit ==
  /\ EscrowInit
  /\ sent = {}
  /\ mined = <<>>
  /\ call = [r \in Requests |-> NewCall]
  /\ job = [s \in Transfers |-> NewJob]
  /\ localNonce = 0
  /\ disturbed = {}
  /\ faults = MaxFaults

Fault ==
  /\ faults > 0
  /\ faults' = faults - 1

----------------------------------------------------------------------------
(* The node. *)

NextNonce == Len(mined)
Pending == {t \in sent : t.nonce >= NextNonce}
PendingNonces == {t.nonce : t \in Pending}

\* getTransactionCount(operator, 'pending')
PendingNonce ==
  NextNonce + Cardinality({n \in PendingNonces : NextNonce .. n \subseteq PendingNonces})

\* A node may take t; it must when nothing else of the wallet has the nonce.
MayAccept(t) == t.nonce >= NextNonce /\ t \notin sent
MayRefuse(t) == ~ MayAccept(t) \/ t.nonce \in PendingNonces

DealOf(t) == IF t.does = "cancel" THEN t.by ELSE Body[t.by].deal

\* Whether t would succeed in a block at this time (estimateGas, and when mined).
Succeeds(t) ==
  CASE t.does = "approve"  -> TRUE
    [] t.does = "fund"     -> CanFund(DealOf(t), Body[t.by].amount, t.deadline)
    [] t.does = "release"  -> CanRelease(DealOf(t))
    [] t.does = "cancel"   -> CanCancel(DealOf(t))
    [] t.does = "transfer" -> CanMove("operator", Amount[t.by])

Effect(t) ==
  CASE t.does = "approve"  -> Approve(Body[t.by].amount)
    [] t.does = "fund"     -> Fund(DealOf(t), Body[t.by].amount, t.deadline)
    [] t.does = "release"  -> Release(DealOf(t))
    [] t.does = "cancel"   -> Return(DealOf(t))
    [] t.does = "transfer" -> Transfer(Amount[t.by])

----------------------------------------------------------------------------
(* History: who works while another does. *)

Active(u) ==
  IF u \in Requests THEN call[u].pc \notin {"new", "done"}
  ELSE \/ job[u].status = "SENDING"
       \/ job[u].status = "SUBMITTED" /\ job[u].nonce >= NextNonce

\* Of a request only while it works.
Disturb(users) ==
  disturbed' = (disturbed \cup users) \ {r \in Requests : call'[r].pc = "done"}

Others(u) == {v \in Users \ {u} : Active(v)}

\* A step of u while others work.
StepOf(u) == Disturb(Others(u))

\* u starts; it is disturbed already when others work or left a transaction pending.
StartOf(u) == Disturb(Others(u) \cup IF Pending \cup Others(u) # {} THEN {u} ELSE {})

----------------------------------------------------------------------------
(* DvpService *)

Goto(r, pc) == call' = [call EXCEPT ![r].pc = pc]
Answer(c, a) ==
  [c EXCEPT !.pc = "done", !.tx = Null, !.answer = a, !.deadline = IF a = "Funded" THEN @ ELSE 0]
Throw(r) == call' = [call EXCEPT ![r] = Answer(@, "error")]

\* fund(): the deadline is counted from the latest block's timestamp.
StartFund(r) ==
  /\ call[r].pc = "new"
  /\ Body[r].op = "fund"
  /\ time + Window < MaxTime
  /\ call' = [call EXCEPT ![r].pc = "allowance", ![r].deadline = time + Window]
  /\ UNCHANGED <<escrowVars, walletVars, job, localNonce, faults>>
  /\ StartOf(r)

\* release(), of any deal: the escrow is the one that checks.
StartRelease(r) ==
  /\ call[r].pc = "new"
  /\ Body[r].op = "release"
  /\ Goto(r, "release")
  /\ UNCHANGED <<escrowVars, walletVars, job, localNonce, faults>>
  /\ StartOf(r)

ReadAllowance(r) ==
  /\ call[r].pc = "allowance"
  /\ Goto(r, IF allowance < Body[r].amount THEN "approve" ELSE "fund")
  /\ UNCHANGED <<escrowVars, walletVars, job, localNonce, faults>>
  /\ StepOf(r)

ReadNonce(r) ==
  /\ call[r].pc \in {"approve", "fund", "release"}
  /\ call' = [call EXCEPT ![r].pc = "send",
                ![r].tx = [nonce |-> PendingNonce, by |-> r, does |-> call[r].pc,
                           deadline |-> call[r].deadline]]
  /\ UNCHANGED <<escrowVars, walletVars, job, localNonce, faults>>
  /\ StepOf(r)

\* What wait(1) leads to.
Confirmed(c) ==
  CASE c.tx.does = "approve" -> [c EXCEPT !.pc = "fund", !.tx = Null]
    [] c.tx.does = "fund"    -> Answer(c, "Funded")
    [] c.tx.does = "release" -> Answer(c, "Released")

\* Mutant: the approval is not waited for.
SentApproval(c) == IF c.tx.does = "approve" THEN Confirmed(c) ELSE [c EXCEPT !.pc = "wait"]

\* Mutant: the answer is given at the broadcast.
SentAnswered(c) == IF c.tx.does # "approve" THEN Confirmed(c) ELSE [c EXCEPT !.pc = "wait"]

Sent(c) == [c EXCEPT !.pc = "wait"]

Broadcast(r) ==
  /\ call[r].pc = "send"
  /\ Succeeds(call[r].tx)
  /\ MayAccept(call[r].tx)
  /\ sent' = sent \cup {call[r].tx}
  /\ call' = [call EXCEPT ![r] = Sent(@)]
  /\ UNCHANGED <<escrowVars, mined, job, localNonce, faults>>
  /\ StepOf(r)

\* Mutant: a refused broadcast is waited for.
RefusedIsAwaited(r) ==
  /\ call[r].pc = "send"
  /\ ~ Succeeds(call[r].tx) \/ MayRefuse(call[r].tx)
  /\ Goto(r, "wait")
  /\ UNCHANGED <<escrowVars, walletVars, job, localNonce, faults>>
  /\ StepOf(r)

\* estimateGas rejects what would revert; nonce too low, underpriced
BroadcastRefused(r) ==
  /\ call[r].pc = "send"
  /\ ~ Succeeds(call[r].tx) \/ MayRefuse(call[r].tx)
  /\ Throw(r)
  /\ UNCHANGED <<escrowVars, walletVars, job, localNonce, faults>>
  /\ StepOf(r)

\* wait(1): a receipt; it rejects when the transaction reverted or was replaced.
Wait(r) ==
  LET c == call[r]
  IN  /\ c.pc = "wait"
      /\ c.tx.nonce < NextNonce
      /\ LET m == mined[c.tx.nonce + 1]
         IN  call' = [call EXCEPT ![r] = IF m = [tx |-> c.tx, ok |-> TRUE]
                                         THEN Confirmed(c) ELSE Answer(c, "error")]
      /\ UNCHANGED <<escrowVars, walletVars, job, localNonce, faults>>
      /\ StepOf(r)

\* An RPC call rejects; what was to be broadcast may have been accepted.
CallThrows(r) ==
  /\ Active(r)
  /\ Fault
  /\ Throw(r)
  /\ \/ UNCHANGED sent
     \/ /\ call[r].pc = "send"
        /\ Succeeds(call[r].tx)
        /\ MayAccept(call[r].tx)
        /\ sent' = sent \cup {call[r].tx}
  /\ UNCHANGED <<escrowVars, mined, job, localNonce>>
  /\ StepOf(r)

CallStep(r) ==
  \/ StartFund(r) \/ StartRelease(r) \/ ReadAllowance(r) \/ ReadNonce(r)
  \/ Broadcast(r) \/ BroadcastRefused(r) \/ Wait(r)

----------------------------------------------------------------------------
(* The relayer *)

TransferTx(s) == [nonce |-> job[s].nonce, by |-> s, does |-> "transfer", deadline |-> 0]

\* processJob takes localNonce; estimateGas rejects what the wallet cannot pay.
TakeJob(s) ==
  /\ job[s].status = "COMPLIANCE_APPROVED"
  /\ \A q \in Transfers : job[q].status # "SENDING"
  /\ CanMove("operator", Amount[s])
  /\ job' = [job EXCEPT ![s].status = "SENDING", ![s].nonce = localNonce]
  /\ UNCHANGED <<escrowVars, walletVars, call, localNonce, faults>>
  /\ StartOf(s)

SendTransfer(s) ==
  /\ job[s].status = "SENDING"
  /\ MayAccept(TransferTx(s))
  /\ sent' = sent \cup {TransferTx(s)}
  /\ job' = [job EXCEPT ![s] = [status |-> "SUBMITTED", nonce |-> job[s].nonce, retries |-> 0]]
  /\ localNonce' = localNonce + 1
  /\ UNCHANGED <<escrowVars, mined, call, faults>>
  /\ StepOf(s)

\* Mutant: a nonce that is too low is taken for the transfer's own.
ResyncTaken(s) ==
  /\ job[s].status = "SENDING"
  /\ ~ MayAccept(TransferTx(s))
  /\ job' = [job EXCEPT ![s].status = "SUBMITTED"]
  /\ UNCHANGED <<escrowVars, walletVars, call, localNonce, faults>>
  /\ StepOf(s)

\* The nonce is mined, or pending with another transaction ("nonce too low",
\* "already known", "replacement transaction underpriced"): retried with the
\* pending nonce.
Resync(s) ==
  /\ job[s].status = "SENDING"
  /\ MayRefuse(TransferTx(s))
  /\ job[s].retries < MaxRetries
  /\ localNonce' = PendingNonce
  /\ job' = [job EXCEPT ![s].nonce = PendingNonce, ![s].retries = @ + 1]
  /\ UNCHANGED <<escrowVars, walletVars, call, faults>>
  /\ StepOf(s)

\* A refusal that says nothing of the nonce ("fee too low", a transient error):
\* retried at the same nonce, with fees the model leaves out.
Retry(s) ==
  /\ job[s].status = "SENDING"
  /\ Fault
  /\ job[s].retries < MaxRetries
  /\ job' = [job EXCEPT ![s].retries = @ + 1]
  /\ UNCHANGED <<escrowVars, walletVars, call, localNonce>>
  /\ StepOf(s)

\* Either refusal, after MaxRetries of them.
GiveUp(s) ==
  /\ job[s].status = "SENDING"
  /\ job[s].retries = MaxRetries
  /\ (MayRefuse(TransferTx(s)) /\ UNCHANGED faults) \/ Fault
  /\ job' = [job EXCEPT ![s] = [NewJob EXCEPT !.status = "FAILED"]]
  /\ UNCHANGED <<escrowVars, walletVars, call, localNonce>>
  /\ StepOf(s)

RelayerStep(s) == TakeJob(s) \/ SendTransfer(s) \/ Resync(s) \/ Retry(s) \/ GiveUp(s)

----------------------------------------------------------------------------
(* The world. *)

Mine(t) ==
  /\ t \in sent
  /\ t.nonce = NextNonce
  /\ mined' = Append(mined, [tx |-> t, ok |-> Succeeds(t)])
  /\ IF Succeeds(t) THEN Effect(t) ELSE UNCHANGED <<deals, balance, allowance>>
  /\ UNCHANGED <<time, sent, call, job, localNonce, faults>>
  /\ StepOf(t.by)

Tick ==
  /\ time < MaxTime
  /\ time' = time + 1
  /\ UNCHANGED <<deals, balance, allowance, walletVars, call, job, localNonce, disturbed, faults>>

\* Anybody may call refund().
Refund(d) ==
  /\ CanRefund(d)
  /\ Return(d)
  /\ UNCHANGED <<time, walletVars, call, job, localNonce, faults>>
  /\ StepOf(Null)

\* The operator cancels a deal by hand, with the wallet's next nonce.
Cancel(d) ==
  /\ d \in Cancelled
  /\ CanCancel(d)
  /\ \A t \in sent : t.by # d
  /\ sent' = sent \cup {[nonce |-> PendingNonce, by |-> d, does |-> "cancel", deadline |-> 0]}
  /\ UNCHANGED <<escrowVars, mined, call, job, localNonce, faults>>
  /\ StepOf(d)

\* The process exits: the working calls fail, the boot reads the nonce again.
Exit ==
  /\ Fault
  /\ call' = [r \in Requests |-> IF Active(r) THEN Answer(call[r], "error") ELSE call[r]]
  /\ job' = [s \in Transfers |->
       IF job[s].status = "SENDING" THEN [NewJob EXCEPT !.status = "FORGOTTEN"] ELSE job[s]]
  /\ localNonce' = PendingNonce
  /\ UNCHANGED <<escrowVars, walletVars>>
  /\ StepOf(Null)

DvpNext ==
  \/ \E r \in Requests : CallStep(r) \/ CallThrows(r)
  \/ \E s \in Transfers : RelayerStep(s)
  \/ \E t \in sent : Mine(t)
  \/ Tick
  \/ \E d \in Deals : Refund(d) \/ Cancel(d)
  \/ Exit

DvpSpec == DvpInit /\ [][DvpNext]_dvpVars

----------------------------------------------------------------------------
(* What the service must keep. *)

\* A request is answered Funded only when the deal holds, or held, what it asked
\* for under the deadline it computed, and Released only when the beneficiary
\* was paid, whatever other calls, retries and replaced transactions did.
AnswersAreTrue ==
  \A r \in Requests :
    LET d == deals[Body[r].deal]
    IN  /\ call[r].answer = "Funded" =>
             /\ d.state # "None"
             /\ d.amount = Body[r].amount
             /\ d.deadline = call[r].deadline
        /\ call[r].answer = "Released" => d.state = "Released"

\* What makes a request impossible whoever else is there.
Impossible(r) ==
  LET d == Body[r].deal
  IN  IF Body[r].op = "fund"
      THEN \/ deals[d].state # "None"
           \/ balance["operator"] < Body[r].amount
           \/ time >= call[r].deadline
      ELSE deals[d].state # "Funded" \/ time > deals[d].deadline

\* A call that no other user of the wallet overlaps fails only for a reason of
\* its own: two of them race on the allowance and on the nonce, one alone does not.
LoneCallSucceeds ==
  [][\A r \in Requests :
       call'[r].answer = "error" /\ call[r].answer = Null =>
         r \in disturbed \/ Impossible(r) \/ faults' < faults]_dvpVars

\* relayer.service.ts: nonces are tracked locally, "any gap or reuse would wedge
\* the whole account". No nonce is used for two purposes, replaced or not.
NonceHasOneUser == \A t, u \in sent : t.nonce = u.nonce => t.by = u.by

\* The nonce of the settlement's transfer went to another transaction.
Displaced(s) ==
  /\ job[s].status = "SUBMITTED"
  /\ job[s].nonce < NextNonce
  /\ mined[job[s].nonce + 1].tx.by # s

\* The nonce the relayer keeps is stale after every DvP transaction: a transfer
\* that no other user of the wallet overlaps (no DvP call, no cancellation, no
\* other settlement's transfer) still finds its place by a single retry, so it is
\* given up only where MAX_RETRIES is 0 or a call failed.
LoneTransferIsMined ==
  \A s \in Transfers :
    Displaced(s) \/ (job[s].status = "FAILED" /\ MaxRetries > 0) =>
      s \in disturbed \/ faults < MaxFaults

=============================================================================
