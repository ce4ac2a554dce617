----------------------------- MODULE DvPEscrow -----------------------------
(***************************************************************************)
(* The escrow contract (contracts/contracts/DvPEscrow.sol) and the token   *)
(* it moves. A transaction runs alone and takes effect as a whole or       *)
(* reverts: a call is a condition under which it succeeds (the requires    *)
(* and the reverts) and an effect. A deal has one depositor, the operator, *)
(* who is also the settler, as in the rail's deployment.                   *)
(***************************************************************************)
EXTENDS Integers, FiniteSetsExt

CONSTANTS
  Deals,       \* the deal ids
  Funds,       \* the operator's USDC before the first deal
  MaxTime      \* bound: block.timestamp stops here

ASSUME EscrowAssumption == {Funds, MaxTime} \subseteq Nat

VARIABLES
  time,        \* block.timestamp of the latest block
  deals,       \* the contract's deals
  balance,     \* balanceOf
  allowance    \* allowance(operator, escrow)

escrowVars == <<time, deals, balance, allowance>>

Holders == {"operator", "escrow", "beneficiary", "payee"}

Deal == [amount : Nat, deadline : Nat, state : {"None", "Funded", "Released", "Refunded"}]
NoDeal == [amount |-> 0, deadline |-> 0, state |-> "None"]

EscrowTypeOK ==
  /\ {time, allowance} \subseteq Nat
  /\ deals \in [Deals -> Deal]
  /\ balance \in [Holders -> Nat]

EscrowInit ==
  /\ time = 0
  /\ deals = [d \in Deals |-> NoDeal]
  /\ balance = [h \in Holders |-> IF h = "operator" THEN Funds ELSE 0]
  /\ allowance = 0

----------------------------------------------------------------------------
(* The token. *)

CanMove(from, amount) == balance[from] >= amount

Move(from, to, amount) ==
  balance' = [balance EXCEPT ![from] = @ - amount, ![to] = @ + amount]

\* approve() sets the allowance and does not add to it.
Approve(amount) ==
  /\ allowance' = amount
  /\ UNCHANGED <<deals, balance>>

\* transfer() of the operator
Transfer(amount) ==
  /\ Move("operator", "payee", amount)
  /\ UNCHANGED <<deals, allowance>>

----------------------------------------------------------------------------
(* The contract. *)

CanFund(d, amount, deadline) ==
  /\ amount > 0
  /\ deadline > time
  /\ deals[d].state = "None"
  /\ allowance >= amount
  /\ CanMove("operator", amount)

Fund(d, amount, deadline) ==
  /\ deals' = [deals EXCEPT ![d] = [amount |-> amount, deadline |-> deadline, state |-> "Funded"]]
  /\ allowance' = allowance - amount
  /\ Move("operator", "escrow", amount)

\* The escrow can pay what the deal is worth.
CanPay(d) == CanMove("escrow", deals[d].amount)

CanRelease(d) ==
  /\ deals[d].state = "Funded"
  /\ time <= deals[d].deadline
  /\ CanPay(d)

Release(d) ==
  /\ deals' = [deals EXCEPT ![d].state = "Released"]
  /\ Move("escrow", "beneficiary", deals[d].amount)
  /\ UNCHANGED allowance

CanRefund(d) ==
  /\ deals[d].state = "Funded"
  /\ time > deals[d].deadline
  /\ CanPay(d)

\* Mutant: any deal may be cancelled.
CanCancelSettled(d) ==
  /\ deals[d].state # "None"
  /\ CanPay(d)

\* cancel() asks for no deadline: it is open beside release and beside refund.
CanCancel(d) ==
  /\ deals[d].state = "Funded"
  /\ CanPay(d)

Return(d) ==
  /\ deals' = [deals EXCEPT ![d].state = "Refunded"]
  /\ Move("escrow", "operator", deals[d].amount)
  /\ UNCHANGED allowance

----------------------------------------------------------------------------
(* What the contract must keep. *)

Worth(ds) == MapThenSumSet(LAMBDA d : deals[d].amount, ds)

InState(state) == {d \in Deals : deals[d].state = state}

\* The escrow holds what the funded deals are worth and the beneficiary what
\* the released ones are: no deal pays twice, or out of another deal's money.
MoneyFollowsDeals ==
  /\ balance["escrow"] = Worth(InState("Funded"))
  /\ balance["beneficiary"] = Worth(InState("Released"))
  /\ balance["operator"] + balance["payee"] = Funds - Worth(InState("Funded") \cup InState("Released"))

=============================================================================
