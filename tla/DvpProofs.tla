----------------------------- MODULE DvpProofs -----------------------------
(***************************************************************************)
(* Proofs about the DvP service, the escrow contract and the wallet they   *)
(* share with the relayer: for any number of requests, transfers and       *)
(* deals, money follows the deals, answers are true, and a user of the     *)
(* wallet that no other overlaps gets what it asked for.                   *)
(***************************************************************************)
EXTENDS Dvp, SumProofs, SequenceTheorems

----------------------------------------------------------------------------
(* The escrow contract. *)

\* What each deal is worth.
Amounts == [d \in Deals |-> deals[d].amount]

LEMMA WorthIsSum ==
  ASSUME IsFiniteSet(Deals), NEW S \in SUBSET Deals
  PROVE  Worth(S) = Sum(Amounts, S)
<1>. DEFINE e(g) == [s \in SUBSET S |-> IF s = {} THEN 0 ELSE deals[Next1(s)].amount + g[s \ {Next1(s)}]]
            h == CHOOSE g : g = e(g)
<1>1. Worth(S) = h[S] BY Zenon DEF Worth, MapThenSumSet, MapThenFoldSet, Next1
<1>2. ASSUME NEW g PROVE g = e(g) <=> Adds(g, Amounts, S)
  <2>. DEFINE a(s) == IF s = {} THEN 0 ELSE deals[Next1(s)].amount + g[s \ {Next1(s)}]
              b(s) == IF s = {} THEN 0 ELSE Amounts[Next1(s)] + g[s \ {Next1(s)}]
  <2>1. \A s \in SUBSET S : s # {} => Amounts[Next1(s)] = deals[Next1(s)].amount
    BY NextIsMember DEF Amounts
  <2>2. \A s \in SUBSET S : a(s) = b(s) BY <2>1, Zenon
  <2>3. e(g) = [s \in SUBSET S |-> a(s)] OBVIOUS
  <2>4. Adds(g, Amounts, S) <=> g = [s \in SUBSET S |-> b(s)] BY DEF Adds
  <2>. HIDE DEF a, b, e
  <2> QED BY <2>2, <2>3, <2>4
<1>3. IsFiniteSet(S) BY FS_Subset
<1>4. Adds(Folded(Amounts, S), Amounts, S) BY <1>3, FoldExists
<1>5. \E g : g = e(g)
  <2>. HIDE DEF e
  <2> QED BY <1>2, <1>4
<1>6. h = e(h)
  <2>. HIDE DEF e
  <2> QED BY <1>5, Zenon
<1>. HIDE DEF e, h
<1>7. Adds(h, Amounts, S) BY <1>2, <1>6
<1>8. h[S] = Folded(Amounts, S)[S] BY <1>3, <1>4, <1>7, FoldsAgree
<1> QED BY <1>1, <1>8, SumIsFold

\* MoneyFollowsDeals as sums.
MoneyIs ==
  MoneyFollowsDeals <=>
    /\ balance["escrow"] = Sum(Amounts, InState("Funded"))
    /\ balance["beneficiary"] = Sum(Amounts, InState("Released"))
    /\ balance["operator"] + balance["payee"] = Funds - Sum(Amounts, InState("Funded") \cup InState("Released"))

LEMMA MoneyIsSums == IsFiniteSet(Deals) => MoneyIs
<1> SUFFICES ASSUME IsFiniteSet(Deals) PROVE MoneyIs OBVIOUS
<1>1. /\ InState("Funded") \in SUBSET Deals /\ InState("Released") \in SUBSET Deals
      /\ InState("Funded") \cup InState("Released") \in SUBSET Deals
  BY DEF InState
<1> QED BY <1>1, WorthIsSum DEF MoneyIs, MoneyFollowsDeals

LEMMA MoneyIsSumsNext == ASSUME IsFiniteSet(Deals) PROVE MoneyIs'
BY MoneyIsSums, PTL

\* What a transaction, or a refund by anybody, can do to the contract and the token.
ContractStep ==
  \/ /\ UNCHANGED <<deals, balance>> /\ allowance' \in Nat
  \/ \E d \in Deals : \E a \in Nat : \E deadline \in Nat : CanFund(d, a, deadline) /\ Fund(d, a, deadline)
  \/ \E d \in Deals : CanRelease(d) /\ Release(d)
  \/ \E d \in Deals : CanCancel(d) /\ Return(d)
  \/ \E a \in Nat : CanMove("operator", a) /\ Transfer(a)

LEMMA ContractTypes ==
  ASSUME EscrowTypeOK, ContractStep, time' \in Nat
  PROVE  EscrowTypeOK'
<1>1. /\ deals \in [Deals -> Deal] /\ balance \in [Holders -> Nat] /\ allowance \in Nat
  BY DEF EscrowTypeOK
<1>2. ASSUME NEW from \in Holders, NEW to \in Holders \ {from}, NEW a \in Nat, CanMove(from, a), Move(from, to, a)
      PROVE  balance' \in [Holders -> Nat]
  BY <1>1, <1>2 DEF CanMove, Move
<1>3. {"operator", "escrow", "beneficiary", "payee"} \subseteq Holders BY DEF Holders
<1>4. \A d \in Deals : deals[d].amount \in Nat /\ deals[d] \in Deal BY <1>1 DEF Deal
<1>5. CASE UNCHANGED <<deals, balance>> /\ allowance' \in Nat
  BY <1>1, <1>5 DEF EscrowTypeOK
<1>6. ASSUME NEW d \in Deals, NEW a \in Nat, NEW deadline \in Nat, CanFund(d, a, deadline), Fund(d, a, deadline)
      PROVE EscrowTypeOK'
  <2>1. balance' \in [Holders -> Nat] BY <1>2, <1>3, <1>6 DEF CanFund, Fund
  <2>2. [amount |-> a, deadline |-> deadline, state |-> "Funded"] \in Deal BY DEF Deal
  <2>3. deals' \in [Deals -> Deal]
    <3>1. deals' = [deals EXCEPT ![d] = [amount |-> a, deadline |-> deadline, state |-> "Funded"]]
      BY <1>6 DEF Fund
    <3>. HIDE DEF Deal
    <3> QED BY <1>1, <2>2, <3>1
  <2>4. allowance' \in Nat BY <1>1, <1>6 DEF CanFund, Fund
  <2> QED BY <2>1, <2>3, <2>4 DEF EscrowTypeOK
<1>7. ASSUME NEW d \in Deals, (CanRelease(d) /\ Release(d)) \/ (CanCancel(d) /\ Return(d))
      PROVE EscrowTypeOK'
  <2>1. balance' \in [Holders -> Nat]
    BY <1>2, <1>3, <1>4, <1>7 DEF CanRelease, Release, CanCancel, Return, CanPay
  <2>2. PICK state \in {"Released", "Refunded"} : deals' = [deals EXCEPT ![d].state = state]
    BY <1>7 DEF Release, Return
  <2>3. deals' \in [Deals -> Deal] BY <1>1, <2>2 DEF Deal
  <2>4. allowance' = allowance BY <1>7 DEF Release, Return
  <2> QED BY <1>1, <2>1, <2>3, <2>4 DEF EscrowTypeOK
<1>8. ASSUME NEW a \in Nat, CanMove("operator", a), Transfer(a) PROVE EscrowTypeOK'
  <2>1. balance' \in [Holders -> Nat] BY <1>2, <1>3, <1>8 DEF Transfer
  <2> QED BY <1>1, <1>8, <2>1 DEF EscrowTypeOK, Transfer
<1> QED BY <1>5, <1>6, <1>7, <1>8 DEF ContractStep

\* A deal once funded keeps its terms, and once settled stays settled.
DealKept(d) ==
  deals[d].state # "None" =>
    /\ deals'[d].state # "None"
    /\ deals'[d].amount = deals[d].amount
    /\ deals'[d].deadline = deals[d].deadline
    /\ deals[d].state # "Funded" => deals'[d].state = deals[d].state

LEMMA DealsKept == ASSUME EscrowTypeOK, ContractStep PROVE \A d \in Deals : DealKept(d)
<1>1. deals \in [Deals -> Deal] BY DEF EscrowTypeOK
<1>2. CASE UNCHANGED deals BY <1>2 DEF DealKept
<1>3. ASSUME NEW d \in Deals, NEW a \in Nat, NEW deadline \in Nat, CanFund(d, a, deadline), Fund(d, a, deadline)
      PROVE \A e \in Deals : DealKept(e)
  BY <1>1, <1>3 DEF CanFund, Fund, DealKept, Deal
<1>4. ASSUME NEW d \in Deals, (CanRelease(d) /\ Release(d)) \/ (CanCancel(d) /\ Return(d))
      PROVE \A e \in Deals : DealKept(e)
  BY <1>1, <1>4 DEF CanRelease, Release, CanCancel, Return, DealKept, Deal
<1> QED BY <1>2, <1>3, <1>4 DEF ContractStep, Transfer

\* The escrow holds what the funded deals are worth, the beneficiary what the
\* released ones are.
LEMMA MoneyStep ==
  ASSUME IsFiniteSet(Deals), EscrowTypeOK, MoneyFollowsDeals, ContractStep
  PROVE  MoneyFollowsDeals'
<1>1. deals \in [Deals -> Deal] /\ balance \in [Holders -> Nat] BY DEF EscrowTypeOK
<1>2. Funds \in Nat BY EscrowAssumption
<1>3. PICK a, F, R : a = Amounts /\ F = InState("Funded") /\ R = InState("Released") OBVIOUS
<1>4. PICK b, G, S : b = Amounts' /\ G = InState("Funded")' /\ S = InState("Released")' OBVIOUS
<1>5. /\ balance["escrow"] = Sum(a, F) /\ balance["beneficiary"] = Sum(a, R)
      /\ balance["operator"] + balance["payee"] = Funds - Sum(a, F \cup R)
  BY <1>3, MoneyIsSums DEF MoneyIs
<1>6. SUFFICES /\ balance'["escrow"] = Sum(b, G) /\ balance'["beneficiary"] = Sum(b, S)
               /\ balance'["operator"] + balance'["payee"] = Funds - Sum(b, G \cup S)
  BY <1>4, MoneyIsSumsNext DEF MoneyIs
<1>7. /\ F = {d \in Deals : deals[d].state = "Funded"} /\ R = {d \in Deals : deals[d].state = "Released"}
      /\ G = {d \in Deals : deals'[d].state = "Funded"} /\ S = {d \in Deals : deals'[d].state = "Released"}
      /\ a = [d \in Deals |-> deals[d].amount] /\ b = [d \in Deals |-> deals'[d].amount]
  BY <1>3, <1>4 DEF InState, Amounts
<1>8. /\ F \in SUBSET Deals /\ R \in SUBSET Deals /\ G \in SUBSET Deals /\ S \in SUBSET Deals
      /\ \A d \in Deals : a[d] \in Nat /\ a[d] \in Int
  BY <1>1, <1>7 DEF Deal
<1>9. \A T \in SUBSET Deals : IsFiniteSet(T) /\ Sum(a, T) \in Nat
  BY <1>8, FS_Subset, SumOfNaturals
<1>10. /\ "operator" \in Holders /\ "escrow" \in Holders /\ "beneficiary" \in Holders /\ "payee" \in Holders
  BY DEF Holders
<1>11. \A h \in Holders : balance[h] \in Nat BY <1>1
<1>12. CASE UNCHANGED <<deals, balance>>
  BY <1>5, <1>7, <1>12
<1>13. ASSUME NEW d \in Deals, NEW amount \in Nat, NEW deadline \in Nat,
              CanFund(d, amount, deadline), Fund(d, amount, deadline)
       PROVE  /\ balance'["escrow"] = Sum(b, G) /\ balance'["beneficiary"] = Sum(b, S)
              /\ balance'["operator"] + balance'["payee"] = Funds - Sum(b, G \cup S)
  <2>1. /\ deals[d].state = "None"
        /\ deals' = [deals EXCEPT ![d] = [amount |-> amount, deadline |-> deadline, state |-> "Funded"]]
        /\ balance' = [balance EXCEPT !["operator"] = @ - amount, !["escrow"] = @ + amount]
    BY <1>13 DEF CanFund, Fund, Move
  <2>2. /\ d \notin F /\ d \notin R /\ G = F \cup {d} /\ S = R
        /\ b[d] = amount /\ \A e \in Deals \ {d} : b[e] = a[e]
    BY <1>1, <1>7, <2>1
  <2>3. \A T \in SUBSET (Deals \ {d}) : Sum(b, T) = Sum(a, T)
    <3>1. IsFiniteSet(Deals \ {d}) BY <1>9
    <3> QED BY <2>2, <3>1, SumSame
  <2>4. \A T \in SUBSET (Deals \ {d}) : Sum(b, T \cup {d}) = amount + Sum(a, T)
    <3> SUFFICES ASSUME NEW T \in SUBSET (Deals \ {d}) PROVE Sum(b, T \cup {d}) = amount + Sum(a, T) OBVIOUS
    <3>1. IsFiniteSet(T) /\ d \notin T /\ \A e \in T \cup {d} : b[e] \in Int
      <4>1. T \in SUBSET Deals OBVIOUS
      <4>2. \A e \in T : b[e] = a[e] BY <2>2
      <4>3. \A e \in T : a[e] \in Int BY <1>8
      <4>4. b[d] \in Int BY <2>2
      <4> QED BY <1>9, <4>1, <4>2, <4>3, <4>4
    <3>2. Sum(b, T \cup {d}) = b[d] + Sum(b, T) BY <3>1, SumAddsOne
    <3> QED BY <2>2, <2>3, <3>2
  <2>5. F \in SUBSET (Deals \ {d}) /\ R \in SUBSET (Deals \ {d}) /\ F \cup R \in SUBSET (Deals \ {d})
    BY <1>8, <2>2
  <2>6. G \cup S = (F \cup R) \cup {d} BY <2>2
  <2>7. Sum(b, G) = amount + Sum(a, F) /\ Sum(b, S) = Sum(a, R) /\ Sum(b, G \cup S) = amount + Sum(a, F \cup R)
    BY <2>2, <2>3, <2>4, <2>5, <2>6
  <2>8. /\ balance'["escrow"] = balance["escrow"] + amount /\ balance'["beneficiary"] = balance["beneficiary"]
        /\ balance'["operator"] = balance["operator"] - amount /\ balance'["payee"] = balance["payee"]
    BY <1>1, <1>10, <2>1
  <2>9. Sum(a, F) \in Nat /\ Sum(a, R) \in Nat /\ Sum(a, F \cup R) \in Nat
    <3>1. F \cup R \in SUBSET Deals BY <1>8
    <3> QED BY <1>8, <1>9, <3>1
  <2> QED BY <1>2, <1>5, <1>10, <1>11, <2>7, <2>8, <2>9
\* A funded deal that is paid out.
<1>14. ASSUME NEW d \in Deals, deals[d].state = "Funded"
       PROVE  /\ Sum(a, F) = a[d] + Sum(a, F \ {d}) /\ d \in F /\ d \notin R /\ a[d] = deals[d].amount /\ a[d] \in Nat
              /\ Sum(a, R \cup {d}) = a[d] + Sum(a, R)
              /\ Sum(a, F \cup R) = a[d] + Sum(a, (F \cup R) \ {d})
              /\ Sum(a, F \ {d}) \in Nat /\ Sum(a, R) \in Nat /\ Sum(a, (F \cup R) \ {d}) \in Nat
  <2>1. d \in F /\ d \notin R /\ a[d] = deals[d].amount /\ a[d] \in Nat BY <1>7, <1>8, <1>14
  <2>2. Sum(a, F) = a[d] + Sum(a, F \ {d}) BY <1>8, <1>9, <2>1, SumTakesOut
  <2>3. Sum(a, R \cup {d}) = a[d] + Sum(a, R) BY <1>8, <1>9, <2>1, SumAddsOne
  <2>4. F \cup R \in SUBSET Deals /\ d \in F \cup R /\ F \ {d} \in SUBSET Deals /\ (F \cup R) \ {d} \in SUBSET Deals
    BY <1>8, <2>1
  <2>5. Sum(a, F \cup R) = a[d] + Sum(a, (F \cup R) \ {d}) BY <1>8, <1>9, <2>4, SumTakesOut
  <2> QED BY <1>8, <1>9, <2>1, <2>2, <2>3, <2>4, <2>5
<1>15. ASSUME NEW d \in Deals, CanRelease(d), Release(d)
       PROVE  /\ balance'["escrow"] = Sum(b, G) /\ balance'["beneficiary"] = Sum(b, S)
              /\ balance'["operator"] + balance'["payee"] = Funds - Sum(b, G \cup S)
  <2>1. /\ deals[d].state = "Funded" /\ deals' = [deals EXCEPT ![d].state = "Released"]
        /\ balance' = [balance EXCEPT !["escrow"] = @ - deals[d].amount, !["beneficiary"] = @ + deals[d].amount]
    BY <1>15 DEF CanRelease, Release, Move
  <2>2. b = a /\ G = F \ {d} /\ S = R \cup {d}
    <3>1. \A e \in Deals : deals'[e].amount = deals[e].amount BY <1>1, <2>1 DEF Deal
    <3>2. b = a BY <1>7, <3>1
    <3>3. \A e \in Deals : deals'[e].state = IF e = d THEN "Released" ELSE deals[e].state
      BY <1>1, <2>1 DEF Deal
    <3> QED BY <1>7, <2>1, <3>2, <3>3
  <2>3. G \cup S = F \cup R BY <1>14, <2>1, <2>2
  <2>4. /\ balance'["escrow"] = balance["escrow"] - deals[d].amount
        /\ balance'["beneficiary"] = balance["beneficiary"] + deals[d].amount
        /\ balance'["operator"] = balance["operator"] /\ balance'["payee"] = balance["payee"]
    BY <1>1, <1>10, <2>1
  <2>5. PICK w, x, y, z : w = a[d] /\ x = Sum(a, F \ {d}) /\ y = Sum(a, R) /\ z = Sum(a, F \cup R) OBVIOUS
  <2>6. w \in Nat /\ x \in Nat /\ y \in Nat /\ w = deals[d].amount /\ Sum(a, F) = w + x /\ Sum(a, R \cup {d}) = w + y
    BY <1>14, <2>1, <2>5
  <2>7. balance["escrow"] = w + x /\ balance["beneficiary"] = y /\ balance["operator"] + balance["payee"] = Funds - z
    BY <1>5, <2>5, <2>6
  <2>8. Sum(b, G) = x /\ Sum(b, S) = w + y /\ Sum(b, G \cup S) = z BY <2>2, <2>3, <2>5, <2>6
  <2> QED BY <2>4, <2>6, <2>7, <2>8
<1>16. ASSUME NEW d \in Deals, CanCancel(d), Return(d)
       PROVE  /\ balance'["escrow"] = Sum(b, G) /\ balance'["beneficiary"] = Sum(b, S)
              /\ balance'["operator"] + balance'["payee"] = Funds - Sum(b, G \cup S)
  <2>1. /\ deals[d].state = "Funded" /\ deals' = [deals EXCEPT ![d].state = "Refunded"]
        /\ balance' = [balance EXCEPT !["escrow"] = @ - deals[d].amount, !["operator"] = @ + deals[d].amount]
    BY <1>16 DEF CanCancel, Return, Move
  <2>2. b = a /\ G = F \ {d} /\ S = R
    <3>1. \A e \in Deals : deals'[e].amount = deals[e].amount BY <1>1, <2>1 DEF Deal
    <3>2. b = a BY <1>7, <3>1
    <3>3. \A e \in Deals : deals'[e].state = IF e = d THEN "Refunded" ELSE deals[e].state
      BY <1>1, <2>1 DEF Deal
    <3> QED BY <1>7, <2>1, <3>2, <3>3
  <2>3. G \cup S = (F \cup R) \ {d} BY <1>14, <2>1, <2>2
  <2>4. /\ balance'["escrow"] = balance["escrow"] - deals[d].amount
        /\ balance'["beneficiary"] = balance["beneficiary"]
        /\ balance'["operator"] = balance["operator"] + deals[d].amount /\ balance'["payee"] = balance["payee"]
    BY <1>1, <1>10, <2>1
  <2>5. PICK w, x, y, z : w = a[d] /\ x = Sum(a, F \ {d}) /\ y = Sum(a, R) /\ z = Sum(a, (F \cup R) \ {d}) OBVIOUS
  <2>6. w \in Nat /\ x \in Nat /\ z \in Nat /\ w = deals[d].amount /\ Sum(a, F) = w + x /\ Sum(a, F \cup R) = w + z
    BY <1>14, <2>1, <2>5
  <2>7. balance["escrow"] = w + x /\ balance["beneficiary"] = y /\ balance["operator"] + balance["payee"] = Funds - (w + z)
    BY <1>5, <2>5, <2>6
  <2>8. Sum(b, G) = x /\ Sum(b, S) = y /\ Sum(b, G \cup S) = z BY <2>2, <2>3, <2>5
  <2>9. balance["operator"] \in Nat /\ balance["payee"] \in Nat BY <1>10, <1>11
  <2> QED BY <1>2, <2>4, <2>6, <2>7, <2>8, <2>9
<1>17. ASSUME NEW amount \in Nat, Transfer(amount)
       PROVE  /\ balance'["escrow"] = Sum(b, G) /\ balance'["beneficiary"] = Sum(b, S)
              /\ balance'["operator"] + balance'["payee"] = Funds - Sum(b, G \cup S)
  <2>1. UNCHANGED deals /\ balance' = [balance EXCEPT !["operator"] = @ - amount, !["payee"] = @ + amount]
    BY <1>17 DEF Transfer, Move
  <2>2. b = a /\ G = F /\ S = R BY <1>7, <2>1
  <2>3. /\ balance'["escrow"] = balance["escrow"] /\ balance'["beneficiary"] = balance["beneficiary"]
        /\ balance'["operator"] = balance["operator"] - amount /\ balance'["payee"] = balance["payee"] + amount
    BY <1>1, <1>10, <2>1
  <2> QED BY <1>2, <1>5, <1>10, <1>11, <2>2, <2>3
<1> QED BY <1>12, <1>13, <1>15, <1>16, <1>17 DEF ContractStep

----------------------------------------------------------------------------
(* What a request's step does to its local variables. *)

Pcs == {"new", "allowance", "approve", "fund", "release", "send", "wait", "done"}
Answers == {Null, "Funded", "Released", "error"}
Calls == [pc : Pcs, tx : Tx \cup {Null}, deadline : Nat, answer : Answers]

\* A call c after it took the values of its four variables.
Is(c, pc, tx, deadline, answer) ==
  c.pc = pc /\ c.tx = tx /\ c.deadline = deadline /\ c.answer = answer

LEMMA AnswerIs ==
  ASSUME NEW c \in Calls, NEW a \in Answers
  PROVE  /\ Answer(c, a) \in Calls
         /\ Is(Answer(c, a), "done", Null, IF a = "Funded" THEN c.deadline ELSE 0, a)
<1>. DEFINE dl == IF a = "Funded" THEN c.deadline ELSE 0
            T == Tx \cup {Null}
<1>1. dl \in Nat /\ Null \in T /\ "done" \in Pcs BY DEF Calls, Pcs
<1>2. c \in [pc : Pcs, tx : T, deadline : Nat, answer : Answers] BY DEF Calls
<1>3. Answer(c, a) = [c EXCEPT !.pc = "done", !.tx = Null, !.answer = a, !.deadline = dl]
  BY Zenon DEF Answer
<1>. HIDE DEF dl, T
<1>4. /\ Answer(c, a) \in [pc : Pcs, tx : T, deadline : Nat, answer : Answers]
      /\ Answer(c, a).pc = "done" /\ Answer(c, a).tx = Null /\ Answer(c, a).answer = a /\ Answer(c, a).deadline = dl
  BY <1>1, <1>2, <1>3
<1> QED BY <1>4 DEF Calls, Is, dl, T

\* What a step may find in a request's variables.
CallFits(r) ==
  LET c == call[r]
  IN  /\ c.pc \in {"send", "wait"} =>
           /\ c.tx \in Tx /\ c.tx.by = r /\ c.tx.deadline = c.deadline
           /\ c.tx.does \in IF Body[r].op = "fund" THEN {"approve", "fund"} ELSE {"release"}
      /\ c.pc \in {"allowance", "approve", "fund"} => Body[r].op = "fund"
      /\ c.pc = "release" => Body[r].op = "release"
      /\ c.pc # "done" => c.answer = Null

\* The outcomes of the eight steps, by what becomes of the call's variables.
CallMove(r) ==
  LET c == call[r]
      d == call'[r]
  IN  \/ StartFund(r) /\ Is(d, "allowance", c.tx, time + Window, c.answer)
      \/ StartRelease(r) /\ Is(d, "release", c.tx, c.deadline, c.answer)
      \/ ReadAllowance(r) /\ allowance < Body[r].amount /\ Is(d, "approve", c.tx, c.deadline, c.answer)
      \/ ReadAllowance(r) /\ allowance >= Body[r].amount /\ Is(d, "fund", c.tx, c.deadline, c.answer)
      \/ /\ ReadNonce(r)
         /\ Is(d, "send", [nonce |-> PendingNonce, by |-> r, does |-> c.pc, deadline |-> c.deadline],
               c.deadline, c.answer)
      \/ Broadcast(r) /\ Is(d, "wait", c.tx, c.deadline, c.answer)
      \/ BroadcastRefused(r) /\ Is(d, "done", Null, 0, "error")
      \/ /\ Wait(r)
         /\ mined[c.tx.nonce + 1] = [tx |-> c.tx, ok |-> TRUE]
         /\ \/ c.tx.does = "approve" /\ Is(d, "fund", Null, c.deadline, c.answer)
            \/ c.tx.does = "fund" /\ Is(d, "done", Null, c.deadline, "Funded")
            \/ c.tx.does = "release" /\ Is(d, "done", Null, 0, "Released")
      \/ Wait(r) /\ mined[c.tx.nonce + 1] # [tx |-> c.tx, ok |-> TRUE] /\ Is(d, "done", Null, 0, "error")
      \/ CallThrows(r) /\ Is(d, "done", Null, 0, "error")

LEMMA CallMoves ==
  ASSUME time \in Nat, allowance \in Nat, PendingNonce \in Nat, call \in [Requests -> Calls],
         NEW r \in Requests, CallFits(r), CallStep(r) \/ CallThrows(r)
  PROVE  /\ call' \in [Requests -> Calls]
         /\ \A q \in Requests \ {r} : call'[q] = call[q]
         /\ CallMove(r)
<1>1. call[r] \in Calls OBVIOUS
<1>2. PICK c : c = call[r] OBVIOUS
<1>3. /\ c \in Calls /\ c.pc \in Pcs /\ c.tx \in Tx \cup {Null} /\ c.deadline \in Nat /\ c.answer \in Answers
  BY <1>1, <1>2 DEF Calls
<1>4. ASSUME NEW d \in Calls, call' = [call EXCEPT ![r] = d]
      PROVE  call'[r] = d /\ call' \in [Requests -> Calls] /\ \A q \in Requests \ {r} : call'[q] = call[q]
  <2>. HIDE DEF Calls
  <2> QED BY <1>4
<1>5. ASSUME NEW pc \in Pcs
      PROVE  [c EXCEPT !.pc = pc] \in Calls /\ Is([c EXCEPT !.pc = pc], pc, c.tx, c.deadline, c.answer)
  <2>. DEFINE T == Tx \cup {Null}
  <2>1. c \in [pc : Pcs, tx : T, deadline : Nat, answer : Answers] BY <1>3 DEF Calls
  <2>. HIDE DEF T
  <2>2. [c EXCEPT !.pc = pc] \in [pc : Pcs, tx : T, deadline : Nat, answer : Answers] BY <2>1
  <2> QED BY <2>1, <2>2 DEF T, Is, Calls
<1>6. ASSUME NEW pc \in Pcs, Goto(r, pc)
      PROVE  /\ call' \in [Requests -> Calls] /\ \A q \in Requests \ {r} : call'[q] = call[q]
             /\ Is(call'[r], pc, c.tx, c.deadline, c.answer)
  <2>1. call' = [call EXCEPT ![r] = [c EXCEPT !.pc = pc]] BY <1>2, <1>6 DEF Goto
  <2> QED BY <1>4, <1>5, <2>1
<1>7. ASSUME Throw(r)
      PROVE  /\ call' \in [Requests -> Calls] /\ \A q \in Requests \ {r} : call'[q] = call[q]
             /\ Is(call'[r], "done", Null, 0, "error")
  <2>1. call' = [call EXCEPT ![r] = Answer(c, "error")] BY <1>2, <1>7 DEF Throw
  <2>2. "error" \in Answers BY DEF Answers
  <2>3. Answer(c, "error") \in Calls /\ Is(Answer(c, "error"), "done", Null, 0, "error")
    BY <1>3, <2>2, AnswerIs
  <2> QED BY <1>4, <2>1, <2>3
<1>. DEFINE Goal == /\ call' \in [Requests -> Calls] /\ \A q \in Requests \ {r} : call'[q] = call[q]
                    /\ CallMove(r)
<1>8. ASSUME StartFund(r) PROVE Goal
  <2>1. time + Window \in Nat BY DvpAssumption
  <2>2. call' = [call EXCEPT ![r] = [c EXCEPT !.pc = "allowance", !.deadline = time + Window]]
    BY <1>2, <1>8 DEF StartFund
  <2>3. /\ [c EXCEPT !.pc = "allowance", !.deadline = time + Window] \in Calls
        /\ Is([c EXCEPT !.pc = "allowance", !.deadline = time + Window], "allowance", c.tx, time + Window, c.answer)
    <3>. DEFINE T == Tx \cup {Null}
    <3>1. c \in [pc : Pcs, tx : T, deadline : Nat, answer : Answers] /\ "allowance" \in Pcs BY <1>3 DEF Calls, Pcs
    <3>. HIDE DEF T
    <3>2. [c EXCEPT !.pc = "allowance", !.deadline = time + Window] \in [pc : Pcs, tx : T, deadline : Nat, answer : Answers]
      BY <2>1, <3>1
    <3> QED BY <3>1, <3>2 DEF T, Is, Calls
  <2> QED BY <1>2, <1>4, <1>8, <2>2, <2>3 DEF CallMove
<1>9. ASSUME StartRelease(r) PROVE Goal
  <2>1. Goto(r, "release") /\ "release" \in Pcs BY <1>9 DEF StartRelease, Pcs
  <2> QED BY <1>2, <1>6, <1>9, <2>1 DEF CallMove
<1>10. ASSUME ReadAllowance(r) PROVE Goal
  <2>1. Body[r].amount \in Nat BY DvpAssumption
  <2>2. CASE allowance < Body[r].amount
    <3>1. Goto(r, "approve") /\ "approve" \in Pcs BY <1>10, <2>2 DEF ReadAllowance, Pcs
    <3> QED BY <1>2, <1>6, <1>10, <2>2, <3>1 DEF CallMove
  <2>3. CASE ~ (allowance < Body[r].amount)
    <3>1. Goto(r, "fund") /\ "fund" \in Pcs BY <1>10, <2>3 DEF ReadAllowance, Pcs
    <3>2. allowance >= Body[r].amount BY <2>1, <2>3
    <3> QED BY <1>2, <1>6, <1>10, <3>1, <3>2 DEF CallMove
  <2> QED BY <2>2, <2>3
<1>11. ASSUME ReadNonce(r) PROVE Goal
  <2>. DEFINE tx == [nonce |-> PendingNonce, by |-> r, does |-> c.pc, deadline |-> c.deadline]
  <2>1. call' = [call EXCEPT ![r] = [c EXCEPT !.pc = "send", !.tx = tx]] BY <1>2, <1>11 DEF ReadNonce
  <2>2. c.pc \in Actions /\ r \in Users BY <1>2, <1>11 DEF ReadNonce, Actions, Users
  <2>3. tx \in Tx BY <1>3, <2>2 DEF Tx
  <2>4. tx = [nonce |-> PendingNonce, by |-> r, does |-> call[r].pc, deadline |-> call[r].deadline] BY <1>2
  <2>. HIDE DEF tx
  <2>5. [c EXCEPT !.pc = "send", !.tx = tx] \in Calls /\ Is([c EXCEPT !.pc = "send", !.tx = tx], "send", tx, c.deadline, c.answer)
    <3>. DEFINE T == Tx \cup {Null}
    <3>1. c \in [pc : Pcs, tx : T, deadline : Nat, answer : Answers] /\ tx \in T /\ "send" \in Pcs
      BY <1>3, <2>3 DEF Calls, Pcs
    <3>. HIDE DEF T
    <3>2. [c EXCEPT !.pc = "send", !.tx = tx] \in [pc : Pcs, tx : T, deadline : Nat, answer : Answers] BY <3>1
    <3> QED BY <3>1, <3>2 DEF T, Is, Calls
  <2> QED BY <1>2, <1>4, <1>11, <2>1, <2>4, <2>5 DEF CallMove
<1>12. ASSUME Broadcast(r) PROVE Goal
  <2>1. call' = [call EXCEPT ![r] = [c EXCEPT !.pc = "wait"]] BY <1>2, <1>12 DEF Broadcast, Sent
  <2>2. "wait" \in Pcs BY DEF Pcs
  <2> QED BY <1>2, <1>4, <1>5, <1>12, <2>1, <2>2 DEF CallMove
<1>13. ASSUME BroadcastRefused(r) PROVE Goal
  BY <1>2, <1>7, <1>13 DEF BroadcastRefused, CallMove
<1>14. ASSUME Wait(r) PROVE Goal
  <2>1. /\ c.tx \in Tx /\ c.tx.by = r /\ c.pc = "wait" /\ c.tx.does \in {"approve", "fund", "release"}
    BY <1>2, <1>14 DEF Wait, CallFits
  <2>2. "Funded" \in Answers /\ "Released" \in Answers /\ "error" \in Answers /\ "fund" \in Pcs BY DEF Answers, Pcs
  <2>3. CASE mined[c.tx.nonce + 1] # [tx |-> c.tx, ok |-> TRUE]
    <3>1. call' = [call EXCEPT ![r] = Answer(c, "error")] BY <1>2, <1>14, <2>3, Zenon DEF Wait
    <3>2. Answer(c, "error") \in Calls /\ Is(Answer(c, "error"), "done", Null, 0, "error")
      BY <1>3, <2>2, AnswerIs
    <3> QED BY <1>2, <1>4, <1>14, <2>3, <3>1, <3>2 DEF CallMove
  <2>4. CASE mined[c.tx.nonce + 1] = [tx |-> c.tx, ok |-> TRUE]
    <3>1. call' = [call EXCEPT ![r] = Confirmed(c)] BY <1>2, <1>14, <2>4, Zenon DEF Wait
    <3>2. CASE c.tx.does = "approve"
      <4>1. Confirmed(c) = [c EXCEPT !.pc = "fund", !.tx = Null] BY <3>2 DEF Confirmed
      <4>2. Confirmed(c) \in Calls /\ Is(Confirmed(c), "fund", Null, c.deadline, c.answer)
        <5>. DEFINE T == Tx \cup {Null}
        <5>1. c \in [pc : Pcs, tx : T, deadline : Nat, answer : Answers] /\ Null \in T BY <1>3 DEF Calls
        <5>. HIDE DEF T
        <5>2. [c EXCEPT !.pc = "fund", !.tx = Null] \in [pc : Pcs, tx : T, deadline : Nat, answer : Answers]
          BY <2>2, <5>1
        <5> QED BY <4>1, <5>1, <5>2 DEF T, Is, Calls
      <4> QED BY <1>2, <1>4, <1>14, <2>4, <3>1, <3>2, <4>2 DEF CallMove
    <3>3. CASE c.tx.does = "fund"
      <4>1. Confirmed(c) = Answer(c, "Funded") BY <3>3 DEF Confirmed
      <4>2. Confirmed(c) \in Calls /\ Is(Confirmed(c), "done", Null, c.deadline, "Funded")
        BY <1>3, <2>2, <4>1, AnswerIs
      <4> QED BY <1>2, <1>4, <1>14, <2>4, <3>1, <3>3, <4>2 DEF CallMove
    <3>4. CASE c.tx.does = "release"
      <4>1. Confirmed(c) = Answer(c, "Released") BY <3>4 DEF Confirmed
      <4>2. Confirmed(c) \in Calls /\ Is(Confirmed(c), "done", Null, 0, "Released")
        BY <1>3, <2>2, <4>1, AnswerIs
      <4> QED BY <1>2, <1>4, <1>14, <2>4, <3>1, <3>4, <4>2 DEF CallMove
    <3> QED BY <2>1, <3>2, <3>3, <3>4
  <2> QED BY <2>3, <2>4
<1>15. ASSUME CallThrows(r) PROVE Goal
  BY <1>2, <1>7, <1>15 DEF CallThrows, CallMove
<1> QED BY <1>8, <1>9, <1>10, <1>11, <1>12, <1>13, <1>14, <1>15 DEF CallStep

----------------------------------------------------------------------------
(* The inductive invariant. *)

\* A transaction does what its maker may ask for.
Proper(t) ==
  /\ t \in Tx
  /\ t.by \in Requests => t.does \in IF Body[t.by].op = "fund" THEN {"approve", "fund"} ELSE {"release"}
  /\ t.by \in Transfers => t.does = "transfer"
  /\ t.by \in Deals => t.does = "cancel"

SentProper == IsFiniteSet(sent) /\ \A t \in sent : Proper(t)

\* A nonce is mined once, in order.
MinedInOrder == \A k \in 1 .. Len(mined) : mined[k].tx \in sent /\ mined[k].tx.nonce = k - 1

CallsFit == \A r \in Requests : CallFits(r)

\* The relayer sends one transfer at a time, with the nonce it keeps.
JobsFit ==
  \A s \in Transfers :
    /\ job[s].status = "COMPLIANCE_APPROVED" => job[s].retries = 0
    /\ job[s].status = "SENDING" =>
         /\ job[s].nonce = localNonce
         /\ \A q \in Transfers : job[q].status = "SENDING" => q = s
    /\ job[s].status = "SUBMITTED" => job[s].nonce \in Nat

\* The relayer's nonce is never ahead of the node's: every nonce below it is used.
LocalNotAhead == \A n \in NextNonce .. (localNonce - 1) : n \in PendingNonces

ServiceInv == DvpTypeOK /\ SentProper /\ MinedInOrder /\ CallsFit /\ JobsFit /\ LocalNotAhead

\* What a mined transaction did to its deal still shows.
MinedIsTrue ==
  \A k \in 1 .. Len(mined) :
    LET t == mined[k].tx
        d == deals[Body[t.by].deal]
    IN  mined[k].ok =>
          /\ t.does = "fund" =>
               d.state # "None" /\ d.amount = Body[t.by].amount /\ d.deadline = t.deadline
          /\ t.does = "release" => d.state = "Released"

\* A transfer that nobody overlaps: no fault so far.
Lone(s) == s \notin disturbed /\ faults = MaxFaults

LoneTransfer(s) ==
  /\ job[s].status # "FORGOTTEN"
  /\ job[s].status = "FAILED" => MaxRetries = 0
  /\ job[s].status = "SENDING" =>
       /\ Pending = {}
       /\ job[s].nonce = NextNonce \/ (job[s].nonce < NextNonce /\ job[s].retries = 0)
  /\ job[s].status = "SUBMITTED" =>
       \/ job[s].nonce = NextNonce /\ Pending = {TransferTx(s)}
       \/ job[s].nonce < NextNonce /\ mined[job[s].nonce + 1].tx.by = s

\* A call that nobody overlaps has the wallet for itself.
LoneCall(r) ==
  LET c == call[r]
      amount == Body[r].amount
  IN  /\ c.pc # "wait" => Pending = {}
      /\ c.pc = "send" => c.tx.nonce = NextNonce
      /\ c.pc = "fund" => allowance >= amount
      /\ c.pc = "send" /\ c.tx.does = "fund" => allowance >= amount
      /\ c.pc = "wait" =>
           \/ /\ Pending = {c.tx} /\ c.tx.nonce = NextNonce
              /\ c.tx.does = "fund" => allowance >= amount
           \/ /\ Pending = {} /\ c.tx.nonce + 1 = NextNonce
              /\ mined[NextNonce].tx = c.tx
              /\ ~ mined[NextNonce].ok => c.tx.does # "approve" /\ Impossible(r)
              /\ c.tx.does = "approve" => allowance >= amount

TransfersAlone == faults <= MaxFaults /\ \A s \in Transfers : Lone(s) => LoneTransfer(s)

CallsAlone == \A r \in Requests : Active(r) /\ r \notin disturbed => LoneCall(r)

----------------------------------------------------------------------------
(* The nonce a node gives out. *)

\* It is the first that no pending transaction has.
LEMMA PendingNonceIsFirstGap ==
  ASSUME SentProper, NextNonce \in Nat
  PROVE  /\ PendingNonce \in Nat
         /\ \A n \in NextNonce .. (PendingNonce - 1) : n \in PendingNonces
         /\ Pending = {} => PendingNonce = NextNonce
<1>. DEFINE G == {n \in PendingNonces : NextNonce .. n \subseteq PendingNonces}
            f == [t \in Pending |-> t.nonce]
<1>1. IsFiniteSet(Pending) BY FS_Subset DEF SentProper, Pending
<1>2. f \in Surjection(Pending, PendingNonces) BY DEF Surjection, PendingNonces
<1>3. IsFiniteSet(PendingNonces) BY <1>1, <1>2, FS_Surjection
<1>4. G \in SUBSET PendingNonces OBVIOUS
<1>5. IsFiniteSet(G) BY <1>3, <1>4, FS_Subset
<1>6. PICK k : k = Cardinality(G) OBVIOUS
<1>7. k \in Nat BY <1>5, <1>6, FS_CardinalityType
<1>8. PendingNonce = NextNonce + k BY <1>6 DEF PendingNonce
<1>9. \A n \in PendingNonces : n \in Nat /\ n >= NextNonce
  BY DEF PendingNonces, Pending, SentProper, Proper, Tx
<1>10. ASSUME NEW m \in NextNonce .. (PendingNonce - 1), m \notin PendingNonces PROVE FALSE
  <2>1. m \in Int /\ NextNonce <= m /\ m < NextNonce + k BY <1>7, <1>8, <1>10
  <2>2. \A g \in G : g < m
    <3> SUFFICES ASSUME NEW g \in G, ~ (g < m) PROVE FALSE OBVIOUS
    <3>1. g \in Nat BY <1>4, <1>9
    <3>2. m \in NextNonce .. g BY <2>1, <3>1
    <3> QED BY <1>10, <3>2
  <2>3. G \in SUBSET (NextNonce .. (m - 1))
    <3> SUFFICES ASSUME NEW g \in G PROVE g \in NextNonce .. (m - 1) OBVIOUS
    <3>1. g \in Nat /\ g >= NextNonce /\ g < m BY <1>4, <1>9, <2>2
    <3> QED BY <2>1, <3>1
  <2>. HIDE DEF G
  <2>4. /\ IsFiniteSet(NextNonce .. (m - 1))
        /\ Cardinality(NextNonce .. (m - 1)) = IF NextNonce > m - 1 THEN 0 ELSE (m - 1) - NextNonce + 1
    BY <2>1, FS_Interval
  <2>5. k <= Cardinality(NextNonce .. (m - 1)) BY <1>6, <2>3, <2>4, FS_Subset
  <2> QED BY <1>7, <2>1, <2>4, <2>5
<1>11. CASE Pending = {}
  <2>1. G = {} BY <1>11 DEF PendingNonces
  <2>2. k = 0 BY <1>6, <2>1, FS_EmptySet
  <2> QED BY <1>7, <1>8, <1>10, <2>2
<1> QED BY <1>7, <1>8, <1>10, <1>11

----------------------------------------------------------------------------
(* What a step does to the contract and to the wallet. *)

LEMMA BodyType ==
  /\ \A r \in Requests : /\ Body[r].op \in {"fund", "release"} /\ Body[r].deal \in Deals
                         /\ Body[r].amount \in Nat
                         /\ Body[r].op = "fund" => Body[r].amount > 0
  /\ \A s \in Transfers : Amount[s] \in Nat
BY DvpAssumption

\* Whose transaction it is and what it does determine each other.
LEMMA MakerOf ==
  ASSUME NEW t, Proper(t)
  PROVE  /\ t.does \in Actions /\ t.deadline \in Nat /\ t.nonce \in Nat
         /\ t.does \in {"approve", "fund"} => t.by \in Requests /\ Body[t.by].op = "fund"
         /\ t.does = "release" => t.by \in Requests /\ Body[t.by].op = "release"
         /\ t.does = "transfer" => t.by \in Transfers
         /\ t.does = "cancel" => t.by \in Deals
<1>1. t.by \in Requests \/ t.by \in Transfers \/ t.by \in Deals BY DEF Proper, Tx, Users
<1>2. t.by \in Requests => Body[t.by].op \in {"fund", "release"} BY BodyType
<1> QED BY <1>1, <1>2 DEF Proper, Tx

LEMMA Effects ==
  ASSUME EscrowTypeOK, NEW t, Proper(t), Succeeds(t), Effect(t)
  PROVE  /\ ContractStep
         /\ t.does = "approve" => allowance' = Body[t.by].amount /\ UNCHANGED <<deals, balance>>
         /\ t.does = "fund" => /\ deals'[Body[t.by].deal].state = "Funded"
                               /\ deals'[Body[t.by].deal].amount = Body[t.by].amount
                               /\ deals'[Body[t.by].deal].deadline = t.deadline
         /\ t.does = "release" => deals'[Body[t.by].deal].state = "Released"
<1>1. deals \in [Deals -> Deal] BY DEF EscrowTypeOK
<1>2. t.does \in Actions BY MakerOf
<1>3. CASE t.does = "approve"
  <2>1. Approve(Body[t.by].amount) BY <1>3 DEF Effect
  <2>2. Body[t.by].amount \in Nat BY <1>3, MakerOf, BodyType
  <2> QED BY <1>3, <2>1, <2>2 DEF Approve, ContractStep
<1>4. CASE t.does = "fund"
  <2>. DEFINE d == Body[t.by].deal
              a == Body[t.by].amount
  <2>1. d \in Deals /\ a \in Nat /\ t.deadline \in Nat BY <1>4, MakerOf, BodyType
  <2>2. CanFund(d, a, t.deadline) /\ Fund(d, a, t.deadline) BY <1>4 DEF Succeeds, Effect, DealOf
  <2>. HIDE DEF d, a
  <2>3. ContractStep BY <2>1, <2>2 DEF ContractStep
  <2>4. deals'[d] = [amount |-> a, deadline |-> t.deadline, state |-> "Funded"] BY <1>1, <2>1, <2>2 DEF Fund
  <2> QED BY <1>4, <2>3, <2>4 DEF d, a
<1>5. CASE t.does = "release"
  <2>1. PICK d : d = Body[t.by].deal OBVIOUS
  <2>2. d \in Deals BY <1>5, <2>1, MakerOf, BodyType
  <2>3. CanRelease(d) /\ Release(d) BY <1>5, <2>1 DEF Succeeds, Effect, DealOf
  <2>4. ContractStep BY <2>2, <2>3 DEF ContractStep
  <2>5. deals'[d].state = "Released" BY <1>1, <2>2, <2>3 DEF Release, Deal
  <2> QED BY <1>5, <2>1, <2>4, <2>5
<1>6. CASE t.does = "cancel"
  <2>1. t.by \in Deals BY <1>6, MakerOf
  <2>2. CanCancel(t.by) /\ Return(t.by) BY <1>6 DEF Succeeds, Effect, DealOf
  <2>3. ContractStep BY <2>1, <2>2 DEF ContractStep
  <2> QED BY <1>6, <2>3
<1>7. CASE t.does = "transfer"
  <2>1. Amount[t.by] \in Nat BY <1>7, MakerOf, BodyType
  <2>2. CanMove("operator", Amount[t.by]) /\ Transfer(Amount[t.by]) BY <1>7 DEF Succeeds, Effect
  <2>3. ContractStep BY <2>1, <2>2 DEF ContractStep
  <2> QED BY <1>7, <2>3
<1> QED BY <1>2, <1>3, <1>4, <1>5, <1>6, <1>7 DEF Actions

LEMMA Unchanging ==
  ASSUME EscrowTypeOK, UNCHANGED <<deals, balance, allowance>>
  PROVE  ContractStep
BY DEF EscrowTypeOK, ContractStep

LEMMA MineAppends ==
  ASSUME DvpTypeOK, NEW t \in sent, Mine(t)
  PROVE  /\ Len(mined) \in Nat /\ Len(mined') = Len(mined) + 1 /\ t.nonce = Len(mined)
         /\ \A k \in 1 .. Len(mined) : mined'[k] = mined[k]
         /\ mined'[Len(mined) + 1] = [tx |-> t, ok |-> Succeeds(t)]
         /\ mined' \in Seq([tx : sent, ok : BOOLEAN])
<1>. DEFINE e == [tx |-> t, ok |-> Succeeds(t)]
            E == [tx : sent, ok : BOOLEAN]
<1>1. Succeeds(t) \in BOOLEAN
  <2>1. t.does \in Actions BY DEF DvpTypeOK, Tx
  <2>2. CASE t.does = "approve" BY <2>2 DEF Succeeds
  <2>3. CASE t.does = "fund"
    <3>1. Succeeds(t) = CanFund(DealOf(t), Body[t.by].amount, t.deadline) BY <2>3 DEF Succeeds
    <3> QED BY <3>1 DEF CanFund
  <2>4. CASE t.does = "release"
    <3>1. Succeeds(t) = CanRelease(DealOf(t)) BY <2>4 DEF Succeeds
    <3> QED BY <3>1 DEF CanRelease
  <2>5. CASE t.does = "cancel"
    <3>1. Succeeds(t) = CanCancel(DealOf(t)) BY <2>5 DEF Succeeds
    <3> QED BY <3>1 DEF CanCancel
  <2>6. CASE t.does = "transfer"
    <3>1. Succeeds(t) = CanMove("operator", Amount[t.by]) BY <2>6 DEF Succeeds
    <3> QED BY <3>1 DEF CanMove
  <2> QED BY <2>1, <2>2, <2>3, <2>4, <2>5, <2>6 DEF Actions
<1>2. e \in E BY <1>1
<1>3. mined \in Seq(E) /\ mined' = Append(mined, e) /\ t.nonce = Len(mined)
  BY DEF DvpTypeOK, Mine, NextNonce
<1>. HIDE DEF e, E
<1>4. Len(mined) \in Nat BY <1>3, LenProperties
<1>5. /\ Append(mined, e) \in Seq(E) /\ Len(Append(mined, e)) = Len(mined) + 1
      /\ \A k \in 1 .. Len(mined) : Append(mined, e)[k] = mined[k]
      /\ Append(mined, e)[Len(mined) + 1] = e
  BY <1>2, <1>3, AppendProperties
<1> QED BY <1>3, <1>4, <1>5 DEF e, E

LEMMA TypeFacts ==
  ASSUME DvpTypeOK
  PROVE  /\ EscrowTypeOK /\ time \in Nat /\ allowance \in Nat /\ localNonce \in Nat /\ faults \in Nat
         /\ call \in [Requests -> Calls] /\ NextNonce \in Nat
<1>1. NextNonce \in Nat BY LenProperties DEF DvpTypeOK, NextNonce
<1>2. call \in [Requests -> Calls] BY DEF DvpTypeOK, Calls, Pcs, Answers
<1> QED BY <1>1, <1>2 DEF DvpTypeOK, EscrowTypeOK

\* What the calls and the relayer broadcast is theirs.
LEMMA ProperTx ==
  ASSUME DvpTypeOK, CallsFit, JobsFit
  PROVE  /\ \A r \in Requests : call[r].pc = "send" => Proper(call[r].tx)
         /\ \A s \in Transfers : job[s].status = "SENDING" => Proper(TransferTx(s))
<1>1. ASSUME NEW r \in Requests, call[r].pc = "send" PROVE Proper(call[r].tx)
  <2>1. /\ call[r].tx \in Tx /\ call[r].tx.by = r
        /\ call[r].tx.does \in IF Body[r].op = "fund" THEN {"approve", "fund"} ELSE {"release"}
    BY <1>1 DEF CallsFit, CallFits
  <2>2. r \notin Transfers /\ r \notin Deals BY DvpAssumption DEF Users
  <2> QED BY <2>1, <2>2 DEF Proper
<1>2. ASSUME NEW s \in Transfers, job[s].status = "SENDING" PROVE Proper(TransferTx(s))
  <2>1. job[s].nonce \in Nat BY <1>2, TypeFacts DEF JobsFit
  <2>2. s \notin Requests /\ s \notin Deals /\ s \in Users BY DvpAssumption DEF Users
  <2>3. PICK n : n = job[s].nonce OBVIOUS
  <2>4. TransferTx(s) = [nonce |-> n, by |-> s, does |-> "transfer", deadline |-> 0] BY <2>3 DEF TransferTx
  <2> QED BY <2>1, <2>2, <2>3, <2>4 DEF Proper, Tx, Actions
<1> QED BY <1>1, <1>2

\* The contract takes a step of its own or none, the wallet gains at most a
\* transaction, and at most one is mined.
LEMMA StepFrame ==
  ASSUME DvpTypeOK, SentProper, CallsFit, JobsFit, DvpNext
  PROVE  /\ ContractStep /\ time' \in Nat
         /\ sent' = sent \/ \E t : Proper(t) /\ sent' = sent \cup {t}
         /\ mined' = mined \/ \E t \in sent : Mine(t)
<1>. DEFINE Goal == /\ ContractStep /\ time' \in Nat
                    /\ sent' = sent \/ \E t : Proper(t) /\ sent' = sent \cup {t}
                    /\ mined' = mined \/ \E t \in sent : Mine(t)
<1>1. /\ EscrowTypeOK /\ time \in Nat /\ PendingNonce \in Nat
  BY TypeFacts, PendingNonceIsFirstGap
<1>2. UNCHANGED <<deals, balance, allowance>> => ContractStep BY <1>1, Unchanging
<1>3. ASSUME NEW r \in Requests, CallStep(r) \/ CallThrows(r) PROVE Goal
  <2>1. UNCHANGED escrowVars /\ mined' = mined /\ (sent' = sent \/ (call[r].pc = "send" /\ sent' = sent \cup {call[r].tx}))
    BY <1>3 DEF CallStep, StartFund, StartRelease, ReadAllowance, ReadNonce, Broadcast, BroadcastRefused,
         Wait, CallThrows, walletVars
  <2>2. sent' = sent \/ \E t : Proper(t) /\ sent' = sent \cup {t} BY <2>1, ProperTx
  <2> QED BY <1>1, <1>2, <2>1, <2>2 DEF escrowVars
<1>4. ASSUME NEW s \in Transfers, RelayerStep(s) PROVE Goal
  <2>1. UNCHANGED escrowVars /\ mined' = mined /\ (sent' = sent \/ (job[s].status = "SENDING" /\ sent' = sent \cup {TransferTx(s)}))
    BY <1>4 DEF RelayerStep, TakeJob, SendTransfer, GiveUp, Resync, Retry, walletVars
  <2>2. sent' = sent \/ \E t : Proper(t) /\ sent' = sent \cup {t} BY <2>1, ProperTx
  <2> QED BY <1>1, <1>2, <2>1, <2>2 DEF escrowVars
<1>5. ASSUME NEW t \in sent, Mine(t) PROVE Goal
  <2>1. Proper(t) BY DEF SentProper
  <2>2. CASE Succeeds(t)
    <3>1. Effect(t) BY <1>5, <2>2 DEF Mine
    <3>2. ContractStep BY <1>1, <2>1, <2>2, <3>1, Effects
    <3> QED BY <1>1, <1>5, <3>2 DEF Mine
  <2>3. CASE ~ Succeeds(t)
    <3>1. UNCHANGED <<deals, balance, allowance>> BY <1>5, <2>3 DEF Mine
    <3> QED BY <1>1, <1>2, <1>5, <3>1 DEF Mine
  <2> QED BY <2>2, <2>3
<1>6. CASE Tick BY <1>1, <1>2, <1>6 DEF Tick, walletVars
<1>7. ASSUME NEW d \in Deals, Refund(d) PROVE Goal
  <2>1. CanCancel(d) /\ Return(d) BY <1>7 DEF Refund, CanRefund, CanCancel
  <2>2. ContractStep BY <2>1 DEF ContractStep
  <2> QED BY <1>1, <1>7, <2>2 DEF Refund, walletVars
<1>8. ASSUME NEW d \in Deals, Cancel(d) PROVE Goal
  <2>. DEFINE t == [nonce |-> PendingNonce, by |-> d, does |-> "cancel", deadline |-> 0]
  <2>1. d \notin Requests /\ d \notin Transfers BY DvpAssumption DEF Users
  <2>2. t \in Tx BY <1>1 DEF Tx, Actions
  <2>3. Proper(t) BY <2>1, <2>2 DEF Proper
  <2>4. sent' = sent \cup {t} BY <1>8 DEF Cancel
  <2>. HIDE DEF t
  <2> QED BY <1>1, <1>2, <1>8, <2>3, <2>4 DEF Cancel, escrowVars
<1>9. CASE Exit BY <1>1, <1>2, <1>9 DEF Exit, escrowVars, walletVars
<1> QED BY <1>3, <1>4, <1>5, <1>6, <1>7, <1>8, <1>9 DEF DvpNext

----------------------------------------------------------------------------
(* The calls. *)

\* Of the calls, a step moves one, ends the working ones (Exit) or moves none.
LEMMA CallsStep ==
  ASSUME DvpTypeOK, SentProper, CallsFit, DvpNext
  PROVE  /\ call' \in [Requests -> Calls]
         /\ \A r \in Requests :
              \/ call'[r] = call[r]
              \/ CallMove(r)
              \/ Exit /\ Active(r) /\ Is(call'[r], "done", Null, 0, "error")
<1>. DEFINE Goal == /\ call' \in [Requests -> Calls]
                    /\ \A r \in Requests :
                         \/ call'[r] = call[r]
                         \/ CallMove(r)
                         \/ Exit /\ Active(r) /\ Is(call'[r], "done", Null, 0, "error")
<1>1. time \in Nat /\ allowance \in Nat /\ PendingNonce \in Nat /\ call \in [Requests -> Calls]
  BY TypeFacts, PendingNonceIsFirstGap
<1>2. ASSUME NEW r \in Requests, CallStep(r) \/ CallThrows(r) PROVE Goal
  <2>1. CallFits(r) BY DEF CallsFit
  <2>. HIDE DEF Calls
  <2> QED BY <1>1, <1>2, <2>1, CallMoves
<1>3. ASSUME call' = call PROVE Goal
  <2>. HIDE DEF Calls
  <2> QED BY <1>1, <1>3
<1>4. CASE Exit
  <2>. DEFINE c(r) == IF Active(r) THEN Answer(call[r], "error") ELSE call[r]
  <2>1. "error" \in Answers /\ "error" # "Funded" BY DEF Answers
  <2>2. \A r \in Requests : Answer(call[r], "error") \in Calls /\ Is(Answer(call[r], "error"), "done", Null, 0, "error")
    <3> SUFFICES ASSUME NEW r \in Requests
                 PROVE  Answer(call[r], "error") \in Calls /\ Is(Answer(call[r], "error"), "done", Null, 0, "error")
      OBVIOUS
    <3>1. PICK k : k = call[r] OBVIOUS
    <3>2. k \in Calls BY <1>1, <3>1
    <3>3. Answer(k, "error") \in Calls /\ Is(Answer(k, "error"), "done", Null, 0, "error") BY <2>1, <3>2, AnswerIs
    <3> QED BY <3>1, <3>3
  <2>3. call' = [r \in Requests |-> c(r)] BY <1>4 DEF Exit
  <2>4. \A r \in Requests : c(r) \in Calls
    <3>. HIDE DEF Calls
    <3> QED BY <1>1, <2>2
  <2>5. \A r \in Requests : c(r) = call[r] \/ (Active(r) /\ c(r) = Answer(call[r], "error")) BY Zenon
  <2>. HIDE DEF c, Calls
  <2>6. call' \in [Requests -> Calls] /\ \A r \in Requests : call'[r] = c(r) BY <2>3, <2>4
  <2>7. \A r \in Requests : call'[r] = call[r] \/ (Active(r) /\ Is(call'[r], "done", Null, 0, "error"))
    BY <2>2, <2>5, <2>6
  <2> QED BY <1>4, <2>6, <2>7
<1>5. DvpNext => \/ \E r \in Requests : CallStep(r) \/ CallThrows(r)
                 \/ call' = call \/ Exit
  BY DEF DvpNext, RelayerStep, TakeJob, SendTransfer, GiveUp, Resync, Retry, Mine, Tick, Refund, Cancel
<1> QED BY <1>2, <1>3, <1>4, <1>5

LEMMA CallsStayFit ==
  ASSUME DvpTypeOK, SentProper, CallsFit, DvpNext
  PROVE  /\ CallsFit'
         /\ \A r \in Requests : call'[r].pc = "wait" => call'[r].tx \in sent'
<1> SUFFICES ASSUME NEW r \in Requests
             PROVE  CallFits(r)' /\ (call'[r].pc = "wait" => call'[r].tx \in sent')
  BY DEF CallsFit
<1>1. CallFits(r) /\ (call[r].pc = "wait" => call[r].tx \in sent) BY DEF CallsFit, DvpTypeOK
<1>2. sent \subseteq sent' /\ PendingNonce \in Nat /\ call[r] \in Calls /\ time \in Nat /\ call[r].deadline \in Nat
  <2>1. sent \subseteq sent'
    BY DEF DvpNext, CallStep, StartFund, StartRelease, ReadAllowance, ReadNonce, Broadcast, BroadcastRefused,
       Wait, CallThrows, RelayerStep, TakeJob, SendTransfer, GiveUp, Resync, Retry, Mine, Tick, Refund, Cancel,
       Exit, walletVars
  <2>2. call[r] \in Calls BY TypeFacts
  <2> QED BY <2>1, <2>2, TypeFacts, PendingNonceIsFirstGap DEF Calls
<1>3. CASE call'[r] = call[r] BY <1>1, <1>2, <1>3 DEF CallFits
<1>4. CASE Exit /\ Active(r) /\ Is(call'[r], "done", Null, 0, "error") BY <1>4 DEF CallFits, Is
<1>5. CASE CallMove(r)
  <2>. DEFINE Goal == CallFits(r)' /\ (call'[r].pc = "wait" => call'[r].tx \in sent')
              c == call[r]
              d == call'[r]
  <2>1. ASSUME StartFund(r), Is(d, "allowance", c.tx, time + Window, c.answer) PROVE Goal
    BY <1>1, <2>1 DEF StartFund, Is, CallFits
  <2>2. ASSUME StartRelease(r), Is(d, "release", c.tx, c.deadline, c.answer) PROVE Goal
    BY <1>1, <2>2 DEF StartRelease, Is, CallFits
  <2>3. ASSUME ReadAllowance(r), \E pc \in {"approve", "fund"} : Is(d, pc, c.tx, c.deadline, c.answer) PROVE Goal
    BY <1>1, <2>3 DEF ReadAllowance, Is, CallFits
  <2>4. ASSUME ReadNonce(r),
               Is(d, "send", [nonce |-> PendingNonce, by |-> r, does |-> c.pc, deadline |-> c.deadline],
                  c.deadline, c.answer)
        PROVE  Goal
    <3>. DEFINE tx == [nonce |-> PendingNonce, by |-> r, does |-> c.pc, deadline |-> c.deadline]
    <3>1. c.pc \in {"approve", "fund", "release"} /\ c.answer = Null
      BY <1>1, <2>4 DEF ReadNonce, CallFits
    <3>2. c.pc \in IF Body[r].op = "fund" THEN {"approve", "fund"} ELSE {"release"}
      BY <1>1, <3>1 DEF CallFits
    <3>3. tx \in Tx BY <1>2, <3>1 DEF Tx, Users, Actions
    <3>4. tx.by = r /\ tx.does = c.pc /\ tx.deadline = c.deadline OBVIOUS
    <3>. HIDE DEF tx
    <3>5. d.pc = "send" /\ d.tx = tx /\ d.deadline = c.deadline /\ d.answer = c.answer
      BY <2>4 DEF Is, tx
    <3> QED BY <3>1, <3>2, <3>3, <3>4, <3>5 DEF CallFits
  <2>5. ASSUME Broadcast(r), Is(d, "wait", c.tx, c.deadline, c.answer) PROVE Goal
    BY <1>1, <2>5 DEF Broadcast, Is, CallFits
  <2>6. ASSUME NEW deadline, NEW answer, Is(d, "done", Null, deadline, answer) PROVE Goal
    BY <2>6 DEF Is, CallFits
  <2>7. ASSUME Wait(r), c.tx.does = "approve", Is(d, "fund", Null, c.deadline, c.answer) PROVE Goal
    BY <1>1, <2>7 DEF Wait, Is, CallFits
  <2>8. Goal
    <3>. HIDE DEF Goal
    <3> QED BY <1>5, <2>1, <2>2, <2>3, <2>4, <2>5, <2>6, <2>7 DEF CallMove
  <2> QED BY <2>8
<1> QED BY <1>3, <1>4, <1>5, CallsStep

----------------------------------------------------------------------------
(* What was mined, and what was answered. *)

LEMMA MinedStep ==
  ASSUME DvpTypeOK, SentProper, MinedInOrder, MinedIsTrue, CallsFit, JobsFit, DvpNext
  PROVE  mined' \in Seq([tx : sent', ok : BOOLEAN]) /\ MinedInOrder' /\ MinedIsTrue'
<1>1. EscrowTypeOK /\ ContractStep /\ sent \subseteq sent' BY TypeFacts, StepFrame
<1>2. \A d \in Deals : DealKept(d) BY <1>1, DealsKept
<1>3. mined \in Seq([tx : sent, ok : BOOLEAN]) BY DEF DvpTypeOK
<1>4. \A k \in 1 .. Len(mined) : Proper(mined[k].tx) /\ mined[k] \in [tx : sent, ok : BOOLEAN]
  <2>1. \A k \in 1 .. Len(mined) : mined[k] \in [tx : sent, ok : BOOLEAN] BY <1>3, ElementOfSeq
  <2> QED BY <2>1 DEF SentProper
\* What was true of a mined transaction stays true.
<1>5. ASSUME NEW k \in 1 .. Len(mined), mined[k].ok, NEW t, t = mined[k].tx
      PROVE  /\ t.does = "fund" => /\ deals'[Body[t.by].deal].state # "None"
                                   /\ deals'[Body[t.by].deal].amount = Body[t.by].amount
                                   /\ deals'[Body[t.by].deal].deadline = t.deadline
             /\ t.does = "release" => deals'[Body[t.by].deal].state = "Released"
  <2>1. Proper(t) BY <1>4, <1>5
  <2>2. /\ t.does = "fund" => /\ deals[Body[t.by].deal].state # "None"
                              /\ deals[Body[t.by].deal].amount = Body[t.by].amount
                              /\ deals[Body[t.by].deal].deadline = t.deadline
        /\ t.does = "release" => deals[Body[t.by].deal].state = "Released"
    BY <1>5 DEF MinedIsTrue
  <2>3. t.does \in {"fund", "release"} => Body[t.by].deal \in Deals BY <2>1, MakerOf, BodyType
  <2> QED BY <1>2, <2>2, <2>3 DEF DealKept
<1>6. CASE mined' = mined
  <2>1. mined' \in Seq([tx : sent', ok : BOOLEAN])
    <3>1. [tx : sent, ok : BOOLEAN] \subseteq [tx : sent', ok : BOOLEAN] BY <1>1
    <3>. DEFINE E == [tx : sent, ok : BOOLEAN]
                F == [tx : sent', ok : BOOLEAN]
    <3>. HIDE DEF E, F
    <3>2. mined \in Seq(E) /\ E \subseteq F BY <1>3, <3>1 DEF E, F
    <3>3. mined \in Seq(F) BY <3>2
    <3> QED BY <1>6, <3>3 DEF F
  <2>2. MinedInOrder' BY <1>1, <1>6 DEF MinedInOrder
  <2>3. MinedIsTrue' BY <1>5, <1>6 DEF MinedIsTrue
  <2> QED BY <2>1, <2>2, <2>3
<1>7. ASSUME NEW t \in sent, Mine(t)
      PROVE  mined' \in Seq([tx : sent', ok : BOOLEAN]) /\ MinedInOrder' /\ MinedIsTrue'
  <2>1. sent' = sent BY <1>7 DEF Mine
  <2>2. /\ Len(mined) \in Nat /\ Len(mined') = Len(mined) + 1 /\ t.nonce = Len(mined)
        /\ \A k \in 1 .. Len(mined) : mined'[k] = mined[k]
        /\ mined'[Len(mined) + 1] = [tx |-> t, ok |-> Succeeds(t)]
        /\ mined' \in Seq([tx : sent, ok : BOOLEAN])
    BY <1>7, MineAppends
  <2>3. \A k \in 1 .. Len(mined') : k \in 1 .. Len(mined) \/ k = Len(mined) + 1 BY <2>2
  <2>4. MinedInOrder'
    <3>1. mined'[Len(mined) + 1].tx = t BY <2>2
    <3>2. ASSUME NEW k \in 1 .. Len(mined') PROVE mined'[k].tx \in sent /\ mined'[k].tx.nonce = k - 1
      <4>1. CASE k \in 1 .. Len(mined) BY <2>2, <4>1 DEF MinedInOrder
      <4>2. CASE k = Len(mined) + 1 BY <2>2, <3>1, <4>2
      <4> QED BY <2>3, <4>1, <4>2
    <3> QED BY <2>1, <3>2 DEF MinedInOrder
  <2>5. MinedIsTrue'
    <3>1. ASSUME NEW k \in 1 .. Len(mined'), mined'[k].ok, NEW u, u = mined'[k].tx
          PROVE  /\ u.does = "fund" => /\ deals'[Body[u.by].deal].state # "None"
                                       /\ deals'[Body[u.by].deal].amount = Body[u.by].amount
                                       /\ deals'[Body[u.by].deal].deadline = u.deadline
                 /\ u.does = "release" => deals'[Body[u.by].deal].state = "Released"
      <4>1. CASE k \in 1 .. Len(mined) BY <1>5, <2>2, <3>1, <4>1
      <4>2. CASE k = Len(mined) + 1
        <5>1. u = t /\ Succeeds(t) BY <2>2, <3>1, <4>2
        <5>2. Effect(t) BY <1>7, <5>1 DEF Mine
        <5>3. Proper(t) BY DEF SentProper
        <5> QED BY <1>1, <5>1, <5>2, <5>3, Effects
      <4> QED BY <2>3, <4>1, <4>2
    <3> QED BY <3>1 DEF MinedIsTrue
  <2> QED BY <2>1, <2>2, <2>4, <2>5
<1> QED BY <1>6, <1>7, StepFrame

LEMMA AnswersStep ==
  ASSUME DvpTypeOK, SentProper, MinedInOrder, MinedIsTrue, CallsFit, JobsFit, AnswersAreTrue, DvpNext
  PROVE  AnswersAreTrue'
<1>1. \A d \in Deals : DealKept(d) BY TypeFacts, StepFrame, DealsKept
<1> SUFFICES ASSUME NEW r \in Requests
             PROVE  /\ call'[r].answer = "Funded" =>
                         /\ deals'[Body[r].deal].state # "None"
                         /\ deals'[Body[r].deal].amount = Body[r].amount
                         /\ deals'[Body[r].deal].deadline = call'[r].deadline
                    /\ call'[r].answer = "Released" => deals'[Body[r].deal].state = "Released"
  BY DEF AnswersAreTrue
<1>2. /\ call[r].answer = "Funded" =>
           /\ deals'[Body[r].deal].state # "None"
           /\ deals'[Body[r].deal].amount = Body[r].amount
           /\ deals'[Body[r].deal].deadline = call[r].deadline
      /\ call[r].answer = "Released" => deals'[Body[r].deal].state = "Released"
  BY <1>1, BodyType DEF AnswersAreTrue, DealKept
<1>3. Null # "Funded" /\ Null # "Released" BY DvpAssumption
<1>4. CASE call'[r] = call[r] BY <1>2, <1>4
<1>5. CASE Is(call'[r], "done", Null, 0, "error") BY <1>3, <1>5 DEF Is
<1>6. CASE CallMove(r)
  <2>1. CallFits(r) BY DEF CallsFit
  <2>2. ASSUME Wait(r), mined[call[r].tx.nonce + 1] = [tx |-> call[r].tx, ok |-> TRUE]
        PROVE  /\ call[r].tx.by = r /\ call[r].tx.deadline = call[r].deadline
               /\ call[r].tx.does = "fund" =>
                    /\ deals'[Body[r].deal].state # "None"
                    /\ deals'[Body[r].deal].amount = Body[r].amount
                    /\ deals'[Body[r].deal].deadline = call[r].deadline
               /\ call[r].tx.does = "release" => deals'[Body[r].deal].state = "Released"
    <3>1. call[r].pc = "wait" /\ call[r].tx.nonce < NextNonce /\ deals' = deals
      BY <2>2 DEF Wait, escrowVars
    <3>2. call[r].tx \in Tx /\ call[r].tx.by = r /\ call[r].tx.deadline = call[r].deadline
      BY <2>1, <3>1 DEF CallFits
    <3>3. PICK k : k = call[r].tx.nonce + 1 OBVIOUS
    <3>4. k \in 1 .. Len(mined) BY <3>1, <3>2, <3>3, TypeFacts DEF Tx, NextNonce
    <3>5. mined[k].ok /\ mined[k].tx = call[r].tx BY <2>2, <3>3
    <3> QED BY <3>1, <3>2, <3>4, <3>5 DEF MinedIsTrue
  <2>3. call[r].pc # "done" => call[r].answer = Null BY <2>1 DEF CallFits
  <2>4. CASE call[r].pc = "done" /\ call'[r].answer \in {"Funded", "Released"}
    BY <1>3, <1>6, <2>4 DEF CallMove, Is, StartFund, StartRelease, ReadAllowance, ReadNonce, Broadcast,
         BroadcastRefused, Wait, CallThrows, Active
  <2>5. CASE call[r].pc # "done"
    BY <1>3, <1>6, <2>2, <2>3, <2>5 DEF CallMove, Is
  <2> QED BY <2>4, <2>5
<1> QED BY <1>4, <1>5, <1>6, CallsStep

----------------------------------------------------------------------------
(* The relayer. *)

Jobs == [status : {"COMPLIANCE_APPROVED", "SENDING", "SUBMITTED", "FAILED", "FORGOTTEN"},
         nonce : Nat \cup {Null}, retries : Nat]

\* A job that is not new has a nonce unless it is over.
JobOK(j, n) ==
  /\ j \in Jobs
  /\ j.status = "COMPLIANCE_APPROVED" => j.retries = 0
  /\ j.status = "SENDING" => j.nonce = n
  /\ j.status = "SUBMITTED" => j.nonce \in Nat

JobsOK(js, n) ==
  /\ js \in [Transfers -> Jobs]
  /\ \A s \in Transfers : JobOK(js[s], n)
  /\ \A s, q \in Transfers : js[s].status = "SENDING" /\ js[q].status = "SENDING" => s = q

\* One job changes.
LEMMA OneJob ==
  ASSUME JobsOK(job, localNonce), NEW s \in Transfers, NEW j, NEW n, JobOK(j, n), job' = [job EXCEPT ![s] = j],
         \A q \in Transfers \ {s} : job[q].status = "SENDING" => j.status # "SENDING" /\ n = localNonce
  PROVE  JobsOK(job', n)
<1>1. job \in [Transfers -> Jobs] /\ j \in Jobs BY DEF JobsOK, JobOK
<1>. HIDE DEF Jobs
<1>2. job'[s] = j /\ (\A q \in Transfers \ {s} : job'[q] = job[q]) /\ job' \in [Transfers -> Jobs] BY <1>1
<1>3. \A q \in Transfers : JobOK(job'[q], n) BY <1>2 DEF JobsOK, JobOK
<1> QED BY <1>2, <1>3 DEF JobsOK

Taken(j, x, y) == [j EXCEPT !.status = x, !.nonce = y]
Retried(j, x, y) == [j EXCEPT !.nonce = x, !.retries = y]

LEMMA JobFields ==
  ASSUME NEW status, NEW nonce, NEW retries, NEW x, NEW y, NEW j,
         j = [status |-> status, nonce |-> nonce, retries |-> retries]
  PROVE  /\ Taken(j, x, y) = [status |-> x, nonce |-> y, retries |-> retries]
         /\ Retried(j, x, y) = [status |-> status, nonce |-> x, retries |-> y]
<1>1. PICK V : V = {status, nonce, retries, x, y} OBVIOUS
<1>2. status \in V /\ nonce \in V /\ retries \in V /\ x \in V /\ y \in V BY <1>1
<1>3. j \in [status : V, nonce : V, retries : V] /\ j.status = status /\ j.nonce = nonce /\ j.retries = retries
  BY <1>2
<1>4. [j EXCEPT !.status = x, !.nonce = y] \in [status : V, nonce : V, retries : V] BY <1>2, <1>3
<1>5. [j EXCEPT !.nonce = x, !.retries = y] \in [status : V, nonce : V, retries : V] BY <1>2, <1>3
<1>6. /\ [j EXCEPT !.status = x, !.nonce = y].status = x /\ [j EXCEPT !.status = x, !.nonce = y].nonce = y
      /\ [j EXCEPT !.status = x, !.nonce = y].retries = retries
      /\ [j EXCEPT !.nonce = x, !.retries = y].status = status /\ [j EXCEPT !.nonce = x, !.retries = y].nonce = x
      /\ [j EXCEPT !.nonce = x, !.retries = y].retries = y
  BY <1>3
<1>. DEFINE e == [j EXCEPT !.status = x, !.nonce = y]
            f == [j EXCEPT !.nonce = x, !.retries = y]
<1>7. /\ e \in [status : V, nonce : V, retries : V] /\ e.status = x /\ e.nonce = y /\ e.retries = retries
      /\ f \in [status : V, nonce : V, retries : V] /\ f.status = status /\ f.nonce = x /\ f.retries = y
  BY <1>4, <1>5, <1>6
<1>. HIDE DEF e, f
<1>8. e = [status |-> x, nonce |-> y, retries |-> retries] /\ f = [status |-> status, nonce |-> x, retries |-> y]
  BY <1>7
<1> QED BY <1>8 DEF e, f, Taken, Retried

LEMMA JobsStep ==
  ASSUME DvpTypeOK, SentProper, CallsFit, JobsFit, DvpNext
  PROVE  JobsOK(job', localNonce') /\ localNonce' \in Nat
<1>1. /\ localNonce \in Nat /\ PendingNonce \in Nat /\ MaxRetries \in Nat
  BY TypeFacts, PendingNonceIsFirstGap, DvpAssumption
<1>2. JobsOK(job, localNonce)
  <2>1. job \in [Transfers -> Jobs] BY DEF DvpTypeOK, Jobs
  <2> QED BY <2>1 DEF JobsOK, JobOK, JobsFit
<1>3. ASSUME NEW s \in Transfers, RelayerStep(s) PROVE JobsOK(job', localNonce') /\ localNonce' \in Nat
  <2>1. PICK j : j = job[s] OBVIOUS
  <2>2. /\ j \in Jobs /\ JobOK(j, localNonce) /\ j.retries \in Nat /\ j.nonce \in Nat \cup {Null}
        /\ j = [status |-> j.status, nonce |-> j.nonce, retries |-> j.retries]
    BY <1>2, <2>1 DEF JobsOK, Jobs
  <2>3. j.status = "SENDING" => \A q \in Transfers \ {s} : job[q].status # "SENDING"
    BY <1>2, <2>1 DEF JobsOK
  <2>. DEFINE k(status, nonce, retries) == [status |-> status, nonce |-> nonce, retries |-> retries]
  <2>4. ASSUME NEW status \in {"COMPLIANCE_APPROVED", "SENDING", "SUBMITTED", "FAILED", "FORGOTTEN"},
               NEW nonce \in Nat \cup {Null}, NEW retries \in Nat
        PROVE  k(status, nonce, retries) \in Jobs
    BY DEF Jobs
  <2>5. CASE TakeJob(s)
    <3>1. job' = [job EXCEPT ![s] = k("SENDING", localNonce, j.retries)]
      <4>1. job' = [job EXCEPT ![s] = [j EXCEPT !.status = "SENDING", !.nonce = localNonce]]
        BY <2>1, <2>5 DEF TakeJob
      <4>2. [j EXCEPT !.status = "SENDING", !.nonce = localNonce] = k("SENDING", localNonce, j.retries)
        <5>1. PICK st, no, re : st = j.status /\ no = j.nonce /\ re = j.retries OBVIOUS
        <5>2. j = [status |-> st, nonce |-> no, retries |-> re] BY <2>2, <5>1
        <5>3. PICK n, x : n = localNonce /\ x = "SENDING" OBVIOUS
        <5>4. Taken(j, x, n) = [status |-> x, nonce |-> n, retries |-> re] BY <5>2, JobFields
        <5> QED BY <5>1, <5>3, <5>4 DEF Taken
      <4> QED BY <4>1, <4>2
    <3>2. localNonce' = localNonce /\ \A q \in Transfers : job[q].status # "SENDING" BY <2>5 DEF TakeJob
    <3>3. JobOK(k("SENDING", localNonce, j.retries), localNonce)
      <4>1. k("SENDING", localNonce, j.retries) \in Jobs BY <1>1, <2>2, <2>4
      <4> QED BY <4>1 DEF JobOK
    <3>. HIDE DEF k
    <3> QED BY <1>1, <1>2, <3>1, <3>2, <3>3, OneJob
  <2>6. CASE SendTransfer(s)
    <3>1. j.status = "SENDING" /\ localNonce' = localNonce + 1 BY <2>1, <2>6 DEF SendTransfer
    <3>2. j.nonce = localNonce BY <2>2, <3>1 DEF JobOK
    <3>3. job' = [job EXCEPT ![s] = k("SUBMITTED", localNonce, 0)] BY <2>1, <2>6, <3>2 DEF SendTransfer
    <3>4. JobOK(k("SUBMITTED", localNonce, 0), localNonce')
      <4>1. k("SUBMITTED", localNonce, 0) \in Jobs BY <1>1, <2>4
      <4> QED BY <1>1, <4>1 DEF JobOK
    <3>5. k("SUBMITTED", localNonce, 0).status # "SENDING" OBVIOUS
    <3>. HIDE DEF k
    <3>6. PICK n, m : n = localNonce' /\ m = k("SUBMITTED", localNonce, 0) OBVIOUS
    <3>7. JobsOK(job', n) BY <1>2, <2>3, <3>1, <3>3, <3>4, <3>5, <3>6, OneJob
    <3> QED BY <1>1, <3>1, <3>6, <3>7
  <2>7. CASE GiveUp(s)
    <3>1. localNonce' = localNonce BY <2>7 DEF GiveUp
    <3>2. job' = [job EXCEPT ![s] = k("FAILED", Null, 0)]
      <4>1. [NewJob EXCEPT !.status = "FAILED"] = k("FAILED", Null, 0) BY DEF NewJob
      <4> QED BY <2>7, <4>1 DEF GiveUp
    <3>3. JobOK(k("FAILED", Null, 0), localNonce)
      <4>1. k("FAILED", Null, 0) \in Jobs BY <2>4
      <4> QED BY <4>1 DEF JobOK
    <3>4. k("FAILED", Null, 0).status # "SENDING" OBVIOUS
    <3>. HIDE DEF k
    <3> QED BY <1>1, <1>2, <3>1, <3>2, <3>3, <3>4, OneJob
  <2>8. CASE Resync(s)
    <3>1. j.status = "SENDING" /\ localNonce' = PendingNonce BY <2>1, <2>8 DEF Resync
    <3>2. job' = [job EXCEPT ![s] = k("SENDING", PendingNonce, j.retries + 1)]
      <4>1. job' = [job EXCEPT ![s] = [j EXCEPT !.nonce = PendingNonce, !.retries = j.retries + 1]]
        BY <2>1, <2>8 DEF Resync
      <4>2. [j EXCEPT !.nonce = PendingNonce, !.retries = j.retries + 1] = k("SENDING", PendingNonce, j.retries + 1)
        <5>1. PICK st, no, re : st = j.status /\ no = j.nonce /\ re = j.retries OBVIOUS
        <5>2. j = [status |-> st, nonce |-> no, retries |-> re] BY <2>2, <5>1
        <5>3. PICK n, m : n = PendingNonce /\ m = re + 1 OBVIOUS
        <5>4. Retried(j, n, m) = [status |-> st, nonce |-> n, retries |-> m] BY <5>2, JobFields
        <5> QED BY <3>1, <5>1, <5>3, <5>4 DEF Retried
      <4> QED BY <4>1, <4>2
    <3>3. JobOK(k("SENDING", PendingNonce, j.retries + 1), PendingNonce)
      <4>1. j.retries + 1 \in Nat BY <2>2
      <4>2. k("SENDING", PendingNonce, j.retries + 1) \in Jobs BY <1>1, <2>4, <4>1
      <4> QED BY <4>2 DEF JobOK
    <3>. HIDE DEF k
    <3> QED BY <1>1, <1>2, <2>3, <3>1, <3>2, <3>3, OneJob
  <2>9. CASE Retry(s)
    <3>1. j.status = "SENDING" /\ localNonce' = localNonce BY <2>1, <2>9 DEF Retry
    <3>2. j.nonce = localNonce BY <2>2, <3>1 DEF JobOK
    <3>3. job' = [job EXCEPT ![s] = k("SENDING", localNonce, j.retries + 1)]
      <4>1. job' = [job EXCEPT ![s] = [j EXCEPT !.retries = @ + 1]] BY <2>1, <2>9 DEF Retry
      <4>2. [j EXCEPT !.retries = @ + 1] = k("SENDING", localNonce, j.retries + 1) BY <2>2, <3>1, <3>2 DEF Jobs
      <4> QED BY <4>1, <4>2
    <3>4. JobOK(k("SENDING", localNonce, j.retries + 1), localNonce)
      <4>1. j.retries + 1 \in Nat BY <2>2
      <4>2. k("SENDING", localNonce, j.retries + 1) \in Jobs BY <1>1, <2>4, <4>1
      <4> QED BY <4>2 DEF JobOK
    <3>. HIDE DEF k
    <3> QED BY <1>1, <1>2, <2>3, <3>1, <3>3, <3>4, OneJob
  <2> QED BY <1>3, <2>5, <2>6, <2>7, <2>8, <2>9 DEF RelayerStep
<1>4. CASE Exit
  <2>. DEFINE e(s) == IF job[s].status = "SENDING" THEN [NewJob EXCEPT !.status = "FORGOTTEN"] ELSE job[s]
  <2>1. job' = [s \in Transfers |-> e(s)] /\ localNonce' = PendingNonce BY <1>4 DEF Exit
  <2>2. [NewJob EXCEPT !.status = "FORGOTTEN"] = [status |-> "FORGOTTEN", nonce |-> Null, retries |-> 0]
    BY DEF NewJob
  <2>3. \A s \in Transfers : e(s) \in Jobs /\ e(s).status # "SENDING" /\ JobOK(e(s), PendingNonce)
    <3> SUFFICES ASSUME NEW s \in Transfers
                 PROVE  e(s) \in Jobs /\ e(s).status # "SENDING" /\ JobOK(e(s), PendingNonce)
      OBVIOUS
    <3>1. job[s] \in Jobs /\ JobOK(job[s], localNonce) BY <1>2 DEF JobsOK
    <3>2. CASE job[s].status = "SENDING"
      <4>1. e(s) = [status |-> "FORGOTTEN", nonce |-> Null, retries |-> 0] BY <2>2, <3>2
      <4>. HIDE DEF e
      <4> QED BY <4>1 DEF Jobs, JobOK
    <3>3. CASE job[s].status # "SENDING"
      <4>1. e(s) = job[s] BY <3>3
      <4>. HIDE DEF e
      <4> QED BY <3>1, <3>3, <4>1 DEF JobOK
    <3> QED BY <3>2, <3>3
  <2>. HIDE DEF e, Jobs
  <2>4. job' \in [Transfers -> Jobs] /\ \A s \in Transfers : job'[s] = e(s) BY <2>1, <2>3
  <2> QED BY <1>1, <2>1, <2>3, <2>4 DEF JobsOK
<1>5. CASE UNCHANGED <<job, localNonce>> BY <1>1, <1>2, <1>5
<1>6. DvpNext => \/ \E s \in Transfers : RelayerStep(s)
                 \/ Exit \/ UNCHANGED <<job, localNonce>>
  BY DEF DvpNext, CallStep, StartFund, StartRelease, ReadAllowance, ReadNonce, Broadcast, BroadcastRefused,
     Wait, CallThrows, Mine, Tick, Refund, Cancel
<1> QED BY <1>3, <1>4, <1>5, <1>6

----------------------------------------------------------------------------
(* Who disturbs whom. *)

\* A step is the step of one user of the wallet, or of somebody else.
OwnStep(u) ==
  \/ u \in Requests /\ (CallStep(u) \/ CallThrows(u))
  \/ u \in Transfers /\ RelayerStep(u)
  \/ \E t \in sent : t.by = u /\ Mine(t)
  \/ u \notin Users /\ ((\E d \in Deals : Refund(d) \/ Cancel(d)) \/ Exit)

\* It disturbs at least the others who work.
Disturbs(u) ==
  \E D \in SUBSET Users : D \cap Others(u) = Others(u) /\ Disturb(D)

LEMMA WhoseStep == ASSUME DvpNext PROVE Tick \/ \E u : OwnStep(u) /\ Disturbs(u)
<1>1. \A u : Others(u) \in SUBSET Users BY DEF Others
<1>2. \A u : StepOf(u) => Disturbs(u) BY <1>1 DEF StepOf, Disturbs
<1>3. ASSUME NEW u \in Users, StartOf(u) PROVE Disturbs(u)
  <2>1. PICK D : D = (IF Pending \cup Others(u) # {} THEN {u} ELSE {}) OBVIOUS
  <2>2. D \in SUBSET Users BY <2>1
  <2>3. Disturb(Others(u) \cup D) BY <1>3, <2>1 DEF StartOf
  <2>. HIDE DEF Others
  <2> QED BY <1>1, <2>2, <2>3 DEF Disturbs
<1>4. ASSUME NEW r \in Requests, CallStep(r) \/ CallThrows(r) PROVE OwnStep(r) /\ Disturbs(r)
  <2>1. r \in Users BY DEF Users
  <2>2. StepOf(r) \/ StartOf(r)
    BY <1>4 DEF CallStep, StartFund, StartRelease, ReadAllowance, ReadNonce, Broadcast, BroadcastRefused,
         Wait, CallThrows
  <2> QED BY <1>2, <1>3, <1>4, <2>1, <2>2 DEF OwnStep
<1>5. ASSUME NEW s \in Transfers, RelayerStep(s) PROVE OwnStep(s) /\ Disturbs(s)
  <2>1. s \in Users BY DEF Users
  <2>2. StepOf(s) \/ StartOf(s)
    BY <1>5 DEF RelayerStep, TakeJob, SendTransfer, GiveUp, Resync, Retry
  <2> QED BY <1>2, <1>3, <1>5, <2>1, <2>2 DEF OwnStep
<1>6. ASSUME NEW t \in sent, Mine(t) PROVE OwnStep(t.by) /\ Disturbs(t.by)
  <2>1. StepOf(t.by) BY <1>6 DEF Mine
  <2> QED BY <1>2, <1>6, <2>1 DEF OwnStep
<1>7. ASSUME NEW d \in Deals, Refund(d) PROVE OwnStep(Null) /\ Disturbs(Null)
  <2>1. StepOf(Null) /\ Null \notin Users BY <1>7, DvpAssumption DEF Refund
  <2> QED BY <1>2, <1>7, <2>1 DEF OwnStep
<1>8. ASSUME NEW d \in Deals, Cancel(d) PROVE OwnStep(d) /\ Disturbs(d)
  <2>1. StepOf(d) /\ d \notin Users BY <1>8, DvpAssumption DEF Cancel
  <2> QED BY <1>2, <1>8, <2>1 DEF OwnStep
<1>9. CASE Exit
  <2>1. StepOf(Null) /\ Null \notin Users BY <1>9, DvpAssumption DEF Exit
  <2> QED BY <1>2, <1>9, <2>1 DEF OwnStep
<1> QED BY <1>4, <1>5, <1>6, <1>7, <1>8, <1>9 DEF DvpNext

\* A user at work that ends the step undisturbed made the step itself, or time passed.
LEMMA AloneAtWork ==
  ASSUME DvpNext, NEW u \in Users, Active(u), u \notin disturbed',
         u \in Requests => call'[u].pc # "done"
  PROVE  u \notin disturbed /\ (Tick \/ OwnStep(u))
<1>1. CASE Tick BY <1>1 DEF Tick
<1>2. ASSUME NEW v, OwnStep(v), Disturbs(v) PROVE u \notin disturbed /\ OwnStep(u)
  <2>1. PICK D \in SUBSET Users : D \cap Others(v) = Others(v) /\ Disturb(D) BY <1>2 DEF Disturbs
  <2>2. u \notin {r \in Requests : call'[r].pc = "done"} OBVIOUS
  <2>3. u \notin disturbed \cup D
    BY <2>1, <2>2 DEF Disturb
  <2>4. CASE u = v BY <1>2, <2>3, <2>4
  <2>5. CASE u # v
    <3>1. u \in Others(v) BY <2>5 DEF Others
    <3> QED BY <2>1, <2>3, <3>1
  <2> QED BY <2>4, <2>5
<1> QED BY <1>1, <1>2, WhoseStep

----------------------------------------------------------------------------
(* The service invariant. *)

LEMMA InitService == DvpInit => ServiceInv /\ MinedIsTrue /\ AnswersAreTrue /\ TransfersAlone /\ CallsAlone
<1> SUFFICES ASSUME DvpInit PROVE ServiceInv /\ MinedIsTrue /\ AnswersAreTrue /\ TransfersAlone /\ CallsAlone OBVIOUS
<1>1. /\ time = 0 /\ deals = [d \in Deals |-> NoDeal] /\ allowance = 0
      /\ balance = [h \in Holders |-> IF h = "operator" THEN Funds ELSE 0]
  BY DEF DvpInit, EscrowInit
<1>2. /\ sent = {} /\ mined = <<>> /\ call = [r \in Requests |-> NewCall] /\ job = [s \in Transfers |-> NewJob]
      /\ localNonce = 0 /\ disturbed = {} /\ faults = MaxFaults
  BY DEF DvpInit
<1>3. EscrowTypeOK
  <2>1. NoDeal \in Deal BY DEF NoDeal, Deal
  <2>2. balance \in [Holders -> Nat] BY <1>1, EscrowAssumption
  <2> QED BY <1>1, <2>1, <2>2 DEF EscrowTypeOK
<1>4. Len(mined) = 0 /\ mined \in Seq([tx : sent, ok : BOOLEAN]) BY <1>2, EmptySeq
<1>5. \A r \in Requests : /\ call[r] = NewCall /\ call[r].pc = "new" /\ call[r].answer = Null
  BY <1>2 DEF NewCall
<1>6. \A s \in Transfers : job[s] = NewJob /\ job[s].status = "COMPLIANCE_APPROVED" /\ job[s].retries = 0
  BY <1>2 DEF NewJob
<1>7. NewCall \in Calls BY DEF NewCall, Calls, Pcs, Answers
<1>8. NewJob \in Jobs BY DEF NewJob, Jobs
<1>9. call \in [Requests -> Calls] /\ job \in [Transfers -> Jobs]
  <2>. HIDE DEF Calls, Jobs
  <2> QED BY <1>2, <1>7, <1>8
<1>10. DvpTypeOK
  <2>1. MaxFaults \in Nat BY DvpAssumption
  <2>2. call \in [Requests -> [
       pc : {"new", "allowance", "approve", "fund", "release", "send", "wait", "done"},
       tx : Tx \cup {Null}, deadline : Nat, answer : {Null, "Funded", "Released", "error"}]]
    BY <1>9 DEF Calls, Pcs, Answers
  <2>3. job \in [Transfers -> [
       status : {"COMPLIANCE_APPROVED", "SENDING", "SUBMITTED", "FAILED", "FORGOTTEN"},
       nonce : Nat \cup {Null}, retries : Nat]]
    BY <1>9 DEF Jobs
  <2> QED BY <1>2, <1>3, <1>4, <1>5, <2>1, <2>2, <2>3 DEF DvpTypeOK
<1>11. SentProper BY <1>2, FS_EmptySet DEF SentProper
<1>12. MinedInOrder /\ MinedIsTrue BY <1>4 DEF MinedInOrder, MinedIsTrue
<1>13. CallsFit BY <1>5 DEF CallsFit, CallFits
<1>14. JobsFit BY <1>6 DEF JobsFit
<1>15. LocalNotAhead BY <1>2, <1>4 DEF LocalNotAhead, NextNonce
<1>16. AnswersAreTrue BY <1>5, DvpAssumption DEF AnswersAreTrue
<1>17. TransfersAlone /\ CallsAlone BY <1>2, <1>5, <1>6, DvpAssumption DEF TransfersAlone, CallsAlone, LoneTransfer, Active
<1> QED BY <1>10, <1>11, <1>12, <1>13, <1>14, <1>15, <1>16, <1>17 DEF ServiceInv

LEMMA ServiceStep ==
  ASSUME ServiceInv, MinedIsTrue, AnswersAreTrue, [DvpNext]_dvpVars
  PROVE  ServiceInv' /\ MinedIsTrue' /\ AnswersAreTrue'
<1>. USE DEF ServiceInv
<1>1. CASE UNCHANGED dvpVars
  BY <1>1 DEF dvpVars, escrowVars, walletVars, DvpTypeOK, EscrowTypeOK, SentProper, MinedInOrder, CallsFit, CallFits,
     JobsFit, LocalNotAhead, NextNonce, PendingNonces, Pending, MinedIsTrue, AnswersAreTrue
<1>2. CASE DvpNext
  <2>1. EscrowTypeOK'
    <3>1. EscrowTypeOK /\ ContractStep /\ time' \in Nat BY <1>2, TypeFacts, StepFrame
    <3> QED BY <3>1, ContractTypes
  <2>2. SentProper'
    <3>1. sent' = sent \/ \E t : Proper(t) /\ sent' = sent \cup {t} BY <1>2, StepFrame
    <3>2. ASSUME NEW t, Proper(t), sent' = sent \cup {t} PROVE SentProper'
      <4>1. IsFiniteSet(sent') BY <3>2, FS_AddElement DEF SentProper
      <4> QED BY <3>2, <4>1 DEF SentProper, Proper
    <3>3. ASSUME sent' = sent PROVE SentProper' BY <3>3 DEF SentProper, Proper
    <3> QED BY <3>1, <3>2, <3>3
  <2>3. mined' \in Seq([tx : sent', ok : BOOLEAN]) /\ MinedInOrder' /\ MinedIsTrue'
    BY <1>2, MinedStep
  <2>4. AnswersAreTrue' BY <1>2, AnswersStep
  <2>5. CallsFit' /\ \A r \in Requests : call'[r].pc = "wait" => call'[r].tx \in sent'
    BY <1>2, CallsStayFit
  <2>6. call' \in [Requests -> [
       pc : {"new", "allowance", "approve", "fund", "release", "send", "wait", "done"},
       tx : Tx \cup {Null}, deadline : Nat, answer : {Null, "Funded", "Released", "error"}]]
    <3>1. call' \in [Requests -> Calls] BY <1>2, CallsStep
    <3> QED BY <3>1 DEF Calls, Pcs, Answers
  <2>7. JobsOK(job', localNonce') /\ localNonce' \in Nat BY <1>2, JobsStep
  <2>8. JobsFit' BY <2>7 DEF JobsOK, JobOK, JobsFit
  <2>9. job' \in [Transfers -> [
       status : {"COMPLIANCE_APPROVED", "SENDING", "SUBMITTED", "FAILED", "FORGOTTEN"},
       nonce : Nat \cup {Null}, retries : Nat]]
    BY <2>7 DEF JobsOK, Jobs
  <2>10. faults' \in Nat
    <3>1. faults \in Nat BY DEF DvpTypeOK
    <3>2. faults' = faults \/ Fault
      BY <1>2 DEF DvpNext, CallStep, StartFund, StartRelease, ReadAllowance, ReadNonce, Broadcast,
        BroadcastRefused, Wait, CallThrows, RelayerStep, TakeJob, SendTransfer, GiveUp, Resync, Retry, Mine, Tick,
        Refund, Cancel, Exit
    <3> QED BY <3>1, <3>2 DEF Fault
  <2>11. disturbed' \subseteq Users
    <3>1. disturbed \subseteq Users BY DEF DvpTypeOK
    <3> QED BY <1>2, <3>1, WhoseStep DEF Tick, Disturbs, Disturb
  <2>12. LocalNotAhead'
    <3>1. NextNonce \in Nat /\ localNonce \in Nat BY TypeFacts
    <3>2. \A n \in NextNonce .. (PendingNonce - 1) : n \in PendingNonces
      BY <3>1, PendingNonceIsFirstGap
    <3>3. NextNonce' \in Nat /\ NextNonce <= NextNonce'
      <4>1. mined' = mined \/ \E t \in sent : Mine(t) BY <1>2, StepFrame
      <4>2. ASSUME NEW t \in sent, Mine(t) PROVE NextNonce' = NextNonce + 1
        BY <4>2, MineAppends DEF NextNonce
      <4> QED BY <3>1, <4>1, <4>2 DEF NextNonce
    <3>4. sent \subseteq sent' BY <1>2, StepFrame
    <3>5. \/ localNonce' = localNonce \/ localNonce' = PendingNonce
          \/ /\ localNonce' = localNonce + 1
             /\ \E t \in sent' : t.nonce = localNonce
      <4>1. ASSUME NEW s \in Transfers, SendTransfer(s)
            PROVE localNonce' = localNonce + 1 /\ \E t \in sent' : t.nonce = localNonce
        <5>1. job[s].nonce = localNonce BY <4>1 DEF SendTransfer, JobsFit
        <5>2. TransferTx(s).nonce = localNonce BY <5>1 DEF TransferTx
        <5> QED BY <4>1, <5>2 DEF SendTransfer
      <4> QED BY <1>2, <4>1
        DEF DvpNext, CallStep, StartFund, StartRelease, ReadAllowance, ReadNonce, Broadcast, BroadcastRefused,
          Wait, CallThrows, RelayerStep, TakeJob, GiveUp, Resync, Retry, Mine, Tick, Refund, Cancel, Exit
    <3>6. PendingNonce \in Nat BY <3>1, PendingNonceIsFirstGap
    <3>7. PICK a, b : a = NextNonce' /\ b = localNonce' OBVIOUS
    <3>8. a \in Nat /\ NextNonce <= a /\ b \in Nat BY <2>7, <3>3, <3>7
    <3>9. ASSUME NEW n \in a .. (b - 1) PROVE \E t \in sent' : t.nonce = n
      <4>1. n \in Int /\ NextNonce <= n /\ n < b BY <3>1, <3>8
      <4>2. n < localNonce => \E t \in sent : t.nonce = n
        BY <3>1, <4>1 DEF LocalNotAhead, PendingNonces, Pending
      <4>3. n < PendingNonce => \E t \in sent : t.nonce = n
        BY <3>1, <3>2, <3>6, <4>1 DEF PendingNonces, Pending
      <4> QED BY <3>1, <3>4, <3>5, <3>7, <4>1, <4>2, <4>3
    <3>10. ASSUME NEW n \in a .. (b - 1) PROVE n \in PendingNonces'
      <4>1. PICK t \in sent' : t.nonce = n BY <3>9
      <4>2. t.nonce >= NextNonce' BY <3>7, <3>8, <4>1
      <4>3. t \in Pending' BY <4>2 DEF Pending
      <4> QED BY <4>1, <4>3 DEF PendingNonces
    <3> QED BY <3>7, <3>10 DEF LocalNotAhead
  <2>13. DvpTypeOK' BY <2>1, <2>3, <2>5, <2>6, <2>7, <2>9, <2>10, <2>11, <2>2, MakerOf DEF DvpTypeOK, SentProper, Proper
  <2> QED BY <2>2, <2>3, <2>4, <2>5, <2>8, <2>12, <2>13
<1> QED BY <1>1, <1>2

LEMMA ServiceInvariant == DvpSpec => [](ServiceInv /\ MinedIsTrue /\ AnswersAreTrue)
<1>1. DvpInit => ServiceInv /\ MinedIsTrue /\ AnswersAreTrue BY InitService
<1>2. ServiceInv /\ MinedIsTrue /\ AnswersAreTrue /\ [DvpNext]_dvpVars => (ServiceInv /\ MinedIsTrue /\ AnswersAreTrue)'
  BY ServiceStep
<1> QED BY <1>1, <1>2, PTL DEF DvpSpec

\* The handlers' variables, the wallet's transactions, the relayer's jobs and the
\* contract keep their types, and only what was broadcast is waited for or mined.
THEOREM DvpTypeCorrect == DvpSpec => []DvpTypeOK
<1>1. ServiceInv => DvpTypeOK BY DEF ServiceInv
<1> QED BY <1>1, ServiceInvariant, PTL

\* DvpService: Funded is answered only for a deal that holds or held what was
\* asked, Released only when the beneficiary was paid, whatever else went on.
THEOREM AnswersHold == DvpSpec => []AnswersAreTrue
BY ServiceInvariant, PTL

\* Money moves only with the deals.
LEMMA MoneyKept ==
  ASSUME IsFiniteSet(Deals), ServiceInv, MoneyFollowsDeals, [DvpNext]_dvpVars
  PROVE  MoneyFollowsDeals'
<1>1. CASE UNCHANGED dvpVars
  <2>1. UNCHANGED <<deals, balance>> BY <1>1 DEF dvpVars, escrowVars
  <2>2. ContractStep
    <3>1. allowance' = allowance BY <1>1 DEF dvpVars, escrowVars
    <3> QED BY <2>1, <3>1 DEF ContractStep, ServiceInv, DvpTypeOK, EscrowTypeOK
  <2> QED BY <2>2, MoneyStep DEF ServiceInv, DvpTypeOK
<1>2. CASE DvpNext BY <1>2, TypeFacts, StepFrame, MoneyStep DEF ServiceInv
<1> QED BY <1>1, <1>2

LEMMA InitMoney == ASSUME IsFiniteSet(Deals), DvpInit PROVE MoneyFollowsDeals
<1>1. /\ deals = [d \in Deals |-> NoDeal]
      /\ balance = [h \in Holders |-> IF h = "operator" THEN Funds ELSE 0]
  BY DEF DvpInit, EscrowInit
<1>2. InState("Funded") = {} /\ InState("Released") = {} BY <1>1 DEF InState, NoDeal
<1>3. \A f : Sum(f, {}) = 0 BY FS_EmptySet, SumNext
<1>4. balance["operator"] = Funds /\ balance["escrow"] = 0 /\ balance["beneficiary"] = 0 /\ balance["payee"] = 0
  BY <1>1 DEF Holders
<1>5. InState("Funded") \cup InState("Released") = {} BY <1>2
<1> QED BY <1>2, <1>3, <1>4, <1>5, MoneyIsSums, EscrowAssumption DEF MoneyIs

\* DvPEscrow.sol: the escrow holds what the funded deals are worth and the
\* beneficiary what the released ones are, through fund, release, refund and
\* cancel in any order, for any number of deals.
THEOREM MoneyIsSafe == ASSUME IsFiniteSet(Deals) PROVE DvpSpec => []MoneyFollowsDeals
<1>1. DvpInit => MoneyFollowsDeals BY InitMoney
<1>2. ServiceInv /\ MoneyFollowsDeals /\ [DvpNext]_dvpVars => MoneyFollowsDeals' BY MoneyKept
<1> QED BY <1>1, <1>2, ServiceInvariant, PTL DEF DvpSpec

----------------------------------------------------------------------------
(* A transfer that nobody overlaps. *)

\* Starting undisturbed is starting on an idle wallet.
LEMMA StartsAlone ==
  ASSUME NEW u, StartOf(u), u \notin disturbed', u \in Requests => call'[u].pc # "done"
  PROVE  Pending = {} /\ Others(u) = {}
<1>1. CASE Pending \cup Others(u) # {}
  <2>1. disturbed' = (disturbed \cup (Others(u) \cup {u})) \ {r \in Requests : call'[r].pc = "done"}
    BY <1>1 DEF StartOf, Disturb
  <2> QED BY <2>1
<1> QED BY <1>1

LEMMA LoneTransferStep ==
  ASSUME ServiceInv, faults <= MaxFaults, DvpNext,
         NEW s \in Transfers, Lone(s) => LoneTransfer(s), Lone(s)'
  PROVE  LoneTransfer(s)'
<1>1. /\ NextNonce \in Nat /\ localNonce \in Nat /\ faults \in Nat /\ MaxFaults \in Nat /\ MaxRetries \in Nat
      /\ PendingNonce \in Nat /\ (Pending = {} => PendingNonce = NextNonce)
  BY TypeFacts, PendingNonceIsFirstGap, DvpAssumption DEF ServiceInv
<1>2. s \in Users /\ s \notin Requests BY DvpAssumption DEF Users
<1>3. ~ Fault
  BY <1>1 DEF Fault, Lone
<1>4. faults = MaxFaults
  <2>1. faults' = faults \/ Fault
    BY DEF DvpNext, CallStep, StartFund, StartRelease, ReadAllowance, ReadNonce, Broadcast,
      BroadcastRefused, Wait, CallThrows, RelayerStep, TakeJob, SendTransfer, GiveUp, Resync, Retry, Mine, Tick,
      Refund, Cancel, Exit
  <2> QED BY <1>3, <2>1 DEF Lone
<1>5. s \notin disturbed
  BY <1>2, WhoseStep DEF Lone, Tick, Disturbs, Disturb
<1>6. LoneTransfer(s) BY <1>4, <1>5 DEF Lone
<1>7. ~ Exit BY <1>3 DEF Exit
<1>8. /\ job \in [Transfers -> Jobs] /\ job[s].retries \in Nat
      /\ job[s].status \in {"COMPLIANCE_APPROVED", "SENDING", "SUBMITTED", "FAILED"}
      /\ job[s].status \in {"SENDING", "SUBMITTED"} => job[s].nonce \in Nat
      /\ job[s].status = "SENDING" => job[s].nonce = localNonce
      /\ job[s].status = "COMPLIANCE_APPROVED" => job[s].retries = 0
  <2>1. job \in [Transfers -> Jobs] BY DEF ServiceInv, DvpTypeOK, Jobs
  <2> QED BY <1>1, <1>6, <2>1 DEF Jobs, ServiceInv, JobsFit, LoneTransfer
<1>. DEFINE Goal ==
       /\ job'[s].status # "FORGOTTEN"
       /\ job'[s].status = "FAILED" => MaxRetries = 0
       /\ job'[s].status = "SENDING" =>
            /\ Pending' = {}
            /\ job'[s].nonce = NextNonce' \/ (job'[s].nonce < NextNonce' /\ job'[s].retries = 0)
       /\ job'[s].status = "SUBMITTED" =>
            \/ job'[s].nonce = NextNonce' /\ Pending' = {TransferTx(s)'}
            \/ job'[s].nonce < NextNonce' /\ mined'[job'[s].nonce + 1].tx.by = s
<1>9. Goal => LoneTransfer(s)' BY DEF LoneTransfer
<1>10. SUFFICES Goal BY <1>9
\* What was mined stays mined.
<1>11. /\ NextNonce' \in Nat /\ NextNonce <= NextNonce'
       /\ \A k \in 1 .. NextNonce : mined'[k] = mined[k]
  <2>1. mined' = mined \/ \E t \in sent : Mine(t) BY StepFrame DEF ServiceInv
  <2>2. CASE mined' = mined BY <1>1, <2>2 DEF NextNonce
  <2>3. ASSUME NEW t \in sent, Mine(t)
        PROVE  NextNonce' = NextNonce + 1 /\ \A k \in 1 .. NextNonce : mined'[k] = mined[k]
    BY <2>3, MineAppends DEF NextNonce, ServiceInv
  <2> QED BY <1>1, <2>1, <2>2, <2>3
<1>12. CASE RelayerStep(s)
  <2>1. UNCHANGED mined BY <1>12 DEF RelayerStep, TakeJob, SendTransfer, GiveUp, Resync, Retry, walletVars
  <2>2. NextNonce' = NextNonce BY <2>1 DEF NextNonce
  <2>3. UNCHANGED sent => Pending' = Pending BY <2>2 DEF Pending
  <2>4. CASE TakeJob(s)
    <3>1. Pending = {} BY <1>2, <2>4, StartsAlone DEF TakeJob, Lone
    <3>2. Pending' = {} BY <2>3, <2>4, <3>1 DEF TakeJob, walletVars
    <3>3. localNonce <= NextNonce
      <4>1. PendingNonces = {} BY <3>1 DEF PendingNonces
      <4>2. ASSUME localNonce > NextNonce PROVE FALSE
        <5>1. NextNonce \in NextNonce .. (localNonce - 1) BY <1>1, <4>2
        <5> QED BY <4>1, <5>1 DEF ServiceInv, LocalNotAhead
      <4> QED BY <1>1, <4>2
    <3>4. job[s].status = "COMPLIANCE_APPROVED" /\ job' = [job EXCEPT ![s].status = "SENDING", ![s].nonce = localNonce]
      BY <2>4 DEF TakeJob
    <3>5. job'[s].status = "SENDING" /\ job'[s].nonce = localNonce /\ job'[s].retries = 0
      BY <1>8, <3>4 DEF Jobs
    <3> QED BY <1>1, <2>2, <3>2, <3>3, <3>5
  <2>5. CASE SendTransfer(s)
    <3>1. /\ job[s].status = "SENDING" /\ MayAccept(TransferTx(s)) /\ sent' = sent \cup {TransferTx(s)}
          /\ job' = [job EXCEPT ![s] = [status |-> "SUBMITTED", nonce |-> job[s].nonce, retries |-> 0]]
      BY <2>5 DEF SendTransfer
    <3>2. TransferTx(s).nonce = job[s].nonce BY DEF TransferTx
    <3>3. job[s].nonce = NextNonce /\ Pending = {}
      BY <1>1, <1>6, <1>8, <3>1, <3>2 DEF MayAccept, LoneTransfer
    <3>4. job'[s].status = "SUBMITTED" /\ job'[s].nonce = job[s].nonce
      BY <1>8, <3>1 DEF Jobs
    <3>5. TransferTx(s)' = TransferTx(s) BY <3>4 DEF TransferTx
    <3>6. Pending' = {TransferTx(s)} BY <1>1, <2>2, <3>1, <3>2, <3>3 DEF Pending
    <3> QED BY <2>2, <3>3, <3>4, <3>5, <3>6
  <2>6. ASSUME job[s].status = "SENDING", MayRefuse(TransferTx(s))
        PROVE  job[s].nonce < NextNonce /\ job[s].retries = 0 /\ Pending = {} /\ ~ MayAccept(TransferTx(s))
    <3>1. Pending = {} BY <1>6, <2>6 DEF LoneTransfer
    <3>2. TransferTx(s).nonce = job[s].nonce BY DEF TransferTx
    <3>3. PendingNonces = {} BY <3>1 DEF PendingNonces
    <3>4. ~ MayAccept(TransferTx(s)) BY <2>6, <3>3 DEF MayRefuse
    <3>5. job[s].nonce # NextNonce
      <4>1. ASSUME job[s].nonce = NextNonce PROVE FALSE
        <5>1. TransferTx(s) \in sent BY <1>1, <3>2, <3>4, <4>1 DEF MayAccept
        <5>2. TransferTx(s) \in Pending BY <1>1, <3>2, <4>1, <5>1 DEF Pending
        <5> QED BY <3>1, <5>2
      <4> QED BY <4>1
    <3> QED BY <1>6, <2>6, <3>1, <3>4, <3>5 DEF LoneTransfer
  <2>7. CASE GiveUp(s)
    <3>1. job[s].status = "SENDING" /\ MayRefuse(TransferTx(s)) /\ job[s].retries = MaxRetries
      BY <1>3, <2>7 DEF GiveUp
    <3>2. MaxRetries = 0 BY <2>6, <3>1
    <3>3. job'[s].status = "FAILED" BY <1>8, <2>7 DEF GiveUp, NewJob
    <3> QED BY <3>2, <3>3
  <2>8. CASE Resync(s)
    <3>1. /\ job[s].status = "SENDING" /\ MayRefuse(TransferTx(s)) /\ UNCHANGED sent
          /\ job' = [job EXCEPT ![s].nonce = PendingNonce, ![s].retries = @ + 1]
      BY <2>8 DEF Resync, MayRefuse, walletVars
    <3>2. job'[s].nonce = PendingNonce /\ job'[s].status = "SENDING" BY <1>8, <3>1 DEF Jobs
    <3>3. Pending = {} BY <2>6, <3>1
    <3>4. Pending' = {} BY <2>3, <3>1, <3>3
    <3>5. job'[s].nonce = NextNonce' BY <1>1, <2>2, <3>2, <3>3
    <3> QED BY <3>2, <3>4, <3>5
  <2>9. CASE Retry(s)
    <3> QED BY <1>3, <2>9 DEF Retry
  <2> QED BY <1>12, <2>4, <2>5, <2>7, <2>8, <2>9 DEF RelayerStep
\* Otherwise the job is as it was.
<1>13. CASE ~ RelayerStep(s)
  <2>1. job'[s] = job[s]
    <3>1. ASSUME NEW q \in Transfers, RelayerStep(q) PROVE job'[s] = job[s]
      <4>1. q # s BY <1>13, <3>1
      <4> QED BY <1>8, <3>1, <4>1 DEF RelayerStep, TakeJob, SendTransfer, GiveUp, Resync, Retry
    <3>2. CASE job' = job BY <3>2
    <3> QED BY <1>7, <3>1, <3>2
      DEF DvpNext, CallStep, StartFund, StartRelease, ReadAllowance, ReadNonce, Broadcast, BroadcastRefused,
        Wait, CallThrows, Mine, Tick, Refund, Cancel
  <2>2. TransferTx(s)' = TransferTx(s) BY <2>1 DEF TransferTx
  <2>3. CASE job[s].status \in {"COMPLIANCE_APPROVED", "FAILED"} BY <1>6, <2>1, <2>3 DEF LoneTransfer
  <2>4. CASE job[s].status = "SUBMITTED" /\ job[s].nonce < NextNonce
    <3>1. mined[job[s].nonce + 1].tx.by = s BY <1>1, <1>6, <1>8, <2>4 DEF LoneTransfer
    <3>2. job[s].nonce + 1 \in 1 .. NextNonce BY <1>1, <1>8, <2>4
    <3>3. mined'[job[s].nonce + 1].tx.by = s BY <1>11, <3>1, <3>2
    <3> QED BY <1>1, <1>8, <1>11, <2>1, <2>4, <3>3
  <2>5. CASE Active(s)
    <3>1. Tick \/ OwnStep(s) BY <1>2, <2>5, AloneAtWork DEF Lone
    <3>2. CASE Tick
      <4>1. NextNonce' = NextNonce /\ mined' = mined /\ sent' = sent BY <3>2 DEF Tick, NextNonce, walletVars
      <4>2. Pending' = Pending BY <4>1 DEF Pending
      <4> QED BY <1>6, <2>1, <2>2, <4>1, <4>2 DEF LoneTransfer
    <3>3. ASSUME NEW t \in sent, t.by = s, Mine(t) PROVE Goal
      <4>1. t.nonce = NextNonce /\ sent' = sent BY <3>3 DEF Mine
      <4>2. t \in Pending BY <1>1, <4>1 DEF Pending
      <4>3. job[s].status = "SUBMITTED" /\ job[s].nonce = NextNonce
        BY <1>1, <1>2, <1>6, <1>8, <2>5, <4>2 DEF Active, LoneTransfer
      <4>4. NextNonce' = NextNonce + 1 /\ mined'[NextNonce + 1] = [tx |-> t, ok |-> Succeeds(t)]
        BY <3>3, MineAppends DEF NextNonce, ServiceInv
      <4>5. mined'[job'[s].nonce + 1].tx.by = s BY <2>1, <3>3, <4>3, <4>4
      <4> QED BY <1>1, <2>1, <4>3, <4>4, <4>5
    <3> QED BY <1>2, <1>13, <3>1, <3>2, <3>3 DEF OwnStep
  <2> QED BY <1>1, <1>2, <1>8, <2>3, <2>4, <2>5 DEF Active
<1> QED BY <1>12, <1>13

----------------------------------------------------------------------------
(* A call that nobody overlaps. *)

LEMMA FundedCanBePaid ==
  ASSUME IsFiniteSet(Deals), EscrowTypeOK, MoneyFollowsDeals, NEW d \in Deals, deals[d].state = "Funded"
  PROVE  CanPay(d)
<1>1. deals \in [Deals -> Deal] /\ balance \in [Holders -> Nat] BY DEF EscrowTypeOK
<1>2. PICK a, F : a = Amounts /\ F = InState("Funded") OBVIOUS
<1>3. balance["escrow"] = Sum(a, F) BY <1>2, MoneyIsSums DEF MoneyIs
<1>4. \A e \in Deals : a[e] \in Nat /\ a[e] = deals[e].amount BY <1>1, <1>2 DEF Amounts, Deal
<1>5. d \in F /\ F \in SUBSET Deals BY <1>2 DEF InState
<1>6. IsFiniteSet(F) BY <1>5, FS_Subset
<1>7. Sum(a, F) = a[d] + Sum(a, F \ {d}) BY <1>4, <1>5, <1>6, SumTakesOut
<1>8. Sum(a, F \ {d}) \in Nat
  <2>1. F \ {d} \in SUBSET F OBVIOUS
  <2> QED BY <1>4, <1>5, <1>6, <2>1, SumOfNaturals
<1>9. PICK x, w : x = Sum(a, F \ {d}) /\ w = a[d] OBVIOUS
<1>10. balance["escrow"] = w + x /\ x \in Nat /\ w \in Nat /\ w = deals[d].amount
  BY <1>3, <1>4, <1>7, <1>8, <1>9
<1> QED BY <1>10 DEF CanPay, CanMove

\* The transaction of a call that has its allowance would revert only for a reason of its own.
LEMMA WhyItFails ==
  ASSUME IsFiniteSet(Deals), ServiceInv, MoneyFollowsDeals,
         NEW r \in Requests, call[r].pc \in {"send", "wait"},
         call[r].tx.does = "fund" => allowance >= Body[r].amount,
         ~ Succeeds(call[r].tx)
  PROVE  call[r].tx.does # "approve" /\ Impossible(r)
<1>1. PICK t : t = call[r].tx OBVIOUS
<1>2. /\ t \in Tx /\ t.by = r /\ t.deadline = call[r].deadline
      /\ t.does \in IF Body[r].op = "fund" THEN {"approve", "fund"} ELSE {"release"}
  BY <1>1 DEF ServiceInv, CallsFit, CallFits
<1>3. EscrowTypeOK /\ time \in Nat /\ allowance \in Nat BY TypeFacts DEF ServiceInv
<1>4. /\ Body[r].op \in {"fund", "release"} /\ Body[r].deal \in Deals /\ Body[r].amount \in Nat
      /\ Body[r].op = "fund" => Body[r].amount > 0
  BY BodyType
<1>5. balance["operator"] \in Nat /\ deals[Body[r].deal].deadline \in Nat /\ t.deadline \in Nat
  BY <1>2, <1>3, <1>4 DEF EscrowTypeOK, Holders, Deal, Tx
<1>6. t.does # "approve" BY <1>1 DEF Succeeds
<1>7. CASE t.does = "fund"
  <2>1. ~ CanFund(Body[r].deal, Body[r].amount, t.deadline) BY <1>1, <1>2, <1>7 DEF Succeeds, DealOf
  <2>2. Body[r].op = "fund" BY <1>2, <1>4, <1>7
  <2>3. allowance >= Body[r].amount BY <1>1, <1>7
  <2> QED BY <1>1, <1>2, <1>3, <1>4, <1>5, <1>6, <2>1, <2>2, <2>3 DEF CanFund, CanMove, Impossible
<1>8. CASE t.does = "release"
  <2>1. ~ CanRelease(Body[r].deal) BY <1>1, <1>2, <1>8 DEF Succeeds, DealOf
  <2>2. Body[r].op # "fund" BY <1>2, <1>8
  <2>3. deals[Body[r].deal].state = "Funded" => CanPay(Body[r].deal) BY <1>3, <1>4, FundedCanBePaid
  <2> QED BY <1>1, <1>3, <1>5, <1>6, <2>1, <2>2, <2>3 DEF CanRelease, Impossible
<1> QED BY <1>2, <1>6, <1>7, <1>8

LEMMA LoneCallStep ==
  ASSUME IsFiniteSet(Deals), ServiceInv, MoneyFollowsDeals, DvpNext,
         NEW r \in Requests, Active(r) /\ r \notin disturbed => LoneCall(r),
         call'[r].pc \notin {"new", "done"}, r \notin disturbed'
  PROVE  LoneCall(r)'
<1>1. /\ NextNonce \in Nat /\ EscrowTypeOK /\ time \in Nat /\ allowance \in Nat
      /\ PendingNonce \in Nat /\ (Pending = {} => PendingNonce = NextNonce)
  BY TypeFacts, PendingNonceIsFirstGap DEF ServiceInv
<1>2. r \in Users /\ r \notin Transfers BY DvpAssumption DEF Users
<1>3. /\ Body[r].op \in {"fund", "release"} /\ Body[r].deal \in Deals /\ Body[r].amount \in Nat
  BY BodyType
<1>4. CallFits(r) BY DEF ServiceInv, CallsFit
<1>. DEFINE Goal ==
       LET c == call'[r]
           amount == Body[r].amount
       IN  /\ c.pc # "wait" => Pending' = {}
           /\ c.pc = "send" => c.tx.nonce = NextNonce'
           /\ c.pc = "fund" => allowance' >= amount
           /\ c.pc = "send" /\ c.tx.does = "fund" => allowance' >= amount
           /\ c.pc = "wait" =>
                \/ /\ Pending' = {c.tx} /\ c.tx.nonce = NextNonce'
                   /\ c.tx.does = "fund" => allowance' >= amount
                \/ /\ Pending' = {} /\ c.tx.nonce + 1 = NextNonce'
                   /\ mined'[NextNonce'].tx = c.tx
                   /\ ~ mined'[NextNonce'].ok => c.tx.does # "approve" /\ Impossible(r)'
                   /\ c.tx.does = "approve" => allowance' >= amount
<1>5. Goal => LoneCall(r)' BY DEF LoneCall
<1>6. SUFFICES Goal BY <1>5
<1>7. /\ Active(r) <=> call[r].pc \notin {"new", "done"}
      /\ OwnStep(r) => CallStep(r) \/ CallThrows(r) \/ \E t \in sent : t.by = r /\ Mine(t)
  BY <1>2 DEF Active, OwnStep
\* The steps of the handler.
<1>8. CASE CallStep(r) \/ CallThrows(r)
  <2>1. CallMove(r)
    BY <1>1, <1>4, <1>8, CallMoves, TypeFacts DEF ServiceInv
  <2>2. UNCHANGED <<mined, allowance>>
    BY <1>8 DEF CallStep, StartFund, StartRelease, ReadAllowance, ReadNonce, Broadcast, BroadcastRefused,
       Wait, CallThrows, walletVars, escrowVars
  <2>3. NextNonce' = NextNonce BY <2>2 DEF NextNonce
  <2>4. UNCHANGED sent => Pending' = Pending BY <2>3 DEF Pending
  <2>5. Active(r) => LoneCall(r) BY <1>2, AloneAtWork
  <2>. DEFINE c == call[r]
              d == call'[r]
  <2>6. ASSUME StartFund(r) \/ StartRelease(r), d.pc \in {"allowance", "release"} PROVE Goal
    <3>1. StartOf(r) /\ UNCHANGED sent BY <2>6 DEF StartFund, StartRelease, walletVars
    <3>2. Pending = {} BY <3>1, StartsAlone
    <3> QED BY <2>4, <2>6, <3>1, <3>2
  <2>7. ASSUME ReadAllowance(r), d.pc = "approve" \/ (d.pc = "fund" /\ allowance >= Body[r].amount) PROVE Goal
    <3>1. c.pc = "allowance" /\ UNCHANGED sent BY <2>7 DEF ReadAllowance, walletVars
    <3>2. Pending = {} BY <1>7, <2>5, <3>1 DEF LoneCall
    <3> QED BY <2>2, <2>4, <2>7, <3>1, <3>2
  <2>8. ASSUME ReadNonce(r), NEW t, t = [nonce |-> PendingNonce, by |-> r, does |-> c.pc, deadline |-> c.deadline],
               d.pc = "send", d.tx = t
        PROVE  Goal
    <3>1. c.pc \in {"approve", "fund", "release"} /\ UNCHANGED sent BY <2>8 DEF ReadNonce, walletVars
    <3>2. Pending = {} /\ (c.pc = "fund" => allowance >= Body[r].amount) BY <1>7, <2>5, <3>1 DEF LoneCall
    <3>3. t.nonce = NextNonce /\ t.does = c.pc BY <1>1, <2>8, <3>2
    <3> QED BY <2>2, <2>3, <2>4, <2>8, <3>1, <3>2, <3>3
  <2>9. ASSUME Broadcast(r), d.pc = "wait", d.tx = c.tx PROVE Goal
    <3>1. c.pc = "send" /\ sent' = sent \cup {c.tx} BY <2>9 DEF Broadcast
    <3>2. /\ Pending = {} /\ c.tx.nonce = NextNonce
          /\ c.tx.does = "fund" => allowance >= Body[r].amount
      BY <1>7, <2>5, <3>1 DEF LoneCall
    <3>3. Pending' = {c.tx} BY <1>1, <2>3, <3>1, <3>2 DEF Pending
    <3> QED BY <2>2, <2>3, <2>9, <3>2, <3>3
  <2>10. ASSUME Wait(r), c.tx.does = "approve", d.pc = "fund" PROVE Goal
    <3>1. c.pc = "wait" /\ c.tx.nonce < NextNonce /\ UNCHANGED sent BY <2>10 DEF Wait, walletVars
    <3>2. Pending = {} /\ allowance >= Body[r].amount
      <4>1. c.tx.nonce # NextNonce
        <5>1. c.tx.nonce \in Nat BY <1>4, <3>1 DEF CallFits, Tx
        <5> QED BY <1>1, <3>1, <5>1
      <4> QED BY <1>7, <2>5, <2>10, <3>1, <4>1 DEF LoneCall
    <3> QED BY <2>2, <2>4, <2>10, <3>1, <3>2
  <2>11. Goal
    <3>. HIDE DEF Goal
    <3> QED BY <2>1, <2>6, <2>7, <2>8, <2>9, <2>10 DEF CallMove, Is
  <2> QED BY <2>11
\* The call waits, or does not work yet.
<1>9. CASE ~ (CallStep(r) \/ CallThrows(r))
  <2>1. call'[r] = call[r]
    <3>1. CallMove(r) => CallStep(r) \/ CallThrows(r) BY DEF CallMove, CallStep
    <3> QED BY <1>9, <3>1, CallsStep DEF ServiceInv, Is
  <2>2. Active(r) BY <1>7, <2>1
  <2>3. LoneCall(r) /\ (Tick \/ OwnStep(r)) BY <1>2, <2>1, <2>2, AloneAtWork
  <2>4. CASE Tick
    <3>1. /\ UNCHANGED <<deals, balance, allowance, mined, sent>> /\ time' = time + 1
      BY <2>4 DEF Tick, walletVars
    <3>2. NextNonce' = NextNonce BY <3>1 DEF NextNonce
    <3>3. Pending' = Pending BY <3>1, <3>2 DEF Pending
    <3>4. Impossible(r) => Impossible(r)'
      <4>1. deals[Body[r].deal].deadline \in Nat /\ call[r].deadline \in Nat
        <5>1. call[r] \in Calls BY TypeFacts DEF ServiceInv
        <5> QED BY <1>1, <1>3, <5>1 DEF EscrowTypeOK, Deal, Calls
      <4> QED BY <1>1, <2>1, <3>1, <4>1 DEF Impossible
    <3> QED BY <2>1, <2>3, <3>1, <3>2, <3>3, <3>4 DEF LoneCall
  <2>5. ASSUME NEW t \in sent, t.by = r, Mine(t) PROVE Goal
    <3>1. t.nonce = NextNonce /\ sent' = sent BY <2>5 DEF Mine
    <3>2. t \in Pending BY <1>1, <3>1 DEF Pending
    <3>3. /\ call[r].pc = "wait" /\ Pending = {call[r].tx} /\ t = call[r].tx
          /\ call[r].tx.does = "fund" => allowance >= Body[r].amount
      BY <2>3, <3>2 DEF LoneCall
    <3>4. NextNonce' = NextNonce + 1 /\ mined'[NextNonce + 1] = [tx |-> t, ok |-> Succeeds(t)]
      BY <2>5, MineAppends DEF NextNonce, ServiceInv
    <3>5. Pending' = {}
      <4>1. \A u \in sent : u.nonce \in Nat BY MakerOf DEF ServiceInv, SentProper
      <4>2. \A u \in sent : u.nonce >= NextNonce => u.nonce = NextNonce BY <3>1, <3>3 DEF Pending
      <4>3. \A u \in sent : ~ (u.nonce >= NextNonce + 1) BY <1>1, <4>1, <4>2
      <4> QED BY <3>1, <3>4, <4>3 DEF Pending
    <3>6. ~ Succeeds(t) => t.does # "approve" /\ Impossible(r)'
      <4>1. ASSUME ~ Succeeds(t) PROVE t.does # "approve" /\ Impossible(r)'
        <5>1. t.does # "approve" /\ Impossible(r) BY <3>3, <4>1, WhyItFails
        <5>2. UNCHANGED <<deals, balance, time>> BY <2>5, <4>1 DEF Mine
        <5> QED BY <2>1, <5>1, <5>2 DEF Impossible
      <4> QED BY <4>1
    <3>7. t.does = "approve" => allowance' >= Body[r].amount
      <4>1. ASSUME t.does = "approve" PROVE allowance' >= Body[r].amount
        <5>1. Succeeds(t) BY <4>1 DEF Succeeds
        <5>2. Effect(t) BY <2>5, <5>1 DEF Mine
        <5>3. Proper(t) BY DEF ServiceInv, SentProper
        <5>4. allowance' = Body[r].amount BY <1>1, <2>5, <4>1, <5>1, <5>2, <5>3, Effects
        <5> QED BY <1>3, <5>4
      <4> QED BY <4>1
    <3>8. PICK m, u : m = mined'[NextNonce + 1] /\ u = call[r].tx OBVIOUS
    <3>9. m.tx = u /\ (~ m.ok => u.does # "approve" /\ Impossible(r)') /\ u.nonce + 1 = NextNonce'
      BY <3>1, <3>3, <3>4, <3>6, <3>8
    <3> QED BY <2>1, <3>3, <3>4, <3>5, <3>7, <3>8, <3>9
  <2> QED BY <1>7, <1>9, <2>3, <2>4, <2>5
<1> QED BY <1>8, <1>9

----------------------------------------------------------------------------
(* Alone on the wallet. *)

LEMMA CallsAloneStep ==
  ASSUME IsFiniteSet(Deals), ServiceInv, MoneyFollowsDeals, CallsAlone, [DvpNext]_dvpVars
  PROVE  CallsAlone'
<1>1. CASE UNCHANGED dvpVars
  BY <1>1 DEF dvpVars, escrowVars, walletVars, CallsAlone, Active, LoneCall, Impossible, Pending, NextNonce
<1>2. CASE DvpNext
  <2> SUFFICES ASSUME NEW r \in Requests, Active(r)', r \notin disturbed' PROVE LoneCall(r)'
    BY DEF CallsAlone
  <2>1. call'[r].pc \notin {"new", "done"} BY DEF Active
  <2>2. Active(r) /\ r \notin disturbed => LoneCall(r) BY DEF CallsAlone
  <2> QED BY <1>2, <2>1, <2>2, LoneCallStep
<1> QED BY <1>1, <1>2

\* The error a lone call is answered has a reason of its own.
LEMMA LoneErrors ==
  ASSUME IsFiniteSet(Deals), ServiceInv, MoneyFollowsDeals, CallsAlone, [DvpNext]_dvpVars,
         NEW r \in Requests, call'[r].answer = "error", call[r].answer = Null
  PROVE  r \in disturbed \/ Impossible(r) \/ faults' < faults
<1> SUFFICES ASSUME r \notin disturbed PROVE Impossible(r) \/ faults' < faults OBVIOUS
<1>1. Null \notin {"Funded", "Released", "error"} BY DvpAssumption
<1>2. CallFits(r) /\ NextNonce \in Nat /\ faults \in Nat BY TypeFacts DEF ServiceInv, CallsFit
<1>3. CASE UNCHANGED dvpVars BY <1>1, <1>3 DEF dvpVars
<1>4. CASE Exit BY <1>2, <1>4 DEF Exit, Fault
<1>5. CASE DvpNext /\ ~ Exit
  <2>1. CallMove(r) BY <1>1, <1>5, CallsStep DEF ServiceInv, Is
  <2>2. BroadcastRefused(r) \/ CallThrows(r)
          \/ (Wait(r) /\ mined[call[r].tx.nonce + 1] # [tx |-> call[r].tx, ok |-> TRUE])
    BY <1>1, <2>1 DEF CallMove, Is
  <2>3. CASE CallThrows(r) BY <1>2, <2>3 DEF CallThrows, Fault
  <2>4. CASE BroadcastRefused(r)
    <3>1. call[r].pc = "send" /\ (~ Succeeds(call[r].tx) \/ MayRefuse(call[r].tx))
      BY <2>4 DEF BroadcastRefused
    <3>2. /\ Pending = {} /\ call[r].tx.nonce = NextNonce
          /\ call[r].tx.does = "fund" => allowance >= Body[r].amount
      BY <3>1 DEF CallsAlone, LoneCall, Active
    <3>3. call[r].tx \notin sent BY <1>2, <3>2 DEF Pending
    <3>4. ~ MayRefuse(call[r].tx) BY <1>2, <3>2, <3>3 DEF MayRefuse, MayAccept, PendingNonces
    <3> QED BY <3>1, <3>2, <3>4, WhyItFails
  <2>5. CASE Wait(r) /\ mined[call[r].tx.nonce + 1] # [tx |-> call[r].tx, ok |-> TRUE]
    <3>1. call[r].pc = "wait" /\ call[r].tx.nonce < NextNonce BY <2>5 DEF Wait
    <3>2. call[r].tx.nonce \in Nat BY <1>2, <3>1 DEF CallFits, Tx
    <3>3. LoneCall(r) BY <3>1 DEF CallsAlone, Active
    <3>4. /\ call[r].tx.nonce + 1 = NextNonce /\ mined[NextNonce].tx = call[r].tx
          /\ ~ mined[NextNonce].ok => Impossible(r)
      BY <1>2, <3>1, <3>2, <3>3 DEF LoneCall
    <3>5. NextNonce \in 1 .. Len(mined) BY <1>2, <3>2, <3>4 DEF NextNonce
    <3>6. mined[NextNonce] \in [tx : sent, ok : BOOLEAN]
      <4>1. mined \in Seq([tx : sent, ok : BOOLEAN]) BY DEF ServiceInv, DvpTypeOK
      <4> QED BY <3>5, <4>1, ElementOfSeq
    <3>7. mined[NextNonce] = [tx |-> call[r].tx, ok |-> mined[NextNonce].ok] /\ mined[NextNonce].ok \in BOOLEAN
      BY <3>4, <3>6
    <3>8. ~ mined[NextNonce].ok
      <4>1. PICK m : m = mined[NextNonce] OBVIOUS
      <4>2. m # [tx |-> call[r].tx, ok |-> TRUE] BY <2>5, <3>4, <4>1
      <4> QED BY <3>7, <4>1, <4>2
    <3> QED BY <3>4, <3>8
  <2> QED BY <2>2, <2>3, <2>4, <2>5
<1> QED BY <1>3, <1>4, <1>5

LEMMA CallsAloneInvariant ==
  ASSUME IsFiniteSet(Deals) PROVE DvpSpec => [](ServiceInv /\ MoneyFollowsDeals /\ CallsAlone)
<1>1. DvpInit => CallsAlone BY InitService
<1>2. ServiceInv /\ MoneyFollowsDeals /\ CallsAlone /\ [DvpNext]_dvpVars => CallsAlone' BY CallsAloneStep
<1> QED BY <1>1, <1>2, MoneyIsSafe, ServiceInvariant, PTL DEF DvpSpec

\* DvpService: a request that no other user of the wallet overlaps is answered with
\* an error only when what it asked is impossible, or a call to the node failed:
\* alone, it loses neither its allowance nor its nonce.
THEOREM LoneCallsSucceed == ASSUME IsFiniteSet(Deals) PROVE DvpSpec => LoneCallSucceeds
<1>. DEFINE Step == \A r \in Requests :
                      call'[r].answer = "error" /\ call[r].answer = Null =>
                        r \in disturbed \/ Impossible(r) \/ faults' < faults
<1>1. ServiceInv /\ MoneyFollowsDeals /\ CallsAlone /\ [DvpNext]_dvpVars => [Step]_dvpVars
  BY LoneErrors
<1> QED BY <1>1, CallsAloneInvariant, PTL DEF DvpSpec, LoneCallSucceeds

LEMMA TransfersAloneStep ==
  ASSUME ServiceInv, TransfersAlone, [DvpNext]_dvpVars
  PROVE  TransfersAlone'
<1>1. CASE UNCHANGED dvpVars
  BY <1>1 DEF dvpVars, walletVars, TransfersAlone, Lone, LoneTransfer, TransferTx, Pending, NextNonce
<1>2. CASE DvpNext
  <2>1. faults' <= MaxFaults
    <3>1. faults \in Nat /\ faults <= MaxFaults /\ MaxFaults \in Nat BY TypeFacts, DvpAssumption DEF ServiceInv, TransfersAlone
    <3>2. faults' = faults \/ Fault
      BY <1>2 DEF DvpNext, CallStep, StartFund, StartRelease, ReadAllowance, ReadNonce, Broadcast,
        BroadcastRefused, Wait, CallThrows, RelayerStep, TakeJob, SendTransfer, GiveUp, Resync, Retry, Mine, Tick,
        Refund, Cancel, Exit
    <3> QED BY <3>1, <3>2 DEF Fault
  <2>2. ASSUME NEW s \in Transfers, Lone(s)' PROVE LoneTransfer(s)'
    BY <1>2, <2>2, LoneTransferStep DEF TransfersAlone
  <2> QED BY <2>1, <2>2 DEF TransfersAlone
<1> QED BY <1>1, <1>2

\* relayer.service.ts: although each DvP transaction makes the nonce it keeps
\* stale, a transfer that no other user of the wallet overlaps (no DvP call, no
\* cancellation and no other settlement's transfer) never loses its nonce to
\* another transaction, and is given up only where MAX_RETRIES is 0 or a call
\* failed.
THEOREM LoneTransfersAreMined == DvpSpec => []LoneTransferIsMined
<1>1. DvpInit => TransfersAlone BY InitService
<1>2. ServiceInv /\ TransfersAlone /\ [DvpNext]_dvpVars => TransfersAlone' BY TransfersAloneStep
<1>3. ServiceInv /\ TransfersAlone => LoneTransferIsMined
  <2> SUFFICES ASSUME ServiceInv, TransfersAlone, NEW s \in Transfers,
                      Displaced(s) \/ (job[s].status = "FAILED" /\ MaxRetries > 0), s \notin disturbed, ~ (faults < MaxFaults)
               PROVE  FALSE
    BY DEF LoneTransferIsMined
  <2>1. faults = MaxFaults
    <3>1. faults \in Nat /\ faults <= MaxFaults BY TypeFacts DEF ServiceInv, TransfersAlone
    <3>2. MaxFaults \in Nat BY DvpAssumption
    <3> QED BY <3>1, <3>2
  <2>2. LoneTransfer(s) BY <2>1 DEF TransfersAlone, Lone
  <2>3. job[s].status = "SUBMITTED" => job[s].nonce \in Nat BY DEF ServiceInv, JobsFit
  <2>4. MaxRetries \in Nat BY DvpAssumption
  <2> QED BY <2>2, <2>3, <2>4, TypeFacts DEF LoneTransfer, Displaced, ServiceInv
<1> QED BY <1>1, <1>2, <1>3, ServiceInvariant, PTL DEF DvpSpec

=============================================================================
