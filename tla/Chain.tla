------------------------------- MODULE Chain -------------------------------
(***************************************************************************)
(* The Ethereum node the rail talks to over JSON-RPC, as the code under    *)
(* src/ uses it: eth_sendRawTransaction (through Contract.transfer),       *)
(* getTransactionReceipt, getTransaction, getTransactionCount('pending')   *)
(* and getBlockNumber. The node is not part of the repository; every       *)
(* definition here is external.                                            *)
(*                                                                         *)
(* A transaction is the settlement it pays, its nonce and its fee. Signing *)
(* the same three twice gives the same hash, so a transaction stands for   *)
(* its hash. A block holds at most one transaction of the operator wallet. *)
(***************************************************************************)
EXTENDS Integers, Sequences, FiniteSets

CONSTANTS
  Settlements,     \* the settlements (one USDC transfer each)
  Null,            \* an absent value: SQL NULL, no entry, no receipt
  MarketFees,      \* the fees getFeeData may quote
  MaxFee,          \* bound: fees are not bumped past it
  MaxBlocks,       \* bound: the chain stops growing at this height
  LastTxBlock,     \* bound: no operator transaction is mined above this height
  MaxReorgDepth,   \* how many of the last blocks a reorganisation may replace
  MayRevert,       \* TRUE when a mined transfer may have status 0
  Faults           \* bound: how often each kind of fault may happen

(***************************************************************************)
(* crash : the process exits and loses its memory                          *)
(* ack   : a broadcast the node accepted is not acknowledged, or the       *)
(*         database write that records it fails                            *)
(* throw : another RPC or database call of a handler rejects               *)
(* drop  : the node forgets a pending transaction                          *)
(* reorg : the last blocks are replaced                                    *)
(***************************************************************************)
FaultKinds == {"crash", "ack", "throw", "drop", "reorg"}

Txs == [sid : Settlements, nonce : Nat, fee : Nat]

ASSUME ChainAssumption ==
  /\ Null \notin Settlements
  /\ Null \notin Txs
  /\ Null \notin Nat
  /\ MarketFees \subseteq Nat
  /\ {MaxFee, MaxBlocks, LastTxBlock, MaxReorgDepth} \subseteq Nat
  /\ MayRevert \in BOOLEAN
  /\ Faults \in [FaultKinds -> Nat]

VARIABLES
  sent,     \* every transaction a node ever accepted: any of them may be mined
  pool,     \* the pending transactions our RPC node knows
  blocks,   \* the canonical chain
  faults    \* the faults that may still happen

chainVars == <<sent, pool, blocks, faults>>

Block == [tx : Txs \cup {Null}, ok : BOOLEAN, fork : Nat]

ChainTypeOK ==
  /\ sent \subseteq Txs
  /\ pool \subseteq sent
  /\ blocks \in Seq(Block)
  /\ \A i \in DOMAIN blocks : blocks[i].tx # Null => blocks[i].tx \in sent
  /\ faults \in [FaultKinds -> Nat]

ChainInit ==
  /\ sent = {}
  /\ pool = {}
  /\ blocks = <<>>
  /\ faults = Faults

----------------------------------------------------------------------------
(* What the RPC calls answer. *)

\* The nonces of the operator's transactions in the first n blocks of bs.
NoncesBelow(bs, n) ==
  {bs[j].tx.nonce : j \in {k \in 1..n : bs[k].tx # Null}}

\* Consensus: an account's transactions are mined in nonce order, from 0.
ValidChain(bs) ==
  \A i \in DOMAIN bs :
    bs[i].tx # Null => NoncesBelow(bs, i - 1) = 0 .. (bs[i].tx.nonce - 1)

MinedNonces == NoncesBelow(blocks, Len(blocks))

Heights(t) == {i \in DOMAIN blocks : blocks[i].tx = t}
Mined(t) == Heights(t) # {}
Height(t) == CHOOSE i \in Heights(t) : TRUE

\* getTransactionReceipt(t.hash): Null while t is not mined.
Receipt(t) ==
  IF Mined(t)
  THEN [height |-> Height(t), fork |-> blocks[Height(t)].fork, ok |-> blocks[Height(t)].ok]
  ELSE Null

\* getTransaction(t.hash): pending in our node's pool, or mined.
Known(t) == t \in pool \/ Mined(t)

\* getTransactionCount(operator, 'pending'): the first nonce neither mined
\* nor reachable through a contiguous run of pending ones.
PendingNonce ==
  LET used == MinedNonces \cup {t.nonce : t \in pool}
  IN  Cardinality({n \in used : 0 .. n \subseteq used})

\* A node refuses "nonce too low", "already known" and "replacement
\* transaction underpriced". A nonce beyond the next one is kept.
Accepts(t) ==
  /\ t.nonce \notin MinedNonces
  /\ \A u \in pool : u.nonce = t.nonce => u.fee < t.fee

----------------------------------------------------------------------------
(* What happens to the chain. *)

\* The node accepts t: it replaces a cheaper pending one of the same nonce
\* here, while other nodes may still mine that one.
Accept(t) ==
  /\ Accepts(t)
  /\ sent' = sent \cup {t}
  /\ pool' = {u \in pool : u.nonce # t.nonce} \cup {t}

Spend(kind) ==
  /\ faults[kind] > 0
  /\ faults' = [faults EXCEPT ![kind] = @ - 1]

Outcomes == IF MayRevert THEN BOOLEAN ELSE {TRUE}

\* Blocks mined after a reorganisation are told from those they replace by
\* the number of reorganisations still to come.
Fork == faults["reorg"]

NewBlock(t, ok) == [tx |-> t, ok |-> ok, fork |-> Fork]

Mine(t, ok) ==
  /\ Len(blocks) < LastTxBlock
  /\ ValidChain(Append(blocks, NewBlock(t, ok)))
  /\ blocks' = Append(blocks, NewBlock(t, ok))
  /\ pool' = {u \in pool : u.nonce # t.nonce}
  /\ UNCHANGED <<sent, faults>>

MineEmpty ==
  /\ Len(blocks) < MaxBlocks
  /\ blocks' = Append(blocks, NewBlock(Null, TRUE))
  /\ UNCHANGED <<sent, pool, faults>>

\* A competing chain of the same length replaces the last k blocks. Their
\* transactions are mined again, replaced by others of the operator, or
\* pending once more.
Reorg(k) ==
  /\ k \in 1 .. MaxReorgDepth
  /\ k <= Len(blocks)
  /\ Spend("reorg")
  /\ \E suffix \in [1 .. k -> [tx : sent \cup {Null}, ok : Outcomes, fork : {Fork - 1}]] :
       LET kept   == SubSeq(blocks, 1, Len(blocks) - k)
           next   == kept \o suffix
           undone == {blocks[i].tx : i \in {j \in Len(kept) + 1 .. Len(blocks) : blocks[j].tx # Null}}
       IN  /\ ValidChain(next)
           /\ \A i \in Len(kept) + 1 .. Len(next) : next[i].tx = Null => next[i].ok
           /\ \A i \in LastTxBlock + 1 .. Len(next) : next[i].tx = Null
           /\ blocks' = next
           /\ pool' = {u \in pool \cup undone : u.nonce \notin NoncesBelow(next, Len(next))}
  /\ UNCHANGED sent

\* The node evicts a pending transaction; other nodes may still mine it.
Drop(t) ==
  /\ t \in pool
  /\ Spend("drop")
  /\ pool' = pool \ {t}
  /\ UNCHANGED <<sent, blocks>>

ChainNext ==
  \/ \E t \in sent, ok \in Outcomes : Mine(t, ok)
  \/ MineEmpty
  \/ \E k \in 1 .. MaxReorgDepth : Reorg(k)
  \/ \E t \in pool : Drop(t)

----------------------------------------------------------------------------
(* Money on the chain. *)

\* The blocks in which settlement s was paid.
Payments(s) ==
  {i \in DOMAIN blocks : blocks[i].tx # Null /\ blocks[i].ok /\ blocks[i].tx.sid = s}

Paid(s) == Payments(s) # {}

=============================================================================
