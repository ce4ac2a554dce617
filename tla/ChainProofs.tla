---------------------------- MODULE ChainProofs ----------------------------
(***************************************************************************)
(* Lemmas about the node and the two tables, which the proofs about the    *)
(* relayer, the listener and the rail share.                               *)
(***************************************************************************)
EXTENDS SettlementState, FiniteSetTheorems, SequenceTheorems, TLAPS

----------------------------------------------------------------------------
(* The chain. *)

\* getTransactionCount answers a number: the pending nonces are finitely many.
LEMMA PendingNonceType ==
  ASSUME ChainTypeOK, IsFiniteSet(sent)
  PROVE  PendingNonce \in Nat
<1> DEFINE nonces == {t.nonce : t \in sent}
           f == [t \in sent |-> t.nonce]
           used == MinedNonces \cup {t.nonce : t \in pool}
           below == {n \in used : 0 .. n \subseteq used}
<1>1. f \in Surjection(sent, nonces)
  BY DEF Surjection
<1>2. IsFiniteSet(nonces)
  BY <1>1, FS_Surjection
<1>3. MinedNonces \subseteq nonces
  <2>1. DOMAIN blocks = 1 .. Len(blocks)
    BY LenProperties DEF ChainTypeOK
  <2> QED
    BY <2>1 DEF MinedNonces, NoncesBelow, ChainTypeOK
<1>4. below \in SUBSET nonces
  BY <1>3 DEF ChainTypeOK
<1>5. Cardinality(below) \in Nat
  BY <1>2, <1>4, FS_Subset, FS_CardinalityType
<1> QED
  BY <1>5 DEF PendingNonce

\* A fault spent is one fault less of its kind.
LEMMA SpendType ==
  ASSUME faults \in [FaultKinds -> Nat], NEW kind \in FaultKinds, Spend(kind)
  PROVE  /\ faults' \in [FaultKinds -> Nat]
         /\ \A k \in FaultKinds : k # kind => faults'[k] = faults[k]
BY DEF Spend

\* A broadcast keeps the chain well typed.
LEMMA AcceptType ==
  ASSUME ChainTypeOK, IsFiniteSet(sent), NEW t \in Txs, Accept(t),
         UNCHANGED blocks, faults' \in [FaultKinds -> Nat]
  PROVE  ChainTypeOK' /\ IsFiniteSet(sent')
<1>1. IsFiniteSet(sent')
  BY FS_AddElement DEF Accept
<1>2. sent' \subseteq Txs /\ pool' \subseteq sent' /\ sent \subseteq sent'
  BY DEF Accept, ChainTypeOK
<1> QED
  BY <1>1, <1>2 DEF ChainTypeOK

\* Appending a block of an accepted transaction, or an empty one.
LEMMA AppendBlockType ==
  ASSUME ChainTypeOK, NEW t \in sent \cup {Null}, NEW ok \in BOOLEAN
  PROVE  /\ Append(blocks, NewBlock(t, ok)) \in Seq(Block)
         /\ \A i \in DOMAIN Append(blocks, NewBlock(t, ok)) :
              Append(blocks, NewBlock(t, ok))[i].tx \in sent \cup {Null}
<1>1. NewBlock(t, ok) \in Block
  BY DEF NewBlock, Block, Fork, ChainTypeOK, FaultKinds
<1>2. blocks \in Seq(Block) /\ DOMAIN blocks = 1 .. Len(blocks) /\ Len(blocks) \in Nat
  BY LenProperties DEF ChainTypeOK
<1> DEFINE next == Append(blocks, NewBlock(t, ok))
<1>3. /\ next \in Seq(Block)
      /\ Len(next) = Len(blocks) + 1
      /\ \A i \in 1 .. Len(blocks) : next[i] = blocks[i]
      /\ next[Len(blocks) + 1] = NewBlock(t, ok)
  BY <1>1, <1>2, AppendProperties
<1>4. DOMAIN next = 1 .. Len(blocks) + 1
  BY <1>3, LenProperties
<1>5. ASSUME NEW i \in DOMAIN next
      PROVE  next[i].tx \in sent \cup {Null}
  <2>1. CASE i \in 1 .. Len(blocks)
    BY <2>1, <1>2, <1>3 DEF ChainTypeOK
  <2>2. CASE i = Len(blocks) + 1
    BY <2>2, <1>3 DEF NewBlock
  <2> QED
    BY <2>1, <2>2, <1>2, <1>4
<1> QED
  BY <1>3, <1>5

\* The first n elements of a sequence.
LEMMA PrefixProperties ==
  ASSUME NEW S, NEW seq \in Seq(S), NEW n \in Nat, n <= Len(seq)
  PROVE  /\ SubSeq(seq, 1, n) \in Seq(S)
         /\ Len(SubSeq(seq, 1, n)) = n
         /\ \A i \in 1 .. n : SubSeq(seq, 1, n)[i] = seq[i]
<1>1. SubSeq(seq, 1, n) \in Seq(S)
  OBVIOUS
<1>2. Len(SubSeq(seq, 1, n)) = n
  BY LenProperties
<1>3. \A i \in 1 .. n : SubSeq(seq, 1, n)[i] = seq[i]
  BY LenProperties
<1> QED
  BY <1>1, <1>2, <1>3

\* The chain after a reorganisation: what is kept and the new suffix.
LEMMA ReorgBlocksType ==
  ASSUME ChainTypeOK, NEW k \in Nat \ {0}, k <= Len(blocks), faults["reorg"] > 0,
         NEW suffix \in [1 .. k -> [tx : sent \cup {Null}, ok : Outcomes, fork : {Fork - 1}]]
  PROVE  LET next == SubSeq(blocks, 1, Len(blocks) - k) \o suffix
         IN  /\ next \in Seq(Block)
             /\ Len(next) = Len(blocks)
             /\ \A i \in 1 .. Len(blocks) - k : next[i] = blocks[i]
             /\ \A i \in DOMAIN next : next[i].tx \in sent \cup {Null}
<1> DEFINE kept == SubSeq(blocks, 1, Len(blocks) - k)
           next == kept \o suffix
<1>1. blocks \in Seq(Block) /\ DOMAIN blocks = 1 .. Len(blocks) /\ Len(blocks) \in Nat
  BY LenProperties DEF ChainTypeOK
<1>2. [tx : sent \cup {Null}, ok : Outcomes, fork : {Fork - 1}] \subseteq Block
  <2>1. Fork - 1 \in Nat
    BY DEF Fork, ChainTypeOK, FaultKinds
  <2>2. Outcomes \subseteq BOOLEAN
    BY DEF Outcomes
  <2> QED
    BY <2>1, <2>2 DEF Block, ChainTypeOK
<1>3. suffix \in Seq(Block) /\ Len(suffix) = k
  BY <1>2
<1>4. Len(blocks) - k \in Nat /\ Len(blocks) - k <= Len(blocks)
  BY <1>1
<1>5. /\ kept \in Seq(Block)
      /\ Len(kept) = Len(blocks) - k
      /\ \A i \in 1 .. Len(blocks) - k : kept[i] = blocks[i]
  BY <1>1, <1>4, PrefixProperties
<1>6. /\ next \in Seq(Block)
      /\ Len(next) = Len(blocks)
      /\ \A i \in 1 .. Len(blocks) :
           next[i] = IF i <= Len(blocks) - k THEN blocks[i] ELSE suffix[i - (Len(blocks) - k)]
  <2> HIDE DEF kept
  <2>1. /\ next \in Seq(Block)
        /\ Len(next) = Len(kept) + Len(suffix)
        /\ \A i \in 1 .. Len(kept) + Len(suffix) :
             next[i] = IF i <= Len(kept) THEN kept[i] ELSE suffix[i - Len(kept)]
    BY <1>3, <1>5, ConcatProperties
  <2>2. Len(kept) + Len(suffix) = Len(blocks)
    BY <1>1, <1>3, <1>5
  <2> QED
    BY <1>1, <1>5, <2>1, <2>2
<1>7. DOMAIN next = 1 .. Len(blocks)
  BY <1>6, LenProperties
<1>8. ASSUME NEW i \in 1 .. Len(blocks)
      PROVE  next[i].tx \in sent \cup {Null}
  <2>1. CASE i <= Len(blocks) - k
    BY <2>1, <1>1, <1>6 DEF ChainTypeOK
  <2>2. CASE ~ (i <= Len(blocks) - k)
    <3>1. i - (Len(blocks) - k) \in 1 .. k
      BY <2>2, <1>1
    <3> QED
      BY <3>1, <2>2, <1>6
  <2> QED
    BY <2>1, <2>2
<1>9. \A i \in 1 .. Len(blocks) - k : next[i] = blocks[i]
  <2> HIDE DEF next
  <2>1. \A i \in 1 .. Len(blocks) - k : i \in 1 .. Len(blocks) /\ i <= Len(blocks) - k
    BY <1>1, <1>4
  <2> QED
    BY <1>6, <2>1
<1> QED
  BY <1>6, <1>7, <1>8, <1>9

\* Whatever happens to the chain keeps it well typed; only a broadcast adds to sent.
LEMMA ChainStepType ==
  ASSUME ChainTypeOK, ChainNext
  PROVE  ChainTypeOK' /\ UNCHANGED sent /\ faults'["ack"] = faults["ack"]
<1>1. ASSUME NEW t \in sent, NEW ok \in Outcomes, Mine(t, ok)
      PROVE  ChainTypeOK' /\ UNCHANGED sent /\ faults'["ack"] = faults["ack"]
  <2>1. ok \in BOOLEAN
    BY DEF Outcomes
  <2>2. /\ blocks' \in Seq(Block)
        /\ \A i \in DOMAIN blocks' : blocks'[i].tx \in sent \cup {Null}
    BY <1>1, <2>1, AppendBlockType DEF Mine
  <2> QED
    BY <1>1, <2>2 DEF Mine, ChainTypeOK
<1>2. CASE MineEmpty
  <2>1. /\ blocks' \in Seq(Block)
        /\ \A i \in DOMAIN blocks' : blocks'[i].tx \in sent \cup {Null}
    BY <1>2, AppendBlockType DEF MineEmpty
  <2> QED
    BY <1>2, <2>1 DEF MineEmpty, ChainTypeOK
<1>3. ASSUME NEW k \in 1 .. MaxReorgDepth, Reorg(k)
      PROVE  ChainTypeOK' /\ UNCHANGED sent /\ faults'["ack"] = faults["ack"]
  <2>1. k \in Nat \ {0} /\ k <= Len(blocks) /\ faults["reorg"] > 0
    BY <1>3, ChainAssumption DEF Reorg, Spend
  <2>2. faults' \in [FaultKinds -> Nat] /\ faults'["ack"] = faults["ack"]
    BY <1>3, SpendType DEF Reorg, FaultKinds, ChainTypeOK
  <2>3. PICK suffix \in [1 .. k -> [tx : sent \cup {Null}, ok : Outcomes, fork : {Fork - 1}]] :
          LET kept   == SubSeq(blocks, 1, Len(blocks) - k)
              next   == kept \o suffix
              undone == {blocks[i].tx : i \in {j \in Len(kept) + 1 .. Len(blocks) : blocks[j].tx # Null}}
          IN  /\ blocks' = next
              /\ Len(kept) = Len(blocks) - k
              /\ pool' = {u \in pool \cup undone : u.nonce \notin NoncesBelow(next, Len(next))}
    <3>1. Len(SubSeq(blocks, 1, Len(blocks) - k)) = Len(blocks) - k
      <4>1. blocks \in Seq(Block) /\ Len(blocks) - k \in Nat /\ Len(blocks) - k <= Len(blocks)
        BY <2>1, LenProperties DEF ChainTypeOK
      <4> QED
        BY <4>1, <2>1, PrefixProperties
    <3> QED
      BY <1>3, <3>1 DEF Reorg
  <2>4. /\ blocks' \in Seq(Block)
        /\ \A i \in DOMAIN blocks' : blocks'[i].tx \in sent \cup {Null}
    BY <2>1, <2>3, ReorgBlocksType
  <2>5. pool' \subseteq sent
    <3>1. DOMAIN blocks = 1 .. Len(blocks) /\ Len(blocks) \in Nat
      BY LenProperties DEF ChainTypeOK
    <3>2. {blocks[i].tx : i \in {j \in Len(blocks) - k + 1 .. Len(blocks) : blocks[j].tx # Null}}
            \subseteq sent
      BY <3>1, <2>1 DEF ChainTypeOK
    <3> QED
      BY <2>3, <3>2 DEF ChainTypeOK
  <2>6. UNCHANGED sent
    BY <1>3 DEF Reorg
  <2> QED
    BY <2>2, <2>4, <2>5, <2>6 DEF ChainTypeOK
<1>4. ASSUME NEW t \in pool, Drop(t)
      PROVE  ChainTypeOK' /\ UNCHANGED sent /\ faults'["ack"] = faults["ack"]
  <2>1. faults' \in [FaultKinds -> Nat] /\ faults'["ack"] = faults["ack"]
    BY <1>4, SpendType DEF Drop, FaultKinds, ChainTypeOK
  <2> QED
    BY <1>4, <2>1 DEF Drop, ChainTypeOK
<1> QED
  BY <1>1, <1>2, <1>3, <1>4 DEF ChainNext

\* The chain takes the operator's transactions in nonce order, whatever is reorganised.
LEMMA ValidChainKept ==
  ASSUME ChainTypeOK, ValidChain(blocks), ChainNext
  PROVE  ValidChain(blocks)'
<1>1. CASE MineEmpty
  <2> DEFINE next == Append(blocks, NewBlock(Null, TRUE))
  <2>1. blocks \in Seq(Block) /\ DOMAIN blocks = 1 .. Len(blocks) /\ Len(blocks) \in Nat
    BY LenProperties DEF ChainTypeOK
  <2>2. NewBlock(Null, TRUE) \in Block /\ NewBlock(Null, TRUE).tx = Null
    BY DEF NewBlock, Block, Fork, ChainTypeOK, FaultKinds
  <2>3. /\ next \in Seq(Block) /\ Len(next) = Len(blocks) + 1
        /\ \A i \in 1 .. Len(blocks) : next[i] = blocks[i]
        /\ next[Len(blocks) + 1] = NewBlock(Null, TRUE)
    <3> DEFINE b == NewBlock(Null, TRUE)
    <3>1. b \in Block /\ next = Append(blocks, b)
      BY <2>2
    <3> HIDE DEF b, next, Block
    <3>2. /\ next \in Seq(Block) /\ Len(next) = Len(blocks) + 1
          /\ \A i \in 1 .. Len(blocks) : next[i] = blocks[i]
          /\ next[Len(blocks) + 1] = b
      BY <2>1, <3>1, AppendProperties
    <3> QED
      BY <3>2 DEF b
  <2>4. DOMAIN next = 1 .. Len(blocks) + 1
    BY <2>3, LenProperties
  <2> HIDE DEF next
  <2>5. \A n \in 0 .. Len(blocks) : NoncesBelow(next, n) = NoncesBelow(blocks, n)
    BY <2>1, <2>3 DEF NoncesBelow
  <2>6. ASSUME NEW i \in DOMAIN next, next[i].tx # Null
        PROVE  NoncesBelow(next, i - 1) = 0 .. (next[i].tx.nonce - 1)
    <3>1. i \in DOMAIN blocks /\ next[i] = blocks[i] /\ i - 1 \in 0 .. Len(blocks)
      <4>1. i # Len(blocks) + 1
        BY <2>2, <2>3, <2>6
      <4> QED
        BY <2>1, <2>3, <2>4, <4>1
    <3> QED
      BY <2>5, <2>6, <3>1 DEF ValidChain
  <2>7. blocks' = next
    BY <1>1 DEF MineEmpty, next
  <2> QED
    BY <2>6, <2>7 DEF ValidChain, NoncesBelow
<1>2. CASE \E t \in sent, ok \in Outcomes : Mine(t, ok)
  BY <1>2 DEF Mine, ValidChain, NoncesBelow
<1>3. CASE \E k \in 1 .. MaxReorgDepth : Reorg(k)
  <2>1. PICK next : ValidChain(next) /\ blocks' = next
    BY <1>3 DEF Reorg
  <2> QED
    BY <2>1 DEF ValidChain, NoncesBelow
<1>4. CASE \E t \in pool : Drop(t)
  BY <1>4 DEF Drop, ValidChain, NoncesBelow
<1> QED
  BY <1>1, <1>2, <1>3, <1>4 DEF ChainNext

\* Two transfers of one nonce are not both on a chain.
LEMMA NonceMinedOnce ==
  ASSUME ChainTypeOK, ValidChain(blocks),
         NEW i \in DOMAIN blocks, NEW j \in DOMAIN blocks,
         blocks[i].tx # Null, blocks[j].tx # Null, blocks[i].tx.nonce = blocks[j].tx.nonce
  PROVE  i = j
<1>1. DOMAIN blocks = 1 .. Len(blocks) /\ Len(blocks) \in Nat
  BY LenProperties DEF ChainTypeOK
<1>2. \A k \in DOMAIN blocks : blocks[k].tx # Null => blocks[k].tx.nonce \in Nat
  BY DEF ChainTypeOK, Txs
<1>3. ASSUME NEW k \in DOMAIN blocks, NEW l \in DOMAIN blocks, k < l,
             blocks[k].tx # Null, blocks[l].tx # Null, blocks[k].tx.nonce = blocks[l].tx.nonce
      PROVE  FALSE
  <2>1. blocks[k].tx.nonce \in NoncesBelow(blocks, l - 1)
    <3>1. k \in {m \in 1 .. l - 1 : blocks[m].tx # Null}
      BY <1>1, <1>3
    <3> QED
      BY <3>1 DEF NoncesBelow
  <2>2. NoncesBelow(blocks, l - 1) = 0 .. (blocks[l].tx.nonce - 1)
    BY <1>3 DEF ValidChain
  <2> QED
    BY <1>2, <1>3, <2>1, <2>2
<1> QED
  BY <1>1, <1>3

\* The chain never gets shorter, and a block deeper than any reorganisation
\* reaches stays where it is.
LEMMA DeepBlocksStay ==
  ASSUME ChainTypeOK, ChainNext
  PROVE  /\ Len(blocks) <= Len(blocks')
         /\ \A i \in 1 .. Len(blocks) - MaxReorgDepth : blocks'[i] = blocks[i]
<1>1. blocks \in Seq(Block) /\ Len(blocks) \in Nat /\ MaxReorgDepth \in Nat
  BY LenProperties, ChainAssumption DEF ChainTypeOK
<1>2. ASSUME NEW t \in sent \cup {Null}, NEW ok \in BOOLEAN,
             blocks' = Append(blocks, NewBlock(t, ok))
      PROVE  /\ Len(blocks) <= Len(blocks')
             /\ \A i \in 1 .. Len(blocks) : blocks'[i] = blocks[i]
  <2>1. NewBlock(t, ok) \in Block
    BY DEF NewBlock, Block, Fork, ChainTypeOK, FaultKinds
  <2> HIDE DEF Block, NewBlock
  <2> QED
    BY <1>1, <1>2, <2>1, AppendProperties
<1>3. CASE \E t \in sent, ok \in Outcomes : Mine(t, ok)
  BY <1>1, <1>2, <1>3 DEF Mine, Outcomes
<1>4. CASE MineEmpty
  <2>1. \A i \in 1 .. Len(blocks) - MaxReorgDepth : i \in 1 .. Len(blocks)
    BY <1>1
  <2>2. blocks' = Append(blocks, NewBlock(Null, TRUE))
    BY <1>4 DEF MineEmpty
  <2>3. Null \in sent \cup {Null} /\ TRUE \in BOOLEAN
    OBVIOUS
  <2> QED
    BY <1>2, <2>1, <2>2, <2>3
<1>5. ASSUME NEW k \in 1 .. MaxReorgDepth, Reorg(k)
      PROVE  /\ Len(blocks) <= Len(blocks')
             /\ \A i \in 1 .. Len(blocks) - MaxReorgDepth : blocks'[i] = blocks[i]
  <2>1. k \in Nat \ {0} /\ k <= Len(blocks) /\ k <= MaxReorgDepth /\ faults["reorg"] > 0
    BY <1>1, <1>5 DEF Reorg, Spend
  <2>2. PICK suffix \in [1 .. k -> [tx : sent \cup {Null}, ok : Outcomes, fork : {Fork - 1}]] :
          blocks' = SubSeq(blocks, 1, Len(blocks) - k) \o suffix
    BY <1>5 DEF Reorg
  <2>3. /\ Len(blocks') = Len(blocks)
        /\ \A i \in 1 .. Len(blocks) - k : blocks'[i] = blocks[i]
    BY <2>1, <2>2, ReorgBlocksType
  <2> QED
    BY <1>1, <2>1, <2>3
<1>6. CASE \E t \in pool : Drop(t)
  BY <1>1, <1>6 DEF Drop
<1> QED
  BY <1>1, <1>3, <1>4, <1>5, <1>6 DEF ChainNext

----------------------------------------------------------------------------
(* The tables. *)

\* A SUBMITTED row carries a hash and a nonce.
SubmittedHasTx ==
  \A s \in Settlements :
    row[s].status = "SUBMITTED" => row[s].tx \in Txs /\ row[s].nonce \in Nat

\* A transition to a well-formed row keeps the tables well typed.
LEMMA TransitionType ==
  ASSUME StateTypeOK, SubmittedHasTx, NEW s \in Settlements, NEW next \in Row,
         next.status = "SUBMITTED" => next.tx \in Txs /\ next.nonce \in Nat,
         Transition(s, next)
  PROVE  StateTypeOK' /\ SubmittedHasTx'
<1>1. row' \in [Settlements -> Row]
  BY DEF Transition, StateTypeOK
<1>2. outbox' \in [Settlements -> Seq(EventStatuses)]
  <2>1. CASE next.status \in EventStatuses
    <3>1. Append(outbox[s], next.status) \in Seq(EventStatuses)
      BY <2>1, AppendProperties DEF StateTypeOK
    <3> QED
      BY <2>1, <3>1 DEF Transition, StateTypeOK
  <2>2. CASE next.status \notin EventStatuses
    BY <2>2 DEF Transition, StateTypeOK
  <2> QED
    BY <2>1, <2>2
<1>3. SubmittedHasTx'
  BY DEF Transition, StateTypeOK, SubmittedHasTx
<1> QED
  BY <1>1, <1>2, <1>3 DEF StateTypeOK

\* A status that is not SUBMITTED asks nothing of the row.
LEMMA FailType ==
  ASSUME StateTypeOK, SubmittedHasTx, NEW s \in Settlements, NEW retry \in Nat,
         Transition(s, [row[s] EXCEPT !.status = "FAILED", !.retry = retry])
  PROVE  StateTypeOK' /\ SubmittedHasTx'
<1> DEFINE next == [row[s] EXCEPT !.status = "FAILED", !.retry = retry]
<1>1. next \in Row /\ next.status # "SUBMITTED"
  BY DEF StateTypeOK, Row, Statuses
<1> QED
  BY <1>1, TransitionType

LEMMA RecordResendType ==
  ASSUME StateTypeOK, SubmittedHasTx, NEW s \in Settlements, NEW t \in Txs, NEW retry \in Nat,
         RecordResend(s, t, retry)
  PROVE  StateTypeOK' /\ SubmittedHasTx'
BY DEF RecordResend, StateTypeOK, SubmittedHasTx, Row

LEMMA UnchangedStateType ==
  ASSUME StateTypeOK, SubmittedHasTx, UNCHANGED stateVars
  PROVE  StateTypeOK' /\ SubmittedHasTx'
BY DEF StateTypeOK, SubmittedHasTx, stateVars

LEMMA UnchangedChainType ==
  ASSUME ChainTypeOK, IsFiniteSet(sent), UNCHANGED <<sent, pool, blocks>>,
         faults' \in [FaultKinds -> Nat]
  PROVE  ChainTypeOK' /\ IsFiniteSet(sent')
BY DEF ChainTypeOK

\* A transition writes one row and nothing else.
LEMMA TransitionFacts ==
  ASSUME StateTypeOK, NEW s \in Settlements, NEW next, Transition(s, next)
  PROVE  \A u \in Settlements : row'[u] = IF u = s THEN next ELSE row[u]
BY DEF Transition, StateTypeOK

=============================================================================
