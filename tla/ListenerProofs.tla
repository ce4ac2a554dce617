--------------------------- MODULE ListenerProofs ---------------------------
(***************************************************************************)
(* Proofs about the chain listener, for any number of settlements, of      *)
(* event handlers and of faults, and any confirmation depths. The lemmas   *)
(* are about Watch, the listener's own steps, so that the proofs about the *)
(* rail use them too.                                                      *)
(***************************************************************************)
EXTENDS ChainListener, ChainProofs

----------------------------------------------------------------------------
(* The inductive invariant. *)

Deciding == {"book", "check", "write"}

\* What ListenerTypeOK says of one watcher.
WatcherRecord ==
  {r \in [pc : {"idle", "head", "each", "book", "check", "write"},
          list : SUBSET OpenRow, head : Nat, cur : OpenRow \cup {Null},
          to : {"NONE", "SUBMITTED", "CONFIRMED", "FINAL", "FAILED"},
          block : BlockIds \cup {Null}] : r.pc \in Deciding => r.cur \in OpenRow}

\* A broadcast of s was recorded, at some time: from then on its row has a hash
\* and a nonce, and a status that was announced.
OnChain(s) ==
  /\ row[s].status \in EventStatuses
  /\ row[s].tx \in Txs
  /\ row[s].tx.sid = s
  /\ row[s].nonce \in Nat

RowsOnChain ==
  \A s \in Settlements :
    /\ row[s].tx # Null => row[s].tx.sid = s
    /\ row[s].status \in OpenStatuses => OnChain(s)

\* What a watcher in state r remembers: no head beyond the chain, only rows
\* that were broadcast, and no FINAL to write that is not booked.
Sound(r) ==
  /\ r.head <= Len(blocks)
  /\ \A o \in r.list : o.tx \in Txs /\ o.tx.sid = o.id /\ OnChain(o.id)
  /\ r.pc \in Deciding => r.cur \in r.list /\ r.to # "NONE"
  /\ r.pc = "book" => r.to = "FINAL"
  /\ r.to = "CONFIRMED" => r.block # Null
  /\ r.pc \in {"check", "write"} /\ r.to = "FINAL" => Booked(r.cur.id)

TablesTypeOK == ChainTypeOK /\ StateTypeOK

ListenerInv ==
  /\ ListenerTypeOK
  /\ RowsOnChain
  /\ \A w \in Watchers : Sound(watcher[w])
  /\ LedgerBalanced
  /\ FinalIsBooked

----------------------------------------------------------------------------
(* Lemmas about the definitions. *)

LEMMA WatchersType == ListenerTypeOK <=> LedgerTypeOK /\ watcher \in [Watchers -> WatcherRecord]
BY DEF ListenerTypeOK, WatcherRecord, Deciding

LEMMA LenIsNat ==
  ASSUME ChainTypeOK
  PROVE  blocks \in Seq(Block) /\ Len(blocks) \in Nat /\ DOMAIN blocks = 1 .. Len(blocks)
BY LenProperties DEF ChainTypeOK

\* After the last row a watcher rests, else it goes on with the rows left.
LEMMA AfterFacts ==
  ASSUME NEW w \in Watchers, watcher[w] \in WatcherRecord, NEW cur
  PROVE  /\ After(w, cur) \in WatcherRecord
         /\ After(w, cur).pc \in {"idle", "each"}
         /\ After(w, cur).list \subseteq watcher[w].list \ {cur}
         /\ After(w, cur).head \in {0, watcher[w].head}
         /\ After(w, cur).to = "NONE"
<1> DEFINE rest == watcher[w].list \ {cur}
<1>1. rest \in SUBSET OpenRow /\ watcher[w].head \in Nat
  BY DEF WatcherRecord
<1>2. CASE rest = {}
  <2>1. After(w, cur) = [pc |-> "idle", list |-> {}, head |-> 0, cur |-> Null,
                         to |-> "NONE", block |-> Null]
    BY <1>2 DEF After, WatcherIdle
  <2> QED
    BY <2>1 DEF WatcherRecord, Deciding
<1>3. CASE rest # {}
  <2>1. After(w, cur) = [pc |-> "each", list |-> rest, head |-> watcher[w].head, cur |-> Null,
                         to |-> "NONE", block |-> Null]
    BY <1>3 DEF After, WatcherIdle
  <2> QED
    BY <1>1, <2>1 DEF WatcherRecord, Deciding
<1> QED
  BY <1>2, <1>3

\* A receipt names a block of the chain that holds the transaction.
LEMMA ReceiptFacts ==
  ASSUME ChainTypeOK, NEW t, Receipt(t) # Null
  PROVE  \E h \in DOMAIN blocks :
           /\ blocks[h].tx = t
           /\ Receipt(t) = [height |-> h, fork |-> blocks[h].fork, ok |-> blocks[h].ok]
<1>1. Mined(t) /\ Height(t) \in Heights(t)
  BY DEF Receipt, Mined, Height
<1>2. Height(t) \in DOMAIN blocks /\ blocks[Height(t)].tx = t
  BY <1>1 DEF Heights
<1> QED
  BY <1>1, <1>2 DEF Receipt

LEMMA BlockIdType ==
  ASSUME ChainTypeOK, NEW t, Receipt(t) # Null
  PROVE  BlockId(Receipt(t)) \in BlockIds
<1>1. PICK h \in DOMAIN blocks :
        Receipt(t) = [height |-> h, fork |-> blocks[h].fork, ok |-> blocks[h].ok]
  BY ReceiptFacts
<1>2. h \in Nat /\ blocks[h] \in Block
  BY <1>1, LenIsNat
<1>3. BlockId(Receipt(t)) = [height |-> h, fork |-> blocks[h].fork]
  BY <1>1 DEF BlockId
<1> QED
  BY <1>2, <1>3 DEF Block, BlockIds

\* What each verdict of processReceipt rests on.
LEMMA VerdictFacts ==
  ASSUME NEW w, NEW s, NEW receipt
  PROVE  /\ Verdict(w, s, receipt) \in {"NONE", "SUBMITTED", "CONFIRMED", "FINAL", "FAILED"}
         /\ Verdict(w, s, receipt) = "CONFIRMED" => receipt # Null
         /\ Verdict(w, s, receipt) = "FINAL" =>
              /\ receipt # Null
              /\ receipt.ok
              /\ Confirmations(watcher[w].head, receipt) >= ConfirmationsFinal
              /\ s.cblock = Null \/ s.cblock = BlockId(receipt)
BY Zenon DEF Verdict

----------------------------------------------------------------------------
(* What one watcher remembers is not disturbed by the others. *)

\* The chain does not shrink, and what was broadcast or booked stays so.
Advance ==
  /\ Len(blocks) \in Nat /\ Len(blocks') \in Nat /\ Len(blocks) <= Len(blocks')
  /\ \A s \in Settlements : OnChain(s) => OnChain(s)'
  /\ \A s \in Settlements : Booked(s) => Booked(s)'

LEMMA SoundStays ==
  ASSUME Advance, NEW r \in WatcherRecord, Sound(r)
  PROVE  Sound(r)'
<1>1. \A o \in r.list : o.id \in Settlements
  BY DEF WatcherRecord, OpenRow
<1>2. r.pc \in Deciding => r.cur.id \in Settlements
  BY DEF WatcherRecord, OpenRow
<1>3. r.head \in Nat
  BY DEF WatcherRecord
<1>4. r.head <= Len(blocks')
  BY <1>3 DEF Advance, Sound
<1> QED
  BY <1>1, <1>2, <1>4 DEF Advance, Sound, Deciding

LEMMA OneWatcherMoves ==
  ASSUME ListenerInv, Advance, NEW w \in Watchers, NEW r \in WatcherRecord, Sound(r)',
         watcher' = [watcher EXCEPT ![w] = r]
  PROVE  /\ watcher' \in [Watchers -> WatcherRecord]
         /\ \A v \in Watchers : Sound(watcher[v])'
<1>1. watcher \in [Watchers -> WatcherRecord]
  BY WatchersType DEF ListenerInv
<1>2. \A v \in Watchers : Sound(watcher[v])
  BY DEF ListenerInv
<1>3. ASSUME NEW v \in Watchers
      PROVE  Sound(watcher[v])'
  <2>1. CASE v = w
    <3>1. watcher'[v] = r
      BY <1>1, <2>1
    <3> QED
      BY <3>1 DEF Sound
  <2>2. CASE v # w
    <3>1. watcher'[v] = watcher[v]
      BY <1>1, <2>2
    <3>2. \A q \in WatcherRecord : Sound(q) => Sound(q)'
      BY SoundStays
    <3> DEFINE q == watcher[v]
    <3>3. q \in WatcherRecord /\ Sound(q)
      BY <1>1, <1>2
    <3> QED
      BY <3>1, <3>2, <3>3 DEF Sound
  <2> QED
    BY <2>1, <2>2
<1> QED
  BY <1>1, <1>3

\* A step that writes neither table and moves one watcher.
LEMMA LocalStep ==
  ASSUME ListenerInv, TablesTypeOK, UNCHANGED <<chainVars, stateVars, ledger>>,
         NEW w \in Watchers, NEW r \in WatcherRecord, Sound(r),
         watcher' = [watcher EXCEPT ![w] = r]
  PROVE  ListenerInv'
<1>1. row' = row /\ ledger' = ledger /\ blocks' = blocks
  BY DEF stateVars, chainVars
<1>2. Advance
  BY <1>1, LenIsNat DEF Advance, OnChain, Booked, TablesTypeOK
<1>3. Sound(r)'
  BY <1>2, SoundStays
<1>4. /\ watcher' \in [Watchers -> WatcherRecord]
      /\ \A v \in Watchers : Sound(watcher[v])'
  BY <1>2, <1>3, OneWatcherMoves
<1>5. LedgerTypeOK' /\ RowsOnChain' /\ LedgerBalanced' /\ FinalIsBooked'
  BY <1>1 DEF ListenerInv, ListenerTypeOK, LedgerTypeOK, RowsOnChain, OnChain,
     LedgerBalanced, FinalIsBooked, Booked
<1>6. ListenerTypeOK'
  BY <1>4, <1>5 DEF ListenerTypeOK, WatcherRecord, Deciding
<1> QED
  BY <1>4, <1>5, <1>6 DEF ListenerInv

\* The rows a watcher reads were broadcast.
LEMMA OpenRows ==
  ASSUME TablesTypeOK, RowsOnChain, NEW s \in WithStatus(OpenStatuses)
  PROVE  /\ Open(s) \in OpenRow
         /\ Open(s).tx \in Txs /\ Open(s).tx.sid = Open(s).id /\ OnChain(Open(s).id)
<1>1. s \in Settlements /\ row[s].status \in OpenStatuses /\ row[s] \in Row
  BY DEF WithStatus, TablesTypeOK, StateTypeOK
<1>2. OnChain(s)
  BY <1>1 DEF RowsOnChain
<1> QED
  BY <1>1, <1>2 DEF Open, OpenRow, Row, OnChain

\* A read of the open rows, all of them or one.
LEMMA ReadKeeps ==
  ASSUME ListenerInv, TablesTypeOK, UNCHANGED <<chainVars, stateVars, ledger>>,
         NEW w \in Watchers, NEW seen \in SUBSET WithStatus(OpenStatuses),
         watcher' = [watcher EXCEPT ![w] =
           [WatcherIdle EXCEPT !.pc = "head", !.list = {Open(s) : s \in seen}]]
  PROVE  ListenerInv'
<1> DEFINE list == {Open(s) : s \in seen}
           r == [WatcherIdle EXCEPT !.pc = "head", !.list = list]
<1>1. watcher' = [watcher EXCEPT ![w] = r]
  OBVIOUS
<1>2. \A s \in seen : /\ Open(s) \in OpenRow
                      /\ Open(s).tx \in Txs /\ Open(s).tx.sid = Open(s).id /\ OnChain(Open(s).id)
  BY OpenRows DEF ListenerInv
<1>3. list \in SUBSET OpenRow
  BY <1>2
<1>4. \A o \in list : o.tx \in Txs /\ o.tx.sid = o.id /\ OnChain(o.id)
  BY <1>2
<1> HIDE DEF list
<1>5. r \in WatcherRecord /\ r.pc = "head" /\ r.list = list /\ r.head = 0 /\ r.to = "NONE"
  BY <1>3 DEF WatcherIdle, WatcherRecord, Deciding
<1>6. Sound(r)
  BY <1>4, <1>5, LenIsNat DEF Sound, Deciding, TablesTypeOK
<1> HIDE DEF r
<1> QED
  BY <1>1, <1>5, <1>6, LocalStep

\* A watcher's record, field by field.
LEMMA WatcherFields ==
  ASSUME ListenerInv, NEW w \in Watchers
  PROVE  /\ watcher[w] \in WatcherRecord
         /\ Sound(watcher[w])
<1>1. watcher[w] \in WatcherRecord
  BY WatchersType DEF ListenerInv
<1> QED
  BY <1>1 DEF ListenerInv, WatcherRecord

LEMMA AfterKeeps ==
  ASSUME ListenerInv, TablesTypeOK, UNCHANGED <<chainVars, stateVars, ledger>>,
         NEW w \in Watchers, NEW cur, watcher' = [watcher EXCEPT ![w] = After(w, cur)]
  PROVE  ListenerInv'
<1>1. watcher[w] \in WatcherRecord /\ Sound(watcher[w])
  BY WatcherFields
<1>2. Sound(After(w, cur))
  BY <1>1, AfterFacts, LenIsNat DEF Sound, Deciding, TablesTypeOK
<1> QED
  BY <1>1, <1>2, AfterFacts, LocalStep

LEMMA ReadHeadKeeps ==
  ASSUME ListenerInv, TablesTypeOK, NEW w \in Watchers, ReadHead(w)
  PROVE  ListenerInv'
<1> DEFINE me == watcher[w]
           r == [me EXCEPT !.pc = "each", !.head = Len(blocks)]
<1>1. me \in WatcherRecord /\ Sound(me) /\ Len(blocks) \in Nat
  BY WatcherFields, LenIsNat DEF TablesTypeOK
<1>2. watcher' = [watcher EXCEPT ![w] = r]
  <2>1. watcher \in [Watchers -> WatcherRecord]
    BY WatchersType DEF ListenerInv
  <2> QED
    BY <2>1 DEF ReadHead
<1> HIDE DEF me
<1>3. /\ r \in WatcherRecord
      /\ r.pc = "each" /\ r.list = me.list /\ r.head = Len(blocks)
      /\ r.to = me.to /\ r.block = me.block
  BY <1>1 DEF WatcherRecord, Deciding
<1>4. Sound(r)
  BY <1>1, <1>3 DEF Sound, Deciding
<1> HIDE DEF r
<1> QED
  BY <1>2, <1>3, <1>4, LocalStep DEF ReadHead

LEMMA ReadReceiptKeeps ==
  ASSUME ListenerInv, TablesTypeOK, NEW w \in Watchers, NEW s \in watcher[w].list,
         ReadReceipt(w, s)
  PROVE  ListenerInv'
<1> DEFINE me == watcher[w]
           receipt == Receipt(s.tx)
           to == Verdict(w, s, receipt)
           pc == IF to = "FINAL" THEN "book" ELSE "check"
           block == IF receipt = Null THEN Null ELSE BlockId(receipt)
           r == [me EXCEPT !.pc = pc, !.cur = s, !.to = to, !.block = block]
<1>1. me \in WatcherRecord /\ Sound(me) /\ s \in me.list
  BY WatcherFields
<1>2. CASE to = "NONE"
  <2>1. watcher' = [watcher EXCEPT ![w] = After(w, s)]
    BY <1>2, Zenon DEF ReadReceipt
  <2> QED
    BY <2>1, AfterKeeps DEF ReadReceipt
<1>3. CASE to # "NONE"
  <2>1. watcher' = [watcher EXCEPT ![w] = r]
    BY <1>3, Zenon DEF ReadReceipt
  <2>2. /\ to \in {"NONE", "SUBMITTED", "CONFIRMED", "FINAL", "FAILED"}
        /\ to = "CONFIRMED" => receipt # Null
    BY VerdictFacts
  <2>3. block \in BlockIds \cup {Null} /\ (receipt # Null => block # Null)
    BY BlockIdType, StateAssumption DEF TablesTypeOK
  <2>4. pc \in {"book", "check"} /\ (pc = "book" <=> to = "FINAL")
    OBVIOUS
  <2> HIDE DEF me, to, pc, block, receipt
  <2>5. s \in OpenRow
    BY <1>1 DEF WatcherRecord
  <2>6. /\ r \in WatcherRecord
        /\ r.pc = pc /\ r.list = me.list /\ r.head = me.head
        /\ r.cur = s /\ r.to = to /\ r.block = block
    BY <1>1, <2>2, <2>3, <2>4, <2>5 DEF WatcherRecord
  <2> HIDE DEF r
  <2>7. Sound(r)
    BY <1>1, <1>3, <2>2, <2>3, <2>4, <2>6 DEF Sound
  <2> QED
    BY <2>1, <2>6, <2>7, LocalStep DEF ReadReceipt
<1> QED
  BY <1>2, <1>3

\* Booking a settlement books no other and unbooks none; both accounts move.
LEMMA BookFacts ==
  ASSUME LedgerTypeOK, LedgerBalanced, NEW s \in Settlements, Book(s)
  PROVE  /\ LedgerTypeOK' /\ LedgerBalanced'
         /\ \A u \in Settlements : Booked(u)' <=> Booked(u) \/ u = s
<1>1. CASE Booked(s)
  <2>1. ledger' = ledger
    BY <1>1 DEF Book
  <2> QED
    BY <1>1, <2>1 DEF LedgerTypeOK, LedgerBalanced, Booked
<1>2. CASE ~ Booked(s)
  <2> DEFINE one == [a \in Accounts |-> ledger[s][a] + 1]
  <2>1. ledger' = [ledger EXCEPT ![s] = one]
    BY <1>2 DEF Book
  <2>2. \A a \in Accounts : ledger[s][a] = 0 /\ one[a] = 1
    BY <1>2 DEF Booked, LedgerTypeOK
  <2>3. one \in [Accounts -> Nat]
    BY DEF LedgerTypeOK
  <2> HIDE DEF one
  <2>4. \A u \in Settlements : ledger'[u] = IF u = s THEN one ELSE ledger[u]
    BY <2>1 DEF LedgerTypeOK
  <2>5. LedgerTypeOK'
    BY <2>1, <2>3 DEF LedgerTypeOK
  <2>6. LedgerBalanced'
    BY <2>2, <2>4 DEF LedgerBalanced, Accounts
  <2>7. \A u \in Settlements : Booked(u)' <=> Booked(u) \/ u = s
    BY <2>2, <2>4 DEF Booked, Accounts
  <2> QED
    BY <2>5, <2>6, <2>7
<1> QED
  BY <1>1, <1>2

LEMMA BookFinalKeeps ==
  ASSUME ListenerInv, TablesTypeOK, NEW w \in Watchers, BookFinal(w)
  PROVE  ListenerInv'
<1>0. watcher[w] \in WatcherRecord /\ Sound(watcher[w])
  BY WatcherFields
<1>1. PICK me \in WatcherRecord :
        me = watcher[w] /\ Sound(me) /\ me.pc = "book" /\ Book(me.cur.id)
  BY <1>0 DEF BookFinal
<1> DEFINE r == [me EXCEPT !.pc = "check"]
<1>2. watcher' = [watcher EXCEPT ![w] = r] /\ UNCHANGED <<chainVars, stateVars>>
  <2>1. watcher \in [Watchers -> WatcherRecord]
    BY WatchersType DEF ListenerInv
  <2> QED
    BY <1>1, <2>1 DEF BookFinal
<1>3. me.cur \in OpenRow /\ me.cur.id \in Settlements
  BY <1>1 DEF WatcherRecord, Deciding, OpenRow
<1>4. /\ r \in WatcherRecord
      /\ r.pc = "check" /\ r.list = me.list /\ r.head = me.head
      /\ r.cur = me.cur /\ r.to = me.to /\ r.block = me.block
  BY <1>1, <1>3 DEF WatcherRecord, Deciding
<1> HIDE DEF r
<1>5. /\ LedgerTypeOK' /\ LedgerBalanced'
      /\ \A u \in Settlements : Booked(u)' <=> Booked(u) \/ u = me.cur.id
  BY <1>1, <1>3, BookFacts DEF ListenerInv, ListenerTypeOK
<1>6. row' = row /\ blocks' = blocks
  BY <1>2 DEF stateVars, chainVars
<1>7. Advance
  BY <1>5, <1>6, LenIsNat DEF Advance, OnChain, TablesTypeOK
<1>8. Sound(r)'
  <2>1. Sound(me)'
    BY <1>1, <1>7, SoundStays
  <2>2. Booked(me.cur.id)'
    BY <1>3, <1>5
  <2> QED
    BY <1>1, <1>4, <2>1, <2>2 DEF Sound, Deciding
<1>9. /\ watcher' \in [Watchers -> WatcherRecord]
      /\ \A v \in Watchers : Sound(watcher[v])'
  BY <1>2, <1>4, <1>7, <1>8, OneWatcherMoves
<1>10. RowsOnChain' /\ FinalIsBooked'
  BY <1>5, <1>6 DEF ListenerInv, RowsOnChain, OnChain, FinalIsBooked
<1>11. ListenerTypeOK'
  BY <1>5, <1>9 DEF ListenerTypeOK, WatcherRecord, Deciding
<1> QED
  BY <1>5, <1>9, <1>10, <1>11 DEF ListenerInv

LEMMA CheckGuardKeeps ==
  ASSUME ListenerInv, TablesTypeOK, NEW w \in Watchers, CheckGuard(w)
  PROVE  ListenerInv'
<1> DEFINE me == watcher[w]
           r == [me EXCEPT !.pc = "write"]
<1>1. me \in WatcherRecord /\ Sound(me) /\ me.pc = "check"
  BY WatcherFields DEF CheckGuard
<1>2. CASE row[me.cur.id].status \in ExpectedFrom(me.to)
  <2>1. watcher' = [watcher EXCEPT ![w] = r]
    BY <1>2, Zenon DEF CheckGuard
  <2> HIDE DEF me
  <2>2. /\ r \in WatcherRecord
        /\ r.pc = "write" /\ r.list = me.list /\ r.head = me.head
        /\ r.cur = me.cur /\ r.to = me.to /\ r.block = me.block
    BY <1>1 DEF WatcherRecord, Deciding
  <2> HIDE DEF r
  <2>3. Sound(r)
    BY <1>1, <2>2 DEF Sound, Deciding
  <2> QED
    BY <2>1, <2>2, <2>3, LocalStep DEF CheckGuard
<1>3. CASE row[me.cur.id].status \notin ExpectedFrom(me.to)
  <2>1. watcher' = [watcher EXCEPT ![w] = After(w, me.cur)]
    BY <1>3, Zenon DEF CheckGuard
  <2> QED
    BY <2>1, AfterKeeps DEF CheckGuard
<1> QED
  BY <1>2, <1>3

\* The columns a verdict sets, and those it leaves.
LEMMA VerdictRowFacts ==
  ASSUME StateTypeOK, NEW w \in Watchers, watcher[w] \in WatcherRecord,
         watcher[w].cur \in OpenRow, watcher[w].to # "NONE"
  PROVE  LET cur  == watcher[w].cur
             to   == watcher[w].to
             next == VerdictRow(w)
         IN  /\ next \in Row
             /\ next.status = to
             /\ next.nonce = row[cur.id].nonce
             /\ next.tx = IF to \in {"CONFIRMED", "FINAL"} THEN cur.tx ELSE row[cur.id].tx
             /\ next.cblock = IF to = "CONFIRMED" THEN watcher[w].block
                              ELSE IF to = "SUBMITTED" THEN Null ELSE row[cur.id].cblock
<1> DEFINE cur == watcher[w].cur
           to  == watcher[w].to
           block == watcher[w].block
           old == row[cur.id]
           next == VerdictRow(w)
<1>1. /\ to \in {"SUBMITTED", "CONFIRMED", "FINAL", "FAILED"}
      /\ to \in Statuses
      /\ cur.tx \in Txs \cup {Null}
      /\ block \in BlockIds \cup {Null}
      /\ old \in Row
  BY DEF WatcherRecord, OpenRow, StateTypeOK, Statuses
<1>2. CASE to = "CONFIRMED"
  <2>1. next = [old EXCEPT !.status = to, !.tx = cur.tx, !.cblock = block]
    BY <1>2, Zenon DEF VerdictRow
  <2> HIDE DEF cur, to, block, old, next
  <2>2. /\ next \in Row /\ next.status = to /\ next.nonce = old.nonce
        /\ next.tx = cur.tx /\ next.cblock = block
    BY <1>1, <2>1 DEF Row
  <2> QED
    BY <1>2, <2>2 DEF cur, to, block, old, next
<1>3. CASE to = "FINAL"
  <2>1. next = [old EXCEPT !.status = to, !.tx = cur.tx]
    BY <1>3, Zenon DEF VerdictRow
  <2> HIDE DEF cur, to, block, old, next
  <2>2. /\ next \in Row /\ next.status = to /\ next.nonce = old.nonce
        /\ next.tx = cur.tx /\ next.cblock = old.cblock
    BY <1>1, <2>1 DEF Row
  <2> QED
    BY <1>3, <2>2 DEF cur, to, block, old, next
<1>4. CASE to = "SUBMITTED"
  <2>1. next = [old EXCEPT !.status = to, !.cblock = Null]
    BY <1>4, Zenon DEF VerdictRow
  <2> HIDE DEF cur, to, block, old, next
  <2>2. /\ next \in Row /\ next.status = to /\ next.nonce = old.nonce
        /\ next.tx = old.tx /\ next.cblock = Null
    BY <1>1, <2>1 DEF Row
  <2> QED
    BY <1>4, <2>2 DEF cur, to, block, old, next
<1>5. CASE to = "FAILED"
  <2>1. next = [old EXCEPT !.status = to]
    BY <1>5, Zenon DEF VerdictRow
  <2> HIDE DEF cur, to, block, old, next
  <2>2. /\ next \in Row /\ next.status = to /\ next.nonce = old.nonce
        /\ next.tx = old.tx /\ next.cblock = old.cblock
    BY <1>1, <2>1 DEF Row
  <2> QED
    BY <1>5, <2>2 DEF cur, to, block, old, next
<1> QED
  BY <1>1, <1>2, <1>3, <1>4, <1>5

LEMMA RowsHaveTx ==
  ASSUME RowsOnChain
  PROVE  SubmittedHasTx
BY DEF RowsOnChain, OnChain, OpenStatuses, SubmittedHasTx

\* What a verdict's write does to the rows.
LEMMA WriteFacts ==
  ASSUME ListenerInv, TablesTypeOK, NEW w \in Watchers, WriteStatus(w)
  PROVE  LET cur == watcher[w].cur
         IN  /\ cur \in OpenRow /\ cur.id \in Settlements
             /\ cur.tx \in Txs /\ cur.tx.sid = cur.id /\ OnChain(cur.id)
             /\ watcher[w].to \in EventStatuses
             /\ VerdictRow(w) \in Row
             /\ \A u \in Settlements : row'[u] = IF u = cur.id THEN VerdictRow(w) ELSE row[u]
             /\ \A u \in Settlements : OnChain(u) => OnChain(u)'
<1> DEFINE me == watcher[w]
           cur == me.cur
           next == VerdictRow(w)
<1>1. me \in WatcherRecord /\ Sound(me) /\ me.pc = "write"
  BY WatcherFields DEF WriteStatus
<1>2. /\ cur \in OpenRow /\ cur.id \in Settlements /\ cur \in me.list /\ me.to # "NONE"
      /\ cur.tx \in Txs /\ cur.tx.sid = cur.id /\ OnChain(cur.id)
  BY <1>1 DEF WatcherRecord, Sound, Deciding, OpenRow
<1>3. me.to \in EventStatuses
  BY <1>1, <1>2 DEF WatcherRecord, EventStatuses
<1>4. /\ next \in Row
      /\ next.status = me.to
      /\ next.nonce = row[cur.id].nonce
      /\ next.tx \in {cur.tx, row[cur.id].tx}
  BY <1>1, <1>2, VerdictRowFacts DEF TablesTypeOK
<1>5. \A u \in Settlements : row'[u] = IF u = cur.id THEN next ELSE row[u]
  BY <1>2, TransitionFacts DEF WriteStatus, TablesTypeOK
<1> HIDE DEF next, cur
<1>6. \A u \in Settlements : OnChain(u) => OnChain(u)'
  BY <1>2, <1>3, <1>4, <1>5 DEF OnChain
<1> QED
  BY <1>2, <1>3, <1>4, <1>5, <1>6 DEF cur, next

LEMMA WriteStatusKeeps ==
  ASSUME ListenerInv, TablesTypeOK, NEW w \in Watchers, WriteStatus(w)
  PROVE  ListenerInv' /\ StateTypeOK'
<1> DEFINE me == watcher[w]
           cur == me.cur
           next == VerdictRow(w)
<1>1. me \in WatcherRecord /\ Sound(me) /\ me.pc = "write"
  BY WatcherFields DEF WriteStatus
<1>2. /\ cur \in OpenRow /\ cur.id \in Settlements /\ me.to \in EventStatuses
      /\ cur.tx \in Txs /\ cur.tx.sid = cur.id /\ OnChain(cur.id)
      /\ next \in Row
      /\ \A u \in Settlements : row'[u] = IF u = cur.id THEN next ELSE row[u]
      /\ \A u \in Settlements : OnChain(u) => OnChain(u)'
  BY WriteFacts
<1>3. /\ next.status = me.to
      /\ next.nonce = row[cur.id].nonce
      /\ next.tx \in {cur.tx, row[cur.id].tx}
  BY <1>1, <1>2, VerdictRowFacts DEF TablesTypeOK, EventStatuses
<1>4. StateTypeOK'
  <2>1. SubmittedHasTx /\ StateTypeOK
    BY RowsHaveTx DEF ListenerInv, TablesTypeOK
  <2>2. Transition(cur.id, next) /\ next.tx \in Txs /\ next.nonce \in Nat
    BY <1>2, <1>3 DEF WriteStatus, OnChain
  <2> HIDE DEF next, cur
  <2> QED
    BY <1>2, <2>1, <2>2, TransitionType
<1>5. ledger' = ledger /\ blocks' = blocks
  BY DEF WriteStatus, chainVars
<1> HIDE DEF next, cur
<1>6. RowsOnChain'
  BY <1>2, <1>3 DEF ListenerInv, RowsOnChain, OnChain
<1>7. LedgerTypeOK' /\ LedgerBalanced' /\ \A u \in Settlements : Booked(u)' <=> Booked(u)
  BY <1>5 DEF ListenerInv, ListenerTypeOK, LedgerTypeOK, LedgerBalanced, Booked
<1>8. FinalIsBooked'
  <2>1. me.to = "FINAL" => Booked(cur.id)
    BY <1>1 DEF Sound, cur
  <2> QED
    BY <1>2, <1>3, <1>7, <2>1 DEF ListenerInv, FinalIsBooked
<1>9. Advance
  BY <1>2, <1>5, <1>7, LenIsNat DEF Advance, TablesTypeOK
<1>10. After(w, cur) \in WatcherRecord /\ Sound(After(w, cur))
  BY <1>1, AfterFacts, LenIsNat DEF Sound, Deciding, TablesTypeOK
<1>11. watcher' = [watcher EXCEPT ![w] = After(w, cur)]
  BY DEF WriteStatus, cur
<1>12. /\ watcher' \in [Watchers -> WatcherRecord]
       /\ \A v \in Watchers : Sound(watcher[v])'
  <2>1. PICK r \in WatcherRecord : Sound(r) /\ watcher' = [watcher EXCEPT ![w] = r]
    BY <1>10, <1>11
  <2>2. Sound(r)'
    BY <1>9, <2>1, SoundStays
  <2> QED
    BY <1>9, <2>1, <2>2, OneWatcherMoves
<1>13. ListenerTypeOK'
  BY <1>7, <1>12 DEF ListenerTypeOK, WatcherRecord, Deciding
<1> QED
  BY <1>4, <1>6, <1>7, <1>8, <1>12, <1>13 DEF ListenerInv

\* A step that leaves the rows and the ledger alone while the chain may grow
\* and watchers may be reset.
LEMMA OutsideStep ==
  ASSUME ListenerInv, UNCHANGED <<row, ledger>>,
         Len(blocks) \in Nat, Len(blocks') \in Nat, Len(blocks) <= Len(blocks'),
         watcher' \in [Watchers -> WatcherRecord],
         \A w \in Watchers : watcher'[w] \in {watcher[w], WatcherIdle}
  PROVE  ListenerInv'
<1>1. Advance
  BY DEF Advance, OnChain, Booked
<1>2. ASSUME NEW w \in Watchers
      PROVE  Sound(watcher[w])'
  <2>1. watcher[w] \in WatcherRecord /\ Sound(watcher[w])
    BY WatcherFields
  <2>2. WatcherIdle \in WatcherRecord /\ Sound(WatcherIdle)
    BY DEF WatcherIdle, WatcherRecord, Sound, Deciding
  <2>3. PICK r \in WatcherRecord : Sound(r) /\ watcher'[w] = r
    BY <2>1, <2>2
  <2>4. Sound(r)'
    BY <1>1, <2>3, SoundStays
  <2> QED
    BY <2>3, <2>4 DEF Sound
<1>3. LedgerTypeOK' /\ RowsOnChain' /\ LedgerBalanced' /\ FinalIsBooked'
  BY DEF ListenerInv, ListenerTypeOK, LedgerTypeOK, RowsOnChain, OnChain,
     LedgerBalanced, FinalIsBooked, Booked
<1>4. ListenerTypeOK'
  BY <1>3 DEF ListenerTypeOK, WatcherRecord, Deciding
<1> QED
  BY <1>2, <1>3, <1>4 DEF ListenerInv

LEMMA IdleType == WatcherIdle \in WatcherRecord
BY DEF WatcherIdle, WatcherRecord, Deciding

\* A fault spent changes nothing else of the node.
LEMMA SpendKeepsChain ==
  ASSUME ChainTypeOK, NEW kind \in FaultKinds, Spend(kind), UNCHANGED <<sent, pool, blocks>>
  PROVE  ChainTypeOK'
BY SpendType DEF ChainTypeOK

LEMMA SameStateType ==
  ASSUME StateTypeOK, UNCHANGED stateVars
  PROVE  StateTypeOK'
BY DEF StateTypeOK, stateVars

\* Watch, whatever the watchers do in whatever order.
LEMMA WatchKeeps ==
  ASSUME ListenerInv, TablesTypeOK, Watch
  PROVE  ListenerInv' /\ TablesTypeOK' /\ UNCHANGED <<sent, pool, blocks>>
         /\ faults'["ack"] = faults["ack"]
<1>1. CASE PollRead
  <2>1. Poll \in Watchers
    BY DEF Watchers
  <2>2. ListenerInv'
    BY <1>1, <2>1, ReadKeeps DEF PollRead
  <2> QED
    BY <1>1, <2>2, SameStateType DEF PollRead, TablesTypeOK, ChainTypeOK, chainVars
<1>2. ASSUME NEW w \in EventHandlers, NEW s \in Settlements, EventRead(w, s)
      PROVE  ListenerInv' /\ TablesTypeOK' /\ UNCHANGED <<sent, pool, blocks, faults>>
  <2>1. w \in Watchers /\ {s} \in SUBSET WithStatus(OpenStatuses)
    BY <1>2 DEF Watchers, EventRead, WithStatus
  <2>2. {Open(u) : u \in {s}} = {Open(s)}
    OBVIOUS
  <2>3. ListenerInv'
    BY <1>2, <2>1, <2>2, ReadKeeps DEF EventRead
  <2> QED
    BY <1>2, <2>3, SameStateType DEF EventRead, TablesTypeOK, ChainTypeOK, chainVars
<1>3. ASSUME NEW w \in Watchers, Continue(w)
      PROVE  ListenerInv' /\ TablesTypeOK' /\ UNCHANGED <<sent, pool, blocks, faults>>
  <2>1. UNCHANGED chainVars
    BY <1>3 DEF Continue, ReadHead, ReadReceipt, BookFinal, CheckGuard, WriteStatus
  <2>2. ListenerInv'
    BY <1>3, ReadHeadKeeps, ReadReceiptKeeps, BookFinalKeeps, CheckGuardKeeps, WriteStatusKeeps
    DEF Continue
  <2>3. StateTypeOK'
    <3>1. CASE WriteStatus(w)
      BY <3>1, WriteStatusKeeps
    <3>2. CASE UNCHANGED stateVars
      BY <3>2, SameStateType DEF TablesTypeOK
    <3> QED
      BY <1>3, <3>1, <3>2 DEF Continue, ReadHead, ReadReceipt, BookFinal, CheckGuard
  <2> QED
    BY <2>1, <2>2, <2>3 DEF TablesTypeOK, ChainTypeOK, chainVars
<1>4. CASE PollThrows
  <2>1. ChainTypeOK' /\ faults'["ack"] = faults["ack"]
    BY <1>4, SpendKeepsChain, SpendType DEF PollThrows, FaultKinds, TablesTypeOK, ChainTypeOK
  <2>2. watcher \in [Watchers -> WatcherRecord]
    BY WatchersType DEF ListenerInv
  <2>3. ListenerInv'
    <3>1. watcher' = [watcher EXCEPT ![Poll] = WatcherIdle] /\ UNCHANGED <<row, ledger, blocks>>
      BY <1>4 DEF PollThrows, stateVars
    <3>2. /\ watcher' \in [Watchers -> WatcherRecord]
          /\ \A w \in Watchers : watcher'[w] \in {watcher[w], WatcherIdle}
      BY <2>2, <3>1, IdleType
    <3> QED
      BY <3>1, <3>2, LenIsNat, OutsideStep DEF TablesTypeOK
  <2> QED
    BY <1>4, <2>1, <2>3, SameStateType DEF PollThrows, TablesTypeOK
<1> QED
  BY <1>1, <1>2, <1>3, <1>4 DEF Watch, PollRead, chainVars

\* The process exits: what the watchers remember is gone, nothing else.
LEMMA ExitKeepsListener ==
  ASSUME ListenerInv, ChainTypeOK, ListenerExit, UNCHANGED <<row, ledger, blocks>>
  PROVE  ListenerInv'
BY IdleType, LenIsNat, OutsideStep DEF ListenerExit

\* The node goes on: blocks are mined, replaced, transactions dropped.
LEMMA ChainKeepsListener ==
  ASSUME ListenerInv, ChainTypeOK, ChainNext, UNCHANGED <<row, listenerVars>>
  PROVE  ListenerInv'
<1>1. /\ Len(blocks) \in Nat /\ Len(blocks') \in Nat /\ Len(blocks) <= Len(blocks')
  <2>1. ChainTypeOK'
    BY ChainStepType
  <2>2. Len(blocks)' \in Nat
    BY <2>1, LenProperties DEF ChainTypeOK
  <2> QED
    BY <2>2, LenIsNat, DeepBlocksStay
<1>2. watcher' = watcher /\ ledger' = ledger /\ watcher \in [Watchers -> WatcherRecord]
  BY WatchersType DEF ListenerInv, listenerVars
<1> QED
  BY <1>1, <1>2, OutsideStep

----------------------------------------------------------------------------
(* The listener on its own. *)

LEMMA OpenInitInv ==
  ASSUME OpenInit, IsFiniteSet(Settlements)
  PROVE  TablesTypeOK /\ ListenerInv
<1>1. PICK nonce \in [Settlements -> 0 .. Cardinality(Settlements) - 1], fee \in MarketFees :
        /\ sent = {[sid |-> s, nonce |-> nonce[s], fee |-> fee] : s \in Settlements}
        /\ row = [s \in Settlements |->
                    [status |-> "SUBMITTED", tx |-> [sid |-> s, nonce |-> nonce[s], fee |-> fee],
                     nonce |-> nonce[s], retry |-> 0, cblock |-> Null]]
  BY DEF OpenInit
<1>2. fee \in Nat /\ \A s \in Settlements : nonce[s] \in Nat
  BY FS_CardinalityType, ChainAssumption
<1>3. \A s \in Settlements : [sid |-> s, nonce |-> nonce[s], fee |-> fee] \in Txs
  BY <1>2 DEF Txs
<1>4. ChainTypeOK
  <2>1. sent \subseteq Txs /\ pool = sent
    BY <1>1, <1>3 DEF OpenInit
  <2>2. blocks = <<>> /\ faults \in [FaultKinds -> Nat]
    BY ChainAssumption DEF OpenInit
  <2> QED
    BY <2>1, <2>2, EmptySeq DEF ChainTypeOK
<1>5. StateTypeOK
  <2>1. \A s \in Settlements :
          [status |-> "SUBMITTED", tx |-> [sid |-> s, nonce |-> nonce[s], fee |-> fee],
           nonce |-> nonce[s], retry |-> 0, cblock |-> Null] \in Row
    BY <1>2, <1>3 DEF Row, Statuses
  <2>2. row \in [Settlements -> Row]
    BY <1>1, <2>1
  <2>3. <<"SUBMITTED">> \in Seq(EventStatuses)
    BY DEF EventStatuses
  <2>4. outbox \in [Settlements -> Seq(EventStatuses)]
    BY <2>3 DEF OpenInit
  <2> QED
    BY <2>2, <2>4 DEF StateTypeOK
<1>6. \A s \in Settlements : OnChain(s) /\ row[s].status = "SUBMITTED"
  BY <1>1, <1>2, <1>3 DEF OnChain, EventStatuses
<1>7. ledger = [s \in Settlements |-> [a \in Accounts |-> 0]]
      /\ watcher = [w \in Watchers |-> WatcherIdle]
  BY DEF OpenInit, ListenerInit, LedgerInit
<1>8. ListenerTypeOK
  BY <1>7, IdleType, WatchersType DEF LedgerTypeOK
<1>9. RowsOnChain
  BY <1>6 DEF RowsOnChain, OnChain
<1>10. \A w \in Watchers : Sound(watcher[w])
  <2>1. Len(blocks) \in Nat
    BY <1>4, LenIsNat
  <2> QED
    BY <1>7, <2>1 DEF Sound, WatcherIdle, Deciding
<1>11. LedgerBalanced /\ FinalIsBooked
  BY <1>6, <1>7 DEF LedgerBalanced, FinalIsBooked, Accounts
<1> QED
  BY <1>4, <1>5, <1>8, <1>9, <1>10, <1>11 DEF TablesTypeOK, ListenerInv

LEMMA ListenerInvStep ==
  ASSUME TablesTypeOK, ListenerInv, [ListenerNext]_allVars
  PROVE  TablesTypeOK' /\ ListenerInv'
<1>1. CASE Watch
  BY <1>1, WatchKeeps
<1>2. CASE ListenerCrash
  <2>1. ListenerInv'
    BY <1>2, ExitKeepsListener DEF ListenerCrash, TablesTypeOK, stateVars
  <2> QED
    BY <1>2, <2>1, SpendKeepsChain, SameStateType DEF ListenerCrash, TablesTypeOK, FaultKinds
<1>3. CASE ChainNext /\ UNCHANGED <<stateVars, listenerVars>>
  <2>1. ListenerInv'
    BY <1>3, ChainKeepsListener DEF TablesTypeOK, stateVars
  <2> QED
    BY <1>3, <2>1, ChainStepType, SameStateType DEF TablesTypeOK
<1>4. CASE UNCHANGED allVars
  <2>1. watcher \in [Watchers -> WatcherRecord]
    BY WatchersType DEF ListenerInv
  <2>2. ListenerInv'
    BY <1>4, <2>1, LenIsNat, OutsideStep DEF allVars, chainVars, stateVars, listenerVars, TablesTypeOK
  <2> QED
    BY <1>4, <2>2 DEF allVars, TablesTypeOK, ChainTypeOK, StateTypeOK, chainVars, stateVars
<1> QED
  BY <1>1, <1>2, <1>3, <1>4 DEF ListenerNext

LEMMA ListenerInvariant ==
  ASSUME IsFiniteSet(Settlements)
  PROVE  ListenerSpec => [](TablesTypeOK /\ ListenerInv)
<1>1. OpenInit => TablesTypeOK /\ ListenerInv
  BY OpenInitInv
<1>2. TablesTypeOK /\ ListenerInv /\ [ListenerNext]_allVars => (TablesTypeOK /\ ListenerInv)'
  BY ListenerInvStep
<1> QED
  BY <1>1, <1>2, PTL DEF ListenerSpec

\* OpenTypeOK: the listener's variables, the rows and the chain keep their types.
THEOREM ListenerTypeCorrect ==
  ASSUME IsFiniteSet(Settlements)
  PROVE  ListenerSpec => []OpenTypeOK
<1>1. TablesTypeOK /\ ListenerInv => OpenTypeOK
  BY DEF TablesTypeOK, ListenerInv, OpenTypeOK
<1> QED
  BY <1>1, ListenerInvariant, PTL

\* LedgerBalanced: however many watchers finalise a settlement, it has one row
\* in each account or none (recordSettlementFinalized, called by finalize).
THEOREM BookedOnceInBoth ==
  ASSUME IsFiniteSet(Settlements)
  PROVE  ListenerSpec => []LedgerBalanced
<1>1. ListenerInv => LedgerBalanced
  BY DEF ListenerInv
<1> QED
  BY <1>1, ListenerInvariant, PTL

\* FinalIsBooked: finalize writes FINAL after its booking only, and a crash, a
\* rejected call or another watcher between the two leaves no FINAL unbooked.
THEOREM FinalAfterBooking ==
  ASSUME IsFiniteSet(Settlements)
  PROVE  ListenerSpec => []FinalIsBooked
<1>1. ListenerInv => FinalIsBooked
  BY DEF ListenerInv
<1> QED
  BY <1>1, ListenerInvariant, PTL


----------------------------------------------------------------------------
(* The block of a confirmation. *)

LEMMA WatchKeepsRecordedBlock ==
  ASSUME ListenerInv, TablesTypeOK, BlockRecordedWhenConfirmed, Watch
  PROVE  BlockRecordedWhenConfirmed'
<1>1. CASE UNCHANGED row
  BY <1>1 DEF BlockRecordedWhenConfirmed
<1>2. ASSUME NEW w \in Watchers, WriteStatus(w)
      PROVE  BlockRecordedWhenConfirmed'
  <2> DEFINE next == VerdictRow(w)
             id == watcher[w].cur.id
             to == watcher[w].to
             block == watcher[w].block
  <2>1. /\ watcher[w].cur \in OpenRow
        /\ to \in EventStatuses
        /\ \A u \in Settlements : row'[u] = IF u = id THEN next ELSE row[u]
    BY <1>2, WriteFacts
  <2>2. /\ next.status = to
        /\ next.cblock = IF to = "CONFIRMED" THEN block
                         ELSE IF to = "SUBMITTED" THEN Null ELSE row[id].cblock
    BY <2>1, WatcherFields, VerdictRowFacts DEF TablesTypeOK, EventStatuses
  <2>3. to = "CONFIRMED" => block # Null
    BY WatcherFields DEF Sound
  <2> HIDE DEF next, id, to, block
  <2> QED
    BY <2>1, <2>2, <2>3 DEF BlockRecordedWhenConfirmed
<1> QED
  BY <1>1, <1>2 DEF Watch, PollRead, EventRead, Continue, ReadHead, ReadReceipt, BookFinal,
     CheckGuard, PollThrows, stateVars

\* BlockRecordedWhenConfirmed: whatever the watchers overwrite of each other's
\* work, a CONFIRMED row names its block and a SUBMITTED one none (handleReorg).
THEOREM ConfirmationNamesBlock ==
  ASSUME IsFiniteSet(Settlements)
  PROVE  ListenerSpec => []BlockRecordedWhenConfirmed
<1>1. OpenInit => BlockRecordedWhenConfirmed
  BY DEF OpenInit, BlockRecordedWhenConfirmed
<1>2. /\ TablesTypeOK /\ ListenerInv /\ BlockRecordedWhenConfirmed
      /\ [ListenerNext]_allVars
      => BlockRecordedWhenConfirmed'
  <2> SUFFICES ASSUME TablesTypeOK, ListenerInv, BlockRecordedWhenConfirmed,
                      [ListenerNext]_allVars
               PROVE  BlockRecordedWhenConfirmed'
    OBVIOUS
  <2>1. CASE Watch
    BY <2>1, WatchKeepsRecordedBlock
  <2>2. CASE UNCHANGED row
    BY <2>2 DEF BlockRecordedWhenConfirmed
  <2> QED
    BY <2>1, <2>2 DEF ListenerNext, ListenerCrash, allVars, stateVars
<1> QED
  BY <1>1, <1>2, ListenerInvariant, PTL DEF ListenerSpec

----------------------------------------------------------------------------
(* What is booked was paid, and stays paid. *)

\* Settlement s was paid in block i, deeper than any reorganisation reaches.
DeepPayment(s, i) == i \in Payments(s) /\ i <= Len(blocks) - MaxReorgDepth

\* The ledger, and a watcher about to write to it, rest on such a payment.
DeepInv ==
  /\ \A s \in Settlements : Booked(s) => \E i \in Nat : DeepPayment(s, i)
  /\ \A w \in Watchers :
       watcher[w].pc = "book" => \E i \in Nat : DeepPayment(watcher[w].cur.id, i)

LEMMA DeepPaymentStays ==
  ASSUME ChainTypeOK, ChainNext, NEW s, NEW i \in Nat, DeepPayment(s, i)
  PROVE  DeepPayment(s, i)' /\ blocks'[i] = blocks[i]
<1>1. Len(blocks) \in Nat /\ DOMAIN blocks = 1 .. Len(blocks) /\ MaxReorgDepth \in Nat
  BY LenIsNat, ChainAssumption
<1>2. Len(blocks') \in Nat /\ DOMAIN blocks' = 1 .. Len(blocks')
  <2>1. ChainTypeOK'
    BY ChainStepType
  <2> QED
    BY <2>1, LenProperties DEF ChainTypeOK
<1>3. i \in 1 .. Len(blocks) /\ i <= Len(blocks) - MaxReorgDepth
  BY <1>1 DEF DeepPayment, Payments
<1>4. /\ Len(blocks) <= Len(blocks')
      /\ \A j \in 1 .. Len(blocks) - MaxReorgDepth : blocks'[j] = blocks[j]
  BY DeepBlocksStay
<1>5. blocks'[i] = blocks[i]
  BY <1>1, <1>3, <1>4
<1> QED
  BY <1>1, <1>2, <1>3, <1>4, <1>5 DEF DeepPayment, Payments

\* A watcher that decides FINAL saw the transfer mined deeper than any
\* reorganisation reaches, however old the head it counted from.
LEMMA FinalVerdictIsDeep ==
  ASSUME ListenerInv, TablesTypeOK, MaxReorgDepth < ConfirmationsFinal,
         NEW w \in Watchers, NEW s \in watcher[w].list,
         Verdict(w, s, Receipt(s.tx)) = "FINAL"
  PROVE  \E i \in Nat : /\ DeepPayment(s.id, i)
                        /\ s.cblock \in {Null, [height |-> i, fork |-> blocks[i].fork]}
<1> DEFINE receipt == Receipt(s.tx)
           head == watcher[w].head
<1>1. /\ receipt # Null
      /\ receipt.ok
      /\ Confirmations(head, receipt) >= ConfirmationsFinal
      /\ s.cblock = Null \/ s.cblock = BlockId(receipt)
  BY VerdictFacts
<1>2. PICK h \in DOMAIN blocks :
        /\ blocks[h].tx = s.tx
        /\ receipt = [height |-> h, fork |-> blocks[h].fork, ok |-> blocks[h].ok]
  BY <1>1, ReceiptFacts DEF TablesTypeOK
<1>3. watcher[w] \in WatcherRecord /\ Sound(watcher[w])
  BY WatcherFields
<1>4. head \in Nat /\ head <= Len(blocks) /\ s.tx \in Txs /\ s.tx.sid = s.id
  BY <1>3 DEF WatcherRecord, Sound
<1>5. Len(blocks) \in Nat /\ h \in 1 .. Len(blocks)
      /\ MaxReorgDepth \in Nat /\ ConfirmationsFinal \in Nat
  BY <1>2, LenIsNat, ChainAssumption, ListenerAssumption DEF TablesTypeOK
<1> HIDE DEF receipt, head
<1>6. head - h + 1 >= ConfirmationsFinal /\ blocks[h].ok
  BY <1>1, <1>2 DEF Confirmations
<1>7. h <= Len(blocks) - MaxReorgDepth
  BY <1>4, <1>5, <1>6
<1>8. DeepPayment(s.id, h)
  BY <1>2, <1>4, <1>6, <1>7, ChainAssumption DEF DeepPayment, Payments
<1>9. s.cblock \in {Null, [height |-> h, fork |-> blocks[h].fork]}
  BY <1>1, <1>2 DEF BlockId
<1> QED
  BY <1>5, <1>8, <1>9

\* What a step of the listener does to one watcher: nothing, or
Rests(v) == watcher'[v].pc \notin Deciding /\ watcher'[v].list \subseteq watcher[v].list

Reads(v) ==
  /\ watcher'[v].pc = "head"
  /\ \E seen \in SUBSET WithStatus(OpenStatuses) : watcher'[v].list = {Open(s) : s \in seen}
  /\ UNCHANGED row

Decides(v) ==
  /\ watcher'[v].list = watcher[v].list
  /\ watcher'[v].cur \in watcher[v].list
  /\ watcher'[v].to = Verdict(v, watcher'[v].cur, Receipt(watcher'[v].cur.tx))
  /\ watcher'[v].pc = IF watcher'[v].to = "FINAL" THEN "book" ELSE "check"
  /\ UNCHANGED row

Proceeds(v, from, next) ==
  /\ watcher[v].pc = from /\ watcher'[v].pc = next
  /\ watcher'[v].list = watcher[v].list
  /\ watcher'[v].cur = watcher[v].cur
  /\ watcher'[v].to = watcher[v].to
  /\ UNCHANGED row

Moves(v) ==
  \/ watcher'[v] = watcher[v]
  \/ Rests(v)
  \/ Reads(v)
  \/ Decides(v)
  \/ Proceeds(v, "book", "check")
  \/ Proceeds(v, "check", "write")
       /\ row[watcher[v].cur.id].status \in ExpectedFrom(watcher[v].to)

LEMMA ReadMoves ==
  ASSUME ListenerInv, NEW w \in Watchers, NEW v \in Watchers, UNCHANGED row,
         NEW seen \in SUBSET WithStatus(OpenStatuses),
         watcher' = [watcher EXCEPT ![w] =
           [WatcherIdle EXCEPT !.pc = "head", !.list = {Open(s) : s \in seen}]]
  PROVE  Moves(v)
<1> DEFINE list == {Open(s) : s \in seen}
<1>1. watcher \in [Watchers -> WatcherRecord]
  BY WatchersType DEF ListenerInv
<1>2. watcher' = [watcher EXCEPT ![w] = [WatcherIdle EXCEPT !.pc = "head", !.list = list]]
  OBVIOUS
<1> HIDE DEF list
<1>3. v # w => watcher'[v] = watcher[v]
  BY <1>1, <1>2
<1>4. v = w => watcher'[v].pc = "head" /\ watcher'[v].list = list
  BY <1>1, <1>2 DEF WatcherIdle
<1> QED
  BY <1>3, <1>4 DEF Moves, Reads, list

LEMMA ReceiptMoves ==
  ASSUME ListenerInv, NEW v \in Watchers, NEW s \in watcher[v].list, ReadReceipt(v, s)
  PROVE  Moves(v)
<1> DEFINE to == Verdict(v, s, Receipt(s.tx))
<1>1. watcher \in [Watchers -> WatcherRecord] /\ row' = row
  BY WatchersType DEF ListenerInv, ReadReceipt, stateVars
<1>2. CASE to = "NONE"
  <2>1. watcher'[v] = After(v, s)
    BY <1>1, <1>2, Zenon DEF ReadReceipt
  <2> QED
    BY <1>1, <2>1, AfterFacts DEF Moves, Rests, Deciding
<1>3. CASE to # "NONE"
  <2> DEFINE me == watcher[v]
             pc == IF to = "FINAL" THEN "book" ELSE "check"
             block == IF Receipt(s.tx) = Null THEN Null ELSE BlockId(Receipt(s.tx))
  <2>1. watcher'[v] = [me EXCEPT !.pc = pc, !.cur = s, !.to = to, !.block = block]
    BY <1>1, <1>3, Zenon DEF ReadReceipt
  <2>2. me \in WatcherRecord
    BY <1>1
  <2> HIDE DEF me, pc, block, to
  <2>3. watcher'[v].pc = pc /\ watcher'[v].cur = s /\ watcher'[v].to = to /\ watcher'[v].list = me.list
    BY <2>1, <2>2 DEF WatcherRecord
  <2> QED
    BY <1>1, <2>3 DEF Moves, Decides, to, pc, me
<1> QED
  BY <1>2, <1>3

LEMMA WatcherMoves ==
  ASSUME ListenerInv, Watch, NEW v \in Watchers
  PROVE  Moves(v)
<1>1. watcher \in [Watchers -> WatcherRecord]
  BY WatchersType DEF ListenerInv
<1>2. CASE PollRead
  BY <1>2, ReadMoves DEF PollRead, Watchers, stateVars
<1>3. ASSUME NEW w \in EventHandlers, NEW s \in Settlements, EventRead(w, s)
      PROVE  Moves(v)
  <2> DEFINE seen == {s}
  <2>1. seen \in SUBSET WithStatus(OpenStatuses) /\ {Open(s)} = {Open(u) : u \in seen}
    BY <1>3 DEF EventRead, WithStatus
  <2>2. watcher' = [watcher EXCEPT ![w] =
          [WatcherIdle EXCEPT !.pc = "head", !.list = {Open(u) : u \in seen}]]
    BY <1>3, <2>1 DEF EventRead
  <2>3. w \in Watchers /\ UNCHANGED row
    BY <1>3 DEF EventRead, Watchers, stateVars
  <2> HIDE DEF seen
  <2> QED
    BY <2>1, <2>2, <2>3, ReadMoves
<1>4. CASE PollThrows
  BY <1>1, <1>4 DEF PollThrows, WatcherIdle, Moves, Rests, Deciding
<1>5. ASSUME NEW w \in Watchers, Continue(w)
      PROVE  Moves(v)
  <2>1. CASE v # w
    <3>1. \E r : watcher' = [watcher EXCEPT ![w] = r]
      <4>1. CASE ReadHead(w)
        BY <4>1 DEF ReadHead
      <4>2. CASE \E s \in watcher[w].list : ReadReceipt(w, s)
        BY <4>2 DEF ReadReceipt
      <4>3. CASE BookFinal(w)
        BY <4>3 DEF BookFinal
      <4>4. CASE CheckGuard(w)
        BY <4>4 DEF CheckGuard
      <4>5. CASE WriteStatus(w)
        BY <4>5 DEF WriteStatus
      <4> QED
        BY <1>5, <4>1, <4>2, <4>3, <4>4, <4>5 DEF Continue
    <3> QED
      BY <1>1, <2>1, <3>1 DEF Moves
  <2>2. CASE ReadHead(v)
    BY <1>1, <2>2 DEF ReadHead, WatcherRecord, Moves, Rests, Deciding
  <2>3. CASE BookFinal(v)
    BY <1>1, <2>3 DEF BookFinal, WatcherRecord, Moves, Proceeds, stateVars
  <2>4. CASE CheckGuard(v)
    <3>1. CASE row[watcher[v].cur.id].status \in ExpectedFrom(watcher[v].to)
      <4>1. watcher' = [watcher EXCEPT ![v] = [watcher[v] EXCEPT !.pc = "write"]]
        BY <1>1, <2>4, <3>1 DEF CheckGuard
      <4> QED
        BY <1>1, <2>4, <3>1, <4>1 DEF CheckGuard, WatcherRecord, Moves, Proceeds, stateVars
    <3>2. CASE row[watcher[v].cur.id].status \notin ExpectedFrom(watcher[v].to)
      BY <1>1, <2>4, <3>2, AfterFacts DEF CheckGuard, Moves, Rests, Deciding
    <3> QED
      BY <3>1, <3>2
  <2>5. CASE WriteStatus(v)
    BY <1>1, <2>5, AfterFacts DEF WriteStatus, Moves, Rests, Deciding
  <2> QED
    BY <1>5, <2>1, <2>2, <2>3, <2>4, <2>5, ReceiptMoves DEF Continue
<1> QED
  BY <1>2, <1>3, <1>4, <1>5 DEF Watch

\* Whoever is about to book was so before, or has just read the receipt.
LEMMA BookingWatchers ==
  ASSUME ListenerInv, TablesTypeOK, Watch, NEW v \in Watchers, watcher'[v].pc = "book"
  PROVE  \/ watcher'[v].cur = watcher[v].cur /\ watcher[v].pc = "book"
         \/ \E s \in watcher[v].list : /\ Verdict(v, s, Receipt(s.tx)) = "FINAL"
                                       /\ watcher'[v].cur = s
BY WatcherMoves DEF Moves, Rests, Reads, Decides, Proceeds, Deciding

LEMMA WatchKeepsDeep ==
  ASSUME ListenerInv, TablesTypeOK, MaxReorgDepth < ConfirmationsFinal, DeepInv, Watch
  PROVE  DeepInv'
<1>1. blocks' = blocks
  BY WatchKeeps
<1>2. \A s : \A i \in Nat : DeepPayment(s, i)' <=> DeepPayment(s, i)
  BY <1>1 DEF DeepPayment, Payments
<1>3. ASSUME NEW s \in Settlements, Booked(s)'
      PROVE  \E i \in Nat : DeepPayment(s, i)
  <2>1. CASE ledger' = ledger
    BY <1>3, <2>1 DEF DeepInv, Booked
  <2>2. ASSUME NEW w \in Watchers, BookFinal(w)
        PROVE  \E i \in Nat : DeepPayment(s, i)
    <3>1. watcher[w] \in WatcherRecord /\ watcher[w].pc = "book" /\ Book(watcher[w].cur.id)
      BY <2>2, WatcherFields DEF BookFinal
    <3>2. watcher[w].cur.id \in Settlements
      BY <3>1 DEF WatcherRecord, Deciding, OpenRow
    <3>3. Booked(s) \/ s = watcher[w].cur.id
      BY <1>3, <3>1, <3>2, BookFacts DEF ListenerInv, ListenerTypeOK
    <3> QED
      BY <3>1, <3>3 DEF DeepInv
  <2> QED
    BY <2>1, <2>2 DEF Watch, PollRead, EventRead, Continue, ReadHead, ReadReceipt, CheckGuard,
       WriteStatus, PollThrows
<1>4. ASSUME NEW v \in Watchers, watcher'[v].pc = "book"
      PROVE  \E i \in Nat : DeepPayment(watcher'[v].cur.id, i)
  <2>1. CASE watcher'[v].cur = watcher[v].cur /\ watcher[v].pc = "book"
    BY <2>1 DEF DeepInv
  <2>2. ASSUME NEW s \in watcher[v].list, Verdict(v, s, Receipt(s.tx)) = "FINAL",
               watcher'[v].cur = s
        PROVE  \E i \in Nat : DeepPayment(watcher'[v].cur.id, i)
    BY <2>2, FinalVerdictIsDeep
  <2> QED
    BY <1>4, <2>1, <2>2, BookingWatchers
<1>5. \A s \in Settlements : Booked(s)' => \E i \in Nat : DeepPayment(s, i)'
  BY <1>2, <1>3
<1>6. \A v \in Watchers : watcher'[v].pc = "book" => \E i \in Nat : DeepPayment(watcher[v].cur.id, i)'
  <2> SUFFICES ASSUME NEW v \in Watchers, watcher'[v].pc = "book"
               PROVE  \E i \in Nat : DeepPayment(watcher[v].cur.id, i)'
    OBVIOUS
  <2>1. PICK u : u = watcher'[v].cur.id
    OBVIOUS
  <2>2. \E i \in Nat : DeepPayment(u, i)'
    BY <1>2, <1>4, <2>1
  <2> QED
    BY <2>1, <2>2 DEF DeepPayment, Payments
<1> QED
  BY <1>5, <1>6 DEF DeepInv

\* The chain goes on, or the process exits.
LEMMA OutsideKeepsDeep ==
  ASSUME ChainTypeOK, DeepInv, UNCHANGED ledger,
         ChainNext \/ UNCHANGED blocks,
         UNCHANGED watcher \/ ListenerExit
  PROVE  DeepInv'
<1>1. \A s : \A i \in Nat : DeepPayment(s, i) => DeepPayment(s, i)'
  <2>1. CASE UNCHANGED blocks
    BY <2>1 DEF DeepPayment, Payments
  <2>2. CASE ChainNext
    BY <2>2, DeepPaymentStays
  <2> QED
    BY <2>1, <2>2
<1>2. \A s \in Settlements : Booked(s)' => \E i \in Nat : DeepPayment(s, i)'
  BY <1>1 DEF DeepInv, Booked
<1>3. \A w \in Watchers : watcher'[w].pc = "book" => \E i \in Nat : DeepPayment(watcher[w].cur.id, i)'
  <2>1. CASE ListenerExit
    BY <2>1 DEF ListenerExit, WatcherIdle
  <2>2. CASE UNCHANGED watcher
    <3> SUFFICES ASSUME NEW w \in Watchers, watcher[w].pc = "book"
                 PROVE  \E i \in Nat : DeepPayment(watcher[w].cur.id, i)'
      BY <2>2
    <3>1. PICK u : u = watcher[w].cur.id
      OBVIOUS
    <3>2. \E i \in Nat : DeepPayment(u, i)'
      BY <1>1, <3>1 DEF DeepInv
    <3> QED
      BY <2>2, <3>1, <3>2 DEF DeepPayment, Payments
  <2> QED
    BY <2>1, <2>2
<1> QED
  BY <1>2, <1>3 DEF DeepInv

LEMMA DeepIsPaid == DeepInv => BookedStaysPaid
BY DEF DeepInv, BookedStaysPaid, DeepPayment, Paid

\* BookedStaysPaid: what the ledger holds was paid on the chain and no
\* reorganisation undoes it, when reorganisations stay shallower than
\* CONFIRMATIONS_FINAL; without that bound it fails.
THEOREM LedgerFollowsChain ==
  ASSUME IsFiniteSet(Settlements), MaxReorgDepth < ConfirmationsFinal
  PROVE  ListenerSpec => []BookedStaysPaid
<1>1. OpenInit => DeepInv
  BY DEF OpenInit, ListenerInit, LedgerInit, WatcherIdle, DeepInv, Booked
<1>2. TablesTypeOK /\ ListenerInv /\ DeepInv /\ [ListenerNext]_allVars => DeepInv'
  <2> SUFFICES ASSUME TablesTypeOK, ListenerInv, DeepInv, [ListenerNext]_allVars
               PROVE  DeepInv'
    OBVIOUS
  <2>1. CASE Watch
    BY <2>1, WatchKeepsDeep
  <2>2. CASE ListenerCrash \/ UNCHANGED allVars
    BY <2>2, OutsideKeepsDeep DEF TablesTypeOK, ListenerCrash, allVars, chainVars, listenerVars
  <2>3. CASE ChainNext /\ UNCHANGED <<stateVars, listenerVars>>
    BY <2>3, OutsideKeepsDeep DEF TablesTypeOK, listenerVars
  <2> QED
    BY <2>1, <2>2, <2>3 DEF ListenerNext
<1> QED
  BY <1>1, <1>2, DeepIsPaid, ListenerInvariant, PTL DEF ListenerSpec

=============================================================================
